--------------------------------- MODULE Hbci ---------------------------------
(***************************************************************************)
(* The firmware download of phNxpUciHal_fwd.cc: the boot ROM of the UWB    *)
(* chip is asked what it is, put in HIF image mode, given the image in     *)
(* acknowledged segments and asked what became of it. An unsuccessful      *)
(* download is repeated as phNxpUciHal_coreInitialization does.            *)
(*                                                                         *)
(* Host and chip take turns: the host writes an APDU, the chip handles it, *)
(* the host reads the answer. What is written follows from where the host  *)
(* is, api. The answer lands in gphHbci_MisoApdu, which a read that is cut *)
(* short leaves, wholly or partly, as it was.                              *)
(***************************************************************************)
EXTENDS Integers, Sequences

CONSTANTS
  PHHBCI_MAX_LEN_DATA_MOSI,  \* bytes in a segment
  PHHIF_MAX_IMAGE_SZ,
  BufferSz,                  \* sizeof(pImg)
  FWD_MAX_RETRY_COUNT,
  Kinds,                     \* development and production, of chips and images
  FileSizes,                 \* sizes an image file may have
  Mishaps, MaxFaults         \* what may go wrong, and how often

ASSUME HbciAssumption ==
  /\ PHHBCI_MAX_LEN_DATA_MOSI \in Nat \ {0}
  /\ PHHIF_MAX_IMAGE_SZ \in Nat /\ BufferSz \in Nat
  /\ FWD_MAX_RETRY_COUNT \in Nat /\ MaxFaults \in Nat
  /\ FileSizes \subseteq Nat
  /\ Mishaps \subseteq {"write", "read", "empty", "partial", "refuse",
                        "garbled", "again", "file"}

VARIABLES
  api,              \* the exchange the host is in, or what it does next
  bus,              \* whose turn it is
  miso,             \* gphHbci_MisoApdu: class and instruction
  query,            \* the status it asks for in phHbci_MasterHIFImage
  deviceLcInfo,     \* what it takes the chip for
  imgSz, rest,      \* bytes of the image, and of those still to send
  fImg, fwd,        \* the image file is open, the chip is in forward mode
  fwd_retry_count, result,
  \* The chip.
  answer, chip,
  segment,          \* the payload it expects: announced size, whether the last
  image,            \* what it received
  lc,               \* its life cycle
  present, sizes,   \* the image files
  \* History.
  faulted, faults

optVars == <<deviceLcInfo, imgSz, fImg, fwd>>
chipVars == <<answer, chip, segment, image>>
envVars == <<lc, present, sizes>>
faultVars == <<faulted, faults>>
vars == <<api, bus, miso, query, optVars, rest, fwd_retry_count, result,
          chipVars, envVars, faultVars>>

-----------------------------------------------------------------------------
(* APDUs by class and instruction. The codes are those of the header file: *)
(* a valid acknowledgement and a successful image have the same one.       *)
Apdu(cls, ins) == [cls |-> cls, ins |-> ins]
HBCI_Ready == 33
HIF_Image_Ready == 36
HBCI_Fail == 225
Refused == 129        \* any code with PHHBCI_ERROR_STATUS_MASK
Ack == Apdu("ack", 1)
Nack == Apdu("ack", Refused)
Image_Success == Apdu("hif_answer", 1)
Codes == {0, 1, HBCI_Ready, HIF_Image_Ready, HBCI_Fail, Refused}
Apdus == [cls : {"none", "general_answer", "ack", "hif_answer"}, ins : Codes]

NoSegment == [size |-> 0, last |-> FALSE]
(* n bytes of an image, after the first ones.                              *)
Bytes(kind, first, n) == [i \in 1 .. n |-> <<kind, first + i>>]

Init ==
  /\ api = "start" /\ bus = "host" /\ query = "status"
  /\ miso \in {Apdu("none", 0), Image_Success}
  /\ deviceLcInfo \in Kinds \union {"other"} /\ imgSz = 0 /\ rest = 0
  /\ fImg = FALSE /\ fwd = FALSE
  /\ fwd_retry_count = 0 /\ result = "none"
  /\ answer = Ack /\ chip = "off" /\ segment = NoSegment /\ image = <<>>
  /\ lc \in Kinds /\ present \in SUBSET Kinds /\ sizes \in [Kinds -> FileSizes]
  /\ faulted = {} /\ faults = 0

Fault(mishap) ==
  /\ mishap \in Mishaps /\ faults < MaxFaults
  /\ faulted' = faulted \union {mishap} /\ faults' = faults + 1
NoFault == UNCHANGED faultVars

-----------------------------------------------------------------------------
(* How a download ends. What fails before init returns without cleanup.    *)
Cleanup == fwd' = FALSE /\ fImg' = FALSE
Failure ==
  /\ api' = "retry"
  /\ IF api \in {"lc", "id"} THEN UNCHANGED <<fImg, fwd>> ELSE Cleanup
  /\ UNCHANGED <<query, deviceLcInfo, imgSz, rest, result>>
Success ==
  /\ api' = "done" /\ result' = "success" /\ Cleanup
  /\ UNCHANGED <<query, deviceLcInfo, imgSz, rest>>
Proceed(then) == api' = then /\ UNCHANGED <<optVars, result>>

RetryUncounted ==
  /\ api = "retry" /\ api' = "start"
  /\ UNCHANGED <<bus, miso, query, optVars, rest, fwd_retry_count, result,
                 chipVars, envVars, faultVars>>
(* Another try, or not. A missing file is not tried again.                 *)
Retry ==
  /\ api = "retry"
  /\ fwd_retry_count' = fwd_retry_count + 1
  /\ IF fwd_retry_count < FWD_MAX_RETRY_COUNT
       THEN api' = "start" /\ UNCHANGED result
       ELSE api' = "done" /\ result' = "failed"
  /\ UNCHANGED <<bus, miso, query, optVars, rest, chipVars, envVars, faultVars>>

Start ==
  /\ api = "start"
  /\ api' = "lc" /\ bus' = "host" /\ imgSz' = 0 /\ rest' = 0
  /\ fImg' = FALSE /\ fwd' = TRUE
  /\ chip' = "hbci" /\ image' = <<>> /\ segment' = NoSegment
  /\ UNCHANGED <<miso, query, deviceLcInfo, fwd_retry_count, result, answer, envVars, faultVars>>

(* The image for the life cycle that was read: its name, file and size.    *)
SupportedUnchecked(size) == size > 0
Supported(size) ==
  /\ size > 0 /\ size <= PHHIF_MAX_IMAGE_SZ /\ size <= BufferSz
OpenImage ==
  /\ api = "open"
  /\ IF deviceLcInfo \notin Kinds
       THEN Failure /\ NoFault
     ELSE IF deviceLcInfo \notin present
       THEN /\ api' = "done" /\ result' = "missing"
            /\ UNCHANGED <<query, optVars, rest, faultVars>>
     ELSE IF ~ Supported(sizes[deviceLcInfo])
       THEN Failure /\ NoFault
     ELSE \/ /\ api' = "ready" /\ fImg' = TRUE
             /\ imgSz' = sizes[deviceLcInfo]
             /\ UNCHANGED <<query, deviceLcInfo, fwd, rest, result, faultVars>>
          \/ Fault("file") /\ Failure
  /\ UNCHANGED <<bus, miso, fwd_retry_count, chipVars, envVars>>

-----------------------------------------------------------------------------
(* The exchanges. dataSz is what PutCommand sends next, with the segment   *)
(* flag unless it is the last of the image.                                *)
Exchanges == {"lc", "id", "ready", "mode", "status", "header", "payload"}
dataSz == IF rest > PHHBCI_MAX_LEN_DATA_MOSI THEN PHHBCI_MAX_LEN_DATA_MOSI
          ELSE rest
LastSegmentStrict == rest < PHHBCI_MAX_LEN_DATA_MOSI
LastSegment == rest <= PHHBCI_MAX_LEN_DATA_MOSI

PutApdu ==
  /\ api \in Exchanges /\ bus = "host"
  /\ \/ /\ NoFault /\ bus' = "chip"
        /\ UNCHANGED <<api, query, optVars, rest, result>>
     \/ Fault("write") /\ Failure /\ UNCHANGED bus
  /\ UNCHANGED <<miso, fwd_retry_count, chipVars, envVars>>

GeneralStatus(got, ready) == got = Apdu("general_answer", ready)

(* Where the host goes with what is now in gphHbci_MisoApdu.               *)
MasterReady(got) ==
  /\ api = "ready"
  /\ IF GeneralStatus(got, HBCI_Ready)
       THEN Proceed("mode") /\ UNCHANGED <<query, rest>>
       ELSE Failure
MasterMode(got) ==
  /\ api = "mode"
  /\ IF got = Ack
       THEN Proceed("status") /\ query' = "status" /\ UNCHANGED rest
       ELSE Failure
MasterHIFImage(got) ==
  /\ api = "status"
  /\ IF GeneralStatus(got, HIF_Image_Ready)
       THEN Proceed("header") /\ query' = "image" /\ rest' = imgSz
     ELSE IF got = Image_Success THEN Success
     ELSE Failure
PutHeader(got) ==
  /\ api = "header"
  /\ IF got = Ack THEN Proceed("payload") /\ UNCHANGED <<query, rest>>
     ELSE Failure
PutPayloadUnchecked(got) ==
  /\ api = "payload"
  /\ rest' = rest - dataSz
  /\ Proceed(IF rest' > 0 THEN "header" ELSE "status")
  /\ UNCHANGED query
PutPayloadTrusted(got) ==
  /\ api = "payload"
  /\ IF got # Ack THEN Failure
     ELSE IF rest = dataSz THEN Success
     ELSE rest' = rest - dataSz /\ Proceed("header") /\ UNCHANGED query
PutPayload(got) ==
  /\ api = "payload"
  /\ IF got = Ack
       THEN /\ rest' = rest - dataSz
            /\ Proceed(IF rest' > 0 THEN "header" ELSE "status")
            /\ UNCHANGED query
       ELSE Failure

(* Reads put nothing, the class alone, or all of the answer in place.      *)
Received(got) ==
  \/ NoFault /\ got = answer
  \/ Fault("empty") /\ got = miso
  \/ Fault("partial") /\ got = Apdu(answer.cls, miso.ins)

GetApdu ==
  /\ api \in Exchanges \ {"lc", "id"} /\ bus = "answered" /\ bus' = "host"
  /\ \/ Fault("read") /\ Failure /\ UNCHANGED miso
     \/ \E got \in Apdus :
          /\ Received(got) /\ miso' = got
          /\ \/ MasterReady(got) \/ MasterMode(got) \/ MasterHIFImage(got)
             \/ PutHeader(got) \/ PutPayload(got)
  /\ UNCHANGED <<fwd_retry_count, chipVars, envVars>>

(* phHbci_GetDeviceLcInfo and phHbci_GetChipIdInfo read into a buffer that *)
(* is not initialised and check only that the length is neither 0, as in a *)
(* refusal, nor too large: a short read is taken for anything.             *)
Incomplete == {"empty", "partial"}
InfoFails ==
  \/ answer = Nack /\ NoFault
  \/ \E mishap \in Incomplete \union {"read"} : Fault(mishap)
InfoRead(read) ==
  \/ answer # Nack /\ NoFault /\ read
  \/ \E mishap \in Incomplete : Fault(mishap)

GetDeviceLcInfo ==
  /\ api = "lc" /\ bus = "answered" /\ bus' = "host"
  /\ \/ InfoFails /\ Failure
     \/ /\ deviceLcInfo' \in Kinds \union {"other"}
        /\ InfoRead(deviceLcInfo' = lc)
        /\ api' = "id"
        /\ UNCHANGED <<query, imgSz, rest, fImg, fwd, result>>
  /\ UNCHANGED <<miso, fwd_retry_count, chipVars, envVars>>

GetChipIdInfo ==
  /\ api = "id" /\ bus = "answered" /\ bus' = "host"
  /\ \/ InfoFails /\ Failure
     \/ InfoRead(TRUE) /\ Proceed("open") /\ UNCHANGED <<query, rest>>
  /\ UNCHANGED <<miso, fwd_retry_count, chipVars, envVars>>

-----------------------------------------------------------------------------
(* The chip.                                                               *)
WholeImage == Bytes(lc, 0, sizes[lc])

Replies(reply) == answer' = reply /\ UNCHANGED <<chip, segment, image>>

ChipInfo == api \in {"lc", "id"} /\ NoFault /\ Replies(Ack)

ChipStatus ==
  /\ \/ api = "ready"
     \/ api = "status" /\ query = "status"
  /\ NoFault
  /\ Replies(Apdu("general_answer",
                  CASE chip = "hbci" -> HBCI_Ready
                    [] chip = "hif" -> HIF_Image_Ready
                    [] OTHER -> HBCI_Fail))

ChipMode ==
  /\ api = "mode" /\ NoFault
  /\ IF chip = "hbci"
       THEN chip' = "hif" /\ answer' = Ack /\ UNCHANGED <<segment, image>>
       ELSE Replies(Nack)

ChipHeader ==
  /\ api = "header" /\ NoFault
  /\ IF chip \in {"hif", "loading"}
       THEN /\ chip' = "loading" /\ answer' = Ack
            /\ segment' = [size |-> dataSz, last |-> LastSegment]
            /\ UNCHANGED image
       ELSE Replies(Nack)

(* A payload is kept if it is what was announced and its LRC is right; the *)
(* last one shows whether the image is the one for this chip.              *)
ChipPayload ==
  /\ api = "payload"
  /\ IF chip = "loading" /\ segment.size = dataSz
       THEN \/ /\ NoFault /\ answer' = Ack
               /\ image' = image \o Bytes(deviceLcInfo, imgSz - rest, dataSz)
               /\ segment' = NoSegment
               /\ chip' = IF ~ segment.last THEN "loading"
                          ELSE IF image' = WholeImage THEN "loaded" ELSE "bad"
            \/ /\ Fault("garbled") /\ answer' = Nack
               /\ segment' = NoSegment /\ UNCHANGED <<chip, image>>
       ELSE NoFault /\ Replies(Nack)

ChipImageStatus ==
  /\ api = "status" /\ query = "image"
  /\ \/ /\ NoFault
        /\ Replies(IF chip = "loaded" THEN Image_Success
                   ELSE Apdu("hif_answer", Refused))
     \/ /\ Fault("again") /\ answer' = Apdu("general_answer", HIF_Image_Ready)
        /\ chip' = "hif" /\ image' = <<>> /\ segment' = NoSegment

(* A refused status, command, header or payload; the image is not affected. *)
ChipRefuses ==
  /\ Fault("refuse")
  /\ answer' = IF api \in {"ready", "status"}
               THEN Apdu("general_answer", HBCI_Fail) ELSE Nack
  /\ segment' = NoSegment /\ UNCHANGED <<chip, image>>

ChipHandles ==
  /\ bus = "chip" /\ bus' = "answered"
  /\ \/ ChipInfo \/ ChipStatus \/ ChipMode \/ ChipHeader \/ ChipPayload
     \/ ChipImageStatus \/ ChipRefuses
  /\ UNCHANGED <<api, miso, query, optVars, rest, fwd_retry_count, result,
                 envVars>>

-----------------------------------------------------------------------------
Host == \/ Retry \/ Start \/ OpenImage \/ PutApdu \/ GetApdu
        \/ GetDeviceLcInfo \/ GetChipIdInfo
Next == Host \/ ChipHandles
Spec == Init /\ [][Next]_vars
(* The download runs in the caller's thread; the chip answers, or the      *)
(* driver ends the read with an error.                                     *)
FairSpec == Spec /\ WF_vars(Host) /\ WF_vars(ChipHandles)

-----------------------------------------------------------------------------
(* Types. The image fits the buffer it is read to, and what is still to be *)
(* sent is part of it.                                                     *)
HostType ==
  /\ api \in Exchanges \union {"start", "open", "retry", "done"}
  /\ bus \in {"host", "chip", "answered"} /\ query \in {"status", "image"}
  /\ miso \in Apdus
  /\ deviceLcInfo \in Kinds \union {"other"}
  /\ imgSz \in 0 .. BufferSz /\ rest \in 0 .. imgSz
  /\ fImg \in BOOLEAN /\ fwd \in BOOLEAN
  /\ fwd_retry_count \in 0 .. FWD_MAX_RETRY_COUNT + 1
  /\ result \in {"none", "success", "failed", "missing"}
ChipType ==
  /\ answer \in Apdus
  /\ chip \in {"off", "hbci", "hif", "loading", "loaded", "bad"}
  /\ segment \in [size : Nat, last : BOOLEAN]
  /\ image \in Seq((Kinds \union {"other"}) \X Nat)
  /\ lc \in Kinds /\ present \subseteq Kinds /\ sizes \in [Kinds -> FileSizes]
FaultType == faulted \subseteq Mishaps /\ faults \in 0 .. MaxFaults
TypeOK == HostType /\ ChipType /\ FaultType

(* A download that counts as successful has put the whole image for this   *)
(* chip on it. Whether an image was accepted is the chip's answer to the   *)
(* status query; what an earlier exchange, or an earlier download, left in *)
(* gphHbci_MisoApdu is never taken for it, unless a read stops after the   *)
(* class of the answer (phHbci_GetApdu does not compare what it read).     *)
SuccessIsLoaded ==
  result = "success" /\ "partial" \notin faulted =>
    chip = "loaded" /\ image = WholeImage

(* While reads are complete, the chip holds a beginning of the image for   *)
(* it, without a gap or a repetition: every segment starts where the one   *)
(* before ended, a segment the chip did not accept ends the download, and  *)
(* an image that is asked for again starts from its first byte.            *)
SegmentsInOrder ==
  faulted \intersect Incomplete = {} => image = Bytes(lc, 0, Len(image))

(* Each failed attempt is due to a mishap of its own: when the image for   *)
(* the chip is there and fits, and reads are complete, as many retries as  *)
(* there are mishaps suffice, whatever their kind and time.                *)
RetriesSuffice ==
  /\ api = "done"
  /\ lc \in present /\ Supported(sizes[lc])
  /\ faults <= FWD_MAX_RETRY_COUNT /\ faulted \intersect Incomplete = {}
  => result = "success"

(* Between attempts no image file is open, and a chip whose firmware was   *)
(* loaded has left forward mode: every return after fopen goes through     *)
(* cleanup.                                                                *)
NothingLeftOpen ==
  /\ api \in {"start", "retry", "done"} => ~ fImg
  /\ result = "success" => ~ fwd

(* The download ends: every exchange returns, and attempts that fail are    *)
(* counted.  The loop of phHbci_MasterHIFImage has no bound of its own; a  *)
(* chip that asks for the image more than MaxFaults times is not shown.    *)
DownloadReturns == <>(api = "done")

=============================================================================

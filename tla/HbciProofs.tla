------------------------------ MODULE HbciProofs ------------------------------
(***************************************************************************)
(* A download that succeeds has loaded the image, and as many retries as   *)
(* there are mishaps suffice: for every size of segments, images and       *)
(* buffers, any retry limit, and any number of mishaps.                    *)
(*                                                                         *)
(* The invariant follows the exchanges: while reads are complete the chip  *)
(* is where the host takes it to be, it holds the bytes the host has sent, *)
(* and an answer that will end the attempt is paid for by a mishap.        *)
(***************************************************************************)
EXTENDS Hbci, SequenceTheorems, TLAPS

(* Whose turn it is, and how far the retries are.                          *)
Turns ==
  /\ api \notin Exchanges => bus = "host"
  /\ api = "done" <=> result # "none"
  /\ result = "failed" <=> fwd_retry_count > FWD_MAX_RETRY_COUNT
  /\ api \in {"header", "payload"} => rest > 0 /\ query = "image"
  /\ api \in {"lc", "id", "open"} => rest = 0
  /\ api \in {"ready", "mode", "status", "header", "payload"} => imgSz > 0

FilesOpen ==
  /\ fImg => api \in Exchanges \ {"lc", "id"}
  /\ result = "success" => ~ fwd

(* Only the answer of the chip can be read as a success.                   *)
Verdict ==
  /\ chip = "loaded" => image = WholeImage
  /\ api = "status" /\ bus = "answered" /\ answer = Image_Success =>
       chip = "loaded"
  /\ api = "status" /\ "partial" \notin faulted => miso = Ack
  /\ result = "success" /\ "partial" \notin faulted => chip = "loaded"

Complete == faulted \intersect Incomplete = {}
Answered == bus = "answered"
Transfer == {"header", "payload"}
Opened == {"ready", "mode", "status"} \union Transfer

(* The answers with which the host goes on.                                *)
Expected ==
  IF api = "ready" THEN {Apdu("general_answer", HBCI_Ready)}
  ELSE IF api # "status" THEN {Ack}
  ELSE IF query = "status" THEN {Apdu("general_answer", HIF_Image_Ready)}
  ELSE {Apdu("general_answer", HIF_Image_Ready), Image_Success}

(* The chip in each exchange, and what it has received.                    *)
RightImage ==
  /\ api \in {"id", "open"} \union Opened => deviceLcInfo = lc
  /\ api \in Opened => imgSz = sizes[lc]
BeforeImage ==
  /\ api \in {"lc", "id", "open", "ready", "mode"} =>
       /\ image = <<>>
       /\ chip = IF api = "mode" /\ Answered /\ answer = Ack THEN "hif" ELSE "hbci"
  /\ api = "status" /\ query = "status" => image = <<>> /\ chip = "hif"

Announced == chip = "loading" /\ segment = [size |-> dataSz, last |-> LastSegment]
Accepted == api = "payload" /\ Answered /\ answer = Ack
Sending ==
  /\ api = "header" =>
       IF Answered /\ answer = Ack THEN Announced ELSE chip \in {"hif", "loading"}
  /\ api = "payload" /\ ~ Answered => Announced
  /\ Accepted =>
       /\ image = Bytes(lc, 0, imgSz - rest + dataSz)
       /\ chip = IF LastSegment THEN "loaded" ELSE "loading"
  /\ api \in Transfer /\ ~ Accepted => image = Bytes(lc, 0, imgSz - rest)

AfterImage ==
  api = "status" /\ query = "image" =>
    IF Answered /\ answer = Apdu("general_answer", HIF_Image_Ready)
      THEN image = <<>> /\ chip = "hif"
      ELSE chip = "loaded"

InStep == RightImage /\ BeforeImage /\ Sending /\ AfterImage

(* Mishaps pay for the attempts that failed, and for the one that will.    *)
Debt == IF api = "retry" \/ (Answered /\ answer \notin Expected) THEN 1 ELSE 0
Paid ==
  lc \in present /\ Supported(sizes[lc]) =>
    fwd_retry_count + Debt <= faults /\ result # "missing"

IInv ==
  /\ TypeOK /\ Turns /\ FilesOpen /\ Verdict
  /\ Complete => SegmentsInOrder /\ InStep /\ Paid
-----------------------------------------------------------------------------
(* Bytes of an image: how many they are, and how segments join.            *)
LEMMA BytesProperties ==
  ASSUME NEW kind \in Kinds \union {"other"}, NEW m \in Nat, NEW n \in Nat
  PROVE  /\ Bytes(kind, m, n) \in Seq((Kinds \union {"other"}) \X Nat)
         /\ Len(Bytes(kind, m, n)) = n
         /\ \A i \in 1 .. n : Bytes(kind, m, n)[i] = <<kind, m + i>>
<1>1. Bytes(kind, m, n) \in [1 .. n -> (Kinds \union {"other"}) \X Nat]
  BY DEF Bytes
<1>2. Bytes(kind, m, n) \in Seq((Kinds \union {"other"}) \X Nat)
  BY <1>1
<1>3. Len(Bytes(kind, m, n)) = n
  BY <1>1, <1>2, LenProperties
<1>. QED
  BY <1>2, <1>3 DEF Bytes

LEMMA BytesJoin ==
  ASSUME NEW kind \in Kinds \union {"other"}, NEW n \in Nat, NEW d \in Nat
  PROVE  Bytes(kind, 0, n) \o Bytes(kind, n, d) = Bytes(kind, 0, n + d)
<1>. DEFINE S == (Kinds \union {"other"}) \X Nat
            a == Bytes(kind, 0, n)
            b == Bytes(kind, n, d)
            c == Bytes(kind, 0, n + d)
<1>1. a \in Seq(S) /\ Len(a) = n /\ \A i \in 1 .. n : a[i] = <<kind, i>>
  BY BytesProperties DEF Bytes
<1>2. b \in Seq(S) /\ Len(b) = d /\ \A i \in 1 .. d : b[i] = <<kind, n + i>>
  BY BytesProperties
<1>3. /\ c \in Seq(S) /\ Len(c) = n + d
      /\ \A i \in 1 .. n + d : c[i] = <<kind, i>>
  BY BytesProperties DEF Bytes
<1>. HIDE DEF a, b, c, S
<1>4. /\ a \o b \in Seq(S) /\ Len(a \o b) = n + d
      /\ \A i \in 1 .. n + d : (a \o b)[i] = IF i <= n THEN a[i] ELSE b[i - n]
  BY <1>1, <1>2, ConcatProperties
<1>5. ASSUME NEW i \in 1 .. n + d PROVE (a \o b)[i] = c[i]
  <2>1. CASE i <= n
    <3>1. i \in 1 .. n
      BY <2>1
    <3>2. a[i] = <<kind, i>> /\ c[i] = <<kind, i>>
      BY <3>1, <1>1, <1>3
    <3>3. (a \o b)[i] = a[i]
      BY <2>1, <1>4
    <3>. QED
      BY <3>2, <3>3
  <2>2. CASE i > n
    <3>1. i - n \in 1 .. d /\ n + (i - n) = i
      BY <2>2
    <3>2. b[i - n] = <<kind, i>>
      BY <3>1, <1>2
    <3>3. c[i] = <<kind, i>>
      BY <1>3
    <3>4. (a \o b)[i] = b[i - n]
      BY <2>2, <1>4
    <3>. QED
      BY <3>2, <3>3, <3>4
  <2>3. i <= n \/ i > n
    OBVIOUS
  <2>. QED
    BY <2>1, <2>2, <2>3
<1>6. a \o b = c
  BY <1>3, <1>4, <1>5, SeqEqual
<1>. QED
  BY <1>6 DEF a, b, c

LEMMA NoBytes ==
  ASSUME NEW kind \in Kinds \union {"other"} PROVE Bytes(kind, 0, 0) = <<>>
BY BytesProperties, EmptySeq

-----------------------------------------------------------------------------
(* What a segment is.                                                      *)
LEMMA Segmentation ==
  ASSUME HostType
  PROVE  /\ rest \in Nat /\ imgSz \in Nat /\ imgSz - rest \in Nat
         /\ dataSz \in 0 .. rest
         /\ rest > 0 => dataSz > 0
         /\ LastSegment <=> dataSz = rest
BY HbciAssumption DEF HostType, dataSz, LastSegment

-----------------------------------------------------------------------------
(* Mishaps are counted, and never forgotten.                               *)
LEMMA FaultStep ==
  FaultType /\ [Next]_vars => FaultType' /\ faulted \subseteq faulted' /\ faults <= faults'
<1>. SUFFICES ASSUME FaultType, [Next]_vars
     PROVE  FaultType' /\ faulted \subseteq faulted' /\ faults <= faults'
  OBVIOUS
<1>1. ASSUME NEW mishap, Fault(mishap)
      PROVE  FaultType' /\ faulted \subseteq faulted' /\ faults <= faults'
  BY <1>1, HbciAssumption DEF Fault, FaultType
<1>2. CASE NoFault
  BY <1>2, HbciAssumption DEF NoFault, faultVars, FaultType
<1>3. ASSUME Host PROVE NoFault \/ \E mishap : Fault(mishap)
  BY <1>3 DEF Host, Retry, Start, OpenImage, PutApdu, GetApdu, Received,
     GetDeviceLcInfo, GetChipIdInfo, InfoFails, InfoRead, Incomplete, NoFault
<1>4. ASSUME ChipHandles PROVE NoFault \/ \E mishap : Fault(mishap)
  BY <1>4 DEF ChipHandles, ChipInfo, ChipStatus, ChipMode, ChipHeader,
     ChipPayload, ChipImageStatus, ChipRefuses
<1>5. ASSUME UNCHANGED vars PROVE NoFault
  BY <1>5 DEF vars, NoFault
<1>. QED
  BY <1>1, <1>2, <1>3, <1>4, <1>5 DEF Next

LEMMA HostTypeStep == IInv /\ [Next]_vars => HostType'
<1>. SUFFICES ASSUME IInv, [Next]_vars PROVE HostType'
  OBVIOUS
<1>. USE HbciAssumption DEF IInv, TypeOK, HostType, ChipType, Turns, optVars,
   envVars, Exchanges
<1>1. CASE Retry
  BY <1>1 DEF Retry
<1>2. CASE Start
  <2>1. imgSz' \in 0 .. BufferSz /\ rest' \in 0 .. imgSz'
    BY <1>2 DEF Start
  <2>. QED
    BY <1>2, <2>1 DEF Start
<1>3. CASE OpenImage
  <2>1. ASSUME deviceLcInfo \in Kinds, Supported(sizes[deviceLcInfo])
        PROVE  sizes[deviceLcInfo] \in 1 .. BufferSz
    <3>1. sizes[deviceLcInfo] \in Nat
      BY <2>1
    <3>. QED
      BY <2>1, <3>1 DEF Supported
  <2>2. imgSz' \in 0 .. BufferSz /\ rest' \in 0 .. imgSz'
    BY <1>3, <2>1 DEF OpenImage, Failure, Cleanup
  <2>. QED
    BY <1>3, <2>2 DEF OpenImage, Failure, Cleanup
<1>4. CASE PutApdu
  BY <1>4 DEF PutApdu, Failure, Cleanup
<1>5. CASE GetApdu
  <2>1. imgSz' \in 0 .. BufferSz /\ rest' \in 0 .. imgSz'
    BY <1>5, Segmentation DEF GetApdu, Failure, Cleanup, Success, Proceed,
       MasterReady, MasterMode, MasterHIFImage, PutHeader, PutPayload
  <2>. QED
    BY <1>5, <2>1 DEF GetApdu, Failure, Cleanup, Success, Proceed,
       MasterReady, MasterMode, MasterHIFImage, PutHeader, PutPayload
<1>6. CASE GetDeviceLcInfo
  BY <1>6 DEF GetDeviceLcInfo, Failure, Cleanup
<1>7. CASE GetChipIdInfo
  BY <1>7 DEF GetChipIdInfo, Failure, Cleanup, Proceed
<1>8. CASE ChipHandles
  BY <1>8 DEF ChipHandles
<1>9. CASE UNCHANGED vars
  BY <1>9 DEF vars
<1>. QED
  BY <1>1, <1>2, <1>3, <1>4, <1>5, <1>6, <1>7, <1>8, <1>9 DEF Next, Host

LEMMA ChipTypeStep == IInv /\ [Next]_vars => ChipType'
<1>. SUFFICES ASSUME IInv, [Next]_vars PROVE ChipType'
  OBVIOUS
<1>. USE DEF IInv, TypeOK, ChipType, chipVars, envVars
<1>0. NoSegment \in [size : Nat, last : BOOLEAN]
  BY DEF NoSegment
<1>1. CASE Retry \/ OpenImage \/ PutApdu \/ GetApdu \/ GetDeviceLcInfo \/ GetChipIdInfo
  BY <1>1 DEF Retry, OpenImage, PutApdu, GetApdu, GetDeviceLcInfo, GetChipIdInfo
<1>2. CASE Start
  BY <1>0, <1>2, EmptySeq DEF Start
<1>3. CASE ChipHandles
  <2>. USE <1>3 DEF ChipHandles, Replies, Ack, Nack, Apdu, Apdus, Codes, Refused,
     HBCI_Ready, HIF_Image_Ready, HBCI_Fail
  <2>1. CASE ChipInfo
    BY <2>1 DEF ChipInfo
  <2>2. CASE ChipStatus
    BY <2>2 DEF ChipStatus
  <2>3. CASE ChipMode
    BY <2>3 DEF ChipMode
  <2>4. CASE ChipHeader
    <3>1. dataSz \in Nat /\ LastSegment \in BOOLEAN
      BY Segmentation DEF LastSegment
    <3>. QED
      BY <2>4, <3>1 DEF ChipHeader
  <2>5. CASE ChipPayload
    <3>1. Bytes(deviceLcInfo, imgSz - rest, dataSz)
            \in Seq((Kinds \union {"other"}) \X Nat)
      <4>1. /\ deviceLcInfo \in Kinds \union {"other"}
            /\ imgSz - rest \in Nat /\ dataSz \in Nat
        BY Segmentation DEF HostType
      <4>. QED
        BY <4>1, BytesProperties
    <3>2. image \o Bytes(deviceLcInfo, imgSz - rest, dataSz)
            \in Seq((Kinds \union {"other"}) \X Nat)
      BY <3>1, ConcatProperties
    <3>3. image' \in Seq((Kinds \union {"other"}) \X Nat)
      BY <2>5, <3>2 DEF ChipPayload
    <3>4. chip' \in {"off", "hbci", "hif", "loading", "loaded", "bad"}
      BY <2>5 DEF ChipPayload
    <3>5. segment' \in [size : Nat, last : BOOLEAN]
      <4>1. segment' = NoSegment \/ segment' = segment
        BY <2>5 DEF ChipPayload
      <4>. QED
        BY <1>0, <4>1
    <3>6. answer' \in Apdus /\ UNCHANGED envVars
      BY <2>5 DEF ChipPayload
    <3>. QED
      BY <3>3, <3>4, <3>5, <3>6
  <2>6. CASE ChipImageStatus
    <3>1. answer' \in Apdus /\ UNCHANGED envVars
      BY <2>6 DEF ChipImageStatus, Image_Success
    <3>2. \/ UNCHANGED <<chip, segment, image>>
          \/ chip' = "hif" /\ image' = <<>> /\ segment' = NoSegment
      BY <2>6 DEF ChipImageStatus
    <3>. QED
      <4>1. CASE UNCHANGED <<chip, segment, image>>
        BY <3>1, <4>1
      <4>2. CASE chip' = "hif" /\ image' = <<>> /\ segment' = NoSegment
        BY <1>0, <3>1, <4>2, EmptySeq
      <4>. QED
        BY <3>2, <4>1, <4>2
  <2>7. CASE ChipRefuses
    BY <1>0, <2>7 DEF ChipRefuses
  <2>. QED
    BY <2>1, <2>2, <2>3, <2>4, <2>5, <2>6, <2>7
<1>4. CASE UNCHANGED vars
  BY <1>4 DEF vars
<1>. QED
  BY <1>1, <1>2, <1>3, <1>4 DEF Next, Host

(* Turns and retries.                                                      *)
LEMMA TurnsStep == IInv /\ [Next]_vars => Turns'
<1>. SUFFICES ASSUME IInv, [Next]_vars PROVE Turns'
  OBVIOUS
<1>. USE HbciAssumption DEF IInv, TypeOK, HostType, Turns, optVars, chipVars, envVars,
   Exchanges
<1>1. CASE Retry
  BY <1>1 DEF Retry
<1>2. CASE Start
  BY <1>2 DEF Start
<1>3. CASE OpenImage
  BY <1>3 DEF OpenImage, Failure, Cleanup, Supported
<1>4. CASE PutApdu
  BY <1>4 DEF PutApdu, Failure, Cleanup
<1>5. CASE GetApdu
  <2>1. CASE Failure
    BY <1>5, <2>1 DEF GetApdu, Failure, Cleanup
  <2>2. ASSUME NEW got, ~ Failure,
               \/ MasterReady(got) \/ MasterMode(got)
               \/ MasterHIFImage(got) \/ PutHeader(got)
        PROVE  Turns'
    BY <1>5, <2>2, Segmentation DEF GetApdu, Success, Cleanup, Proceed,
       MasterReady, MasterMode, MasterHIFImage, PutHeader
  <2>3. ASSUME NEW got, ~ Failure, PutPayload(got) PROVE Turns'
    BY <1>5, <2>3, Segmentation DEF GetApdu, Proceed, PutPayload
  <2>. QED
    BY <1>5, <2>1, <2>2, <2>3 DEF GetApdu
<1>6. CASE GetDeviceLcInfo
  BY <1>6 DEF GetDeviceLcInfo, Failure, Cleanup
<1>7. CASE GetChipIdInfo
  BY <1>7 DEF GetChipIdInfo, Failure, Cleanup, Proceed
<1>8. CASE ChipHandles
  BY <1>8 DEF ChipHandles
<1>9. CASE UNCHANGED vars
  BY <1>9 DEF vars
<1>. QED
  BY <1>1, <1>2, <1>3, <1>4, <1>5, <1>6, <1>7, <1>8, <1>9 DEF Next, Host

(* Files and forward mode.                                                 *)
LEMMA FilesStep == IInv /\ [Next]_vars => FilesOpen'
<1>. SUFFICES ASSUME IInv, [Next]_vars PROVE FilesOpen'
  OBVIOUS
<1>. USE DEF IInv, TypeOK, HostType, Turns, FilesOpen, optVars, chipVars, envVars, Exchanges
<1>1. CASE Retry
  BY <1>1 DEF Retry
<1>2. CASE Start
  BY <1>2 DEF Start
<1>3. CASE OpenImage
  BY <1>3 DEF OpenImage, Failure, Cleanup
<1>4. CASE PutApdu
  BY <1>4 DEF PutApdu, Failure, Cleanup
<1>5. CASE GetApdu
  BY <1>5 DEF GetApdu, Failure, Cleanup, Success, Proceed,
     MasterReady, MasterMode, MasterHIFImage, PutHeader, PutPayload
<1>6. CASE GetDeviceLcInfo
  BY <1>6 DEF GetDeviceLcInfo, Failure, Cleanup
<1>7. CASE GetChipIdInfo
  <2>1. CASE Failure
    BY <1>7, <2>1 DEF GetChipIdInfo, Failure
  <2>2. CASE Proceed("open")
    BY <1>7, <2>2 DEF GetChipIdInfo, Proceed
  <2>. QED
    BY <1>7, <2>1, <2>2 DEF GetChipIdInfo
<1>8. CASE ChipHandles
  BY <1>8 DEF ChipHandles
<1>9. CASE UNCHANGED vars
  BY <1>9 DEF vars
<1>. QED
  BY <1>1, <1>2, <1>3, <1>4, <1>5, <1>6, <1>7, <1>8, <1>9 DEF Next, Host

(* The verdict.                                                            *)
LEMMA VerdictStep == IInv /\ [Next]_vars => Verdict'
<1>. SUFFICES ASSUME IInv, [Next]_vars PROVE Verdict'
  OBVIOUS
<1>. USE DEF IInv, TypeOK, HostType, ChipType, Turns, Verdict, WholeImage, optVars, chipVars, envVars,
   faultVars, Exchanges, NoFault, Fault
<1>1. CASE Retry
  BY <1>1 DEF Retry
<1>2. CASE Start
  BY <1>2 DEF Start
<1>3. CASE OpenImage
  BY <1>3 DEF OpenImage, Failure, Cleanup
<1>4. CASE PutApdu
  BY <1>4 DEF PutApdu, Failure, Cleanup
<1>5. CASE GetApdu
  <2>1. CASE Failure
    BY <1>5, <2>1 DEF GetApdu, Failure, Cleanup
  <2>2. ASSUME NEW got \in Apdus, Received(got), miso' = got, ~ Failure,
               MasterReady(got) \/ MasterMode(got) \/ PutHeader(got)
                 \/ PutPayload(got)
        PROVE  Verdict'
    BY <1>5, <2>2 DEF GetApdu, Received, MasterReady, MasterMode, PutHeader,
       PutPayload, Proceed
  <2>3. ASSUME NEW got \in Apdus, Received(got), miso' = got, ~ Failure,
               MasterHIFImage(got)
        PROVE  Verdict'
    <3>1. CASE GeneralStatus(got, HIF_Image_Ready)
      BY <1>5, <2>3, <3>1 DEF GetApdu, Received, MasterHIFImage, Proceed
    <3>2. CASE got = Image_Success /\ Success
      <4>1. "partial" \notin faulted' => chip = "loaded"
        <5>1. api = "status" /\ bus = "answered"
          BY <1>5, <2>3 DEF GetApdu, MasterHIFImage
        <5>2. Image_Success # Ack
          BY DEF Image_Success, Ack, Apdu
        <5>3. CASE NoFault /\ got = answer
          BY <3>2, <5>1, <5>3
        <5>4. CASE Fault("empty") /\ got = miso
          BY <3>2, <5>1, <5>2, <5>4
        <5>5. CASE Fault("partial")
          BY <5>5
        <5>. QED
          BY <2>3, <5>3, <5>4, <5>5 DEF Received
      <4>. QED
        BY <1>5, <3>2, <4>1 DEF GetApdu, Success
    <3>. QED
      BY <2>3, <3>1, <3>2 DEF MasterHIFImage
  <2>. QED
    BY <1>5, <2>1, <2>2, <2>3 DEF GetApdu
<1>6. CASE GetDeviceLcInfo
  BY <1>6 DEF GetDeviceLcInfo, InfoFails, InfoRead, Incomplete, Failure, Cleanup
<1>7. CASE GetChipIdInfo
  BY <1>7 DEF GetChipIdInfo, InfoFails, InfoRead, Incomplete, Failure, Cleanup,
     Proceed
<1>8. CASE ChipHandles
  <2>. USE <1>8 DEF ChipHandles, Replies, Ack, Nack, Apdu, Image_Success, Refused
  <2>1. CASE ChipInfo \/ ChipMode \/ ChipHeader
    BY <2>1 DEF ChipInfo, ChipMode, ChipHeader
  <2>2. CASE ChipStatus
    BY <2>2 DEF ChipStatus
  <2>3. CASE ChipPayload
    BY <2>3 DEF ChipPayload, WholeImage
  <2>4. CASE ChipImageStatus
    BY <2>4 DEF ChipImageStatus
  <2>5. CASE ChipRefuses
    BY <2>5 DEF ChipRefuses
  <2>. QED
    BY <2>1, <2>2, <2>3, <2>4, <2>5
<1>9. CASE UNCHANGED vars
  BY <1>9 DEF vars
<1>. QED
  BY <1>1, <1>2, <1>3, <1>4, <1>5, <1>6, <1>7, <1>8, <1>9 DEF Next, Host

-----------------------------------------------------------------------------
(* While reads are complete.                                               *)
LEMMA Completeness ==
  ASSUME IInv, [Next]_vars, Complete'
  PROVE  Complete /\ ~ Fault("empty") /\ ~ Fault("partial")
BY FaultStep DEF IInv, TypeOK, Complete, Incomplete, Fault

(* What a read leads to.                                                   *)
GoesOn ==
  \/ api = "ready" /\ Proceed("mode") /\ UNCHANGED <<query, rest>>
  \/ api = "mode" /\ Proceed("status") /\ query' = "status" /\ UNCHANGED rest
  \/ /\ api = "status" /\ answer = Apdu("general_answer", HIF_Image_Ready)
     /\ Proceed("header") /\ query' = "image" /\ rest' = imgSz
  \/ api = "status" /\ Success
  \/ api = "header" /\ Proceed("payload") /\ UNCHANGED <<query, rest>>
  \/ /\ api = "payload" /\ rest' = rest - dataSz
     /\ Proceed(IF rest' > 0 THEN "header" ELSE "status") /\ UNCHANGED query
Fails == Failure /\ (Fault("read") \/ (NoFault /\ answer \notin Expected))

LEMMA Reads ==
  ASSUME IInv, GetApdu, Complete'
  PROVE  Fails \/ (GoesOn /\ NoFault /\ answer \in Expected)
<1>1. [Next]_vars
  BY DEF Next, Host
<1>2. ~ Fault("empty") /\ ~ Fault("partial")
  BY <1>1, Completeness
<1>3. CASE Fault("read") /\ Failure
  BY <1>3 DEF Fails
<1>4. ASSUME NoFault,
             \/ MasterReady(answer) \/ MasterMode(answer)
             \/ MasterHIFImage(answer) \/ PutHeader(answer) \/ PutPayload(answer)
      PROVE  Fails \/ (GoesOn /\ NoFault /\ answer \in Expected)
  <2>. USE <1>4 DEF Fails, GoesOn, Expected
  <2>1. CASE MasterReady(answer)
    BY <2>1 DEF MasterReady, GeneralStatus
  <2>2. CASE MasterMode(answer)
    BY <2>2 DEF MasterMode
  <2>3. CASE MasterHIFImage(answer)
    <3>1. api = "status"
      BY <2>3 DEF MasterHIFImage
    <3>2. CASE answer = Apdu("general_answer", HIF_Image_Ready)
      BY <2>3, <3>2 DEF MasterHIFImage, GeneralStatus, IInv, TypeOK, HostType
    <3>3. CASE answer = Image_Success /\ ~ Failure
      <4>1. bus = "answered" /\ Success
        BY <2>3, <3>3 DEF GetApdu, MasterHIFImage, GeneralStatus, Image_Success, Apdu
      <4>2. chip = "loaded" /\ BeforeImage /\ query \in {"status", "image"}
        BY <1>1, <3>1, <3>3, <4>1, Completeness
           DEF IInv, Verdict, InStep, TypeOK, HostType
      <4>3. query = "image"
        BY <3>1, <4>2 DEF BeforeImage
      <4>. QED
        BY <3>1, <3>3, <4>1, <4>3
    <3>. QED
      BY <2>3, <3>1, <3>2, <3>3 DEF MasterHIFImage, GeneralStatus
  <2>4. CASE PutHeader(answer)
    BY <2>4 DEF PutHeader
  <2>5. CASE PutPayload(answer)
    BY <2>5 DEF PutPayload
  <2>. QED
    BY <1>4, <2>1, <2>2, <2>3, <2>4, <2>5
<1>. QED
  BY <1>2, <1>3, <1>4 DEF GetApdu, Received

(* The image is the one for the chip.                                      *)
LEMMA RightImageStep ==
  ASSUME IInv, [Next]_vars, Complete' PROVE RightImage'
<1>1. Complete /\ RightImage /\ ~ Fault("empty") /\ ~ Fault("partial")
  BY Completeness DEF IInv, InStep
<1>. USE <1>1 DEF RightImage, Opened, Transfer, optVars, envVars
<1>2. CASE Retry
  BY <1>2 DEF Retry
<1>3. CASE Start
  BY <1>3 DEF Start
<1>4. CASE OpenImage
  BY <1>4 DEF OpenImage, Failure
<1>5. CASE PutApdu
  BY <1>5 DEF PutApdu, Failure
<1>6. CASE GetApdu
  BY <1>6, Reads DEF GetApdu, Fails, GoesOn, Failure, Proceed, Success
<1>7. CASE GetDeviceLcInfo
  BY <1>7 DEF GetDeviceLcInfo, InfoRead, Incomplete, Failure
<1>8. CASE GetChipIdInfo
  BY <1>8 DEF GetChipIdInfo, Failure, Proceed
<1>9. CASE ChipHandles
  BY <1>9 DEF ChipHandles
<1>10. CASE UNCHANGED vars
  BY <1>10 DEF vars
<1>. QED
  BY <1>2, <1>3, <1>4, <1>5, <1>6, <1>7, <1>8, <1>9, <1>10 DEF Next, Host

(* Before the image is sent the chip has nothing of it.                    *)
LEMMA BeforeImageStep ==
  ASSUME IInv, [Next]_vars, Complete' PROVE BeforeImage'
<1>1. Complete /\ BeforeImage /\ Turns /\ ~ Fault("empty") /\ ~ Fault("partial")
  BY Completeness DEF IInv, InStep
<1>. USE <1>1 DEF BeforeImage, Answered, optVars, chipVars
<1>2. CASE Retry
  BY <1>2 DEF Retry
<1>3. CASE Start
  BY <1>3 DEF Start
<1>4. CASE OpenImage
  BY <1>4 DEF OpenImage, Failure
<1>5. CASE PutApdu
  BY <1>5 DEF PutApdu, Failure
<1>6. CASE GetApdu
  <2>1. CASE Failure
    BY <1>6, <2>1 DEF GetApdu, Failure
  <2>2. CASE GoesOn /\ answer \in Expected
    <3>1. CASE api = "mode"
      BY <1>6, <2>2, <3>1 DEF GetApdu, GoesOn, Expected, Proceed
    <3>2. CASE api = "ready"
      BY <1>6, <2>2, <3>2 DEF GetApdu, GoesOn, Proceed
    <3>3. CASE api \in Exchanges \ {"ready", "mode"}
      <4>1. /\ api' \in {"header", "payload", "status", "done"}
            /\ api' = "status" => query' = "image"
        BY <1>6, <2>2, <3>3 DEF GetApdu, GoesOn, Proceed, Success, Turns, Exchanges
      <4>. QED
        BY <4>1
    <3>. QED
      BY <1>6, <3>1, <3>2, <3>3 DEF GetApdu
  <2>. QED
    BY <1>6, <2>1, <2>2, Reads DEF Fails
<1>7. CASE GetDeviceLcInfo
  BY <1>7 DEF GetDeviceLcInfo, Failure
<1>8. CASE GetChipIdInfo
  BY <1>8 DEF GetChipIdInfo, Failure, Proceed
<1>9. CASE ChipHandles
  <2>. USE <1>9 DEF ChipHandles, Replies
  <2>1. CASE ChipInfo \/ ChipStatus
    BY <2>1 DEF ChipInfo, ChipStatus
  <2>2. CASE ChipMode
    BY <2>2 DEF ChipMode
  <2>3. CASE ChipHeader \/ ChipPayload \/ ChipImageStatus
    BY <2>3 DEF ChipHeader, ChipPayload, ChipImageStatus
  <2>4. CASE ChipRefuses
    BY <2>4 DEF ChipRefuses, Ack, Nack, Apdu, Refused
  <2>. QED
    BY <2>1, <2>2, <2>3, <2>4
<1>10. CASE UNCHANGED vars
  BY <1>10 DEF vars
<1>. QED
  BY <1>2, <1>3, <1>4, <1>5, <1>6, <1>7, <1>8, <1>9, <1>10 DEF Next, Host

(* The chip holds what was sent.                                           *)
LEMMA Joined ==
  ASSUME IInv, Complete, api = "payload"
  PROVE  Bytes(lc, 0, imgSz - rest) \o Bytes(deviceLcInfo, imgSz - rest, dataSz)
           = Bytes(lc, 0, imgSz - rest + dataSz)
<1>1. deviceLcInfo = lc /\ lc \in Kinds
  BY DEF IInv, InStep, RightImage, Opened, Transfer, TypeOK, ChipType
<1>2. imgSz - rest \in Nat /\ dataSz \in Nat
  BY Segmentation DEF IInv, TypeOK
<1>. QED
  BY <1>1, <1>2, BytesJoin

LEMMA SendingStep ==
  ASSUME IInv, [Next]_vars, Complete' PROVE Sending'
<1>1. /\ Complete /\ InStep /\ Sending /\ Turns /\ HostType
      /\ ~ Fault("empty") /\ ~ Fault("partial")
  BY Completeness DEF IInv, InStep, TypeOK
<1>. USE <1>1 DEF Sending, Announced, Accepted, Answered, Transfer, optVars, chipVars,
   envVars
<1>2. CASE Retry \/ Start
  BY <1>2 DEF Retry, Start
<1>3. CASE OpenImage
  BY <1>3 DEF OpenImage, Failure
<1>4. CASE PutApdu
  BY <1>4 DEF PutApdu, Failure, dataSz, LastSegment
<1>5. CASE GetApdu
  <2>1. CASE Failure
    BY <1>5, <2>1 DEF GetApdu, Failure
  <2>2. CASE GoesOn /\ answer \in Expected
    <3>1. CASE api = "header"
      BY <1>5, <2>2, <3>1 DEF GetApdu, GoesOn, Expected, Proceed, dataSz, LastSegment
    <3>2. CASE api = "payload"
      <4>1. /\ bus' = "host" /\ UNCHANGED <<chip, image, lc, imgSz>>
            /\ rest' = rest - dataSz /\ answer = Ack /\ bus = "answered"
            /\ api' = IF rest' > 0 THEN "header" ELSE "status"
        BY <1>5, <2>2, <3>2 DEF GetApdu, GoesOn, Expected, Proceed
      <4>2. imgSz - rest' = imgSz - rest + dataSz
        BY <4>1, Segmentation
      <4>3. rest' > 0 => ~ LastSegment
        BY <4>1, Segmentation
      <4>. QED
        BY <3>2, <4>1, <4>2, <4>3
    <3>3. CASE api = "status"
      <4>1. CASE Success
        BY <1>5, <4>1 DEF GetApdu, Success
      <4>2. CASE ~ Success
        <5>1. /\ api' = "header" /\ bus' = "host" /\ bus = "answered"
              /\ answer = Apdu("general_answer", HIF_Image_Ready)
              /\ rest' = imgSz /\ UNCHANGED <<chip, image, lc, imgSz>>
          BY <1>5, <2>2, <3>3, <4>2 DEF GetApdu, GoesOn, Proceed
        <5>2. image = <<>> /\ chip = "hif"
          BY <3>3, <5>1 DEF InStep, BeforeImage, AfterImage, HostType
        <5>3. imgSz' - rest' = 0 /\ Bytes(lc, 0, 0) = <<>>
          BY <5>1, NoBytes, Segmentation DEF IInv, TypeOK, ChipType
        <5>. QED
          BY <5>1, <5>2, <5>3
      <4>. QED
        BY <4>1, <4>2
    <3>. QED
      BY <1>5, <2>2, <3>1, <3>2, <3>3 DEF GetApdu, GoesOn, Proceed
  <2>. QED
    BY <1>5, <2>1, <2>2, Reads DEF Fails
<1>6. CASE GetDeviceLcInfo \/ GetChipIdInfo
  BY <1>6 DEF GetDeviceLcInfo, GetChipIdInfo, Failure, Proceed
<1>7. CASE ChipHandles
  <2>. USE <1>7 DEF ChipHandles, Replies
  <2>1. CASE ChipInfo \/ ChipStatus \/ ChipMode \/ ChipImageStatus
    BY <2>1 DEF ChipInfo, ChipStatus, ChipMode, ChipImageStatus
  <2>2. CASE ChipHeader
    BY <2>2 DEF ChipHeader, dataSz, LastSegment
  <2>3. CASE ChipPayload
    <3>1. /\ chip = "loading" /\ segment = [size |-> dataSz, last |-> LastSegment]
          /\ image = Bytes(lc, 0, imgSz - rest) /\ api = "payload"
          /\ imgSz = sizes[lc] /\ api' = api /\ UNCHANGED <<lc, imgSz, rest>>
      BY <2>3 DEF ChipPayload, InStep, RightImage, Opened
    <3>2. CASE Fault("garbled") /\ answer' = Nack
      <4>1. Nack # Ack /\ UNCHANGED <<chip, image>>
        BY <2>3, <3>1, <3>2 DEF ChipPayload, Nack, Ack, Apdu, Refused
      <4>. QED
        BY <3>1, <3>2, <4>1
    <3>3. CASE ~ (Fault("garbled") /\ answer' = Nack)
      <4>1. /\ answer' = Ack
            /\ image' = Bytes(lc, 0, imgSz - rest + dataSz)
            /\ chip' = IF ~ LastSegment THEN "loading"
                       ELSE IF image' = WholeImage THEN "loaded" ELSE "bad"
        BY <2>3, <3>1, <3>3, Joined DEF ChipPayload
      <4>2. LastSegment => image' = WholeImage
        <5>1. LastSegment => imgSz - rest + dataSz = imgSz
          BY Segmentation
        <5>. QED
          BY <3>1, <4>1, <5>1 DEF WholeImage
      <4>3. UNCHANGED <<dataSz, LastSegment>>
        BY <3>1 DEF dataSz, LastSegment
      <4>. QED
        BY <3>1, <4>1, <4>2, <4>3
    <3>. QED
      BY <3>2, <3>3
  <2>4. CASE ChipRefuses
    BY <2>4 DEF ChipRefuses, Ack, Nack, Apdu, Refused
  <2>. QED
    BY <2>1, <2>2, <2>3, <2>4
<1>8. CASE UNCHANGED vars
  BY <1>8 DEF vars, dataSz, LastSegment
<1>. QED
  BY <1>2, <1>3, <1>4, <1>5, <1>6, <1>7, <1>8 DEF Next, Host

(* After the last segment the chip has the image, until it wants it again. *)
LEMMA AfterImageStep ==
  ASSUME IInv, [Next]_vars, Complete' PROVE AfterImage'
<1>1. /\ Complete /\ AfterImage /\ Turns /\ HostType
      /\ ~ Fault("empty") /\ ~ Fault("partial")
  BY Completeness DEF IInv, InStep, TypeOK
<1>. USE <1>1 DEF AfterImage, Answered, optVars, chipVars
<1>2. CASE Retry \/ Start
  BY <1>2 DEF Retry, Start
<1>3. CASE OpenImage
  BY <1>3 DEF OpenImage, Failure
<1>4. CASE PutApdu
  BY <1>4 DEF PutApdu, Failure
<1>5. CASE GetApdu
  <2>1. CASE Failure
    BY <1>5, <2>1 DEF GetApdu, Failure
  <2>2. CASE GoesOn /\ answer \in Expected
    <3>1. CASE api = "payload"
      <4>1. /\ bus' = "host" /\ UNCHANGED chip /\ rest' = rest - dataSz
            /\ api' = (IF rest' > 0 THEN "header" ELSE "status")
            /\ answer = Ack /\ bus = "answered"
        BY <1>5, <2>2, <3>1 DEF GetApdu, GoesOn, Expected, Proceed
      <4>2. chip = IF LastSegment THEN "loaded" ELSE "loading"
        BY <3>1, <4>1 DEF IInv, InStep, Sending, Accepted
      <4>3. ~ LastSegment => rest' > 0
        BY <4>1, Segmentation
      <4>. QED
        BY <4>1, <4>2, <4>3
    <3>2. CASE api # "payload"
      <4>1. api' = "status" => query' = "status"
        BY <1>5, <2>2, <3>2 DEF GetApdu, GoesOn, Proceed, Success
      <4>. QED
        BY <4>1
    <3>. QED
      BY <3>1, <3>2
  <2>. QED
    BY <1>5, <2>1, <2>2, Reads DEF Fails
<1>6. CASE GetDeviceLcInfo \/ GetChipIdInfo
  BY <1>6 DEF GetDeviceLcInfo, GetChipIdInfo, Failure, Proceed
<1>7. CASE ChipHandles
  <2>. USE <1>7 DEF ChipHandles, Replies, Apdu, Image_Success
  <2>1. CASE ChipInfo \/ ChipStatus \/ ChipMode \/ ChipHeader \/ ChipPayload
    BY <2>1 DEF ChipInfo, ChipStatus, ChipMode, ChipHeader, ChipPayload
  <2>2. CASE ChipImageStatus
    BY <2>2 DEF ChipImageStatus
  <2>3. CASE ChipRefuses
    BY <2>3 DEF ChipRefuses, HBCI_Fail, HIF_Image_Ready
  <2>. QED
    BY <2>1, <2>2, <2>3
<1>8. CASE UNCHANGED vars
  BY <1>8 DEF vars
<1>. QED
  BY <1>2, <1>3, <1>4, <1>5, <1>6, <1>7, <1>8 DEF Next, Host

(* What the chip has is a beginning of its image.                          *)
LEMMA SegmentsStep ==
  ASSUME IInv, [Next]_vars, Complete' PROVE SegmentsInOrder'
<1>1. /\ Complete /\ image = Bytes(lc, 0, Len(image)) /\ lc \in Kinds
  BY Completeness DEF IInv, SegmentsInOrder, Complete, TypeOK, ChipType
<1>2. CASE UNCHANGED <<image, lc>>
  BY <1>1, <1>2 DEF SegmentsInOrder
<1>3. CASE image' = <<>> /\ UNCHANGED lc
  BY <1>1, <1>3, NoBytes, EmptySeq DEF SegmentsInOrder
<1>4. ASSUME ChipHandles, ChipPayload, image' # image PROVE SegmentsInOrder'
  <2>1. /\ api = "payload" /\ bus = "chip" /\ UNCHANGED lc
        /\ image' = image \o Bytes(deviceLcInfo, imgSz - rest, dataSz)
    BY <1>4 DEF ChipHandles, ChipPayload, Replies, envVars
  <2>2. image = Bytes(lc, 0, imgSz - rest)
    BY <1>1, <2>1 DEF IInv, InStep, Sending, Transfer, Accepted, Answered
  <2>3. image' = Bytes(lc, 0, imgSz - rest + dataSz)
    BY <1>1, <2>1, <2>2, Joined
  <2>4. imgSz - rest + dataSz \in Nat
    BY Segmentation DEF IInv, TypeOK
  <2>5. Len(image') = imgSz - rest + dataSz
    BY <1>1, <2>3, <2>4, BytesProperties
  <2>. QED
    BY <2>1, <2>3, <2>5 DEF SegmentsInOrder
<1>5. ASSUME Host PROVE UNCHANGED lc /\ (UNCHANGED image \/ image' = <<>>)
  BY <1>5 DEF Host, Retry, Start, OpenImage, PutApdu, GetApdu, GetDeviceLcInfo,
     GetChipIdInfo, chipVars, envVars
<1>6. ASSUME ChipHandles
      PROVE  UNCHANGED lc /\ (UNCHANGED image \/ image' = <<>> \/ ChipPayload)
  BY <1>6 DEF ChipHandles, ChipInfo, ChipStatus, ChipMode, ChipHeader,
     ChipImageStatus, ChipRefuses, Replies, envVars
<1>7. ASSUME UNCHANGED vars PROVE UNCHANGED <<image, lc>>
  BY <1>7 DEF vars, chipVars, envVars
<1>. QED
  BY <1>2, <1>3, <1>4, <1>5, <1>6, <1>7 DEF Next

(* Every attempt that fails has cost a mishap.                             *)
LEMMA PaidStep ==
  ASSUME IInv, [Next]_vars, Complete' PROVE Paid'
<1>1. /\ Complete /\ InStep /\ Paid /\ Turns /\ HostType /\ ChipType /\ FaultType
      /\ ~ Fault("empty") /\ ~ Fault("partial")
  BY Completeness DEF IInv, TypeOK
<1>2. SUFFICES ASSUME lc \in present, Supported(sizes[lc]), UNCHANGED envVars
               PROVE  fwd_retry_count' + Debt' <= faults' /\ result' # "missing"
  <2>1. UNCHANGED envVars
    BY DEF Next, Host, Retry, Start, OpenImage, PutApdu, GetApdu,
       GetDeviceLcInfo, GetChipIdInfo, ChipHandles, vars, envVars
  <2>2. UNCHANGED <<lc, present, sizes>>
    BY <2>1 DEF envVars
  <2>. QED
    BY <2>1, <2>2 DEF Paid, Supported
<1>3. /\ fwd_retry_count + Debt <= faults /\ result # "missing"
      /\ fwd_retry_count \in Nat /\ faults \in Nat
  BY <1>1, <1>2, HbciAssumption DEF Paid, HostType, FaultType
<1>. USE <1>3 DEF Debt, Answered
<1>4. CASE Retry
  <2>1. /\ Debt = 1 /\ fwd_retry_count' = fwd_retry_count + 1
        /\ faults' = faults /\ bus' = bus /\ api' # "retry" /\ result' # "missing"
    BY <1>4 DEF Retry, faultVars
  <2>2. bus # "answered"
    BY <1>1, <1>4 DEF Turns, Retry, Exchanges
  <2>. QED
    BY <2>1, <2>2
<1>5. CASE Start
  BY <1>5 DEF Start, faultVars
<1>6. CASE OpenImage
  <2>1. deviceLcInfo = lc /\ lc \in Kinds /\ bus # "answered"
    BY <1>1, <1>6 DEF OpenImage, InStep, RightImage, Turns, Exchanges, ChipType
  <2>2. \/ api' = "ready" /\ UNCHANGED <<result, faults>>
        \/ Fault("file") /\ Failure
    BY <1>2, <1>6, <2>1 DEF OpenImage, faultVars
  <2>. QED
    BY <1>6, <2>1, <2>2 DEF OpenImage, Fault, Failure
<1>7. CASE PutApdu
  BY <1>7 DEF PutApdu, Fault, NoFault, faultVars, Failure
<1>8. CASE GetApdu
  <2>1. bus' = "host" /\ UNCHANGED fwd_retry_count /\ bus = "answered"
    BY <1>8 DEF GetApdu
  <2>2. CASE Fails
    BY <2>1, <2>2 DEF Fails, Fault, NoFault, faultVars, Failure
  <2>3. CASE GoesOn /\ NoFault
    BY <1>3, <2>1, <2>3 DEF GoesOn, NoFault, faultVars, Proceed, Success
  <2>. QED
    BY <1>8, <2>2, <2>3, Reads
<1>9. CASE GetDeviceLcInfo \/ GetChipIdInfo
  <2>1. /\ api \in {"lc", "id"} /\ bus = "answered" /\ bus' = "host"
        /\ UNCHANGED fwd_retry_count
    BY <1>9 DEF GetDeviceLcInfo, GetChipIdInfo
  <2>0. Nack # Ack
    BY DEF Ack, Nack, Apdu, Refused
  <2>3. UNCHANGED result
    BY <1>9 DEF GetDeviceLcInfo, GetChipIdInfo, Failure, Proceed
  <2>2. \/ Failure /\ answer = Nack /\ NoFault
        \/ Failure /\ Fault("read")
        \/ api' # "retry" /\ NoFault
    BY <1>1, <1>9 DEF GetDeviceLcInfo, GetChipIdInfo, InfoFails, InfoRead,
       Incomplete, Proceed
  <2>. QED
    BY <2>0, <2>1, <2>2, <2>3 DEF Expected, Fault, NoFault, faultVars
<1>10. CASE ChipHandles
  <2>1. /\ bus = "chip" /\ api' = api /\ query' = query /\ api # "retry"
        /\ UNCHANGED <<fwd_retry_count, result>>
    BY <1>1, <1>10 DEF ChipHandles, Turns, Exchanges
  <2>2. CASE \E mishap : Fault(mishap)
    BY <2>1, <2>2 DEF Fault
  <2>3. CASE NoFault /\ answer' \in Expected'
    BY <2>1, <2>3 DEF NoFault, faultVars
  <2>4. ASSUME ~ \E mishap : Fault(mishap)
        PROVE  NoFault /\ answer' \in Expected'
    <3>. USE <1>1, <1>10, <2>1, <2>4 DEF ChipHandles, Replies, Expected, InStep
    <3>1. CASE ChipInfo
      BY <3>1 DEF ChipInfo
    <3>2. CASE ChipStatus
      BY <3>2 DEF ChipStatus, BeforeImage
    <3>3. CASE ChipMode
      BY <3>3 DEF ChipMode, BeforeImage
    <3>4. CASE ChipHeader
      BY <3>4 DEF ChipHeader, Sending
    <3>5. CASE ChipPayload
      BY <3>5 DEF ChipPayload, Sending, Announced
    <3>6. CASE ChipImageStatus
      BY <3>6 DEF ChipImageStatus, AfterImage
    <3>7. CASE ChipRefuses
      BY <3>7 DEF ChipRefuses
    <3>. QED
      BY <3>1, <3>2, <3>3, <3>4, <3>5, <3>6, <3>7
  <2>. QED
    BY <2>2, <2>3, <2>4
<1>11. CASE UNCHANGED vars
  BY <1>11 DEF vars, Expected, chipVars, faultVars
<1>. QED
  BY <1>4, <1>5, <1>6, <1>7, <1>8, <1>9, <1>10, <1>11 DEF Next, Host

-----------------------------------------------------------------------------
(* The initial states: nothing is on its way, no mishap has happened.      *)
LEMMA InvInit == Init => IInv
<1>. SUFFICES ASSUME Init PROVE IInv
  OBVIOUS
<1>. USE HbciAssumption DEF Init
<1>1. TypeOK
  <2>1. HostType
    <3>1. miso \in Apdus
      BY DEF Apdus, Apdu, Codes, Image_Success
    <3>2. /\ imgSz \in 0 .. BufferSz /\ rest \in 0 .. imgSz
          /\ fwd_retry_count \in 0 .. FWD_MAX_RETRY_COUNT + 1
      OBVIOUS
    <3>. QED
      BY <3>1, <3>2 DEF HostType, Exchanges
  <2>2. ChipType
    BY EmptySeq DEF ChipType, Apdus, Apdu, Codes, Ack, NoSegment
  <2>3. FaultType
    BY DEF FaultType
  <2>. QED
    BY <2>1, <2>2, <2>3 DEF TypeOK
<1>2. Turns /\ FilesOpen
  BY DEF Turns, FilesOpen, Exchanges
<1>3. Verdict
  BY DEF Verdict
<1>4. SegmentsInOrder
  BY NoBytes, EmptySeq DEF SegmentsInOrder
<1>5. InStep
  BY DEF InStep, RightImage, BeforeImage, Sending, Accepted, AfterImage, Opened,
     Transfer
<1>6. Paid
  BY DEF Paid, Debt, Answered
<1>. QED
  BY <1>1, <1>2, <1>3, <1>4, <1>5, <1>6 DEF IInv

(* The invariant of the whole module, on which the theorems rest.          *)
THEOREM Invariant == Spec => []IInv
<1>1. Init => IInv
  BY InvInit
<1>2. IInv /\ [Next]_vars => IInv'
  <2>. SUFFICES ASSUME IInv, [Next]_vars PROVE IInv'
    OBVIOUS
  <2>1. TypeOK'
    BY HostTypeStep, ChipTypeStep, FaultStep DEF IInv, TypeOK
  <2>2. Turns' /\ FilesOpen' /\ Verdict'
    BY TurnsStep, FilesStep, VerdictStep
  <2>3. ASSUME Complete' PROVE SegmentsInOrder' /\ InStep' /\ Paid'
    BY <2>3, SegmentsStep, RightImageStep, BeforeImageStep, SendingStep,
       AfterImageStep, PaidStep DEF InStep
  <2>. QED
    BY <2>1, <2>2, <2>3 DEF IInv
<1>. QED
  BY <1>1, <1>2, PTL DEF Spec

(* Types, and with them that the image never overruns pImg.                *)
THEOREM TypeCorrect == Spec => []TypeOK
<1>1. IInv => TypeOK
  BY DEF IInv
<1>. QED
  BY <1>1, Invariant, PTL

(* phNxpUciHal_fw_download reports success only when the chip has accepted *)
(* the whole image that belongs to it.                                     *)
THEOREM SuccessTruthful == Spec => []SuccessIsLoaded
<1>1. IInv => SuccessIsLoaded
  BY DEF IInv, Verdict, SuccessIsLoaded
<1>. QED
  BY <1>1, Invariant, PTL

(* Segments of any size arrive in order, whatever is refused or garbled.   *)
THEOREM SegmentsOrdered == Spec => []SegmentsInOrder
<1>1. IInv => SegmentsInOrder
  BY DEF IInv, Complete, SegmentsInOrder
<1>. QED
  BY <1>1, Invariant, PTL

(* No more retries than mishaps are needed.                                *)
THEOREM RetriesEnough == Spec => []RetriesSuffice
<1>1. IInv => RetriesSuffice
  <2>. SUFFICES ASSUME IInv, api = "done", lc \in present, Supported(sizes[lc]),
                       faults <= FWD_MAX_RETRY_COUNT, Complete
                PROVE  result = "success"
    BY DEF RetriesSuffice, Complete
  <2>1. fwd_retry_count + Debt <= faults /\ result # "missing"
    BY DEF IInv, Paid
  <2>2. fwd_retry_count <= FWD_MAX_RETRY_COUNT
    BY <2>1, HbciAssumption DEF IInv, TypeOK, HostType, FaultType, Debt
  <2>. QED
    BY <2>1, <2>2, HbciAssumption DEF IInv, Turns, TypeOK, HostType
<1>. QED
  BY <1>1, Invariant, PTL

(* Whatever way an attempt ends, the image file is closed.                 *)
THEOREM FilesClosed == Spec => []NothingLeftOpen
<1>1. IInv => NothingLeftOpen
  BY DEF IInv, FilesOpen, NothingLeftOpen, Exchanges
<1>. QED
  BY <1>1, Invariant, PTL
=============================================================================

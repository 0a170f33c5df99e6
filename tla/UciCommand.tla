------------------------------ MODULE UciCommand ------------------------------
(***************************************************************************)
(* One UCI command at a time: phNxpUciHal_process_ext_cmd_rsp in the API   *)
(* thread, read_complete and the timeout callback in the client thread,    *)
(* the response timer with the kernel's expiry threads, and the chip.      *)
(*                                                                         *)
(* The transport is used as UciLink promises it: a write returns when SPI  *)
(* has taken it or failed, packets arrive once and in order.  The API      *)
(* thread and the client thread share ext_cb_data (a status and a          *)
(* semaphore), ext_cb_waiting, hal_ext_enabled and rx_data_len without a   *)
(* lock, so each access of one thread that the other can see is a step.    *)
(***************************************************************************)
EXTENDS Integers, Sequences

CONSTANTS
  Kinds,           \* the kinds of commands the API thread submits
  Replies,         \* what the chip may reply
  Timely,          \* the timeout expires only if no reply is under way
  SpiMayFail,      \* the driver may fail to write
  MaxCommands,     \* commands submitted
  MaxNtfs,         \* notifications the chip sends on its own
  MAX_COMMAND_RETRY_COUNT,  \* timeouts and retransmission requests
  MaxInvalidLength          \* replies of an invalid length (0x03)

ASSUME CommandAssumption ==
  /\ Kinds \subseteq {"internal", "host", "chained", "parsed"}
  /\ Replies \subseteq {"ok", "error", "retry", "length"}
  /\ Timely \in BOOLEAN /\ SpiMayFail \in BOOLEAN
  /\ MaxCommands \in Nat /\ MaxNtfs \in Nat
  /\ MAX_COMMAND_RETRY_COUNT \in Nat \ {0} /\ MaxInvalidLength \in Nat \ {0}

VARIABLES
  api,           \* control state of phNxpUciHal_process_ext_cmd_rsp
  cmd, kind,     \* number and kind of the current command
  retryCnt, lenCnt,  \* ext_cmd_retry_cnt and invalid_len_retry_cnt
  status,        \* ext_cb_data.status
  sem,           \* ext_cb_data.sem
  live,          \* ext_cb_data is initialised and not yet destroyed
  ext_cb_waiting,
  hal_ext_enabled,
  eState,        \* state of the response timer in apTimerInfo
  armed,         \* the kernel timer runs
  expiring,      \* expiry threads of the kernel not yet in Timer_Expired
  timeouts,      \* timeout messages in the client thread's queue
  client,        \* control state of the client thread
  pkt, isSkipPacket,  \* the packet it handles and whether to keep it
  rxLenOwn,      \* rx_data_len is the length of the packet it handles
  onChip,        \* per command, transmissions the chip has not replied to
  wire,          \* packets the chip sent and the client has not taken
  nNtfs,         \* notifications sent by the chip
  \* History.
  sent,          \* transmissions of the current command
  answered,      \* commands whose positive response was handled
  refused,       \* commands whose negative response was handled
  reported,      \* commands the host was told a device error for
  forwarded,     \* per command, response packets given to the host
  truncated,     \* kinds of packets given to the host with a wrong length
  deadPosts,     \* a destroyed semaphore was posted
  result         \* per command, what the caller was told

extVars == <<status, sem, live, ext_cb_waiting>>
loopVars == <<cmd, kind, retryCnt, lenCnt, hal_ext_enabled>>
timerVars == <<eState, armed, expiring, timeouts>>
clientVars == <<client, pkt, isSkipPacket>>
chipVars == <<onChip, wire, nNtfs>>
rxHistory == <<answered, refused, forwarded, truncated, deadPosts>>
apiHistory == <<sent, reported, result>>
vars == <<api, extVars, loopVars, timerVars, clientVars, rxLenOwn, chipVars,
          rxHistory, apiHistory>>

Commands == 1 .. MaxCommands
Packet(m, c, s) == [mt |-> m, cmd |-> c, status |-> s]
NoPacket == Packet("none", 0, "none")
Notification == Packet("ntf", 0, "none")

Init ==
  /\ api = "idle" /\ cmd = 0 /\ kind = "host"
  /\ retryCnt = 0 /\ lenCnt = 0
  /\ status = "FAILED" /\ sem = 0 /\ live = FALSE
  /\ ext_cb_waiting = FALSE /\ hal_ext_enabled = FALSE
  /\ eState = "Idle" /\ armed = FALSE /\ expiring = 0 /\ timeouts = 0
  /\ client = "msgrcv" /\ pkt = NoPacket /\ isSkipPacket = FALSE
  /\ rxLenOwn = TRUE
  /\ onChip = [c \in Commands |-> 0] /\ wire = <<>> /\ nNtfs = 0
  /\ sent = 0 /\ reported = {}
  /\ answered = {} /\ refused = {}
  /\ forwarded = [c \in Commands |-> 0]
  /\ truncated = {} /\ deadPosts = FALSE
  /\ result = [c \in Commands |-> "none"]

(***************************************************************************)
(* The API thread.  phNxpUciHal_write brings host commands, send_ext_cmd   *)
(* the internal ones.                                                      *)
(***************************************************************************)
Begin(k) ==
  /\ api = "idle"
  /\ cmd < MaxCommands
  /\ cmd' = cmd + 1
  /\ kind' = k
  /\ hal_ext_enabled' = (k = "internal")
  /\ retryCnt' = 0 /\ lenCnt' = 0 /\ sent' = 0
  /\ api' = "init"
  /\ UNCHANGED <<extVars, timerVars, clientVars, rxLenOwn, chipVars,
                 rxHistory, reported, result>>

InitCbData ==
  /\ api = "init"
  /\ sem' = 0 /\ live' = TRUE /\ status' = "FAILED"
  /\ api' = "status"
  /\ UNCHANGED <<ext_cb_waiting, loopVars, timerVars, clientVars, rxLenOwn,
                 chipVars, rxHistory, apiHistory>>

SetStatusForgotten ==
  /\ api = "status"
  /\ api' = "waiting"
  /\ UNCHANGED <<extVars, loopVars, timerVars, clientVars,
                 rxLenOwn, chipVars, rxHistory, apiHistory>>

SetStatus ==
  /\ api = "status"
  /\ status' = "SUCCESS"
  /\ api' = "waiting"
  /\ UNCHANGED <<sem, live, ext_cb_waiting, loopVars, timerVars, clientVars,
                 rxLenOwn, chipVars, rxHistory, apiHistory>>

SetWaiting ==
  /\ api = "waiting"
  /\ ext_cb_waiting' = TRUE
  /\ api' = "write"
  /\ UNCHANGED <<status, sem, live, loopVars, timerVars, clientVars, rxLenOwn,
                 chipVars, rxHistory, apiHistory>>

(* The result a caller sees: send_ext_cmd returns the status, and          *)
(* phNxpUciHal_write the length whatever happened.                         *)
Finish(r) ==
  /\ live' = FALSE
  /\ result' = [result EXCEPT ![cmd] = IF kind = "internal" THEN r ELSE "LEN"]
  /\ api' = "disable"

(* phNxpUciHal_parse handles the command itself: nothing is written.       *)
ParseLocally ==
  /\ api = "write"
  /\ kind = "parsed"
  /\ Finish("FAILED")
  /\ UNCHANGED <<status, sem, ext_cb_waiting, loopVars, timerVars, clientVars,
                 rxLenOwn, chipVars, rxHistory, sent, reported>>

(* phNxpUciHal_write_unlocked; a chained command or a data message does    *)
(* not wait for a response.                                                *)
WriteWithoutWait(ok) ==
  /\ api = "write"
  /\ kind # "parsed"
  /\ ok \/ SpiMayFail
  /\ sent' = sent + 1
  /\ onChip' = IF ok /\ kind # "chained"
               THEN [onChip EXCEPT ![cmd] = @ + 1] ELSE onChip
  /\ IF kind # "internal" THEN Finish("FAILED")
     ELSE api' = "timer" /\ UNCHANGED <<live, result>>
  /\ UNCHANGED <<status, sem, ext_cb_waiting, loopVars, timerVars, clientVars,
                 rxLenOwn, wire, nNtfs, rxHistory, reported>>

WriteUnlocked(ok) ==
  /\ api = "write"
  /\ kind # "parsed"
  /\ ok \/ SpiMayFail
  /\ sent' = sent + 1
  /\ onChip' = IF ok /\ kind # "chained"
               THEN [onChip EXCEPT ![cmd] = @ + 1] ELSE onChip
  /\ IF kind = "chained" THEN Finish("FAILED")
     ELSE api' = "timer" /\ UNCHANGED <<live, result>>
  /\ UNCHANGED <<status, sem, ext_cb_waiting, loopVars, timerVars, clientVars,
                 rxLenOwn, wire, nNtfs, rxHistory, reported>>

TimerStartedOnce ==
  /\ api = "timer"
  /\ eState' = "Running"
  /\ armed' = (armed \/ eState = "Idle")
  /\ api' = "wait"
  /\ UNCHANGED <<extVars, loopVars, expiring, timeouts, clientVars, rxLenOwn,
                 chipVars, rxHistory, apiHistory>>

TimerStart ==
  /\ api = "timer"
  /\ eState' = "Running"
  /\ armed' = TRUE
  /\ api' = "wait"
  /\ UNCHANGED <<extVars, loopVars, expiring, timeouts, clientVars, rxLenOwn,
                 chipVars, rxHistory, apiHistory>>

SemWait ==
  /\ api = "wait"
  /\ sem > 0
  /\ sem' = sem - 1
  /\ api' = "clear"
  /\ UNCHANGED <<status, live, ext_cb_waiting, loopVars, timerVars, clientVars,
                 rxLenOwn, chipVars, rxHistory, apiHistory>>

ClearWaiting ==
  /\ api = "clear"
  /\ ext_cb_waiting' = FALSE
  /\ api' = "switch"
  /\ UNCHANGED <<status, sem, live, loopVars, timerVars, clientVars, rxLenOwn,
                 chipVars, rxHistory, apiHistory>>

(* The switch on the status and the test of the limits.                    *)
Exhausted(r, l) == r >= MAX_COMMAND_RETRY_COUNT \/ l >= MaxInvalidLength

SwitchRetransmitUncounted ==
  /\ api = "switch"
  /\ retryCnt' =
       IF status = "TIMEOUT" THEN retryCnt + 1 ELSE retryCnt
  /\ lenCnt' = IF status = "INVALID_LENGTH" THEN lenCnt + 1 ELSE lenCnt
  /\ api' = IF Exhausted(retryCnt', lenCnt') THEN "report"
            ELSE IF status \in {"TIMEOUT", "RETRANSMIT", "INVALID_LENGTH"}
            THEN "status" ELSE "stop"
  /\ UNCHANGED <<extVars, cmd, kind, hal_ext_enabled, timerVars, clientVars,
                 rxLenOwn, chipVars, rxHistory, apiHistory>>

SwitchUnreported ==
  /\ api = "switch"
  /\ retryCnt' =
       IF status \in {"TIMEOUT", "RETRANSMIT"} THEN retryCnt + 1 ELSE retryCnt
  /\ lenCnt' = IF status = "INVALID_LENGTH" THEN lenCnt + 1 ELSE lenCnt
  /\ api' = IF Exhausted(retryCnt', lenCnt') THEN "stop"
            ELSE IF status \in {"TIMEOUT", "RETRANSMIT", "INVALID_LENGTH"}
            THEN "status" ELSE "stop"
  /\ UNCHANGED <<extVars, cmd, kind, hal_ext_enabled, timerVars, clientVars,
                 rxLenOwn, chipVars, rxHistory, apiHistory>>

SwitchRetriesRefusal ==
  /\ api = "switch"
  /\ retryCnt' =
       IF status \in {"TIMEOUT", "RETRANSMIT", "FAILED"} THEN retryCnt + 1 ELSE retryCnt
  /\ lenCnt' = IF status = "INVALID_LENGTH" THEN lenCnt + 1 ELSE lenCnt
  /\ api' = IF Exhausted(retryCnt', lenCnt') THEN "report"
            ELSE IF status \in {"TIMEOUT", "RETRANSMIT", "INVALID_LENGTH", "FAILED"}
            THEN "status" ELSE "stop"
  /\ UNCHANGED <<extVars, cmd, kind, hal_ext_enabled, timerVars, clientVars,
                 rxLenOwn, chipVars, rxHistory, apiHistory>>

Switch ==
  /\ api = "switch"
  /\ retryCnt' =
       IF status \in {"TIMEOUT", "RETRANSMIT"} THEN retryCnt + 1 ELSE retryCnt
  /\ lenCnt' = IF status = "INVALID_LENGTH" THEN lenCnt + 1 ELSE lenCnt
  /\ api' = IF Exhausted(retryCnt', lenCnt') THEN "report"
            ELSE IF status \in {"TIMEOUT", "RETRANSMIT", "INVALID_LENGTH"}
            THEN "status" ELSE "stop"
  /\ UNCHANGED <<extVars, cmd, kind, hal_ext_enabled, timerVars, clientVars,
                 rxLenOwn, chipVars, rxHistory, apiHistory>>

(* phNxpUciHal_send_dev_status_ntf, which also sets rx_data_len.           *)
SendDevStatusNtf ==
  /\ api = "report"
  /\ reported' = reported \union {cmd}
  /\ rxLenOwn' = FALSE
  /\ api' = "stop"
  /\ UNCHANGED <<extVars, loopVars, timerVars, clientVars, chipVars, rxHistory,
                 sent, result>>

(* phOsalUwb_Timer_Stop disarms the kernel timer only if it still runs.    *)
TimerStop ==
  /\ api = "stop"
  /\ IF eState = "Running"
     THEN eState' = "Stopped" /\ armed' = FALSE
     ELSE UNCHANGED <<eState, armed>>
  /\ api' = "verify"
  /\ UNCHANGED <<extVars, loopVars, expiring, timeouts, clientVars, rxLenOwn,
                 chipVars, rxHistory, apiHistory>>

VerifyUnchecked ==
  /\ api = "verify"
  /\ Finish("SUCCESS")
  /\ UNCHANGED <<status, sem, ext_cb_waiting, loopVars, timerVars, clientVars,
                 rxLenOwn, chipVars, rxHistory, sent, reported>>

Verify ==
  /\ api = "verify"
  /\ Finish(IF status = "SUCCESS" THEN "SUCCESS" ELSE "FAILED")
  /\ UNCHANGED <<status, sem, ext_cb_waiting, loopVars, timerVars, clientVars,
                 rxLenOwn, chipVars, rxHistory, sent, reported>>

DisableExt ==
  /\ api = "disable"
  /\ hal_ext_enabled' = FALSE
  /\ api' = "idle"
  /\ UNCHANGED <<extVars, cmd, kind, retryCnt, lenCnt, timerVars, clientVars,
                 rxLenOwn, chipVars, rxHistory, apiHistory>>

(***************************************************************************)
(* The response timer: the kernel starts a thread when it expires, which   *)
(* marks the timer stopped and queues a message for the client thread.     *)
(***************************************************************************)
ReplyUnderWay ==
  \/ \E c \in Commands : onChip[c] > 0
  \/ wire # <<>> \/ client # "msgrcv" \/ sem > 0

Expire ==
  /\ armed
  /\ Timely => ~ReplyUnderWay /\ api = "wait"
  /\ armed' = FALSE
  /\ expiring' = expiring + 1
  /\ UNCHANGED <<api, extVars, loopVars, eState, timeouts, clientVars,
                 rxLenOwn, chipVars, rxHistory, apiHistory>>

TimerExpired ==
  /\ expiring > 0
  /\ expiring' = expiring - 1
  /\ eState' = "Stopped"
  /\ timeouts' = timeouts + 1
  /\ UNCHANGED <<api, extVars, loopVars, armed, clientVars, rxLenOwn, chipVars,
                 rxHistory, apiHistory>>

(***************************************************************************)
(* The client thread.  hal_extns_write_rsp_timeout_cb sets the status and  *)
(* posts the semaphore, whether or not a command waits for it.             *)
(***************************************************************************)
Timeout ==
  /\ client = "msgrcv"
  /\ timeouts > 0
  /\ timeouts' = timeouts - 1
  /\ status' = "TIMEOUT"
  /\ client' = "timeout"
  /\ UNCHANGED <<api, sem, live, ext_cb_waiting, loopVars, eState, armed,
                 expiring, pkt, isSkipPacket, rxLenOwn, chipVars, rxHistory,
                 apiHistory>>

PostExtCbData ==
  /\ sem' = sem + 1
  /\ deadPosts' = (deadPosts \/ ~live)

TimeoutPosts ==
  /\ client = "timeout"
  /\ PostExtCbData
  /\ client' = "msgrcv"
  /\ UNCHANGED <<api, status, live, ext_cb_waiting, loopVars, timerVars, pkt,
                 isSkipPacket, rxLenOwn, chipVars, answered, refused, forwarded,
                 truncated, apiHistory>>

(* read_complete up to the status of ext_cb_data: a response counts as     *)
(* that of the internal command if one is being processed; the generic     *)
(* error notifications always count.                                       *)
StatusOf(p) ==
  CASE p.status = "retry" -> "RETRANSMIT"
    [] p.status = "length" -> "INVALID_LENGTH"
    [] p.mt = "rsp" /\ hal_ext_enabled ->
         IF p.status = "ok" THEN "SUCCESS" ELSE "FAILED"
    [] OTHER -> status

IsErrorNtf(p) == p.status \in {"retry", "length"}

ReadComplete ==
  /\ client = "msgrcv"
  /\ wire # <<>>
  /\ pkt' = Head(wire)
  /\ wire' = Tail(wire)
  /\ rxLenOwn' = TRUE
  /\ status' = StatusOf(pkt')
  /\ isSkipPacket' = (IsErrorNtf(pkt') \/ (pkt'.mt = "rsp" /\ hal_ext_enabled))
  /\ client' = "post"
  /\ answered' = IF pkt'.mt = "rsp" /\ pkt'.status = "ok"
                 THEN answered \union {pkt'.cmd} ELSE answered
  /\ refused' = IF pkt'.mt = "rsp" /\ pkt'.status = "error"
                THEN refused \union {pkt'.cmd} ELSE refused
  /\ UNCHANGED <<api, sem, live, ext_cb_waiting, loopVars, timerVars, onChip,
                 nNtfs, forwarded, truncated, deadPosts, apiHistory>>

bWakeupExtCmd == pkt.mt = "rsp" \/ IsErrorNtf(pkt)

WakeUp ==
  /\ client = "post"
  /\ IF bWakeupExtCmd /\ ext_cb_waiting
     THEN PostExtCbData ELSE UNCHANGED <<sem, deadPosts>>
  /\ client' = "forward"
  /\ UNCHANGED <<api, status, live, ext_cb_waiting, loopVars, timerVars, pkt,
                 isSkipPacket, rxLenOwn, chipVars, answered, refused,
                 forwarded, truncated, apiHistory>>

(* The data callback of the host, unless the packet is kept, and the next  *)
(* read.                                                                   *)
Forward ==
  /\ client = "forward"
  /\ IF isSkipPacket THEN UNCHANGED <<forwarded, truncated>>
     ELSE /\ truncated' = IF rxLenOwn THEN truncated ELSE truncated \union {pkt.mt}
          /\ forwarded' = IF pkt.mt = "rsp"
                          THEN [forwarded EXCEPT ![pkt.cmd] = @ + 1]
                          ELSE forwarded
  /\ client' = "msgrcv"
  /\ pkt' = NoPacket /\ isSkipPacket' = FALSE
  /\ UNCHANGED <<api, extVars, loopVars, timerVars, rxLenOwn, chipVars,
                 answered, refused, deadPosts, apiHistory>>

(***************************************************************************)
(* The chip replies to a transmission with a response (of one packet) or a *)
(* generic error notification, loses it, or notifies on its own.           *)
(***************************************************************************)
Answer(c, r) ==
  wire' = Append(wire, IF r \in {"retry", "length"} THEN Packet("ntf", 0, r)
                       ELSE Packet("rsp", c, r))

ChipReplies ==
  \E c \in Commands, r \in Replies :
    /\ onChip[c] > 0
    /\ onChip' = [onChip EXCEPT ![c] = @ - 1]
    /\ Answer(c, r)
    /\ UNCHANGED <<api, extVars, loopVars, timerVars, clientVars, rxLenOwn,
                   nNtfs, rxHistory, apiHistory>>

ChipLoses ==
  \E c \in Commands :
    /\ onChip[c] > 0
    /\ onChip' = [onChip EXCEPT ![c] = @ - 1]
    /\ UNCHANGED <<api, extVars, loopVars, timerVars, clientVars, rxLenOwn,
                   wire, nNtfs, rxHistory, apiHistory>>

ChipNotifies ==
  /\ nNtfs < MaxNtfs
  /\ nNtfs' = nNtfs + 1
  /\ wire' = Append(wire, Notification)
  /\ UNCHANGED <<api, extVars, loopVars, timerVars, clientVars, rxLenOwn,
                 onChip, rxHistory, apiHistory>>

ProcessExtCmdRsp ==
  \/ InitCbData \/ SetStatus \/ SetWaiting \/ ParseLocally
  \/ \E ok \in BOOLEAN : WriteUnlocked(ok)
  \/ TimerStart \/ SemWait \/ ClearWaiting \/ Switch \/ SendDevStatusNtf
  \/ TimerStop \/ Verify \/ DisableExt

ClientThread == Timeout \/ TimeoutPosts \/ ReadComplete \/ WakeUp \/ Forward

Next ==
  \/ \E k \in Kinds : Begin(k)
  \/ ProcessExtCmdRsp
  \/ ClientThread
  \/ Expire \/ TimerExpired
  \/ ChipReplies \/ ChipLoses \/ ChipNotifies

(***************************************************************************)
(* Fairness: threads that can run do run, a timer that is due expires, and *)
(* the chip replies to a transmission or will never do so.                 *)
(***************************************************************************)
Fairness ==
  /\ WF_vars(ProcessExtCmdRsp)
  /\ WF_vars(ClientThread)
  /\ WF_vars(Expire) /\ WF_vars(TimerExpired)
  /\ WF_vars(ChipReplies \/ ChipLoses)

Spec == Init /\ [][Next]_vars
FairSpec == Spec /\ Fairness
-----------------------------------------------------------------------------
Statuses ==
  {"FAILED", "SUCCESS", "TIMEOUT", "RETRANSMIT", "INVALID_LENGTH"}
Packets ==
  {p \in [mt : {"rsp", "ntf", "none"}, cmd : Nat,
          status : Replies \union {"none"}] : p.mt = "rsp" => p.cmd \in Commands}

LoopType ==
  /\ api \in {"idle", "init", "status", "waiting", "write", "timer", "wait",
             "clear", "switch", "report", "stop", "verify", "disable"}
  /\ cmd \in 0 .. MaxCommands /\ kind \in Kinds \union {"host"}
  /\ retryCnt \in 0 .. MAX_COMMAND_RETRY_COUNT
  /\ lenCnt \in 0 .. MaxInvalidLength
  /\ Exhausted(retryCnt, lenCnt) =>
       api \in {"idle", "report", "stop", "verify", "disable"}
  /\ sent \in Nat /\ hal_ext_enabled \in BOOLEAN

SharedType ==
  /\ status \in Statuses /\ sem \in Nat /\ live \in BOOLEAN
  /\ ext_cb_waiting \in BOOLEAN
  /\ eState \in {"Idle", "Running", "Stopped"} /\ armed \in BOOLEAN
  /\ expiring \in Nat /\ timeouts \in Nat

PacketType ==
  /\ client \in {"msgrcv", "timeout", "post", "forward"}
  /\ pkt \in Packets /\ wire \in Seq(Packets)
  /\ isSkipPacket \in BOOLEAN /\ rxLenOwn \in BOOLEAN
  /\ onChip \in [Commands -> Nat] /\ nNtfs \in 0 .. MaxNtfs

HistoryType ==
  /\ reported \subseteq Commands
  /\ answered \subseteq Commands /\ refused \subseteq Commands
  /\ forwarded \in [Commands -> Nat]
  /\ truncated \subseteq {"rsp", "ntf", "none"} /\ deadPosts \in BOOLEAN
  /\ result \in [Commands -> {"none", "SUCCESS", "FAILED", "LEN"}]

(* The counters of the retry loop stay below their limits while it runs,   *)
(* and the control states, statuses and packets are those of the code.     *)
TypeOK == LoopType /\ SharedType /\ PacketType /\ HistoryType

(* phNxpUciHal_process_ext_cmd_rsp: whatever mixture of timeouts,           *)
(* retransmission requests and length errors a command meets, and however  *)
(* late they come, it is written a bounded number of times.                *)
BoundedTransmissions ==
  sent <= MAX_COMMAND_RETRY_COUNT + MaxInvalidLength - 1

(* phNxpUciHal_send_ext_cmd: UWBSTATUS_SUCCESS means that the chip          *)
(* answered this command, and answered it positively.                      *)
SuccessIsAnswered == \A c \in Commands : result[c] = "SUCCESS" => c \in answered

(* A failure means that the chip refused the command or that it was tried   *)
(* to the limit and the host was told of a device error, never that an     *)
(* answer was overwritten by an older status.                              *)
FailureIsReal ==
  \A c \in Commands : result[c] = "FAILED" => c \in refused \union reported

(* read_complete: responses to internal commands stay in the HAL; each      *)
(* response to a host command reaches the host, once, and with its own     *)
(* length, which the API thread may set for a packet of its own: only a    *)
(* notification can be cut by that.                                        *)
ResponsesToOwner ==
  /\ "rsp" \notin truncated
  /\ \A c \in Commands :
       /\ result[c] \in {"SUCCESS", "FAILED"} => forwarded[c] = 0
       /\ result[c] = "LEN" /\ c \in answered \union refused /\ client = "msgrcv"
            => forwarded[c] = 1

(* SEM_POST is called only between init_cb_data and cleanup_cb_data.        *)
NoDeadPosts == ~deadPosts

(* Whatever threads, retries and losses do in between, what happens to a    *)
(* command is what UciService lets happen, in that order.                   *)
Service == INSTANCE UciService
CommandService == Service!ServiceSpec

(* send_ext_cmd and write return, whatever the chip and the timer do.       *)
CommandsReturn == \A c \in Commands : cmd = c ~> result[c] # "none"
=============================================================================

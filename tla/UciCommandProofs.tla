--------------------------- MODULE UciCommandProofs ---------------------------
(***************************************************************************)
(* A UCI command is written a bounded number of times, for any limits, any *)
(* number of commands, any replies and any delays.  In the loop every      *)
(* transmission but the last has been counted as a retry of one of the two *)
(* kinds, and no count has reached its limit.                              *)
(***************************************************************************)
EXTENDS UciCommand, TLAPS

BeforeWrite == api \in {"init", "status", "waiting", "write"}
AfterWrite == api \in {"timer", "wait", "clear", "switch"}
InLoop == BeforeWrite \/ AfterWrite

(* The transmissions of the current command and the counters of its loop.  *)
LoopCount ==
  /\ InLoop => ~Exhausted(retryCnt, lenCnt)
  /\ BeforeWrite => sent = retryCnt + lenCnt
  /\ AfterWrite => sent = retryCnt + lenCnt + 1
  /\ ~InLoop => BoundedTransmissions

CommandInProgress == api # "idle" => cmd \in Commands

IInv == TypeOK /\ LoopCount /\ CommandInProgress
-----------------------------------------------------------------------------
(* A command is numbered before anything is done for it.                     *)
LEMMA CommandStep == IInv /\ [Next]_vars => CommandInProgress'
<1>. SUFFICES ASSUME IInv, [Next]_vars PROVE CommandInProgress'
  OBVIOUS
<1>. USE CommandAssumption DEF IInv, TypeOK, LoopType, CommandInProgress,
   Commands, extVars, loopVars, timerVars, clientVars, chipVars, rxHistory,
   apiHistory
<1>1. ASSUME NEW k \in Kinds, Begin(k) PROVE CommandInProgress'
  BY <1>1 DEF Begin
<1>2. CASE InitCbData
  BY <1>2 DEF InitCbData
<1>3. CASE SetStatus
  BY <1>3 DEF SetStatus
<1>4. CASE SetWaiting
  BY <1>4 DEF SetWaiting
<1>5. CASE ParseLocally
  BY <1>5 DEF ParseLocally, Finish
<1>6. ASSUME NEW ok \in BOOLEAN, WriteUnlocked(ok) PROVE CommandInProgress'
  BY <1>6 DEF WriteUnlocked, Finish
<1>7. CASE TimerStart
  BY <1>7 DEF TimerStart
<1>8. CASE SemWait
  BY <1>8 DEF SemWait
<1>9. CASE ClearWaiting
  BY <1>9 DEF ClearWaiting
<1>10. CASE Switch
  BY <1>10 DEF Switch, Exhausted
<1>11. CASE SendDevStatusNtf
  BY <1>11 DEF SendDevStatusNtf
<1>12. CASE TimerStop
  BY <1>12 DEF TimerStop
<1>13. CASE Verify
  BY <1>13 DEF Verify, Finish
<1>14. CASE DisableExt
  BY <1>14 DEF DisableExt
<1>15. CASE Expire
  BY <1>15 DEF Expire
<1>16. CASE TimerExpired
  BY <1>16 DEF TimerExpired
<1>17. CASE Timeout
  BY <1>17 DEF Timeout
<1>18. CASE TimeoutPosts
  BY <1>18 DEF TimeoutPosts, PostExtCbData
<1>19. CASE ReadComplete
  BY <1>19 DEF ReadComplete, StatusOf, IsErrorNtf
<1>20. CASE WakeUp
  BY <1>20 DEF WakeUp, PostExtCbData, bWakeupExtCmd
<1>21. CASE Forward
  BY <1>21 DEF Forward, NoPacket, Packet
<1>22. CASE ChipReplies
  BY <1>22 DEF ChipReplies, Answer, Packet
<1>23. CASE ChipLoses
  BY <1>23 DEF ChipLoses
<1>24. CASE ChipNotifies
  BY <1>24 DEF ChipNotifies, Notification, Packet
<1>25. CASE UNCHANGED vars
  BY <1>25 DEF vars
<1>26. QED
  BY <1>1, <1>2, <1>3, <1>4, <1>5, <1>6, <1>7, <1>8, <1>9, <1>10, <1>11,
     <1>12, <1>13, <1>14, <1>15, <1>16, <1>17, <1>18, <1>19, <1>20, <1>21,
     <1>22, <1>23, <1>24, <1>25
    DEF Next, ProcessExtCmdRsp, ClientThread

(* Each transmission but the last is counted as a retry.                     *)
LEMMA CountStep == IInv /\ [Next]_vars => LoopCount'
<1>. SUFFICES ASSUME IInv, [Next]_vars PROVE LoopCount'
  OBVIOUS
<1>. USE CommandAssumption DEF IInv, TypeOK, LoopType, LoopCount, InLoop,
   BeforeWrite, AfterWrite, Exhausted, BoundedTransmissions, extVars,
   loopVars, timerVars, clientVars, chipVars, rxHistory, apiHistory
<1>1. ASSUME NEW k \in Kinds, Begin(k) PROVE LoopCount'
  BY <1>1 DEF Begin
<1>2. CASE InitCbData
  BY <1>2 DEF InitCbData
<1>3. CASE SetStatus
  BY <1>3 DEF SetStatus
<1>4. CASE SetWaiting
  BY <1>4 DEF SetWaiting
<1>5. CASE ParseLocally
  BY <1>5 DEF ParseLocally, Finish
<1>6. ASSUME NEW ok \in BOOLEAN, WriteUnlocked(ok) PROVE LoopCount'
  BY <1>6 DEF WriteUnlocked, Finish
<1>7. CASE TimerStart
  BY <1>7 DEF TimerStart
<1>8. CASE SemWait
  BY <1>8 DEF SemWait
<1>9. CASE ClearWaiting
  BY <1>9 DEF ClearWaiting
<1>10. CASE Switch
  BY <1>10 DEF Switch, Exhausted
<1>11. CASE SendDevStatusNtf
  BY <1>11 DEF SendDevStatusNtf
<1>12. CASE TimerStop
  BY <1>12 DEF TimerStop
<1>13. CASE Verify
  BY <1>13 DEF Verify, Finish
<1>14. CASE DisableExt
  BY <1>14 DEF DisableExt
<1>15. CASE Expire
  BY <1>15 DEF Expire
<1>16. CASE TimerExpired
  BY <1>16 DEF TimerExpired
<1>17. CASE Timeout
  BY <1>17 DEF Timeout
<1>18. CASE TimeoutPosts
  BY <1>18 DEF TimeoutPosts, PostExtCbData
<1>19. CASE ReadComplete
  BY <1>19 DEF ReadComplete, StatusOf, IsErrorNtf
<1>20. CASE WakeUp
  BY <1>20 DEF WakeUp, PostExtCbData, bWakeupExtCmd
<1>21. CASE Forward
  BY <1>21 DEF Forward, NoPacket, Packet
<1>22. CASE ChipReplies
  BY <1>22 DEF ChipReplies, Answer, Packet
<1>23. CASE ChipLoses
  BY <1>23 DEF ChipLoses
<1>24. CASE ChipNotifies
  BY <1>24 DEF ChipNotifies, Notification, Packet
<1>25. CASE UNCHANGED vars
  BY <1>25 DEF vars
<1>26. QED
  BY <1>1, <1>2, <1>3, <1>4, <1>5, <1>6, <1>7, <1>8, <1>9, <1>10, <1>11,
     <1>12, <1>13, <1>14, <1>15, <1>16, <1>17, <1>18, <1>19, <1>20, <1>21,
     <1>22, <1>23, <1>24, <1>25
    DEF Next, ProcessExtCmdRsp, ClientThread

(* The command and the counters of its loop.                                 *)
LEMMA LoopTypeStep == IInv /\ [Next]_vars => LoopType'
<1>. SUFFICES ASSUME IInv, [Next]_vars PROVE LoopType'
  OBVIOUS
<1>. USE CommandAssumption DEF IInv, TypeOK, LoopType, LoopCount, InLoop,
   BeforeWrite, AfterWrite, Exhausted, extVars, loopVars, timerVars,
   clientVars, chipVars, rxHistory, apiHistory
<1>1. CASE UNCHANGED <<api, cmd, kind, retryCnt, lenCnt, sent, hal_ext_enabled>>
  BY <1>1
<1>2. ASSUME NEW k \in Kinds, Begin(k) PROVE LoopType'
  BY <1>2 DEF Begin
<1>3. CASE InitCbData
  BY <1>3 DEF InitCbData
<1>4. CASE SetStatus
  BY <1>4 DEF SetStatus
<1>5. CASE SetWaiting
  BY <1>5 DEF SetWaiting
<1>6. CASE ParseLocally
  BY <1>6 DEF ParseLocally, Finish
<1>7. ASSUME NEW ok \in BOOLEAN, WriteUnlocked(ok) PROVE LoopType'
  BY <1>7 DEF WriteUnlocked, Finish
<1>8. CASE TimerStart
  BY <1>8 DEF TimerStart
<1>9. CASE SemWait
  BY <1>9 DEF SemWait
<1>10. CASE ClearWaiting
  BY <1>10 DEF ClearWaiting
<1>11. CASE Switch
  BY <1>11 DEF Switch, Exhausted
<1>12. CASE SendDevStatusNtf
  BY <1>12 DEF SendDevStatusNtf
<1>13. CASE TimerStop
  BY <1>13 DEF TimerStop
<1>14. CASE Verify
  BY <1>14 DEF Verify, Finish
<1>15. CASE DisableExt
  BY <1>15 DEF DisableExt
<1>16. QED
  BY <1>1, <1>2, <1>3, <1>4, <1>5, <1>6, <1>7, <1>8, <1>9, <1>10, <1>11,
     <1>12, <1>13, <1>14, <1>15
    DEF Next, ProcessExtCmdRsp, ClientThread, vars, Expire, TimerExpired,
       Timeout, TimeoutPosts, ReadComplete, WakeUp, Forward, ChipReplies,
       ChipLoses, ChipNotifies, PostExtCbData, StatusOf, IsErrorNtf,
       bWakeupExtCmd, Answer, Notification

(* What the API thread and the client thread share, and the timer.            *)
LEMMA SharedTypeStep == IInv /\ [Next]_vars => SharedType'
<1>. SUFFICES ASSUME IInv, [Next]_vars PROVE SharedType'
  OBVIOUS
<1>. USE CommandAssumption DEF IInv, TypeOK, SharedType, Statuses, extVars,
   loopVars, timerVars, clientVars, chipVars, rxHistory, apiHistory
<1>1. CASE UNCHANGED <<status, sem, live, ext_cb_waiting, eState, armed,
                      expiring, timeouts>>
  BY <1>1
<1>2. CASE InitCbData
  BY <1>2 DEF InitCbData
<1>3. CASE SetStatus
  BY <1>3 DEF SetStatus
<1>4. CASE SetWaiting
  BY <1>4 DEF SetWaiting
<1>5. CASE ParseLocally
  BY <1>5 DEF ParseLocally, Finish
<1>6. ASSUME NEW ok \in BOOLEAN, WriteUnlocked(ok) PROVE SharedType'
  BY <1>6 DEF WriteUnlocked, Finish
<1>7. CASE TimerStart
  BY <1>7 DEF TimerStart
<1>8. CASE SemWait
  BY <1>8 DEF SemWait
<1>9. CASE ClearWaiting
  BY <1>9 DEF ClearWaiting
<1>10. CASE TimerStop
  BY <1>10 DEF TimerStop
<1>11. CASE Verify
  BY <1>11 DEF Verify, Finish
<1>12. CASE Expire
  <2>1. /\ armed' = FALSE /\ expiring' = expiring + 1
        /\ UNCHANGED <<status, sem, live, ext_cb_waiting, eState, timeouts>>
    BY <1>12, Zenon DEF Expire
  <2>2. expiring' \in Nat
    BY <2>1
  <2>3. armed' \in BOOLEAN
    BY <2>1, Zenon
  <2>4. QED
    BY <2>1, <2>2, <2>3
<1>13. CASE TimerExpired
  BY <1>13 DEF TimerExpired
<1>14. CASE Timeout
  BY <1>14 DEF Timeout
<1>15. CASE TimeoutPosts
  BY <1>15 DEF TimeoutPosts, PostExtCbData
<1>16. CASE ReadComplete
  BY <1>16 DEF ReadComplete, StatusOf, IsErrorNtf
<1>17. CASE WakeUp
  BY <1>17 DEF WakeUp, PostExtCbData, bWakeupExtCmd
<1>18. QED
  BY <1>1, <1>2, <1>3, <1>4, <1>5, <1>6, <1>7, <1>8, <1>9, <1>10, <1>11,
     <1>12, <1>13, <1>14, <1>15, <1>16, <1>17
    DEF Next, ProcessExtCmdRsp, ClientThread, vars, Begin, Switch,
       SendDevStatusNtf, DisableExt, Forward, ChipReplies, ChipLoses,
       ChipNotifies, Exhausted, Answer, Notification

(* The packets in the chip, on the wire and in the client thread.             *)
LEMMA PacketTypeStep == IInv /\ [Next]_vars => PacketType'
<1>. SUFFICES ASSUME IInv, [Next]_vars PROVE PacketType'
  OBVIOUS
<1>. USE CommandAssumption DEF IInv, TypeOK, PacketType, Packets, extVars,
   loopVars, timerVars, clientVars, chipVars, rxHistory, apiHistory
<1>1. CASE UNCHANGED <<client, pkt, wire, isSkipPacket, rxLenOwn, onChip,
                      nNtfs>>
  BY <1>1
<1>2. ASSUME NEW ok \in BOOLEAN, WriteUnlocked(ok) PROVE PacketType'
  <2>1. cmd \in Commands /\ onChip[cmd] + 1 \in Nat
    BY <1>2 DEF WriteUnlocked, CommandInProgress
  <2>2. onChip' \in [Commands -> Nat]
    BY <1>2, <2>1 DEF WriteUnlocked
  <2>3. QED
    BY <1>2, <2>2 DEF WriteUnlocked
<1>3. CASE SendDevStatusNtf
  BY <1>3 DEF SendDevStatusNtf
<1>4. CASE Timeout
  BY <1>4 DEF Timeout
<1>5. CASE TimeoutPosts
  BY <1>5 DEF TimeoutPosts, PostExtCbData
<1>6. CASE ReadComplete
  BY <1>6 DEF ReadComplete, StatusOf, IsErrorNtf
<1>7. CASE WakeUp
  BY <1>7 DEF WakeUp, PostExtCbData, bWakeupExtCmd
<1>8. CASE Forward
  BY <1>8 DEF Forward, NoPacket, Packet
<1>9. CASE ChipReplies
  <2>1. PICK c \in Commands, r \in Replies :
          /\ onChip[c] > 0 /\ onChip' = [onChip EXCEPT ![c] = @ - 1]
          /\ Answer(c, r)
    BY <1>9 DEF ChipReplies
  <2>2. onChip[c] - 1 \in Nat
    BY <2>1
  <2>3. onChip' \in [Commands -> Nat]
    BY <2>1, <2>2
  <2>4. wire' \in Seq(Packets)
    <3>1. Packet("ntf", 0, r) \in Packets /\ Packet("rsp", c, r) \in Packets
      BY DEF Packet, Commands
    <3>2. QED
      BY <2>1, <3>1 DEF Answer
  <2>5. QED
    BY <1>9, <2>3, <2>4 DEF ChipReplies
<1>10. CASE ChipLoses
  <2>1. PICK c \in Commands :
          onChip[c] > 0 /\ onChip' = [onChip EXCEPT ![c] = @ - 1]
    BY <1>10 DEF ChipLoses
  <2>2. onChip[c] - 1 \in Nat
    BY <2>1
  <2>3. onChip' \in [Commands -> Nat]
    BY <2>1, <2>2
  <2>4. QED
    BY <1>10, <2>3 DEF ChipLoses
<1>11. CASE ChipNotifies
  BY <1>11 DEF ChipNotifies, Notification, Packet
<1>12. QED
  BY <1>1, <1>2, <1>3, <1>4, <1>5, <1>6, <1>7, <1>8, <1>9, <1>10, <1>11
    DEF Next, ProcessExtCmdRsp, ClientThread, vars, Begin, InitCbData,
       SetStatus, SetWaiting, ParseLocally, TimerStart, SemWait,
       ClearWaiting, Switch, TimerStop, Verify, DisableExt, Expire,
       TimerExpired, Finish, Exhausted

(* The history variables.                                                    *)
LEMMA HistoryTypeStep == IInv /\ [Next]_vars => HistoryType'
<1>. SUFFICES ASSUME IInv, [Next]_vars PROVE HistoryType'
  OBVIOUS
<1>. USE CommandAssumption DEF IInv, TypeOK, HistoryType, PacketType,
   CommandInProgress, Packets, extVars, loopVars, timerVars, clientVars,
   chipVars, rxHistory, apiHistory
<1>1. CASE UNCHANGED <<reported, answered, refused, forwarded, truncated,
                      deadPosts, result>>
  BY <1>1
<1>2. CASE ParseLocally
  BY <1>2 DEF ParseLocally, Finish
<1>3. ASSUME NEW ok \in BOOLEAN, WriteUnlocked(ok) PROVE HistoryType'
  <2>1. cmd \in Commands
    BY <1>3 DEF WriteUnlocked
  <2>2. result' \in [Commands -> {"none", "SUCCESS", "FAILED", "LEN"}]
    BY <1>3, <2>1 DEF WriteUnlocked, Finish
  <2>3. QED
    BY <1>3, <2>2 DEF WriteUnlocked
<1>4. CASE SendDevStatusNtf
  BY <1>4 DEF SendDevStatusNtf
<1>5. CASE Verify
  BY <1>5 DEF Verify, Finish
<1>6. CASE TimeoutPosts
  BY <1>6 DEF TimeoutPosts, PostExtCbData
<1>7. CASE ReadComplete
  <2>1. pkt' \in Packets
    BY <1>7 DEF ReadComplete
  <2>2. pkt'.mt = "rsp" => pkt'.cmd \in Commands
    BY <2>1
  <2>3. QED
    BY <1>7, <2>2 DEF ReadComplete
<1>8. CASE WakeUp
  <2>1. deadPosts' \in BOOLEAN
    BY <1>8 DEF WakeUp, PostExtCbData
  <2>2. QED
    BY <1>8, <2>1 DEF WakeUp
<1>9. CASE Forward
  <2>1. pkt.mt = "rsp" => pkt.cmd \in Commands /\ forwarded[pkt.cmd] + 1 \in Nat
    OBVIOUS
  <2>2. forwarded' \in [Commands -> Nat]
    <3>1. CASE forwarded' = forwarded
      BY <3>1
    <3>2. CASE pkt.mt = "rsp"
               /\ forwarded' = [forwarded EXCEPT ![pkt.cmd] = @ + 1]
      BY <2>1, <3>2
    <3>3. QED
      BY <1>9, <3>1, <3>2 DEF Forward
  <2>3. truncated' \subseteq {"rsp", "ntf", "none"}
    <3>1. pkt.mt \in {"rsp", "ntf", "none"} /\ truncated \subseteq {"rsp", "ntf", "none"}
      OBVIOUS
    <3>2. truncated' \in {truncated, truncated \union {pkt.mt}}
      BY <1>9 DEF Forward
    <3>3. QED
      BY <3>1, <3>2
  <2>4. QED
    BY <1>9, <2>2, <2>3 DEF Forward
<1>10. QED
  BY <1>1, <1>2, <1>3, <1>4, <1>5, <1>6, <1>7, <1>8, <1>9
    DEF Next, ProcessExtCmdRsp, ClientThread, vars, Begin, InitCbData,
       SetStatus, SetWaiting, TimerStart, SemWait, ClearWaiting, Switch,
       TimerStop, DisableExt, Expire, TimerExpired, Timeout, ChipReplies,
       ChipLoses, ChipNotifies

(* The invariant holds initially.                                          *)
LEMMA InitIInv == Init => IInv
<1>. SUFFICES ASSUME Init PROVE IInv
  OBVIOUS
<1>. USE CommandAssumption DEF Init
<1>1. LoopType
  <2>1. /\ 0 \in 0 .. MaxCommands /\ 0 \in 0 .. MAX_COMMAND_RETRY_COUNT
        /\ 0 \in 0 .. MaxInvalidLength
    OBVIOUS
  <2>2. QED
    BY <2>1 DEF LoopType
<1>2. SharedType
  BY DEF SharedType, Statuses
<1>3. PacketType
  <2>1. NoPacket \in Packets
    BY DEF Packets, NoPacket, Packet
  <2>2. onChip \in [Commands -> Nat] /\ wire \in Seq(Packets)
    OBVIOUS
  <2>3. pkt \in Packets /\ nNtfs \in 0 .. MaxNtfs
    BY <2>1
  <2>4. client \in {"msgrcv", "timeout", "post", "forward"}
        /\ isSkipPacket \in BOOLEAN /\ rxLenOwn \in BOOLEAN
    OBVIOUS
  <2>5. QED
    BY <2>2, <2>3, <2>4, Zenon DEF PacketType
<1>4. HistoryType
  BY DEF HistoryType
<1>5. LoopCount /\ CommandInProgress
  BY DEF LoopCount, InLoop, BeforeWrite, AfterWrite, BoundedTransmissions,
     CommandInProgress
<1>6. QED
  BY <1>1, <1>2, <1>3, <1>4, <1>5 DEF IInv, TypeOK

(* No step breaks it.                                                      *)
LEMMA InvariantStep == IInv /\ [Next]_vars => IInv'
<1>1. IInv /\ [Next]_vars => TypeOK'
  BY LoopTypeStep, SharedTypeStep, PacketTypeStep, HistoryTypeStep DEF TypeOK
<1>2. QED
  BY <1>1, CountStep, CommandStep DEF IInv

(* The counters account for every transmission, always.                    *)
THEOREM Invariant == Spec => []IInv
  BY InitIInv, InvariantStep, PTL DEF Spec

(* Type correctness: among others, no counter of the loop passes its limit  *)
(* and the loop never runs on once a limit is reached.                     *)
THEOREM TypeCorrect == Spec => []TypeOK
<1>1. IInv => TypeOK
  BY DEF IInv
<1>2. QED
  BY <1>1, Invariant, PTL

(* phNxpUciHal_process_ext_cmd_rsp writes a command at most                 *)
(* (MAX_COMMAND_RETRY_COUNT - 1) + (MaxInvalidLength - 1) + 1 times.       *)
THEOREM TransmissionsBounded == Spec => []BoundedTransmissions
<1>1. IInv => BoundedTransmissions
  BY CommandAssumption
     DEF IInv, TypeOK, LoopType, LoopCount, InLoop, BeforeWrite, AfterWrite,
         Exhausted, BoundedTransmissions
<1>2. QED
  BY <1>1, Invariant, PTL

-----------------------------------------------------------------------------
(***************************************************************************)
(* What the callers of phNxpUciHal_process_ext_cmd_rsp are told is true    *)
(* when the response timer is Timely, for any number of commands, any      *)
(* limits, any replies and losses, and any notifications in between.       *)
(*                                                                         *)
(* A command that waits has at most one answer under way: a transmission   *)
(* the chip holds, a packet on the wire or in the client thread, an expiry *)
(* of the timer, or a post nobody has taken.  A late timer would break     *)
(* this, and with it everything below.                                     *)
(***************************************************************************)


Awaiting == api \in {"timer", "wait"}
Wakes(p) == p.mt = "rsp" \/ IsErrorNtf(p)
OneIf(b) == IF b THEN 1 ELSE 0

(* The places an answer to the current command can be in.                  *)
OnChip == \E c \in Commands : onChip[c] > 0
OnWire == \E k \in DOMAIN wire : Wakes(wire[k])
Taken == (client = "post" /\ Wakes(pkt)) \/ client = "timeout"
Answers ==
  OneIf(OnChip) + OneIf(OnWire) + OneIf(Taken) + sem + expiring + timeouts

OneAnswer ==
  /\ Answers <= OneIf(Awaiting)
  /\ \A c \in Commands : onChip[c] <= OneIf(c = cmd)
  /\ \A j, k \in DOMAIN wire : Wakes(wire[j]) /\ Wakes(wire[k]) => j = k
  /\ expiring + timeouts > 0 => api = "wait" /\ ~armed

(* No packet answers an older command.                                     *)
OwnPacket(p) == p.mt = "rsp" => p.cmd = cmd /\ p.status \in {"ok", "error"}
OwnPackets ==
  /\ \A k \in DOMAIN wire : OwnPacket(wire[k])
  /\ client = "post" => OwnPacket(pkt)

(* The variables of the loop that the other threads read.                  *)
LoopState ==
  /\ api \notin {"idle", "init", "disable"} => live
  /\ api \in {"write", "timer", "wait"} => ext_cb_waiting
  /\ IF api \in {"idle", "disable"}
     THEN cmd \in Commands => result[cmd] # "none"
     ELSE result[cmd] = "none" /\ hal_ext_enabled = (kind = "internal")
  /\ \A c \in Commands :
       c > cmd => result[c] = "none" /\ c \notin answered \union refused

(* From the time an answer is taken, status says what it was; until then   *)
(* it is the SUCCESS the loop starts with.                                 *)
Decided ==
  Taken \/ sem > 0 \/ api \in {"clear", "switch", "report", "stop", "verify"}
StatusReal ==
  /\ api \in {"waiting", "write", "timer", "wait"} /\ ~Decided
       => status = "SUCCESS"
  /\ kind = "internal" /\ Decided =>
       /\ status = "SUCCESS" => cmd \in answered
       /\ status = "FAILED" => cmd \in refused
  /\ api \in {"stop", "verify"} =>
       status \in {"SUCCESS", "FAILED"} \/ cmd \in reported

(* A response ends the loop: the command is not written again.              *)
AnsweredOnce ==
  cmd \in answered \union refused =>
    /\ api \notin {"init", "status", "waiting", "write", "report"}
    /\ AfterWrite => Decided /\ status \in {"SUCCESS", "FAILED"}

(* The response the client thread handles, and whether it is for the HAL.  *)
Handled(c) == client \in {"post", "forward"} /\ pkt.mt = "rsp" /\ pkt.cmd = c
Internal(c) ==
  \/ result[c] \in {"SUCCESS", "FAILED"}
  \/ c = cmd /\ result[c] = "none" /\ kind = "internal"

Given ==
  /\ \A c \in Commands :
       forwarded[c] = OneIf(/\ c \in answered \union refused
                            /\ ~Internal(c) /\ ~Handled(c))
  /\ \A c \in Commands : Handled(c) =>
       /\ c \in answered \union refused
       /\ isSkipPacket = Internal(c) /\ rxLenOwn
       /\ c # cmd => ~Decided
  /\ "rsp" \notin truncated

TimelyInv ==
  /\ OneAnswer /\ OwnPackets /\ LoopState /\ StatusReal /\ AnsweredOnce /\ Given
  /\ SuccessIsAnswered /\ FailureIsReal /\ NoDeadPosts

Inv == IInv /\ TimelyInv
-----------------------------------------------------------------------------
(* Taking the first packet of a sequence, and adding one at its end.         *)
LEMMA Taking ==
  ASSUME NEW S, NEW s \in Seq(S), s # <<>>
  PROVE  /\ 1 \in DOMAIN s /\ Head(s) = s[1]
         /\ \A k \in DOMAIN Tail(s) :
              k + 1 \in DOMAIN s /\ k + 1 # 1 /\ Tail(s)[k] = s[k + 1]
         /\ \A j, k \in DOMAIN Tail(s) : j + 1 = k + 1 => j = k
  OBVIOUS

LEMMA Adding ==
  ASSUME NEW S, NEW s \in Seq(S), NEW p \in S
  PROVE  \A k \in DOMAIN Append(s, p) :
           \/ k \in DOMAIN s /\ Append(s, p)[k] = s[k]
           \/ k = Len(s) + 1 /\ k \notin DOMAIN s /\ Append(s, p)[k] = p
  OBVIOUS

(* A packet that wakes the loop is read while the loop waits for it, and    *)
(* nothing else is under way.                                              *)
LEMMA Reading ==
  ASSUME Inv, ReadComplete
  PROVE  /\ pkt' \in Packets /\ OwnPacket(pkt')
         /\ Wakes(pkt') => Awaiting /\ cmd \in Commands /\ ~Decided
         /\ IF pkt'.mt = "rsp"
            THEN /\ ~IsErrorNtf(pkt')
                 /\ isSkipPacket' = hal_ext_enabled
                 /\ status' = IF ~hal_ext_enabled THEN status
                              ELSE IF pkt'.status = "ok" THEN "SUCCESS" ELSE "FAILED"
                 /\ IF pkt'.status = "ok"
                    THEN answered' = answered \union {cmd} /\ refused' = refused
                    ELSE answered' = answered /\ refused' = refused \union {cmd}
            ELSE /\ answered' = answered /\ refused' = refused
                 /\ IF IsErrorNtf(pkt') THEN status' \in {"RETRANSMIT", "INVALID_LENGTH"}
                    ELSE status' = status
<1>1. /\ client = "msgrcv" /\ wire # <<>> /\ pkt' = Head(wire)
  BY DEF ReadComplete
<1>2. TypeOK /\ CommandInProgress /\ OneAnswer /\ OwnPackets
  BY DEF Inv, IInv, TimelyInv
<1>3. wire \in Seq(Packets)
  BY <1>2 DEF TypeOK, PacketType
<1>4. 1 \in DOMAIN wire /\ pkt' = wire[1]
  BY <1>1, <1>3, Taking
<1>5. pkt' \in Packets /\ OwnPacket(pkt')
  BY <1>2, <1>3, <1>4 DEF OwnPackets
<1>6. ASSUME Wakes(pkt') PROVE Awaiting /\ cmd \in Commands /\ ~Decided
  <2>1. OnWire
    BY <1>4, <1>6 DEF OnWire
  <2>2. sem \in Nat /\ expiring \in Nat /\ timeouts \in Nat
    BY <1>2 DEF TypeOK, SharedType
  <2>3. Awaiting /\ ~Taken /\ sem = 0
    BY <1>2, <2>1, <2>2 DEF OneAnswer, Answers, OneIf
  <2>4. QED
    BY <1>2, <2>3 DEF CommandInProgress, Awaiting, Decided
<1>7. pkt'.mt = "rsp" => pkt'.cmd = cmd /\ pkt'.status \in {"ok", "error"}
  BY <1>5 DEF OwnPacket
<1>8. /\ status' = StatusOf(pkt')
      /\ isSkipPacket' = (IsErrorNtf(pkt') \/ (pkt'.mt = "rsp" /\ hal_ext_enabled))
      /\ answered' = IF pkt'.mt = "rsp" /\ pkt'.status = "ok"
                     THEN answered \union {pkt'.cmd} ELSE answered
      /\ refused' = IF pkt'.mt = "rsp" /\ pkt'.status = "error"
                    THEN refused \union {pkt'.cmd} ELSE refused
  BY DEF ReadComplete
<1>9. CASE pkt'.mt = "rsp"
  <2>1. ~IsErrorNtf(pkt')
    BY <1>7, <1>9 DEF IsErrorNtf
  <2>2. status' = IF ~hal_ext_enabled THEN status
                  ELSE IF pkt'.status = "ok" THEN "SUCCESS" ELSE "FAILED"
    BY <1>7, <1>8, <1>9 DEF StatusOf
  <2>3. hal_ext_enabled \in BOOLEAN
    BY <1>2 DEF TypeOK, LoopType
  <2>4. QED
    BY <1>5, <1>6, <1>7, <1>8, <1>9, <2>1, <2>2, <2>3
<1>10. CASE pkt'.mt # "rsp"
  BY <1>5, <1>6, <1>8, <1>10 DEF StatusOf, IsErrorNtf
<1>11. QED
  BY <1>9, <1>10

(* The caller is told; whose the command was does not change by that.        *)
LEMMA Finishing ==
  ASSUME Inv, NEW r \in {"SUCCESS", "FAILED"}, Finish(r),
         api \notin {"idle", "disable"}, UNCHANGED <<cmd, kind>>
  PROVE  /\ cmd \in Commands /\ api' = "disable"
         /\ result'[cmd] = IF kind = "internal" THEN r ELSE "LEN"
         /\ \A c \in Commands : c # cmd => result'[c] = result[c]
         /\ \A c \in Commands : Internal(c)' = Internal(c)
<1>1. cmd \in Commands /\ result \in [Commands -> {"none", "SUCCESS", "FAILED", "LEN"}]
      /\ result[cmd] = "none"
  BY DEF Inv, IInv, TypeOK, HistoryType, CommandInProgress, TimelyInv, LoopState
<1>2. /\ result'[cmd] = IF kind = "internal" THEN r ELSE "LEN"
      /\ \A c \in Commands : c # cmd => result'[c] = result[c]
  BY <1>1 DEF Finish
<1>3. \A c \in Commands : Internal(c)' = Internal(c)
  BY <1>1, <1>2 DEF Internal
<1>4. QED
  BY <1>1, <1>2, <1>3 DEF Finish

(* An answer is made from the one before it, and the loop takes it before   *)
(* it asks for another.                                                    *)
LEMMA OneAnswerStep == Timely /\ Inv /\ [Next]_vars => OneAnswer'
<1>. SUFFICES ASSUME Timely, Inv, [Next]_vars PROVE OneAnswer'
  OBVIOUS
<1>. USE CommandAssumption DEF Inv, TimelyInv, OneAnswer, Answers, Awaiting,
   OneIf, OnChip, OnWire, Taken, extVars, loopVars, timerVars, clientVars,
   chipVars, rxHistory, apiHistory
<1>0. TypeOK /\ CommandInProgress
  BY DEF IInv
<1>1. CASE InitCbData
  BY <1>0, <1>1 DEF InitCbData, TypeOK, SharedType, PacketType, LoopType
<1>2. CASE SetStatus \/ SetWaiting
  BY <1>0, <1>2 DEF SetStatus, SetWaiting
<1>3. CASE ParseLocally \/ Verify
  BY <1>0, <1>3 DEF ParseLocally, Finish, Verify
<1>4. CASE TimerStart \/ SemWait \/ ClearWaiting
  BY <1>0, <1>4, SMTT(30)
    DEF TimerStart, SemWait, TypeOK, SharedType, PacketType, LoopType,
        ClearWaiting
<1>5. CASE Switch \/ SendDevStatusNtf
  BY <1>0, <1>5 DEF Switch, Exhausted, SendDevStatusNtf
<1>6. CASE TimerStop \/ DisableExt
  BY <1>0, <1>6 DEF TimerStop, DisableExt
<1>7. CASE Expire \/ TimerExpired
  BY <1>0, <1>7
    DEF Expire, ReplyUnderWay, TypeOK, SharedType, PacketType, LoopType,
        TimerExpired
<1>8. CASE Timeout \/ TimeoutPosts
  BY <1>0, <1>8, SMTT(30)
    DEF Timeout, TypeOK, SharedType, PacketType, LoopType, TimeoutPosts,
        PostExtCbData
<1>9. CASE WakeUp
  BY <1>0, <1>9, SMTT(30)
    DEF WakeUp, PostExtCbData, bWakeupExtCmd, Wakes, TypeOK, SharedType,
        PacketType, LoopType
<1>10. CASE Forward
  BY <1>0, <1>10 DEF Forward, NoPacket, Packet
<1>11. CASE ChipReplies
  BY <1>0, <1>11
    DEF ChipReplies, Answer, Packet, TypeOK, SharedType, PacketType,
        LoopType
<1>12. CASE ChipLoses
  BY <1>0, <1>12 DEF ChipLoses, TypeOK, SharedType, PacketType, LoopType
<1>13. ASSUME NEW k \in Kinds, Begin(k) PROVE OneAnswer'
  BY <1>0, <1>13 DEF Begin, TypeOK, SharedType, PacketType, LoopType
<1>14. ASSUME NEW ok \in BOOLEAN, WriteUnlocked(ok) PROVE OneAnswer'
  BY <1>0, <1>14 DEF WriteUnlocked, Finish, TypeOK, SharedType, PacketType,
     LoopType, CommandInProgress
<1>15. CASE ReadComplete
  <2>1. /\ client = "msgrcv" /\ wire # <<>> /\ pkt' = Head(wire)
        /\ wire' = Tail(wire) /\ client' = "post"
        /\ UNCHANGED <<api, cmd, sem, expiring, timeouts, armed, onChip>>
    BY <1>15 DEF ReadComplete
  <2>2. wire \in Seq(Packets) /\ sem \in Nat /\ expiring \in Nat /\ timeouts \in Nat
    BY <1>0 DEF TypeOK, SharedType, PacketType
  <2>3. /\ 1 \in DOMAIN wire /\ pkt' = wire[1]
        /\ \A k \in DOMAIN wire' :
             k + 1 \in DOMAIN wire /\ k + 1 # 1 /\ wire'[k] = wire[k + 1]
        /\ \A j, k \in DOMAIN wire' : j + 1 = k + 1 => j = k
    BY <2>1, <2>2, Taking
  <2>4. \A j, k \in DOMAIN wire' : Wakes(wire'[j]) /\ Wakes(wire'[k]) => j = k
    BY <2>3
  <2>5. /\ OnWire' => OnWire /\ ~Wakes(pkt')
        /\ Wakes(pkt') => OnWire
    BY <2>3
  <2>6. OnWire' \/ Taken' => OnWire
    BY <2>1, <2>5
  <2>7. ~(OnWire' /\ Taken')
    BY <2>1, <2>5
  <2>8. ~Taken /\ OnChip' = OnChip
    BY <2>1
  <2>9. Answers' <= Answers
    <3>. HIDE DEF OnChip, OnWire, Taken
    <3>1. QED
      BY <2>1, <2>2, <2>6, <2>7, <2>8
  <2>10. QED
    BY <2>1, <2>2, <2>4, <2>9
<1>16. CASE ChipNotifies
  <2>1. wire' = Append(wire, Notification)
        /\ UNCHANGED <<api, cmd, sem, expiring, timeouts, armed, onChip, client, pkt>>
    BY <1>16 DEF ChipNotifies
  <2>2. wire \in Seq(Packets) /\ Notification \in Packets /\ ~Wakes(Notification)
    BY <1>0 DEF TypeOK, PacketType, Packets, Notification, Packet, Wakes, IsErrorNtf
  <2>3. \A k \in DOMAIN wire' : Wakes(wire'[k]) => k \in DOMAIN wire /\ wire'[k] = wire[k]
    BY <2>1, <2>2, Adding
  <2>4. OnWire' => OnWire
    BY <2>3
  <2>5. \A j, k \in DOMAIN wire' : Wakes(wire'[j]) /\ Wakes(wire'[k]) => j = k
    BY <2>3
  <2>6. Taken' = Taken /\ OnChip' = OnChip
    BY <2>1
  <2>7. Answers' <= OneIf(Awaiting')
    <3>. HIDE DEF OnChip, OnWire, Taken
    <3>1. QED
      BY <1>0, <2>1, <2>4, <2>6 DEF TypeOK, SharedType
  <2>8. QED
    <3>. HIDE DEF Answers
    <3>1. QED
      BY <2>1, <2>5, <2>7
<1>17. CASE UNCHANGED vars
  BY <1>0, <1>17 DEF vars
<1>18. QED
  BY <1>1, <1>2, <1>3, <1>4, <1>5, <1>6, <1>7, <1>8, <1>9, <1>10, <1>11,
     <1>12, <1>13, <1>14, <1>15, <1>16, <1>17
    DEF Next, ProcessExtCmdRsp, ClientThread

(* The chip answers only what it was sent for the current command, and no   *)
(* answer is left when the next command begins.                            *)
LEMMA OwnPacketsStep == Timely /\ Inv /\ [Next]_vars => OwnPackets'
<1>. SUFFICES ASSUME Timely, Inv, [Next]_vars PROVE OwnPackets'
  OBVIOUS
<1>. USE CommandAssumption DEF Inv, TimelyInv, OwnPackets, OneAnswer, Answers, OneIf, OnChip, OnWire, Wakes, Taken, Awaiting, OwnPacket, extVars, loopVars, timerVars,
   clientVars, chipVars, rxHistory, apiHistory
<1>0. TypeOK /\ CommandInProgress /\ LoopCount /\ OneAnswer
  BY DEF Inv, IInv, TimelyInv
<1>1. CASE InitCbData
  BY <1>0, <1>1
    DEF InitCbData, TypeOK, LoopType, SharedType, PacketType,
        CommandInProgress
<1>2. CASE SetStatus \/ SetWaiting
  BY <1>0, <1>2
    DEF SetStatus, TypeOK, LoopType, SharedType, PacketType,
        CommandInProgress, SetWaiting
<1>3. CASE ParseLocally \/ Verify
  BY <1>0, <1>3
    DEF ParseLocally, Finish, TypeOK, LoopType, SharedType, PacketType,
        CommandInProgress, Verify
<1>4. CASE TimerStart \/ SemWait \/ ClearWaiting
  BY <1>0, <1>4
    DEF TimerStart, TypeOK, LoopType, SharedType, PacketType,
        CommandInProgress, SemWait, ClearWaiting
<1>5. CASE Switch \/ SendDevStatusNtf
  BY <1>0, <1>5
    DEF Switch, Exhausted, TypeOK, LoopType, SharedType, PacketType,
        CommandInProgress, SendDevStatusNtf
<1>6. CASE TimerStop \/ DisableExt
  BY <1>0, <1>6
    DEF TimerStop, TypeOK, LoopType, SharedType, PacketType,
        CommandInProgress, DisableExt
<1>7. CASE Expire \/ TimerExpired
  BY <1>0, <1>7
    DEF Expire, ReplyUnderWay, TypeOK, LoopType, SharedType, PacketType,
        CommandInProgress, TimerExpired
<1>8. CASE Timeout \/ TimeoutPosts
  BY <1>0, <1>8
    DEF Timeout, TypeOK, LoopType, SharedType, PacketType,
        CommandInProgress, TimeoutPosts, PostExtCbData
<1>9. CASE WakeUp
  BY <1>0, <1>9
    DEF WakeUp, PostExtCbData, bWakeupExtCmd, TypeOK, LoopType, SharedType,
        PacketType, CommandInProgress
<1>10. CASE Forward
  BY <1>0, <1>10
    DEF Forward, NoPacket, Packet, TypeOK, LoopType, SharedType, PacketType,
        CommandInProgress
<1>11. CASE ChipReplies
  BY <1>0, <1>11
    DEF ChipReplies, Answer, Packet, TypeOK, LoopType, SharedType,
        PacketType, CommandInProgress
<1>12. CASE ChipLoses
  BY <1>0, <1>12
    DEF ChipLoses, TypeOK, LoopType, SharedType, PacketType,
        CommandInProgress
<1>13. CASE ChipNotifies
  BY <1>0, <1>13
    DEF ChipNotifies, Notification, Packet, TypeOK, LoopType, SharedType,
        PacketType, CommandInProgress
<1>14. ASSUME NEW k \in Kinds, Begin(k) PROVE OwnPackets'
  BY <1>0, <1>14 DEF Begin, TypeOK, LoopType, SharedType, PacketType,
     CommandInProgress
<1>15. ASSUME NEW ok \in BOOLEAN, WriteUnlocked(ok) PROVE OwnPackets'
  BY <1>0, <1>15 DEF WriteUnlocked, Finish, TypeOK, LoopType, SharedType,
     PacketType, CommandInProgress
<1>16. CASE ReadComplete
  <2>1. /\ wire # <<>> /\ wire' = Tail(wire) /\ cmd' = cmd
    BY <1>16 DEF ReadComplete
  <2>2. OwnPacket(pkt')
    BY <1>16, Reading
  <2>3. wire \in Seq(Packets)
    BY <1>0 DEF TypeOK, PacketType
  <2>4. \A k \in DOMAIN wire' : k + 1 \in DOMAIN wire /\ wire'[k] = wire[k + 1]
    BY <2>1, <2>3, Taking
  <2>5. QED
    BY <2>1, <2>2, <2>4
<1>17. CASE UNCHANGED vars
  BY <1>0, <1>17 DEF vars
<1>18. QED
  BY <1>1, <1>2, <1>3, <1>4, <1>5, <1>6, <1>7, <1>8, <1>9, <1>10, <1>11,
     <1>12, <1>13, <1>14, <1>15, <1>16, <1>17
    DEF Next, ProcessExtCmdRsp, ClientThread

(* The flags the client thread reads are those of the current command while *)
(* an answer to it can come.                                               *)
LEMMA LoopStateStep == Timely /\ Inv /\ [Next]_vars => LoopState'
<1>. SUFFICES ASSUME Timely, Inv, [Next]_vars PROVE LoopState'
  OBVIOUS
<1>. USE CommandAssumption DEF Inv, TimelyInv, LoopState, extVars, loopVars, timerVars,
   clientVars, chipVars, rxHistory, apiHistory
<1>0. TypeOK /\ CommandInProgress /\ LoopCount /\ OneAnswer
  BY DEF Inv, IInv, TimelyInv
<1>1. CASE InitCbData
  BY <1>0, <1>1
    DEF InitCbData, TypeOK, LoopType, PacketType, HistoryType,
        CommandInProgress, Commands, OwnPackets, OwnPacket
<1>2. CASE SetStatus \/ SetWaiting
  BY <1>0, <1>2
    DEF SetStatus, TypeOK, LoopType, PacketType, HistoryType,
        CommandInProgress, Commands, OwnPackets, OwnPacket, SetWaiting
<1>3. CASE ParseLocally \/ Verify
  <2>1. CASE ParseLocally
    BY <1>0, <2>1
      DEF ParseLocally, Finish, TypeOK, LoopType, HistoryType, CommandInProgress, Commands
  <2>2. CASE Verify
    BY <1>0, <2>2, SMTT(30)
      DEF Verify, Finish, TypeOK, LoopType, HistoryType, CommandInProgress, Commands
  <2>3. QED
    BY <1>3, <2>1, <2>2
<1>4. CASE TimerStart \/ SemWait \/ ClearWaiting
  BY <1>0, <1>4
    DEF TimerStart, TypeOK, LoopType, PacketType, HistoryType,
        CommandInProgress, Commands, OwnPackets, OwnPacket, SemWait,
        ClearWaiting
<1>5. CASE Switch \/ SendDevStatusNtf
  BY <1>0, <1>5
    DEF Switch, Exhausted, TypeOK, LoopType, PacketType, HistoryType,
        CommandInProgress, Commands, OwnPackets, OwnPacket, SendDevStatusNtf
<1>6. CASE TimerStop \/ DisableExt
  BY <1>0, <1>6
    DEF TimerStop, TypeOK, LoopType, PacketType, HistoryType,
        CommandInProgress, Commands, OwnPackets, OwnPacket, DisableExt
<1>7. CASE Expire \/ TimerExpired
  BY <1>0, <1>7
    DEF Expire, ReplyUnderWay, TypeOK, LoopType, PacketType, HistoryType,
        CommandInProgress, Commands, OwnPackets, OwnPacket, TimerExpired
<1>8. CASE Timeout \/ TimeoutPosts
  BY <1>0, <1>8, SMTT(30)
    DEF Timeout, TypeOK, LoopType, PacketType, HistoryType,
        CommandInProgress, Commands, OwnPackets, OwnPacket, TimeoutPosts,
        PostExtCbData
<1>9. CASE ReadComplete
  BY <1>0, <1>9, SMTT(30)
    DEF ReadComplete, StatusOf, IsErrorNtf, TypeOK, LoopType, PacketType,
        HistoryType, CommandInProgress, Commands, OwnPackets, OwnPacket
<1>10. CASE WakeUp
  BY <1>0, <1>10
    DEF WakeUp, PostExtCbData, bWakeupExtCmd, TypeOK, LoopType, PacketType,
        HistoryType, CommandInProgress, Commands, OwnPackets, OwnPacket
<1>11. CASE Forward
  BY <1>0, <1>11
    DEF Forward, NoPacket, Packet, TypeOK, LoopType, PacketType,
        HistoryType, CommandInProgress, Commands, OwnPackets, OwnPacket
<1>12. CASE ChipReplies
  BY <1>0, <1>12
    DEF ChipReplies, Answer, Packet, TypeOK, LoopType, PacketType,
        HistoryType, CommandInProgress, Commands, OwnPackets, OwnPacket
<1>13. CASE ChipLoses
  BY <1>0, <1>13
    DEF ChipLoses, TypeOK, LoopType, PacketType, HistoryType,
        CommandInProgress, Commands, OwnPackets, OwnPacket
<1>14. CASE ChipNotifies
  BY <1>0, <1>14
    DEF ChipNotifies, Notification, Packet, TypeOK, LoopType, PacketType,
        HistoryType, CommandInProgress, Commands, OwnPackets, OwnPacket
<1>15. ASSUME NEW k \in Kinds, Begin(k) PROVE LoopState'
  BY <1>0, <1>15 DEF Begin, TypeOK, LoopType, PacketType, HistoryType,
     CommandInProgress, Commands, OwnPackets, OwnPacket
<1>16. ASSUME NEW ok \in BOOLEAN, WriteUnlocked(ok) PROVE LoopState'
  <2>1. cmd \in Commands /\ result \in [Commands -> {"none", "SUCCESS", "FAILED", "LEN"}]
    BY <1>0, <1>16 DEF WriteUnlocked, CommandInProgress, TypeOK, HistoryType
  <2>2. CASE kind = "chained"
    BY <1>16, <2>2, Finishing DEF WriteUnlocked, Commands
  <2>3. CASE kind # "chained"
    BY <1>16, <2>3 DEF WriteUnlocked
  <2>4. QED
    BY <2>2, <2>3
<1>17. CASE UNCHANGED vars
  BY <1>0, <1>17 DEF vars
<1>18. QED
  BY <1>1, <1>2, <1>3, <1>4, <1>5, <1>6, <1>7, <1>8, <1>9, <1>10, <1>11,
     <1>12, <1>13, <1>14, <1>15, <1>16, <1>17
    DEF Next, ProcessExtCmdRsp, ClientThread

(* Only the taking of an answer changes the status, and only one is taken   *)
(* before the API thread looks at it.                                      *)
LEMMA StatusRealStep == Timely /\ Inv /\ [Next]_vars => StatusReal'
<1>. SUFFICES ASSUME Timely, Inv, [Next]_vars PROVE StatusReal'
  OBVIOUS
<1>. USE CommandAssumption DEF Inv, TimelyInv, StatusReal, LoopState, Decided, Taken, Wakes, Awaiting, extVars, loopVars, timerVars,
   clientVars, chipVars, rxHistory, apiHistory
<1>0. TypeOK /\ CommandInProgress /\ LoopCount /\ OneAnswer
  BY DEF Inv, IInv, TimelyInv
<1>1. CASE InitCbData
  BY <1>0, <1>1
    DEF InitCbData, TypeOK, LoopType, SharedType, PacketType,
        CommandInProgress, OneAnswer, Answers, OneIf
<1>2. CASE SetStatus \/ SetWaiting
  BY <1>0, <1>2
    DEF SetStatus, TypeOK, LoopType, SharedType, PacketType,
        CommandInProgress, OneAnswer, Answers, OneIf, SetWaiting
<1>3. CASE ParseLocally \/ Verify
  BY <1>0, <1>3
    DEF ParseLocally, Finish, TypeOK, LoopType, SharedType, PacketType,
        CommandInProgress, OneAnswer, Answers, OneIf, Verify
<1>4. CASE TimerStart \/ SemWait \/ ClearWaiting
  BY <1>0, <1>4
    DEF TimerStart, TypeOK, LoopType, SharedType, PacketType,
        CommandInProgress, OneAnswer, Answers, OneIf, SemWait, ClearWaiting
<1>5. CASE SendDevStatusNtf
  BY <1>0, <1>5
    DEF SendDevStatusNtf, TypeOK, LoopType, SharedType, PacketType,
        CommandInProgress, OneAnswer, Answers, OneIf
<1>6. CASE TimerStop \/ DisableExt
  BY <1>0, <1>6
    DEF TimerStop, TypeOK, LoopType, SharedType, PacketType,
        CommandInProgress, OneAnswer, Answers, OneIf, DisableExt
<1>7. CASE Expire \/ TimerExpired
  BY <1>0, <1>7
    DEF Expire, ReplyUnderWay, TypeOK, LoopType, SharedType, PacketType,
        CommandInProgress, OneAnswer, Answers, OneIf, TimerExpired
<1>8. CASE Timeout \/ TimeoutPosts
  BY <1>0, <1>8
    DEF Timeout, TypeOK, LoopType, SharedType, PacketType,
        CommandInProgress, OneAnswer, Answers, OneIf, TimeoutPosts,
        PostExtCbData
<1>9. CASE WakeUp
  BY <1>0, <1>9
    DEF WakeUp, PostExtCbData, bWakeupExtCmd, TypeOK, LoopType, SharedType,
        PacketType, CommandInProgress, OneAnswer, Answers, OneIf
<1>10. CASE Forward
  BY <1>0, <1>10
    DEF Forward, NoPacket, Packet, TypeOK, LoopType, SharedType, PacketType,
        CommandInProgress, OneAnswer, Answers, OneIf
<1>11. CASE ChipReplies
  BY <1>0, <1>11
    DEF ChipReplies, Answer, Packet, TypeOK, LoopType, SharedType,
        PacketType, CommandInProgress, OneAnswer, Answers, OneIf
<1>12. CASE ChipLoses
  BY <1>0, <1>12
    DEF ChipLoses, TypeOK, LoopType, SharedType, PacketType,
        CommandInProgress, OneAnswer, Answers, OneIf
<1>13. CASE ChipNotifies
  BY <1>0, <1>13
    DEF ChipNotifies, Notification, Packet, TypeOK, LoopType, SharedType,
        PacketType, CommandInProgress, OneAnswer, Answers, OneIf
<1>14. ASSUME NEW k \in Kinds, Begin(k) PROVE StatusReal'
  BY <1>0, <1>14 DEF Begin, TypeOK, LoopType, SharedType, PacketType,
     CommandInProgress, OneAnswer, Answers, OneIf
<1>15. ASSUME NEW ok \in BOOLEAN, WriteUnlocked(ok) PROVE StatusReal'
  BY <1>0, <1>15 DEF WriteUnlocked, Finish, TypeOK, LoopType, SharedType,
     PacketType, CommandInProgress, OneAnswer, Answers, OneIf
<1>16. CASE Switch
  <2>1. status \in Statuses /\ retryCnt \in Nat /\ lenCnt \in Nat
        /\ ~Exhausted(retryCnt, lenCnt)
    BY <1>0, <1>16 DEF Switch, TypeOK, LoopType, SharedType
  <2>2. /\ api' = "stop" => status \in {"SUCCESS", "FAILED"}
        /\ api' \in {"report", "status", "stop"}
    BY <1>16, <2>1 DEF Switch, Exhausted, Statuses
  <2>3. /\ UNCHANGED <<client, pkt, sem, status, kind, cmd, answered, refused, reported>>
        /\ api = "switch"
    BY <1>16 DEF Switch
  <2>4. QED
    BY <2>2, <2>3
<1>17. CASE ReadComplete
  <2>1. /\ client = "msgrcv" /\ client' = "post"
        /\ UNCHANGED <<api, sem, kind, cmd, reported>>
    BY <1>17 DEF ReadComplete
  <2>2. CASE Wakes(pkt')
    <3>1. Awaiting /\ ~Decided /\ cmd \in Commands
      BY <1>17, <2>2, Reading
    <3>2. hal_ext_enabled = (kind = "internal")
      BY <3>1
    <3>3. CASE pkt'.mt = "rsp"
      BY <1>17, <2>1, <3>1, <3>2, <3>3, Reading, ZenonT(40)
    <3>4. CASE pkt'.mt # "rsp"
      BY <1>17, <2>1, <2>2, <3>1, <3>4, Reading
    <3>5. QED
      BY <3>3, <3>4
  <2>3. CASE ~Wakes(pkt')
    <3>1. status' = status /\ answered' = answered /\ refused' = refused
      BY <1>17, <2>3, Reading DEF IsErrorNtf
    <3>2. QED
      BY <2>1, <2>3, <3>1
  <2>4. QED
    BY <2>2, <2>3
<1>18. CASE UNCHANGED vars
  BY <1>0, <1>18 DEF vars
<1>19. QED
  BY <1>1, <1>2, <1>3, <1>4, <1>5, <1>6, <1>7, <1>8, <1>9, <1>10, <1>11,
     <1>12, <1>13, <1>14, <1>15, <1>16, <1>17, <1>18
    DEF Next, ProcessExtCmdRsp, ClientThread

(* Once a response has been read, the loop does not write again.            *)
LEMMA AnsweredOnceStep == Timely /\ Inv /\ [Next]_vars => AnsweredOnce'
<1>. SUFFICES ASSUME Timely, Inv, [Next]_vars PROVE AnsweredOnce'
  OBVIOUS
<1>. USE CommandAssumption DEF Inv, TimelyInv, AnsweredOnce, LoopState, StatusReal, Decided, Taken, Wakes, Awaiting, AfterWrite, extVars, loopVars, timerVars,
   clientVars, chipVars, rxHistory, apiHistory
<1>0. TypeOK /\ CommandInProgress /\ LoopCount /\ OneAnswer
  BY DEF Inv, IInv, TimelyInv
<1>1. CASE InitCbData
  BY <1>0, <1>1
    DEF InitCbData, TypeOK, LoopType, SharedType, PacketType,
        CommandInProgress, OneAnswer, Answers, OneIf
<1>2. CASE SetStatus \/ SetWaiting
  BY <1>0, <1>2
    DEF SetStatus, TypeOK, LoopType, SharedType, PacketType,
        CommandInProgress, OneAnswer, Answers, OneIf, SetWaiting
<1>3. CASE ParseLocally \/ Verify
  BY <1>0, <1>3
    DEF ParseLocally, Finish, TypeOK, LoopType, SharedType, PacketType,
        CommandInProgress, OneAnswer, Answers, OneIf, Verify
<1>4. CASE TimerStart \/ SemWait \/ ClearWaiting
  BY <1>0, <1>4
    DEF TimerStart, TypeOK, LoopType, SharedType, PacketType,
        CommandInProgress, OneAnswer, Answers, OneIf, SemWait, ClearWaiting
<1>5. CASE Switch \/ SendDevStatusNtf
  BY <1>0, <1>5
    DEF Switch, Exhausted, TypeOK, LoopType, SharedType, PacketType,
        CommandInProgress, OneAnswer, Answers, OneIf, SendDevStatusNtf
<1>6. CASE TimerStop \/ DisableExt
  BY <1>0, <1>6
    DEF TimerStop, TypeOK, LoopType, SharedType, PacketType,
        CommandInProgress, OneAnswer, Answers, OneIf, DisableExt
<1>7. CASE Expire \/ TimerExpired
  BY <1>0, <1>7
    DEF Expire, ReplyUnderWay, TypeOK, LoopType, SharedType, PacketType,
        CommandInProgress, OneAnswer, Answers, OneIf, TimerExpired
<1>8. CASE Timeout \/ TimeoutPosts
  BY <1>0, <1>8
    DEF Timeout, TypeOK, LoopType, SharedType, PacketType,
        CommandInProgress, OneAnswer, Answers, OneIf, TimeoutPosts,
        PostExtCbData
<1>9. CASE WakeUp
  BY <1>0, <1>9
    DEF WakeUp, PostExtCbData, bWakeupExtCmd, TypeOK, LoopType, SharedType,
        PacketType, CommandInProgress, OneAnswer, Answers, OneIf
<1>10. CASE Forward
  BY <1>0, <1>10
    DEF Forward, NoPacket, Packet, TypeOK, LoopType, SharedType, PacketType,
        CommandInProgress, OneAnswer, Answers, OneIf
<1>11. CASE ChipReplies
  BY <1>0, <1>11
    DEF ChipReplies, Answer, Packet, TypeOK, LoopType, SharedType,
        PacketType, CommandInProgress, OneAnswer, Answers, OneIf
<1>12. CASE ChipLoses
  BY <1>0, <1>12
    DEF ChipLoses, TypeOK, LoopType, SharedType, PacketType,
        CommandInProgress, OneAnswer, Answers, OneIf
<1>13. CASE ChipNotifies
  BY <1>0, <1>13
    DEF ChipNotifies, Notification, Packet, TypeOK, LoopType, SharedType,
        PacketType, CommandInProgress, OneAnswer, Answers, OneIf
<1>14. ASSUME NEW k \in Kinds, Begin(k) PROVE AnsweredOnce'
  <2>1. cmd + 1 \in Commands /\ cmd' = cmd + 1 /\ cmd + 1 > cmd
        /\ UNCHANGED <<answered, refused>>
    BY <1>0, <1>14 DEF Begin, TypeOK, LoopType, Commands, rxHistory
  <2>2. QED
    BY <2>1
<1>15. ASSUME NEW ok \in BOOLEAN, WriteUnlocked(ok) PROVE AnsweredOnce'
  BY <1>0, <1>15 DEF WriteUnlocked, Finish, TypeOK, LoopType, SharedType,
     PacketType, CommandInProgress, OneAnswer, Answers, OneIf
<1>16. CASE ReadComplete
  <2>1. /\ client = "msgrcv" /\ client' = "post" /\ UNCHANGED <<api, sem, cmd>>
    BY <1>16 DEF ReadComplete
  <2>2. CASE Wakes(pkt')
    <3>1. Awaiting /\ ~Decided /\ cmd \in Commands /\ status = "SUCCESS"
      BY <1>16, <2>2, Reading
    <3>2. cmd \notin answered \union refused
      BY <3>1
    <3>3. CASE pkt'.mt = "rsp"
      BY <1>16, <2>1, <3>1, <3>3, Reading
    <3>4. CASE pkt'.mt # "rsp"
      BY <1>16, <2>1, <2>2, <3>1, <3>2, <3>4, Reading
    <3>5. QED
      BY <3>3, <3>4
  <2>3. CASE ~Wakes(pkt')
    <3>1. status' = status /\ answered' = answered /\ refused' = refused
      BY <1>16, <2>3, Reading DEF IsErrorNtf
    <3>2. QED
      BY <2>1, <2>3, <3>1
  <2>4. QED
    BY <2>2, <2>3
<1>17. CASE UNCHANGED vars
  BY <1>0, <1>17 DEF vars
<1>18. QED
  BY <1>1, <1>2, <1>3, <1>4, <1>5, <1>6, <1>7, <1>8, <1>9, <1>10, <1>11,
     <1>12, <1>13, <1>14, <1>15, <1>16, <1>17
    DEF Next, ProcessExtCmdRsp, ClientThread

(* A response goes to the host unless it was that of an internal command,   *)
(* also when the API thread has meanwhile gone on to the next command.     *)
LEMMA GivenStep == Timely /\ Inv /\ [Next]_vars => Given'
<1>. SUFFICES ASSUME Timely, Inv, [Next]_vars PROVE Given'
  OBVIOUS
<1>. USE CommandAssumption DEF Given, Handled, extVars, loopVars, timerVars,
   clientVars, chipVars, rxHistory, apiHistory
<1>0. TypeOK /\ CommandInProgress /\ OneAnswer /\ LoopState /\ AnsweredOnce
      /\ StatusReal /\ Given
  BY DEF Inv, IInv, TimelyInv
<1>1. ASSUME UNCHANGED <<forwarded, answered, refused, client, pkt, isSkipPacket,
                        rxLenOwn, truncated, cmd>>,
             \A c \in Commands : Internal(c)' = Internal(c), Decided' => Decided
      PROVE  Given'
  BY <1>0, <1>1
<1>2. ASSUME UNCHANGED <<result, cmd, kind>>
      PROVE  \A c \in Commands : Internal(c)' = Internal(c)
  BY <1>2 DEF Internal
<1>3. ASSUME NEW k \in Kinds, Begin(k) PROVE Given'
  <2>1. /\ cmd + 1 \in Commands /\ cmd' = cmd + 1 /\ api = "idle" /\ api' = "init"
        /\ UNCHANGED <<forwarded, answered, refused, client, pkt, isSkipPacket,
                       rxLenOwn, truncated, result, sem>>
    BY <1>0, <1>3 DEF Begin, TypeOK, LoopType, Commands
  <2>2. cmd \in Nat /\ cmd # cmd + 1 /\ cmd + 1 > cmd
    BY <1>0 DEF TypeOK, LoopType
  <2>3. sem = 0 /\ ~Taken /\ ~Decided'
    <3>1. sem \in Nat /\ expiring \in Nat /\ timeouts \in Nat
      BY <1>0 DEF TypeOK, SharedType
    <3>2. sem = 0 /\ ~Taken
      BY <1>0, <2>1, <3>1 DEF OneAnswer, Answers, OneIf, Awaiting
    <3>3. QED
      BY <2>1, <3>2 DEF Decided, Taken
  <2>4. result[cmd + 1] = "none" /\ cmd + 1 \notin answered \union refused
    BY <1>0, <2>1, <2>2 DEF LoopState
  <2>5. cmd \in Commands => result[cmd] # "none"
    BY <1>0, <2>1 DEF LoopState
  <2>6. ASSUME NEW c \in Commands, c # cmd + 1 PROVE Internal(c)' = Internal(c)
    BY <2>1, <2>2, <2>5, <2>6 DEF Internal
  <2>7. ~Handled(cmd + 1)
    BY <1>0, <2>1, <2>4
  <2>8. QED
    BY <1>0, <2>1, <2>3, <2>4, <2>6, <2>7, ZenonT(40)
<1>4. CASE InitCbData
  <2>1. Decided' => Decided
    BY <1>4 DEF InitCbData, Decided, Taken
  <2>2. QED
    BY <1>1, <1>2, <1>4, <2>1 DEF InitCbData
<1>5. CASE SetStatus
  BY <1>1, <1>2, <1>5 DEF SetStatus, Decided, Taken
<1>6. CASE SetWaiting
  BY <1>1, <1>2, <1>6 DEF SetWaiting, Decided, Taken
<1>7. CASE ParseLocally
  BY <1>1, <1>7, Finishing DEF ParseLocally, Decided, Taken
<1>8. ASSUME NEW ok \in BOOLEAN, WriteUnlocked(ok) PROVE Given'
  <2>1. CASE kind = "chained"
    BY <1>1, <1>8, <2>1, Finishing DEF WriteUnlocked, Decided, Taken
  <2>2. CASE kind # "chained"
    BY <1>1, <1>2, <1>8, <2>2 DEF WriteUnlocked, Decided, Taken
  <2>3. QED
    BY <2>1, <2>2
<1>9. CASE TimerStart
  BY <1>1, <1>2, <1>9 DEF TimerStart, Decided, Taken
<1>10. CASE SemWait
  BY <1>1, <1>2, <1>10 DEF SemWait, Decided
<1>11. CASE ClearWaiting
  BY <1>1, <1>2, <1>11 DEF ClearWaiting, Decided
<1>12. CASE Switch
  BY <1>1, <1>2, <1>12 DEF Switch, Decided
<1>13. CASE SendDevStatusNtf
  <2>1. \A c \in Commands : ~Handled(c)
    BY <1>0, <1>13 DEF SendDevStatusNtf, Decided, AnsweredOnce
  <2>2. QED
    BY <1>0, <1>2, <1>13, <2>1 DEF SendDevStatusNtf
<1>14. CASE TimerStop
  BY <1>1, <1>2, <1>14 DEF TimerStop, Decided
<1>15. CASE Verify
  BY <1>1, <1>15, Finishing DEF Verify, Decided
<1>16. CASE DisableExt
  BY <1>1, <1>2, <1>16 DEF DisableExt, Decided, Taken
<1>17. CASE Expire \/ TimerExpired
  BY <1>1, <1>2, <1>17 DEF Expire, TimerExpired, Decided, Taken
<1>18. CASE Timeout
  BY <1>0, <1>2, <1>18 DEF Timeout
<1>19. CASE TimeoutPosts
  BY <1>0, <1>2, <1>19 DEF TimeoutPosts
<1>20. CASE ReadComplete
  <2>1. /\ client = "msgrcv" /\ client' = "post" /\ rxLenOwn' = TRUE
        /\ UNCHANGED <<forwarded, truncated, cmd, kind, result>>
    BY <1>20 DEF ReadComplete
  <2>2. CASE pkt'.mt = "rsp"
    <3>1. Awaiting /\ ~Decided /\ cmd \in Commands /\ pkt'.cmd = cmd
      BY <1>20, <2>2, Reading DEF Wakes, OwnPacket
    <3>2. cmd \notin answered \union refused
      BY <1>0, <3>1 DEF AnsweredOnce, Awaiting, AfterWrite
    <3>3. isSkipPacket' = hal_ext_enabled /\ hal_ext_enabled = Internal(cmd)
      BY <1>0, <1>20, <2>2, <3>1, Reading DEF Awaiting, LoopState, Internal
    <3>4. answered' \union refused' = (answered \union refused) \union {cmd}
      BY <1>20, <2>2, Reading
    <3>5. QED
      BY <1>0, <1>2, <2>1, <2>2, <3>1, <3>2, <3>3, <3>4, ZenonT(40)
  <2>3. CASE pkt'.mt # "rsp"
    <3>1. answered' = answered /\ refused' = refused
      BY <1>20, <2>3, Reading
    <3>2. QED
      BY <1>0, <1>2, <2>1, <2>3, <3>1
  <2>4. QED
    BY <2>2, <2>3
<1>21. CASE WakeUp
  BY <1>0, <1>2, <1>21 DEF WakeUp, PostExtCbData, Decided, Taken, bWakeupExtCmd, Wakes
<1>22. CASE Forward
  <2>1. /\ client = "forward" /\ client' = "msgrcv" /\ pkt' = NoPacket
        /\ UNCHANGED <<answered, refused, rxLenOwn, cmd, kind, result, api, sem>>
    BY <1>22 DEF Forward
  <2>2. CASE pkt.mt = "rsp"
    <3>1. /\ pkt.cmd \in Commands /\ Handled(pkt.cmd)
          /\ forwarded \in [Commands -> Nat]
      BY <1>0, <2>1, <2>2 DEF TypeOK, PacketType, Packets, HistoryType
    <3>2. CASE isSkipPacket
      BY <1>0, <1>2, <1>22, <2>1, <3>1, <3>2 DEF Forward, OneIf
    <3>3. CASE ~isSkipPacket
      <4>1. forwarded' = [forwarded EXCEPT ![pkt.cmd] = @ + 1] /\ truncated' = truncated
        BY <1>0, <1>22, <2>2, <3>1, <3>3 DEF Forward
      <4>2. QED
        BY <1>0, <1>2, <2>1, <3>1, <3>3, <4>1 DEF OneIf
    <3>4. QED
      BY <3>2, <3>3
  <2>3. CASE pkt.mt # "rsp"
    <3>1. forwarded' = forwarded /\ "rsp" \notin truncated'
      BY <1>0, <1>22, <2>3 DEF Forward
    <3>2. QED
      BY <1>0, <1>2, <2>1, <2>3, <3>1
  <2>4. QED
    BY <2>2, <2>3
<1>23. CASE ChipReplies
  BY <1>1, <1>2, <1>23 DEF ChipReplies, Decided, Taken
<1>24. CASE ChipLoses \/ ChipNotifies
  BY <1>1, <1>2, <1>24 DEF ChipLoses, ChipNotifies, Decided, Taken
<1>25. CASE UNCHANGED vars
  BY <1>1, <1>2, <1>25 DEF vars, Decided, Taken
<1>26. QED
  BY <1>3, <1>4, <1>5, <1>6, <1>7, <1>8, <1>9, <1>10, <1>11, <1>12, <1>13,
     <1>14, <1>15, <1>16, <1>17, <1>18, <1>19, <1>20, <1>21, <1>22, <1>23,
     <1>24, <1>25
    DEF Next, ProcessExtCmdRsp, ClientThread

(* The caller is told what the status says, and the status is real.         *)
LEMMA ResultsStep == Timely /\ Inv /\ [Next]_vars => (SuccessIsAnswered /\ FailureIsReal)'
<1>. SUFFICES ASSUME Timely, Inv, [Next]_vars PROVE (SuccessIsAnswered /\ FailureIsReal)'
  OBVIOUS
<1>. USE CommandAssumption DEF Inv, TimelyInv, SuccessIsAnswered, FailureIsReal, StatusReal, Decided, extVars, loopVars, timerVars,
   clientVars, chipVars, rxHistory, apiHistory
<1>0. TypeOK /\ CommandInProgress /\ LoopCount /\ OneAnswer
  BY DEF Inv, IInv, TimelyInv
<1>1. CASE InitCbData
  BY <1>0, <1>1 DEF InitCbData, TypeOK, LoopType, HistoryType, SharedType
<1>2. CASE SetStatus \/ SetWaiting
  BY <1>0, <1>2
    DEF SetStatus, TypeOK, LoopType, HistoryType, SharedType, SetWaiting
<1>3. CASE ParseLocally \/ Verify
  BY <1>0, <1>3
    DEF ParseLocally, Finish, TypeOK, LoopType, HistoryType, SharedType,
        Verify
<1>4. CASE TimerStart \/ SemWait \/ ClearWaiting
  BY <1>0, <1>4
    DEF TimerStart, TypeOK, LoopType, HistoryType, SharedType, SemWait,
        ClearWaiting
<1>5. CASE Switch \/ SendDevStatusNtf
  BY <1>0, <1>5
    DEF Switch, Exhausted, TypeOK, LoopType, HistoryType, SharedType,
        SendDevStatusNtf
<1>6. CASE TimerStop \/ DisableExt
  BY <1>0, <1>6
    DEF TimerStop, TypeOK, LoopType, HistoryType, SharedType, DisableExt
<1>7. CASE Expire \/ TimerExpired
  BY <1>0, <1>7
    DEF Expire, ReplyUnderWay, TypeOK, LoopType, HistoryType, SharedType,
        TimerExpired
<1>8. CASE Timeout \/ TimeoutPosts
  BY <1>0, <1>8
    DEF Timeout, TypeOK, LoopType, HistoryType, SharedType, TimeoutPosts,
        PostExtCbData
<1>9. CASE ReadComplete
  BY <1>0, <1>9
    DEF ReadComplete, StatusOf, IsErrorNtf, TypeOK, LoopType, HistoryType,
        SharedType
<1>10. CASE WakeUp
  BY <1>0, <1>10
    DEF WakeUp, PostExtCbData, bWakeupExtCmd, TypeOK, LoopType, HistoryType,
        SharedType
<1>11. CASE Forward
  BY <1>0, <1>11
    DEF Forward, NoPacket, Packet, TypeOK, LoopType, HistoryType, SharedType
<1>12. CASE ChipReplies
  BY <1>0, <1>12
    DEF ChipReplies, Answer, Packet, TypeOK, LoopType, HistoryType,
        SharedType
<1>13. CASE ChipLoses
  BY <1>0, <1>13 DEF ChipLoses, TypeOK, LoopType, HistoryType, SharedType
<1>14. CASE ChipNotifies
  BY <1>0, <1>14
    DEF ChipNotifies, Notification, Packet, TypeOK, LoopType, HistoryType,
        SharedType
<1>15. ASSUME NEW k \in Kinds, Begin(k) PROVE (SuccessIsAnswered /\ FailureIsReal)'
  BY <1>0, <1>15 DEF Begin, TypeOK, LoopType, HistoryType, SharedType
<1>16. ASSUME NEW ok \in BOOLEAN, WriteUnlocked(ok) PROVE (SuccessIsAnswered /\ FailureIsReal)'
  BY <1>0, <1>16 DEF WriteUnlocked, Finish, TypeOK, LoopType, HistoryType,
     SharedType
<1>17. CASE UNCHANGED vars
  BY <1>0, <1>17 DEF vars
<1>18. QED
  BY <1>1, <1>2, <1>3, <1>4, <1>5, <1>6, <1>7, <1>8, <1>9, <1>10, <1>11,
     <1>12, <1>13, <1>14, <1>15, <1>16, <1>17
    DEF Next, ProcessExtCmdRsp, ClientThread

(* A post comes while the command waits, between init_cb_data and           *)
(* cleanup_cb_data.                                                        *)
LEMMA NoDeadPostsStep == Timely /\ Inv /\ [Next]_vars => NoDeadPosts'
<1>. SUFFICES ASSUME Timely, Inv, [Next]_vars PROVE NoDeadPosts'
  OBVIOUS
<1>. USE CommandAssumption DEF Inv, TimelyInv, NoDeadPosts, LoopState, Taken, Awaiting, extVars, loopVars, timerVars,
   clientVars, chipVars, rxHistory, apiHistory
<1>0. TypeOK /\ CommandInProgress /\ LoopCount /\ OneAnswer
  BY DEF Inv, IInv, TimelyInv
<1>1. CASE InitCbData
  BY <1>0, <1>1 DEF InitCbData, TypeOK, LoopType, SharedType
<1>2. CASE SetStatus \/ SetWaiting
  BY <1>0, <1>2 DEF SetStatus, TypeOK, LoopType, SharedType, SetWaiting
<1>3. CASE ParseLocally \/ Verify
  BY <1>0, <1>3
    DEF ParseLocally, Finish, TypeOK, LoopType, SharedType, Verify
<1>4. CASE TimerStart \/ SemWait \/ ClearWaiting
  BY <1>0, <1>4
    DEF TimerStart, TypeOK, LoopType, SharedType, SemWait, ClearWaiting
<1>5. CASE Switch \/ SendDevStatusNtf
  BY <1>0, <1>5
    DEF Switch, Exhausted, TypeOK, LoopType, SharedType, SendDevStatusNtf
<1>6. CASE TimerStop \/ DisableExt
  BY <1>0, <1>6 DEF TimerStop, TypeOK, LoopType, SharedType, DisableExt
<1>7. CASE Expire \/ TimerExpired
  BY <1>0, <1>7
    DEF Expire, ReplyUnderWay, TypeOK, LoopType, SharedType, TimerExpired
<1>8. CASE Timeout
  BY <1>0, <1>8 DEF Timeout, TypeOK, LoopType, SharedType
<1>9. CASE ReadComplete
  BY <1>0, <1>9
    DEF ReadComplete, StatusOf, IsErrorNtf, TypeOK, LoopType, SharedType
<1>10. CASE Forward
  BY <1>0, <1>10 DEF Forward, NoPacket, Packet, TypeOK, LoopType, SharedType
<1>11. CASE ChipReplies
  BY <1>0, <1>11
    DEF ChipReplies, Answer, Packet, TypeOK, LoopType, SharedType
<1>12. CASE ChipLoses
  BY <1>0, <1>12 DEF ChipLoses, TypeOK, LoopType, SharedType
<1>13. CASE ChipNotifies
  BY <1>0, <1>13
    DEF ChipNotifies, Notification, Packet, TypeOK, LoopType, SharedType
<1>14. ASSUME NEW k \in Kinds, Begin(k) PROVE NoDeadPosts'
  BY <1>0, <1>14 DEF Begin, TypeOK, LoopType, SharedType
<1>15. ASSUME NEW ok \in BOOLEAN, WriteUnlocked(ok) PROVE NoDeadPosts'
  BY <1>0, <1>15 DEF WriteUnlocked, Finish, TypeOK, LoopType, SharedType
<1>16. CASE TimeoutPosts
  <2>1. sem \in Nat /\ expiring \in Nat /\ timeouts \in Nat
    BY <1>0 DEF TypeOK, SharedType
  <2>2. Taken
    BY <1>16 DEF TimeoutPosts
  <2>3. Awaiting
    BY <2>1, <2>2 DEF OneAnswer, Answers, OneIf
  <2>4. QED
    BY <1>16, <2>3 DEF TimeoutPosts, PostExtCbData
<1>17. CASE WakeUp
  <2>1. sem \in Nat /\ expiring \in Nat /\ timeouts \in Nat
    BY <1>0 DEF TypeOK, SharedType
  <2>2. CASE bWakeupExtCmd
    <3>1. Taken
      BY <1>17, <2>2 DEF WakeUp, bWakeupExtCmd, Wakes
    <3>2. Awaiting
      BY <2>1, <3>1 DEF OneAnswer, Answers, OneIf
    <3>3. QED
      BY <1>17, <3>2 DEF WakeUp, PostExtCbData
  <2>3. CASE ~bWakeupExtCmd
    BY <1>17, <2>3 DEF WakeUp
  <2>4. QED
    BY <2>2, <2>3
<1>18. CASE UNCHANGED vars
  BY <1>0, <1>18 DEF vars
<1>19. QED
  BY <1>1, <1>2, <1>3, <1>4, <1>5, <1>6, <1>7, <1>8, <1>9, <1>10, <1>11,
     <1>12, <1>13, <1>14, <1>15, <1>16, <1>17, <1>18
    DEF Next, ProcessExtCmdRsp, ClientThread

(* The invariant holds initially: nothing is under way.                    *)
LEMMA InitTimelyInv == Init => TimelyInv
<1>. SUFFICES ASSUME Init PROVE TimelyInv
  OBVIOUS
<1>. USE CommandAssumption DEF Init
<1>1. OneAnswer
  BY DEF OneAnswer, Answers, OneIf, OnChip, OnWire, Taken, Awaiting
<1>2. OwnPackets
  BY DEF OwnPackets, NoPacket, Packet
<1>3. LoopState /\ AnsweredOnce
  BY DEF LoopState, AnsweredOnce, Commands
<1>4. StatusReal
  BY DEF StatusReal, Decided, Taken
<1>5. Given
  BY DEF Given, OneIf, Handled
<1>6. SuccessIsAnswered /\ FailureIsReal /\ NoDeadPosts
  BY DEF SuccessIsAnswered, FailureIsReal, NoDeadPosts
<1>7. QED
  BY <1>1, <1>2, <1>3, <1>4, <1>5, <1>6 DEF TimelyInv

(* With a timely timer, a waiting command always has at most one answer     *)
(* under way, and everything that was said of it is true.                  *)
THEOREM TimelyInvariant == ASSUME Timely PROVE Spec => []Inv
<1>1. Init => Inv
  BY InitIInv, InitTimelyInv DEF Inv
<1>2. Inv /\ [Next]_vars => Inv'
  <2>1. IInv /\ [Next]_vars => IInv'
    BY InvariantStep
  <2>2. QED
    BY <2>1, OneAnswerStep, OwnPacketsStep, LoopStateStep, StatusRealStep,
       AnsweredOnceStep, GivenStep, ResultsStep, NoDeadPostsStep
      DEF Inv, TimelyInv
<1>3. QED
  BY <1>1, <1>2, PTL DEF Spec

(* phNxpUciHal_send_ext_cmd tells UWBSTATUS_SUCCESS only for a command the  *)
(* chip answered positively, however often it was written.                 *)
THEOREM TimelySuccess == ASSUME Timely PROVE Spec => []SuccessIsAnswered
<1>1. Inv => SuccessIsAnswered
  BY DEF Inv, TimelyInv
<1>2. QED
  BY <1>1, TimelyInvariant, PTL

(* It tells a failure only for a command the chip refused, or whose limit   *)
(* of retries was reached and reported to the host.                        *)
THEOREM TimelyFailure == ASSUME Timely PROVE Spec => []FailureIsReal
<1>1. Inv => FailureIsReal
  BY DEF Inv, TimelyInv
<1>2. QED
  BY <1>1, TimelyInvariant, PTL

(* Responses to internal commands stay in the HAL; every response to a      *)
(* command of the host reaches it exactly once and with its own length.    *)
THEOREM TimelyResponses == ASSUME Timely PROVE Spec => []ResponsesToOwner
<1>1. Inv => ResponsesToOwner
  BY DEF Inv, TimelyInv, Given, ResponsesToOwner, Internal, Handled, OneIf
<1>2. QED
  BY <1>1, TimelyInvariant, PTL

(* Neither the timeout callback nor read_complete posts the semaphore of a  *)
(* command that has returned.                                              *)
THEOREM TimelyNoDeadPosts == ASSUME Timely PROVE Spec => []NoDeadPosts
<1>1. Inv => NoDeadPosts
  BY DEF Inv, TimelyInv
<1>2. QED
  BY <1>1, TimelyInvariant, PTL
-----------------------------------------------------------------------------
(***************************************************************************)
(* UciCommand implements UciService when the response timer is Timely.     *)
(*                                                                         *)
(* Each step of it is a step of UciService or leaves a command's history   *)
(* as it is.  That needs, beside Inv, what kind of command the loop waits  *)
(* for, that a response to the host is taken for no failure, and that what *)
(* was reported is over.                                                   *)
(***************************************************************************)
Waiting == kind \in {"internal", "host"}

ServedKind ==
  /\ AfterWrite \/ api \in {"report", "stop", "verify"} => Waiting
  /\ BeforeWrite /\ ~Waiting => retryCnt = 0 /\ lenCnt = 0

ReportLast ==
  /\ \A c \in reported : c <= cmd
  /\ cmd \in reported => api \in {"stop", "verify", "disable", "idle"}
  /\ api = "report" => sent = retryCnt + lenCnt /\ Exhausted(retryCnt, lenCnt)

HostAnswered ==
  kind = "host" /\ Decided /\ status \in {"SUCCESS", "FAILED"}
    => cmd \in answered \union refused

OneVerdict ==
  \A c \in Commands : /\ ~(c \in answered /\ c \in refused)
                      /\ c \in reported => c \notin answered \union refused

Served == ServedKind /\ ReportLast /\ HostAnswered /\ OneVerdict

(* The loop waits only for commands the chip answers, and reports only one  *)
(* that reached a limit.                                                   *)
LEMMA LoopServedStep == Timely /\ Inv /\ Served /\ [Next]_vars => (ServedKind /\ ReportLast)'
<1>. SUFFICES ASSUME Timely, Inv, Served, [Next]_vars PROVE (ServedKind /\ ReportLast)'
  OBVIOUS
<1>. USE CommandAssumption DEF Served, ServedKind, ReportLast, Waiting, AfterWrite, BeforeWrite,
   extVars, loopVars, timerVars, clientVars, chipVars, rxHistory, apiHistory
<1>0. LoopType /\ LoopCount /\ CommandInProgress /\ reported \subseteq Commands
  BY DEF Inv, IInv, TypeOK, HistoryType
<1>1. CASE UNCHANGED <<api, kind, retryCnt, lenCnt, sent, reported, cmd>>
  BY <1>1
<1>2. ASSUME NEW k \in Kinds, Begin(k) PROVE (ServedKind /\ ReportLast)'
  <2>1. /\ api' = "init" /\ cmd' = cmd + 1 /\ retryCnt' = 0 /\ lenCnt' = 0 /\ reported' = reported
    BY <1>2 DEF Begin
  <2>2. cmd \in Nat /\ \A c \in reported : c <= cmd /\ c \in Nat
    BY <1>0 DEF LoopType, Commands
  <2>3. \A c \in reported' : c <= cmd' /\ c # cmd'
    BY <2>1, <2>2
  <2>4. QED
    BY <2>1, <2>3
<1>3. CASE InitCbData \/ SetStatus \/ SetWaiting \/ TimerStart \/ SemWait \/ ClearWaiting
  BY <1>0, <1>3 DEF InitCbData, SetStatus, SetWaiting, TimerStart, SemWait, ClearWaiting
<1>4. CASE ParseLocally \/ Verify
  BY <1>0, <1>4 DEF ParseLocally, Verify, Finish
<1>5. ASSUME NEW ok \in BOOLEAN, WriteUnlocked(ok) PROVE (ServedKind /\ ReportLast)'
  BY <1>0, <1>5 DEF WriteUnlocked, Finish, LoopType
<1>6. CASE Switch
  <2>1. /\ api = "switch" /\ api' \in {"report", "status", "stop"}
        /\ api' = "report" => Exhausted(retryCnt', lenCnt')
        /\ UNCHANGED <<kind, cmd, sent, reported>>
    BY <1>6 DEF Switch
  <2>2. Waiting /\ cmd \notin reported /\ \A c \in reported : c <= cmd
    BY <2>1
  <2>3. api' = "report" => sent' = retryCnt' + lenCnt'
    <3>1. sent = retryCnt + lenCnt + 1 /\ retryCnt \in Nat /\ lenCnt \in Nat
          /\ ~Exhausted(retryCnt, lenCnt)
      BY <1>0, <2>1 DEF LoopCount, InLoop, LoopType
    <3>2. \/ retryCnt' = retryCnt + 1 /\ lenCnt' = lenCnt
          \/ retryCnt' = retryCnt /\ lenCnt' = lenCnt + 1
          \/ retryCnt' = retryCnt /\ lenCnt' = lenCnt
      BY <1>6 DEF Switch
    <3>3. retryCnt' = retryCnt /\ lenCnt' = lenCnt => api' # "report"
      BY <2>1, <3>1
    <3>4. QED
      BY <2>1, <3>1, <3>2, <3>3
  <2>4. QED
    BY <2>1, <2>2, <2>3
<1>7. CASE SendDevStatusNtf
  <2>1. cmd \in Nat
    BY <1>0 DEF LoopType
  <2>2. QED
    BY <1>7, <2>1 DEF SendDevStatusNtf
<1>8. CASE TimerStop \/ DisableExt
  BY <1>0, <1>8 DEF TimerStop, DisableExt
<1>9. QED
  BY <1>1, <1>2, <1>3, <1>4, <1>5, <1>6, <1>7, <1>8
    DEF Next, ProcessExtCmdRsp, ClientThread, vars, Expire, TimerExpired,
       Timeout, TimeoutPosts, ReadComplete, WakeUp, Forward, ChipReplies,
       ChipLoses, ChipNotifies

(* A command has one verdict: when a response is read, or the command is    *)
(* given up, it has none.                                                  *)
LEMMA OneVerdictStep == Timely /\ Inv /\ Served /\ [Next]_vars => OneVerdict'
<1>. SUFFICES ASSUME Timely, Inv, Served, [Next]_vars PROVE OneVerdict'
  OBVIOUS
<1>. USE DEF OneVerdict
<1>0. OneVerdict /\ ReportLast /\ AnsweredOnce
  BY DEF Served, Inv, TimelyInv
<1>1. CASE UNCHANGED <<answered, refused, reported>>
  BY <1>0, <1>1
<1>2. CASE SendDevStatusNtf
  <2>1. cmd \notin answered \union refused
    BY <1>0, <1>2 DEF SendDevStatusNtf, AnsweredOnce
  <2>2. /\ reported' = reported \union {cmd} /\ answered' = answered /\ refused' = refused
    BY <1>2 DEF SendDevStatusNtf, rxHistory
  <2>3. QED
    BY <1>0, <2>1, <2>2
<1>3. CASE ReadComplete
  <2>1. reported' = reported
    BY <1>3 DEF ReadComplete, apiHistory
  <2>2. CASE pkt'.mt = "rsp"
    <3>1. Awaiting /\ ~Decided
      BY <1>3, <2>2, Reading DEF Wakes
    <3>2. cmd \notin answered \union refused /\ cmd \notin reported
      BY <1>0, <3>1 DEF AnsweredOnce, ReportLast, Awaiting, AfterWrite
    <3>3. \/ answered' = answered \union {cmd} /\ refused' = refused
          \/ answered' = answered /\ refused' = refused \union {cmd}
      BY <1>3, <2>2, Reading
    <3>4. QED
      BY <1>0, <2>1, <3>2, <3>3
  <2>3. CASE pkt'.mt # "rsp"
    <3>1. answered' = answered /\ refused' = refused
      BY <1>3, <2>3, Reading
    <3>2. QED
      BY <1>0, <2>1, <3>1
  <2>4. QED
    BY <2>2, <2>3
<1>4. QED
  BY <1>1, <1>2, <1>3
    DEF Next, ProcessExtCmdRsp, ClientThread, vars, rxHistory, apiHistory, Begin, InitCbData,
        SetStatus, SetWaiting, ParseLocally, WriteUnlocked, TimerStart, SemWait, ClearWaiting,
        Switch, TimerStop, Verify, DisableExt, Expire, TimerExpired, Timeout, TimeoutPosts,
        WakeUp, Forward, ChipReplies, ChipLoses, ChipNotifies

(* A response to a command of the host leaves the SUCCESS the loop starts   *)
(* with; a request to send it again and a time-out do not.                  *)
LEMMA HostAnsweredStep == Timely /\ Inv /\ Served /\ [Next]_vars => HostAnswered'
<1>. SUFFICES ASSUME Timely, Inv, Served, [Next]_vars PROVE HostAnswered'
  OBVIOUS
<1>. USE CommandAssumption DEF Inv, TimelyInv, Served, HostAnswered, StatusReal, LoopState, Decided, Taken, Wakes, Awaiting, extVars, loopVars, timerVars,
   clientVars, chipVars, rxHistory, apiHistory
<1>0. TypeOK /\ CommandInProgress /\ LoopCount /\ OneAnswer
  BY DEF Inv, IInv, TimelyInv
<1>1. CASE InitCbData
  BY <1>0, <1>1
    DEF InitCbData, TypeOK, LoopType, SharedType, PacketType,
        CommandInProgress, OneAnswer, Answers, OneIf
<1>2. CASE SetStatus \/ SetWaiting
  BY <1>0, <1>2
    DEF SetStatus, TypeOK, LoopType, SharedType, PacketType,
        CommandInProgress, OneAnswer, Answers, OneIf, SetWaiting
<1>3. CASE ParseLocally \/ Verify
  BY <1>0, <1>3
    DEF ParseLocally, Finish, TypeOK, LoopType, SharedType, PacketType,
        CommandInProgress, OneAnswer, Answers, OneIf, Verify
<1>4. CASE TimerStart \/ SemWait \/ ClearWaiting
  BY <1>0, <1>4
    DEF TimerStart, TypeOK, LoopType, SharedType, PacketType,
        CommandInProgress, OneAnswer, Answers, OneIf, SemWait, ClearWaiting
<1>5. CASE SendDevStatusNtf
  BY <1>0, <1>5
    DEF SendDevStatusNtf, TypeOK, LoopType, SharedType, PacketType,
        CommandInProgress, OneAnswer, Answers, OneIf
<1>6. CASE TimerStop \/ DisableExt
  BY <1>0, <1>6
    DEF TimerStop, TypeOK, LoopType, SharedType, PacketType,
        CommandInProgress, OneAnswer, Answers, OneIf, DisableExt
<1>7. CASE Expire \/ TimerExpired
  BY <1>0, <1>7
    DEF Expire, ReplyUnderWay, TypeOK, LoopType, SharedType, PacketType,
        CommandInProgress, OneAnswer, Answers, OneIf, TimerExpired
<1>8. CASE Timeout \/ TimeoutPosts
  BY <1>0, <1>8
    DEF Timeout, TypeOK, LoopType, SharedType, PacketType,
        CommandInProgress, OneAnswer, Answers, OneIf, TimeoutPosts,
        PostExtCbData
<1>9. CASE WakeUp
  BY <1>0, <1>9
    DEF WakeUp, PostExtCbData, bWakeupExtCmd, TypeOK, LoopType, SharedType,
        PacketType, CommandInProgress, OneAnswer, Answers, OneIf
<1>10. CASE Forward
  BY <1>0, <1>10
    DEF Forward, NoPacket, Packet, TypeOK, LoopType, SharedType, PacketType,
        CommandInProgress, OneAnswer, Answers, OneIf
<1>11. CASE ChipReplies
  BY <1>0, <1>11
    DEF ChipReplies, Answer, Packet, TypeOK, LoopType, SharedType,
        PacketType, CommandInProgress, OneAnswer, Answers, OneIf
<1>12. CASE ChipLoses
  BY <1>0, <1>12
    DEF ChipLoses, TypeOK, LoopType, SharedType, PacketType,
        CommandInProgress, OneAnswer, Answers, OneIf
<1>13. CASE ChipNotifies
  BY <1>0, <1>13
    DEF ChipNotifies, Notification, Packet, TypeOK, LoopType, SharedType,
        PacketType, CommandInProgress, OneAnswer, Answers, OneIf
<1>14. ASSUME NEW k \in Kinds, Begin(k) PROVE HostAnswered'
  BY <1>0, <1>14 DEF Begin, TypeOK, LoopType, SharedType, PacketType,
     CommandInProgress, OneAnswer, Answers, OneIf
<1>15. ASSUME NEW ok \in BOOLEAN, WriteUnlocked(ok) PROVE HostAnswered'
  BY <1>0, <1>15 DEF WriteUnlocked, Finish, TypeOK, LoopType, SharedType,
     PacketType, CommandInProgress, OneAnswer, Answers, OneIf
<1>16. CASE Switch
  <2>1. status \in Statuses /\ retryCnt \in Nat /\ lenCnt \in Nat
        /\ ~Exhausted(retryCnt, lenCnt)
    BY <1>0, <1>16 DEF Switch, TypeOK, LoopType, SharedType
  <2>2. /\ api' = "stop" => status \in {"SUCCESS", "FAILED"}
        /\ api' \in {"report", "status", "stop"}
    BY <1>16, <2>1 DEF Switch, Exhausted, Statuses
  <2>3. /\ UNCHANGED <<client, pkt, sem, status, kind, cmd, answered, refused, reported>>
        /\ api = "switch"
    BY <1>16 DEF Switch
  <2>4. QED
    BY <2>2, <2>3
<1>17. CASE ReadComplete
  <2>1. /\ client = "msgrcv" /\ client' = "post"
        /\ UNCHANGED <<api, sem, kind, cmd, reported>>
    BY <1>17 DEF ReadComplete
  <2>2. CASE Wakes(pkt')
    <3>1. Awaiting /\ ~Decided /\ cmd \in Commands
      BY <1>17, <2>2, Reading
    <3>2. hal_ext_enabled = (kind = "internal")
      BY <3>1
    <3>3. CASE pkt'.mt = "rsp"
      BY <1>17, <2>1, <3>1, <3>2, <3>3, Reading
    <3>4. CASE pkt'.mt # "rsp"
      BY <1>17, <2>1, <2>2, <3>1, <3>4, Reading
    <3>5. QED
      BY <3>3, <3>4
  <2>3. CASE ~Wakes(pkt')
    <3>1. status' = status /\ answered' = answered /\ refused' = refused
      BY <1>17, <2>3, Reading DEF IsErrorNtf
    <3>2. QED
      BY <2>1, <2>3, <3>1
  <2>4. QED
    BY <2>2, <2>3
<1>18. CASE UNCHANGED vars
  BY <1>0, <1>18 DEF vars
<1>19. QED
  BY <1>1, <1>2, <1>3, <1>4, <1>5, <1>6, <1>7, <1>8, <1>9, <1>10, <1>11,
     <1>12, <1>13, <1>14, <1>15, <1>16, <1>17, <1>18
    DEF Next, ProcessExtCmdRsp, ClientThread

(* What the refinement needs holds initially and in every step.             *)
LEMMA ServedStep == Timely /\ Inv /\ Served /\ [Next]_vars => Served'
BY LoopServedStep, OneVerdictStep, HostAnsweredStep DEF Served

LEMMA InitServed == Init => Served
<1>. SUFFICES ASSUME Init PROVE Served
  OBVIOUS
<1>1. ServedKind
  BY DEF Init, ServedKind, AfterWrite, BeforeWrite, Waiting
<1>2. ReportLast /\ OneVerdict
  BY DEF Init, ReportLast, OneVerdict
<1>3. HostAnswered
  BY DEF Init, HostAnswered, Decided, Taken
<1>4. QED
  BY <1>1, <1>2, <1>3 DEF Served

(* The caller is told when the chip gave its verdict, or the command was     *)
(* given up.                                                                *)
LEMMA Returning ==
  ASSUME Inv, Served, Verify
  PROVE  Service!Return
<1>. USE CommandAssumption
<1>1. /\ api = "verify" /\ Finish(IF status = "SUCCESS" THEN "SUCCESS" ELSE "FAILED")
      /\ UNCHANGED <<cmd, kind, sent, answered, refused, reported, forwarded>>
  BY DEF Verify, loopVars, rxHistory
<1>2. cmd \in Commands /\ result[cmd] = "none" /\ Waiting /\ Decided /\ status \in Statuses
  BY <1>1 DEF Inv, IInv, TypeOK, SharedType, CommandInProgress, TimelyInv, LoopState,
     Served, ServedKind, Decided
<1>3. /\ kind = "internal" => /\ status = "SUCCESS" => cmd \in answered
                              /\ status = "FAILED" => cmd \in refused
      /\ status \in {"SUCCESS", "FAILED"} \/ cmd \in reported
  BY <1>1, <1>2 DEF Inv, TimelyInv, StatusReal
<1>4. kind = "host" /\ status \in {"SUCCESS", "FAILED"} => cmd \in answered \union refused
  BY <1>2 DEF Served, HostAnswered
<1>5. ~(cmd \in answered /\ cmd \in refused) /\ (cmd \in reported => cmd \notin answered)
  BY <1>2 DEF Served, OneVerdict
<1>6. kind = "internal" => (status = "SUCCESS" <=> cmd \in answered)
  BY <1>3, <1>5
<1>7. Service!Settled
  BY <1>2, <1>3, <1>4 DEF Service!Settled, Service!Verdicts, Waiting
<1>8. Service!InProgress /\ Service!Waits
  BY <1>2 DEF Service!InProgress, Service!Waits, Service!Commands, Commands, Waiting
<1>9. Service!Tell(IF kind = "host" THEN "LEN" ELSE IF cmd \in answered THEN "SUCCESS" ELSE "FAILED")
  BY <1>1, <1>2, <1>6 DEF Finish, Service!Tell, Waiting
<1>10. QED
  BY <1>1, <1>7, <1>8, <1>9 DEF Service!Return

(* A command that waits is sent while it has no verdict and none of its two  *)
(* counters has reached its limit.                                          *)
LEMMA Sending ==
  ASSUME Inv, Served, NEW ok \in BOOLEAN, WriteUnlocked(ok)
  PROVE  Service!Send \/ Service!ReturnAtOnce
<1>. USE CommandAssumption
<1>1. /\ api = "write" /\ kind # "parsed" /\ sent' = sent + 1
      /\ UNCHANGED <<cmd, kind, answered, refused, reported, forwarded>>
  BY DEF WriteUnlocked, loopVars, rxHistory
<1>2. cmd \in Commands /\ result[cmd] = "none" /\ kind \in {"internal", "host", "chained"}
  BY <1>1 DEF Inv, IInv, TypeOK, LoopType, CommandInProgress, TimelyInv, LoopState
<1>3. /\ sent = retryCnt + lenCnt /\ ~Exhausted(retryCnt, lenCnt)
      /\ retryCnt \in Nat /\ lenCnt \in Nat
  BY <1>1 DEF Inv, IInv, TypeOK, LoopType, LoopCount, BeforeWrite, InLoop
<1>4. Service!InProgress
  BY <1>2 DEF Service!InProgress, Service!Commands, Commands
<1>5. CASE kind = "chained"
  <2>1. sent = 0 /\ sent' = 1
    BY <1>1, <1>3, <1>5 DEF Served, ServedKind, BeforeWrite, Waiting
  <2>2. Finish("FAILED")
    BY <1>5 DEF WriteUnlocked
  <2>3. Service!Tell("LEN") /\ ~Service!Waits
    BY <1>5, <2>2 DEF Finish, Service!Tell, Service!Waits
  <2>4. QED
    BY <1>1, <1>4, <1>5, <2>1, <2>3 DEF Service!ReturnAtOnce
<1>6. CASE kind # "chained"
  <2>1. result' = result
    BY <1>6 DEF WriteUnlocked
  <2>2. Service!Waits
    BY <1>2, <1>6 DEF Service!Waits
  <2>3. ~Service!Settled
    BY <1>1 DEF Service!Settled, Service!Verdicts, Inv, TimelyInv, AnsweredOnce, Served, ReportLast
  <2>4. sent < Service!Tries
    BY <1>3 DEF Exhausted, Service!Tries
  <2>5. QED
    BY <1>1, <1>4, <2>1, <2>2, <2>3, <2>4 DEF Service!Send
<1>7. QED
  BY <1>5, <1>6

(* A response is the first verdict on the command that waits for it.        *)
LEMMA AnsweredStep ==
  ASSUME Inv, Served, ReadComplete
  PROVE  Service!Answered \/ UNCHANGED <<answered, refused>>
<1>. USE CommandAssumption
<1>1. CASE pkt'.mt # "rsp"
  BY <1>1, Reading
<1>2. CASE pkt'.mt = "rsp"
  <2>1. Awaiting /\ ~Decided /\ cmd \in Commands
    BY <1>2, Reading DEF Wakes
  <2>2. \/ answered' = answered \union {cmd} /\ refused' = refused
        \/ refused' = refused \union {cmd} /\ answered' = answered
    BY <1>2, Reading
  <2>3. result[cmd] = "none"
    BY <2>1 DEF Inv, TimelyInv, LoopState, Awaiting
  <2>4. Waiting /\ cmd \notin reported
    BY <2>1 DEF Served, ServedKind, ReportLast, AfterWrite, Awaiting
  <2>5. cmd \notin answered \union refused
    BY <2>1 DEF Inv, TimelyInv, AnsweredOnce, AfterWrite, Awaiting
  <2>6. sent > 0
    BY <2>1 DEF Inv, IInv, TypeOK, LoopType, LoopCount, AfterWrite, Awaiting
  <2>7. UNCHANGED <<cmd, kind, sent, reported, forwarded, result>>
    BY DEF ReadComplete, loopVars, apiHistory
  <2>8. Service!InProgress /\ Service!Waits /\ ~Service!Settled
    BY <2>1, <2>3, <2>4, <2>5 DEF Service!InProgress, Service!Waits, Service!Settled,
       Service!Verdicts, Service!Commands, Commands, Waiting
  <2>9. QED
    BY <2>2, <2>6, <2>7, <2>8 DEF Service!Answered
<1>3. QED
  BY <1>1, <1>2

(* A response the HAL does not keep is delivered for the first time.         *)
LEMMA Delivering ==
  ASSUME Inv, Forward
  PROVE  (\E c \in Commands : Service!Deliver(c)) \/ UNCHANGED forwarded
<1>1. CASE isSkipPacket \/ pkt.mt # "rsp"
  BY <1>1 DEF Forward
<1>2. CASE ~isSkipPacket /\ pkt.mt = "rsp"
  <2> DEFINE c == pkt.cmd
  <2>1. /\ client = "forward" /\ forwarded' = [forwarded EXCEPT ![c] = @ + 1]
        /\ UNCHANGED <<cmd, kind, sent, answered, refused, reported, result>>
    BY <1>2 DEF Forward, loopVars, apiHistory
  <2>2. c \in Commands /\ Handled(c)
    BY <1>2, <2>1 DEF Inv, IInv, TypeOK, PacketType, Packets, Handled
  <2>3. c \in answered \union refused /\ ~Internal(c) /\ forwarded[c] = 0
    BY <1>2, <2>2 DEF Inv, TimelyInv, Given, OneIf
  <2>4. forwarded' = [forwarded EXCEPT ![c] = 1]
    BY <2>1, <2>3
  <2>5. ~Service!Kept(c)
    BY <2>3 DEF Service!Kept, Internal
  <2>6. Service!Deliver(c)
    BY <2>1, <2>3, <2>4, <2>5 DEF Service!Deliver, Service!Verdicts
  <2>7. QED
    BY <2>2, <2>6
<1>3. QED
  BY <1>1, <1>2

LEMMA ServiceStep == Inv /\ Served /\ [Next]_vars => [Service!ServiceNext]_(Service!serviceVars)
<1>. SUFFICES ASSUME Inv, Served, [Next]_vars
              PROVE  [Service!ServiceNext]_(Service!serviceVars)
  OBVIOUS
<1>. USE CommandAssumption DEF Service!serviceVars, Service!ServiceNext, loopVars, rxHistory, apiHistory
<1>1. CASE UNCHANGED <<cmd, kind, sent, answered, refused, reported, forwarded, result>>
  BY <1>1
<1>2. ASSUME NEW k \in Kinds, Begin(k) PROVE Service!Submit(k)
  <2>1. ~Service!InProgress
    BY <1>2 DEF Begin, Inv, TimelyInv, LoopState, Service!InProgress, Service!Commands, Commands
  <2>2. QED
    BY <1>2, <2>1 DEF Begin, Service!Submit
<1>3. CASE ParseLocally
  <2>1. /\ api = "write" /\ kind = "parsed" /\ Finish("FAILED")
        /\ UNCHANGED <<cmd, kind, sent, answered, refused, reported, forwarded>>
    BY <1>3 DEF ParseLocally
  <2>2. cmd \in Commands /\ result[cmd] = "none"
    BY <2>1 DEF Inv, IInv, CommandInProgress, TimelyInv, LoopState
  <2>3. sent = 0
    BY <2>1 DEF Inv, IInv, LoopCount, BeforeWrite, Served, ServedKind, Waiting
  <2>4. Service!ReturnAtOnce
    BY <2>1, <2>2, <2>3 DEF Service!ReturnAtOnce, Service!InProgress, Service!Waits, Service!Tell,
       Service!Commands, Commands, Finish
  <2>5. QED
    BY <2>4
<1>4. ASSUME NEW ok \in BOOLEAN, WriteUnlocked(ok) PROVE Service!Send \/ Service!ReturnAtOnce
  BY <1>4, Sending
<1>5. CASE SendDevStatusNtf
  <2>1. /\ api = "report" /\ reported' = reported \union {cmd}
        /\ UNCHANGED <<cmd, kind, sent, answered, refused, forwarded, result>>
    BY <1>5 DEF SendDevStatusNtf
  <2>2. cmd \in Commands /\ result[cmd] = "none" /\ cmd \notin answered \union refused
    BY <2>1 DEF Inv, IInv, CommandInProgress, TimelyInv, LoopState, AnsweredOnce
  <2>3. Waiting /\ cmd \notin reported /\ sent = retryCnt + lenCnt /\ Exhausted(retryCnt, lenCnt)
    BY <2>1 DEF Served, ServedKind, ReportLast
  <2>4. retryCnt \in Nat /\ lenCnt \in Nat
    BY DEF Inv, IInv, TypeOK, LoopType
  <2>5. Service!ToALimit
    BY <2>3, <2>4 DEF Exhausted, Service!ToALimit
  <2>6. Service!GiveUp
    BY <2>1, <2>2, <2>3, <2>5 DEF Service!GiveUp, Service!InProgress, Service!Waits,
       Service!Settled, Service!Verdicts, Service!Commands, Commands, Waiting
  <2>7. QED
    BY <2>6
<1>6. CASE Verify
  BY <1>6, Returning
<1>7. CASE ReadComplete
  BY <1>7, AnsweredStep DEF ReadComplete
<1>8. CASE Forward
  <2>1. UNCHANGED <<cmd, kind, sent, answered, refused, reported, result>>
    BY <1>8 DEF Forward
  <2>2. Service!Commands = Commands
    BY DEF Service!Commands, Commands
  <2>3. QED
    BY <1>8, <2>1, <2>2, Delivering
<1>9. QED
  BY <1>1, <1>2, <1>3, <1>4, <1>5, <1>6, <1>7, <1>8
    DEF Next, ProcessExtCmdRsp, ClientThread, vars, InitCbData, SetStatus, SetWaiting,
       TimerStart, SemWait, ClearWaiting, Switch, TimerStop, DisableExt, Expire, TimerExpired,
       Timeout, TimeoutPosts, WakeUp, ChipReplies, ChipLoses, ChipNotifies

(* phNxpUciHal_process_ext_cmd_rsp and the client thread implement the      *)
(* service: whatever retries, losses and notifications come in between, a   *)
(* command is sent while it has no verdict and no limit is reached, has one *)
(* verdict, is given up only at a limit, and its caller is told after that. *)
THEOREM ServiceImplemented == ASSUME Timely PROVE Spec => CommandService
<1>1. Init => Service!ServiceInit
  BY DEF Init, Service!ServiceInit, Service!Commands, Commands
<1>2. Init => Served
  BY InitServed
<1>3. Inv /\ Served /\ [Next]_vars => Served'
  BY ServedStep
<1>4. QED
  BY <1>1, <1>2, <1>3, TimelyInvariant, ServiceStep, PTL
    DEF Spec, CommandService, Service!ServiceSpec
=============================================================================

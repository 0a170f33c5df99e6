---------------------------- MODULE LifecycleProofs ----------------------------
(***************************************************************************)
(* Opening and closing the HAL, for any number of hosts, sessions, timer   *)
(* expiries and failures of open: types, and, when the other threads are   *)
(* Prompt, that nothing is used after its release, that a close releases   *)
(* everything, and the order of the events the host hears.                 *)
(***************************************************************************)
EXTENDS HalLifecycle, SequenceTheorems, TLAPS

Opening == api \in {"open_tml", "open_thread", "open_failed"}

(* No session is begun beyond the bound, and an open that failed half way  *)
(* belongs to one.                                                         *)
SessionCount ==
  /\ (api = "link" /\ halStatus = "CLOSE") \/ api \in {"open", "open_ctrl"}
       => session < MaxOpens
  /\ Opening \/ api = "open_complete" => session \in Sessions

TypeInv == TypeOK /\ SessionCount

(* The life of a session, as the states of the binder thread tell it: its  *)
(* objects are made, its client thread runs, close tells it to end, and    *)
(* everything is released.                                                 *)
Running ==
  \/ api \in {"open_complete", "close_post", "close_abort", "close_tml"}
  \/ api \in {"idle", "link", "already"} /\ halStatus = "OPEN"
Closing == api \in {"close_abort", "close_tml"}
Released ==
  api \in {"close_release", "close_free", "close_wait", "close_monitor"}

FutureSessions ==
  \A t \in Sessions :
    t > session => heard[t] = <<>> /\ client[t] \in {"none", "crashed"}

StatusKnown ==
  /\ Opening \/ api \in {"open_complete", "already"} => halStatus = "OPEN"
  /\ api \in {"open", "open_ctrl", "close_post", "close_chip"} \/ Closing
        \/ Released => halStatus = "CLOSE"

(* Only the thread of the current session can be alive.                    *)
OneThread ==
  \A t \in Sessions : client[t] \notin {"none", "exit"} => t = session /\ Running

(* What the threads use exists while they run.                             *)
Built ==
  /\ Running => /\ allocated /\ context /\ nClientId = session
                /\ session \in Sessions /\ client[session] # "none"
  /\ Opening => /\ allocated /\ nClientId = session /\ cback
                /\ client[session] = "none" /\ ~thread_running /\ ~reading
                /\ queue = <<>> /\ heard[session] = <<>>
  /\ context => Running \/ api = "open_thread"
  /\ api = "open_thread" => context
  /\ spare => api = "close_free"
  /\ cback => Running \/ Opening \/ Released
  /\ reading \/ expiring > 0 => Running
  /\ \A t \in Sessions : client[t] = "msgrcv" => msqid[t] = session

(* The thread ends when, and only when, it has handled the close message.   *)
Ended == ~thread_running /\ client[session] \in {"loop", "exit"}
Handling(m) == client[session] = "handle" /\ msg[session] = m
Queued(m) == \E k \in DOMAIN queue : queue[k] = m
ThreadState ==
  Running =>
    /\ client[session] \in {"msgrcv", "handle", "rearm"} => thread_running
    /\ client[session] \in {"start", "exit"} => ~thread_running
    /\ cback = ~Ended
    /\ Ended => Closing
    /\ Closing => Ended \/ Handling("close") \/ Queued("close")

(* The open message comes first and the close message once.                *)
Fresh == client[session] \in {"start", "loop", "msgrcv"}
OpenPending == api = "open_complete" \/ Handling("open") \/ Queued("open")
MessageOrder ==
  Running =>
    /\ api = "open_complete" => queue = <<>> /\ Fresh /\ ~reading /\ expiring = 0
    /\ \A k \in DOMAIN queue : queue[k] = "open" => k = 1 /\ Fresh /\ ~Ended
    /\ \A j, k \in DOMAIN queue : queue[j] = "close" /\ queue[k] = "close" => j = k
    /\ Queued("close") => Closing /\ ~Ended /\ ~Handling("close")
    /\ Handling("close") => Closing

HeardSoFar ==
  Running =>
    heard[session] \in
      IF OpenPending THEN {<<>>}
      ELSE IF Ended THEN {<<"open", "close">>, <<"open", "data", "close">>}
      ELSE {<<"open">>, <<"open", "data">>}

NothingLeft ==
  /\ api = "close_tml" \/ Released => timers = 0
  /\ api \in {"close_wait", "close_monitor"} => ~allocated
  /\ api = "close_monitor" => ~cback
  /\ closed => /\ api \in {"idle", "link", "open", "close_chip"}
               /\ halStatus = "CLOSE"
               /\ timers = 0 /\ ~allocated /\ ~monitor

(* After a crash nothing is claimed but that it was the timer's.            *)
Works == api # "crashed"
Inv ==
  /\ TypeInv /\ FutureSessions /\ NoUseAfterRelease /\ EventOrder
  /\ ~Works => \A t \in Sessions : client[t] = "crashed"
  /\ Works => /\ StatusKnown /\ OneThread /\ Built /\ ThreadState
              /\ MessageOrder /\ HeardSoFar /\ NothingLeft
-----------------------------------------------------------------------------
(* What the host has heard of a session grows by an event, or by none when  *)
(* packets come in a row.                                                  *)
LEMMA Telling ==
  ASSUME heard \in [Sessions -> Seq(Events)], NEW t \in Sessions,
         NEW e \in Events, Tell(t, e)
  PROVE  /\ heard' \in [Sessions -> Seq(Events)]
         /\ \A u \in Sessions : u # t => heard'[u] = heard[u]
         /\ heard'[t] = IF heard[t] # <<>> /\ heard[t][Len(heard[t])] = e /\ e = "data"
                        THEN heard[t] ELSE Append(heard[t], e)
  BY DEF Tell

(* A session is counted when its queue is allocated.                         *)
LEMMA SessionCountStep == TypeInv /\ [Next]_vars => SessionCount'
<1>. SUFFICES ASSUME TypeInv, [Next]_vars PROVE SessionCount'
  OBVIOUS
<1>. USE LifecycleAssumption DEF TypeInv, TypeOK, SessionCount, Opening,
   Sessions, CountType, chipVars, ctrlVars, queueVars, tmlVars, timerVars,
   clientVars
<1>1. ASSUME NEW h \in Hosts \union {NoHost}, ChipOpen(h) PROVE SessionCount'
  BY <1>1 DEF ChipOpen
<1>2. CASE LinkToDeath \/ OpenAlready
  BY <1>2 DEF LinkToDeath, OpenAlready, ChipType
<1>3. CASE Open \/ OpenCtrl
  BY <1>3 DEF Open, OpenCtrl
<1>4. CASE OpenTml
  BY <1>4 DEF OpenTml
<1>5. CASE OpenThread
  BY <1>5 DEF OpenThread
<1>6. CASE OpenComplete
  BY <1>6 DEF OpenComplete
<1>7. CASE OpenFailed
  BY <1>7 DEF OpenFailed, Tell
<1>8. CASE ChipClose
  BY <1>8 DEF ChipClose, BeginClose
<1>9. ASSUME NEW h \in Hosts, OnServiceDied(h) PROVE SessionCount'
  BY <1>9 DEF OnServiceDied, BeginClose
<1>10. CASE CloseComplete \/ CloseAborts
  BY <1>10 DEF CloseComplete, CloseAborts
<1>11. CASE CloseTml
  BY <1>11 DEF CloseTml
<1>12. CASE MsgRelease \/ MsgFree
  BY <1>12 DEF MsgRelease, MsgFree
<1>13. CASE CloseWaitEnds \/ CleanupMonitor
  BY <1>13 DEF CloseWaitEnds, CleanupMonitor
<1>14. CASE CloseChip
  BY <1>14 DEF CloseChip
<1>15. ASSUME NEW h \in Hosts, HostDies(h) PROVE SessionCount'
  BY <1>15 DEF HostDies
<1>16. ASSUME NEW t \in Sessions, ThreadStarts(t) PROVE SessionCount'
  BY <1>16 DEF ThreadStarts, Goto
<1>17. ASSUME NEW t \in Sessions, Loop(t) PROVE SessionCount'
  BY <1>17 DEF Loop, Goto
<1>18. ASSUME NEW t \in Sessions, MsgRcv(t) PROVE SessionCount'
  BY <1>18 DEF MsgRcv, Goto, Crash
<1>19. ASSUME NEW t \in Sessions, HandleOpen(t) PROVE SessionCount'
  BY <1>19 DEF HandleOpen, Goto, Tell
<1>20. ASSUME NEW t \in Sessions, HandleClose(t) PROVE SessionCount'
  BY <1>20 DEF HandleClose, Goto, Tell
<1>21. ASSUME NEW t \in Sessions, HandleRead(t) PROVE SessionCount'
  BY <1>21 DEF HandleRead, Goto, Tell, Crash
<1>22. ASSUME NEW t \in Sessions, Rearm(t) PROVE SessionCount'
  BY <1>22 DEF Rearm, Goto
<1>23. ASSUME NEW t \in Sessions, HandleTimer(t) PROVE SessionCount'
  BY <1>23 DEF HandleTimer, Goto, Crash
<1>24. CASE FirstRead
  BY <1>24 DEF FirstRead
<1>25. CASE ReaderPosts
  BY <1>25 DEF ReaderPosts
<1>26. CASE TimerExpires
  BY <1>26 DEF TimerExpires
<1>27. CASE TimerExpired
  BY <1>27 DEF TimerExpired, Crash
<1>28. CASE UNCHANGED vars
  BY <1>28 DEF vars
<1>29. QED
  BY <1>1, <1>2, <1>3, <1>4, <1>5, <1>6, <1>7, <1>8, <1>9, <1>10, <1>11,
     <1>12, <1>13, <1>14, <1>15, <1>16, <1>17, <1>18, <1>19, <1>20, <1>21,
     <1>22, <1>23, <1>24, <1>25, <1>26, <1>27, <1>28
    DEF Next, Api, ClientThread

(* The control states and the flags.                                         *)
LEMMA ChipTypeStep == TypeInv /\ [Next]_vars => ChipType'
<1>. SUFFICES ASSUME TypeInv, [Next]_vars PROVE ChipType'
  OBVIOUS
<1>. USE LifecycleAssumption DEF TypeInv, TypeOK, SessionCount, Opening,
   ChipType, chipVars, ctrlVars, queueVars, tmlVars, timerVars, clientVars
<1>1. ASSUME NEW h \in Hosts \union {NoHost}, ChipOpen(h) PROVE ChipType'
  BY <1>1 DEF ChipOpen
<1>2. CASE LinkToDeath \/ OpenAlready
  BY <1>2 DEF LinkToDeath, OpenAlready
<1>3. CASE Open \/ OpenCtrl
  BY <1>3 DEF Open, OpenCtrl
<1>4. CASE OpenTml
  BY <1>4 DEF OpenTml
<1>5. CASE OpenThread
  BY <1>5 DEF OpenThread
<1>6. CASE OpenComplete
  BY <1>6 DEF OpenComplete
<1>7. CASE OpenFailed
  BY <1>7 DEF OpenFailed, Tell
<1>8. CASE ChipClose
  BY <1>8 DEF ChipClose, BeginClose
<1>9. ASSUME NEW h \in Hosts, OnServiceDied(h) PROVE ChipType'
  BY <1>9 DEF OnServiceDied, BeginClose
<1>10. CASE CloseComplete \/ CloseAborts
  BY <1>10 DEF CloseComplete, CloseAborts
<1>11. CASE CloseTml
  BY <1>11 DEF CloseTml
<1>12. CASE MsgRelease \/ MsgFree
  BY <1>12 DEF MsgRelease, MsgFree
<1>13. CASE CloseWaitEnds \/ CleanupMonitor
  BY <1>13 DEF CloseWaitEnds, CleanupMonitor
<1>14. CASE CloseChip
  BY <1>14 DEF CloseChip
<1>15. ASSUME NEW h \in Hosts, HostDies(h) PROVE ChipType'
  BY <1>15 DEF HostDies
<1>16. ASSUME NEW t \in Sessions, ThreadStarts(t) PROVE ChipType'
  BY <1>16 DEF ThreadStarts, Goto
<1>17. ASSUME NEW t \in Sessions, Loop(t) PROVE ChipType'
  BY <1>17 DEF Loop, Goto
<1>18. ASSUME NEW t \in Sessions, MsgRcv(t) PROVE ChipType'
  BY <1>18 DEF MsgRcv, Goto, Crash
<1>19. ASSUME NEW t \in Sessions, HandleOpen(t) PROVE ChipType'
  BY <1>19 DEF HandleOpen, Goto, Tell
<1>20. ASSUME NEW t \in Sessions, HandleClose(t) PROVE ChipType'
  BY <1>20 DEF HandleClose, Goto, Tell
<1>21. ASSUME NEW t \in Sessions, HandleRead(t) PROVE ChipType'
  BY <1>21 DEF HandleRead, Goto, Tell, Crash
<1>22. ASSUME NEW t \in Sessions, Rearm(t) PROVE ChipType'
  BY <1>22 DEF Rearm, Goto
<1>23. ASSUME NEW t \in Sessions, HandleTimer(t) PROVE ChipType'
  BY <1>23 DEF HandleTimer, Goto, Crash
<1>24. CASE FirstRead
  BY <1>24 DEF FirstRead
<1>25. CASE ReaderPosts
  BY <1>25 DEF ReaderPosts
<1>26. CASE TimerExpires
  BY <1>26 DEF TimerExpires
<1>27. CASE TimerExpired
  BY <1>27 DEF TimerExpired, Crash
<1>28. CASE UNCHANGED vars
  BY <1>28 DEF vars
<1>29. QED
  BY <1>1, <1>2, <1>3, <1>4, <1>5, <1>6, <1>7, <1>8, <1>9, <1>10, <1>11,
     <1>12, <1>13, <1>14, <1>15, <1>16, <1>17, <1>18, <1>19, <1>20, <1>21,
     <1>22, <1>23, <1>24, <1>25, <1>26, <1>27, <1>28
    DEF Next, Api, ClientThread

(* The numbers: sessions, timers and expiries.                               *)
LEMMA CountTypeStep == TypeInv /\ [Next]_vars => CountType'
<1>. SUFFICES ASSUME TypeInv, [Next]_vars PROVE CountType'
  OBVIOUS
<1>. USE LifecycleAssumption DEF TypeInv, TypeOK, SessionCount, Opening,
   CountType, chipVars, ctrlVars, queueVars, tmlVars, timerVars, clientVars
<1>1. CASE UNCHANGED <<session, nClientId, timers, timeoutTimerId, expiring,
                      expiries>>
  BY <1>1
<1>2. CASE Open
  BY <1>2 DEF Open
<1>3. CASE OpenCtrl
  BY <1>3 DEF OpenCtrl
<1>4. CASE CloseAborts
  BY <1>4 DEF CloseAborts
<1>5. CASE CloseWaitEnds
  BY <1>5 DEF CloseWaitEnds
<1>6. CASE TimerExpires
  BY <1>6 DEF TimerExpires
<1>7. CASE TimerExpired
  BY <1>7 DEF TimerExpired, Crash
<1>8. QED
  BY <1>1, <1>2, <1>3, <1>4, <1>5, <1>6, <1>7
    DEF Next, Api, ClientThread, vars, ChipOpen, LinkToDeath, OpenAlready,
        OpenTml, OpenThread, OpenComplete, OpenFailed, Tell, ChipClose,
        BeginClose, OnServiceDied, CloseComplete, CloseTml, MsgRelease,
        MsgFree, CleanupMonitor, CloseChip, HostDies, ThreadStarts, Goto,
        Loop, MsgRcv, Crash, HandleOpen, HandleClose, HandleRead, Rearm,
        HandleTimer, FirstRead, ReaderPosts

(* The queue and the client threads.                                         *)
LEMMA ThreadTypeStep == TypeInv /\ [Next]_vars => ThreadType'
<1>. SUFFICES ASSUME TypeInv, [Next]_vars PROVE ThreadType'
  OBVIOUS
<1>. USE LifecycleAssumption DEF TypeInv, TypeOK, SessionCount, Opening,
   ThreadType, CountType, Messages, Sessions, chipVars, ctrlVars, queueVars,
   tmlVars, timerVars, clientVars
<1>1. CASE UNCHANGED <<queue, client, msg, msqid, session>>
  BY <1>1
<1>2. CASE OpenCtrl
  BY <1>2 DEF OpenCtrl
<1>3. CASE OpenThread
  BY <1>3 DEF OpenThread
<1>4. CASE OpenComplete
  BY <1>4 DEF OpenComplete
<1>5. CASE CloseComplete
  BY <1>5 DEF CloseComplete
<1>6. CASE MsgFree
  BY <1>6 DEF MsgFree
<1>7. ASSUME NEW t \in Sessions, ThreadStarts(t) PROVE ThreadType'
  BY <1>7 DEF ThreadStarts, Goto
<1>8. ASSUME NEW t \in Sessions, Loop(t) PROVE ThreadType'
  <2>1. nClientId \in 0 .. session
    BY DEF CountType
  <2>2. msqid' \in [Sessions -> 0 .. session] /\ UNCHANGED <<queue, msg, session>>
    BY <1>8, <2>1 DEF Loop
  <2>3. QED
    BY <1>8, <2>2 DEF Loop, Goto
<1>9. ASSUME NEW t \in Sessions, MsgRcv(t) PROVE ThreadType'
  <2>1. queue # <<>> => Head(queue) \in Messages /\ Tail(queue) \in Seq(Messages)
    OBVIOUS
  <2>2. queue' \in Seq(Messages) /\ msg' \in [Sessions -> Messages \union {"none"}]
    BY <1>9, <2>1 DEF MsgRcv
  <2>3. client' \in [Sessions -> {"none", "start", "loop", "msgrcv", "handle",
                                 "rearm", "exit", "crashed"}]
    BY <1>9 DEF MsgRcv, Goto, Crash
  <2>4. QED
    BY <1>9, <2>2, <2>3 DEF MsgRcv
<1>10. ASSUME NEW t \in Sessions, HandleOpen(t) PROVE ThreadType'
  BY <1>10 DEF HandleOpen, Goto, Tell
<1>11. ASSUME NEW t \in Sessions, HandleClose(t) PROVE ThreadType'
  BY <1>11 DEF HandleClose, Goto, Tell
<1>12. ASSUME NEW t \in Sessions, HandleRead(t) PROVE ThreadType'
  BY <1>12 DEF HandleRead, Goto, Tell, Crash
<1>13. ASSUME NEW t \in Sessions, Rearm(t) PROVE ThreadType'
  BY <1>13 DEF Rearm, Goto
<1>14. ASSUME NEW t \in Sessions, HandleTimer(t) PROVE ThreadType'
  BY <1>14 DEF HandleTimer, Goto, Crash
<1>15. CASE ReaderPosts
  BY <1>15 DEF ReaderPosts
<1>16. CASE TimerExpired
  <2>1. queue' \in {queue, Append(queue, "timer")} /\ UNCHANGED <<msg, msqid, session>>
    BY <1>16 DEF TimerExpired
  <2>2. Append(queue, "timer") \in Seq(Messages)
    OBVIOUS
  <2>3. client' \in [Sessions -> {"none", "start", "loop", "msgrcv", "handle",
                                 "rearm", "exit", "crashed"}]
    BY <1>16 DEF TimerExpired, Crash
  <2>4. QED
    BY <2>1, <2>2, <2>3
<1>17. QED
  BY <1>1, <1>2, <1>3, <1>4, <1>5, <1>6, <1>7, <1>8, <1>9, <1>10, <1>11,
     <1>12, <1>13, <1>14, <1>15, <1>16
    DEF Next, Api, ClientThread, vars, ChipOpen, LinkToDeath, OpenAlready,
        Open, OpenTml, OpenFailed, Tell, ChipClose, BeginClose, OnServiceDied,
        CloseAborts, CloseTml, MsgRelease, CloseWaitEnds, CleanupMonitor,
        CloseChip, HostDies, FirstRead, TimerExpires

(* What was used after its release, and what the host heard.                 *)
LEMMA HistoryTypeStep == TypeInv /\ [Next]_vars => HistoryType'
<1>. SUFFICES ASSUME TypeInv, [Next]_vars PROVE HistoryType'
  OBVIOUS
<1>. USE LifecycleAssumption DEF TypeInv, TypeOK, SessionCount, Opening,
   HistoryType, chipVars, ctrlVars, queueVars, tmlVars, timerVars,
   clientVars
<1>1. CASE UNCHANGED <<faults, heard>>
  BY <1>1
<1>2. CASE OpenFailed
  BY <1>2, Telling DEF OpenFailed, Events
<1>3. ASSUME NEW t \in Sessions, MsgRcv(t) PROVE HistoryType'
  BY <1>3 DEF MsgRcv, Goto, Crash
<1>4. ASSUME NEW t \in Sessions, HandleOpen(t) PROVE HistoryType'
  BY <1>4, Telling DEF HandleOpen, Events
<1>5. ASSUME NEW t \in Sessions, HandleClose(t) PROVE HistoryType'
  BY <1>5, Telling DEF HandleClose, Events
<1>6. ASSUME NEW t \in Sessions, HandleRead(t) PROVE HistoryType'
  BY <1>6, Telling DEF HandleRead, Crash, Events
<1>7. ASSUME NEW t \in Sessions, HandleTimer(t) PROVE HistoryType'
  BY <1>7 DEF HandleTimer, Goto, Crash
<1>8. CASE TimerExpired
  BY <1>8 DEF TimerExpired, Crash
<1>9. QED
  BY <1>1, <1>2, <1>3, <1>4, <1>5, <1>6, <1>7, <1>8
    DEF Next, Api, ClientThread, vars, ChipOpen, LinkToDeath, OpenAlready,
        Open, OpenCtrl, OpenTml, OpenThread, OpenComplete, ChipClose,
        BeginClose, OnServiceDied, CloseComplete, CloseAborts, CloseTml,
        MsgRelease, MsgFree, CloseWaitEnds, CleanupMonitor, CloseChip,
        HostDies, ThreadStarts, Goto, Loop, Rearm, FirstRead, ReaderPosts,
        TimerExpires

(* A crash is final.                                                         *)
LEMMA WorksBefore == [Next]_vars /\ Works' => Works
  BY DEF Works, Next, Api, ClientThread, vars, ChipOpen, LinkToDeath,
     OpenAlready, Open, OpenCtrl, OpenTml, OpenThread, OpenComplete,
     OpenFailed, Tell, ChipClose, BeginClose, OnServiceDied, CloseComplete,
     CloseAborts, CloseTml, MsgRelease, MsgFree, CloseWaitEnds,
     CleanupMonitor, CloseChip, HostDies, ThreadStarts, Goto, Loop, MsgRcv,
     Crash, HandleOpen, HandleClose, HandleRead, Rearm, HandleTimer,
     FirstRead, ReaderPosts, TimerExpires, TimerExpired, chipVars, ctrlVars,
     queueVars, tmlVars, timerVars, clientVars

(* Sequences that grow by one element.                                       *)
LEMMA Growing ==
  ASSUME NEW a, NEW b, NEW c
  PROVE  Append(<<a>>, b) = <<a, b>> /\ Append(<<a, b>>, c) = <<a, b, c>>
<1>. DEFINE S == {a, b, c}
<1>1. Append(<<a>>, b) = <<a, b>>
  <2>1. Append(<<a>>, b) \in Seq(S) /\ <<a, b>> \in Seq(S)
    OBVIOUS
  <2>2. Len(Append(<<a>>, b)) = 2 /\ Len(<<a, b>>) = 2
    OBVIOUS
  <2>3. \A i \in 1 .. 2 : Append(<<a>>, b)[i] = <<a, b>>[i]
    OBVIOUS
  <2>4. QED
    BY <2>1, <2>2, <2>3, SeqEqual
<1>2. Append(<<a, b>>, c) = <<a, b, c>>
  <2>1. Append(<<a, b>>, c) \in Seq(S) /\ <<a, b, c>> \in Seq(S)
    OBVIOUS
  <2>2. Len(Append(<<a, b>>, c)) = 3 /\ Len(<<a, b, c>>) = 3
    OBVIOUS
  <2>3. \A i \in 1 .. 3 : Append(<<a, b>>, c)[i] = <<a, b, c>>[i]
    OBVIOUS
  <2>4. QED
    BY <2>1, <2>2, <2>3, SeqEqual
<1>3. QED
  BY <1>1, <1>2

(* Posting a message, and taking the oldest one.                             *)
LEMMA Posting ==
  ASSUME queue \in Seq(Messages), NEW m \in Messages, queue' = Append(queue, m)
  PROVE  /\ queue' # <<>>
         /\ \A k \in DOMAIN queue' :
              \/ k \in DOMAIN queue /\ queue'[k] = queue[k]
              \/ k = Len(queue) + 1 /\ k \notin DOMAIN queue /\ queue'[k] = m
         /\ \A x : Queued(x)' <=> Queued(x) \/ x = m
<1>1. DOMAIN queue' = 1 .. Len(queue) + 1 /\ DOMAIN queue = 1 .. Len(queue)
      /\ Len(queue) \in Nat
  OBVIOUS
<1>2. \A k \in DOMAIN queue : queue'[k] = queue[k]
  OBVIOUS
<1>3. queue'[Len(queue) + 1] = m
  OBVIOUS
<1>4. \A x : Queued(x)' <=> Queued(x) \/ x = m
  BY <1>1, <1>2, <1>3 DEF Queued
<1>5. QED
  BY <1>1, <1>2, <1>3, <1>4

LEMMA Fetching ==
  ASSUME queue \in Seq(Messages), queue # <<>>, queue' = Tail(queue)
  PROVE  /\ 1 \in DOMAIN queue /\ Head(queue) = queue[1] /\ queue[1] \in Messages
         /\ \A k \in DOMAIN queue' :
              k + 1 \in DOMAIN queue /\ k + 1 # 1 /\ queue'[k] = queue[k + 1]
         /\ \A j, k \in DOMAIN queue' : j + 1 = k + 1 => j = k
         /\ \A k \in DOMAIN queue : k = 1 \/ k - 1 \in DOMAIN queue'
  OBVIOUS

(* A thread that can move is that of the current session.                   *)
LEMMA Acting ==
  ASSUME Inv, Works, NEW t \in Sessions, client[t] \notin {"none", "exit"}
  PROVE  /\ t = session /\ Running /\ allocated /\ context
         /\ nClientId = session /\ ~spare
         /\ client[t] \in {"msgrcv", "handle", "rearm"} => thread_running
  BY DEF Inv, OneThread, Built, Running, ThreadState

(* A message is received by the thread of the session, which runs.          *)
LEMMA Receiving ==
  ASSUME Inv, Works, NEW t \in Sessions, MsgRcv(t)
  PROVE  /\ t = session /\ Running /\ thread_running
         /\ queue \in Seq(Messages) /\ queue # <<>> /\ queue' = Tail(queue)
         /\ msg' = [msg EXCEPT ![t] = Head(queue)]
         /\ client' = [client EXCEPT ![t] = "handle"]
         /\ UNCHANGED <<api, faults, spare>>
<1>1. client[t] = "msgrcv"
  BY DEF MsgRcv
<1>2. t = session /\ Running /\ allocated /\ ~spare /\ thread_running
  BY <1>1, Acting
<1>3. msqid[t] = session
  BY <1>1 DEF Inv, Built
<1>4. queue \in Seq(Messages)
  BY DEF Inv, TypeInv, TypeOK, ThreadType
<1>5. QED
  BY <1>2, <1>3, <1>4 DEF MsgRcv, Goto

(* When the waits of close end, the thread has ended.                       *)
LEMMA ThreadEnded ==
  ASSUME Inv, Works, Drained, api = "close_tml"
  PROVE  expiring = 0 /\ \A t \in Sessions : client[t] \in {"none", "exit"}
<1>1. Running /\ Closing
  BY DEF Running, Closing
<1>2. /\ Ended \/ Handling("close") \/ Queued("close")
      /\ Queued("close") => ~Ended
      /\ client[session] = "exit" => ~thread_running
      /\ session \in Sessions /\ client[session] # "none"
  BY <1>1 DEF Inv, ThreadState, MessageOrder, Built
<1>3. client[session] = "exit"
  BY <1>2 DEF Drained, Ended, Handling, Queued
<1>4. QED
  BY <1>3 DEF Drained, Inv, OneThread

(* A session that has not begun has no thread and has told the host nothing.  *)
LEMMA FutureSessionsStep == Inv /\ [Next]_vars => FutureSessions'
<1>. SUFFICES ASSUME Inv, [Next]_vars PROVE FutureSessions'
  OBVIOUS
<1>. USE LifecycleAssumption DEF Inv, FutureSessions, Opening, SessionCount,
   chipVars, ctrlVars, queueVars, tmlVars, timerVars, clientVars
<1>0. /\ session \in Nat /\ SessionCount
      /\ heard \in [Sessions -> Seq(Events)]
      /\ client \in [Sessions -> {"none", "start", "loop", "msgrcv", "handle",
                                "rearm", "exit", "crashed"}]
  BY LifecycleAssumption DEF Inv, TypeInv, TypeOK, CountType, ThreadType, HistoryType
<1>1. ASSUME NEW h \in Hosts \union {NoHost}, ChipOpen(h) PROVE FutureSessions'
  BY <1>0, <1>1 DEF ChipOpen, Sessions
<1>2. CASE LinkToDeath
  BY <1>0, <1>2 DEF LinkToDeath, Sessions
<1>3. CASE OpenAlready
  BY <1>0, <1>3 DEF OpenAlready, Sessions
<1>4. CASE Open
  BY <1>0, <1>4 DEF Open, Sessions
<1>5. CASE OpenCtrl
  BY <1>0, <1>5 DEF OpenCtrl, Sessions
<1>6. CASE OpenTml
  BY <1>0, <1>6 DEF OpenTml, Sessions
<1>7. CASE OpenThread
  BY <1>0, <1>7 DEF OpenThread, Sessions
<1>8. CASE OpenComplete
  BY <1>0, <1>8 DEF OpenComplete, Sessions
<1>9. CASE OpenFailed
  BY <1>0, <1>9 DEF OpenFailed, Tell, Sessions
<1>10. CASE ChipClose
  BY <1>0, <1>10 DEF ChipClose, BeginClose, Sessions
<1>11. ASSUME NEW h \in Hosts, OnServiceDied(h) PROVE FutureSessions'
  BY <1>0, <1>11 DEF OnServiceDied, BeginClose, Sessions
<1>12. CASE CloseComplete
  BY <1>0, <1>12 DEF CloseComplete, Sessions
<1>13. CASE CloseAborts
  BY <1>0, <1>13 DEF CloseAborts, Sessions
<1>14. CASE CloseTml
  BY <1>0, <1>14 DEF CloseTml, Sessions
<1>15. CASE MsgRelease
  BY <1>0, <1>15 DEF MsgRelease, Sessions
<1>16. CASE MsgFree
  BY <1>0, <1>16 DEF MsgFree, Sessions
<1>17. CASE CloseWaitEnds
  BY <1>0, <1>17 DEF CloseWaitEnds, Sessions
<1>18. CASE CleanupMonitor
  BY <1>0, <1>18 DEF CleanupMonitor, Sessions
<1>19. CASE CloseChip
  BY <1>0, <1>19 DEF CloseChip, Sessions
<1>20. ASSUME NEW h \in Hosts, HostDies(h) PROVE FutureSessions'
  BY <1>0, <1>20 DEF HostDies, Sessions
<1>21. ASSUME NEW t \in Sessions, ThreadStarts(t) PROVE FutureSessions'
  BY <1>0, <1>21 DEF ThreadStarts, Goto, Sessions
<1>22. ASSUME NEW t \in Sessions, Loop(t) PROVE FutureSessions'
  BY <1>0, <1>22 DEF Loop, Goto, Sessions
<1>23. ASSUME NEW t \in Sessions, MsgRcv(t) PROVE FutureSessions'
  BY <1>0, <1>23 DEF MsgRcv, Goto, Crash, Sessions
<1>24. ASSUME NEW t \in Sessions, HandleOpen(t) PROVE FutureSessions'
  BY <1>0, <1>24 DEF HandleOpen, Goto, Tell, Sessions
<1>25. ASSUME NEW t \in Sessions, HandleClose(t) PROVE FutureSessions'
  BY <1>0, <1>25 DEF HandleClose, Goto, Tell, Sessions
<1>26. ASSUME NEW t \in Sessions, HandleRead(t) PROVE FutureSessions'
  BY <1>0, <1>26 DEF HandleRead, Goto, Tell, Crash, Sessions
<1>27. ASSUME NEW t \in Sessions, Rearm(t) PROVE FutureSessions'
  BY <1>0, <1>27 DEF Rearm, Goto, Sessions
<1>28. ASSUME NEW t \in Sessions, HandleTimer(t) PROVE FutureSessions'
  BY <1>0, <1>28 DEF HandleTimer, Goto, Crash, Sessions
<1>29. CASE FirstRead
  BY <1>0, <1>29 DEF FirstRead, Sessions
<1>30. CASE ReaderPosts
  BY <1>0, <1>30 DEF ReaderPosts, Sessions
<1>31. CASE TimerExpires
  BY <1>0, <1>31 DEF TimerExpires, Sessions
<1>32. CASE TimerExpired
  BY <1>0, <1>32 DEF TimerExpired, Crash, Sessions
<1>33. CASE UNCHANGED vars
  BY <1>0, <1>33 DEF vars
<1>34. QED
  BY <1>1, <1>2, <1>3, <1>4, <1>5, <1>6, <1>7, <1>8, <1>9, <1>10, <1>11,
     <1>12, <1>13, <1>14, <1>15, <1>16, <1>17, <1>18, <1>19, <1>20, <1>21,
     <1>22, <1>23, <1>24, <1>25, <1>26, <1>27, <1>28, <1>29, <1>30, <1>31,
     <1>32, <1>33
    DEF Next, Api, ClientThread

(* The status is set with the steps of open and close.                      *)
LEMMA StatusKnownStep == Prompt /\ Inv /\ [Next]_vars /\ Works' => StatusKnown'
<1>. SUFFICES ASSUME Prompt, Inv, [Next]_vars, Works' PROVE StatusKnown'
  OBVIOUS
<1>. USE LifecycleAssumption DEF StatusKnown, Opening, Closing, Released,
   Works, chipVars, ctrlVars, queueVars, tmlVars, timerVars, clientVars
<1>0. /\ Works /\ TypeOK /\ SessionCount /\ FutureSessions /\ StatusKnown
      /\ OneThread /\ Built /\ ThreadState /\ MessageOrder /\ HeardSoFar
      /\ NothingLeft
  BY WorksBefore DEF Inv, TypeInv
<1>1. ASSUME NEW h \in Hosts \union {NoHost}, ChipOpen(h) PROVE StatusKnown'
  BY <1>0, <1>1 DEF ChipOpen, ChipType, TypeOK
<1>2. CASE LinkToDeath
  BY <1>0, <1>2 DEF LinkToDeath, ChipType, TypeOK
<1>3. CASE OpenAlready
  BY <1>0, <1>3 DEF OpenAlready, ChipType, TypeOK
<1>4. CASE Open
  BY <1>0, <1>4 DEF Open, ChipType, TypeOK
<1>5. CASE OpenCtrl
  BY <1>0, <1>5 DEF OpenCtrl, ChipType, TypeOK
<1>6. CASE OpenTml
  BY <1>0, <1>6 DEF OpenTml, ChipType, TypeOK
<1>7. CASE OpenThread
  BY <1>0, <1>7 DEF OpenThread, ChipType, TypeOK
<1>8. CASE OpenComplete
  BY <1>0, <1>8 DEF OpenComplete, ChipType, TypeOK
<1>9. CASE OpenFailed
  BY <1>0, <1>9 DEF OpenFailed, Tell, ChipType, TypeOK
<1>10. CASE ChipClose
  BY <1>0, <1>10 DEF ChipClose, BeginClose, ChipType, TypeOK
<1>11. ASSUME NEW h \in Hosts, OnServiceDied(h) PROVE StatusKnown'
  BY <1>0, <1>11 DEF OnServiceDied, BeginClose, ChipType, TypeOK
<1>12. CASE CloseComplete
  BY <1>0, <1>12 DEF CloseComplete, ChipType, TypeOK
<1>13. CASE CloseAborts
  BY <1>0, <1>13 DEF CloseAborts, ChipType, TypeOK
<1>14. CASE CloseTml
  BY <1>0, <1>14 DEF CloseTml, ChipType, TypeOK
<1>15. CASE MsgRelease
  BY <1>0, <1>15 DEF MsgRelease, ChipType, TypeOK
<1>16. CASE MsgFree
  BY <1>0, <1>16 DEF MsgFree, ChipType, TypeOK
<1>17. CASE CloseWaitEnds
  BY <1>0, <1>17 DEF CloseWaitEnds, ChipType, TypeOK
<1>18. CASE CleanupMonitor
  BY <1>0, <1>18 DEF CleanupMonitor, ChipType, TypeOK
<1>19. CASE CloseChip
  BY <1>0, <1>19 DEF CloseChip, ChipType, TypeOK
<1>20. ASSUME NEW h \in Hosts, HostDies(h) PROVE StatusKnown'
  BY <1>0, <1>20 DEF HostDies, ChipType, TypeOK
<1>21. ASSUME NEW t \in Sessions, ThreadStarts(t) PROVE StatusKnown'
  BY <1>0, <1>21 DEF ThreadStarts, Goto, ChipType, TypeOK
<1>22. ASSUME NEW t \in Sessions, Loop(t) PROVE StatusKnown'
  BY <1>0, <1>22 DEF Loop, Goto, ChipType, TypeOK
<1>23. ASSUME NEW t \in Sessions, MsgRcv(t) PROVE StatusKnown'
  BY <1>0, <1>23 DEF MsgRcv, Goto, Crash, ChipType, TypeOK
<1>24. ASSUME NEW t \in Sessions, HandleOpen(t) PROVE StatusKnown'
  BY <1>0, <1>24 DEF HandleOpen, Goto, Tell, ChipType, TypeOK
<1>25. ASSUME NEW t \in Sessions, HandleClose(t) PROVE StatusKnown'
  BY <1>0, <1>25 DEF HandleClose, Goto, Tell, ChipType, TypeOK
<1>26. ASSUME NEW t \in Sessions, HandleRead(t) PROVE StatusKnown'
  BY <1>0, <1>26 DEF HandleRead, Goto, Tell, Crash, ChipType, TypeOK
<1>27. ASSUME NEW t \in Sessions, Rearm(t) PROVE StatusKnown'
  BY <1>0, <1>27 DEF Rearm, Goto, ChipType, TypeOK
<1>28. ASSUME NEW t \in Sessions, HandleTimer(t) PROVE StatusKnown'
  BY <1>0, <1>28 DEF HandleTimer, Goto, Crash, ChipType, TypeOK
<1>29. CASE FirstRead
  BY <1>0, <1>29 DEF FirstRead, ChipType, TypeOK
<1>30. CASE ReaderPosts
  BY <1>0, <1>30 DEF ReaderPosts, ChipType, TypeOK
<1>31. CASE TimerExpires
  BY <1>0, <1>31 DEF TimerExpires, ChipType, TypeOK
<1>32. CASE TimerExpired
  BY <1>0, <1>32 DEF TimerExpired, Crash, ChipType, TypeOK
<1>33. CASE UNCHANGED vars
  BY <1>0, <1>33 DEF vars
<1>34. QED
  BY <1>1, <1>2, <1>3, <1>4, <1>5, <1>6, <1>7, <1>8, <1>9, <1>10, <1>11,
     <1>12, <1>13, <1>14, <1>15, <1>16, <1>17, <1>18, <1>19, <1>20, <1>21,
     <1>22, <1>23, <1>24, <1>25, <1>26, <1>27, <1>28, <1>29, <1>30, <1>31,
     <1>32, <1>33
    DEF Next, Api, ClientThread

(* The thread of a session ends before the next session begins.             *)
LEMMA OneThreadStep == Prompt /\ Inv /\ [Next]_vars /\ Works' => OneThread'
<1>. SUFFICES ASSUME Prompt, Inv, [Next]_vars, Works' PROVE OneThread'
  OBVIOUS
<1>. USE LifecycleAssumption DEF OneThread, Running, Works, chipVars,
   ctrlVars, queueVars, tmlVars, timerVars, clientVars
<1>0. /\ Works /\ TypeOK /\ SessionCount /\ FutureSessions /\ StatusKnown
      /\ OneThread /\ Built /\ ThreadState /\ MessageOrder /\ HeardSoFar
      /\ NothingLeft
  BY WorksBefore DEF Inv, TypeInv
<1>1. ASSUME NEW h \in Hosts \union {NoHost}, ChipOpen(h) PROVE OneThread'
  BY <1>0, <1>1
    DEF ChipOpen, TypeOK, ChipType, CountType, ThreadType, HistoryType,
        Sessions, FutureSessions, Built, Opening, StatusKnown
<1>2. CASE LinkToDeath
  BY <1>0, <1>2
    DEF LinkToDeath, TypeOK, ChipType, CountType, ThreadType, HistoryType,
        Sessions, FutureSessions, Built, Opening, StatusKnown
<1>3. CASE OpenAlready
  BY <1>0, <1>3
    DEF OpenAlready, TypeOK, ChipType, CountType, ThreadType, HistoryType,
        Sessions, FutureSessions, Built, Opening, StatusKnown
<1>4. CASE Open
  BY <1>0, <1>4
    DEF Open, TypeOK, ChipType, CountType, ThreadType, HistoryType, Sessions,
        FutureSessions, Built, Opening, StatusKnown
<1>5. CASE OpenCtrl
  BY <1>0, <1>5
    DEF OpenCtrl, TypeOK, ChipType, CountType, ThreadType, HistoryType,
        Sessions, FutureSessions, Built, Opening, StatusKnown
<1>6. CASE OpenTml
  BY <1>0, <1>6
    DEF OpenTml, TypeOK, ChipType, CountType, ThreadType, HistoryType,
        Sessions, FutureSessions, Built, Opening, StatusKnown
<1>7. CASE OpenThread
  BY <1>0, <1>7
    DEF OpenThread, TypeOK, ChipType, CountType, ThreadType, HistoryType,
        Sessions, FutureSessions, Built, Opening, StatusKnown
<1>8. CASE OpenComplete
  BY <1>0, <1>8
    DEF OpenComplete, TypeOK, ChipType, CountType, ThreadType, HistoryType,
        Sessions, FutureSessions, Built, Opening, StatusKnown
<1>9. CASE OpenFailed
  BY <1>0, <1>9
    DEF OpenFailed, Tell, TypeOK, ChipType, CountType, ThreadType,
        HistoryType, Sessions, FutureSessions, Built, Opening, StatusKnown
<1>10. CASE ChipClose
  BY <1>0, <1>10
    DEF ChipClose, BeginClose, TypeOK, ChipType, CountType, ThreadType,
        HistoryType, Sessions, FutureSessions, Built, Opening, StatusKnown
<1>11. ASSUME NEW h \in Hosts, OnServiceDied(h) PROVE OneThread'
  BY <1>0, <1>11
    DEF OnServiceDied, BeginClose, TypeOK, ChipType, CountType, ThreadType,
        HistoryType, Sessions, FutureSessions, Built, Opening, StatusKnown
<1>12. CASE CloseComplete
  BY <1>0, <1>12
    DEF CloseComplete, TypeOK, ChipType, CountType, ThreadType, HistoryType,
        Sessions, FutureSessions, Built, Opening, StatusKnown
<1>13. CASE CloseAborts
  BY <1>0, <1>13
    DEF CloseAborts, TypeOK, ChipType, CountType, ThreadType, HistoryType,
        Sessions, FutureSessions, Built, Opening, StatusKnown
<1>14. CASE CloseTml
  BY <1>0, <1>14, ThreadEnded DEF CloseTml
<1>15. CASE MsgRelease
  BY <1>0, <1>15
    DEF MsgRelease, TypeOK, ChipType, CountType, ThreadType, HistoryType,
        Sessions, FutureSessions, Built, Opening, StatusKnown
<1>16. CASE MsgFree
  BY <1>0, <1>16
    DEF MsgFree, TypeOK, ChipType, CountType, ThreadType, HistoryType,
        Sessions, FutureSessions, Built, Opening, StatusKnown
<1>17. CASE CloseWaitEnds
  BY <1>0, <1>17
    DEF CloseWaitEnds, TypeOK, ChipType, CountType, ThreadType, HistoryType,
        Sessions, FutureSessions, Built, Opening, StatusKnown
<1>18. CASE CleanupMonitor
  BY <1>0, <1>18
    DEF CleanupMonitor, TypeOK, ChipType, CountType, ThreadType, HistoryType,
        Sessions, FutureSessions, Built, Opening, StatusKnown
<1>19. CASE CloseChip
  BY <1>0, <1>19
    DEF CloseChip, TypeOK, ChipType, CountType, ThreadType, HistoryType,
        Sessions, FutureSessions, Built, Opening, StatusKnown
<1>20. ASSUME NEW h \in Hosts, HostDies(h) PROVE OneThread'
  BY <1>0, <1>20
    DEF HostDies, TypeOK, ChipType, CountType, ThreadType, HistoryType,
        Sessions, FutureSessions, Built, Opening, StatusKnown
<1>21. ASSUME NEW t \in Sessions, ThreadStarts(t) PROVE OneThread'
  BY <1>0, <1>21
    DEF ThreadStarts, Goto, TypeOK, ChipType, CountType, ThreadType,
        HistoryType, Sessions, FutureSessions, Built, Opening, StatusKnown
<1>22. ASSUME NEW t \in Sessions, Loop(t) PROVE OneThread'
  <2>1. t = session /\ Running
    BY <1>0, <1>22, Acting DEF Loop
  <2>2. /\ Running' /\ session' = session
        /\ \A u \in Sessions : u # t => client'[u] = client[u]
    BY <1>0, <1>22, <2>1 DEF Loop, Goto, TypeOK, ThreadType
  <2>3. QED
    BY <1>0, <2>1, <2>2
<1>23. ASSUME NEW t \in Sessions, MsgRcv(t) PROVE OneThread'
  BY <1>0, <1>23
    DEF MsgRcv, Goto, Crash, TypeOK, ChipType, CountType, ThreadType,
        HistoryType, Sessions, FutureSessions, Built, Opening, StatusKnown
<1>24. ASSUME NEW t \in Sessions, HandleOpen(t) PROVE OneThread'
  BY <1>0, <1>24
    DEF HandleOpen, Goto, Tell, TypeOK, ChipType, CountType, ThreadType,
        HistoryType, Sessions, FutureSessions, Built, Opening, StatusKnown
<1>25. ASSUME NEW t \in Sessions, HandleClose(t) PROVE OneThread'
  BY <1>0, <1>25
    DEF HandleClose, Goto, Tell, TypeOK, ChipType, CountType, ThreadType,
        HistoryType, Sessions, FutureSessions, Built, Opening, StatusKnown
<1>26. ASSUME NEW t \in Sessions, HandleRead(t) PROVE OneThread'
  <2>1. t = session /\ Running
    BY <1>0, <1>26, Acting DEF HandleRead
  <2>2. /\ Running' /\ session' = session
        /\ \A u \in Sessions : u # t => client'[u] = client[u]
    BY <1>0, <1>26, <2>1 DEF HandleRead, Goto, Crash, TypeOK, ThreadType
  <2>3. QED
    BY <1>0, <2>1, <2>2
<1>27. ASSUME NEW t \in Sessions, Rearm(t) PROVE OneThread'
  BY <1>0, <1>27
    DEF Rearm, Goto, TypeOK, ChipType, CountType, ThreadType, HistoryType,
        Sessions, FutureSessions, Built, Opening, StatusKnown
<1>28. ASSUME NEW t \in Sessions, HandleTimer(t) PROVE OneThread'
  <2>1. t = session /\ Running
    BY <1>0, <1>28, Acting DEF HandleTimer
  <2>2. /\ Running' /\ session' = session
        /\ \A u \in Sessions : u # t => client'[u] = client[u]
    BY <1>0, <1>28, <2>1 DEF HandleTimer, Goto, Crash, TypeOK, ThreadType
  <2>3. QED
    BY <1>0, <2>1, <2>2
<1>29. CASE FirstRead
  BY <1>0, <1>29
    DEF FirstRead, TypeOK, ChipType, CountType, ThreadType, HistoryType,
        Sessions, FutureSessions, Built, Opening, StatusKnown
<1>30. CASE ReaderPosts
  BY <1>0, <1>30
    DEF ReaderPosts, TypeOK, ChipType, CountType, ThreadType, HistoryType,
        Sessions, FutureSessions, Built, Opening, StatusKnown
<1>31. CASE TimerExpires
  BY <1>0, <1>31
    DEF TimerExpires, TypeOK, ChipType, CountType, ThreadType, HistoryType,
        Sessions, FutureSessions, Built, Opening, StatusKnown
<1>32. CASE TimerExpired
  BY <1>0, <1>32
    DEF TimerExpired, Crash, TypeOK, ChipType, CountType, ThreadType,
        HistoryType, Sessions, FutureSessions, Built, Opening, StatusKnown
<1>33. CASE UNCHANGED vars
  BY <1>0, <1>33 DEF vars
<1>34. QED
  BY <1>1, <1>2, <1>3, <1>4, <1>5, <1>6, <1>7, <1>8, <1>9, <1>10, <1>11,
     <1>12, <1>13, <1>14, <1>15, <1>16, <1>17, <1>18, <1>19, <1>20, <1>21,
     <1>22, <1>23, <1>24, <1>25, <1>26, <1>27, <1>28, <1>29, <1>30, <1>31,
     <1>32, <1>33
    DEF Next, Api, ClientThread

(* Objects are made before the thread that uses them and released after it.  *)
LEMMA BuiltStep == Prompt /\ Inv /\ [Next]_vars /\ Works' => Built'
<1>. SUFFICES ASSUME Prompt, Inv, [Next]_vars, Works' PROVE Built'
  OBVIOUS
<1>. USE LifecycleAssumption DEF Built, Running, Opening, Works, chipVars,
   ctrlVars, queueVars, tmlVars, timerVars, clientVars
<1>0. /\ Works /\ TypeOK /\ SessionCount /\ FutureSessions /\ StatusKnown
      /\ OneThread /\ Built /\ ThreadState /\ MessageOrder /\ HeardSoFar
      /\ NothingLeft
  BY WorksBefore DEF Inv, TypeInv
<1>1. ASSUME NEW h \in Hosts \union {NoHost}, ChipOpen(h) PROVE Built'
  BY <1>0, <1>1
    DEF ChipOpen, TypeOK, ChipType, CountType, ThreadType, HistoryType,
        Sessions, FutureSessions, OneThread, StatusKnown, Released, Closing
<1>2. CASE LinkToDeath
  BY <1>0, <1>2
    DEF LinkToDeath, TypeOK, ChipType, CountType, ThreadType, HistoryType,
        Sessions, FutureSessions, OneThread, StatusKnown, Released, Closing
<1>3. CASE OpenAlready
  BY <1>0, <1>3
    DEF OpenAlready, TypeOK, ChipType, CountType, ThreadType, HistoryType,
        Sessions, FutureSessions, OneThread, StatusKnown, Released, Closing
<1>4. CASE Open
  BY <1>0, <1>4
    DEF Open, TypeOK, ChipType, CountType, ThreadType, HistoryType, Sessions,
        FutureSessions, OneThread, StatusKnown, Released, Closing
<1>5. CASE OpenCtrl
  <2>1. session \in Nat /\ session + 1 \in Sessions /\ session + 1 > session
        /\ ~Running
    BY <1>0, <1>5 DEF OpenCtrl, SessionCount, Sessions, TypeOK, CountType
  <2>2. client[session + 1] = "none" /\ heard[session + 1] = <<>>
    BY <1>0, <2>1 DEF FutureSessions, OneThread
  <2>3. \A t \in Sessions : client[t] # "msgrcv"
    BY <1>0, <2>1 DEF OneThread
  <2>4. ~reading /\ ~(expiring > 0) /\ ~context
    BY <1>0, <1>5, <2>1 DEF OpenCtrl
  <2>5. QED
    BY <1>5, <2>1, <2>2, <2>3, <2>4 DEF OpenCtrl
<1>6. CASE OpenTml
  BY <1>0, <1>6
    DEF OpenTml, TypeOK, ChipType, CountType, ThreadType, HistoryType,
        Sessions, FutureSessions, OneThread, StatusKnown, Released, Closing
<1>7. CASE OpenThread
  <2>1. session \in Sessions /\ client \in [Sessions -> {"none", "start", "loop",
          "msgrcv", "handle", "rearm", "exit", "crashed"}]
    BY <1>0, <1>7 DEF OpenThread, SessionCount, Opening, TypeOK, ThreadType
  <2>2. CASE client' = [client EXCEPT ![session] = "start"] /\ api' = "open_complete"
             /\ UNCHANGED tmlVars
    <3>1. \A t \in Sessions : client'[t] = IF t = session THEN "start" ELSE client[t]
      BY <2>1, <2>2
    <3>2. QED
      BY <1>0, <1>7, <2>1, <2>2, <3>1 DEF OpenThread
  <2>3. CASE context' = FALSE /\ reading' = FALSE /\ api' = "open_failed"
             /\ UNCHANGED client
    BY <1>0, <1>7, <2>3 DEF OpenThread
  <2>4. QED
    BY <1>7, <2>2, <2>3 DEF OpenThread
<1>8. CASE OpenComplete
  BY <1>0, <1>8
    DEF OpenComplete, TypeOK, ChipType, CountType, ThreadType, HistoryType,
        Sessions, FutureSessions, OneThread, StatusKnown, Released, Closing
<1>9. CASE OpenFailed
  BY <1>0, <1>9
    DEF OpenFailed, Tell, TypeOK, ChipType, CountType, ThreadType,
        HistoryType, Sessions, FutureSessions, OneThread, StatusKnown,
        Released, Closing
<1>10. CASE ChipClose
  BY <1>0, <1>10
    DEF ChipClose, BeginClose, TypeOK, ChipType, CountType, ThreadType,
        HistoryType, Sessions, FutureSessions, OneThread, StatusKnown,
        Released, Closing
<1>11. ASSUME NEW h \in Hosts, OnServiceDied(h) PROVE Built'
  BY <1>0, <1>11
    DEF OnServiceDied, BeginClose, TypeOK, ChipType, CountType, ThreadType,
        HistoryType, Sessions, FutureSessions, OneThread, StatusKnown,
        Released, Closing
<1>12. CASE CloseComplete
  BY <1>0, <1>12
    DEF CloseComplete, TypeOK, ChipType, CountType, ThreadType, HistoryType,
        Sessions, FutureSessions, OneThread, StatusKnown, Released, Closing
<1>13. CASE CloseAborts
  BY <1>0, <1>13
    DEF CloseAborts, TypeOK, ChipType, CountType, ThreadType, HistoryType,
        Sessions, FutureSessions, OneThread, StatusKnown, Released, Closing
<1>14. CASE CloseTml
  <2>1. expiring = 0 /\ \A t \in Sessions : client[t] \in {"none", "exit"}
    BY <1>0, <1>14, ThreadEnded DEF CloseTml
  <2>2. QED
    BY <1>0, <1>14, <2>1 DEF CloseTml, Released
<1>15. CASE MsgRelease
  BY <1>0, <1>15
    DEF MsgRelease, TypeOK, ChipType, CountType, ThreadType, HistoryType,
        Sessions, FutureSessions, OneThread, StatusKnown, Released, Closing
<1>16. CASE MsgFree
  BY <1>0, <1>16
    DEF MsgFree, TypeOK, ChipType, CountType, ThreadType, HistoryType,
        Sessions, FutureSessions, OneThread, StatusKnown, Released, Closing
<1>17. CASE CloseWaitEnds
  BY <1>0, <1>17
    DEF CloseWaitEnds, TypeOK, ChipType, CountType, ThreadType, HistoryType,
        Sessions, FutureSessions, OneThread, StatusKnown, Released, Closing
<1>18. CASE CleanupMonitor
  BY <1>0, <1>18 DEF CleanupMonitor, Released, NothingLeft
<1>19. CASE CloseChip
  BY <1>0, <1>19
    DEF CloseChip, TypeOK, ChipType, CountType, ThreadType, HistoryType,
        Sessions, FutureSessions, OneThread, StatusKnown, Released, Closing
<1>20. ASSUME NEW h \in Hosts, HostDies(h) PROVE Built'
  BY <1>0, <1>20
    DEF HostDies, TypeOK, ChipType, CountType, ThreadType, HistoryType,
        Sessions, FutureSessions, OneThread, StatusKnown, Released, Closing
<1>21. ASSUME NEW t \in Sessions, ThreadStarts(t) PROVE Built'
  BY <1>0, <1>21
    DEF ThreadStarts, Goto, TypeOK, ChipType, CountType, ThreadType,
        HistoryType, Sessions, FutureSessions, OneThread, StatusKnown,
        Released, Closing
<1>22. ASSUME NEW t \in Sessions, Loop(t) PROVE Built'
  <2>1. t = session /\ Running /\ nClientId = session
    BY <1>0, <1>22, Acting DEF Loop
  <2>2. /\ \A u \in Sessions : client'[u] = "msgrcv" => msqid'[u] = session
        /\ client'[session] # "none"
    BY <1>0, <1>22, <2>1 DEF Loop, Goto, TypeOK, ThreadType
  <2>3. UNCHANGED <<api, halStatus, allocated, context, nClientId, session, cback,
                   reading, expiring, queue, heard, thread_running, spare>>
    BY <1>22 DEF Loop
  <2>4. QED
    BY <1>0, <2>1, <2>2, <2>3
<1>23. ASSUME NEW t \in Sessions, MsgRcv(t) PROVE Built'
  BY <1>0, <1>23, ZenonT(40)
    DEF MsgRcv, Goto, Crash, TypeOK, ChipType, CountType, ThreadType,
        HistoryType, Sessions, FutureSessions, OneThread, StatusKnown,
        Released, Closing
<1>24. ASSUME NEW t \in Sessions, HandleOpen(t) PROVE Built'
  BY <1>0, <1>24
    DEF HandleOpen, Goto, Tell, TypeOK, ChipType, CountType, ThreadType,
        HistoryType, Sessions, FutureSessions, OneThread, StatusKnown,
        Released, Closing
<1>25. ASSUME NEW t \in Sessions, HandleClose(t) PROVE Built'
  BY <1>0, <1>25
    DEF HandleClose, Goto, Tell, TypeOK, ChipType, CountType, ThreadType,
        HistoryType, Sessions, FutureSessions, OneThread, StatusKnown,
        Released, Closing
<1>26. ASSUME NEW t \in Sessions, HandleRead(t) PROVE Built'
  BY <1>0, <1>26, ZenonT(40)
    DEF HandleRead, Goto, Tell, Crash, TypeOK, ChipType, CountType,
        ThreadType, HistoryType, Sessions, FutureSessions, OneThread,
        StatusKnown, Released, Closing
<1>27. ASSUME NEW t \in Sessions, Rearm(t) PROVE Built'
  BY <1>0, <1>27
    DEF Rearm, Goto, TypeOK, ChipType, CountType, ThreadType, HistoryType,
        Sessions, FutureSessions, OneThread, StatusKnown, Released, Closing
<1>28. ASSUME NEW t \in Sessions, HandleTimer(t) PROVE Built'
  BY <1>0, <1>28, ZenonT(40)
    DEF HandleTimer, Goto, Crash, TypeOK, ChipType, CountType, ThreadType,
        HistoryType, Sessions, FutureSessions, OneThread, StatusKnown,
        Released, Closing
<1>29. CASE FirstRead
  BY <1>0, <1>29
    DEF FirstRead, TypeOK, ChipType, CountType, ThreadType, HistoryType,
        Sessions, FutureSessions, OneThread, StatusKnown, Released, Closing
<1>30. CASE ReaderPosts
  BY <1>0, <1>30
    DEF ReaderPosts, TypeOK, ChipType, CountType, ThreadType, HistoryType,
        Sessions, FutureSessions, OneThread, StatusKnown, Released, Closing
<1>31. CASE TimerExpires
  BY <1>0, <1>31
    DEF TimerExpires, TypeOK, ChipType, CountType, ThreadType, HistoryType,
        Sessions, FutureSessions, OneThread, StatusKnown, Released, Closing
<1>32. CASE TimerExpired
  BY <1>0, <1>32
    DEF TimerExpired, Crash, TypeOK, ChipType, CountType, ThreadType,
        HistoryType, Sessions, FutureSessions, OneThread, StatusKnown,
        Released, Closing
<1>33. CASE UNCHANGED vars
  BY <1>0, <1>33 DEF vars, Released
<1>34. QED
  BY <1>1, <1>2, <1>3, <1>4, <1>5, <1>6, <1>7, <1>8, <1>9, <1>10, <1>11,
     <1>12, <1>13, <1>14, <1>15, <1>16, <1>17, <1>18, <1>19, <1>20, <1>21,
     <1>22, <1>23, <1>24, <1>25, <1>26, <1>27, <1>28, <1>29, <1>30, <1>31,
     <1>32, <1>33
    DEF Next, Api, ClientThread

(* The thread runs until it handles the close message, which is on its way.  *)
LEMMA ThreadStateStep == Prompt /\ Inv /\ [Next]_vars /\ Works' => ThreadState'
<1>. SUFFICES ASSUME Prompt, Inv, [Next]_vars, Works' PROVE ThreadState'
  OBVIOUS
<1>. USE LifecycleAssumption DEF ThreadState, Running, Ended, Handling,
   Queued, Closing, Works, chipVars, ctrlVars, queueVars, tmlVars,
   timerVars, clientVars
<1>0. /\ Works /\ TypeOK /\ SessionCount /\ FutureSessions /\ StatusKnown
      /\ OneThread /\ Built /\ ThreadState /\ MessageOrder /\ HeardSoFar
      /\ NothingLeft
  BY WorksBefore DEF Inv, TypeInv
<1>1. ASSUME NEW h \in Hosts \union {NoHost}, ChipOpen(h) PROVE ThreadState'
  BY <1>0, <1>1
    DEF ChipOpen, TypeOK, ChipType, CountType, ThreadType, HistoryType,
        Sessions, OneThread, Built, StatusKnown, Opening
<1>2. CASE LinkToDeath
  BY <1>0, <1>2
    DEF LinkToDeath, TypeOK, ChipType, CountType, ThreadType, HistoryType,
        Sessions, OneThread, Built, StatusKnown, Opening
<1>3. CASE OpenAlready
  BY <1>0, <1>3
    DEF OpenAlready, TypeOK, ChipType, CountType, ThreadType, HistoryType,
        Sessions, OneThread, Built, StatusKnown, Opening
<1>4. CASE Open
  BY <1>0, <1>4
    DEF Open, TypeOK, ChipType, CountType, ThreadType, HistoryType, Sessions,
        OneThread, Built, StatusKnown, Opening
<1>5. CASE OpenCtrl
  BY <1>0, <1>5
    DEF OpenCtrl, TypeOK, ChipType, CountType, ThreadType, HistoryType,
        Sessions, OneThread, Built, StatusKnown, Opening
<1>6. CASE OpenTml
  BY <1>0, <1>6
    DEF OpenTml, TypeOK, ChipType, CountType, ThreadType, HistoryType,
        Sessions, OneThread, Built, StatusKnown, Opening
<1>7. CASE OpenThread
  <2>1. session \in Sessions /\ client \in [Sessions -> {"none", "start", "loop",
          "msgrcv", "handle", "rearm", "exit", "crashed"}]
    BY <1>0, <1>7 DEF OpenThread, SessionCount, Opening, TypeOK, ThreadType
  <2>2. cback /\ ~thread_running /\ api' \in {"open_complete", "open_failed"}
        /\ UNCHANGED <<cback, thread_running, session>>
    BY <1>0, <1>7 DEF OpenThread, Built, Opening
  <2>3. api' = "open_complete" => client'[session] = "start"
    BY <1>7, <2>1 DEF OpenThread
  <2>4. QED
    BY <2>2, <2>3
<1>8. CASE OpenComplete
  BY <1>0, <1>8
    DEF OpenComplete, TypeOK, ChipType, CountType, ThreadType, HistoryType,
        Sessions, OneThread, Built, StatusKnown, Opening
<1>9. CASE OpenFailed
  BY <1>0, <1>9
    DEF OpenFailed, Tell, TypeOK, ChipType, CountType, ThreadType,
        HistoryType, Sessions, OneThread, Built, StatusKnown, Opening
<1>10. CASE ChipClose
  BY <1>0, <1>10
    DEF ChipClose, BeginClose, TypeOK, ChipType, CountType, ThreadType,
        HistoryType, Sessions, OneThread, Built, StatusKnown, Opening
<1>11. ASSUME NEW h \in Hosts, OnServiceDied(h) PROVE ThreadState'
  BY <1>0, <1>11
    DEF OnServiceDied, BeginClose, TypeOK, ChipType, CountType, ThreadType,
        HistoryType, Sessions, OneThread, Built, StatusKnown, Opening
<1>12. CASE CloseComplete
  BY <1>0, <1>12
    DEF CloseComplete, TypeOK, ChipType, CountType, ThreadType, HistoryType,
        Sessions, OneThread, Built, StatusKnown, Opening
<1>13. CASE CloseAborts
  BY <1>0, <1>13
    DEF CloseAborts, TypeOK, ChipType, CountType, ThreadType, HistoryType,
        Sessions, OneThread, Built, StatusKnown, Opening
<1>14. CASE CloseTml
  BY <1>0, <1>14
    DEF CloseTml, TypeOK, ChipType, CountType, ThreadType, HistoryType,
        Sessions, OneThread, Built, StatusKnown, Opening
<1>15. CASE MsgRelease
  BY <1>0, <1>15
    DEF MsgRelease, TypeOK, ChipType, CountType, ThreadType, HistoryType,
        Sessions, OneThread, Built, StatusKnown, Opening
<1>16. CASE MsgFree
  BY <1>0, <1>16
    DEF MsgFree, TypeOK, ChipType, CountType, ThreadType, HistoryType,
        Sessions, OneThread, Built, StatusKnown, Opening
<1>17. CASE CloseWaitEnds
  BY <1>0, <1>17
    DEF CloseWaitEnds, TypeOK, ChipType, CountType, ThreadType, HistoryType,
        Sessions, OneThread, Built, StatusKnown, Opening
<1>18. CASE CleanupMonitor
  BY <1>0, <1>18
    DEF CleanupMonitor, TypeOK, ChipType, CountType, ThreadType, HistoryType,
        Sessions, OneThread, Built, StatusKnown, Opening
<1>19. CASE CloseChip
  BY <1>0, <1>19
    DEF CloseChip, TypeOK, ChipType, CountType, ThreadType, HistoryType,
        Sessions, OneThread, Built, StatusKnown, Opening
<1>20. ASSUME NEW h \in Hosts, HostDies(h) PROVE ThreadState'
  BY <1>0, <1>20
    DEF HostDies, TypeOK, ChipType, CountType, ThreadType, HistoryType,
        Sessions, OneThread, Built, StatusKnown, Opening
<1>21. ASSUME NEW t \in Sessions, ThreadStarts(t) PROVE ThreadState'
  BY <1>0, <1>21
    DEF ThreadStarts, Goto, TypeOK, ChipType, CountType, ThreadType,
        HistoryType, Sessions, OneThread, Built, StatusKnown, Opening
<1>22. ASSUME NEW t \in Sessions, Loop(t) PROVE ThreadState'
  BY <1>0, <1>22
    DEF Loop, Goto, TypeOK, ChipType, CountType, ThreadType, HistoryType,
        Sessions, OneThread, Built, StatusKnown, Opening
<1>23. ASSUME NEW t \in Sessions, MsgRcv(t) PROVE ThreadState'
  <2>1. /\ t = session /\ Running /\ thread_running /\ queue # <<>>
        /\ queue \in Seq(Messages) /\ queue' = Tail(queue)
        /\ msg' = [msg EXCEPT ![t] = Head(queue)]
        /\ client' = [client EXCEPT ![t] = "handle"] /\ session' = session
    BY <1>0, <1>23, Receiving DEF MsgRcv
  <2>2. client'[session] = "handle" /\ msg'[session] = queue[1]
    BY <1>0, <2>1, Fetching DEF TypeOK, ThreadType
  <2>3. ASSUME Queued("close") PROVE Handling("close")' \/ Queued("close")'
    <3>1. PICK k \in DOMAIN queue : queue[k] = "close"
      BY <2>3
    <3>2. CASE k = 1
      BY <2>1, <2>2, <3>1, <3>2
    <3>3. CASE k # 1
      <4>1. k - 1 \in DOMAIN queue' /\ queue'[k - 1] = queue[(k - 1) + 1]
        BY <2>1, <3>3, Fetching
      <4>2. (k - 1) + 1 = k
        BY <2>1
      <4>3. QED
        BY <3>1, <4>1, <4>2
    <3>4. QED
      BY <3>2, <3>3
  <2>4. /\ UNCHANGED <<api, halStatus, session, thread_running, cback>>
        /\ client[session] = "msgrcv"
    BY <1>23, <2>1, Receiving, <1>0 DEF MsgRcv
  <2>5. QED
    BY <1>0, <2>1, <2>2, <2>3, <2>4
<1>24. ASSUME NEW t \in Sessions, HandleOpen(t) PROVE ThreadState'
  BY <1>0, <1>24
    DEF HandleOpen, Goto, Tell, TypeOK, ChipType, CountType, ThreadType,
        HistoryType, Sessions, OneThread, Built, StatusKnown, Opening
<1>25. ASSUME NEW t \in Sessions, HandleClose(t) PROVE ThreadState'
  <2>1. t = session /\ Running /\ thread_running
    BY <1>0, <1>25, Acting DEF HandleClose
  <2>2. cback /\ Closing
    BY <1>0, <1>25, <2>1 DEF HandleClose, MessageOrder
  <2>3. client'[session] = "loop" /\ thread_running' = FALSE /\ cback' = FALSE
        /\ UNCHANGED <<api, halStatus, session>>
    BY <1>0, <1>25, <2>1, <2>2 DEF HandleClose, Goto, TypeOK, ThreadType
  <2>4. QED
    BY <2>1, <2>2, <2>3
<1>26. ASSUME NEW t \in Sessions, HandleRead(t) PROVE ThreadState'
  <2>1. t = session /\ Running /\ thread_running
    BY <1>0, <1>26, Acting DEF HandleRead
  <2>2. client'[session] = "rearm" /\ msg[session] # "close"
        /\ UNCHANGED <<api, halStatus, session, thread_running, cback, queue>>
    BY <1>0, <1>26, <2>1 DEF HandleRead, Goto, Crash, TypeOK, ThreadType
  <2>3. client[session] = "handle"
    BY <1>26, <2>1 DEF HandleRead
  <2>4. QED
    BY <1>0, <2>1, <2>2, <2>3
<1>27. ASSUME NEW t \in Sessions, Rearm(t) PROVE ThreadState'
  BY <1>0, <1>27
    DEF Rearm, Goto, TypeOK, ChipType, CountType, ThreadType, HistoryType,
        Sessions, OneThread, Built, StatusKnown, Opening
<1>28. ASSUME NEW t \in Sessions, HandleTimer(t) PROVE ThreadState'
  <2>1. t = session /\ Running /\ thread_running
    BY <1>0, <1>28, Acting DEF HandleTimer
  <2>2. client'[session] = "loop" /\ msg[session] # "close"
        /\ UNCHANGED <<api, halStatus, session, thread_running, cback, queue>>
    BY <1>0, <1>28, <2>1 DEF HandleTimer, Goto, Crash, TypeOK, ThreadType
  <2>3. client[session] = "handle"
    BY <1>28, <2>1 DEF HandleTimer
  <2>4. QED
    BY <1>0, <2>1, <2>2, <2>3
<1>29. CASE FirstRead
  BY <1>0, <1>29
    DEF FirstRead, TypeOK, ChipType, CountType, ThreadType, HistoryType,
        Sessions, OneThread, Built, StatusKnown, Opening
<1>30. CASE ReaderPosts
  <2>1. Queued("close") => Queued("close")'
    BY <1>0, <1>30, Posting DEF ReaderPosts, TypeOK, ThreadType, Messages
  <2>2. QED
    BY <1>0, <1>30, <2>1 DEF ReaderPosts
<1>31. CASE TimerExpires
  BY <1>0, <1>31
    DEF TimerExpires, TypeOK, ChipType, CountType, ThreadType, HistoryType,
        Sessions, OneThread, Built, StatusKnown, Opening
<1>32. CASE TimerExpired
  <2>1. Running /\ nClientId = session /\ session # 0
    BY <1>0, <1>32 DEF TimerExpired, Built, Sessions
  <2>2. /\ queue' = Append(queue, "timer")
        /\ UNCHANGED <<api, halStatus, session, thread_running, cback, client, msg>>
    BY <1>0, <1>32, <2>1 DEF TimerExpired, Crash
  <2>3. queue \in Seq(Messages) /\ "timer" \in Messages
    BY <1>0 DEF TypeOK, ThreadType, Messages
  <2>4. Queued("close") => Queued("close")'
    BY <2>2, <2>3, Posting
  <2>5. QED
    BY <1>0, <2>2, <2>4
<1>33. CASE UNCHANGED vars
  BY <1>0, <1>33 DEF vars
<1>34. QED
  BY <1>1, <1>2, <1>3, <1>4, <1>5, <1>6, <1>7, <1>8, <1>9, <1>10, <1>11,
     <1>12, <1>13, <1>14, <1>15, <1>16, <1>17, <1>18, <1>19, <1>20, <1>21,
     <1>22, <1>23, <1>24, <1>25, <1>26, <1>27, <1>28, <1>29, <1>30, <1>31,
     <1>32, <1>33
    DEF Next, Api, ClientThread

(* open_complete posts to an empty queue, and close posts once.              *)
LEMMA MessageOrderStep == Prompt /\ Inv /\ [Next]_vars /\ Works' => MessageOrder'
<1>. SUFFICES ASSUME Prompt, Inv, [Next]_vars, Works' PROVE MessageOrder'
  OBVIOUS
<1>. USE LifecycleAssumption DEF MessageOrder, Running, Ended, Handling,
   Queued, Closing, Fresh, Works, chipVars, ctrlVars, queueVars, tmlVars,
   timerVars, clientVars
<1>0. /\ Works /\ TypeOK /\ SessionCount /\ FutureSessions /\ StatusKnown
      /\ OneThread /\ Built /\ ThreadState /\ MessageOrder /\ HeardSoFar
      /\ NothingLeft
  BY WorksBefore DEF Inv, TypeInv
<1>1. ASSUME NEW h \in Hosts \union {NoHost}, ChipOpen(h) PROVE MessageOrder'
  BY <1>0, <1>1
    DEF ChipOpen, TypeOK, ChipType, CountType, ThreadType, HistoryType,
        Sessions, OneThread, Built, StatusKnown, Opening, ThreadState
<1>2. CASE LinkToDeath
  BY <1>0, <1>2
    DEF LinkToDeath, TypeOK, ChipType, CountType, ThreadType, HistoryType,
        Sessions, OneThread, Built, StatusKnown, Opening, ThreadState
<1>3. CASE OpenAlready
  BY <1>0, <1>3
    DEF OpenAlready, TypeOK, ChipType, CountType, ThreadType, HistoryType,
        Sessions, OneThread, Built, StatusKnown, Opening, ThreadState
<1>4. CASE Open
  BY <1>0, <1>4
    DEF Open, TypeOK, ChipType, CountType, ThreadType, HistoryType, Sessions,
        OneThread, Built, StatusKnown, Opening, ThreadState
<1>5. CASE OpenCtrl
  BY <1>0, <1>5
    DEF OpenCtrl, TypeOK, ChipType, CountType, ThreadType, HistoryType,
        Sessions, OneThread, Built, StatusKnown, Opening, ThreadState
<1>6. CASE OpenTml
  BY <1>0, <1>6
    DEF OpenTml, TypeOK, ChipType, CountType, ThreadType, HistoryType,
        Sessions, OneThread, Built, StatusKnown, Opening, ThreadState
<1>7. CASE OpenThread
  <2>1. queue = <<>> /\ ~reading /\ expiring = 0 /\ session \in Sessions
        /\ client \in [Sessions -> {"none", "start", "loop", "msgrcv", "handle",
                                   "rearm", "exit", "crashed"}]
    BY <1>0, <1>7 DEF OpenThread, Built, Opening, SessionCount, TypeOK, ThreadType,
                    CountType
  <2>2. api' = "open_complete" => client'[session] = "start" /\ UNCHANGED reading
    BY <1>7, <2>1 DEF OpenThread
  <2>3. /\ api' \in {"open_complete", "open_failed"}
        /\ UNCHANGED <<queue, session, expiring>>
    BY <1>7 DEF OpenThread
  <2>4. QED
    BY <2>1, <2>2, <2>3
<1>8. CASE OpenComplete
  BY <1>0, <1>8
    DEF OpenComplete, TypeOK, ChipType, CountType, ThreadType, HistoryType,
        Sessions, OneThread, Built, StatusKnown, Opening, ThreadState
<1>9. CASE OpenFailed
  BY <1>0, <1>9
    DEF OpenFailed, Tell, TypeOK, ChipType, CountType, ThreadType,
        HistoryType, Sessions, OneThread, Built, StatusKnown, Opening,
        ThreadState
<1>10. CASE ChipClose
  BY <1>0, <1>10
    DEF ChipClose, BeginClose, TypeOK, ChipType, CountType, ThreadType,
        HistoryType, Sessions, OneThread, Built, StatusKnown, Opening,
        ThreadState
<1>11. ASSUME NEW h \in Hosts, OnServiceDied(h) PROVE MessageOrder'
  BY <1>0, <1>11
    DEF OnServiceDied, BeginClose, TypeOK, ChipType, CountType, ThreadType,
        HistoryType, Sessions, OneThread, Built, StatusKnown, Opening,
        ThreadState
<1>12. CASE CloseComplete
  <2>1. /\ queue' = Append(queue, "close") /\ api = "close_post"
        /\ api' = "close_abort" /\ Running
        /\ UNCHANGED <<client, msg, session, thread_running>>
    BY <1>12 DEF CloseComplete
  <2>2. queue \in Seq(Messages) /\ "close" \in Messages
    BY <1>0 DEF TypeOK, ThreadType, Messages
  <2>3. \A k \in DOMAIN queue' :
          \/ k \in DOMAIN queue /\ queue'[k] = queue[k]
          \/ k = Len(queue) + 1 /\ k \notin DOMAIN queue /\ queue'[k] = "close"
    BY <2>1, <2>2, Posting
  <2>4. ~Queued("close") /\ ~Handling("close") /\ ~Ended
    BY <1>0, <2>1 DEF ThreadState
  <2>5. QED
    BY <1>0, <2>1, <2>3, <2>4
<1>13. CASE CloseAborts
  BY <1>0, <1>13
    DEF CloseAborts, TypeOK, ChipType, CountType, ThreadType, HistoryType,
        Sessions, OneThread, Built, StatusKnown, Opening, ThreadState
<1>14. CASE CloseTml
  BY <1>0, <1>14
    DEF CloseTml, TypeOK, ChipType, CountType, ThreadType, HistoryType,
        Sessions, OneThread, Built, StatusKnown, Opening, ThreadState
<1>15. CASE MsgRelease
  BY <1>0, <1>15
    DEF MsgRelease, TypeOK, ChipType, CountType, ThreadType, HistoryType,
        Sessions, OneThread, Built, StatusKnown, Opening, ThreadState
<1>16. CASE MsgFree
  BY <1>0, <1>16
    DEF MsgFree, TypeOK, ChipType, CountType, ThreadType, HistoryType,
        Sessions, OneThread, Built, StatusKnown, Opening, ThreadState
<1>17. CASE CloseWaitEnds
  BY <1>0, <1>17
    DEF CloseWaitEnds, TypeOK, ChipType, CountType, ThreadType, HistoryType,
        Sessions, OneThread, Built, StatusKnown, Opening, ThreadState
<1>18. CASE CleanupMonitor
  BY <1>0, <1>18
    DEF CleanupMonitor, TypeOK, ChipType, CountType, ThreadType, HistoryType,
        Sessions, OneThread, Built, StatusKnown, Opening, ThreadState
<1>19. CASE CloseChip
  BY <1>0, <1>19
    DEF CloseChip, TypeOK, ChipType, CountType, ThreadType, HistoryType,
        Sessions, OneThread, Built, StatusKnown, Opening, ThreadState
<1>20. ASSUME NEW h \in Hosts, HostDies(h) PROVE MessageOrder'
  BY <1>0, <1>20
    DEF HostDies, TypeOK, ChipType, CountType, ThreadType, HistoryType,
        Sessions, OneThread, Built, StatusKnown, Opening, ThreadState
<1>21. ASSUME NEW t \in Sessions, ThreadStarts(t) PROVE MessageOrder'
  BY <1>0, <1>21
    DEF ThreadStarts, Goto, TypeOK, ChipType, CountType, ThreadType,
        HistoryType, Sessions, OneThread, Built, StatusKnown, Opening,
        ThreadState
<1>22. ASSUME NEW t \in Sessions, Loop(t) PROVE MessageOrder'
  <2>1. t = session /\ Running /\ client[session] = "loop"
    BY <1>0, <1>22, Acting DEF Loop
  <2>2. /\ UNCHANGED <<api, halStatus, queue, msg, session, thread_running, reading,
                   expiring>>
        /\ client'[session] = IF thread_running THEN "msgrcv" ELSE "exit"
    BY <1>0, <1>22, <2>1 DEF Loop, Goto, TypeOK, ThreadType
  <2>3. Ended' = Ended /\ (~Ended => Fresh')
    BY <2>1, <2>2
  <2>4. Ended => Closing
    BY <1>0, <2>1 DEF ThreadState
  <2>5. QED
    BY <1>0, <2>1, <2>2, <2>3, <2>4
<1>23. ASSUME NEW t \in Sessions, MsgRcv(t) PROVE MessageOrder'
  <2>1. /\ t = session /\ Running /\ thread_running /\ queue # <<>>
        /\ queue \in Seq(Messages) /\ queue' = Tail(queue)
        /\ msg' = [msg EXCEPT ![t] = Head(queue)]
        /\ client' = [client EXCEPT ![t] = "handle"]
        /\ UNCHANGED <<api, session, thread_running>> /\ client[session] = "msgrcv"
    BY <1>0, <1>23, Receiving DEF MsgRcv
  <2>2. client'[session] = "handle" /\ msg'[session] = queue[1] /\ 1 \in DOMAIN queue
    BY <1>0, <2>1, Fetching DEF TypeOK, ThreadType
  <2>3. /\ \A k \in DOMAIN queue' :
             k + 1 \in DOMAIN queue /\ k + 1 # 1 /\ queue'[k] = queue[k + 1]
        /\ \A j, k \in DOMAIN queue' : j + 1 = k + 1 => j = k
    BY <2>1, Fetching
  <2>4. ~Queued("open")'
    BY <1>0, <2>1, <2>3
  <2>5. \A j, k \in DOMAIN queue' : queue'[j] = "close" /\ queue'[k] = "close" => j = k
    BY <1>0, <2>1, <2>3
  <2>6. Queued("close")' \/ Handling("close")' => Queued("close")
    BY <2>1, <2>2, <2>3
  <2>7. ~(Queued("close")' /\ Handling("close")')
    BY <1>0, <2>1, <2>2, <2>3
  <2>8. api # "open_complete" /\ ~Ended'
    BY <1>0, <2>1, <2>2
  <2>9. Queued("close") => Closing
    BY <1>0, <2>1
  <2>10. QED
    BY <2>1, <2>4, <2>5, <2>6, <2>7, <2>8, <2>9
<1>24. ASSUME NEW t \in Sessions, HandleOpen(t) PROVE MessageOrder'
  BY <1>0, <1>24
    DEF HandleOpen, Goto, Tell, TypeOK, ChipType, CountType, ThreadType,
        HistoryType, Sessions, OneThread, Built, StatusKnown, Opening,
        ThreadState
<1>25. ASSUME NEW t \in Sessions, HandleClose(t) PROVE MessageOrder'
  BY <1>0, <1>25
    DEF HandleClose, Goto, Tell, TypeOK, ChipType, CountType, ThreadType,
        HistoryType, Sessions, OneThread, Built, StatusKnown, Opening,
        ThreadState
<1>26. ASSUME NEW t \in Sessions, HandleRead(t) PROVE MessageOrder'
  BY <1>0, <1>26
    DEF HandleRead, Goto, Tell, Crash, TypeOK, ChipType, CountType,
        ThreadType, HistoryType, Sessions, OneThread, Built, StatusKnown,
        Opening, ThreadState
<1>27. ASSUME NEW t \in Sessions, Rearm(t) PROVE MessageOrder'
  BY <1>0, <1>27
    DEF Rearm, Goto, TypeOK, ChipType, CountType, ThreadType, HistoryType,
        Sessions, OneThread, Built, StatusKnown, Opening, ThreadState
<1>28. ASSUME NEW t \in Sessions, HandleTimer(t) PROVE MessageOrder'
  BY <1>0, <1>28
    DEF HandleTimer, Goto, Crash, TypeOK, ChipType, CountType, ThreadType,
        HistoryType, Sessions, OneThread, Built, StatusKnown, Opening,
        ThreadState
<1>29. CASE FirstRead
  BY <1>0, <1>29
    DEF FirstRead, TypeOK, ChipType, CountType, ThreadType, HistoryType,
        Sessions, OneThread, Built, StatusKnown, Opening, ThreadState
<1>30. CASE ReaderPosts
  BY <1>0, <1>30, SMTT(30)
    DEF ReaderPosts, TypeOK, ChipType, CountType, ThreadType, HistoryType,
        Sessions, OneThread, Built, StatusKnown, Opening, ThreadState
<1>31. CASE TimerExpires
  BY <1>0, <1>31
    DEF TimerExpires, TypeOK, ChipType, CountType, ThreadType, HistoryType,
        Sessions, OneThread, Built, StatusKnown, Opening, ThreadState
<1>32. CASE TimerExpired
  <2>1. Running /\ nClientId = session /\ session # 0 /\ api # "open_complete"
    BY <1>0, <1>32 DEF TimerExpired, Built, Sessions
  <2>2. /\ queue' = Append(queue, "timer")
        /\ UNCHANGED <<api, session, thread_running, reading, client, msg>>
    BY <1>0, <1>32, <2>1 DEF TimerExpired, Crash
  <2>3. queue \in Seq(Messages) /\ "timer" \in Messages
    BY <1>0 DEF TypeOK, ThreadType, Messages
  <2>4. \A k \in DOMAIN queue' :
          \/ k \in DOMAIN queue /\ queue'[k] = queue[k]
          \/ k = Len(queue) + 1 /\ k \notin DOMAIN queue /\ queue'[k] = "timer"
    BY <2>2, <2>3, Posting
  <2>5. QED
    BY <1>0, <2>1, <2>2, <2>4
<1>33. CASE UNCHANGED vars
  BY <1>0, <1>33 DEF vars
<1>34. QED
  BY <1>1, <1>2, <1>3, <1>4, <1>5, <1>6, <1>7, <1>8, <1>9, <1>10, <1>11,
     <1>12, <1>13, <1>14, <1>15, <1>16, <1>17, <1>18, <1>19, <1>20, <1>21,
     <1>22, <1>23, <1>24, <1>25, <1>26, <1>27, <1>28, <1>29, <1>30, <1>31,
     <1>32, <1>33
    DEF Next, Api, ClientThread

(* Each message is told the host when it is handled.                         *)
LEMMA HeardSoFarStep == Prompt /\ Inv /\ [Next]_vars /\ Works' => HeardSoFar'
<1>. SUFFICES ASSUME Prompt, Inv, [Next]_vars, Works' PROVE HeardSoFar'
  OBVIOUS
<1>. USE LifecycleAssumption DEF HeardSoFar, Running, Ended, Handling,
   Queued, OpenPending, Closing, Works, chipVars, ctrlVars, queueVars,
   tmlVars, timerVars, clientVars
<1>0. /\ Works /\ TypeOK /\ SessionCount /\ FutureSessions /\ StatusKnown
      /\ OneThread /\ Built /\ ThreadState /\ MessageOrder /\ HeardSoFar
      /\ NothingLeft
  BY WorksBefore DEF Inv, TypeInv
<1>1. ASSUME NEW h \in Hosts \union {NoHost}, ChipOpen(h) PROVE HeardSoFar'
  BY <1>0, <1>1
    DEF ChipOpen, TypeOK, ChipType, CountType, ThreadType, HistoryType,
        Sessions, OneThread, Built, StatusKnown, Opening, ThreadState,
        MessageOrder, Fresh
<1>2. CASE LinkToDeath
  BY <1>0, <1>2
    DEF LinkToDeath, TypeOK, ChipType, CountType, ThreadType, HistoryType,
        Sessions, OneThread, Built, StatusKnown, Opening, ThreadState,
        MessageOrder, Fresh
<1>3. CASE OpenAlready
  BY <1>0, <1>3
    DEF OpenAlready, TypeOK, ChipType, CountType, ThreadType, HistoryType,
        Sessions, OneThread, Built, StatusKnown, Opening, ThreadState,
        MessageOrder, Fresh
<1>4. CASE Open
  BY <1>0, <1>4
    DEF Open, TypeOK, ChipType, CountType, ThreadType, HistoryType, Sessions,
        OneThread, Built, StatusKnown, Opening, ThreadState, MessageOrder,
        Fresh
<1>5. CASE OpenCtrl
  BY <1>0, <1>5
    DEF OpenCtrl, TypeOK, ChipType, CountType, ThreadType, HistoryType,
        Sessions, OneThread, Built, StatusKnown, Opening, ThreadState,
        MessageOrder, Fresh
<1>6. CASE OpenTml
  BY <1>0, <1>6
    DEF OpenTml, TypeOK, ChipType, CountType, ThreadType, HistoryType,
        Sessions, OneThread, Built, StatusKnown, Opening, ThreadState,
        MessageOrder, Fresh
<1>7. CASE OpenThread
  BY <1>0, <1>7
    DEF OpenThread, TypeOK, ChipType, CountType, ThreadType, HistoryType,
        Sessions, OneThread, Built, StatusKnown, Opening, ThreadState,
        MessageOrder, Fresh
<1>8. CASE OpenComplete
  <2>1. queue = <<>> /\ queue' = Append(queue, "open") /\ Running
        /\ UNCHANGED <<heard, session>>
    BY <1>0, <1>8 DEF OpenComplete, MessageOrder
  <2>2. 1 \in DOMAIN queue' /\ queue'[1] = "open"
    BY <2>1
  <2>3. heard[session] = <<>>
    BY <1>0, <1>8, <2>1 DEF OpenComplete
  <2>4. QED
    BY <2>1, <2>2, <2>3
<1>9. CASE OpenFailed
  BY <1>0, <1>9
    DEF OpenFailed, Tell, TypeOK, ChipType, CountType, ThreadType,
        HistoryType, Sessions, OneThread, Built, StatusKnown, Opening,
        ThreadState, MessageOrder, Fresh
<1>10. CASE ChipClose
  BY <1>0, <1>10
    DEF ChipClose, BeginClose, TypeOK, ChipType, CountType, ThreadType,
        HistoryType, Sessions, OneThread, Built, StatusKnown, Opening,
        ThreadState, MessageOrder, Fresh
<1>11. ASSUME NEW h \in Hosts, OnServiceDied(h) PROVE HeardSoFar'
  BY <1>0, <1>11
    DEF OnServiceDied, BeginClose, TypeOK, ChipType, CountType, ThreadType,
        HistoryType, Sessions, OneThread, Built, StatusKnown, Opening,
        ThreadState, MessageOrder, Fresh
<1>12. CASE CloseComplete
  <2>1. /\ queue' = Append(queue, "close") /\ Running /\ api # "open_complete" /\ Running'
        /\ UNCHANGED <<client, msg, session, thread_running, heard>>
        /\ api' # "open_complete"
    BY <1>12 DEF CloseComplete
  <2>2. queue \in Seq(Messages) /\ "close" \in Messages
    BY <1>0 DEF TypeOK, ThreadType, Messages
  <2>3. Queued("open")' <=> Queued("open")
    BY <2>1, <2>2, Posting
  <2>4. OpenPending' <=> OpenPending
    BY <2>1, <2>3
  <2>5. QED
    <3>. HIDE DEF OpenPending
    <3>1. QED
      BY <1>0, <2>1, <2>4
<1>13. CASE CloseAborts
  BY <1>0, <1>13
    DEF CloseAborts, TypeOK, ChipType, CountType, ThreadType, HistoryType,
        Sessions, OneThread, Built, StatusKnown, Opening, ThreadState,
        MessageOrder, Fresh
<1>14. CASE CloseTml
  BY <1>0, <1>14
    DEF CloseTml, TypeOK, ChipType, CountType, ThreadType, HistoryType,
        Sessions, OneThread, Built, StatusKnown, Opening, ThreadState,
        MessageOrder, Fresh
<1>15. CASE MsgRelease
  BY <1>0, <1>15
    DEF MsgRelease, TypeOK, ChipType, CountType, ThreadType, HistoryType,
        Sessions, OneThread, Built, StatusKnown, Opening, ThreadState,
        MessageOrder, Fresh
<1>16. CASE MsgFree
  BY <1>0, <1>16
    DEF MsgFree, TypeOK, ChipType, CountType, ThreadType, HistoryType,
        Sessions, OneThread, Built, StatusKnown, Opening, ThreadState,
        MessageOrder, Fresh
<1>17. CASE CloseWaitEnds
  BY <1>0, <1>17
    DEF CloseWaitEnds, TypeOK, ChipType, CountType, ThreadType, HistoryType,
        Sessions, OneThread, Built, StatusKnown, Opening, ThreadState,
        MessageOrder, Fresh
<1>18. CASE CleanupMonitor
  BY <1>0, <1>18
    DEF CleanupMonitor, TypeOK, ChipType, CountType, ThreadType, HistoryType,
        Sessions, OneThread, Built, StatusKnown, Opening, ThreadState,
        MessageOrder, Fresh
<1>19. CASE CloseChip
  BY <1>0, <1>19
    DEF CloseChip, TypeOK, ChipType, CountType, ThreadType, HistoryType,
        Sessions, OneThread, Built, StatusKnown, Opening, ThreadState,
        MessageOrder, Fresh
<1>20. ASSUME NEW h \in Hosts, HostDies(h) PROVE HeardSoFar'
  BY <1>0, <1>20
    DEF HostDies, TypeOK, ChipType, CountType, ThreadType, HistoryType,
        Sessions, OneThread, Built, StatusKnown, Opening, ThreadState,
        MessageOrder, Fresh
<1>21. ASSUME NEW t \in Sessions, ThreadStarts(t) PROVE HeardSoFar'
  BY <1>0, <1>21
    DEF ThreadStarts, Goto, TypeOK, ChipType, CountType, ThreadType,
        HistoryType, Sessions, OneThread, Built, StatusKnown, Opening,
        ThreadState, MessageOrder, Fresh
<1>22. ASSUME NEW t \in Sessions, Loop(t) PROVE HeardSoFar'
  <2>1. t = session /\ Running /\ client[session] = "loop"
    BY <1>0, <1>22, Acting DEF Loop
  <2>2. /\ UNCHANGED <<api, halStatus, queue, msg, session, thread_running, heard>>
        /\ client'[session] = IF thread_running THEN "msgrcv" ELSE "exit"
    BY <1>0, <1>22, <2>1 DEF Loop, Goto, TypeOK, ThreadType
  <2>3. Ended' = Ended /\ OpenPending' = OpenPending
    BY <2>1, <2>2
  <2>4. QED
    <3>. HIDE DEF OpenPending, Ended
    <3>1. QED
      BY <1>0, <2>1, <2>2, <2>3
<1>23. ASSUME NEW t \in Sessions, MsgRcv(t) PROVE HeardSoFar'
  <2>1. /\ t = session /\ Running /\ thread_running /\ queue # <<>>
        /\ queue \in Seq(Messages) /\ queue' = Tail(queue)
        /\ msg' = [msg EXCEPT ![t] = Head(queue)]
        /\ client' = [client EXCEPT ![t] = "handle"] /\ client[session] = "msgrcv"
        /\ UNCHANGED <<api, halStatus, session, thread_running, heard>>
    BY <1>0, <1>23, Receiving DEF MsgRcv
  <2>2. client'[session] = "handle" /\ msg'[session] = queue[1] /\ 1 \in DOMAIN queue
    BY <1>0, <2>1, Fetching DEF TypeOK, ThreadType
  <2>3. \A k \in DOMAIN queue' :
          k + 1 \in DOMAIN queue /\ k + 1 # 1 /\ queue'[k] = queue[k + 1]
    BY <2>1, Fetching
  <2>4. api # "open_complete" /\ \A k \in DOMAIN queue : queue[k] = "open" => k = 1
    BY <1>0, <2>1 DEF MessageOrder
  <2>5. OpenPending' <=> OpenPending
    BY <2>1, <2>2, <2>3, <2>4
  <2>6. ~Ended /\ ~Ended'
    BY <2>1, <2>2
  <2>7. QED
    <3>. HIDE DEF OpenPending, Ended
    <3>1. QED
      BY <1>0, <2>1, <2>5, <2>6
<1>24. ASSUME NEW t \in Sessions, HandleOpen(t) PROVE HeardSoFar'
  <2>1. t = session /\ Running /\ thread_running /\ client[session] = "handle"
        /\ msg[session] = "open"
    BY <1>0, <1>24, Acting DEF HandleOpen
  <2>2. cback /\ heard \in [Sessions -> Seq(Events)]
    BY <1>0, <2>1 DEF ThreadState, TypeOK, HistoryType
  <2>3. api # "open_complete" /\ ~Queued("open")
    BY <1>0, <2>1 DEF MessageOrder, Fresh
  <2>4. /\ Tell(t, "open") /\ UNCHANGED <<api, halStatus, session, queue, msg>>
        /\ client'[session] = "loop" /\ thread_running' = TRUE
    BY <1>0, <1>24, <2>1, <2>2 DEF HandleOpen, Goto, TypeOK, ThreadType
  <2>5. ~OpenPending' /\ Ended' = FALSE
    BY <2>1, <2>3, <2>4
  <2>6. heard[session] = <<>>
    BY <1>0, <2>1
  <2>7. heard'[session] = <<"open">>
    BY <2>1, <2>2, <2>4, <2>6, Telling DEF Events
  <2>8. QED
    <3>. HIDE DEF OpenPending, Ended
    <3>1. QED
      BY <2>4, <2>5, <2>7
<1>25. ASSUME NEW t \in Sessions, HandleClose(t) PROVE HeardSoFar'
  <2>1. t = session /\ Running /\ thread_running /\ client[session] = "handle"
        /\ msg[session] = "close"
    BY <1>0, <1>25, Acting DEF HandleClose
  <2>2. cback /\ heard \in [Sessions -> Seq(Events)]
    BY <1>0, <2>1 DEF ThreadState, TypeOK, HistoryType
  <2>3. api # "open_complete" /\ ~Queued("open")
    BY <1>0, <2>1 DEF MessageOrder, Fresh
  <2>4. /\ Tell(t, "close") /\ UNCHANGED <<api, halStatus, session, queue, msg>>
        /\ client'[session] = "loop" /\ thread_running' = FALSE
    BY <1>0, <1>25, <2>1, <2>2 DEF HandleClose, Goto, TypeOK, ThreadType
  <2>5. ~OpenPending' /\ Ended' = TRUE
    BY <2>1, <2>3, <2>4
  <2>6. heard[session] \in {<<"open">>, <<"open", "data">>}
    BY <1>0, <2>1, <2>3
  <2>7. heard'[session] = Append(heard[session], "close")
    BY <2>1, <2>2, <2>4, Telling DEF Events
  <2>8. heard'[session] \in {<<"open", "close">>, <<"open", "data", "close">>}
    <3>1. /\ Append(<<"open">>, "close") = <<"open", "close">>
          /\ Append(<<"open", "data">>, "close") = <<"open", "data", "close">>
      BY Growing
    <3>2. QED
      BY <2>6, <2>7, <3>1
  <2>9. QED
    <3>. HIDE DEF OpenPending, Ended
    <3>1. QED
      BY <2>4, <2>5, <2>8
<1>26. ASSUME NEW t \in Sessions, HandleRead(t) PROVE HeardSoFar'
  <2>1. t = session /\ Running /\ thread_running /\ client[session] = "handle"
        /\ msg[session] = "read"
    BY <1>0, <1>26, Acting DEF HandleRead
  <2>2. cback /\ heard \in [Sessions -> Seq(Events)]
    BY <1>0, <2>1 DEF ThreadState, TypeOK, HistoryType
  <2>3. api # "open_complete" /\ ~Queued("open")
    BY <1>0, <2>1 DEF MessageOrder, Fresh
  <2>4. /\ Tell(t, "data") /\ UNCHANGED <<api, halStatus, session, queue, msg>>
        /\ client'[session] = "rearm" /\ thread_running' = TRUE
    BY <1>0, <1>26, <2>1, <2>2 DEF HandleRead, Goto, Crash, TypeOK, ThreadType
  <2>5. ~OpenPending' /\ Ended' = FALSE
    BY <2>1, <2>3, <2>4
  <2>6. heard[session] \in {<<"open">>, <<"open", "data">>}
    BY <1>0, <2>1, <2>3
  <2>7. heard'[session] = IF heard[session] # <<>>
                             /\ heard[session][Len(heard[session])] = "data"
                          THEN heard[session] ELSE Append(heard[session], "data")
    BY <2>1, <2>2, <2>4, Telling DEF Events
  <2>8. heard'[session] = <<"open", "data">>
    <3>1. Append(<<"open">>, "data") = <<"open", "data">>
      BY Growing
    <3>2. /\ <<"open">> # <<>> /\ <<"open">>[Len(<<"open">>)] = "open"
          /\ <<"open", "data">> # <<>>
          /\ <<"open", "data">>[Len(<<"open", "data">>)] = "data"
      OBVIOUS
    <3>3. QED
      BY <2>6, <2>7, <3>1, <3>2
  <2>9. QED
    <3>. HIDE DEF OpenPending, Ended
    <3>1. QED
      BY <2>4, <2>5, <2>8
<1>27. ASSUME NEW t \in Sessions, Rearm(t) PROVE HeardSoFar'
  BY <1>0, <1>27
    DEF Rearm, Goto, TypeOK, ChipType, CountType, ThreadType, HistoryType,
        Sessions, OneThread, Built, StatusKnown, Opening, ThreadState,
        MessageOrder, Fresh
<1>28. ASSUME NEW t \in Sessions, HandleTimer(t) PROVE HeardSoFar'
  BY <1>0, <1>28
    DEF HandleTimer, Goto, Crash, TypeOK, ChipType, CountType, ThreadType,
        HistoryType, Sessions, OneThread, Built, StatusKnown, Opening,
        ThreadState, MessageOrder, Fresh
<1>29. CASE FirstRead
  BY <1>0, <1>29
    DEF FirstRead, TypeOK, ChipType, CountType, ThreadType, HistoryType,
        Sessions, OneThread, Built, StatusKnown, Opening, ThreadState,
        MessageOrder, Fresh
<1>30. CASE ReaderPosts
  <2>1. /\ queue' = Append(queue, "read") /\ Running /\ api # "open_complete" /\ Running'
        /\ UNCHANGED <<client, msg, session, thread_running, heard>>
        /\ api' # "open_complete"
    BY <1>0, <1>30 DEF ReaderPosts, Built, MessageOrder
  <2>2. queue \in Seq(Messages) /\ "read" \in Messages
    BY <1>0 DEF TypeOK, ThreadType, Messages
  <2>3. Queued("open")' <=> Queued("open")
    BY <2>1, <2>2, Posting
  <2>4. OpenPending' <=> OpenPending
    BY <2>1, <2>3
  <2>5. QED
    <3>. HIDE DEF OpenPending
    <3>1. QED
      BY <1>0, <2>1, <2>4
<1>31. CASE TimerExpires
  BY <1>0, <1>31
    DEF TimerExpires, TypeOK, ChipType, CountType, ThreadType, HistoryType,
        Sessions, OneThread, Built, StatusKnown, Opening, ThreadState,
        MessageOrder, Fresh
<1>32. CASE TimerExpired
  <2>1. /\ queue' = Append(queue, "timer") /\ Running /\ api # "open_complete" /\ Running'
        /\ UNCHANGED <<client, msg, session, thread_running, heard>>
        /\ api' # "open_complete"
    BY <1>0, <1>32 DEF TimerExpired, Crash, Built, MessageOrder, Sessions
  <2>2. queue \in Seq(Messages) /\ "timer" \in Messages
    BY <1>0 DEF TypeOK, ThreadType, Messages
  <2>3. Queued("open")' <=> Queued("open")
    BY <2>1, <2>2, Posting
  <2>4. OpenPending' <=> OpenPending
    BY <2>1, <2>3
  <2>5. QED
    <3>. HIDE DEF OpenPending
    <3>1. QED
      BY <1>0, <2>1, <2>4
<1>33. CASE UNCHANGED vars
  BY <1>0, <1>33 DEF vars
<1>34. QED
  BY <1>1, <1>2, <1>3, <1>4, <1>5, <1>6, <1>7, <1>8, <1>9, <1>10, <1>11,
     <1>12, <1>13, <1>14, <1>15, <1>16, <1>17, <1>18, <1>19, <1>20, <1>21,
     <1>22, <1>23, <1>24, <1>25, <1>26, <1>27, <1>28, <1>29, <1>30, <1>31,
     <1>32, <1>33
    DEF Next, Api, ClientThread

(* What close releases stays released until the next open.                  *)
LEMMA NothingLeftStep == Prompt /\ Inv /\ [Next]_vars /\ Works' => NothingLeft'
<1>. SUFFICES ASSUME Prompt, Inv, [Next]_vars, Works' PROVE NothingLeft'
  OBVIOUS
<1>. USE LifecycleAssumption DEF NothingLeft, Released, Works, chipVars,
   ctrlVars, queueVars, tmlVars, timerVars, clientVars
<1>0. /\ Works /\ TypeOK /\ SessionCount /\ FutureSessions /\ StatusKnown
      /\ OneThread /\ Built /\ ThreadState /\ MessageOrder /\ HeardSoFar
      /\ NothingLeft
  BY WorksBefore DEF Inv, TypeInv
<1>1. ASSUME NEW h \in Hosts \union {NoHost}, ChipOpen(h) PROVE NothingLeft'
  BY <1>0, <1>1
    DEF ChipOpen, TypeOK, ChipType, CountType, ThreadType, HistoryType,
        Sessions, StatusKnown, Opening, Closing
<1>2. CASE LinkToDeath
  BY <1>0, <1>2
    DEF LinkToDeath, TypeOK, ChipType, CountType, ThreadType, HistoryType,
        Sessions, StatusKnown, Opening, Closing
<1>3. CASE OpenAlready
  BY <1>0, <1>3
    DEF OpenAlready, TypeOK, ChipType, CountType, ThreadType, HistoryType,
        Sessions, StatusKnown, Opening, Closing
<1>4. CASE Open
  BY <1>0, <1>4
    DEF Open, TypeOK, ChipType, CountType, ThreadType, HistoryType, Sessions,
        StatusKnown, Opening, Closing
<1>5. CASE OpenCtrl
  BY <1>0, <1>5
    DEF OpenCtrl, TypeOK, ChipType, CountType, ThreadType, HistoryType,
        Sessions, StatusKnown, Opening, Closing
<1>6. CASE OpenTml
  BY <1>0, <1>6
    DEF OpenTml, TypeOK, ChipType, CountType, ThreadType, HistoryType,
        Sessions, StatusKnown, Opening, Closing
<1>7. CASE OpenThread
  BY <1>0, <1>7
    DEF OpenThread, TypeOK, ChipType, CountType, ThreadType, HistoryType,
        Sessions, StatusKnown, Opening, Closing
<1>8. CASE OpenComplete
  BY <1>0, <1>8
    DEF OpenComplete, TypeOK, ChipType, CountType, ThreadType, HistoryType,
        Sessions, StatusKnown, Opening, Closing
<1>9. CASE OpenFailed
  BY <1>0, <1>9
    DEF OpenFailed, Tell, TypeOK, ChipType, CountType, ThreadType,
        HistoryType, Sessions, StatusKnown, Opening, Closing
<1>10. CASE ChipClose
  BY <1>0, <1>10
    DEF ChipClose, BeginClose, TypeOK, ChipType, CountType, ThreadType,
        HistoryType, Sessions, StatusKnown, Opening, Closing
<1>11. ASSUME NEW h \in Hosts, OnServiceDied(h) PROVE NothingLeft'
  BY <1>0, <1>11
    DEF OnServiceDied, BeginClose, TypeOK, ChipType, CountType, ThreadType,
        HistoryType, Sessions, StatusKnown, Opening, Closing
<1>12. CASE CloseComplete
  BY <1>0, <1>12
    DEF CloseComplete, TypeOK, ChipType, CountType, ThreadType, HistoryType,
        Sessions, StatusKnown, Opening, Closing
<1>13. CASE CloseAborts
  BY <1>0, <1>13
    DEF CloseAborts, TypeOK, ChipType, CountType, ThreadType, HistoryType,
        Sessions, StatusKnown, Opening, Closing
<1>14. CASE CloseTml
  BY <1>0, <1>14
    DEF CloseTml, TypeOK, ChipType, CountType, ThreadType, HistoryType,
        Sessions, StatusKnown, Opening, Closing
<1>15. CASE MsgRelease
  BY <1>0, <1>15
    DEF MsgRelease, TypeOK, ChipType, CountType, ThreadType, HistoryType,
        Sessions, StatusKnown, Opening, Closing
<1>16. CASE MsgFree
  BY <1>0, <1>16
    DEF MsgFree, TypeOK, ChipType, CountType, ThreadType, HistoryType,
        Sessions, StatusKnown, Opening, Closing
<1>17. CASE CloseWaitEnds
  BY <1>0, <1>17
    DEF CloseWaitEnds, TypeOK, ChipType, CountType, ThreadType, HistoryType,
        Sessions, StatusKnown, Opening, Closing
<1>18. CASE CleanupMonitor
  BY <1>0, <1>18
    DEF CleanupMonitor, TypeOK, ChipType, CountType, ThreadType, HistoryType,
        Sessions, StatusKnown, Opening, Closing
<1>19. CASE CloseChip
  BY <1>0, <1>19
    DEF CloseChip, TypeOK, ChipType, CountType, ThreadType, HistoryType,
        Sessions, StatusKnown, Opening, Closing
<1>20. ASSUME NEW h \in Hosts, HostDies(h) PROVE NothingLeft'
  BY <1>0, <1>20
    DEF HostDies, TypeOK, ChipType, CountType, ThreadType, HistoryType,
        Sessions, StatusKnown, Opening, Closing
<1>21. ASSUME NEW t \in Sessions, ThreadStarts(t) PROVE NothingLeft'
  BY <1>0, <1>21
    DEF ThreadStarts, Goto, TypeOK, ChipType, CountType, ThreadType,
        HistoryType, Sessions, StatusKnown, Opening, Closing
<1>22. ASSUME NEW t \in Sessions, Loop(t) PROVE NothingLeft'
  BY <1>0, <1>22
    DEF Loop, Goto, TypeOK, ChipType, CountType, ThreadType, HistoryType,
        Sessions, StatusKnown, Opening, Closing
<1>23. ASSUME NEW t \in Sessions, MsgRcv(t) PROVE NothingLeft'
  BY <1>0, <1>23
    DEF MsgRcv, Goto, Crash, TypeOK, ChipType, CountType, ThreadType,
        HistoryType, Sessions, StatusKnown, Opening, Closing
<1>24. ASSUME NEW t \in Sessions, HandleOpen(t) PROVE NothingLeft'
  BY <1>0, <1>24
    DEF HandleOpen, Goto, Tell, TypeOK, ChipType, CountType, ThreadType,
        HistoryType, Sessions, StatusKnown, Opening, Closing
<1>25. ASSUME NEW t \in Sessions, HandleClose(t) PROVE NothingLeft'
  BY <1>0, <1>25
    DEF HandleClose, Goto, Tell, TypeOK, ChipType, CountType, ThreadType,
        HistoryType, Sessions, StatusKnown, Opening, Closing
<1>26. ASSUME NEW t \in Sessions, HandleRead(t) PROVE NothingLeft'
  BY <1>0, <1>26
    DEF HandleRead, Goto, Tell, Crash, TypeOK, ChipType, CountType,
        ThreadType, HistoryType, Sessions, StatusKnown, Opening, Closing
<1>27. ASSUME NEW t \in Sessions, Rearm(t) PROVE NothingLeft'
  BY <1>0, <1>27
    DEF Rearm, Goto, TypeOK, ChipType, CountType, ThreadType, HistoryType,
        Sessions, StatusKnown, Opening, Closing
<1>28. ASSUME NEW t \in Sessions, HandleTimer(t) PROVE NothingLeft'
  BY <1>0, <1>28
    DEF HandleTimer, Goto, Crash, TypeOK, ChipType, CountType, ThreadType,
        HistoryType, Sessions, StatusKnown, Opening, Closing
<1>29. CASE FirstRead
  BY <1>0, <1>29
    DEF FirstRead, TypeOK, ChipType, CountType, ThreadType, HistoryType,
        Sessions, StatusKnown, Opening, Closing
<1>30. CASE ReaderPosts
  BY <1>0, <1>30
    DEF ReaderPosts, TypeOK, ChipType, CountType, ThreadType, HistoryType,
        Sessions, StatusKnown, Opening, Closing
<1>31. CASE TimerExpires
  BY <1>0, <1>31
    DEF TimerExpires, TypeOK, ChipType, CountType, ThreadType, HistoryType,
        Sessions, StatusKnown, Opening, Closing
<1>32. CASE TimerExpired
  BY <1>0, <1>32
    DEF TimerExpired, Crash, TypeOK, ChipType, CountType, ThreadType,
        HistoryType, Sessions, StatusKnown, Opening, Closing
<1>33. CASE UNCHANGED vars
  BY <1>0, <1>33 DEF vars
<1>34. QED
  BY <1>1, <1>2, <1>3, <1>4, <1>5, <1>6, <1>7, <1>8, <1>9, <1>10, <1>11,
     <1>12, <1>13, <1>14, <1>15, <1>16, <1>17, <1>18, <1>19, <1>20, <1>21,
     <1>22, <1>23, <1>24, <1>25, <1>26, <1>27, <1>28, <1>29, <1>30, <1>31,
     <1>32, <1>33
    DEF Next, Api, ClientThread

(* After a crash no thread moves.                                            *)
LEMMA HaltedStep ==
  Inv /\ [Next]_vars /\ ~Works' => \A t \in Sessions : client'[t] = "crashed"
<1>. SUFFICES ASSUME Inv, [Next]_vars, ~Works'
              PROVE  \A t \in Sessions : client'[t] = "crashed"
  OBVIOUS
<1>1. CASE Works
  <2>1. client' = [u \in Sessions |-> "crashed"]
    BY <1>1 DEF Works, Inv, Next, Api, ClientThread, vars, ChipOpen, LinkToDeath,
       OpenAlready, Open, OpenCtrl, OpenTml, OpenThread, OpenComplete,
       OpenFailed, Tell, ChipClose, BeginClose, OnServiceDied,
       CloseComplete, CloseAborts, CloseTml, MsgRelease, MsgFree,
       CloseWaitEnds, CleanupMonitor, CloseChip, HostDies, ThreadStarts,
       Goto, Loop, MsgRcv, Crash, HandleOpen, HandleClose, HandleRead,
       Rearm, HandleTimer, FirstRead, ReaderPosts, TimerExpires,
       TimerExpired, chipVars, ctrlVars, queueVars, tmlVars, timerVars,
       clientVars
  <2>2. QED
    BY <2>1
<1>2. CASE ~Works
  <2>1. /\ api = "crashed"
        /\ \A t \in Sessions : client[t] = "crashed"
    BY <1>2 DEF Inv, Works
  <2>2. client' = client
    BY <2>1 DEF Works, Inv, Next, Api, ClientThread, vars, ChipOpen, LinkToDeath,
       OpenAlready, Open, OpenCtrl, OpenTml, OpenThread, OpenComplete,
       OpenFailed, Tell, ChipClose, BeginClose, OnServiceDied,
       CloseComplete, CloseAborts, CloseTml, MsgRelease, MsgFree,
       CloseWaitEnds, CleanupMonitor, CloseChip, HostDies, ThreadStarts,
       Goto, Loop, MsgRcv, Crash, HandleOpen, HandleClose, HandleRead,
       Rearm, HandleTimer, FirstRead, ReaderPosts, TimerExpires,
       TimerExpired, chipVars, ctrlVars, queueVars, tmlVars, timerVars,
       clientVars
  <2>3. QED
    BY <2>1, <2>2
<1>3. QED
  BY <1>1, <1>2

(* A thread that would use a released object would run after the end of its  *)
(* session.                                                                *)
LEMMA NoUseStep == Inv /\ [Next]_vars => NoUseAfterRelease'
<1>. SUFFICES ASSUME Inv, [Next]_vars PROVE NoUseAfterRelease'
  OBVIOUS
<1>1. NoUseAfterRelease
  BY DEF Inv
<1>2. CASE UNCHANGED faults
  BY <1>1, <1>2 DEF NoUseAfterRelease
<1>3. ASSUME NEW t \in Sessions, MsgRcv(t) PROVE NoUseAfterRelease'
  <2>1. Works
    BY <1>3 DEF MsgRcv, Inv
  <2>2. QED
    BY <1>2, <1>3, <2>1, Receiving
<1>4. ASSUME NEW t \in Sessions, HandleRead(t) PROVE NoUseAfterRelease'
  <2>1. Works /\ client[t] = "handle"
    BY <1>4 DEF HandleRead, Inv
  <2>2. context
    BY <2>1, Acting
  <2>3. QED
    BY <1>2, <1>4, <2>2 DEF HandleRead
<1>5. ASSUME NEW t \in Sessions, HandleTimer(t) PROVE NoUseAfterRelease'
  BY <1>1, <1>5 DEF HandleTimer, Crash, NoUseAfterRelease
<1>6. CASE TimerExpired
  <2>1. Works /\ expiring > 0
    BY <1>6 DEF TimerExpired, Works
  <2>2. allocated
    BY <2>1 DEF Inv, Built
  <2>3. QED
    BY <1>2, <1>6, <2>2 DEF TimerExpired
<1>7. QED
  BY <1>2, <1>3, <1>4, <1>5, <1>6
    DEF Next, Api, ClientThread, vars, ChipOpen, LinkToDeath, OpenAlready, Open,
       OpenCtrl, OpenTml, OpenThread, OpenComplete, OpenFailed, Tell,
       ChipClose, BeginClose, OnServiceDied, CloseComplete, CloseAborts,
       CloseTml, MsgRelease, MsgFree, CloseWaitEnds, CleanupMonitor,
       CloseChip, HostDies, ThreadStarts, Goto, Loop, HandleOpen,
       HandleClose, Rearm, FirstRead, ReaderPosts, TimerExpires

(* An event is added to those of the session that runs.                      *)
LEMMA EventOrderStep == Prompt /\ Inv /\ [Next]_vars => EventOrder'
<1>. SUFFICES ASSUME Prompt, Inv, [Next]_vars PROVE EventOrder'
  OBVIOUS
<1>1. EventOrder /\ heard \in [Sessions -> Seq(Events)]
  BY DEF Inv, TypeInv, TypeOK, HistoryType
<1>2. CASE UNCHANGED heard
  BY <1>1, <1>2 DEF EventOrder
<1>3. ASSUME Works', NEW t \in Sessions, NEW e \in Events, Tell(t, e),
             client[t] = "handle", UNCHANGED <<api, halStatus, session>>
      PROVE  EventOrder'
  <2>1. Works /\ \A u \in Sessions : u # t => heard'[u] = heard[u]
    BY <1>1, <1>3, Telling DEF Works
  <2>2. t = session /\ Running'
    BY <1>3, <2>1, Acting DEF Running
  <2>3. HeardSoFar'
    BY <1>3, HeardSoFarStep
  <2>4. heard'[t] \in {<<>>, <<"open">>, <<"open", "close">>, <<"open", "data">>,
                     <<"open", "data", "close">>}
    BY <1>3, <2>2, <2>3 DEF HeardSoFar
  <2>5. QED
    BY <1>1, <2>1, <2>4 DEF EventOrder
<1>4. CASE OpenFailed
  <2>1. Works /\ Opening /\ session \in Sessions /\ Tell(session, "error")
    BY <1>4 DEF OpenFailed, Works, Opening, Inv, TypeInv, SessionCount
  <2>2. heard[session] = <<>>
    BY <2>1 DEF Inv, Built
  <2>3. \A u \in Sessions : u # session => heard'[u] = heard[u]
    BY <1>1, <2>1, Telling DEF Events
  <2>4. heard'[session] = <<"error">>
    BY <1>1, <2>1, <2>2, Telling DEF Events
  <2>5. QED
    BY <1>1, <2>3, <2>4 DEF EventOrder
<1>5. ASSUME NEW t \in Sessions, HandleOpen(t) \/ HandleClose(t) \/ HandleRead(t)
      PROVE  EventOrder'
  <2>1. client[t] = "handle"
    BY <1>5 DEF HandleOpen, HandleClose, HandleRead
  <2>2. CASE Works'
    <3>1. \/ UNCHANGED heard
          \/ \E e \in Events : Tell(t, e) /\ UNCHANGED <<api, halStatus, session>>
      BY <1>5, <2>2 DEF HandleOpen, HandleClose, HandleRead, Crash, Works, Events, ctrlVars
    <3>2. QED
      BY <1>2, <1>3, <2>1, <2>2, <3>1
  <2>3. CASE ~Works'
    <3>1. UNCHANGED heard
      BY <1>5, <2>1, <2>3, HaltedStep
        DEF HandleOpen, HandleClose, HandleRead, Goto, Works, Inv
    <3>2. QED
      BY <1>2, <3>1
  <2>4. QED
    BY <2>2, <2>3
<1>6. QED
  BY <1>2, <1>4, <1>5
    DEF Next, Api, ClientThread, vars, ChipOpen, LinkToDeath, OpenAlready, Open,
       OpenCtrl, OpenTml, OpenThread, OpenComplete, ChipClose,
       BeginClose, OnServiceDied, CloseComplete, CloseAborts, CloseTml,
       MsgRelease, MsgFree, CloseWaitEnds, CleanupMonitor, CloseChip,
       HostDies, ThreadStarts, Goto, Loop, MsgRcv, Crash, Rearm,
       HandleTimer, FirstRead, ReaderPosts, TimerExpires, TimerExpired

(* The invariant holds initially: nothing was opened.                        *)
LEMMA InitInv == Init => Inv
<1>. SUFFICES ASSUME Init PROVE Inv
  OBVIOUS
<1>. USE LifecycleAssumption DEF Init
<1>1. ChipType
  BY DEF ChipType
<1>2. CountType
  BY DEF CountType
<1>3. ThreadType /\ HistoryType
  BY DEF ThreadType, HistoryType
<1>4. SessionCount /\ FutureSessions /\ NoUseAfterRelease /\ EventOrder
  BY DEF SessionCount, Opening, FutureSessions, NoUseAfterRelease, EventOrder
<1>5. Works /\ ~Running
  BY DEF Works, Running
<1>6. StatusKnown /\ OneThread /\ Built /\ NothingLeft
  BY DEF StatusKnown, OneThread, Built, NothingLeft, Opening, Closing, Released,
     Running
<1>7. ThreadState /\ MessageOrder /\ HeardSoFar
  BY <1>5 DEF ThreadState, MessageOrder, HeardSoFar
<1>8. QED
  BY <1>1, <1>2, <1>3, <1>4, <1>5, <1>6, <1>7 DEF Inv, TypeInv, TypeOK

LEMMA TypeInvStep == TypeInv /\ [Next]_vars => TypeInv'
  BY SessionCountStep, ChipTypeStep, CountTypeStep, ThreadTypeStep,
     HistoryTypeStep
    DEF TypeInv, TypeOK

(* Type correctness, prompt or not: among others, the pool of timers is     *)
(* never exceeded, however often open fails and leaves one behind.          *)
THEOREM TypeCorrect == Spec => []TypeOK
<1>1. Init => TypeInv
  BY InitInv DEF Inv
<1>2. TypeInv => TypeOK
  BY DEF TypeInv
<1>3. QED
  BY <1>1, <1>2, TypeInvStep, PTL DEF Spec

(* When threads are prompt, the life of a session is what Inv says.          *)
THEOREM PromptInvariant == ASSUME Prompt PROVE Spec => []Inv
<1>1. Inv /\ [Next]_vars => Inv'
  <2>1. SUFFICES ASSUME Inv, [Next]_vars PROVE Inv'
    OBVIOUS
  <2>2. TypeInv' /\ FutureSessions' /\ NoUseAfterRelease' /\ EventOrder'
    BY <2>1, TypeInvStep, FutureSessionsStep, NoUseStep, EventOrderStep DEF Inv
  <2>3. ~Works' => \A t \in Sessions : client'[t] = "crashed"
    BY <2>1, HaltedStep
  <2>4. Works' => /\ StatusKnown' /\ OneThread' /\ Built' /\ ThreadState'
                 /\ MessageOrder' /\ HeardSoFar' /\ NothingLeft'
    BY <2>1, StatusKnownStep, OneThreadStep, BuiltStep, ThreadStateStep,
       MessageOrderStep, HeardSoFarStep, NothingLeftStep
  <2>5. QED
    BY <2>2, <2>3, <2>4 DEF Inv
<1>2. QED
  BY <1>1, InitInv, PTL DEF Spec

(* phNxpUciHal_kill_client_thread: no thread uses the queue or the context   *)
(* after close has released it, in any session.                            *)
THEOREM PromptNoUseAfterRelease == ASSUME Prompt PROVE Spec => []NoUseAfterRelease
<1>1. Inv => NoUseAfterRelease
  BY DEF Inv
<1>2. QED
  BY <1>1, PromptInvariant, PTL

(* phNxpUciHal_close: when it has returned, everything is released and the   *)
(* client thread has ended.                                                *)
THEOREM PromptClosed == ASSUME Prompt PROVE Spec => []ClosedReleasesAll
<1>1. Inv => ClosedReleasesAll
  <2>1. SUFFICES ASSUME Inv, api = "idle", closed
                 PROVE  /\ timers = 0 /\ ~allocated /\ ~context /\ ~monitor /\ ~cback
                        /\ halStatus = "CLOSE"
                        /\ \A t \in Sessions : client[t] \in {"none", "exit"}
    BY DEF ClosedReleasesAll
  <2>2. StatusKnown /\ OneThread /\ Built /\ NothingLeft
    BY <2>1 DEF Inv, Works
  <2>3. halStatus = "CLOSE" /\ timers = 0 /\ ~allocated /\ ~monitor
    BY <2>1, <2>2 DEF NothingLeft
  <2>4. ~Running
    BY <2>1, <2>3 DEF Running
  <2>5. QED
    BY <2>1, <2>2, <2>3, <2>4 DEF OneThread, Built, Opening, Released
<1>2. QED
  BY <1>1, PromptInvariant, PTL

(* The host hears of a session that it is open, packets, and that it is     *)
(* closed, in this order and the events once; or that it failed.            *)
THEOREM PromptEventOrder == ASSUME Prompt PROVE Spec => []EventOrder
<1>1. Inv => EventOrder
  BY DEF Inv
<1>2. QED
  BY <1>1, PromptInvariant, PTL
=============================================================================

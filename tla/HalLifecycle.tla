------------------------------ MODULE HalLifecycle ------------------------------
(***************************************************************************)
(* Opening and closing the UWB HAL: UwbChip in the one binder thread,      *)
(* phNxpUciHal_open and phNxpUciHal_close with the objects they create and *)
(* release (message queue, TML context, semaphore monitor, timers), the    *)
(* detached client threads, the TML reader and the timer expiry threads.   *)
(*                                                                         *)
(* Threads are numbered by the session (call of open) that created them.   *)
(* A thread that uses a released object is recorded in faults, and the     *)
(* process counts as crashed: the model follows it no further.             *)
(***************************************************************************)
EXTENDS Naturals, Sequences, FiniteSets

CONSTANTS
  Hosts,         \* clients of the UWB service
  NoHost,        \* a null callback
  MaxOpens,      \* calls of phNxpUciHal_open that find the HAL closed
  MaxExpiries,   \* timer expiries
  PH_UWB_MAX_TIMER,
  MayFail,       \* the steps of open that may fail
  Prompt         \* threads finish what they have to do while close sleeps

ASSUME LifecycleAssumption ==
  /\ NoHost \notin Hosts
  /\ MaxOpens \in Nat /\ MaxExpiries \in Nat /\ PH_UWB_MAX_TIMER \in Nat
  /\ MayFail \subseteq {"monitor", "tml", "thread"}
  /\ Prompt \in BOOLEAN

VARIABLES
  mClientCallback,  \* the host that opened the chip, or NoHost
  alive,            \* hosts that have not died
  linked,           \* hosts whose death will be notified
  api,              \* control state of the binder thread
  halStatus,
  cback,            \* p_uwb_stack_cback and p_uwb_stack_data_cback are set
  thread_running,
  nClientId,        \* session whose queue the control structure names, or 0
  session,          \* number of the last session
  queue,            \* messages of the queue of that session
  spare,            \* a token of its semaphore that belongs to no message
  allocated,        \* the queue of that session is not released
  context,          \* gpphTmlUwb_Context is not NULL
  reading,          \* the TML reader waits for a packet
  monitor,          \* nxpucihal_monitor is not NULL
  timers,           \* used slots of apTimerInfo
  timeoutTimerId,   \* "none", "valid" or "invalid"
  slot,             \* the deferred call of the response timer's slot is set
  expiring, expiries,  \* expiry threads under way, and expiries so far
  closeWait,        \* uwb_close_complete_wait is posted
  client, msg, msqid,  \* per client thread: control state, message, queue
  \* History.
  faults,           \* released objects that were used
  heard,            \* per session, what its threads told the host
  closed            \* the last session was ended by phNxpUciHal_close

chipVars == <<mClientCallback, alive, linked>>
ctrlVars == <<halStatus, cback, thread_running, nClientId>>
queueVars == <<queue, spare, allocated>>
tmlVars == <<context, reading>>
timerVars == <<timers, timeoutTimerId, slot, expiring, expiries>>
clientVars == <<client, msg, msqid>>
vars == <<chipVars, api, ctrlVars, session, queueVars, tmlVars, monitor,
          timerVars, closeWait, clientVars, faults, heard, closed>>

Sessions == 1 .. MaxOpens

Init ==
  /\ mClientCallback = NoHost /\ alive = Hosts /\ linked = {}
  /\ api = "idle" /\ halStatus = "CLOSE" /\ cback = FALSE
  /\ thread_running = FALSE /\ nClientId = 0 /\ session = 0
  /\ queue = <<>> /\ spare = FALSE /\ allocated = FALSE
  /\ context = FALSE /\ reading = FALSE /\ monitor = FALSE
  /\ timers = 0 /\ timeoutTimerId = "none" /\ slot = FALSE
  /\ expiring = 0 /\ expiries = 0 /\ closeWait = FALSE
  /\ client = [t \in Sessions |-> "none"]
  /\ msg = [t \in Sessions |-> "none"] /\ msqid = [t \in Sessions |-> 0]
  /\ faults = {} /\ heard = [t \in Sessions |-> <<>>]
  /\ closed = TRUE

(* An event or packet for the host; packets in a row count as one.         *)
Tell(t, e) ==
  heard' = IF heard[t] # <<>> /\ heard[t][Len(heard[t])] = e /\ e = "data"
           THEN heard ELSE [heard EXCEPT ![t] = Append(@, e)]

(***************************************************************************)
(* phNxpUciHal_open.                                                       *)
(***************************************************************************)
(* UwbChip::open sets the callback, asks to be told of the host's death    *)
(* and ignores the status of both that and of phNxpUciHal_open. A second   *)
(* link to the same host is not told apart from the first.                 *)
ChipOpen(h) ==
  /\ api = "idle"
  /\ h \in alive \union {NoHost}
  /\ halStatus = "OPEN" \/ session < MaxOpens
  /\ mClientCallback' = h
  /\ api' = IF h = NoHost THEN "idle" ELSE "link"
  /\ UNCHANGED <<alive, linked, ctrlVars, session, queueVars, tmlVars, monitor,
                 timerVars, closeWait, clientVars, faults, heard, closed>>

LinkToDeath ==
  /\ api = "link"
  /\ linked' = linked \union ({mClientCallback} \intersect alive)
  /\ api' = IF halStatus = "OPEN" THEN "already" ELSE "open"
  /\ UNCHANGED <<mClientCallback, alive, ctrlVars, session, queueVars,
                 tmlVars, monitor, timerVars, closeWait, clientVars, faults,
                 heard, closed>>

OpenAlready ==
  /\ api = "already"
  /\ api' = "idle"
  /\ UNCHANGED <<chipVars, ctrlVars, session, queueVars, tmlVars, monitor,
                 timerVars, closeWait, clientVars, faults, heard, closed>>

OpenPoolUnchecked ==
  /\ api = "open"
  /\ closed' = FALSE
  /\ timers' = timers + 1 /\ timeoutTimerId' = "valid"
  /\ \/ /\ monitor' = TRUE
        /\ api' = "open_ctrl"
     \/ /\ "monitor" \in MayFail
        /\ api' = "idle"
        /\ UNCHANGED monitor
  /\ UNCHANGED <<chipVars, ctrlVars, session, queueVars, tmlVars, slot,
                 expiring, expiries, closeWait, clientVars, faults, heard>>

(* The response timer, and the monitor.                                    *)
Open ==
  /\ api = "open"
  /\ closed' = FALSE
  /\ IF timers < PH_UWB_MAX_TIMER
     THEN timers' = timers + 1 /\ timeoutTimerId' = "valid"
     ELSE timeoutTimerId' = "invalid" /\ UNCHANGED timers
  /\ \/ /\ monitor' = TRUE
        /\ api' = "open_ctrl"
     \/ /\ "monitor" \in MayFail
        /\ api' = "idle"
        /\ UNCHANGED monitor
  /\ UNCHANGED <<chipVars, ctrlVars, session, queueVars, tmlVars, slot,
                 expiring, expiries, closeWait, clientVars, faults, heard>>

(* The control structure is cleared, and a queue allocated.                *)
OpenCtrl ==
  /\ api = "open_ctrl"
  /\ halStatus' = "OPEN" /\ cback' = TRUE /\ thread_running' = FALSE
  /\ session' = session + 1 /\ nClientId' = session + 1
  /\ queue' = <<>> /\ spare' = FALSE /\ allocated' = TRUE
  /\ closeWait' = FALSE
  /\ api' = "open_tml"
  /\ UNCHANGED <<chipVars, tmlVars, monitor, timerVars, clientVars, faults,
                 heard, closed>>

OpenTml ==
  /\ api = "open_tml"
  /\ \/ context' = TRUE /\ reading' = FALSE /\ api' = "open_thread"
     \/ /\ "tml" \in MayFail
        /\ api' = "open_failed" /\ UNCHANGED tmlVars
  /\ UNCHANGED <<chipVars, ctrlVars, session, queueVars, monitor, timerVars,
                 closeWait, clientVars, faults, heard, closed>>

(* When the client thread cannot be created, the TML layer is shut down.   *)
OpenThread ==
  /\ api = "open_thread"
  /\ \/ /\ client' = [client EXCEPT ![session] = "start"]
        /\ api' = "open_complete"
        /\ UNCHANGED tmlVars
     \/ /\ "thread" \in MayFail
        /\ context' = FALSE /\ reading' = FALSE
        /\ api' = "open_failed"
        /\ UNCHANGED client
  /\ UNCHANGED <<chipVars, ctrlVars, session, queueVars, monitor, timerVars,
                 closeWait, msg, msqid, faults, heard, closed>>

OpenComplete ==
  /\ api = "open_complete"
  /\ queue' = Append(queue, "open")
  /\ api' = "idle"
  /\ UNCHANGED <<chipVars, ctrlVars, session, spare, allocated, tmlVars,
                 monitor, timerVars, closeWait, clientVars, faults, heard,
                 closed>>

(* clean_and_return: the timer and the queue stay.                         *)
OpenFailed ==
  /\ api = "open_failed"
  /\ Tell(session, "error")
  /\ cback' = FALSE /\ halStatus' = "CLOSE" /\ monitor' = FALSE
  /\ api' = "idle"
  /\ UNCHANGED <<chipVars, thread_running, nClientId, session, queueVars,
                 tmlVars, timerVars, closeWait, clientVars, faults, closed>>

(***************************************************************************)
(* phNxpUciHal_close, called by the host or when it has died.              *)
(***************************************************************************)
BeginClose ==
  IF halStatus = "CLOSE"
  THEN api' = "close_chip" /\ UNCHANGED <<halStatus, closeWait>>
  ELSE halStatus' = "CLOSE" /\ closeWait' = FALSE /\ api' = "close_post"

ChipClose ==
  /\ api = "idle"
  /\ mClientCallback # NoHost
  /\ BeginClose
  /\ UNCHANGED <<chipVars, cback, thread_running, nClientId, session,
                 queueVars, tmlVars, monitor, timerVars, clientVars, faults,
                 heard, closed>>

OnServiceDiedAlive(h) ==
  /\ api = "idle"
  /\ h \in linked \ alive
  /\ linked' = linked \ {h}
  /\ IF mClientCallback \in alive THEN BeginClose
     ELSE UNCHANGED <<halStatus, closeWait, api>>
  /\ UNCHANGED <<mClientCallback, alive, cback, thread_running, nClientId,
                 session, queueVars, tmlVars, monitor, timerVars, clientVars,
                 faults, heard, closed>>

OnServiceDied(h) ==
  /\ api = "idle"
  /\ h \in linked \ alive
  /\ linked' = linked \ {h}
  /\ IF mClientCallback # NoHost /\ mClientCallback \notin alive THEN BeginClose
     ELSE UNCHANGED <<halStatus, closeWait, api>>
  /\ UNCHANGED <<mClientCallback, alive, cback, thread_running, nClientId,
                 session, queueVars, tmlVars, monitor, timerVars, clientVars,
                 faults, heard, closed>>

CloseComplete ==
  /\ api = "close_post"
  /\ queue' = Append(queue, "close")
  /\ api' = "close_abort"
  /\ UNCHANGED <<chipVars, ctrlVars, session, spare, allocated, tmlVars,
                 monitor, timerVars, closeWait, clientVars, faults, heard,
                 closed>>

(* phTmlUwb_ReadAbort does not stop a reader already in the driver; then   *)
(* phOsalUwb_Timer_Cleanup.                                                *)
CloseAbortsKeepTimers ==
  /\ api = "close_abort"
  /\ reading' \in {FALSE, reading}
  /\ api' = "close_tml"
  /\ UNCHANGED <<chipVars, ctrlVars, session, queueVars, context, monitor,
                 timerVars, closeWait, clientVars, faults, heard, closed>>

CloseAborts ==
  /\ api = "close_abort"
  /\ reading' \in {FALSE, reading}
  /\ timers' = 0 /\ slot' = FALSE
  /\ api' = "close_tml"
  /\ UNCHANGED <<chipVars, ctrlVars, session, queueVars, context, monitor,
                 timeoutTimerId, expiring, expiries, closeWait, clientVars,
                 faults, heard, closed>>

(* Have the other threads done what they had to?  Nobody takes a packet    *)
(* that the reader posts after the client thread has ended.                *)
Drained ==
  /\ expiring = 0
  /\ \A t \in Sessions : \/ client[t] \in {"none", "exit"}
                         \/ client[t] = "msgrcv" /\ queue = <<>>

CloseTml ==
  /\ api = "close_tml"
  /\ Prompt => Drained
  /\ context' = FALSE /\ reading' = FALSE
  /\ api' = "close_release"
  /\ UNCHANGED <<chipVars, ctrlVars, session, queueVars, monitor, timerVars,
                 closeWait, clientVars, faults, heard, closed>>

MsgRelease ==
  /\ api = "close_release"
  /\ spare' = TRUE
  /\ api' = "close_free"
  /\ UNCHANGED <<chipVars, ctrlVars, session, queue, allocated, tmlVars,
                 monitor, timerVars, closeWait, clientVars, faults, heard,
                 closed>>

MsgFree ==
  /\ api = "close_free"
  /\ Prompt => Drained
  /\ allocated' = FALSE /\ queue' = <<>> /\ spare' = FALSE
  /\ api' = "close_wait"
  /\ UNCHANGED <<chipVars, ctrlVars, session, tmlVars, monitor, timerVars,
                 closeWait, clientVars, faults, heard, closed>>

(* The wait of a second ends; the control structure is cleared, and the    *)
(* semaphore with it.                                                      *)
CloseWaitEnds ==
  /\ api = "close_wait"
  /\ closeWait \/ (Prompt => Drained)
  /\ halStatus' = "CLOSE" /\ cback' = FALSE /\ thread_running' = FALSE
  /\ nClientId' = 0 /\ closeWait' = FALSE
  /\ api' = "close_monitor"
  /\ UNCHANGED <<chipVars, session, queueVars, tmlVars, monitor, timerVars,
                 clientVars, faults, heard, closed>>

CleanupMonitor ==
  /\ api = "close_monitor"
  /\ monitor' = FALSE
  /\ closed' = TRUE
  /\ api' = "close_chip"
  /\ UNCHANGED <<chipVars, ctrlVars, session, queueVars, tmlVars, timerVars,
                 closeWait, clientVars, faults, heard>>

(* UwbChip::close forgets the host and the link to its death.              *)
CloseChip ==
  /\ api = "close_chip"
  /\ linked' = linked \ {mClientCallback}
  /\ mClientCallback' = NoHost
  /\ api' = "idle"
  /\ UNCHANGED <<alive, ctrlVars, session, queueVars, tmlVars, monitor,
                 timerVars, closeWait, clientVars, faults, heard, closed>>

HostDies(h) ==
  /\ h \in alive
  /\ alive' = alive \ {h}
  /\ UNCHANGED <<mClientCallback, linked, api, ctrlVars, session, queueVars,
                 tmlVars, monitor, timerVars, closeWait, clientVars, faults,
                 heard, closed>>

(***************************************************************************)
(* A client thread.                                                        *)
(***************************************************************************)
Goto(t, pc) == client' = [client EXCEPT ![t] = pc]

ThreadStartsStopped(t) ==
  /\ client[t] = "start"
  /\ Goto(t, "loop")
  /\ UNCHANGED <<chipVars, api, ctrlVars, session, queueVars, tmlVars, monitor,
                 timerVars, closeWait, msg, msqid, faults, heard, closed>>

ThreadStarts(t) ==
  /\ client[t] = "start"
  /\ thread_running' = TRUE
  /\ Goto(t, "loop")
  /\ UNCHANGED <<chipVars, api, halStatus, cback, nClientId, session,
                 queueVars, tmlVars, monitor, timerVars, closeWait, msg, msqid,
                 faults, heard, closed>>

(* With no queue to read from, phDal4Uwb_msgrcv fails at once.             *)
Loop(t) ==
  /\ client[t] = "loop"
  /\ IF thread_running
     THEN /\ nClientId # 0
          /\ msqid' = [msqid EXCEPT ![t] = nClientId]
          /\ Goto(t, "msgrcv")
     ELSE Goto(t, "exit") /\ UNCHANGED msqid
  /\ UNCHANGED <<chipVars, api, ctrlVars, session, queueVars, tmlVars, monitor,
                 timerVars, closeWait, msg, faults, heard, closed>>

Crash(object) ==
  /\ faults' = faults \union {object}
  /\ api' = "crashed"
  /\ client' = [u \in Sessions |-> "crashed"]

(* A token without a message leaves the previous message in msg.           *)
MsgRcv(t) ==
  /\ client[t] = "msgrcv"
  /\ IF allocated /\ msqid[t] = session
     THEN /\ queue # <<>> \/ spare
          /\ IF queue # <<>>
             THEN /\ msg' = [msg EXCEPT ![t] = Head(queue)]
                  /\ queue' = Tail(queue)
                  /\ UNCHANGED spare
             ELSE spare' = FALSE /\ UNCHANGED <<msg, queue>>
          /\ Goto(t, IF thread_running THEN "handle" ELSE "exit")
          /\ UNCHANGED <<api, faults>>
     ELSE Crash("queue") /\ UNCHANGED <<msg, queue, spare>>
  /\ UNCHANGED <<chipVars, ctrlVars, session, allocated, tmlVars, monitor,
                 timerVars, closeWait, msqid, heard, closed>>

HandleOpen(t) ==
  /\ client[t] = "handle" /\ msg[t] = "open"
  /\ IF cback THEN Tell(t, "open") ELSE UNCHANGED heard
  /\ Goto(t, "loop")
  /\ UNCHANGED <<chipVars, api, ctrlVars, session, queueVars, tmlVars, monitor,
                 timerVars, closeWait, msg, msqid, faults, closed>>

(* phNxpUciHal_kill_client_thread and the semaphore of close.              *)
HandleCloseUnkilled(t) ==
  /\ client[t] = "handle" /\ msg[t] = "close"
  /\ IF cback THEN Tell(t, "close") /\ closeWait' = TRUE
     ELSE UNCHANGED <<heard, closeWait>>
  /\ Goto(t, "loop")
  /\ UNCHANGED <<chipVars, api, ctrlVars, session, queueVars, tmlVars, monitor,
                 timerVars, msg, msqid, faults, closed>>

HandleClose(t) ==
  /\ client[t] = "handle" /\ msg[t] = "close"
  /\ IF cback
     THEN /\ Tell(t, "close")
          /\ cback' = FALSE /\ thread_running' = FALSE /\ closeWait' = TRUE
     ELSE UNCHANGED <<heard, cback, thread_running, closeWait>>
  /\ Goto(t, "loop")
  /\ UNCHANGED <<chipVars, api, halStatus, nClientId, session, queueVars,
                 tmlVars, monitor, timerVars, msg, msqid, faults, closed>>

(* phTmlUwb_ReadDeferredCb uses the context without a test; read_complete  *)
(* gives the packet to the host and requests the next one.                 *)
HandleRead(t) ==
  /\ client[t] = "handle" /\ msg[t] = "read"
  /\ IF context
     THEN /\ IF cback THEN Tell(t, "data") ELSE UNCHANGED heard
          /\ Goto(t, "rearm")
          /\ UNCHANGED <<api, faults>>
     ELSE Crash("context") /\ UNCHANGED heard
  /\ UNCHANGED <<chipVars, ctrlVars, session, queueVars, tmlVars, monitor,
                 timerVars, closeWait, msg, msqid, closed>>

Rearm(t) ==
  /\ client[t] = "rearm"
  /\ reading' = (reading \/ (halStatus # "CLOSE" /\ context))
  /\ Goto(t, "loop")
  /\ UNCHANGED <<chipVars, api, ctrlVars, session, queueVars, context, monitor,
                 timerVars, closeWait, msg, msqid, faults, heard, closed>>

(* The message of a timer points into apTimerInfo.                         *)
HandleTimer(t) ==
  /\ client[t] = "handle" /\ msg[t] = "timer"
  /\ IF slot THEN Goto(t, "loop") /\ UNCHANGED <<api, faults>>
     ELSE Crash("timer")
  /\ UNCHANGED <<chipVars, ctrlVars, session, queueVars, tmlVars, monitor,
                 timerVars, closeWait, msg, msqid, heard, closed>>

(***************************************************************************)
(* The TML reader, started by the core initialisation, and the timer.      *)
(***************************************************************************)
FirstRead ==
  /\ api = "idle" /\ halStatus = "OPEN"
  /\ ~reading /\ \A k \in DOMAIN queue : queue[k] # "read"
  /\ \A t \in Sessions : client[t] = "handle" => msg[t] # "read"
  /\ reading' = TRUE
  /\ UNCHANGED <<chipVars, api, ctrlVars, session, queueVars, context, monitor,
                 timerVars, closeWait, clientVars, faults, heard, closed>>

ReaderPosts ==
  /\ reading /\ api # "crashed"
  /\ \A k \in DOMAIN queue : queue[k] # "read"
  /\ reading' = FALSE
  /\ queue' = Append(queue, "read")
  /\ UNCHANGED <<chipVars, api, ctrlVars, session, spare, allocated, context,
                 monitor, timerVars, closeWait, clientVars, faults, heard,
                 closed>>

TimerExpires ==
  /\ expiries < MaxExpiries /\ api # "crashed"
  /\ timers > 0 /\ timeoutTimerId = "valid" /\ reading
  /\ expiries' = expiries + 1 /\ expiring' = expiring + 1
  /\ UNCHANGED <<chipVars, api, ctrlVars, session, queueVars, tmlVars, monitor,
                 timers, timeoutTimerId, slot, closeWait, clientVars, faults,
                 heard, closed>>

(* phOsalUwb_Timer_Expired posts to the queue of the control structure.    *)
TimerExpired ==
  /\ expiring > 0 /\ api # "crashed"
  /\ expiring' = expiring - 1
  /\ slot' = TRUE
  /\ IF nClientId # 0 /\ ~allocated THEN Crash("queue") /\ UNCHANGED queue
     ELSE /\ queue' = IF nClientId = 0 THEN queue ELSE Append(queue, "timer")
          /\ UNCHANGED <<api, client, faults>>
  /\ UNCHANGED <<chipVars, ctrlVars, session, spare, allocated, tmlVars,
                 monitor, timers, timeoutTimerId, expiries, closeWait, msg,
                 msqid, heard, closed>>

Api ==
  \/ LinkToDeath \/ OpenAlready \/ Open \/ OpenCtrl \/ OpenTml \/ OpenThread \/ OpenComplete
  \/ OpenFailed
  \/ CloseComplete \/ CloseAborts \/ CloseTml \/ MsgRelease \/ MsgFree
  \/ CloseWaitEnds \/ CleanupMonitor \/ CloseChip

ClientThread(t) ==
  \/ ThreadStarts(t) \/ Loop(t) \/ MsgRcv(t)
  \/ HandleOpen(t) \/ HandleClose(t) \/ HandleRead(t) \/ Rearm(t)
  \/ HandleTimer(t)

Next ==
  \/ \E h \in Hosts \union {NoHost} : ChipOpen(h)
  \/ ChipClose
  \/ \E h \in Hosts : OnServiceDied(h) \/ HostDies(h)
  \/ Api
  \/ \E t \in Sessions : ClientThread(t)
  \/ FirstRead \/ ReaderPosts \/ TimerExpires \/ TimerExpired

(***************************************************************************)
(* Fairness: threads that can run do run, the waits of close end, and the  *)
(* kernel reports deaths and starts expiry threads.                        *)
(***************************************************************************)
Fairness ==
  /\ WF_vars(Api)
  /\ \A t \in Sessions : WF_vars(ClientThread(t))
  /\ \A h \in Hosts : SF_vars(OnServiceDied(h))
  /\ WF_vars(TimerExpired)

Spec == Init /\ [][Next]_vars
FairSpec == Spec /\ Fairness
-----------------------------------------------------------------------------
Messages == {"open", "close", "read", "timer"}
Events == {"open", "close", "data", "error"}

ChipType ==
  /\ mClientCallback \in Hosts \union {NoHost}
  /\ alive \subseteq Hosts /\ linked \subseteq Hosts
  /\ api \in {"idle", "link", "already", "open", "open_ctrl", "open_tml",
             "open_thread", "open_complete", "open_failed", "close_post",
             "close_abort", "close_tml", "close_release", "close_free",
             "close_wait", "close_monitor", "close_chip", "crashed"}
  /\ halStatus \in {"OPEN", "CLOSE"}
  /\ {cback, thread_running, spare, allocated, context, reading, monitor, slot,
      closeWait, closed} \subseteq BOOLEAN

CountType ==
  /\ session \in 0 .. MaxOpens /\ nClientId \in {0, session}
  /\ timers \in 0 .. PH_UWB_MAX_TIMER
  /\ timeoutTimerId \in {"none", "valid", "invalid"}
  /\ expiring \in 0 .. expiries /\ expiries \in 0 .. MaxExpiries

ThreadType ==
  /\ queue \in Seq(Messages)
  /\ client \in [Sessions ->
       {"none", "start", "loop", "msgrcv", "handle", "rearm", "exit",
        "crashed"}]
  /\ msg \in [Sessions -> Messages \union {"none"}]
  /\ msqid \in [Sessions -> 0 .. session]

HistoryType ==
  /\ faults \subseteq {"queue", "context", "timer"}
  /\ heard \in [Sessions -> Seq(Events)]

(* Control states and messages are those of the code, and a timer slot is  *)
(* never taken beyond the pool.                                            *)
TypeOK == ChipType /\ CountType /\ ThreadType /\ HistoryType

(* phNxpUciHal_kill_client_thread, phNxpUciHal.cc:417: "This function      *)
(* safely kill the client thread and clean all resources": no thread uses  *)
(* the message queue or the TML context after close has released it.       *)
NoUseAfterRelease == faults \intersect {"queue", "context"} = {}

(* phNxpUciHal_close: when it has returned, the timers of this and of      *)
(* failed sessions, the queue, the context and the monitor are released,   *)
(* the client thread has ended and nothing can reach the host.             *)
ClosedReleasesAll ==
  api = "idle" /\ closed =>
    /\ timers = 0 /\ ~allocated /\ ~context /\ ~monitor /\ ~cback
    /\ halStatus = "CLOSE"
    /\ \A t \in Sessions : client[t] \in {"none", "exit"}

(* What the host hears of a session: that it is open, packets, and that it *)
(* is closed, in this order, each event once; or that it failed.           *)
EventOrder ==
  \A t \in Sessions :
    heard[t] \in {<<>>, <<"error">>, <<"open">>, <<"open", "close">>,
                 <<"open", "data">>, <<"open", "data", "close">>}

(* A client thread that was created tells the host that the HAL is open;   *)
(* the close of an open HAL returns, and not before the host was told.     *)
Announced ==
  \A t \in Sessions :
    /\ client[t] = "start" ~> heard[t] # <<>>
    /\ (api = "close_post" /\ session = t) ~>
         (api = "idle" /\ session = t /\ heard[t] # <<>>
            /\ heard[t][Len(heard[t])] = "close")

(* onServiceDied: a host whose death is notified does not keep the HAL,    *)
(* unless another host has opened it meanwhile.                            *)
LinkedDeathReleased ==
  \A h \in Hosts :
    (mClientCallback = h /\ h \in linked \ alive) ~> mClientCallback # h
=============================================================================

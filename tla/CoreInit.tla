------------------------------- MODULE CoreInit -------------------------------
(***************************************************************************)
(* phNxpUciHal_coreInitialization: the API thread downloads the firmware,  *)
(* configures and resets the chip and binds it to the secure element. It   *)
(* waits for notifications on counting semaphores that the client thread   *)
(* posts while uwb_device_initialized is not set; the one of the OTP read  *)
(* is posted whenever the context left in it says that a read waits.       *)
(*                                                                         *)
(* One call on an open HAL. A command is sent and answered, refused or     *)
(* lost; UciCommand has what is inside.                                    *)
(***************************************************************************)
EXTENDS Naturals, Sequences

CONSTANTS
  FWD_MAX_RETRY_COUNT,
  MaxConfigs,   \* configuration commands, and calibrations, that may be sent
  Mishaps,      \* what may go wrong in the chip or on the way
  MaxFaults     \* and how often

ASSUME CoreInitAssumption ==
  /\ FWD_MAX_RETRY_COUNT \in Nat /\ MaxConfigs \in Nat /\ MaxFaults \in Nat
  /\ Mishaps \subseteq {"download", "missing", "nak", "silent", "unheard",
                        "mute", "twice", "crash", "late"}

VARIABLES
  api,          \* control state of the API thread
  cmd, rsp,     \* the command it waits for, and the answer it got
  configs,      \* configuration commands sent
  cookie,       \* the context of the OTP read, on the stack of its function
  fwd_retry_count,
  tokens, live, \* per semaphore: its count, and whether it is initialised
  uwbc_device_state, uwb_binding_status, uwb_device_initialized,
  reading,      \* a read is requested from the TML layer
  queue,        \* messages for the client thread
  client,       \* the packet it handles, or Idle
  chip,         \* how far the chip has come
  bound,        \* its binding to the secure element
  reply,        \* the command it has to answer
  due, rx,      \* notifications it has still to send, packets it has sent
  \* History.
  faulted, faults, \* mishaps so far
  downloads,
  told,         \* what the host was told
  deadPost,     \* a semaphore was posted that was not initialised
  result        \* what the call returned

apiVars == <<cmd, rsp, configs, fwd_retry_count>>
semVars == <<tokens, live, cookie>>
devVars == <<uwbc_device_state, uwb_binding_status, uwb_device_initialized>>
tmlVars == <<reading, queue, client>>
chipVars == <<chip, bound, reply, due, rx>>
faultVars == <<faulted, faults>>
tellVars == <<told, deadPost>>
vars == <<api, apiVars, semVars, devVars, tmlVars, chipVars, faultVars,
          downloads, tellVars, result>>

(* A semaphore is named after the notification that posts it.              *)
InitSemaphores == {"dev_status", "binding_status", "do_bind", "get_binding_status"}
Semaphores == InitSemaphores \union {"calib_data"}

Message(type, status) == [type |-> type, status |-> status]
Idle == Message("none", "none")

Init ==
  /\ api = "start" /\ cmd = "none" /\ rsp = "none" /\ configs = 0
  /\ fwd_retry_count = 0
  /\ tokens = [s \in Semaphores |-> 0] /\ live = {}
  /\ cookie = "none"
  /\ uwbc_device_state = "INIT" /\ uwb_binding_status = "NOT_BOUND"
  /\ uwb_device_initialized = FALSE
  /\ reading = FALSE /\ queue = <<>> /\ client = Idle
  /\ chip = "off" /\ bound \in {"NOT_BOUND", "UNLOCKED", "LOCKED"}
  /\ reply = "none" /\ due = <<>> /\ rx = <<>>
  /\ faulted = {} /\ faults = 0 /\ downloads = 0
  /\ told = <<>> /\ deadPost = FALSE /\ result = "none"

Fault(mishap) ==
  /\ mishap \in Mishaps /\ faults < MaxFaults
  /\ faulted' = faulted \union {mishap} /\ faults' = faults + 1
NoFault == UNCHANGED faultVars

(***************************************************************************)
(* Firmware, and the first read.                                           *)
(***************************************************************************)
CoreInitialization ==
  /\ api = "start"
  /\ tokens' = [s \in Semaphores |-> 0] /\ live' = InitSemaphores
  /\ uwb_device_initialized' = FALSE
  /\ api' = "download"
  /\ UNCHANGED <<apiVars, cookie, uwbc_device_state, uwb_binding_status,
                 tmlVars, chipVars, faultVars, downloads, tellVars, result>>

DownloadUncounted ==
  /\ api = "download"
  /\ uwbc_device_state' = "ERROR" /\ uwb_binding_status' = "UNKNOWN"
  /\ downloads' = downloads + 1
  /\ \/ /\ NoFault
        /\ api' = "read"
        /\ chip' = "boot" /\ due' = <<Message("dev_status", "INIT")>>
     \/ Fault("missing") /\ api' = "failure" /\ UNCHANGED <<chip, due>>
     \/ Fault("download") /\ UNCHANGED <<api, chip, due>>
  /\ UNCHANGED <<apiVars, semVars, uwb_device_initialized, tmlVars, bound,
                 reply, rx, tellVars, result>>

Download ==
  /\ api = "download"
  /\ uwbc_device_state' = "ERROR" /\ uwb_binding_status' = "UNKNOWN"
  /\ downloads' = downloads + 1
  /\ \/ /\ NoFault
        /\ api' = "read"
        /\ chip' = "boot" /\ due' = <<Message("dev_status", "INIT")>>
        /\ UNCHANGED fwd_retry_count
     \/ Fault("missing") /\ api' = "failure"
        /\ UNCHANGED <<chip, due, fwd_retry_count>>
     \/ /\ Fault("download")
        /\ fwd_retry_count' = fwd_retry_count + 1
        /\ api' = IF fwd_retry_count < FWD_MAX_RETRY_COUNT THEN "download"
                  ELSE "failure"
        /\ UNCHANGED <<chip, due>>
  /\ UNCHANGED <<cmd, rsp, configs, semVars, uwb_device_initialized, tmlVars,
                 bound, reply, rx, tellVars, result>>

FirstRead ==
  /\ api = "read"
  /\ api' = IF reading THEN "failure" ELSE "wait_init"
  /\ reading' = TRUE
  /\ UNCHANGED <<apiVars, semVars, devVars, queue, client, chipVars, faultVars,
                 downloads, tellVars, result>>

(***************************************************************************)
(* The waits for notifications.                                            *)
(***************************************************************************)
Wait(sem, states, then, late) ==
  [sem |-> sem, states |-> states, then |-> then, late |-> late]
AnyState == {"INIT", "READY", "ERROR"}

Waits ==
  [wait_init |-> Wait("dev_status", {"INIT"}, "board", "failure"),
   wait_ready |-> Wait("dev_status", {"READY"}, "reset", "failure"),
   wait_reset |-> Wait("dev_status", {"READY"}, "info", "failure"),
   wait_binding |-> Wait("binding_status", AnyState, "binding", "vendor"),
   wait_bind |-> Wait("do_bind", AnyState, "bound", "vendor"),
   wait_lock |-> Wait("get_binding_status", AnyState, "vendor", "vendor"),
   wait_check |-> Wait("get_binding_status", AnyState, "wait_again", "vendor"),
   wait_again |-> Wait("get_binding_status", AnyState, "vendor", "tell"),
   wait_otp |-> Wait("calib_data", AnyState, "otp_end", "otp_end")]

InSeq(type, s) == \E k \in DOMAIN s : s[k].type = type
UnderWay(type) ==
  InSeq(type, due) \/ InSeq(type, rx) \/ InSeq(type, queue)
    \/ client.type = type

(* phNxpUciHal_sem_timed_wait, and the tests that follow it. A wait that   *)
(* ends while its notification is under way is a mishap.                   *)
TimedWaitForever ==
  /\ api \in DOMAIN Waits
  /\ LET w == Waits[api] IN
       /\ tokens[w.sem] > 0
       /\ tokens' = [tokens EXCEPT ![w.sem] = @ - 1]
       /\ api' = IF uwbc_device_state \in w.states THEN w.then ELSE "failure"
  /\ NoFault
  /\ UNCHANGED <<apiVars, live, cookie, devVars, tmlVars, chipVars, downloads,
                 tellVars, result>>

TimedWait ==
  /\ api \in DOMAIN Waits
  /\ LET w == Waits[api] IN
       IF tokens[w.sem] > 0
       THEN /\ tokens' = [tokens EXCEPT ![w.sem] = @ - 1]
            /\ api' = IF uwbc_device_state \in w.states THEN w.then
                      ELSE "failure"
            /\ NoFault
       ELSE /\ IF UnderWay(w.sem) THEN Fault("late") ELSE NoFault
            /\ api' = w.late
            /\ UNCHANGED tokens
  /\ UNCHANGED <<apiVars, live, cookie, devVars, tmlVars, chipVars, downloads,
                 tellVars, result>>

(***************************************************************************)
(* The commands, and where the thread goes on after each.                  *)
(***************************************************************************)
After(ok, failed) == [ok |-> ok, failed |-> failed]

CommandsUnwaited ==
  [board |-> After("wait_ready", "failure"), reset |-> After("info", "failure"),
   info |-> After("wait_binding", "return"),
   dpd_bind |-> After("bind", "vendor"), bind |-> After("wait_bind", "vendor"),
   lock |-> After("wait_lock", "vendor"),
   dpd_check |-> After("check", "vendor"),
   check |-> After("wait_check", "vendor"),
   config |-> After("vendor", "failure"),
   low_power |-> After("xtal", "xtal"), otp |-> After("wait_otp", "otp_end"),
   calibration |-> After("calibrate", "calibrate")]

CommandsHasty ==
  [board |-> After("wait_ready", "failure"),
   reset |-> After("wait_reset", "failure"), info |-> After("vendor", "return"),
   dpd_bind |-> After("bind", "vendor"), bind |-> After("wait_bind", "vendor"),
   lock |-> After("wait_lock", "vendor"),
   dpd_check |-> After("check", "vendor"),
   check |-> After("wait_check", "vendor"),
   config |-> After("vendor", "failure"),
   low_power |-> After("xtal", "xtal"), otp |-> After("wait_otp", "otp_end"),
   calibration |-> After("calibrate", "calibrate")]

Commands ==
  [board |-> After("wait_ready", "failure"),
   reset |-> After("wait_reset", "failure"),
   info |-> After("wait_binding", "return"),
   dpd_bind |-> After("bind", "vendor"), bind |-> After("wait_bind", "vendor"),
   lock |-> After("wait_lock", "vendor"),
   dpd_check |-> After("check", "vendor"),
   check |-> After("wait_check", "vendor"),
   config |-> After("vendor", "failure"),
   low_power |-> After("xtal", "xtal"), otp |-> After("wait_otp", "otp_end"),
   calibration |-> After("calibrate", "calibrate")]

SendCommand(c) ==
  /\ cmd' = c /\ rsp' = "none" /\ reply' = c
  /\ api' = "await"

Send ==
  /\ api \in DOMAIN Commands \ {"otp"}
  /\ SendCommand(api)
  /\ UNCHANGED <<configs, fwd_retry_count, semVars, devVars, tmlVars, chip,
                 bound, due, rx, faultVars, downloads, tellVars, result>>

(* phNxpUciHal_applyVendorConfig, then phNxpUciHal_extcal_handle_coreinit. *)
(* The low power mode may fail, and so may the calibrations.               *)
Configure ==
  /\ \/ api = "vendor" /\ SendCommand("config")
     \/ api = "calibrate" /\ SendCommand("calibration")
  /\ configs < MaxConfigs /\ configs' = configs + 1
  /\ UNCHANGED <<fwd_retry_count, semVars, devVars, tmlVars, chip, bound, due,
                 rx, faultVars, downloads, tellVars, result>>

Configured ==
  /\ api \in {"vendor", "xtal", "calibrate"}
  /\ api' \in CASE api = "vendor" -> {"low_power", "xtal"}
                [] api = "xtal" -> {"calibrate"} [] OTHER -> {"done"}
  /\ UNCHANGED <<apiVars, semVars, devVars, tmlVars, chipVars, faultVars,
                 downloads, tellVars, result>>

(* otp_read_data: the semaphore of the read gets a context that lives on   *)
(* the stack, and cleaning it up leaves the pointer to it there.           *)
ReadOtp ==
  /\ api = "xtal"
  /\ SendCommand("otp")
  /\ live' = live \union {"calib_data"}
  /\ tokens' = [tokens EXCEPT !["calib_data"] = 0]
  /\ cookie' = "pending"
  /\ UNCHANGED <<configs, fwd_retry_count, devVars, tmlVars, chip, bound, due,
                 rx, faultVars, downloads, tellVars, result>>

OtpEnd ==
  /\ api = "otp_end"
  /\ live' = live \ {"calib_data"} /\ cookie' = "dead"
  /\ api' = "calibrate"
  /\ UNCHANGED <<apiVars, tokens, devVars, tmlVars, chipVars, faultVars,
                 downloads, tellVars, result>>

Await ==
  /\ api = "await"
  /\ rsp # "none" \/ ~(reply # "none" \/ UnderWay("rsp"))
  /\ api' = IF rsp = "ok" THEN Commands[cmd].ok ELSE Commands[cmd].failed
  /\ cmd' = "none"
  /\ UNCHANGED <<rsp, configs, fwd_retry_count, semVars, devVars, tmlVars,
                 chipVars, faultVars, downloads, tellVars, result>>

(***************************************************************************)
(* Binding.  It may be switched off, and the number of bindings left may   *)
(* forbid to lock.                                                         *)
(***************************************************************************)
ParseBindingStatusNtf ==
  /\ api = "binding"
  /\ \/ api' = "vendor"
     \/ api' = CASE uwb_binding_status = "NOT_BOUND" -> "dpd_bind"
                 [] uwb_binding_status = "UNLOCKED" -> "dpd_check"
                 [] OTHER -> "vendor"
  /\ UNCHANGED <<apiVars, semVars, devVars, tmlVars, chipVars, faultVars,
                 downloads, tellVars, result>>

BoundUnchecked ==
  /\ api = "bound"
  /\ \/ api' = "vendor"
     \/ api' = "lock"
  /\ UNCHANGED <<apiVars, semVars, devVars, tmlVars, chipVars, faultVars,
                 downloads, tellVars, result>>

Bound ==
  /\ api = "bound"
  /\ \/ api' = "vendor"
     \/ uwb_binding_status = "UNLOCKED" /\ api' = "lock"
  /\ UNCHANGED <<apiVars, semVars, devVars, tmlVars, chipVars, faultVars,
                 downloads, tellVars, result>>

TellBinding ==
  /\ api = "tell"
  /\ told' = Append(told, Message("hal_binding", uwb_binding_status))
  /\ api' = "vendor"
  /\ UNCHANGED <<apiVars, semVars, devVars, tmlVars, chipVars, faultVars,
                 downloads, deadPost, result>>

(***************************************************************************)
(* The end.                                                                *)
(***************************************************************************)
Done ==
  /\ api = "done"
  /\ uwb_device_initialized' = TRUE /\ result' = "SUCCESS"
  /\ queue' = Append(queue, Message("init_cplt", "ok"))
  /\ api' = "ready"
  /\ UNCHANGED <<apiVars, semVars, uwbc_device_state, uwb_binding_status,
                 reading, client, chipVars, faultVars, downloads, tellVars>>

Ready ==
  /\ api = "ready"
  /\ told' = Append(told, Message("hal_status", "READY"))
  /\ api' = "cleanup"
  /\ UNCHANGED <<apiVars, semVars, devVars, tmlVars, chipVars, faultVars,
                 downloads, deadPost, result>>

Failure ==
  /\ api = "failure"
  /\ queue' = Append(queue, Message("error", "failed")) /\ result' = "FAILED"
  /\ api' = "cleanup"
  /\ UNCHANGED <<apiVars, semVars, devVars, reading, client, chipVars,
                 faultVars, downloads, tellVars>>

Cleanup ==
  /\ api = "cleanup"
  /\ live' = {}
  /\ api' = "idle"
  /\ UNCHANGED <<apiVars, tokens, cookie, devVars, tmlVars, chipVars, faultVars,
                 downloads, tellVars, result>>

(* When the device information is refused, the call ends at once.          *)
Return ==
  /\ api = "return"
  /\ api' = "idle" /\ result' = "FAILED"
  /\ UNCHANGED <<apiVars, semVars, devVars, tmlVars, chipVars, faultVars,
                 downloads, tellVars>>

(***************************************************************************)
(* The TML reader and the client thread.                                   *)
(***************************************************************************)
ReaderPosts ==
  /\ reading /\ rx # <<>>
  /\ queue' = Append(queue, Head(rx)) /\ rx' = Tail(rx)
  /\ reading' = FALSE
  /\ UNCHANGED <<api, apiVars, semVars, devVars, client, chip, bound, reply,
                 due, faultVars, downloads, tellVars, result>>

(* Does the init-phase part of read_complete take the packet, so that the  *)
(* host does not get it?                                                   *)
SkippedErrors(p) ==
  p.type \in {"dev_status", "binding_status", "do_bind"}
Skipped(p) ==
  \/ p.type = "dev_status" /\ p.status # "ERROR"
  \/ p.type \in {"binding_status", "do_bind"}

PostsReadyOnly(p) ==
  p.type \in Semaphores /\ (p.type = "dev_status" => p.status = "READY")
Posts(p) ==
  p.type \in Semaphores /\ (p.type = "dev_status" => p.status # "ERROR")

(* NXP_READ_CALIB_DATA_NTF: the data go where the context says.            *)
TakeCalibData(p) ==
  LET stored == cookie = "pending" /\ p.status = "ok" IN
  /\ cookie' = IF stored THEN "valid" ELSE cookie
  /\ client' = IF stored THEN p ELSE Message("forward", p.status)
  /\ deadPost' = (deadPost \/ cookie = "dead")

(* The first part of read_complete, or the announcement of a result.       *)
ClientTakes ==
  /\ client = Idle /\ queue # <<>>
  /\ LET p == Head(queue) IN
     /\ queue' = Tail(queue)
     /\ IF p.type \in {"init_cplt", "error"}
        THEN /\ told' = Append(told, p)
             /\ UNCHANGED <<client, cookie, devVars, deadPost>>
        ELSE IF p.type = "calib_data"
        THEN /\ TakeCalibData(p)
             /\ UNCHANGED <<devVars, told>>
        ELSE /\ client' = IF uwb_device_initialized /\ p.type # "rsp"
                          THEN Message("forward", p.status) ELSE p
             /\ uwbc_device_state' =
                  IF p.type = "dev_status" /\ ~uwb_device_initialized
                  THEN p.status ELSE uwbc_device_state
             /\ uwb_binding_status' =
                  IF p.type \in InitSemaphores \ {"dev_status"}
                       /\ ~uwb_device_initialized
                  THEN p.status ELSE uwb_binding_status
             /\ UNCHANGED <<told, cookie, deadPost, uwb_device_initialized>>
  /\ UNCHANGED <<api, apiVars, tokens, live, reading, chipVars, faultVars,
                 downloads, result>>

(* The rest: the semaphore is posted, the response handed to the command,  *)
(* the packet given to the host, and the next one requested.               *)
ClientFinishes ==
  /\ client # Idle
  /\ IF Posts(client) /\ client.type \in live
     THEN tokens' = [tokens EXCEPT ![client.type] = @ + 1]
     ELSE UNCHANGED tokens
  /\ deadPost' = (deadPost \/ (Posts(client) /\ client.type \notin live))
  /\ rsp' = IF client.type = "rsp" THEN client.status ELSE rsp
  /\ told' = IF client.type = "rsp" \/ Skipped(client) THEN told
             ELSE Append(told, client)
  /\ client' = Idle /\ reading' = TRUE
  /\ UNCHANGED <<api, cmd, configs, fwd_retry_count, live, cookie, devVars, queue,
                 chipVars, faultVars, downloads, result>>

(***************************************************************************)
(* The chip.                                                               *)
(***************************************************************************)
Progress == [boot |-> "init", configured |-> "ready", restarting |-> "running"]

(* A command is carried out and answered; its notifications follow.        *)
Effect(c) ==
  /\ chip' = CASE c = "board" -> "configured"
               [] c = "reset" -> "restarting"
               [] OTHER -> chip
  /\ bound' \in CASE c = "bind" -> {bound, "UNLOCKED"}
                  [] c \in {"lock", "check"} -> {bound, "LOCKED"}
                  [] OTHER -> {bound}
  /\ \E read \in {"ok", "failed"} : due' = due \o
       CASE c = "board" -> <<Message("dev_status", "READY")>>
         [] c = "reset" -> <<Message("dev_status", "READY"),
                             Message("binding_status", bound)>>
         [] c = "bind" -> <<Message("do_bind", bound')>>
         [] c \in {"lock", "check"} -> <<Message("get_binding_status", bound')>>
         [] c = "otp" -> <<Message("calib_data", read)>>
         [] OTHER -> <<>>

(* "unheard": the command is carried out, its answer is lost, and the HAL  *)
(* sends it again (one without a notification changes nothing that a       *)
(* repetition does not). "silent": it is lost, and so is each repetition   *)
(* left, so that the HAL gives up.                                         *)
ChipReplies ==
  /\ reply # "none"
  /\ \/ /\ NoFault /\ Effect(reply)
        /\ reply' = "none" /\ rx' = Append(rx, Message("rsp", "ok"))
     \/ /\ Fault("nak")
        /\ reply' = "none" /\ rx' = Append(rx, Message("rsp", "failed"))
        /\ UNCHANGED <<chip, bound, due>>
     \/ Fault("silent") /\ reply' = "none" /\ UNCHANGED <<rx, chip, bound, due>>
     \/ Fault("unheard") /\ Effect(reply) /\ due' # due /\ UNCHANGED <<reply, rx>>
  /\ UNCHANGED <<api, apiVars, semVars, devVars, tmlVars, downloads, tellVars,
                 result>>

ChipNotifies ==
  /\ due # <<>>
  /\ due' = Tail(due)
  /\ chip' = IF Head(due).type = "dev_status" /\ chip \in DOMAIN Progress
             THEN Progress[chip] ELSE chip
  /\ \/ NoFault /\ rx' = Append(rx, Head(due))
     \/ Fault("twice") /\ rx' = rx \o <<Head(due), Head(due)>>
     \/ Fault("mute") /\ UNCHANGED rx
  /\ UNCHANGED <<api, apiVars, semVars, devVars, tmlVars, bound, reply,
                 downloads, tellVars, result>>

ChipCrashes ==
  /\ chip # "off"
  /\ Fault("crash")
  /\ rx' = Append(rx, Message("dev_status", "ERROR"))
  /\ UNCHANGED <<api, apiVars, semVars, devVars, tmlVars, chip, bound, reply,
                 due, downloads, tellVars, result>>

Api ==
  \/ CoreInitialization \/ Download \/ FirstRead \/ TimedWait
  \/ Send \/ Configure \/ Configured \/ ReadOtp \/ OtpEnd \/ Await
  \/ ParseBindingStatusNtf \/ Bound \/ TellBinding
  \/ Done \/ Ready \/ Failure \/ Cleanup \/ Return
ClientThread == ClientTakes \/ ClientFinishes
Chip == ChipReplies \/ ChipNotifies

Next == Api \/ ReaderPosts \/ ClientThread \/ Chip \/ ChipCrashes

(* Threads that can run do run, the waits end, and the chip, unless it     *)
(* fails, answers.                                                         *)
Fairness ==
  WF_vars(Api) /\ WF_vars(ReaderPosts) /\ WF_vars(ClientThread) /\ WF_vars(Chip)

Spec == Init /\ [][Next]_vars
FairSpec == Spec /\ Fairness
-----------------------------------------------------------------------------
Told(type, status) == \E k \in DOMAIN told : told[k] = Message(type, status)

(* Values are those of the code, and the firmware is downloaded at most    *)
(* FWD_MAX_RETRY_COUNT times more than once.                               *)
TypeOK ==
  /\ api \in {"start", "download", "read", "await", "binding", "bound", "tell",
              "vendor", "xtal", "otp_end", "calibrate", "done", "ready", "failure", "cleanup",
              "return", "idle"} \union DOMAIN Waits \union DOMAIN Commands
  /\ cmd \in DOMAIN Commands \union {"none"} /\ rsp \in {"none", "ok", "failed"}
  /\ configs \in 0 .. MaxConfigs
  /\ fwd_retry_count \in 0 .. FWD_MAX_RETRY_COUNT + 1
  /\ downloads \in 0 .. FWD_MAX_RETRY_COUNT + 1
  /\ tokens \in [Semaphores -> Nat]
  /\ live \in {{}, InitSemaphores, Semaphores}
  /\ cookie \in {"none", "pending", "valid", "dead"}
  /\ uwbc_device_state \in AnyState
  /\ uwb_binding_status \in {"NOT_BOUND", "UNLOCKED", "LOCKED", "UNKNOWN"}
  /\ {uwb_device_initialized, reading, deadPost} \subseteq BOOLEAN
  /\ chip \in {"off"} \union DOMAIN Progress \union {"init", "ready", "running"}
  /\ result \in {"none", "SUCCESS", "FAILED"}

(* phNxpUciHal_coreInitialization: the device counts as initialised only   *)
(* when the chip has come up again after the reset. The waits count        *)
(* notifications, so this needs a chip that sends each of them once, and   *)
(* no command that is carried out again because its answer was lost.       *)
InitIsReal ==
  uwb_device_initialized /\ {"twice", "unheard"} \intersect faulted = {} =>
    chip = "running"

(* A chip that does what it should, in any order of the threads, is        *)
(* initialised, and failed downloads up to the bound of the code do not    *)
(* change that: no wait is satisfied by a notification meant for another,  *)
(* and none is missed.                                                     *)
NominalSucceeds ==
  faulted \subseteq {"download"} /\ faults <= FWD_MAX_RETRY_COUNT =>
    result # "FAILED" /\ ~Told("error", "failed")

(* read_complete posts no semaphore after phNxpUciHal_cleanup_cb_data, and *)
(* process_response uses no context of an OTP read that has returned: as   *)
(* long as the chip sends each notification once and does not crash, the   *)
(* call ends, and fails, only with none on its way, even if commands are   *)
(* refused or lost. Lost answers are left out: the notification of a       *)
(* command that was carried out may come when the call has given up on it. *)
NoDeadPosts ==
  faulted \subseteq {"download", "missing", "nak", "silent"} => ~deadPost

(* phNxpUciHal_parse_binding_status_ntf: binding is requested only of a    *)
(* chip that is not bound, and locking only of one that is bound and not   *)
(* locked, whatever notifications come late.                               *)
BindingRequested ==
  [][/\ reply # reply' /\ reply' = "bind" => bound = "NOT_BOUND"
     /\ reply # reply' /\ reply' \in {"lock", "check"} => bound = "UNLOCKED"]_vars

(* The call returns, and a success is announced to the host.               *)
InitReturns ==
  api = "start" ~>
    api = "idle" /\ (result = "SUCCESS" => Told("init_cplt", "ok"))

(* A chip that reports an error while it is initialised does not do so     *)
(* unheard: the host needs the report to start its recovery.               *)
CrashTold ==
  "crash" \in faulted ~>
    Told("dev_status", "ERROR") \/ Told("forward", "ERROR")
=============================================================================

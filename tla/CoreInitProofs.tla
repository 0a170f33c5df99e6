--------------------------- MODULE CoreInitProofs ---------------------------
(***************************************************************************)
(* Initialising the chip, for any number of downloads, configurations and  *)
(* mishaps: types; that a device counts as initialised only when the chip  *)
(* has come up again; that nothing but a mishap makes a call fail; that no *)
(* semaphore is posted after its end; and that no binding is requested of  *)
(* a chip that has one.                                                    *)
(*                                                                         *)
(* The waits count notifications, so the argument counts them too: what    *)
(* the chip has still to send, what is on its way and what was posted adds *)
(* up to what the API thread has still to wait for.                        *)
(***************************************************************************)
EXTENDS CoreInit, FiniteSetTheorems, FunctionTheorems, SequenceTheorems, TLAPS

(* Packets.                                                                *)
BindingTypes == {"binding_status", "do_bind", "get_binding_status"}
Bindings == {"NOT_BOUND", "UNLOCKED", "LOCKED"}
Answers == {"ok", "failed"}
Notifications ==
  [type : {"dev_status"}, status : {"INIT", "READY"}]
    \union [type : BindingTypes, status : Bindings]
    \union [type : {"calib_data"}, status : Answers]
Responses == [type : {"rsp"}, status : Answers]
Errors == [type : {"dev_status"}, status : {"ERROR"}]
Packets == Notifications \union Responses \union Errors
Results == {Message("init_cplt", "ok"), Message("error", "failed")}
Statuses == Answers \union AnyState \union Bindings \union {"none", "UNKNOWN"}
Forwards == [type : {"forward"}, status : Statuses]
Messages == Packets \union Results \union {Idle} \union Forwards
Notices == [type : {"hal_binding", "hal_status"}, status : Statuses]

Ntf(sem) == {m \in Notifications : m.type = sem}
InitNtf == {Message("dev_status", "INIT")}
ReadyNtf == {Message("dev_status", "READY")}
OkAnswer == {Message("rsp", "ok")}
Refusal == {Message("rsp", "failed")}
Failed == {Message("error", "failed")}
OtherBinding(known) ==
  {m \in Notifications : m.type \in BindingTypes /\ m.status \notin known}

(* How many members of S are in a sequence, and on their way to the end of *)
(* read_complete.                                                          *)
Count(s, S) == Cardinality({k \in DOMAIN s : s[k] \in S})
One(b) == IF b THEN 1 ELSE 0
Flow(r, q, c, S) == Count(r, S) + Count(q, S) + One(c \in S)
Num(S) == Flow(rx, queue, client, S)
Due(S) == Count(due, S)
Sum(d, r, q, c, t, sem) == Count(d, Ntf(sem)) + Flow(r, q, c, Ntf(sem)) + t[sem]
Total(sem) == Sum(due, rx, queue, client, tokens, sem)

MessageType ==
  /\ due \in Seq(Notifications) /\ rx \in Seq(Packets)
  /\ queue \in Seq(Packets \union Results)
  /\ client \in Packets \union {Idle} \union Forwards
  /\ told \in Seq(Messages \union Notices)
  /\ reply \in DOMAIN Commands \union {"none"}
  /\ bound \in Bindings

(* Where the call is.                                                      *)
Awaiting(C) == api = "await" /\ cmd \in C
At(c) == api = c \/ Awaiting({c})
Started == {"start", "download", "read", "wait_init"}
Over == {"failure", "cleanup", "return", "idle"}
Later ==
  /\ api \notin Started \union Over \union {"board", "wait_ready", "reset", "wait_reset"}
  /\ ~Awaiting({"board", "reset"})
Ok == One(api = "await" /\ rsp = "ok") + Num(OkAnswer)

(* A command has at most one answer, and a thread that does not wait none.  *)
CommandState ==
  /\ api = "await" <=> cmd # "none"
  /\ reply # "none" => reply = cmd
  /\ One(reply # "none") + One(api = "await" /\ rsp # "none") + Num(Responses)
       <= One(api = "await")

LiveState ==
  /\ api = "start" => live = {}
  /\ api \notin {"start", "idle", "wait_otp", "otp_end"} /\ ~Awaiting({"otp"}) =>
       live = InitSemaphores
  /\ api \in {"wait_otp", "otp_end"} \/ Awaiting({"otp"}) =>
       live = Semaphores /\ cookie \in {"pending", "valid"}
  /\ api = "idle" => live \in {{}, InitSemaphores}

Beginning ==
  /\ api \in {"start", "download"} =>
       /\ chip = "off" /\ due = <<>> /\ downloads = fwd_retry_count
       /\ fwd_retry_count <= FWD_MAX_RETRY_COUNT
  /\ api \in {"start", "download", "read"} =>
       ~reading /\ queue = <<>> /\ client = Idle
  /\ api \in {"download", "read"} => tokens["dev_status"] = 0
  /\ uwb_device_initialized => api \in {"ready", "cleanup", "idle"}

(* How far the chip can be, and what it has still to say of that, as long  *)
(* as it has not carried out a command whose answer was lost.              *)
ChipState ==
  /\ api \in {"read", "wait_init"} => chip \in {"boot", "init"}
  /\ api = "board" => chip = "init"
  /\ Awaiting({"board"}) => chip \in {"init", "configured", "ready"}
  /\ reply = "board" => chip = "init"
  /\ Awaiting({"board"}) /\ Ok > 0 => chip \in {"configured", "ready"}
  /\ api = "wait_ready" => chip \in {"configured", "ready"}
  /\ api = "reset" \/ reply = "reset" => chip = "ready"
  /\ Awaiting({"reset"}) => chip \in {"ready", "restarting", "running"}
  /\ Awaiting({"reset"}) /\ Ok > 0 => chip \in {"restarting", "running"}
  /\ api = "wait_reset" \/ Later \/ uwb_device_initialized =>
       chip \in {"restarting", "running"}

DueState ==
  /\ chip \in {"off", "init", "ready"} => due = <<>>
  /\ chip = "boot" => due = <<Message("dev_status", "INIT")>>
  /\ chip = "configured" => due = <<Message("dev_status", "READY")>>
  /\ chip = "restarting" => due # <<>> /\ Head(due) \in ReadyNtf
                              /\ Due(Ntf("dev_status")) = 1
  /\ chip = "running" => Due(Ntf("dev_status")) = 0
  /\ chip \in {"off", "boot"} =>
       Num(Ntf("dev_status")) = 0 /\ tokens["dev_status"] = 0
  /\ chip \in {"off", "boot", "init", "configured"} =>
       Num(ReadyNtf) = 0 /\ uwbc_device_state # "READY"

AllHeard == "unheard" \notin faulted

TypeInv ==
  TypeOK /\ MessageType /\ CommandState /\ LiveState /\ Beginning
    /\ (AllHeard => ChipState /\ DueState)

(* What the API thread still waits for.                                    *)
Awaited(place, command, answered, alive, sem) ==
  \/ /\ sem = "dev_status"
     /\ \/ place \in {"read", "wait_init", "wait_ready", "wait_reset"}
        \/ command \in {"board", "reset"} /\ answered
  \/ /\ sem = "binding_status"
     /\ \/ place \in {"wait_reset", "info", "wait_binding", "return"}
        \/ command = "reset" /\ answered
        \/ command = "info" \/ (place = "idle" /\ alive # {})
  \/ /\ sem = "do_bind"
     /\ place = "wait_bind" \/ (command = "bind" /\ answered)
  \/ /\ sem = "get_binding_status"
     /\ \/ place \in {"wait_lock", "wait_check"}
        \/ command \in {"lock", "check"} /\ answered
  \/ /\ sem = "calib_data"
     /\ place = "wait_otp" \/ (command = "otp" /\ answered)
Expected(sem) == Awaited(api, cmd, Ok > 0, live, sem)

(* When no notification is sent twice, a wait is satisfied by its own.     *)
Single == {"twice", "unheard"} \intersect faulted = {}
Once ==
  Single =>
    /\ api \notin Over => Total("dev_status") <= One(Expected("dev_status"))
    /\ Later \/ uwb_device_initialized => chip = "running"

(* When nothing is lost, doubled, late or crashes, what is under way is     *)
(* what is waited for.                                                     *)
Calm == faulted \subseteq {"download", "missing", "nak", "silent"}
Heard == tokens["dev_status"] > 0 \/ client \in Ntf("dev_status")
Balanced ==
  Calm =>
    /\ Total("dev_status") = One(Expected("dev_status"))
    /\ \A sem \in Semaphores : Total(sem) <= One(Expected(sem))
StateKnown ==
  Calm =>
    /\ Num(Errors) = 0
    /\ api \notin {"read", "wait_init"} => Num(InitNtf) = 0
    /\ api = "wait_init" /\ Heard => uwbc_device_state = "INIT"
    /\ (api = "wait_ready" \/ Awaiting({"board"})) /\ Heard =>
         uwbc_device_state = "READY"
    /\ At("reset") \/ api = "wait_reset" \/ Later => uwbc_device_state = "READY"

Answered ==
  /\ rsp # "failed" /\ Num(Refusal) = 0
  /\ api = "await" => One(reply # "none") + One(rsp # "none") + Num(Responses) = 1
Untold == Count(queue, Failed) = 0 /\ Count(told, Failed) = 0
Smooth == faulted \subseteq {"download"} /\ faults <= FWD_MAX_RETRY_COUNT
Nominal ==
  /\ faults \in Nat
  /\ Smooth => /\ api \in {"start", "download"} => faults = fwd_retry_count
               /\ api \notin {"failure", "return"} /\ result # "FAILED"
               /\ Answered /\ Untold

(* What is known of the binding while it is decided on.                    *)
Knows(known) ==
  /\ Num(OtherBinding(known)) = 0 /\ Due(OtherBinding(known)) = 0
  /\ uwb_binding_status \in known \union {"UNKNOWN"}
Unbound ==
  \/ api \in {"read", "wait_init", "board", "wait_ready", "reset", "wait_reset",
              "info", "wait_binding", "binding", "dpd_bind", "bind",
              "dpd_check", "check"}
  \/ Awaiting({"board", "reset", "info", "dpd_bind", "dpd_check"})
Binding ==
  /\ api \in {"start", "download"} => Num(OtherBinding({})) = 0
  /\ Unbound => Knows({bound})
  /\ At("dpd_bind") \/ api = "bind" => bound = "NOT_BOUND"
  /\ At("dpd_check") \/ api = "check" => bound = "UNLOCKED"
  /\ Awaiting({"bind"}) \/ api \in {"wait_bind", "bound"} =>
       bound \in {"NOT_BOUND", "UNLOCKED"} /\ Knows({"NOT_BOUND", bound})
  /\ api = "lock" => bound = "UNLOCKED"

Inv ==
  /\ TypeInv /\ Once /\ Balanced /\ StateKnown /\ NoDeadPosts /\ Nominal
  /\ Binding
-----------------------------------------------------------------------------
(* Counting in sequences.                                                  *)
LEMMA CountFinite ==
  ASSUME NEW X, NEW s \in Seq(X), NEW S
  PROVE  /\ IsFiniteSet({k \in DOMAIN s : s[k] \in S})
         /\ Count(s, S) \in Nat
<1>1. IsFiniteSet(1 .. Len(s)) /\ DOMAIN s = 1 .. Len(s)
  BY LenProperties, FS_Interval
<1>2. {k \in DOMAIN s : s[k] \in S} \in SUBSET (1 .. Len(s))
  BY <1>1
<1>3. IsFiniteSet({k \in DOMAIN s : s[k] \in S})
  BY <1>1, <1>2, FS_Subset
<1>4. QED
  BY <1>3, FS_CardinalityType DEF Count

LEMMA CountNone == ASSUME NEW S PROVE Count(<<>>, S) = 0
<1>1. {k \in DOMAIN <<>> : <<>>[k] \in S} = {}
  OBVIOUS
<1>2. QED
  BY <1>1, FS_EmptySet DEF Count

LEMMA CountZero ==
  ASSUME NEW X, NEW s \in Seq(X), NEW S
  PROVE  Count(s, S) = 0 <=> \A k \in DOMAIN s : s[k] \notin S
<1>1. Count(s, S) = 0 <=> {k \in DOMAIN s : s[k] \in S} = {}
  BY CountFinite, FS_EmptySet, ZenonT(40) DEF Count
<1>2. QED
  BY <1>1

LEMMA CountSubset ==
  ASSUME NEW X, NEW s \in Seq(X), NEW S, NEW T, S \subseteq T
  PROVE  Count(s, S) <= Count(s, T)
<1>. DEFINE K == {k \in DOMAIN s : s[k] \in S}
            L == {k \in DOMAIN s : s[k] \in T}
<1>1. K \in SUBSET L
  OBVIOUS
<1>2. IsFiniteSet(L)
  BY CountFinite
<1>3. Cardinality(K) <= Cardinality(L)
  <2>. HIDE DEF K, L
  <2>. QED BY <1>1, <1>2, FS_Subset
<1>4. QED
  BY <1>3 DEF Count

LEMMA CountAppend ==
  ASSUME NEW X, NEW s \in Seq(X), NEW e \in X, NEW S
  PROVE  Count(Append(s, e), S) = Count(s, S) + One(e \in S)
<1>. DEFINE K == {k \in DOMAIN s : s[k] \in S}
            L == {k \in DOMAIN Append(s, e) : Append(s, e)[k] \in S}
            n == Len(s) + 1
<1>1. /\ Len(s) \in Nat /\ DOMAIN s = 1 .. Len(s)
      /\ DOMAIN Append(s, e) = 1 .. n
      /\ \A k \in 1 .. Len(s) : Append(s, e)[k] = s[k]
      /\ Append(s, e)[n] = e
  BY LenProperties
<1>2. L = IF e \in S THEN K \union {n} ELSE K
  BY <1>1
<1>3. n \notin K
  BY <1>1
<1>4. IsFiniteSet(K) /\ Cardinality(K) \in Nat
  BY CountFinite DEF Count
<1>5. Cardinality(L) = Cardinality(K) + One(e \in S)
  <2>. HIDE DEF K, L, n
  <2>1. n \notin K => Cardinality(K \union {n}) = Cardinality(K) + 1
    BY <1>4, FS_AddElement
  <2>2. QED
    BY <2>1, <1>2, <1>3, <1>4 DEF One
<1>6. QED
  BY <1>5 DEF Count

LEMMA CountHead ==
  ASSUME NEW X, NEW s \in Seq(X), s # <<>>, NEW S
  PROVE  Count(s, S) = Count(Tail(s), S) + One(Head(s) \in S)
<1>. DEFINE K == {k \in DOMAIN s : s[k] \in S}
            L == {k \in DOMAIN Tail(s) : Tail(s)[k] \in S}
            f == [k \in L |-> k + 1]
<1>1. /\ Len(s) \in Nat \ {0} /\ DOMAIN s = 1 .. Len(s) /\ Head(s) = s[1]
      /\ Tail(s) \in Seq(X) /\ DOMAIN Tail(s) = 1 .. Len(s) - 1
      /\ \A k \in 1 .. Len(s) - 1 : Tail(s)[k] = s[k + 1]
  BY LenProperties, HeadTailProperties, EmptySeq
<1>2. IsFiniteSet(K) /\ IsFiniteSet(L)
  BY <1>1, CountFinite
<1>3. f \in Bijection(L, K \ {1})
  <2>1. \A k \in L : f[k] \in K \ {1}
    BY <1>1
  <2>2. \A j, k \in L : f[j] = f[k] => j = k
    BY <1>1
  <2>3. \A j \in K \ {1} : j - 1 \in L /\ f[j - 1] = j
    BY <1>1
  <2>4. QED
    BY <2>1, <2>2, <2>3 DEF Bijection, Injection, Surjection, IsInjective
<1>4. Cardinality(L) = Cardinality(K \ {1})
  <2>. HIDE DEF K, L, f
  <2>1. ExistsBijection(L, K \ {1})
    BY <1>3 DEF ExistsBijection
  <2>2. QED
    BY <1>2, <2>1, FS_Bijection
<1>5. 1 \in K <=> Head(s) \in S
  BY <1>1
<1>6. Cardinality(K) = Cardinality(L) + One(Head(s) \in S)
  <2>. HIDE DEF K, L
  <2>1. Cardinality(K) \in Nat /\ Cardinality(L) \in Nat
    BY <1>2, FS_CardinalityType
  <2>2. Cardinality(K \ {1}) =
          IF 1 \in K THEN Cardinality(K) - 1 ELSE Cardinality(K)
    BY <1>2, FS_RemoveElement
  <2>3. QED
    BY <2>1, <2>2, <1>4, <1>5 DEF One
<1>7. QED
  BY <1>6 DEF Count
-----------------------------------------------------------------------------
(* The tables of the call, entry by entry.                                 *)
CommandNames ==
  {"board", "reset", "info", "dpd_bind", "bind", "lock", "dpd_check", "check",
   "config", "low_power", "otp", "calibration"}
WaitNames ==
  {"wait_init", "wait_ready", "wait_reset", "wait_binding", "wait_bind",
   "wait_lock", "wait_check", "wait_again", "wait_otp"}
Places ==
  {"start", "download", "read", "await", "binding", "bound", "tell", "vendor",
   "xtal", "otp_end", "calibrate", "done", "ready", "failure", "cleanup",
   "return", "idle"} \union WaitNames \union CommandNames

LEMMA CommandTable ==
  /\ DOMAIN Commands = CommandNames
  /\ Commands["board"] = After("wait_ready", "failure")
  /\ Commands["reset"] = After("wait_reset", "failure")
  /\ Commands["info"] = After("wait_binding", "return")
  /\ Commands["dpd_bind"] = After("bind", "vendor")
  /\ Commands["bind"] = After("wait_bind", "vendor")
  /\ Commands["lock"] = After("wait_lock", "vendor")
  /\ Commands["dpd_check"] = After("check", "vendor")
  /\ Commands["check"] = After("wait_check", "vendor")
  /\ Commands["config"] = After("vendor", "failure")
  /\ Commands["low_power"] = After("xtal", "xtal")
  /\ Commands["otp"] = After("wait_otp", "otp_end")
  /\ Commands["calibration"] = After("calibrate", "calibrate")
  BY DEF Commands, CommandNames

LEMMA WaitTable ==
  /\ DOMAIN Waits = WaitNames
  /\ Waits["wait_init"] = Wait("dev_status", {"INIT"}, "board", "failure")
  /\ Waits["wait_ready"] = Wait("dev_status", {"READY"}, "reset", "failure")
  /\ Waits["wait_reset"] = Wait("dev_status", {"READY"}, "info", "failure")
  /\ Waits["wait_binding"] = Wait("binding_status", AnyState, "binding", "vendor")
  /\ Waits["wait_bind"] = Wait("do_bind", AnyState, "bound", "vendor")
  /\ Waits["wait_lock"] = Wait("get_binding_status", AnyState, "vendor", "vendor")
  /\ Waits["wait_check"] =
       Wait("get_binding_status", AnyState, "wait_again", "vendor")
  /\ Waits["wait_again"] = Wait("get_binding_status", AnyState, "vendor", "tell")
  /\ Waits["wait_otp"] = Wait("calib_data", AnyState, "otp_end", "otp_end")
  BY DEF Waits, WaitNames

(* Which of the sets that are counted a message belongs to, by its type.    *)
LEMMA Kinds ==
  ASSUME NEW p \in Messages
  PROVE  /\ p = Message(p.type, p.status) /\ p.status \in Statuses
         /\ p \in Responses <=> p.type = "rsp"
         /\ p \in Errors <=> p.type = "dev_status" /\ p.status = "ERROR"
         /\ \A sem \in Semaphores :
              p \in Ntf(sem) <=> p.type = sem /\ p \notin Errors
         /\ \A known : p \in OtherBinding(known) <=>
                         p.type \in BindingTypes /\ p.status \notin known
         /\ p \in OkAnswer <=> p.type = "rsp" /\ p.status = "ok"
         /\ p \in Refusal <=> p.type = "rsp" /\ p.status = "failed"
         /\ p \in InitNtf <=> p.type = "dev_status" /\ p.status = "INIT"
         /\ p \in ReadyNtf <=> p.type = "dev_status" /\ p.status = "READY"
         /\ p \in Results <=> p.type \in {"init_cplt", "error"}
         /\ p = Idle <=> p.type = "none"
         /\ p \in Forwards <=> p.type = "forward"
         /\ p.type = "rsp" => p.status \in Answers
         /\ p.type = "dev_status" => p.status \in AnyState
         /\ p.type \in BindingTypes => p.status \in Bindings
<1>1. \/ p \in [type : {"dev_status"}, status : {"INIT", "READY"}]
      \/ p \in [type : BindingTypes, status : Bindings]
      \/ p \in [type : {"calib_data"}, status : Answers]
      \/ p \in Responses \/ p \in Errors
      \/ p \in {Message("init_cplt", "ok"), Message("error", "failed"), Idle}
      \/ p \in Forwards
  BY DEF Messages, Packets, Notifications, Results
<1>2. p = Message(p.type, p.status) /\ p.status \in Statuses
  <2>1. \A P, Q : p \in [type : P, status : Q] =>
          p = Message(p.type, p.status) /\ p.type \in P /\ p.status \in Q
    BY DEF Message
  <2>2. /\ Bindings \subseteq Statuses /\ Answers \subseteq Statuses
        /\ AnyState \subseteq Statuses
    BY DEF Statuses
  <2>3. CASE p \in {Message("init_cplt", "ok"), Message("error", "failed"), Idle}
    BY <2>3 DEF Message, Idle, Statuses, Answers
  <2>4. CASE p \in Responses \/ p \in Errors \/ p \in Forwards
    BY <2>1, <2>2, <2>4 DEF Responses, Errors, Forwards, AnyState
  <2>5. QED
    BY <1>1, <2>1, <2>2, <2>3, <2>4 DEF AnyState
<1>3. QED
  BY <1>1, <1>2 DEF Responses, Errors, Forwards, Message, Idle, BindingTypes,
     Bindings, Answers, OkAnswer, Refusal, InitNtf, ReadyNtf, Ntf,
     Notifications, OtherBinding, Results, Semaphores,
     InitSemaphores, AnyState

LEMMA Sets ==
  /\ Packets \subseteq Messages /\ Results \subseteq Messages
  /\ Idle \in Messages /\ Forwards \subseteq Messages
  /\ Packets \intersect Results = {} /\ Idle \notin Packets
  /\ \A sem : Ntf(sem) \subseteq Packets
  /\ \A known : OtherBinding(known) \subseteq Packets
  /\ Responses \subseteq Packets /\ Errors \subseteq Packets
  /\ OkAnswer \subseteq Responses /\ Refusal \subseteq Responses
  /\ \A status \in Answers : Message("rsp", status) \in Responses
  /\ InitNtf \subseteq Ntf("dev_status") /\ ReadyNtf \subseteq Ntf("dev_status")
  /\ Message("dev_status", "ERROR") \in Errors
  BY DEF Packets, Results, Messages, Forwards, Idle, Message, Responses, Errors,
     Notifications, Ntf, OtherBinding, BindingTypes, Bindings, Answers,
     OkAnswer,
     Refusal, InitNtf, ReadyNtf

(* Packets on their way to the client thread.                              *)
LEMMA FlowNat ==
  ASSUME NEW X, NEW r \in Seq(X), NEW Y, NEW q \in Seq(Y), NEW c
  PROVE  /\ \A S : Flow(r, q, c, S) \in Nat
         /\ \A S, T : S \subseteq T => Flow(r, q, c, S) <= Flow(r, q, c, T)
<1>1. \A S : Count(r, S) \in Nat /\ Count(q, S) \in Nat
  BY CountFinite
<1>2. ASSUME NEW S, NEW T, S \subseteq T
      PROVE  Count(r, S) <= Count(r, T) /\ Count(q, S) <= Count(q, T)
  BY <1>2, CountSubset
<1>3. QED
  BY <1>1, <1>2 DEF Flow, One

LEMMA FlowTypes ==
  MessageType => /\ \A S : Num(S) \in Nat /\ Due(S) \in Nat
                 /\ \A S, T : S \subseteq T => Num(S) <= Num(T)
  BY FlowNat, CountFinite DEF MessageType, Num, Due

LEMMA NextFlow ==
  MessageType' =>
    /\ \A S : Flow(rx', queue', client', S) \in Nat /\ Count(due', S) \in Nat
    /\ \A S, T : S \subseteq T =>
         Flow(rx', queue', client', S) <= Flow(rx', queue', client', T)
  BY FlowNat, CountFinite DEF MessageType

LEMMA ReaderFlow ==
  ASSUME MessageType, ReaderPosts
  PROVE  \A S : Flow(rx', queue', client', S) = Num(S)
<1>1. Head(rx) \in Packets
  BY HeadTailProperties DEF MessageType, ReaderPosts
<1>2. ASSUME NEW S
      PROVE  /\ Count(queue', S) = Count(queue, S) + One(Head(rx) \in S)
             /\ Count(rx, S) = Count(rx', S) + One(Head(rx) \in S)
             /\ Count(rx', S) \in Nat /\ Count(queue, S) \in Nat
  <2>1. Count(queue', S) = Count(queue, S) + One(Head(rx) \in S)
    BY <1>1, CountAppend DEF MessageType, ReaderPosts
  <2>2. Count(rx, S) = Count(rx', S) + One(Head(rx) \in S)
    BY CountHead DEF MessageType, ReaderPosts
  <2>3. rx' \in Seq(Packets)
    BY HeadTailProperties DEF MessageType, ReaderPosts
  <2>4. QED
    BY <2>1, <2>2, <2>3, CountFinite DEF MessageType
<1>3. client' = client
  BY DEF ReaderPosts
<1>4. QED
  BY <1>2, <1>3 DEF Num, Flow, One

LEMMA TakesFlow ==
  ASSUME MessageType, ClientTakes
  PROVE  /\ Head(queue) \in Packets \union Results
         /\ client' \in Messages
         /\ \A S : S \subseteq Packets =>
              /\ Flow(rx', queue', client', S) + One(Head(queue) \in S)
                   = Num(S) + One(client' \in S)
              /\ Head(queue) \in S => Num(S) > 0
<1>1. Head(queue) \in Packets \union Results
  BY HeadTailProperties DEF MessageType, ClientTakes
<1>2. ASSUME NEW S
      PROVE  /\ Count(queue, S) = Count(queue', S) + One(Head(queue) \in S)
             /\ Count(queue', S) \in Nat /\ Count(rx, S) \in Nat
  <2>1. Count(queue, S) = Count(queue', S) + One(Head(queue) \in S)
    BY CountHead DEF MessageType, ClientTakes
  <2>2. queue' \in Seq(Packets \union Results)
    BY HeadTailProperties DEF MessageType, ClientTakes
  <2>3. QED
    BY <2>1, <2>2, CountFinite DEF MessageType
<1>3. client = Idle /\ rx' = rx
  BY DEF ClientTakes, chipVars
<1>4. client' \in {client, Head(queue), Message("forward", Head(queue).status)}
  BY DEF ClientTakes, TakeCalibData
<1>5. client' \in Messages
  BY <1>1, <1>3, <1>4, Sets, Kinds DEF Forwards, Message
<1>6. QED
  BY <1>1, <1>2, <1>3, <1>5, Sets DEF Num, Flow, One

LEMMA FinishFlow ==
  ASSUME MessageType, ClientFinishes
  PROVE  \A S : S \subseteq Packets =>
           Flow(rx', queue', client', S) + One(client \in S) = Num(S)
<1>1. \A S : Count(rx, S) \in Nat /\ Count(queue, S) \in Nat
  BY CountFinite DEF MessageType
<1>2. client' = Idle /\ rx' = rx /\ queue' = queue
  BY DEF ClientFinishes, chipVars
<1>3. QED
  BY <1>1, <1>2, Sets DEF Num, Flow, One

LEMMA SendFlow ==
  ASSUME MessageType, NEW p \in Packets, rx' = Append(rx, p),
         UNCHANGED <<queue, client>>
  PROVE  \A S : Flow(rx', queue', client', S) = Num(S) + One(p \in S)
<1>1. \A S : Count(rx, S) \in Nat /\ Count(queue, S) \in Nat
  BY CountFinite DEF MessageType
<1>2. \A S : Count(rx', S) = Count(rx, S) + One(p \in S)
  BY CountAppend DEF MessageType
<1>3. QED
  BY <1>1, <1>2 DEF Num, Flow, One

LEMMA AnnounceFlow ==
  ASSUME MessageType, NEW p \in Results, queue' = Append(queue, p),
         UNCHANGED <<rx, client>>
  PROVE  \A S : S \subseteq Packets => Flow(rx', queue', client', S) = Num(S)
<1>1. \A S : Count(rx, S) \in Nat /\ Count(queue, S) \in Nat
  BY CountFinite DEF MessageType
<1>2. \A S : Count(queue', S) = Count(queue, S) + One(p \in S)
  BY CountAppend DEF MessageType
<1>3. QED
  BY <1>1, <1>2, Sets DEF Num, Flow, One

(* What a command makes the chip announce.                                 *)
Announce(p) == due' = Append(due, p)
LEMMA EffectDue ==
  ASSUME MessageType, NEW c \in CommandNames, Effect(c)
  PROVE  /\ bound' \in Bindings /\ due' \in Seq(Notifications)
         /\ bound' # bound =>
              (c = "bind" /\ bound' = "UNLOCKED") \/ c \in {"lock", "check"}
         /\ chip' = CASE c = "board" -> "configured"
                      [] c = "reset" -> "restarting" [] OTHER -> chip
         /\ c = "board" => Announce(Message("dev_status", "READY"))
         /\ c = "reset" =>
              due' = Append(Append(due, Message("dev_status", "READY")),
                            Message("binding_status", bound))
         /\ c = "bind" => Announce(Message("do_bind", bound'))
         /\ c \in {"lock", "check"} =>
              Announce(Message("get_binding_status", bound'))
         /\ c = "otp" => \E status \in Answers :
                           Announce(Message("calib_data", status))
         /\ c \notin {"board", "reset", "bind", "lock", "check", "otp"} =>
              due' = due
<1>1. PICK read \in {"ok", "failed"} : due' = due \o
       CASE c = "board" -> <<Message("dev_status", "READY")>>
         [] c = "reset" -> <<Message("dev_status", "READY"),
                             Message("binding_status", bound)>>
         [] c = "bind" -> <<Message("do_bind", bound')>>
         [] c \in {"lock", "check"} -> <<Message("get_binding_status", bound')>>
         [] c = "otp" -> <<Message("calib_data", read)>>
         [] OTHER -> <<>>
  BY DEF Effect
<1>2. /\ bound' \in Bindings
      /\ bound' # bound =>
           (c = "bind" /\ bound' = "UNLOCKED") \/ c \in {"lock", "check"}
      /\ chip' = CASE c = "board" -> "configured"
                   [] c = "reset" -> "restarting" [] OTHER -> chip
  BY DEF Effect, MessageType, Bindings
<1>3. /\ Message("dev_status", "READY") \in Notifications
      /\ \A type \in BindingTypes : \A b \in Bindings : Message(type, b) \in Notifications
      /\ \A status \in Answers : Message("calib_data", status) \in Notifications
  BY DEF Notifications, Message
<1>4. \A p \in Notifications :
        due \o <<p>> = Append(due, p) /\ Append(due, p) \in Seq(Notifications)
  BY DEF MessageType
<1>5. \A p, q \in Notifications :
        due \o <<p, q>> = Append(Append(due, p), q)
          /\ Append(Append(due, p), q) \in Seq(Notifications)
  BY DEF MessageType
<1>6. due \o <<>> = due /\ due \in Seq(Notifications)
  BY ConcatEmptySeq DEF MessageType
<1>7. bound \in Bindings
  BY DEF MessageType
<1>8. CASE c \in {"board", "reset"}
  BY <1>1, <1>2, <1>3, <1>4, <1>5, <1>7, <1>8 DEF Announce, BindingTypes
<1>9. CASE c \in {"bind", "lock", "check", "otp"}
  BY <1>1, <1>2, <1>3, <1>4, <1>9 DEF Announce, BindingTypes, Answers
<1>10. CASE c \notin {"board", "reset", "bind", "lock", "check", "otp"}
  BY <1>1, <1>2, <1>6, <1>10
<1>11. QED
  BY <1>8, <1>9, <1>10

(* A notification leaves the chip once, and arrives once unless it is lost  *)
(* or doubled.                                                             *)
LEMMA NotifyFlow ==
  ASSUME MessageType, ChipNotifies
  PROVE  /\ Head(due) \in Notifications /\ Head(due) \in Packets
         /\ \A S : /\ Due(S) = Count(due', S) + One(Head(due) \in S)
                   /\ Count(due', S) \in Nat
         /\ \E n \in {0, 1, 2} :
              /\ \A S : Flow(rx', queue', client', S)
                          = Num(S) + n * One(Head(due) \in S)
              /\ n = 0 => "mute" \in faulted'
              /\ n = 2 => "twice" \in faulted'
<1>. DEFINE p == Head(due)
<1>1. p \in Notifications /\ p \in Packets /\ due' \in Seq(Notifications)
  BY HeadTailProperties DEF MessageType, ChipNotifies, Packets
<1>2. \A S : /\ Due(S) = Count(due', S) + One(p \in S)
             /\ Count(due', S) \in Nat
  BY <1>1, CountHead, CountFinite DEF MessageType, ChipNotifies, Due
<1>3. \A S : Count(rx, S) \in Nat /\ Count(queue, S) \in Nat
  BY CountFinite DEF MessageType
<1>4. \A S : Count(Append(rx, p), S) = Count(rx, S) + One(p \in S)
  BY <1>1, CountAppend DEF MessageType
<1>5. \A S : Count(Append(Append(rx, p), p), S) = Count(rx, S) + 2 * One(p \in S)
  <2>1. Append(rx, p) \in Seq(Packets)
    BY <1>1 DEF MessageType
  <2>2. \A S : Count(Append(Append(rx, p), p), S)
                 = Count(Append(rx, p), S) + One(p \in S)
    BY <1>1, <2>1, CountAppend
  <2>3. QED
    BY <1>3, <1>4, <2>2 DEF One
<1>6. rx \o <<p, p>> = Append(Append(rx, p), p)
  BY <1>1 DEF MessageType
<1>7. queue' = queue /\ client' = client
  BY DEF ChipNotifies, tmlVars
<1>. DEFINE Arrives(n) ==
       \A S : Flow(rx', queue', client', S) = Num(S) + n * One(p \in S)
<1>8. CASE NoFault /\ rx' = Append(rx, p)
  <2>1. Arrives(1)
    BY <1>3, <1>4, <1>7, <1>8 DEF Num, Flow, One
  <2>2. QED
    BY <1>1, <1>2, <2>1
<1>9. CASE Fault("twice") /\ rx' = rx \o <<p, p>>
  <2>1. Arrives(2)
    <3>1. \A S : Count(rx', S) = Count(rx, S) + 2 * One(p \in S)
      BY <1>5, <1>6, <1>9
    <3>2. QED
      BY <1>3, <1>7, <3>1 DEF Num, Flow, One
  <2>2. "twice" \in faulted'
    BY <1>9 DEF Fault
  <2>3. QED
    BY <1>1, <1>2, <2>1, <2>2
<1>10. CASE Fault("mute") /\ UNCHANGED rx
  <2>1. Arrives(0)
    BY <1>3, <1>7, <1>10 DEF Num, Flow, One
  <2>2. QED
    BY <1>1, <1>2, <1>10, <2>1 DEF Fault
<1>11. QED
  BY <1>8, <1>9, <1>10 DEF ChipNotifies

(* A notification that a wait finds not to be under way is nowhere.         *)
LEMMA NotUnderWay ==
  ASSUME MessageType, NEW type, ~UnderWay(type),
         NEW S, \A p \in S : p.type = type
  PROVE  Num(S) = 0 /\ Due(S) = 0
<1>1. /\ \A k \in DOMAIN due : due[k] \notin S
      /\ \A k \in DOMAIN rx : rx[k] \notin S
      /\ \A k \in DOMAIN queue : queue[k] \notin S
      /\ client \notin S
  BY DEF UnderWay, InSeq
<1>2. Count(due, S) = 0 /\ Count(rx, S) = 0 /\ Count(queue, S) = 0
  BY <1>1, CountZero DEF MessageType
<1>3. QED
  BY <1>1, <1>2 DEF Num, Flow, Due, One
(* Every message in a sequence is one of its kind.                           *)
LEMMA MessageTypeStep == TypeOK /\ MessageType /\ [Next]_vars => MessageType'
<1>. SUFFICES ASSUME TypeOK, MessageType, [Next]_vars PROVE MessageType'
  OBVIOUS
<1>. USE DEF MessageType
<1>1. CASE UNCHANGED <<due, rx, queue, client, told, reply, bound>>
  BY <1>1
<1>2. CASE Download
  <2>1. Message("dev_status", "INIT") \in Notifications
    BY DEF Notifications, Message
  <2>2. <<Message("dev_status", "INIT")>> \in Seq(Notifications)
    BY <2>1
  <2>3. due' \in {due, <<Message("dev_status", "INIT")>>}
    BY <1>2 DEF Download
  <2>4. QED
    BY <1>2, <2>2, <2>3 DEF Download, semVars, tmlVars, tellVars
<1>3. CASE Send
  BY <1>3, CommandTable DEF Send, SendCommand, tmlVars, tellVars
<1>4. CASE Configure
  BY <1>4, CommandTable DEF Configure, SendCommand, CommandNames, tmlVars,
     tellVars
<1>5. CASE ReadOtp
  BY <1>5, CommandTable DEF ReadOtp, SendCommand, CommandNames, tmlVars,
     tellVars
<1>6. CASE TellBinding
  <2>1. Message("hal_binding", uwb_binding_status) \in Notices
    BY DEF Notices, Message, TypeOK, Statuses, Bindings
  <2>2. QED
    BY <1>6, <2>1 DEF TellBinding, tmlVars, chipVars
<1>7. CASE Done
  BY <1>7 DEF Done, Results, chipVars, tellVars
<1>8. CASE Ready
  <2>1. Message("hal_status", "READY") \in Notices
    BY DEF Notices, Message, Statuses, AnyState
  <2>2. QED
    BY <1>8, <2>1 DEF Ready, tmlVars, chipVars
<1>9. CASE Failure
  BY <1>9 DEF Failure, Results, chipVars, tellVars
<1>10. CASE ReaderPosts
  <2>1. Head(rx) \in Packets /\ Tail(rx) \in Seq(Packets)
    BY <1>10, HeadTailProperties DEF ReaderPosts
  <2>2. QED
    BY <1>10, <2>1 DEF ReaderPosts, tellVars
<1>11. CASE ClientTakes
  <2>1. Head(queue) \in Packets \union Results
        /\ Tail(queue) \in Seq(Packets \union Results)
    BY <1>11, HeadTailProperties DEF ClientTakes
  <2>2. Head(queue) \in Messages /\ Head(queue).status \in Statuses
        /\ (Head(queue) \in Results <=> Head(queue).type \in {"init_cplt", "error"})
    BY <2>1, Sets, Kinds
  <2>3. Message("forward", Head(queue).status) \in Forwards
    BY <2>2 DEF Forwards, Message
  <2>4. client' \in Packets \union {Idle} \union Forwards
    BY <1>11, <2>1, <2>2, <2>3 DEF ClientTakes, TakeCalibData
  <2>5. told' \in Seq(Messages \union Notices)
    <3>1. told' = told \/ told' = Append(told, Head(queue))
      BY <1>11 DEF ClientTakes
    <3>2. Append(told, Head(queue)) \in Seq(Messages \union Notices)
      BY <2>2
    <3>3. QED
      BY <3>1, <3>2
  <2>6. QED
    BY <1>11, <2>1, <2>4, <2>5 DEF ClientTakes, chipVars
<1>12. CASE ClientFinishes
  <2>1. client \in Messages
    BY DEF Messages
  <2>2. QED
    BY <1>12, <2>1 DEF ClientFinishes, chipVars
<1>13. CASE ChipReplies
  <2>1. \A status \in Answers : Message("rsp", status) \in Packets
    BY Sets
  <2>2. rx' \in Seq(Packets)
    <3>1. \/ rx' = rx
          \/ \E status \in Answers : rx' = Append(rx, Message("rsp", status))
      BY <1>13 DEF ChipReplies, Answers
    <3>2. \A p \in Packets : Append(rx, p) \in Seq(Packets)
      OBVIOUS
    <3>3. QED
      BY <3>1, <3>2, <2>1
  <2>3. bound' \in Bindings /\ due' \in Seq(Notifications)
    BY <1>13, EffectDue, CommandTable DEF ChipReplies
  <2>4. QED
    BY <1>13, <2>2, <2>3 DEF ChipReplies, tmlVars, tellVars
<1>14. CASE ChipNotifies
  <2>1. Head(due) \in Notifications /\ Tail(due) \in Seq(Notifications)
    BY <1>14, HeadTailProperties DEF ChipNotifies
  <2>2. Head(due) \in Packets
    BY <2>1 DEF Packets
  <2>3. /\ rx \o <<Head(due), Head(due)>> \in Seq(Packets)
        /\ Append(rx, Head(due)) \in Seq(Packets)
    BY <2>2
  <2>4. QED
    BY <1>14, <2>1, <2>3 DEF ChipNotifies, tmlVars, tellVars
<1>15. CASE ChipCrashes
  <2>1. Message("dev_status", "ERROR") \in Packets
    BY Sets
  <2>2. QED
    BY <1>15, <2>1 DEF ChipCrashes, tmlVars, tellVars
<1>16. QED
  BY <1>1, <1>2, <1>3, <1>4, <1>5, <1>6, <1>7, <1>8, <1>9, <1>10, <1>11,
     <1>12, <1>13, <1>14, <1>15
    DEF Next, Api, ClientThread, Chip, apiVars, semVars, devVars, tmlVars,
        chipVars, faultVars, tellVars, vars, CoreInitialization, FirstRead,
        TimedWait, NoFault, Fault, Configured, OtpEnd, Await,
        ParseBindingStatusNtf, Bound, Cleanup, Return

(* Mishaps are not forgotten.                                              *)
LEMMA FaultsGrow == [Next]_vars => faulted \subseteq faulted'
<1>. SUFFICES ASSUME [Next]_vars PROVE faulted \subseteq faulted'
  OBVIOUS
<1>. USE DEF Fault, NoFault, faultVars
<1>1. CASE CoreInitialization \/ Download \/ FirstRead \/ TimedWait
  BY <1>1 DEF CoreInitialization, Download, FirstRead, TimedWait
<1>2. CASE Send \/ Configure \/ Configured \/ ReadOtp \/ OtpEnd \/ Await
  BY <1>2 DEF Send, Configure, Configured, ReadOtp, OtpEnd, Await
<1>3. CASE ParseBindingStatusNtf \/ Bound \/ TellBinding \/ Done \/ Ready \/ Failure
           \/ Cleanup \/ Return
  BY <1>3 DEF ParseBindingStatusNtf, Bound, TellBinding, Done, Ready, Failure,
     Cleanup, Return
<1>4. CASE ReaderPosts \/ ClientThread
  BY <1>4 DEF ReaderPosts, ClientThread, ClientTakes, ClientFinishes
<1>5. CASE Chip \/ ChipCrashes
  BY <1>5 DEF Chip, ChipReplies, ChipNotifies, ChipCrashes
<1>6. CASE UNCHANGED vars
  BY <1>6 DEF vars
<1>7. QED
  BY <1>1, <1>2, <1>3, <1>4, <1>5, <1>6 DEF Next, Api

(* An answer that was lost stays lost.                                     *)
LEMMA HeardBefore == [Next]_vars /\ AllHeard' => AllHeard
  BY FaultsGrow DEF AllHeard

LEMMA ProgressTable ==
  /\ DOMAIN Progress = {"boot", "configured", "restarting"}
  /\ Progress["boot"] = "init" /\ Progress["configured"] = "ready"
  /\ Progress["restarting"] = "running"
  BY DEF Progress

(* The chip comes up with the notification that it has still to send.      *)
LEMMA ChipProgress ==
  ASSUME TypeInv, AllHeard, ChipNotifies
  PROVE  \/ chip = "boot" /\ chip' = "init"
         \/ chip = "configured" /\ chip' = "ready"
         \/ chip = "restarting" /\ chip' = "running"
         \/ chip = "running" /\ chip' = "running"
<1>. USE DEF TypeInv
<1>1. Head(due) \in Ntf("dev_status") <=> Head(due).type = "dev_status"
  BY NotifyFlow DEF Ntf
<1>2. Head(due) \in Ntf("dev_status") => Due(Ntf("dev_status")) > 0
  BY NotifyFlow DEF One
<1>3. CASE chip = "boot"
  BY <1>3, ProgressTable DEF ChipNotifies, DueState, Message
<1>4. CASE chip = "configured"
  BY <1>4, ProgressTable DEF ChipNotifies, DueState, Message
<1>5. CASE chip = "restarting"
  BY <1>5, ProgressTable DEF ChipNotifies, DueState, Message, ReadyNtf
<1>6. CASE chip = "running"
  BY <1>1, <1>2, <1>6 DEF ChipNotifies, DueState
<1>7. QED
  BY <1>3, <1>4, <1>5, <1>6 DEF ChipNotifies, DueState, TypeOK, Progress

(* Downloads are bounded by the retries, and the chip comes up only with   *)
(* the notification that it owes.                                          *)
LEMMA TypeOKStep == TypeInv /\ [Next]_vars => TypeOK'
<1>. SUFFICES ASSUME TypeInv, [Next]_vars PROVE TypeOK'
  OBVIOUS
<1>. USE CoreInitAssumption, CommandTable, WaitTable DEF TypeInv, TypeOK,
   WaitNames, CommandNames
<1>1. CASE CoreInitialization
  <2>1. UNCHANGED <<cmd, rsp, configs, fwd_retry_count, downloads, cookie,
                    uwbc_device_state, uwb_binding_status, reading, deadPost, chip,
                    result>>
    BY <1>1 DEF CoreInitialization, apiVars, chipVars, tellVars, tmlVars
  <2>2. /\ tokens' \in [Semaphores -> Nat] /\ live' = InitSemaphores
        /\ uwb_device_initialized' = FALSE /\ api' = "download"
    BY <1>1 DEF CoreInitialization
  <2>3. api' \in {"download"} /\ live' \in {InitSemaphores}
    BY <2>2
  <2>4. QED
    BY <2>1, <2>2, <2>3
<1>2. CASE Download
  <2>1. fwd_retry_count <= FWD_MAX_RETRY_COUNT /\ downloads = fwd_retry_count
    BY <1>2 DEF Download, Beginning
  <2>2. downloads' \in 0 .. FWD_MAX_RETRY_COUNT + 1
    BY <1>2, <2>1 DEF Download
  <2>3. fwd_retry_count' \in 0 .. FWD_MAX_RETRY_COUNT + 1
    BY <1>2, <2>1 DEF Download
  <2>4. api' \in {"read", "failure", "download"} /\ chip' \in {chip, "boot"}
    BY <1>2 DEF Download
  <2>5. /\ UNCHANGED <<cmd, rsp, configs, tokens, live, cookie, reading, deadPost,
                       uwb_device_initialized, result>>
        /\ uwbc_device_state' = "ERROR" /\ uwb_binding_status' = "UNKNOWN"
    BY <1>2 DEF Download, semVars, tmlVars, tellVars
  <2>6. QED
    BY <2>2, <2>3, <2>4, <2>5 DEF Progress, AnyState
<1>3. CASE FirstRead
  BY <1>3
    DEF FirstRead, apiVars, semVars, devVars, tmlVars, chipVars, faultVars,
        tellVars
<1>4. CASE TimedWait
  BY <1>4 DEF TimedWait, NoFault, Fault, Wait, apiVars, devVars, tmlVars,
     chipVars, tellVars, InitSemaphores, Semaphores
<1>5. CASE Send
  BY <1>5
    DEF Send, SendCommand, apiVars, semVars, devVars, tmlVars, chipVars,
        faultVars, tellVars
<1>6. CASE Configure
  BY <1>6
    DEF Configure, SendCommand, apiVars, semVars, devVars, tmlVars, chipVars,
        faultVars, tellVars
<1>7. CASE Configured
  BY <1>7
    DEF Configured, apiVars, semVars, devVars, tmlVars, chipVars, faultVars,
        tellVars
<1>8. CASE ReadOtp
  BY <1>8 DEF ReadOtp, SendCommand, LiveState, Awaiting, InitSemaphores,
     Semaphores, devVars, tmlVars, tellVars
<1>9. CASE OtpEnd
  BY <1>9 DEF OtpEnd, LiveState, Awaiting, InitSemaphores, Semaphores, apiVars,
     devVars, tmlVars, chipVars, tellVars
<1>10. CASE Await
  BY <1>10 DEF Await, After, CommandState, semVars, devVars, chipVars,
     tellVars, tmlVars
<1>11. CASE ParseBindingStatusNtf
  BY <1>11 DEF ParseBindingStatusNtf, apiVars, semVars, devVars, tmlVars,
     chipVars, tellVars
<1>12. CASE Bound
  BY <1>12
    DEF Bound, apiVars, semVars, devVars, tmlVars, chipVars, faultVars,
        tellVars
<1>13. CASE TellBinding
  BY <1>13
    DEF TellBinding, apiVars, semVars, devVars, tmlVars, chipVars, faultVars,
        tellVars
<1>14. CASE Done
  BY <1>14
    DEF Done, apiVars, semVars, devVars, tmlVars, chipVars, faultVars,
        tellVars
<1>15. CASE Ready
  BY <1>15
    DEF Ready, apiVars, semVars, devVars, tmlVars, chipVars, faultVars,
        tellVars
<1>16. CASE Failure
  BY <1>16
    DEF Failure, apiVars, semVars, devVars, tmlVars, chipVars, faultVars,
        tellVars
<1>17. CASE Cleanup
  BY <1>17
    DEF Cleanup, apiVars, semVars, devVars, tmlVars, chipVars, faultVars,
        tellVars
<1>18. CASE Return
  BY <1>18
    DEF Return, apiVars, semVars, devVars, tmlVars, chipVars, faultVars,
        tellVars
<1>19. CASE ReaderPosts
  BY <1>19, ZenonT(40)
    DEF ReaderPosts, apiVars, semVars, devVars, tmlVars, chipVars, faultVars,
        tellVars
<1>20. CASE ClientTakes
  <2>1. Head(queue) \in Messages
    BY <1>20, TakesFlow, Sets
  <2>2. /\ Head(queue).type = "dev_status" => Head(queue).status \in AnyState
        /\ Head(queue).type \in BindingTypes => Head(queue).status \in Bindings
    BY <2>1, Kinds
  <2>3. uwbc_device_state' \in AnyState
    BY <1>20, <2>2 DEF ClientTakes, devVars
  <2>4. uwb_binding_status' \in {"NOT_BOUND", "UNLOCKED", "LOCKED", "UNKNOWN"}
    BY <1>20, <2>2 DEF ClientTakes, devVars, Bindings, BindingTypes,
       InitSemaphores
  <2>5. UNCHANGED <<api, cmd, rsp, configs, fwd_retry_count, downloads, tokens,
                    live, reading, uwb_device_initialized, chip, result>>
    BY <1>20 DEF ClientTakes, apiVars, devVars, chipVars
  <2>6. cookie' \in {cookie, "valid"} /\ deadPost' \in BOOLEAN
    BY <1>20 DEF ClientTakes, TakeCalibData
  <2>7. QED
    BY <2>3, <2>4, <2>5, <2>6
<1>21. CASE ClientFinishes
  <2>1. client \in Messages
    BY DEF MessageType, Messages
  <2>2. client.type = "rsp" => client.status \in Answers
    BY <2>1, Kinds
  <2>3. tokens' \in [Semaphores -> Nat]
    BY <1>21 DEF ClientFinishes
  <2>4. QED
    BY <1>21, <2>2, <2>3 DEF ClientFinishes, Answers, devVars, chipVars
<1>22. CASE ChipReplies
  <2>1. chip' \in {chip, "configured", "restarting"}
    BY <1>22 DEF ChipReplies, Effect
  <2>2. QED
    BY <1>22, <2>1 DEF ChipReplies, Progress, apiVars, semVars, devVars,
       tmlVars, tellVars
<1>23. CASE ChipNotifies
  <2>1. chip' \in {chip, "init", "ready", "running"}
    BY <1>23 DEF ChipNotifies, Progress
  <2>2. QED
    BY <1>23, <2>1 DEF ChipNotifies, apiVars, semVars, devVars, tmlVars,
       tellVars
<1>24. CASE ChipCrashes
  BY <1>24
    DEF ChipCrashes, Fault, apiVars, semVars, devVars, tmlVars, chipVars,
        faultVars, tellVars
<1>25. CASE UNCHANGED vars
  BY <1>25 DEF vars, apiVars, semVars, devVars, tmlVars, chipVars, tellVars
<1>26. QED
  BY <1>1, <1>2, <1>3, <1>4, <1>5, <1>6, <1>7, <1>8, <1>9, <1>10, <1>11,
     <1>12, <1>13, <1>14, <1>15, <1>16, <1>17, <1>18, <1>19, <1>20, <1>21,
     <1>22, <1>23, <1>24, <1>25
    DEF Next, Api, ClientThread, Chip, apiVars, semVars, devVars, tmlVars,
        chipVars, faultVars, tellVars

(* One answer at most belongs to the command that waits.                   *)
LEMMA CommandStateStep == TypeInv /\ [Next]_vars => CommandState'
<1>. SUFFICES ASSUME TypeInv, [Next]_vars PROVE CommandState'
  OBVIOUS
<1>. USE DEF TypeInv, CommandState
<1>0. Num(Responses) \in Nat /\ Flow(rx', queue', client', Responses) \in Nat
  BY FlowTypes, MessageTypeStep, NextFlow
<1>1. CASE CoreInitialization \/ Download \/ FirstRead
  BY <1>0, <1>1
    DEF CoreInitialization, Download, Fault, NoFault, FirstRead, apiVars,
        semVars, devVars, tmlVars, chipVars, faultVars, tellVars, One, Num
<1>2. CASE Configured \/ OtpEnd \/ ParseBindingStatusNtf \/ Bound
  BY <1>0, <1>2
    DEF Configured, OtpEnd, ParseBindingStatusNtf, Bound, apiVars, semVars,
        devVars, tmlVars, chipVars, faultVars, tellVars, One, Num
<1>3. CASE TellBinding \/ Ready \/ Cleanup \/ Return
  BY <1>0, <1>3
    DEF TellBinding, Ready, Cleanup, Return, apiVars, semVars, devVars,
        tmlVars, chipVars, faultVars, tellVars, One, Num
<1>4. CASE TimedWait
  <2>1. api' # "await" /\ api # "await"
    BY <1>4, WaitTable DEF TimedWait, WaitNames, Wait
  <2>2. QED
    BY <1>0, <1>4, <2>1 DEF TimedWait, apiVars, tmlVars, chipVars, Num, One
<1>5. CASE Send
  <2>1. api \in CommandNames
    BY <1>5, CommandTable DEF Send
  <2>2. QED
    BY <1>0, <1>5, <2>1 DEF Send, SendCommand, tmlVars, Num, One, CommandNames
<1>6. CASE Configure
  BY <1>0, <1>6
    DEF Configure, SendCommand, apiVars, semVars, devVars, tmlVars, chipVars,
        faultVars, tellVars, One, Num
<1>7. CASE ReadOtp
  BY <1>0, <1>7
    DEF ReadOtp, SendCommand, apiVars, semVars, devVars, tmlVars, chipVars,
        faultVars, tellVars, One, Num
<1>8. CASE Await
  <2>1. api' # "await"
    BY <1>8, CommandTable DEF Await, After, TypeOK, CommandNames
  <2>2. rsp = "none" => Num(Responses) = 0 /\ reply = "none"
    <3>1. ASSUME rsp = "none"
          PROVE  reply = "none" /\ ~UnderWay("rsp")
      BY <1>8, <3>1 DEF Await
    <3>2. QED
      BY <3>1, NotUnderWay, Sets, Kinds
  <2>3. QED
    BY <1>0, <1>8, <2>1, <2>2 DEF Await, tmlVars, chipVars, Num, One
<1>9. CASE Done
  <2>1. Flow(rx', queue', client', Responses) = Num(Responses)
    BY <1>9, AnnounceFlow, Sets DEF Done, Results, chipVars
  <2>2. QED
    BY <1>0, <1>9, <2>1 DEF Done, apiVars, chipVars, Num, One
<1>10. CASE Failure
  <2>1. Flow(rx', queue', client', Responses) = Num(Responses)
    BY <1>10, AnnounceFlow, Sets DEF Failure, Results, chipVars
  <2>2. QED
    BY <1>0, <1>10, <2>1 DEF Failure, apiVars, chipVars, Num, One
<1>11. CASE ReaderPosts
  <2>1. Flow(rx', queue', client', Responses) = Num(Responses)
    BY <1>11, ReaderFlow
  <2>2. QED
    BY <1>0, <1>11, <2>1 DEF ReaderPosts, apiVars, Num, One
<1>12. CASE ClientTakes
  <2>1. Flow(rx', queue', client', Responses) <= Num(Responses)
    <3>1. client' \in Responses => Head(queue) \in Responses
      BY <1>12, TakesFlow, Kinds, Sets DEF ClientTakes, TakeCalibData, Message
    <3>2. QED
      BY <1>0, <3>1, <1>12, TakesFlow, Sets DEF One
  <2>2. QED
    BY <1>0, <1>12, <2>1 DEF ClientTakes, apiVars, chipVars, Num, One
<1>13. CASE ClientFinishes
  <2>1. /\ Flow(rx', queue', client', Responses) + One(client \in Responses) = Num(Responses)
        /\ client \in Responses <=> client.type = "rsp"
    BY <1>13, FinishFlow, Kinds, Sets DEF MessageType, Messages
  <2>2. QED
    BY <1>0, <1>13, <2>1 DEF ClientFinishes, chipVars, Num, One
<1>14. CASE ChipReplies
  <2>1. CASE rx' = rx
    BY <1>0, <1>14, <2>1 DEF ChipReplies, apiVars, tmlVars, Num, One
  <2>2. ASSUME NEW status \in Answers, rx' = Append(rx, Message("rsp", status))
        PROVE  CommandState'
    <3>1. Flow(rx', queue', client', Responses) = Num(Responses) + 1
      BY <1>14, <2>2, SendFlow, Sets DEF ChipReplies, tmlVars, One
    <3>2. QED
      BY <1>0, <1>14, <3>1 DEF ChipReplies, apiVars, tmlVars, Num, One
  <2>3. QED
    BY <1>14, <2>1, <2>2 DEF ChipReplies, Answers
<1>15. CASE ChipNotifies
  <2>1. Head(due) \notin Responses
    BY <1>15, NotifyFlow DEF Notifications, Responses, BindingTypes
  <2>2. Flow(rx', queue', client', Responses) = Num(Responses)
    BY <1>0, <1>15, <2>1, NotifyFlow DEF One
  <2>3. QED
    BY <1>0, <1>15, <2>2 DEF ChipNotifies, apiVars, Num, One
<1>16. CASE ChipCrashes
  <2>1. Message("dev_status", "ERROR") \in Packets \ Responses
    BY Sets DEF Responses, Message
  <2>2. Flow(rx', queue', client', Responses) = Num(Responses)
    BY <1>0, <1>16, <2>1, SendFlow DEF ChipCrashes, tmlVars, One
  <2>3. QED
    BY <1>0, <1>16, <2>2 DEF ChipCrashes, apiVars, Num, One
<1>17. CASE UNCHANGED vars
  BY <1>0, <1>17
    DEF vars, apiVars, semVars, devVars, tmlVars, chipVars, faultVars,
        tellVars, One, Num
<1>18. QED
  BY <1>1, <1>2, <1>3, <1>4, <1>5, <1>6, <1>7, <1>8, <1>9, <1>10, <1>11,
     <1>12, <1>13, <1>14, <1>15, <1>16, <1>17
    DEF Next, Api, ClientThread, Chip, apiVars, semVars, devVars, tmlVars,
        chipVars, faultVars, tellVars

(* The semaphores live from the beginning of the call to its end, that of  *)
(* the OTP read only while it waits.                                       *)
LEMMA LiveStateStep == TypeInv /\ [Next]_vars => LiveState'
<1>. SUFFICES ASSUME TypeInv, [Next]_vars PROVE LiveState'
  OBVIOUS
<1>. USE DEF TypeInv, LiveState, Awaiting
<1>1. CASE CoreInitialization \/ Download \/ FirstRead
  BY <1>1
    DEF CoreInitialization, Download, Fault, NoFault, FirstRead, apiVars,
        semVars, devVars, tmlVars, chipVars, faultVars, tellVars
<1>2. CASE TellBinding \/ Ready \/ Cleanup \/ Return
  BY <1>2
    DEF TellBinding, Ready, Cleanup, Return, apiVars, semVars, devVars,
        tmlVars, chipVars, faultVars, tellVars
<1>3. CASE Done \/ Failure
  BY <1>3
    DEF Done, Failure, apiVars, semVars, devVars, tmlVars, chipVars,
        faultVars, tellVars
<1>4. CASE ReaderPosts \/ ClientFinishes \/ ClientTakes
  BY <1>4
    DEF ReaderPosts, ClientFinishes, ClientTakes, TakeCalibData, apiVars,
        semVars, devVars, tmlVars, chipVars, faultVars, tellVars
<1>5. CASE ChipReplies \/ ChipNotifies \/ ChipCrashes
  BY <1>5
    DEF ChipReplies, Fault, NoFault, ChipNotifies, ChipCrashes, apiVars,
        semVars, devVars, tmlVars, chipVars, faultVars, tellVars
<1>6. CASE TimedWait
  <2>1. uwbc_device_state \in AnyState
    BY DEF TypeOK
  <2>2. QED
    BY <1>6, <2>1, WaitTable DEF TimedWait, WaitNames, Wait, apiVars
<1>7. CASE Await
  <2>1. cmd \in CommandNames
    BY <1>7, CommandTable DEF Await, CommandState, TypeOK
  <2>2. QED
    BY <1>7, <2>1, CommandTable DEF Await, After, CommandNames, semVars,
       devVars,
       tmlVars, chipVars
<1>8. CASE Configured
  BY <1>8
    DEF Configured, apiVars, semVars, devVars, tmlVars, chipVars, faultVars,
        tellVars
<1>9. CASE OtpEnd
  BY <1>9 DEF OtpEnd, InitSemaphores, Semaphores, apiVars
<1>10. CASE ParseBindingStatusNtf
  BY <1>10
    DEF ParseBindingStatusNtf, apiVars, semVars, devVars, tmlVars, chipVars,
        faultVars, tellVars
<1>11. CASE Bound
  BY <1>11
    DEF Bound, apiVars, semVars, devVars, tmlVars, chipVars, faultVars,
        tellVars
<1>12. CASE Send
  <2>1. api \in CommandNames \ {"otp"}
    BY <1>12, CommandTable DEF Send
  <2>2. QED
    BY <1>12, <2>1 DEF Send, SendCommand, CommandNames, semVars, devVars,
       tmlVars
<1>13. CASE Configure
  BY <1>13
    DEF Configure, SendCommand, apiVars, semVars, devVars, tmlVars, chipVars,
        faultVars, tellVars
<1>14. CASE ReadOtp
  BY <1>14 DEF ReadOtp, SendCommand, InitSemaphores, Semaphores
<1>15. CASE UNCHANGED vars
  BY <1>15
    DEF vars, apiVars, semVars, devVars, tmlVars, chipVars, faultVars,
        tellVars
<1>16. QED
  BY <1>1, <1>2, <1>3, <1>4, <1>5, <1>6, <1>7, <1>8, <1>9, <1>10, <1>11,
     <1>12, <1>13, <1>14, <1>15
    DEF Next, Api, ClientThread, Chip, apiVars, semVars, devVars, tmlVars,
        chipVars, faultVars, tellVars

(* Nothing is read before the first read, and the device is initialised    *)
(* last.                                                                   *)
LEMMA BeginningStep == TypeInv /\ [Next]_vars => Beginning'
<1>. SUFFICES ASSUME TypeInv, [Next]_vars PROVE Beginning'
  OBVIOUS
<1>. USE DEF TypeInv, Beginning
<1>1. CASE Configured \/ OtpEnd \/ ParseBindingStatusNtf \/ Bound
  BY <1>1
    DEF Configured, OtpEnd, ParseBindingStatusNtf, Bound, apiVars, semVars,
        devVars, tmlVars, chipVars, faultVars, tellVars
<1>2. CASE TellBinding \/ Ready \/ Cleanup \/ Return
  BY <1>2
    DEF TellBinding, Ready, Cleanup, Return, apiVars, semVars, devVars,
        tmlVars, chipVars, faultVars, tellVars
<1>3. CASE Done \/ Failure
  BY <1>3
    DEF Done, Failure, apiVars, semVars, devVars, tmlVars, chipVars,
        faultVars, tellVars
<1>4. CASE ReaderPosts \/ ClientFinishes \/ ClientTakes
  BY <1>4
    DEF ReaderPosts, ClientFinishes, ClientTakes, TakeCalibData, apiVars,
        semVars, devVars, tmlVars, chipVars, faultVars, tellVars
<1>5. CASE TimedWait
  BY <1>5, WaitTable DEF TimedWait, WaitNames, Wait, apiVars, devVars, tmlVars,
     chipVars
<1>6. CASE Await
  <2>1. cmd \in CommandNames
    BY <1>6, CommandTable DEF Await, CommandState, TypeOK
  <2>2. QED
    BY <1>6, <2>1, CommandTable DEF Await, After, CommandNames, semVars,
       devVars,
       tmlVars, chipVars
<1>7. CASE CoreInitialization
  BY <1>7 DEF CoreInitialization, Semaphores, InitSemaphores, apiVars,
     chipVars, tmlVars
<1>8. CASE Download
  BY <1>8, CoreInitAssumption DEF Download, Fault, NoFault, semVars, tmlVars,
     TypeOK
<1>9. CASE FirstRead
  BY <1>9
    DEF FirstRead, apiVars, semVars, devVars, tmlVars, chipVars, faultVars,
        tellVars
<1>10. CASE ChipReplies
  <2>1. api = "await"
    BY <1>10 DEF ChipReplies, CommandState
  <2>2. QED
    BY <1>10, <2>1 DEF ChipReplies, apiVars, semVars, devVars
<1>11. CASE ChipNotifies
  <2>1. api \notin {"start", "download"}
    BY <1>11 DEF ChipNotifies
  <2>2. QED
    BY <1>11, <2>1 DEF ChipNotifies, apiVars, semVars, devVars, tmlVars
<1>12. CASE ChipCrashes
  BY <1>12
    DEF ChipCrashes, Fault, apiVars, semVars, devVars, tmlVars, chipVars,
        faultVars, tellVars
<1>13. CASE Send
  <2>1. api \in CommandNames \ {"otp"}
    BY <1>13, CommandTable DEF Send
  <2>2. QED
    BY <1>13, <2>1 DEF Send, SendCommand, CommandNames, semVars, devVars,
       tmlVars
<1>14. CASE Configure
  BY <1>14
    DEF Configure, SendCommand, apiVars, semVars, devVars, tmlVars, chipVars,
        faultVars, tellVars
<1>15. CASE ReadOtp
  BY <1>15
    DEF ReadOtp, SendCommand, apiVars, semVars, devVars, tmlVars, chipVars,
        faultVars, tellVars
<1>16. CASE UNCHANGED vars
  BY <1>16
    DEF vars, apiVars, semVars, devVars, tmlVars, chipVars, faultVars,
        tellVars
<1>17. QED
  BY <1>1, <1>2, <1>3, <1>4, <1>5, <1>6, <1>7, <1>8, <1>9, <1>10, <1>11,
     <1>12, <1>13, <1>14, <1>15, <1>16
    DEF Next, Api, ClientThread, Chip, apiVars, semVars, devVars, tmlVars,
        chipVars, faultVars, tellVars

-----------------------------------------------------------------------------
(* The positive answer of a command, from the chip to the API thread.       *)
LEMMA OkNone ==
  TypeInv => /\ reply # "none" => Ok = 0 /\ rsp = "none" /\ api = "await"
             /\ api # "await" => Num(Responses) = 0 /\ Num(OkAnswer) = 0 /\ Ok = 0
             /\ Ok \in {0, 1}
<1>. SUFFICES ASSUME TypeInv
              PROVE  /\ reply # "none" => Ok = 0 /\ rsp = "none" /\ api = "await"
                     /\ api # "await" =>
                          Num(Responses) = 0 /\ Num(OkAnswer) = 0 /\ Ok = 0
                     /\ Ok \in {0, 1}
  OBVIOUS
<1>1. /\ Num(Responses) \in Nat /\ Num(OkAnswer) \in Nat
      /\ Num(OkAnswer) <= Num(Responses)
  BY FlowTypes, Sets DEF TypeInv
<1>2. QED
  BY <1>1 DEF TypeInv, CommandState, Ok, One

LEMMA OkSend ==
  ASSUME TypeInv, api # "await", NEW c, SendCommand(c), UNCHANGED <<rx, queue, client>>
  PROVE  Ok' = 0
  BY OkNone DEF SendCommand, Ok, Num, One

LEMMA OkKept ==
  ASSUME TypeInv, ReaderPosts \/ ClientTakes \/ ClientFinishes \/ ChipNotifies \/ ChipCrashes
  PROVE  Ok' = Ok /\ UNCHANGED <<api, cmd, reply, bound>>
<1>. USE DEF TypeInv
<1>0. /\ UNCHANGED <<api, cmd, reply, bound>>
      /\ Num(OkAnswer) \in Nat /\ Num(Responses) \in Nat
      /\ MessageType /\ OkAnswer \subseteq Packets
  BY FlowTypes, Sets DEF ReaderPosts, ClientTakes, ClientFinishes, ChipNotifies,
     ChipCrashes, apiVars, chipVars
<1>1. CASE ReaderPosts
  <2>1. Flow(rx', queue', client', OkAnswer) = Num(OkAnswer)
    BY <1>1, ReaderFlow
  <2>2. QED
    BY <1>0, <1>1, <2>1 DEF ReaderPosts, apiVars, Ok, Num
<1>2. CASE ClientTakes
  <2>1. client' \in OkAnswer <=> Head(queue) \in OkAnswer
    BY <1>2, TakesFlow, Kinds, Sets DEF ClientTakes, TakeCalibData, Message,
       OkAnswer, Idle
  <2>2. MessageType'
    BY <1>2, MessageTypeStep DEF Next, ClientThread
  <2>3. Flow(rx', queue', client', OkAnswer) = Num(OkAnswer)
    BY <1>0, <1>2, <2>1, <2>2, TakesFlow, NextFlow DEF One
  <2>4. QED
    BY <1>0, <1>2, <2>3 DEF ClientTakes, apiVars, Ok, Num
<1>3. CASE ClientFinishes
  <2>1. client \in Messages
    BY DEF MessageType, Messages
  <2>2. /\ client \in OkAnswer <=> client.type = "rsp" /\ client.status = "ok"
        /\ client \in Responses <=> client.type = "rsp"
    BY <2>1, Kinds
  <2>3. MessageType'
    BY <1>3, MessageTypeStep DEF Next, ClientThread
  <2>4. /\ Flow(rx', queue', client', OkAnswer) + One(client \in OkAnswer) = Num(OkAnswer)
        /\ Flow(rx', queue', client', Responses) + One(client \in Responses) = Num(Responses)
        /\ Flow(rx', queue', client', OkAnswer) \in Nat
        /\ Flow(rx', queue', client', Responses) \in Nat
    BY <1>3, <2>3, FinishFlow, NextFlow, Sets
  <2>5. client.type = "rsp" => api = "await" /\ rsp = "none"
    BY <1>0, <2>2, <2>4 DEF CommandState, One
  <2>6. rsp' = IF client.type = "rsp" THEN client.status ELSE rsp
    BY <1>3 DEF ClientFinishes
  <2>7. QED
    BY <1>0, <2>2, <2>4, <2>5, <2>6 DEF Ok, Num, One
<1>4. CASE ChipNotifies
  <2>1. Head(due) \notin OkAnswer
    BY <1>4, NotifyFlow DEF Notifications, OkAnswer, Message, BindingTypes
  <2>2. Flow(rx', queue', client', OkAnswer) = Num(OkAnswer)
    BY <1>0, <1>4, <2>1, NotifyFlow DEF One
  <2>3. QED
    BY <1>0, <1>4, <2>2 DEF ChipNotifies, apiVars, Ok, Num
<1>5. CASE ChipCrashes
  <2>1. Message("dev_status", "ERROR") \in Packets \ OkAnswer
    BY Sets DEF OkAnswer, Message
  <2>2. Flow(rx', queue', client', OkAnswer) = Num(OkAnswer)
    BY <1>0, <1>5, <2>1, SendFlow DEF ChipCrashes, tmlVars, One
  <2>3. QED
    BY <1>0, <1>5, <2>2 DEF ChipCrashes, apiVars, Ok, Num
<1>6. QED
  BY <1>0, <1>1, <1>2, <1>3, <1>4, <1>5

(* A command that waits for its reply is carried out, or nothing changes.  *)
LEMMA AnyReply ==
  ASSUME TypeInv, ChipReplies
  PROVE  /\ api = "await" /\ cmd = reply /\ cmd \in CommandNames
         /\ UNCHANGED <<api, cmd, rsp>> /\ reply' \in {"none", reply}
         /\ Effect(cmd) \/ UNCHANGED <<chip, bound, due>>
<1>1. api = "await" /\ cmd = reply /\ UNCHANGED <<api, cmd, rsp>>
  BY DEF TypeInv, ChipReplies, CommandState, apiVars
<1>2. cmd \in CommandNames
  BY <1>1, CommandTable DEF TypeInv, ChipReplies, TypeOK
<1>3. QED
  BY <1>1, <1>2 DEF ChipReplies

(* A reply is positive, a refusal, or lost with the command.               *)
LEMMA OkReply ==
  ASSUME TypeInv, ChipReplies, AllHeard'
  PROVE  /\ api = "await" /\ cmd = reply /\ cmd \in CommandNames /\ rsp = "none"
         /\ Ok = 0 /\ reply' = "none" /\ UNCHANGED <<api, cmd, rsp>>
         /\ \/ /\ NoFault /\ Effect(cmd) /\ rx' = Append(rx, Message("rsp", "ok"))
               /\ Ok' = 1
            \/ /\ Fault("nak") /\ rx' = Append(rx, Message("rsp", "failed"))
               /\ UNCHANGED <<chip, bound, due>> /\ Ok' = 0
            \/ Fault("silent") /\ UNCHANGED <<rx, chip, bound, due>> /\ Ok' = 0
<1>. USE DEF TypeInv
<1>0. ~(Fault("unheard"))
  BY DEF Fault, AllHeard
<1>1. /\ api = "await" /\ cmd = reply /\ rsp = "none" /\ Ok = 0 /\ reply' = "none"
      /\ UNCHANGED <<api, cmd, rsp, queue, client>>
  BY <1>0, OkNone DEF ChipReplies, CommandState, apiVars, tmlVars
<1>2. cmd \in CommandNames
  BY <1>1, CommandTable DEF ChipReplies, TypeOK
<1>3. Num(OkAnswer) \in Nat /\ Num(OkAnswer) = 0
  BY <1>1, FlowTypes DEF Ok, One
<1>4. CASE NoFault /\ Effect(reply) /\ rx' = Append(rx, Message("rsp", "ok"))
  <2>1. Flow(rx', queue', client', OkAnswer) = 1
    BY <1>1, <1>3, <1>4, SendFlow, Sets DEF OkAnswer, Answers, One
  <2>2. QED
    BY <1>1, <1>2, <1>4, <2>1 DEF Ok, Num, One
<1>5. CASE /\ Fault("nak") /\ rx' = Append(rx, Message("rsp", "failed"))
           /\ UNCHANGED <<chip, bound, due>>
  <2>1. Message("rsp", "failed") \in Packets \ OkAnswer
    BY Sets DEF OkAnswer, Message, Answers
  <2>2. Flow(rx', queue', client', OkAnswer) = 0
    BY <1>1, <1>3, <1>5, <2>1, SendFlow DEF One
  <2>3. QED
    BY <1>1, <1>2, <1>5, <2>2 DEF Ok, Num, One
<1>6. CASE Fault("silent") /\ UNCHANGED <<rx, chip, bound, due>>
  BY <1>1, <1>2, <1>3, <1>6 DEF Ok, Num, One
<1>7. QED
  BY <1>0, <1>4, <1>5, <1>6 DEF ChipReplies

(* A command is left with its positive answer, or without one.             *)
LEMMA OkAwait ==
  ASSUME TypeInv, Await
  PROVE  /\ cmd \in CommandNames /\ api = "await" /\ reply = "none"
         /\ rsp = "ok" => Ok > 0 /\ api' = Commands[cmd].ok
         /\ rsp # "ok" => Ok = 0 /\ api' = Commands[cmd].failed
         /\ api' # "await"
<1>. USE DEF TypeInv
<1>1. cmd \in CommandNames
  BY CommandTable DEF Await, CommandState, TypeOK
<1>2. Num(OkAnswer) \in Nat /\ Num(Responses) \in Nat /\ Num(OkAnswer) <= Num(Responses)
  BY FlowTypes, Sets
<1>3. ASSUME rsp = "none" PROVE Num(Responses) = 0 /\ reply = "none"
  <2>1. reply = "none" /\ ~UnderWay("rsp")
    BY <1>3 DEF Await
  <2>2. QED
    BY <2>1, NotUnderWay, Sets, Kinds
<1>4. api' # "await"
  BY <1>1, CommandTable DEF Await, After, CommandNames
<1>5. QED
  BY <1>1, <1>2, <1>3, <1>4 DEF Await, CommandState, Ok, One, TypeOK

(* The call goes on only when the chip has told that it has.                *)
LEMMA ChipStateStep == TypeInv /\ [Next]_vars /\ AllHeard' => ChipState'
<1>. SUFFICES ASSUME TypeInv, AllHeard, [Next]_vars, AllHeard' PROVE ChipState'
  BY HeardBefore
<1>. /\ TypeOK /\ MessageType /\ CommandState /\ LiveState /\ Beginning
     /\ ChipState /\ DueState
  BY DEF TypeInv
<1>. USE DEF ChipState, Later, Awaiting, Started, Over
<1>1. CASE Configured \/ OtpEnd \/ ParseBindingStatusNtf \/ Bound
  BY <1>1
    DEF Configured, OtpEnd, ParseBindingStatusNtf, Bound, apiVars, semVars,
        devVars, tmlVars, chipVars, faultVars, tellVars
<1>2. CASE TellBinding \/ Ready \/ Cleanup \/ Return
  BY <1>2
    DEF TellBinding, Ready, Cleanup, Return, apiVars, semVars, devVars,
        tmlVars, chipVars, faultVars, tellVars
<1>3. CASE Done \/ Failure
  BY <1>3
    DEF Done, Failure, apiVars, semVars, devVars, tmlVars, chipVars,
        faultVars, tellVars
<1>4. CASE TimedWait
  <2>1. /\ chip = "boot" => tokens["dev_status"] = 0
        /\ chip = "configured" => uwbc_device_state # "READY"
    BY DEF DueState
  <2>2. QED
    BY <1>4, <2>1, WaitTable DEF TimedWait, WaitNames, Wait, apiVars, devVars,
       tmlVars,
       chipVars
<1>5. CASE Send
  <2>1. api \in CommandNames \ {"otp"}
    BY <1>5, CommandTable DEF Send
  <2>2. Ok' = 0
    BY <1>5, <2>1, OkSend DEF Send, tmlVars, CommandNames
  <2>3. QED
    BY <1>5, <2>1, <2>2 DEF Send, SendCommand, CommandNames, devVars
<1>6. CASE Configure
  <2>1. Ok' = 0
    BY <1>6, OkSend DEF Configure, tmlVars
  <2>2. QED
    BY <1>6, <2>1 DEF Configure, SendCommand, devVars
<1>7. CASE ReadOtp
  <2>1. Ok' = 0
    BY <1>7, OkSend DEF ReadOtp, tmlVars
  <2>2. QED
    BY <1>7, <2>1 DEF ReadOtp, SendCommand, devVars
<1>8. CASE Await
  BY <1>8, OkAwait, CommandTable DEF Await, After, CommandNames, devVars,
     chipVars
<1>9. CASE ReaderPosts
  <2>1. Ok' = Ok /\ UNCHANGED <<api, cmd, reply>>
    BY <1>9, OkKept
  <2>2. QED
    BY <1>9, <2>1 DEF ReaderPosts, devVars
<1>10. CASE ClientTakes
  <2>1. Ok' = Ok /\ UNCHANGED <<api, cmd, reply>>
    BY <1>10, OkKept
  <2>2. QED
    BY <1>10, <2>1 DEF ClientTakes, chipVars, devVars
<1>11. CASE ClientFinishes
  <2>1. Ok' = Ok /\ UNCHANGED <<api, cmd, reply>>
    BY <1>11, OkKept
  <2>2. QED
    BY <1>11, <2>1 DEF ClientFinishes, chipVars, devVars
<1>12. CASE ChipReplies
  <2>1. CASE NoFault /\ Effect(cmd) /\ Ok' = 1
    <3>1. chip' = CASE cmd = "board" -> "configured"
                    [] cmd = "reset" -> "restarting" [] OTHER -> chip
      BY <2>1 DEF Effect
    <3>2. QED
      BY <1>12, OkReply, <2>1, <3>1 DEF ChipReplies, devVars
  <2>2. CASE UNCHANGED <<chip, bound, due>> /\ Ok' = 0
    BY <1>12, OkReply, <2>2 DEF ChipReplies, devVars
  <2>3. QED
    BY <1>12, OkReply, <2>1, <2>2
<1>13. CASE ChipNotifies
  <2>1. Ok' = Ok /\ UNCHANGED <<api, cmd, reply>>
    BY <1>13, OkKept
  <2>2. QED
    BY <1>13, <2>1, ChipProgress DEF ChipNotifies, devVars
<1>14. CASE ChipCrashes
  <2>1. Ok' = Ok /\ UNCHANGED <<api, cmd, reply>>
    BY <1>14, OkKept
  <2>2. QED
    BY <1>14, <2>1 DEF ChipCrashes, devVars
<1>15. CASE CoreInitialization
  BY <1>15 DEF CoreInitialization, Beginning, apiVars, chipVars
<1>16. CASE Download
  BY <1>16 DEF Download, Beginning, apiVars, chipVars
<1>17. CASE FirstRead
  BY <1>17
    DEF FirstRead, apiVars, semVars, devVars, tmlVars, chipVars, faultVars,
        tellVars
<1>18. CASE UNCHANGED vars
  <2>1. Ok' = Ok
    BY <1>18 DEF vars, Ok, Num, apiVars, tmlVars, chipVars
  <2>2. QED
    BY <1>18, <2>1 DEF vars, apiVars, chipVars, devVars
<1>19. QED
  BY <1>1, <1>2, <1>3, <1>4, <1>5, <1>6, <1>7, <1>8, <1>9, <1>10, <1>11,
     <1>12, <1>13, <1>14, <1>15, <1>16, <1>17, <1>18
    DEF Next, Api, ClientThread, Chip, apiVars, semVars, devVars, tmlVars,
        chipVars, faultVars, tellVars

(* What the chip has still to tell is what it has not told.                *)
LEMMA DueStateStep == TypeInv /\ [Next]_vars /\ AllHeard' => DueState'
<1>. SUFFICES ASSUME TypeInv, AllHeard, [Next]_vars, AllHeard' PROVE DueState'
  BY HeardBefore
<1>. /\ TypeOK /\ MessageType /\ CommandState /\ LiveState /\ Beginning
     /\ ChipState /\ DueState
  BY DEF TypeInv
<1>. USE DEF DueState
<1>0. /\ \A S : /\ Num(S) \in Nat /\ Due(S) \in Nat
                  /\ Flow(rx', queue', client', S) \in Nat
                  /\ Count(due', S) \in Nat
      /\ Ntf("dev_status") \subseteq Packets /\ ReadyNtf \subseteq Ntf("dev_status")
      /\ tokens \in [Semaphores -> Nat] /\ "dev_status" \in Semaphores
  BY FlowTypes, NextFlow, MessageTypeStep, Sets DEF TypeOK, Semaphores,
     InitSemaphores
<1>1. CASE Configured \/ OtpEnd \/ ParseBindingStatusNtf \/ Bound
  BY <1>0, <1>1
    DEF Configured, OtpEnd, ParseBindingStatusNtf, Bound, apiVars, semVars,
        devVars, tmlVars, chipVars, faultVars, tellVars, Num, Due
<1>2. CASE TellBinding \/ Ready \/ Cleanup \/ Return
  BY <1>0, <1>2
    DEF TellBinding, Ready, Cleanup, Return, apiVars, semVars, devVars,
        tmlVars, chipVars, faultVars, tellVars, Num, Due
<1>3. CASE TimedWait
  <2>1. tokens["dev_status"] = 0 => tokens'["dev_status"] = 0
    BY <1>0, <1>3 DEF TimedWait
  <2>2. QED
    BY <1>3, <2>1 DEF TimedWait, Num, Due, devVars, tmlVars, chipVars
<1>4. CASE Send
  BY <1>0, <1>4
    DEF Send, SendCommand, apiVars, semVars, devVars, tmlVars, chipVars,
        faultVars, tellVars, Num, Due
<1>5. CASE Configure
  BY <1>0, <1>5
    DEF Configure, SendCommand, apiVars, semVars, devVars, tmlVars, chipVars,
        faultVars, tellVars, Num, Due
<1>6. CASE ReadOtp
  BY <1>0, <1>6
    DEF ReadOtp, SendCommand, apiVars, semVars, devVars, tmlVars, chipVars,
        faultVars, tellVars, Num, Due
<1>7. CASE Await
  BY <1>0, <1>7
    DEF Await, apiVars, semVars, devVars, tmlVars, chipVars, faultVars,
        tellVars, Num, Due
<1>8. CASE ReaderPosts
  <2>1. \A S : Flow(rx', queue', client', S) = Num(S)
    BY <1>8, ReaderFlow
  <2>2. QED
    BY <1>0, <1>8, <2>1 DEF ReaderPosts, Due, Num, semVars, devVars
<1>9. CASE ClientTakes
  <2>1. Head(queue) \in Messages /\ client' \in Messages
    BY <1>9, TakesFlow, Sets
  <2>2. /\ client' \in Ntf("dev_status") => Head(queue) \in Ntf("dev_status")
        /\ client' \in ReadyNtf => Head(queue) \in ReadyNtf
        /\ client' \in ReadyNtf => client' \in Ntf("dev_status")
    <3>1. client' \in {Head(queue), Idle, Message("forward", Head(queue).status)}
      BY <1>9 DEF ClientTakes, TakeCalibData
    <3>2. Idle \notin Packets /\ Message("forward", Head(queue).status) \notin Packets
      BY DEF Idle, Message, Packets, Notifications, Responses, Errors,
         BindingTypes
    <3>3. QED
      BY <1>0, <3>1, <3>2
  <2>3. \A S \in {Ntf("dev_status"), ReadyNtf} : Flow(rx', queue', client', S) <= Num(S)
    <3>1. \A S \in {Ntf("dev_status"), ReadyNtf} :
            Flow(rx', queue', client', S) + One(Head(queue) \in S)
              = Num(S) + One(client' \in S)
      BY <1>0, <1>9, TakesFlow
    <3>2. QED
      BY <1>0, <2>2, <3>1 DEF One
  <2>4. uwbc_device_state' = "READY" =>
          uwbc_device_state = "READY" \/ Head(queue) \in ReadyNtf
    BY <1>9, <2>1, Kinds DEF ClientTakes, devVars
  <2>5. Head(queue) \in ReadyNtf => Num(ReadyNtf) > 0
    BY <1>0, <1>9, <2>2, TakesFlow DEF One
  <2>6. QED
    BY <1>0, <1>9, <2>3, <2>4, <2>5 DEF ClientTakes, Due, Num, chipVars
<1>10. CASE ClientFinishes
  <2>1. client \in Messages
    BY DEF MessageType, Messages
  <2>2. tokens'["dev_status"] # tokens["dev_status"] => client \in Ntf("dev_status")
    BY <1>0, <1>10, <2>1, Kinds DEF ClientFinishes, Posts, TypeOK
  <2>3. \A S \in {Ntf("dev_status"), ReadyNtf} :
          Flow(rx', queue', client', S) <= Num(S) /\ (client \in S => Num(S) > 0)
    BY <1>0, <1>10, FinishFlow DEF One
  <2>4. QED
    BY <1>0, <1>10, <2>2, <2>3 DEF ClientFinishes, Due, Num, chipVars, devVars
<1>11. CASE ChipReplies
  <2>1. \A S \in {Ntf("dev_status"), ReadyNtf} : Flow(rx', queue', client', S) = Num(S)
    <3>1. \A status \in Answers :
            Message("rsp", status) \in Packets \ Ntf("dev_status")
      BY Sets DEF Message, Ntf
    <3>2. CASE rx' = rx
      BY <1>11, <3>2 DEF ChipReplies, tmlVars, Num
    <3>3. ASSUME NEW status \in Answers, rx' = Append(rx, Message("rsp", status))
          PROVE  \A S \in {Ntf("dev_status"), ReadyNtf} :
                   Flow(rx', queue', client', S) = Num(S)
      BY <1>0, <1>11, <3>1, <3>3, SendFlow, SMTT(30) DEF ChipReplies, tmlVars, One
    <3>4. QED
      BY <1>11, <3>2, <3>3 DEF ChipReplies, Answers
  <2>2. CASE UNCHANGED <<chip, due>>
    BY <1>0, <1>11, <2>1, <2>2 DEF ChipReplies, semVars, devVars, Due, Num
  <2>3. CASE Effect(cmd)
    <3>1. cmd \in CommandNames /\ api = "await" /\ cmd = reply
      BY <1>11, OkReply
    <3>2. cmd = "board" => chip = "init" /\ due = <<>>
      BY <3>1 DEF ChipState
    <3>3. cmd = "reset" => chip = "ready" /\ due = <<>>
      BY <3>1 DEF ChipState
    <3>4. cmd \notin {"board", "reset"} => chip \in {"restarting", "running"}
      BY <3>1 DEF ChipState, Later, Awaiting, Started, Over
    <3>5. CASE cmd = "board"
      <4>1. chip' = "configured" /\ due' = <<Message("dev_status", "READY")>>
        BY <2>3, <3>1, <3>2, <3>5, EffectDue DEF Announce
      <4>2. QED
        BY <1>0, <1>11, <2>1, <3>2, <3>5, <4>1 DEF ChipReplies, semVars,
           devVars, Num
    <3>6. CASE cmd = "reset"
      <4>1. chip' = "restarting"
            /\ due' = <<Message("dev_status", "READY"), Message("binding_status", bound)>>
        BY <2>3, <3>1, <3>3, <3>6, EffectDue
      <4>2. Head(due') \in ReadyNtf /\ due' # <<>>
            /\ Tail(due') = <<Message("binding_status", bound)>>
        BY <4>1 DEF ReadyNtf
      <4>3. Message("binding_status", bound) \notin Ntf("dev_status")
        BY DEF Message, Ntf
      <4>4. Tail(due') = Append(<<>>, Message("binding_status", bound))
        BY <4>2
      <4>5. Count(Tail(due'), Ntf("dev_status")) = 0
        <5>1. Message("binding_status", bound) \in Notifications
          BY DEF MessageType, Notifications, Message, BindingTypes
        <5>2. <<>> \in Seq(Notifications)
          OBVIOUS
        <5>3. Count(<<>>, Ntf("dev_status")) = 0
          BY CountNone
        <5>4. Count(Tail(due'), Ntf("dev_status"))
                = Count(<<>>, Ntf("dev_status"))
                    + One(Message("binding_status", bound) \in Ntf("dev_status"))
          BY <4>4, <5>1, <5>2, CountAppend, ZenonT(40)
        <5>5. QED
          BY <4>3, <5>3, <5>4 DEF One
      <4>6. due' \in Seq(Notifications)
        BY <2>3, <3>1, EffectDue
      <4>7. Count(due', Ntf("dev_status")) = 1
        BY <1>0, <4>2, <4>5, <4>6, CountHead DEF One
      <4>8. QED
        BY <1>0, <1>11, <2>1, <4>1, <4>2, <4>7 DEF ChipReplies, Due
    <3>7. CASE cmd \notin {"board", "reset"}
      <4>1. /\ chip' = chip
            /\ \/ due' = due
               \/ \E p \in Notifications \ Ntf("dev_status") : due' = Append(due, p)
        <5>1. chip' = chip
          BY <2>3, <3>1, <3>7, EffectDue
        <5>2. \A type \in Semaphores \ {"dev_status"}, s \in Statuses :
                Message(type, s) \notin Ntf("dev_status")
          BY DEF Message, Ntf
        <5>3. /\ \A b \in Bindings, t \in BindingTypes :
                     Message(t, b) \in Notifications \ Ntf("dev_status")
              /\ \A s \in Answers :
                     Message("calib_data", s) \in Notifications \ Ntf("dev_status")
          BY DEF Message, Ntf, Notifications, BindingTypes
        <5>4. QED
          BY <2>3, <3>1, <3>7, <5>1, <5>3, EffectDue DEF Announce, BindingTypes
      <4>2. Count(due', Ntf("dev_status")) = Due(Ntf("dev_status"))
        <5>1. ASSUME NEW p \in Notifications \ Ntf("dev_status"), due' = Append(due, p)
              PROVE  Count(due', Ntf("dev_status")) = Due(Ntf("dev_status"))
          <6>1. Count(due', Ntf("dev_status"))
                  = Count(due, Ntf("dev_status")) + One(p \in Ntf("dev_status"))
            BY <5>1, CountAppend DEF MessageType
          <6>2. QED
            BY <1>0, <6>1 DEF Due, One
        <5>2. QED
          BY <4>1, <5>1 DEF Due
      <4>3. due # <<>> => due' # <<>> /\ Head(due') = Head(due)
        <5>1. due \in Seq(Notifications)
          BY DEF MessageType
        <5>2. QED
          BY <4>1, <5>1, AppendProperties, HeadTailAppend
      <4>4. QED
        BY <1>0, <3>4, <3>7, <4>1, <4>2, <4>3 DEF Due
    <3>8. QED
      BY <3>5, <3>6, <3>7
  <2>4. QED
    BY <1>11, OkReply, <2>2, <2>3
<1>12. CASE ChipNotifies
  <2>1. /\ Head(due) \in Notifications /\ Head(due) \in Packets
        /\ \A S : /\ Due(S) = Count(due', S) + One(Head(due) \in S)
                  /\ Head(due) \notin S => Flow(rx', queue', client', S) = Num(S)
    BY <1>0, <1>12, NotifyFlow, SMTT(30) DEF One
  <2>2. Head(due) \in Ntf("dev_status") <=> Head(due).type = "dev_status"
    BY <2>1 DEF Ntf
  <2>3. CASE chip = "boot"
    <3>1. Head(due) = Message("dev_status", "INIT") /\ due' = <<>> /\ chip' = "init"
      <4>1. due = <<Message("dev_status", "INIT")>>
        BY <2>3
      <4>2. Head(due) = Message("dev_status", "INIT") /\ Tail(due) = <<>>
        BY <4>1
      <4>3. QED
        BY <1>12, <2>3, <4>2, ProgressTable DEF ChipNotifies, Message
    <3>2. Head(due) \notin ReadyNtf
      BY <3>1 DEF ReadyNtf, Message
    <3>3. QED
      BY <1>0, <1>12, <2>1, <2>3, <3>1, <3>2 DEF ChipNotifies, devVars, Num
  <2>4. CASE chip = "configured"
    <3>1. due' = <<>> /\ chip' = "ready"
      <4>1. due = <<Message("dev_status", "READY")>>
        BY <2>4
      <4>2. Head(due) = Message("dev_status", "READY") /\ Tail(due) = <<>>
        BY <4>1
      <4>3. QED
        BY <1>12, <2>4, <4>2, ProgressTable DEF ChipNotifies, Message
    <3>2. QED
      BY <3>1
  <2>5. CASE chip = "restarting"
    <3>1. Head(due) \in Ntf("dev_status")
      BY <1>0, <2>5
    <3>2. chip' = "running"
      BY <1>12, <2>2, <2>5, <3>1, ProgressTable DEF ChipNotifies
    <3>3. QED
      BY <1>0, <2>1, <2>5, <3>1, <3>2 DEF Due, One
  <2>6. CASE chip = "running"
    <3>1. Head(due) \notin Ntf("dev_status") /\ Count(due', Ntf("dev_status")) = 0
      BY <1>0, <2>1, <2>6 DEF One
    <3>2. chip' = "running"
      BY <2>6, <1>12, ChipProgress
    <3>3. QED
      BY <3>1, <3>2 DEF Due
  <2>7. QED
    BY <1>12, <2>3, <2>4, <2>5, <2>6, ChipProgress
<1>13. CASE ChipCrashes
  <2>1. Message("dev_status", "ERROR") \in Packets \ Ntf("dev_status")
    BY Sets DEF Ntf, Notifications, Message, BindingTypes
  <2>2. \A S \in {Ntf("dev_status"), ReadyNtf} : Flow(rx', queue', client', S) = Num(S)
    BY <1>0, <1>13, <2>1, SendFlow, SMTT(30) DEF ChipCrashes, tmlVars, One
  <2>3. QED
    BY <1>0, <1>13, <2>2 DEF ChipCrashes, semVars, devVars, Due, Num
<1>14. CASE CoreInitialization
  BY <1>0, <1>14 DEF CoreInitialization, Num, Due, tmlVars, chipVars
<1>15. CASE Download
  <2>1. chip = "off" /\ due = <<>>
    BY <1>15 DEF Download, Beginning
  <2>2. QED
    BY <1>0, <1>15, <2>1 DEF Download, Num, Due, tmlVars, semVars
<1>16. CASE FirstRead
  BY <1>0, <1>16
    DEF FirstRead, apiVars, semVars, devVars, tmlVars, chipVars, faultVars,
        tellVars, Num, Due
<1>17. CASE Done
  <2>1. \A S : S \subseteq Packets => Flow(rx', queue', client', S) = Num(S)
    BY <1>17, AnnounceFlow DEF Done, Results, chipVars
  <2>2. QED
    BY <1>0, <1>17, <2>1 DEF Done, Due, Num, semVars, chipVars
<1>18. CASE Failure
  <2>1. \A S : S \subseteq Packets => Flow(rx', queue', client', S) = Num(S)
    BY <1>18, AnnounceFlow DEF Failure, Results, chipVars
  <2>2. QED
    BY <1>0, <1>18, <2>1 DEF Failure, Due, Num, semVars, chipVars, devVars
<1>19. CASE UNCHANGED vars
  BY <1>0, <1>19
    DEF vars, apiVars, semVars, devVars, tmlVars, chipVars, faultVars,
        tellVars, Num, Due
<1>20. QED
  BY <1>1, <1>2, <1>3, <1>4, <1>5, <1>6, <1>7, <1>8, <1>9, <1>10, <1>11,
     <1>12, <1>13, <1>14, <1>15, <1>16, <1>17, <1>18, <1>19
    DEF Next, Api, ClientThread, Chip, apiVars, semVars, devVars, tmlVars,
        chipVars, faultVars, tellVars

-----------------------------------------------------------------------------
(* What happens to the notifications of a semaphore on their way.          *)
NextTotal(sem) == Sum(due', rx', queue', client', tokens', sem)

LEMMA TotalTypes ==
  TypeInv => \A sem \in Semaphores :
               /\ Total(sem) \in Nat /\ tokens[sem] \in Nat
               /\ Num(Ntf(sem)) \in Nat /\ Due(Ntf(sem)) \in Nat
               /\ Total(sem) = Due(Ntf(sem)) + Num(Ntf(sem)) + tokens[sem]
  BY FlowTypes DEF TypeInv, TypeOK, Total, Sum, Num, Due

LEMMA NextTotalTypes ==
  TypeInv' => \A sem \in Semaphores : NextTotal(sem) \in Nat
  BY NextFlow DEF TypeInv, TypeOK, NextTotal, Sum

LEMMA TypeInvStep == TypeInv /\ [Next]_vars => TypeInv'
  BY TypeOKStep, MessageTypeStep, CommandStateStep, LiveStateStep,
     BeginningStep,
     ChipStateStep, DueStateStep DEF TypeInv

LEMMA TotalKept ==
  ASSUME UNCHANGED <<due, rx, queue, client>>, NEW sem, tokens'[sem] = tokens[sem]
  PROVE  NextTotal(sem) = Total(sem)
  BY DEF NextTotal, Total, Sum

LEMMA TotalReader ==
  ASSUME TypeInv, ReaderPosts
  PROVE  \A sem \in Semaphores : NextTotal(sem) = Total(sem)
<1>1. \A S : Flow(rx', queue', client', S) = Num(S)
  BY ReaderFlow DEF TypeInv
<1>2. due' = due /\ tokens' = tokens
  BY DEF ReaderPosts, semVars
<1>3. QED
  BY <1>1, <1>2 DEF NextTotal, Total, Sum, Num

LEMMA TotalAnnounce ==
  ASSUME TypeInv, Done \/ Failure
  PROVE  \A sem \in Semaphores : NextTotal(sem) = Total(sem)
<1>1. \E p \in Results : queue' = Append(queue, p)
  BY DEF Done, Failure, Results
<1>2. UNCHANGED <<rx, client, due, tokens>>
  BY DEF Done, Failure, chipVars, semVars
<1>3. \A S : S \subseteq Packets => Flow(rx', queue', client', S) = Num(S)
  BY <1>1, <1>2, AnnounceFlow DEF TypeInv
<1>4. \A sem : Ntf(sem) \subseteq Packets
  BY Sets
<1>5. QED
  BY <1>2, <1>3, <1>4 DEF NextTotal, Total, Sum, Num

(* A taken packet stays what it was, or no longer counts as a notification. *)
LEMMA TakenIs ==
  ASSUME TypeInv, ClientTakes
  PROVE  /\ Head(queue) \in Messages
         /\ \A S : S \subseteq Packets /\ client' \in S => Head(queue) \in S
         /\ ~uwb_device_initialized => \A S : S \subseteq Ntf("dev_status") /\ Head(queue) \in S => client' \in S
<1>. USE DEF TypeInv
<1>1. Head(queue) \in Packets \union Results /\ Head(queue) \in Messages
  BY TakesFlow, Sets
<1>2. client' \in {Head(queue), Idle, Message("forward", Head(queue).status)}
  BY DEF ClientTakes, TakeCalibData
<1>3. Idle \notin Packets /\ Message("forward", Head(queue).status) \notin Packets
  BY DEF Idle, Message, Packets, Notifications, Responses, Errors, BindingTypes
<1>4. ASSUME NEW S, S \subseteq Ntf("dev_status"), Head(queue) \in S, ~uwb_device_initialized
      PROVE  client' \in S
  <2>1. Head(queue).type = "dev_status"
    BY <1>4 DEF Ntf
  <2>2. client' = Head(queue)
    BY <1>4, <2>1 DEF ClientTakes
  <2>3. QED
    BY <1>4, <2>2
<1>5. QED
  BY <1>1, <1>2, <1>3, <1>4

LEMMA TotalTakes ==
  ASSUME TypeInv, ClientTakes
  PROVE  /\ \A sem \in Semaphores : NextTotal(sem) <= Total(sem)
         /\ \A sem \in Semaphores : Head(queue) \in Ntf(sem) => Total(sem) > 0
         /\ ~uwb_device_initialized =>
              NextTotal("dev_status") = Total("dev_status")
<1>1. due' = due /\ tokens' = tokens
  BY DEF ClientTakes, chipVars
<1>2. \A sem : Ntf(sem) \subseteq Packets
  BY Sets
<1>3. \A sem \in Semaphores :
        /\ Flow(rx', queue', client', Ntf(sem)) + One(Head(queue) \in Ntf(sem))
             = Num(Ntf(sem)) + One(client' \in Ntf(sem))
        /\ client' \in Ntf(sem) => Head(queue) \in Ntf(sem)
        /\ Head(queue) \in Ntf(sem) => Num(Ntf(sem)) > 0
        /\ Flow(rx', queue', client', Ntf(sem)) \in Nat
  BY <1>2, TakesFlow, TakenIs, NextFlow, MessageTypeStep DEF TypeInv, Next,
     ClientThread
<1>4. \A sem \in Semaphores : Flow(rx', queue', client', Ntf(sem)) <= Num(Ntf(sem))
  BY <1>3, TotalTypes DEF One
<1>5. ~uwb_device_initialized =>
        Flow(rx', queue', client', Ntf("dev_status")) = Num(Ntf("dev_status"))
  <2>1. ~uwb_device_initialized /\ Head(queue) \in Ntf("dev_status") => client' \in Ntf("dev_status")
    BY TakenIs
  <2>2. "dev_status" \in Semaphores
    BY DEF Semaphores, InitSemaphores
  <2>3. QED
    BY <1>3, <2>1, <2>2, TotalTypes DEF One
<1>6. QED
  <2>1. \A sem \in Semaphores : NextTotal(sem) <= Total(sem)
    BY <1>1, <1>3, <1>4, TotalTypes DEF NextTotal, Sum, Due
  <2>2. \A sem \in Semaphores : Head(queue) \in Ntf(sem) => Total(sem) > 0
    BY <1>3, TotalTypes
  <2>3. "dev_status" \in Semaphores
    BY DEF Semaphores, InitSemaphores
  <2>4. ~uwb_device_initialized => NextTotal("dev_status") = Total("dev_status")
    BY <1>1, <1>5, <2>3, TotalTypes DEF NextTotal, Sum, Due
  <2>5. QED
    BY <2>1, <2>2, <2>4

(* A notification that is handled becomes a token, unless nobody waits.     *)
LEMMA TotalFinishes ==
  ASSUME TypeInv, ClientFinishes
  PROVE  \A sem \in Semaphores :
           /\ NextTotal(sem) <= Total(sem)
           /\ sem \in live => NextTotal(sem) = Total(sem)
           /\ client \in Ntf(sem) => Total(sem) > 0
<1>. SUFFICES ASSUME NEW sem \in Semaphores
              PROVE  /\ NextTotal(sem) <= Total(sem)
                     /\ sem \in live => NextTotal(sem) = Total(sem)
                     /\ client \in Ntf(sem) => Total(sem) > 0
  OBVIOUS
<1>1. client \in Messages
  BY DEF TypeInv, MessageType, Messages
<1>2. client \in Ntf(sem) <=> client.type = sem /\ ~(client.type = "dev_status" /\ client.status = "ERROR")
  BY <1>1, Kinds
<1>3. Posts(client) /\ client.type = sem <=> client \in Ntf(sem)
  BY <1>2 DEF Posts
<1>4. tokens'[sem] = tokens[sem] + One(client \in Ntf(sem) /\ sem \in live)
  BY <1>3, TotalTypes DEF ClientFinishes, TypeInv, TypeOK, One
<1>5. Flow(rx', queue', client', Ntf(sem)) + One(client \in Ntf(sem)) = Num(Ntf(sem))
  BY FinishFlow, Sets DEF TypeInv
<1>6. Flow(rx', queue', client', Ntf(sem)) \in Nat
  BY MessageTypeStep, NextFlow DEF TypeInv, Next, ClientThread
<1>7. due' = due
  BY DEF ClientFinishes, chipVars
<1>8. QED
  BY <1>4, <1>5, <1>6, <1>7, TotalTypes DEF NextTotal, Sum, Due, One

LEMMA TotalNotifies ==
  ASSUME TypeInv, ChipNotifies
  PROVE  \A sem \in Semaphores :
           /\ "twice" \notin faulted' => NextTotal(sem) <= Total(sem)
           /\ faulted' \intersect {"twice", "mute"} = {} => NextTotal(sem) = Total(sem)
<1>1. tokens' = tokens
  BY DEF ChipNotifies, semVars
<1>2. PICK n \in {0, 1, 2} :
        /\ \A S : Flow(rx', queue', client', S) = Num(S) + n * One(Head(due) \in S)
        /\ n = 0 => "mute" \in faulted'
        /\ n = 2 => "twice" \in faulted'
  BY NotifyFlow DEF TypeInv
<1>3. \A S : Due(S) = Count(due', S) + One(Head(due) \in S) /\ Count(due', S) \in Nat
  BY NotifyFlow DEF TypeInv
<1>4. \A k \in Nat : k * 0 = 0 /\ k * 1 = k
  OBVIOUS
<1>5. QED
  BY <1>1, <1>2, <1>3, <1>4, TotalTypes DEF NextTotal, Sum, One

LEMMA TotalCrash ==
  ASSUME TypeInv, ChipCrashes
  PROVE  \A sem \in Semaphores : NextTotal(sem) = Total(sem)
<1>1. \A sem : Message("dev_status", "ERROR") \in Packets \ Ntf(sem)
  BY Sets DEF Ntf, Notifications, Message, BindingTypes
<1>2. UNCHANGED <<due, tokens>>
  BY DEF ChipCrashes, semVars
<1>3. \A sem : Flow(rx', queue', client', Ntf(sem)) = Num(Ntf(sem)) + 0
  BY <1>1, SendFlow DEF TypeInv, ChipCrashes, tmlVars, One
<1>4. QED
  BY <1>2, <1>3, TotalTypes DEF NextTotal, Sum, Due

(* A command that is carried out is announced, by nothing else.            *)
Announced(sem) ==
  CASE sem = "dev_status" -> {"board", "reset"} [] sem = "binding_status" -> {"reset"}
    [] sem = "do_bind" -> {"bind"} [] sem = "get_binding_status" -> {"lock", "check"}
    [] sem = "calib_data" -> {"otp"}

LEMMA TotalReplies ==
  ASSUME TypeInv, ChipReplies, AllHeard'
  PROVE  \A sem \in Semaphores :
           NextTotal(sem) = Total(sem) + One(Ok' = 1 /\ cmd \in Announced(sem))
<1>. SUFFICES ASSUME NEW sem \in Semaphores
              PROVE  NextTotal(sem) = Total(sem) + One(Ok' = 1 /\ cmd \in Announced(sem))
  OBVIOUS
<1>. USE DEF TypeInv
<1>1. UNCHANGED <<tokens, queue, client>> /\ Ok' \in {0, 1} /\ cmd \in CommandNames
  BY OkReply DEF ChipReplies, semVars, tmlVars
<1>2. Flow(rx', queue', client', Ntf(sem)) = Num(Ntf(sem))
  <2>1. \A status \in Answers : Message("rsp", status) \in Packets \ Ntf(sem)
    BY Sets DEF Message, Ntf, Semaphores, InitSemaphores
  <2>2. CASE rx' = rx
    BY <1>1, <2>2 DEF Num
  <2>3. ASSUME NEW status \in Answers, rx' = Append(rx, Message("rsp", status))
        PROVE  Flow(rx', queue', client', Ntf(sem)) = Num(Ntf(sem))
    BY <1>1, <2>1, <2>3, SendFlow, TotalTypes DEF One
  <2>4. QED
    BY <2>2, <2>3, OkReply DEF Answers
<1>3. CASE Ok' = 0
  <2>1. due' = due
    BY <1>3, OkReply
  <2>2. QED
    BY <1>1, <1>2, <1>3, <2>1, TotalTypes DEF NextTotal, Sum, Due, One
<1>4. CASE Ok' = 1
  <2>1. Effect(cmd)
    BY <1>4, OkReply
  <2>2. /\ \A type \in BindingTypes : \A b \in Bindings :
             /\ Message(type, b) \in Notifications
             /\ Message(type, b) \in Ntf(sem) <=> type = sem
        /\ \A status \in Answers :
             /\ Message("calib_data", status) \in Notifications
             /\ Message("calib_data", status) \in Ntf(sem) <=> sem = "calib_data"
        /\ Message("dev_status", "READY") \in Notifications
        /\ Message("dev_status", "READY") \in Ntf(sem) <=> sem = "dev_status"
    BY DEF Notifications, Message, Ntf
  <2>3. \A p \in Notifications :
          Announce(p) => Count(due', Ntf(sem)) = Due(Ntf(sem)) + One(p \in Ntf(sem))
    BY CountAppend DEF MessageType, Announce, Due
  <2>4. bound \in Bindings /\ bound' \in Bindings
    BY <1>1, <2>1, EffectDue DEF MessageType
  <2>5. CASE cmd \in {"board", "bind", "lock", "check", "otp"}
    <3>1. Count(due', Ntf(sem)) = Due(Ntf(sem)) + One(cmd \in Announced(sem))
      BY <1>1, <2>1, <2>2, <2>3, <2>4, <2>5, EffectDue
         DEF Announced, BindingTypes, Semaphores, InitSemaphores
    <3>2. QED
      BY <1>1, <1>2, <1>4, <3>1, TotalTypes DEF NextTotal, Sum, One
  <2>6. CASE cmd = "reset"
    <3>. DEFINE p == Message("dev_status", "READY")
                q == Message("binding_status", bound)
    <3>1. due' = Append(Append(due, p), q)
      BY <1>1, <2>1, <2>6, EffectDue
    <3>2. p \in Notifications /\ q \in Notifications
      BY <2>2, <2>4 DEF BindingTypes
    <3>3. /\ p \in Ntf(sem) <=> sem = "dev_status"
          /\ q \in Ntf(sem) <=> sem = "binding_status"
      BY <2>2, <2>4 DEF BindingTypes
    <3>. HIDE DEF p, q
    <3>4. Count(Append(due, p), Ntf(sem)) = Due(Ntf(sem)) + One(p \in Ntf(sem))
      BY <3>2, CountAppend DEF MessageType, Due
    <3>5. Append(due, p) \in Seq(Notifications)
      BY <3>2 DEF MessageType
    <3>6. Count(due', Ntf(sem))
            = Count(Append(due, p), Ntf(sem)) + One(q \in Ntf(sem))
      BY <3>1, <3>2, <3>5, CountAppend
    <3>7. Count(due', Ntf(sem)) = Due(Ntf(sem)) + One(cmd \in Announced(sem))
      BY <2>6, <3>3, <3>4, <3>6, TotalTypes DEF Announced, One, Semaphores,
         InitSemaphores
    <3>8. QED
      BY <1>1, <1>2, <1>4, <3>7, TotalTypes DEF NextTotal, Sum, One
  <2>7. CASE cmd \notin {"board", "reset", "bind", "lock", "check", "otp"}
    <3>1. due' = due
      BY <1>1, <2>1, <2>7, EffectDue
    <3>2. cmd \notin Announced(sem)
      BY <2>7 DEF Announced, Semaphores, InitSemaphores
    <3>3. QED
      BY <1>1, <1>2, <3>1, <3>2, TotalTypes DEF NextTotal, Sum, Due, One
  <2>8. QED
    BY <2>5, <2>6, <2>7
<1>5. QED
  BY <1>1, <1>3, <1>4

LEMMA ExpectedReplies ==
  ASSUME TypeInv, ChipReplies, AllHeard'
  PROVE  \A sem \in Semaphores :
           /\ Awaited(api', cmd', Ok' > 0, live', sem)
                <=> Expected(sem) \/ (Ok' = 1 /\ cmd \in Announced(sem))
           /\ cmd \in Announced(sem) => ~Expected(sem)
<1>1. /\ UNCHANGED <<api, cmd, live>> /\ Ok = 0 /\ Ok' \in {0, 1}
      /\ api = "await" /\ cmd \in CommandNames
  BY OkReply DEF ChipReplies, semVars
<1>2. QED
  BY <1>1 DEF Expected, Awaited, Announced, Semaphores, InitSemaphores

LEMMA ExpectedKept ==
  ASSUME TypeInv, ReaderPosts \/ ClientTakes \/ ClientFinishes \/ ChipNotifies \/ ChipCrashes
  PROVE  /\ UNCHANGED <<api, cmd, live>> /\ Ok' = Ok
         /\ \A sem : Awaited(api', cmd', Ok' > 0, live', sem) <=> Expected(sem)
<1>1. UNCHANGED <<api, cmd, live>> /\ Ok' = Ok
  BY OkKept DEF ReaderPosts, ClientTakes, ClientFinishes, ChipNotifies,
     ChipCrashes, semVars
<1>2. QED
  BY <1>1 DEF Expected

NextExpected(sem) == Awaited(api', cmd', Ok' > 0, live', sem)

(* What is sent makes room for its own answer only.                         *)
LEMMA DownloadTotal ==
  ASSUME TypeInv, Download
  PROVE  /\ api' = "read" =>
              NextTotal("dev_status") = Total("dev_status") + 1
         /\ api' # "read" => NextTotal("dev_status") = Total("dev_status")
         /\ \A sem \in Semaphores \ {"dev_status"} : NextTotal(sem) = Total(sem)
<1>1. chip = "off" /\ due = <<>> /\ UNCHANGED <<rx, queue, client, tokens>>
  BY DEF Download, Beginning, TypeInv, tmlVars, semVars
<1>2. /\ api' = "read" => due' = <<Message("dev_status", "INIT")>>
      /\ api' # "read" => due' = due
  BY DEF Download
<1>3. \A sem \in Semaphores :
        Count(<<Message("dev_status", "INIT")>>, Ntf(sem)) = One(sem = "dev_status")
  <2>1. Message("dev_status", "INIT") \in Notifications
    BY DEF Notifications, Message
  <2>2. <<Message("dev_status", "INIT")>> = Append(<<>>, Message("dev_status", "INIT"))
        /\ <<>> \in Seq(Notifications)
    OBVIOUS
  <2>3. \A S : Count(<<Message("dev_status", "INIT")>>, S)
                 = Count(<<>>, S) + One(Message("dev_status", "INIT") \in S)
    BY <2>1, <2>2, CountAppend, ZenonT(40)
  <2>4. \A sem : Message("dev_status", "INIT") \in Ntf(sem) <=> sem = "dev_status"
    BY <2>1 DEF Ntf, Message
  <2>5. QED
    BY <2>3, <2>4, CountNone DEF One
<1>4. \A S : Count(<<>>, S) = 0
  BY CountNone
<1>5. \A sem \in Semaphores :
        /\ api' = "read" => NextTotal(sem) = Total(sem) + One(sem = "dev_status")
        /\ api' # "read" => NextTotal(sem) = Total(sem)
  BY <1>1, <1>2, <1>3, <1>4, TotalTypes DEF NextTotal, Total, Sum, Num, Due, One
<1>6. QED
  BY <1>5, TotalTypes DEF One, Semaphores, InitSemaphores

(* A wait takes one token of its semaphore, or finds none.                 *)
LEMMA WaitTotal ==
  ASSUME TypeInv, TimedWait
  PROVE  LET sem == Waits[api].sem IN
         /\ api \in WaitNames /\ sem \in Semaphores
         /\ \A s \in Semaphores \ {sem} : NextTotal(s) = Total(s)
         /\ \/ /\ tokens[sem] > 0 /\ NextTotal(sem) = Total(sem) - 1 /\ NoFault
               /\ api' = IF uwbc_device_state \in Waits[api].states
                         THEN Waits[api].then ELSE "failure"
            \/ /\ NextTotal(sem) = Total(sem) /\ api' = Waits[api].late
               /\ "late" \in faulted' \/ Total(sem) = 0
         /\ UNCHANGED <<cmd, Ok, live, due, rx, queue, client, chip,
                        uwb_device_initialized, uwbc_device_state>>
<1>. DEFINE sem == Waits[api].sem
<1>. USE DEF TypeInv
<1>1. api \in WaitNames /\ sem \in Semaphores
  BY WaitTable DEF TimedWait, WaitNames, Wait, Semaphores, InitSemaphores
<1>2. UNCHANGED <<due, rx, queue, client, cmd, rsp, live, chip,
                  uwb_device_initialized, uwbc_device_state>>
  BY DEF TimedWait, tmlVars, chipVars, apiVars, devVars
<1>3. api # "await" /\ api' # "await"
  BY WaitTable DEF TimedWait, WaitNames, Wait
<1>4. UNCHANGED Ok
  BY <1>2, <1>3 DEF Ok, Num
<1>. HIDE DEF sem
<1>5. CASE tokens[sem] > 0
  <2>1. /\ tokens' = [tokens EXCEPT ![sem] = @ - 1] /\ NoFault
        /\ api' = IF uwbc_device_state \in Waits[api].states
                  THEN Waits[api].then ELSE "failure"
    BY <1>5 DEF TimedWait, sem
  <2>2. \A s \in Semaphores :
          NextTotal(s) = Due(Ntf(s)) + Num(Ntf(s)) + tokens'[s]
    BY <1>2 DEF NextTotal, Sum, Num, Due
  <2>3. /\ tokens'[sem] = tokens[sem] - 1
        /\ \A s \in Semaphores \ {sem} : tokens'[s] = tokens[s]
    BY <1>1, <2>1 DEF TypeOK
  <2>4. QED
    BY <1>1, <1>2, <1>4, <1>5, <2>1, <2>2, <2>3, TotalTypes DEF sem
<1>6. CASE ~(tokens[sem] > 0)
  <2>1. /\ tokens' = tokens /\ api' = Waits[api].late
        /\ IF UnderWay(sem) THEN Fault("late") ELSE NoFault
    BY <1>6 DEF TimedWait, sem
  <2>2. \A s \in Semaphores : NextTotal(s) = Total(s)
    BY <1>2, <2>1, TotalKept
  <2>3. UnderWay(sem) => "late" \in faulted'
    BY <2>1 DEF Fault
  <2>4. ~UnderWay(sem) => Total(sem) = 0
    <3>1. \A p \in Ntf(sem) : p.type = sem
      BY DEF Ntf
    <3>2. ~UnderWay(sem) => Num(Ntf(sem)) = 0 /\ Due(Ntf(sem)) = 0
      BY <3>1, NotUnderWay
    <3>3. QED
      BY <1>1, <1>6, <3>2, TotalTypes
  <2>5. QED
    BY <1>1, <1>2, <1>4, <2>1, <2>2, <2>3, <2>4 DEF sem
<1>7. QED
  BY <1>5, <1>6

-----------------------------------------------------------------------------
(* The steps of the call between its waits neither begin nor end one.       *)
Moves ==
  \/ FirstRead \/ Send \/ Configure \/ Configured \/ ReadOtp \/ OtpEnd \/ Await
  \/ ParseBindingStatusNtf \/ Bound \/ TellBinding
  \/ Done \/ Ready \/ Failure \/ Cleanup \/ Return

LEMMA MovesFrame ==
  ASSUME Moves
  PROVE  /\ UNCHANGED <<chip, due, rx, client, uwbc_device_state, uwb_binding_status,
                        bound, faulted, faults, deadPost>>
         /\ ~ReadOtp => UNCHANGED tokens
         /\ uwb_device_initialized' # uwb_device_initialized => api = "done"
<1>. USE DEF Moves, apiVars, semVars, devVars, tmlVars, chipVars, faultVars,
   tellVars
<1>1. CASE FirstRead \/ Send \/ Configure \/ Configured \/ ReadOtp
  BY <1>1 DEF FirstRead, Send, Configure, Configured, ReadOtp
<1>2. CASE OtpEnd \/ Await \/ ParseBindingStatusNtf \/ Bound \/ TellBinding
  BY <1>2 DEF OtpEnd, Await, ParseBindingStatusNtf, Bound, TellBinding
<1>3. CASE Done \/ Ready \/ Failure \/ Cleanup \/ Return
  BY <1>3 DEF Done, Ready, Failure, Cleanup, Return
<1>4. QED
  BY <1>1, <1>2, <1>3

LEMMA MovesTotal ==
  ASSUME TypeInv, Moves
  PROVE  /\ \A sem \in Semaphores : NextTotal(sem) <= Total(sem)
         /\ NextTotal("dev_status") = Total("dev_status")
<1>1. CASE ReadOtp
  <2>1. /\ UNCHANGED <<due, rx, queue, client>>
        /\ tokens' = [tokens EXCEPT !["calib_data"] = 0]
    BY <1>1 DEF ReadOtp, tmlVars
  <2>2. \A sem \in Semaphores :
          /\ NextTotal(sem) = Due(Ntf(sem)) + Num(Ntf(sem)) + tokens'[sem]
          /\ tokens'[sem] = IF sem = "calib_data" THEN 0 ELSE tokens[sem]
    BY <2>1 DEF NextTotal, Sum, Num, Due, TypeInv, TypeOK
  <2>3. QED
    BY <2>2, TotalTypes DEF Semaphores, InitSemaphores
<1>2. CASE Done \/ Failure
  BY <1>2, TotalAnnounce, TotalTypes DEF Semaphores, InitSemaphores
<1>3. CASE ~(ReadOtp \/ Done \/ Failure)
  <2>1. UNCHANGED queue
    BY <1>3 DEF Moves, FirstRead, Send, Configure, Configured, OtpEnd, Await,
       ParseBindingStatusNtf, Bound, TellBinding, Ready, Cleanup, Return,
       tmlVars
  <2>2. \A sem \in Semaphores : NextTotal(sem) = Total(sem)
    BY <1>3, <2>1, MovesFrame, TotalKept
  <2>3. QED
    BY <2>2, TotalTypes DEF Semaphores, InitSemaphores
<1>4. QED
  BY <1>1, <1>2, <1>3

LEMMA MovesExpected ==
  ASSUME TypeInv, Moves
  PROVE  /\ \A sem \in Semaphores : NextExpected(sem) <=> Expected(sem)
         /\ api' \notin Over => api \notin Over
         /\ Later' => Later
         /\ api \in {"read", "wait_init"} <=> api' \in {"read", "wait_init"}
         /\ api' = "wait_init" => api = "read"
         /\ Later \/ ~uwb_device_initialized' \/ uwb_device_initialized
<1>. USE DEF TypeInv, CommandState, Expected, NextExpected, Awaited, Over,
   Later,
     Awaiting, Started
<1>1. CASE FirstRead
  BY <1>1 DEF FirstRead, Beginning, apiVars, semVars, devVars
<1>2. CASE Send
  <2>1. api \in CommandNames \ {"otp"}
    BY <1>2, CommandTable DEF Send
  <2>2. Ok' = 0
    BY <1>2, <2>1, OkSend DEF Send, tmlVars, CommandNames
  <2>3. QED
    BY <1>2, <2>1, <2>2 DEF Send, SendCommand, CommandNames, devVars
<1>3. CASE Configure \/ ReadOtp
  <2>1. \E c \in {"config", "calibration", "otp"} :
          SendCommand(c) /\ api \in {"vendor", "calibrate", "xtal"}
    BY <1>3 DEF Configure, ReadOtp
  <2>2. Ok' = 0
    BY <1>3, <2>1, OkSend DEF Configure, ReadOtp, tmlVars
  <2>3. QED
    BY <1>3, <2>1, <2>2 DEF Configure, ReadOtp, SendCommand, devVars
<1>4. CASE Await
  BY <1>4, OkAwait, CommandTable DEF Await, After, CommandNames, semVars,
     devVars
<1>5. CASE Configured \/ OtpEnd \/ ParseBindingStatusNtf \/ Bound
  BY <1>5 DEF Configured, OtpEnd, ParseBindingStatusNtf, Bound, apiVars, devVars
<1>6. CASE TellBinding \/ Done \/ Ready \/ Failure
  BY <1>6 DEF TellBinding, Done, Ready, Failure, apiVars, devVars
<1>7. CASE Cleanup \/ Return
  BY <1>7 DEF Cleanup, Return, apiVars, semVars, devVars, LiveState,
     InitSemaphores
<1>8. QED
  BY <1>1, <1>2, <1>3, <1>4, <1>5, <1>6, <1>7 DEF Moves

(* The reader, the client thread and the chip leave the call where it is.   *)
Others == ReaderPosts \/ ClientTakes \/ ClientFinishes \/ ChipNotifies \/ ChipCrashes
LEMMA NextCases ==
  Next <=> \/ CoreInitialization \/ Download \/ TimedWait \/ Moves
           \/ ChipReplies \/ Others
  BY DEF Next, Api, Moves, ClientThread, Chip, Others

(* Each command is answered by one notification, and each wait takes one.   *)
LEMMA OnceStep == TypeInv /\ Once /\ [Next]_vars => Once'
<1>. SUFFICES ASSUME TypeInv, Once, [Next]_vars, Single'
              PROVE  /\ api' \notin Over =>
                          NextTotal("dev_status") <= One(NextExpected("dev_status"))
                     /\ (Later \/ uwb_device_initialized)' => chip' = "running"
  BY DEF Once, NextTotal, Total, NextExpected, Expected
<1>0. /\ "dev_status" \in Semaphores /\ Single /\ "twice" \notin faulted'
      /\ AllHeard /\ AllHeard'
      /\ Total("dev_status") \in Nat /\ NextTotal("dev_status") \in Nat
      /\ One(TRUE) = 1 /\ One(FALSE) = 0
  BY FaultsGrow, TotalTypes, NextTotalTypes, TypeInvStep
     DEF Semaphores, InitSemaphores, One, Single, AllHeard
<1>1. CASE CoreInitialization
  <2>1. NextTotal("dev_status") <= Total("dev_status")
    BY <1>0, <1>1, TotalTypes DEF CoreInitialization, NextTotal, Sum, Num, Due,
       Semaphores, tmlVars, chipVars
  <2>2. ~Expected("dev_status") /\ api \notin Over
    BY <1>1 DEF CoreInitialization, TypeInv, Expected, Awaited, CommandState,
       Over
  <2>3. ~(Later \/ uwb_device_initialized)'
    BY <1>1 DEF CoreInitialization, Later, Started
  <2>4. QED
    BY <1>0, <2>1, <2>2, <2>3 DEF Once, One
<1>2. CASE Download
  <2>1. ~Expected("dev_status") /\ ~uwb_device_initialized /\ api \notin Over
    BY <1>2 DEF Download, TypeInv, Expected, Awaited, CommandState, Beginning,
       Over
  <2>2. api' = "read" => NextExpected("dev_status")
    BY DEF NextExpected, Awaited
  <2>3. /\ api' \in {"read", "failure", "download"}
        /\ uwb_device_initialized' = uwb_device_initialized
    BY <1>2 DEF Download
  <2>4. QED
    BY <1>0, <1>2, <2>1, <2>2, <2>3, DownloadTotal DEF Once, Later, Started,
       Over, One
<1>3. CASE TimedWait
  <2>. DEFINE sem == Waits[api].sem
  <2>1. /\ api \in WaitNames /\ UNCHANGED <<cmd, Ok, live, chip, uwb_device_initialized>>
        /\ sem # "dev_status" => NextTotal("dev_status") = Total("dev_status")
        /\ \/ api' = Waits[api].late
           \/ /\ api' \in {Waits[api].then, "failure"}
              /\ NextTotal(sem) = Total(sem) - 1 /\ tokens[sem] > 0
    <3>1. api \in WaitNames /\ UNCHANGED <<cmd, Ok, live, chip, uwb_device_initialized>>
      BY <1>3, WaitTotal
    <3>2. sem # "dev_status" => NextTotal("dev_status") = Total("dev_status")
      BY <1>0, <1>3, WaitTotal
    <3>3. \/ api' = Waits[api].late
          \/ /\ api' \in {Waits[api].then, "failure"}
             /\ NextTotal(sem) = Total(sem) - 1 /\ tokens[sem] > 0
      BY <1>3, WaitTotal
    <3>4. QED
      BY <3>1, <3>2, <3>3
  <2>2. CASE sem # "dev_status"
    <3>1. Later /\ ~Expected("dev_status") /\ api \notin Over
      BY <2>1, <2>2, WaitTable DEF TypeInv, CommandState, Expected, Awaited,
         Wait,
         WaitNames, Later, Started, Over, Awaiting
    <3>2. QED
      <4>1. ~NextExpected("dev_status") => One(NextExpected("dev_status")) = 0
        BY DEF One
      <4>2. NextTotal("dev_status") = 0
        BY <1>0, <2>1, <2>2, <3>1 DEF Once, One
      <4>3. One(NextExpected("dev_status")) \in {0, 1}
        BY DEF One
      <4>4. chip' = "running"
        BY <1>0, <2>1, <3>1 DEF Once
      <4>5. QED
        BY <4>2, <4>3, <4>4
  <2>3. CASE sem = "dev_status"
    <3>1. api \in {"wait_init", "wait_ready", "wait_reset"} /\ ~uwb_device_initialized
      BY <2>1, <2>3, WaitTable DEF Wait, WaitNames, TypeInv, Beginning
    <3>2. Total("dev_status") <= 1
      BY <1>0, <3>1 DEF Once, Over, One
    <3>3. CASE api' = Waits[api].late
      BY <2>1, <3>1, <3>3, WaitTable DEF Wait, Over, Later
    <3>4. CASE NextTotal("dev_status") = Total("dev_status") - 1 /\ tokens["dev_status"] > 0
      <4>1. NextTotal("dev_status") = 0 /\ Due(Ntf("dev_status")) = 0
        BY <1>0, <3>2, <3>4, TotalTypes
      <4>2. api = "wait_reset" => chip = "running"
        BY <1>0, <4>1 DEF TypeInv, ChipState, DueState
      <4>3. Later' => api = "wait_reset"
        BY <2>1, <3>1, WaitTable DEF Wait, Over, Later, Started
      <4>4. QED
        BY <1>0, <2>1, <3>1, <4>1, <4>2, <4>3 DEF One
    <3>5. QED
      BY <2>1, <2>3, <3>3, <3>4
  <2>4. QED
    BY <2>2, <2>3
<1>4. CASE Moves
  BY <1>0, <1>4, MovesFrame, MovesTotal, MovesExpected DEF Once, One
<1>5. CASE ChipReplies
  <2>1. /\ NextTotal("dev_status") = Total("dev_status") + One(Ok' = 1 /\ cmd \in {"board", "reset"})
        /\ NextExpected("dev_status") <=>
             Expected("dev_status") \/ (Ok' = 1 /\ cmd \in {"board", "reset"})
        /\ cmd \in {"board", "reset"} => ~Expected("dev_status")
    BY <1>0, <1>5, TotalReplies, ExpectedReplies DEF Announced, NextExpected
  <2>2. /\ UNCHANGED <<api, cmd, uwb_device_initialized>> /\ api = "await"
        /\ cmd \notin {"board", "reset"} => chip' = chip
    BY <1>0, <1>5, OkReply DEF ChipReplies, devVars, Effect
  <2>3. Later' => Later
    BY <2>2 DEF Later, Awaiting, Started, Over
  <2>4. Later => cmd \notin {"board", "reset"}
    BY <2>2 DEF Later, Awaiting
  <2>5. ~uwb_device_initialized
    BY <2>2 DEF TypeInv, Beginning
  <2>6. api \notin Over
    BY <2>2 DEF Over
  <2>7. QED
    BY <1>0, <2>1, <2>2, <2>3, <2>4, <2>5, <2>6 DEF Once, One
<1>6. CASE Others
  <2>1. /\ UNCHANGED <<api, cmd>>
        /\ NextExpected("dev_status") <=> Expected("dev_status")
    BY <1>6, ExpectedKept DEF Others, NextExpected
  <2>2. uwb_device_initialized' = uwb_device_initialized /\ (chip' = chip \/ chip' \in {"init", "ready", "running"})
    BY <1>0, <1>6, ChipProgress DEF Others, ReaderPosts, ClientTakes, ClientFinishes,
       ChipNotifies,
       ChipCrashes, chipVars, devVars
  <2>3. NextTotal("dev_status") <= Total("dev_status")
    BY <1>0, <1>6, TotalReader, TotalTakes, TotalFinishes, TotalNotifies,
       TotalCrash
       DEF Others
  <2>4. Later' <=> Later
    BY <2>1 DEF Later, Awaiting
  <2>5. chip = "running" => chip' = "running"
    BY <1>0, <1>6, ChipProgress DEF Others, ReaderPosts, ClientTakes, ClientFinishes,
       ChipCrashes, chipVars
  <2>6. QED
    BY <1>0, <2>1, <2>2, <2>3, <2>4, <2>5 DEF Once, One
<1>7. CASE UNCHANGED vars
  <2>1. /\ NextTotal("dev_status") = Total("dev_status")
        /\ NextExpected("dev_status") <=> Expected("dev_status")
    BY <1>7, TotalKept DEF vars, semVars, tmlVars, chipVars, apiVars,
       NextExpected, Expected,
       Ok, Num
  <2>2. QED
    BY <1>0, <1>7, <2>1 DEF Once, One, vars, Later, Awaiting, apiVars,
       chipVars, devVars
<1>8. QED
  BY <1>1, <1>2, <1>3, <1>4, <1>5, <1>6, <1>7, NextCases

(* In a run without losses, doubles, crashes and late notifications, each   *)
(* semaphore has what the call still waits for.                             *)
LEMMA CalmStep ==
  [Next]_vars /\ Calm' =>
    Calm /\ faulted' \intersect {"mute", "twice", "crash", "late"} = {}
  BY FaultsGrow DEF Calm

LEMMA BalancedStep ==
  ASSUME TypeInv, Balanced, StateKnown, [Next]_vars
  PROVE  Balanced'
<1>. SUFFICES ASSUME Calm'
              PROVE  /\ NextTotal("dev_status") = One(NextExpected("dev_status"))
                     /\ \A sem \in Semaphores : NextTotal(sem) <= One(NextExpected(sem))
  BY DEF Balanced, NextTotal, Total, NextExpected, Expected
<1>0. /\ Calm /\ faulted' \intersect {"mute", "twice", "crash", "late"} = {}
      /\ "dev_status" \in Semaphores /\ One(TRUE) = 1 /\ One(FALSE) = 0
      /\ \A sem \in Semaphores : Total(sem) \in Nat /\ NextTotal(sem) \in Nat
      /\ Total("dev_status") = One(Expected("dev_status"))
      /\ \A sem \in Semaphores : Total(sem) <= One(Expected(sem))
  BY CalmStep, TotalTypes, NextTotalTypes, TypeInvStep
     DEF Semaphores, InitSemaphores, One, Balanced
<1>. AllHeard'
  BY DEF Calm, AllHeard
<1>1. CASE CoreInitialization
  <2>1. \A sem \in Semaphores : NextTotal(sem) <= Total(sem)
    BY <1>1, TotalTypes DEF CoreInitialization, NextTotal, Sum, Num, Due,
       tmlVars, chipVars
  <2>2. cmd = "none" /\ cmd' = cmd /\ api = "start" /\ api' = "download"
    BY <1>1 DEF CoreInitialization, TypeInv, CommandState, apiVars
  <2>3. /\ \A sem \in Semaphores : ~Expected(sem)
        /\ ~NextExpected("dev_status")
    BY <2>2 DEF Expected, NextExpected, Awaited
  <2>4. \A sem \in Semaphores : NextTotal(sem) = 0 /\ 0 <= One(NextExpected(sem))
    BY <1>0, <2>1, <2>3 DEF One
  <2>5. QED
    BY <1>0, <2>3, <2>4 DEF One
<1>2. CASE Download
  <2>1. /\ cmd = "none" /\ cmd' = cmd /\ api = "download"
        /\ api' \in {"read", "failure", "download"}
    BY <1>2 DEF Download, TypeInv, CommandState
  <2>2. /\ \A sem \in Semaphores : ~Expected(sem)
        /\ NextExpected("dev_status") <=> api' = "read"
    BY <2>1 DEF Expected, NextExpected, Awaited
  <2>3. \A sem \in Semaphores : Total(sem) = 0
    BY <1>0, <2>2 DEF One
  <2>4. \A sem \in Semaphores \ {"dev_status"} :
          NextTotal(sem) = 0 /\ 0 <= One(NextExpected(sem))
    BY <1>2, <2>3, DownloadTotal DEF One
  <2>5. NextTotal("dev_status") = One(NextExpected("dev_status"))
    BY <1>0, <1>2, <2>2, <2>3, DownloadTotal DEF One
  <2>6. QED
    BY <1>0, <2>4, <2>5
<1>3. CASE TimedWait
  <2>. DEFINE sem == Waits[api].sem
              Left == \A s \in Semaphores \ {sem} : NextTotal(s) = Total(s)
              Taken == tokens[sem] > 0 /\ NextTotal(sem) = Total(sem) - 1
                         /\ api' = IF uwbc_device_state \in Waits[api].states
                                   THEN Waits[api].then ELSE "failure"
              Missed == NextTotal(sem) = Total(sem) /\ api' = Waits[api].late
                          /\ Total(sem) = 0
  <2>1. /\ api \in WaitNames /\ sem \in Semaphores /\ UNCHANGED cmd
        /\ Left /\ (Taken \/ Missed)
    BY <1>0, <1>3, WaitTotal
  <2>. HIDE DEF Left, Taken, Missed
  <2>2. cmd = "none" /\ cmd' = "none"
    BY <2>1 DEF TypeInv, CommandState, WaitNames
  <2>3. NextTotal(sem) = 0
    BY <1>0, <2>1 DEF Taken, Missed, One
  <2>4. Missed => sem # "dev_status"
    <3>1. api \in {"wait_init", "wait_ready", "wait_reset"} => Expected("dev_status")
      BY DEF Expected, Awaited
    <3>2. sem = "dev_status" => api \in {"wait_init", "wait_ready", "wait_reset"}
      BY <2>1, WaitTable DEF WaitNames, Wait
    <3>3. QED
      BY <1>0, <3>1, <3>2 DEF Missed, One
  <2>5. api = "wait_reset" => api' = "info"
    BY <1>0, <2>1, <2>4, WaitTable DEF Taken, Wait, StateKnown
  <2>6. \A s \in Semaphores \ {sem} : Expected(s) => NextExpected(s)
    <3>1. ASSUME NEW s \in Semaphores \ {sem}, Expected(s)
          PROVE  api = "wait_reset" /\ s = "binding_status"
      BY <2>1, <2>2, <3>1, WaitTable
         DEF Expected, Awaited, WaitNames, Wait, Semaphores, InitSemaphores
    <3>2. QED
      BY <2>5, <3>1 DEF NextExpected, Awaited
  <2>7. ~NextExpected("dev_status")
    <3>1. api' \notin {"read", "wait_init", "wait_ready", "wait_reset"}
      BY <2>1, WaitTable DEF Taken, Missed, WaitNames, Wait
    <3>2. QED
      BY <2>2, <3>1 DEF NextExpected, Awaited
  <2>8. NextTotal("dev_status") = 0
    <3>1. sem # "dev_status" => ~Expected("dev_status")
      BY <2>6, <2>7, <1>0
    <3>2. QED
      BY <1>0, <2>1, <2>3, <3>1 DEF Left, One
  <2>9. \A s \in Semaphores : NextTotal(s) <= One(NextExpected(s))
    <3>1. NextTotal(sem) <= One(NextExpected(sem))
      BY <2>3 DEF One
    <3>2. ASSUME NEW s \in Semaphores \ {sem}
          PROVE  NextTotal(s) <= One(NextExpected(s))
      <4>1. NextTotal(s) = Total(s) /\ Total(s) <= One(Expected(s)) /\ Total(s) \in Nat
        BY <1>0, <2>1 DEF Left
      <4>2. Expected(s) => NextExpected(s)
        BY <2>6
      <4>3. QED
        BY <4>1, <4>2 DEF One
    <3>3. QED
      BY <3>1, <3>2
  <2>10. QED
    BY <1>0, <2>7, <2>8, <2>9 DEF One
<1>4. CASE Moves
  BY <1>0, <1>4, MovesTotal, MovesExpected DEF One
<1>5. CASE ChipReplies
  <2>1. ASSUME NEW sem \in Semaphores
        PROVE  /\ Total(sem) <= One(Expected(sem)) => NextTotal(sem) <= One(NextExpected(sem))
               /\ Total(sem) = One(Expected(sem)) => NextTotal(sem) = One(NextExpected(sem))
    <3>1. NextTotal(sem) = Total(sem) + One(Ok' = 1 /\ cmd \in Announced(sem))
      BY <1>5, TotalReplies
    <3>2. /\ NextExpected(sem) <=> Expected(sem) \/ (Ok' = 1 /\ cmd \in Announced(sem))
          /\ cmd \in Announced(sem) => ~Expected(sem)
      BY <1>5, ExpectedReplies DEF NextExpected
    <3>3. QED
      BY <1>0, <3>1, <3>2 DEF One
  <2>2. QED
    BY <1>0, <2>1
<1>6. CASE Others
  <2>1. /\ UNCHANGED <<api, cmd>>
        /\ \A sem \in Semaphores : NextExpected(sem) <=> Expected(sem)
    BY <1>6, ExpectedKept DEF Others, NextExpected
  <2>2. \A sem \in Semaphores : NextTotal(sem) <= Total(sem)
    BY <1>0, <1>6, TotalReader, TotalTakes, TotalFinishes, TotalNotifies,
       TotalCrash
       DEF Others
  <2>3. NextTotal("dev_status") = Total("dev_status")
    <3>1. CASE ReaderPosts \/ ChipNotifies \/ ChipCrashes
      BY <1>0, <3>1, TotalReader, TotalNotifies, TotalCrash
    <3>2. CASE ClientTakes /\ ~uwb_device_initialized
      BY <3>2, TotalTakes
    <3>3. CASE ClientFinishes /\ "dev_status" \in live
      BY <1>0, <3>3, TotalFinishes
    <3>4. CASE uwb_device_initialized \/ "dev_status" \notin live
      <4>1. api \in {"start", "ready", "cleanup", "idle"}
        BY <3>4 DEF TypeInv, Beginning, LiveState, InitSemaphores, Semaphores
      <4>2. ~Expected("dev_status")
        BY <4>1 DEF Expected, Awaited, TypeInv, CommandState
      <4>3. QED
        BY <1>0, <2>2, <4>2 DEF One
    <3>5. QED
      BY <1>6, <3>1, <3>2, <3>3, <3>4 DEF Others
  <2>4. QED
    BY <1>0, <2>1, <2>2, <2>3 DEF One
<1>7. CASE UNCHANGED vars
  <2>1. \A sem \in Semaphores :
          /\ NextTotal(sem) = Total(sem)
          /\ NextExpected(sem) <=> Expected(sem)
    BY <1>7, TotalKept DEF vars, semVars, tmlVars, chipVars, apiVars,
       NextExpected, Expected,
       Ok, Num
  <2>2. QED
    BY <1>0, <2>1 DEF One
<1>8. QED
  BY <1>1, <1>2, <1>3, <1>4, <1>5, <1>6, <1>7, NextCases


(* Packets reach the way to the client thread from the chip alone.         *)
NextNum(S) == Flow(rx', queue', client', S)

LEMMA Arrivals ==
  ASSUME TypeInv, [Next]_vars, NEW S \in SUBSET Packets
  PROVE  /\ NextNum(S) \in Nat /\ Num(S) \in Nat
         /\ ~Chip /\ ~ChipCrashes => NextNum(S) <= Num(S)
         /\ ChipReplies /\ S \intersect Responses = {} => NextNum(S) = Num(S)
         /\ ChipNotifies /\ Head(due) \notin S => NextNum(S) = Num(S)
         /\ ChipCrashes /\ S \intersect Errors = {} => NextNum(S) = Num(S)
<1>. USE DEF TypeInv
<1>1. NextNum(S) \in Nat /\ Num(S) \in Nat
  BY MessageTypeStep, NextFlow, FlowTypes DEF NextNum
<1>2. ReaderPosts => NextNum(S) = Num(S)
  BY ReaderFlow DEF NextNum
<1>3. ASSUME ClientTakes PROVE NextNum(S) <= Num(S)
  <2>1. NextNum(S) + One(Head(queue) \in S) = Num(S) + One(client' \in S)
    BY <1>3, TakesFlow DEF NextNum
  <2>2. client' \in S => Head(queue) \in S
    BY <1>3, TakenIs
  <2>3. QED
    BY <1>1, <2>1, <2>2 DEF One
<1>4. ASSUME ClientFinishes PROVE NextNum(S) <= Num(S)
  <2>1. NextNum(S) + One(client \in S) = Num(S)
    BY <1>4, FinishFlow DEF NextNum
  <2>2. QED
    BY <1>1, <2>1 DEF One
<1>5. ASSUME ChipReplies, S \intersect Responses = {} PROVE NextNum(S) = Num(S)
  <2>1. CASE rx' = rx
    BY <1>5, <2>1 DEF ChipReplies, NextNum, Num, tmlVars
  <2>2. CASE \E status \in Answers : rx' = Append(rx, Message("rsp", status))
    <3>1. PICK status \in Answers : rx' = Append(rx, Message("rsp", status))
      BY <2>2
    <3>2. NextNum(S) = Num(S) + One(Message("rsp", status) \in S)
      BY <1>5, <3>1, SendFlow, Sets DEF ChipReplies, NextNum, tmlVars
    <3>3. QED
      BY <1>1, <1>5, <3>2, Sets DEF One
  <2>3. QED
    BY <1>5, <2>1, <2>2 DEF ChipReplies, Answers
<1>6. ASSUME ChipNotifies, Head(due) \notin S PROVE NextNum(S) = Num(S)
  BY <1>1, <1>6, NotifyFlow DEF NextNum, One
<1>7. ASSUME ChipCrashes, S \intersect Errors = {} PROVE NextNum(S) = Num(S)
  BY <1>1, <1>7, SendFlow, Sets DEF ChipCrashes, NextNum, tmlVars, One
<1>8. Done \/ Failure => NextNum(S) = Num(S)
  BY AnnounceFlow DEF Done, Failure, Results, chipVars, NextNum
<1>9. ASSUME ~(Done \/ Failure \/ ReaderPosts \/ ClientThread \/ Chip \/ ChipCrashes)
      PROVE  NextNum(S) = Num(S)
  <2>1. UNCHANGED <<rx, queue, client>>
    <3>1. CASE CoreInitialization \/ Download \/ FirstRead \/ TimedWait
      BY <3>1 DEF CoreInitialization, Download, FirstRead, TimedWait, tmlVars,
         chipVars
    <3>2. CASE Send \/ Configure \/ Configured \/ ReadOtp \/ OtpEnd \/ Await
      BY <3>2 DEF Send, Configure, Configured, ReadOtp, OtpEnd, Await, tmlVars,
         chipVars
    <3>3. CASE ParseBindingStatusNtf \/ Bound \/ TellBinding \/ Ready \/ Cleanup \/ Return
      BY <3>3 DEF ParseBindingStatusNtf, Bound, TellBinding, Ready, Cleanup,
         Return,
         tmlVars, chipVars
    <3>4. CASE UNCHANGED vars
      BY <3>4 DEF vars, tmlVars, chipVars
    <3>5. QED
      BY <1>9, <3>1, <3>2, <3>3, <3>4 DEF Next, Api
  <2>2. QED
    BY <2>1 DEF NextNum, Num
<1>10. QED
  BY <1>1, <1>2, <1>3, <1>4, <1>5, <1>6, <1>7, <1>8, <1>9 DEF ClientThread, Chip

(* The state of the device is the last that the client thread took.        *)
LEMMA TakesState ==
  ASSUME TypeInv, ClientTakes, Num(Errors) = 0
  PROVE  LET p == Head(queue) IN
         /\ p \in Ntf("dev_status") => p \in InitNtf \/ p \in ReadyNtf
         /\ p \in InitNtf => Num(InitNtf) > 0
         /\ p \in ReadyNtf => Num(ReadyNtf) > 0
         /\ p \in InitNtf => p.status = "INIT"
         /\ p \in ReadyNtf => p.status = "READY"
         /\ client' \in Ntf("dev_status") => p \in Ntf("dev_status")
         /\ uwbc_device_state' = IF p \in Ntf("dev_status") /\ ~uwb_device_initialized
                                 THEN p.status ELSE uwbc_device_state
<1>. DEFINE p == Head(queue)
<1>. USE DEF TypeInv
<1>0. /\ p \in Messages /\ "dev_status" \in Semaphores
      /\ Errors \subseteq Packets /\ InitNtf \subseteq Packets /\ ReadyNtf \subseteq Packets
      /\ Ntf("dev_status") \subseteq Packets
  BY TakenIs, Sets DEF Semaphores, InitSemaphores
<1>1. p \notin Errors
  BY <1>0, TakesFlow
<1>2. /\ p \in Ntf("dev_status") <=> p.type = "dev_status"
      /\ p \in InitNtf <=> p.type = "dev_status" /\ p.status = "INIT"
      /\ p \in ReadyNtf <=> p.type = "dev_status" /\ p.status = "READY"
      /\ p.type = "dev_status" => p.status \in {"INIT", "READY"}
  BY <1>0, <1>1, Kinds DEF AnyState
<1>3. uwbc_device_state' = IF p.type = "dev_status" /\ ~uwb_device_initialized
                           THEN p.status ELSE uwbc_device_state
  BY DEF ClientTakes, devVars
<1>4. client' \in Ntf("dev_status") => p \in Ntf("dev_status")
  BY <1>0, TakenIs
<1>5. /\ p \in InitNtf => Num(InitNtf) > 0
      /\ p \in ReadyNtf => Num(ReadyNtf) > 0
  BY <1>0, TakesFlow
<1>6. QED
  BY <1>2, <1>3, <1>4, <1>5

(* Of what a step of the call leaves to be so.                             *)
BoardPhase == api = "wait_ready" \/ Awaiting({"board"})
AfterReady == At("reset") \/ api = "wait_reset" \/ Later
LEMMA MovesPhase ==
  ASSUME TypeInv, Moves
  PROVE  /\ BoardPhase' => BoardPhase \/ api = "board"
         /\ AfterReady' => AfterReady
<1>. USE DEF TypeInv, CommandState, BoardPhase, AfterReady, At, Over, Later,
   Awaiting, Started
<1>1. CASE FirstRead
  BY <1>1 DEF FirstRead, Beginning, apiVars
<1>2. CASE Send
  <2>1. api \in CommandNames \ {"otp"}
    BY <1>2, CommandTable DEF Send
  <2>2. QED
    BY <1>2, <2>1 DEF Send, SendCommand, CommandNames
<1>3. CASE Configure \/ ReadOtp
  BY <1>3 DEF Configure, ReadOtp, SendCommand
<1>4. CASE Await
  BY <1>4, OkAwait, CommandTable DEF Await, After, CommandNames
<1>5. CASE Configured \/ OtpEnd \/ ParseBindingStatusNtf \/ Bound
  BY <1>5 DEF Configured, OtpEnd, ParseBindingStatusNtf, Bound, apiVars
<1>6. CASE TellBinding \/ Done \/ Ready \/ Failure
  BY <1>6 DEF TellBinding, Done, Ready, Failure, apiVars
<1>7. CASE Cleanup \/ Return
  BY <1>7 DEF Cleanup, Return, apiVars
<1>8. QED
  BY <1>1, <1>2, <1>3, <1>4, <1>5, <1>6, <1>7 DEF Moves


(* In a calm run a wait takes the notification that it waits for.           *)
LEMMA CalmWait ==
  ASSUME TypeInv, Balanced, Calm, TimedWait, "late" \notin faulted'
  PROVE  LET sem == Waits[api].sem IN
         /\ Total(sem) <= 1
         /\ sem = "dev_status" => tokens[sem] > 0
         /\ tokens[sem] > 0 =>
              /\ Num(Ntf(sem)) = 0 /\ Due(Ntf(sem)) = 0
              /\ api' = IF uwbc_device_state \in Waits[api].states
                        THEN Waits[api].then ELSE "failure"
         /\ ~(tokens[sem] > 0) => api' = Waits[api].late
<1>. DEFINE sem == Waits[api].sem
<1>1. /\ api \in WaitNames /\ sem \in Semaphores
      /\ tokens[sem] > 0 \/ Total(sem) = 0
      /\ tokens[sem] > 0 => api' = IF uwbc_device_state \in Waits[api].states
                                   THEN Waits[api].then ELSE "failure"
      /\ ~(tokens[sem] > 0) => api' = Waits[api].late
  <2>1. api \in WaitNames /\ sem \in Semaphores
    BY WaitTotal
  <2>2. tokens[sem] > 0 \/ Total(sem) = 0
    BY WaitTotal
  <2>3. QED
    BY <2>1, <2>2 DEF TimedWait
<1>2. Total(sem) <= 1
  BY <1>1, TotalTypes DEF Balanced, One
<1>3. sem = "dev_status" => Total(sem) = 1
  <2>1. sem = "dev_status" => api \in {"wait_init", "wait_ready", "wait_reset"}
    BY <1>1, WaitTable DEF WaitNames, Wait
  <2>2. QED
    BY <2>1 DEF Balanced, Expected, Awaited, One
<1>4. tokens[sem] > 0 => Num(Ntf(sem)) = 0 /\ Due(Ntf(sem)) = 0
  BY <1>1, <1>2, TotalTypes
<1>5. QED
  BY <1>1, <1>2, <1>3, <1>4

(* In a calm run nothing but what a wait asks for is taken for it.          *)
LEMMA CalmInitNtf ==
  ASSUME TypeInv, Balanced, Calm, due # <<>>, Head(due) \in InitNtf
  PROVE  api \in {"read", "wait_init"}
<1>. AllHeard
  BY DEF Calm, AllHeard
<1>. USE DEF TypeInv
<1>1. Head(due) \in Ntf("dev_status") /\ Head(due) \notin ReadyNtf
  BY Sets DEF InitNtf, ReadyNtf, Message
<1>2. Due(Ntf("dev_status")) > 0
  <2>1. Due(Ntf("dev_status")) = Count(Tail(due), Ntf("dev_status")) + 1
    BY <1>1, CountHead DEF MessageType, Due, One
  <2>2. Tail(due) \in Seq(Notifications)
    BY HeadTailProperties DEF MessageType
  <2>3. Count(Tail(due), Ntf("dev_status")) \in Nat
    BY <2>2, CountFinite
  <2>4. QED
    BY <2>1, <2>3
<1>3. chip = "boot"
  <2>1. chip # "configured"
    BY <1>1 DEF DueState, ReadyNtf
  <2>2. QED
    BY <1>1, <1>2, <2>1 DEF DueState, TypeOK, Progress
<1>4. Total("dev_status") > 0
  <2>1. "dev_status" \in Semaphores
    BY DEF Semaphores, InitSemaphores
  <2>2. QED
    BY <1>2, <2>1, TotalTypes
<1>5. Expected("dev_status")
  BY <1>4 DEF Balanced, One
<1>6. \/ api \in {"read", "wait_init", "wait_ready", "wait_reset"}
      \/ cmd \in {"board", "reset"} /\ Ok > 0
  BY <1>5 DEF Expected, Awaited
<1>7. cmd # "none" => api = "await"
  BY DEF CommandState
<1>8. QED
  BY <1>3, <1>6, <1>7 DEF ChipState, Awaiting

(* The state that a wait tests is the one that its notification brought.   *)
LEMMA StateKnownStep ==
  ASSUME TypeInv, Balanced, StateKnown, [Next]_vars
  PROVE  StateKnown'
<1>. SUFFICES ASSUME Calm'
              PROVE  /\ NextNum(Errors) = 0
                     /\ api' \notin {"read", "wait_init"} => NextNum(InitNtf) = 0
                     /\ api' = "wait_init" /\ Heard' => uwbc_device_state' = "INIT"
                     /\ BoardPhase' /\ Heard' => uwbc_device_state' = "READY"
                     /\ AfterReady' => uwbc_device_state' = "READY"
  BY DEF StateKnown, NextNum, Num, BoardPhase, AfterReady
<1>0. /\ Calm /\ faulted' \intersect {"mute", "twice", "crash", "late"} = {}
      /\ "dev_status" \in Semaphores
      /\ Num(Errors) = 0
      /\ api \notin {"read", "wait_init"} => Num(InitNtf) = 0
      /\ api = "wait_init" /\ Heard => uwbc_device_state = "INIT"
      /\ BoardPhase /\ Heard => uwbc_device_state = "READY"
      /\ AfterReady => uwbc_device_state = "READY"
      /\ api = "board" => ~Heard
  <2>1. api = "board" => Total("dev_status") = 0 \/ ~Calm
    BY DEF Balanced, Expected, Awaited, TypeInv, CommandState, One
  <2>2. Total("dev_status") = 0 => ~Heard
    <3>1. client \in Ntf("dev_status") => Num(Ntf("dev_status")) > 0
      <4>1. \A S : Count(rx, S) \in Nat /\ Count(queue, S) \in Nat
        BY CountFinite DEF TypeInv, MessageType
      <4>2. QED
        BY <4>1 DEF Num, Flow, One
    <3>2. QED
      BY <3>1, TotalTypes DEF Heard, Semaphores, InitSemaphores
  <2>3. QED
    BY <2>1, <2>2, CalmStep DEF StateKnown, BoardPhase, AfterReady, Semaphores,
       InitSemaphores
<1>1. NextNum(Errors) = 0
  <2>1. /\ Errors \in SUBSET Packets /\ Errors \intersect Responses = {}
        /\ Errors \intersect Notifications = {}
    BY Sets DEF Errors, Responses, Notifications, BindingTypes
  <2>2. ~ChipCrashes
    BY <1>0 DEF ChipCrashes, Fault
  <2>3. ChipNotifies => Head(due) \notin Errors
    BY <2>1, NotifyFlow DEF TypeInv
  <2>4. QED
    BY <1>0, <2>1, <2>2, <2>3, Arrivals DEF Chip
<1>2. ASSUME api \notin {"read", "wait_init"} PROVE NextNum(InitNtf) = 0
  <2>1. /\ InitNtf \in SUBSET Packets /\ InitNtf \intersect Responses = {}
        /\ InitNtf \intersect Errors = {}
    BY Sets DEF InitNtf, Responses, Errors, Message
  <2>2. ChipNotifies => Head(due) \notin InitNtf
    BY <1>0, <1>2, CalmInitNtf DEF ChipNotifies
  <2>3. QED
    BY <1>0, <1>2, <2>1, <2>2, Arrivals DEF Chip
<1>3. CASE CoreInitialization \/ Download
  <2>1. /\ api \in {"start", "download"} /\ cmd' = "none"
        /\ api' \in {"download", "read", "failure"}
    BY <1>3 DEF CoreInitialization, Download, TypeInv, CommandState, apiVars
  <2>2. ~BoardPhase' /\ ~AfterReady' /\ api' # "wait_init"
    BY <2>1 DEF BoardPhase, AfterReady, At, Awaiting, Later, Started, Over
  <2>3. QED
    BY <1>1, <1>2, <2>1, <2>2
<1>4. CASE TimedWait
  <2>. DEFINE sem == Waits[api].sem
  <2>1. /\ api \in WaitNames /\ UNCHANGED <<client, uwbc_device_state>>
        /\ api' \in {Waits[api].then, Waits[api].late, "failure"}
    BY <1>4, WaitTotal
  <2>2. /\ sem = "dev_status" =>
             /\ Num(Ntf(sem)) = 0
             /\ api' = IF uwbc_device_state \in Waits[api].states
                       THEN Waits[api].then ELSE "failure"
    BY <1>0, <1>4, CalmWait
  <2>3. ~BoardPhase' /\ api' # "wait_init"
    BY <2>1, WaitTable DEF WaitNames, Wait, BoardPhase, Awaiting
  <2>4. AfterReady' => uwbc_device_state = "READY"
    <3>1. api \in {"wait_init", "wait_ready"} /\ AfterReady' =>
            uwbc_device_state = "READY"
      BY <2>2, WaitTable DEF Wait, AfterReady, At, Awaiting, Later, Over
    <3>2. api \notin {"wait_init", "wait_ready"} => AfterReady
      BY <2>1 DEF WaitNames, AfterReady, Later, Started, Over, Awaiting
    <3>3. QED
      BY <1>0, <3>1, <3>2
  <2>5. api = "wait_init" => NextNum(InitNtf) = 0
    <3>1. api = "wait_init" => Num(Ntf("dev_status")) = 0
      BY <2>2, WaitTable DEF Wait
    <3>2. /\ NextNum(InitNtf) <= Num(InitNtf) /\ NextNum(InitNtf) \in Nat
          /\ Num(InitNtf) \in Nat
      <4>1. UNCHANGED <<rx, queue, client>>
        BY <1>4, WaitTotal
      <4>2. QED
        BY <4>1, FlowTypes DEF NextNum, Num, TypeInv
    <3>3. Num(InitNtf) <= Num(Ntf("dev_status"))
      BY FlowTypes, Sets DEF TypeInv
    <3>4. QED
      BY <3>1, <3>2, <3>3
  <2>6. api # "read"
    BY <2>1 DEF WaitNames
  <2>7. QED
    BY <1>1, <1>2, <2>1, <2>3, <2>4, <2>5, <2>6
<1>5. CASE Moves
  <2>1. /\ UNCHANGED <<client, uwbc_device_state>>
        /\ tokens'["dev_status"] = tokens["dev_status"]
    <3>1. ReadOtp => tokens'["dev_status"] = tokens["dev_status"]
      BY <1>0 DEF ReadOtp, TypeInv, TypeOK
    <3>2. QED
      BY <1>5, <3>1, MovesFrame
  <2>2. Heard' <=> Heard
    BY <2>1 DEF Heard
  <2>3. api' = "wait_init" => ~Heard
    <3>1. api' = "wait_init" => api = "read"
      BY <1>5, MovesExpected
    <3>2. api = "read" => tokens["dev_status"] = 0 /\ client = Idle
      BY DEF TypeInv, Beginning
    <3>3. QED
      BY <3>1, <3>2, Sets DEF Heard
  <2>4. QED
    BY <1>0, <1>1, <1>2, <1>5, <2>1, <2>2, <2>3, MovesPhase, MovesExpected
<1>6. CASE ChipReplies \/ ReaderPosts \/ ChipNotifies \/ ChipCrashes \/ UNCHANGED vars
  <2>1. UNCHANGED <<api, cmd, client, tokens, uwbc_device_state>>
    BY <1>6 DEF ChipReplies, ReaderPosts, ChipNotifies, ChipCrashes, vars,
       apiVars,
       semVars, devVars, tmlVars
  <2>2. QED
    BY <1>0, <1>1, <1>2, <2>1 DEF Heard, BoardPhase, AfterReady, At, Awaiting,
       Later
<1>7. CASE ClientTakes
  <2>. DEFINE p == Head(queue)
  <2>1. /\ UNCHANGED <<api, cmd, tokens>>
    BY <1>7 DEF ClientTakes, apiVars
  <2>2. /\ BoardPhase' <=> BoardPhase
        /\ AfterReady' <=> AfterReady
    BY <2>1 DEF BoardPhase, AfterReady, At, Awaiting, Later
  <2>3. CASE p \in Ntf("dev_status") /\ ~uwb_device_initialized
    <3>1. uwbc_device_state' \in {"INIT", "READY"} /\ uwbc_device_state' = p.status
      BY <1>0, <1>7, <2>3, TakesState
    <3>2. api \notin {"read", "wait_init"} => uwbc_device_state' = "READY"
      BY <1>0, <1>7, <2>3, TakesState
    <3>3. api = "wait_init" => uwbc_device_state' = "INIT"
      <4>1. api = "wait_init" => Num(ReadyNtf) = 0
        BY <1>0 DEF TypeInv, ChipState, DueState, Calm, AllHeard
      <4>2. QED
        BY <1>0, <1>7, <2>3, <4>1, TakesState
    <3>4. BoardPhase \/ AfterReady => api \notin {"read", "wait_init"}
      BY DEF BoardPhase, AfterReady, At, Awaiting, Later, Started
    <3>5. QED
      BY <1>1, <1>2, <2>1, <2>2, <3>2, <3>3, <3>4
  <2>4. CASE ~(p \in Ntf("dev_status") /\ ~uwb_device_initialized)
    <3>1. uwbc_device_state' = uwbc_device_state
      BY <1>0, <1>7, <2>4, TakesState
    <3>2. Heard' /\ ~uwb_device_initialized => Heard
      BY <1>0, <1>7, <2>1, <2>4, TakesState DEF Heard
    <3>3. uwb_device_initialized => ~BoardPhase /\ api # "wait_init"
      BY DEF TypeInv, Beginning, BoardPhase, Awaiting
    <3>4. QED
      BY <1>0, <1>1, <1>2, <2>1, <2>2, <3>1, <3>2, <3>3
  <2>5. QED
    BY <2>3, <2>4
<1>8. CASE ClientFinishes
  <2>1. /\ UNCHANGED <<api, cmd, uwbc_device_state>> /\ client' = Idle
        /\ tokens' = IF Posts(client) /\ client.type \in live
                     THEN [tokens EXCEPT ![client.type] = @ + 1] ELSE tokens
    BY <1>8 DEF ClientFinishes, devVars
  <2>2. /\ BoardPhase' <=> BoardPhase
        /\ AfterReady' <=> AfterReady
    BY <2>1 DEF BoardPhase, AfterReady, At, Awaiting, Later
  <2>3. Heard' => Heard
    <3>1. Idle \notin Ntf("dev_status")
      BY Sets
    <3>2. client \in Messages /\ tokens \in [Semaphores -> Nat]
      BY DEF TypeInv, TypeOK, MessageType, Messages
    <3>3. Posts(client) /\ client.type = "dev_status" => client \in Ntf("dev_status")
      BY <1>0, <3>2, Kinds DEF Posts
    <3>4. tokens'["dev_status"] = tokens["dev_status"] \/ client \in Ntf("dev_status")
      BY <1>0, <2>1, <3>2, <3>3
    <3>5. QED
      BY <2>1, <3>1, <3>4 DEF Heard
  <2>4. QED
    BY <1>0, <1>1, <1>2, <2>1, <2>2, <2>3
<1>9. QED
  BY <1>3, <1>4, <1>5, <1>6, <1>7, <1>8, NextCases DEF Others


(* What is expected has its semaphore, and the read of the OTP its context. *)
LEMMA ExpectedLive ==
  ASSUME TypeInv, NEW sem \in Semaphores, Expected(sem)
  PROVE  sem \in live /\ (sem = "calib_data" => cookie # "dead")
<1>1. cmd # "none" <=> api = "await"
  BY DEF TypeInv, CommandState
<1>2. CASE sem # "calib_data"
  <2>1. live # {} => InitSemaphores \subseteq live
    BY DEF TypeInv, TypeOK, Semaphores
  <2>2. \/ api \notin {"start", "idle", "wait_otp", "otp_end"} /\ ~Awaiting({"otp"})
        \/ api = "idle" /\ live # {}
    BY <1>1, <1>2 DEF Expected, Awaited, Awaiting
  <2>3. live # {}
    BY <2>2 DEF TypeInv, LiveState, InitSemaphores
  <2>4. QED
    BY <1>2, <2>1, <2>3 DEF Semaphores
<1>3. CASE sem = "calib_data"
  <2>1. api = "wait_otp" \/ Awaiting({"otp"})
    BY <1>1, <1>3 DEF Expected, Awaited, Awaiting
  <2>2. QED
    BY <1>3, <2>1 DEF TypeInv, LiveState, Semaphores
<1>4. QED
  BY <1>2, <1>3

LEMMA NoDeadPostsStep ==
  ASSUME TypeInv, Balanced, NoDeadPosts, [Next]_vars
  PROVE  NoDeadPosts'
<1>. SUFFICES ASSUME Calm' PROVE ~deadPost'
  BY DEF NoDeadPosts, Calm
<1>0. /\ Calm /\ ~deadPost
      /\ \A sem \in Semaphores : Total(sem) > 0 => sem \in live
      /\ Total("calib_data") > 0 => cookie # "dead"
  <2>1. Calm
    BY CalmStep
  <2>2. ASSUME NEW sem \in Semaphores, Total(sem) > 0
        PROVE  sem \in live /\ (sem = "calib_data" => cookie # "dead")
    <3>1. Total(sem) <= One(Expected(sem)) /\ Total(sem) \in Nat
      BY <2>1, TotalTypes DEF Balanced
    <3>2. Expected(sem)
      BY <2>2, <3>1 DEF One
    <3>3. QED
      BY <3>2, ExpectedLive
  <2>3. "calib_data" \in Semaphores
    BY DEF Semaphores
  <2>4. QED
    BY <2>1, <2>2, <2>3 DEF NoDeadPosts, Calm
<1>1. CASE ClientTakes
  <2>1. deadPost' = deadPost
          \/ (Head(queue).type = "calib_data" /\ deadPost' = (deadPost \/ cookie = "dead"))
    BY <1>1 DEF ClientTakes, TakeCalibData
  <2>2. Head(queue).type = "calib_data" => Head(queue) \in Ntf("calib_data")
    BY <1>1, TakenIs, Kinds DEF Semaphores, Errors
  <2>3. Head(queue) \in Ntf("calib_data") => Total("calib_data") > 0
    BY <1>1, TotalTakes DEF Semaphores
  <2>4. QED
    BY <1>0, <2>1, <2>2, <2>3
<1>2. CASE ClientFinishes
  <2>1. deadPost' = (deadPost \/ (Posts(client) /\ client.type \notin live))
    BY <1>2 DEF ClientFinishes
  <2>2. client \in Messages
    BY DEF TypeInv, MessageType, Messages
  <2>3. Posts(client) => client.type \in Semaphores /\ client \in Ntf(client.type)
    BY <2>2, Kinds DEF Posts
  <2>4. Posts(client) => Total(client.type) > 0
    BY <1>2, <2>3, TotalFinishes
  <2>5. QED
    BY <1>0, <2>1, <2>3, <2>4
<1>3. CASE ~ClientThread
  <2>1. UNCHANGED deadPost
    <3>1. CASE CoreInitialization \/ Download \/ TimedWait
      BY <3>1 DEF CoreInitialization, Download, TimedWait, tellVars
    <3>2. CASE Moves
      BY <3>2, MovesFrame
    <3>3. CASE ReaderPosts \/ Chip \/ ChipCrashes
      BY <3>3 DEF ReaderPosts, Chip, ChipReplies, ChipNotifies, ChipCrashes,
         tellVars
    <3>4. CASE UNCHANGED vars
      BY <3>4 DEF vars, tellVars
    <3>5. QED
      BY <1>3, <3>1, <3>2, <3>3, <3>4, NextCases DEF Others, ClientThread, Chip
  <2>2. QED
    BY <1>0, <2>1
<1>4. QED
  BY <1>1, <1>2, <1>3 DEF ClientThread


(* What is known of the binding stays known until the chip changes it.     *)
NextKnows(known) ==
  /\ NextNum(OtherBinding(known)) = 0 /\ Count(due', OtherBinding(known)) = 0
  /\ uwb_binding_status' \in known \union {"UNKNOWN"}

LEMMA OtherBindings ==
  \A known :
    /\ OtherBinding(known) \in SUBSET Packets
    /\ OtherBinding(known) \subseteq OtherBinding({})
    /\ OtherBinding(known) \intersect Responses = {}
    /\ OtherBinding(known) \intersect Errors = {}
    /\ \A other : known \subseteq other => OtherBinding(other) \subseteq OtherBinding(known)
  BY Sets DEF OtherBinding, Responses, Errors, BindingTypes

LEMMA NoneSubset ==
  ASSUME MessageType, NEW S, NEW T, S \subseteq T
  PROVE  /\ Num(T) = 0 => Num(S) = 0
         /\ Due(T) = 0 => Due(S) = 0
<1>1. /\ Num(S) \in Nat /\ Num(T) \in Nat /\ Num(S) <= Num(T)
      /\ Due(S) \in Nat /\ Due(T) \in Nat
  BY FlowTypes
<1>2. Due(S) <= Due(T)
  BY CountSubset DEF MessageType, Due
<1>3. QED
  BY <1>1, <1>2

LEMMA KnowsStep ==
  ASSUME TypeInv, NEW known, Knows(known),
         CoreInitialization \/ TimedWait \/ Moves \/ Others \/ UNCHANGED vars
  PROVE  NextKnows(known)
<1>. DEFINE S == OtherBinding(known)
<1>0. /\ Num(S) = 0 /\ Due(S) = 0 /\ NextNum(S) \in Nat
      /\ S \in SUBSET Packets /\ S \intersect Errors = {} /\ S \intersect Responses = {}
      /\ uwb_binding_status \in known \union {"UNKNOWN"} /\ [Next]_vars
  BY OtherBindings, Arrivals, NextCases DEF Knows
<1>. HIDE DEF S
<1>1. ChipNotifies => Head(due) \notin S /\ Count(due', S) = 0
  <2>1. ChipNotifies => Due(S) = Count(due', S) + One(Head(due) \in S) /\ Count(due', S) \in Nat
    BY NotifyFlow DEF TypeInv
  <2>2. QED
    BY <1>0, <2>1 DEF One
<1>2. NextNum(S) = 0
  <2>1. ~ChipReplies /\ ~ChipNotifies /\ ~ChipCrashes => NextNum(S) <= Num(S)
    BY <1>0, Arrivals DEF Chip
  <2>2. ChipNotifies => NextNum(S) = Num(S)
    BY <1>0, <1>1, Arrivals
  <2>3. ChipCrashes \/ ChipReplies => NextNum(S) = Num(S)
    BY <1>0, Arrivals
  <2>4. QED
    BY <1>0, <2>1, <2>2, <2>3
<1>3. ~ChipNotifies => due' = due
  <2>1. CASE CoreInitialization \/ TimedWait
    BY <2>1 DEF CoreInitialization, TimedWait, chipVars
  <2>2. CASE ReaderPosts \/ ClientTakes \/ ClientFinishes \/ ChipCrashes
    BY <2>2 DEF ReaderPosts, ClientTakes, ClientFinishes, ChipCrashes, chipVars
  <2>3. CASE UNCHANGED vars
    BY <2>3 DEF vars, chipVars
  <2>4. QED
    BY <2>1, <2>2, <2>3, MovesFrame, NextCases DEF Others
<1>4. Count(due', S) = 0
  BY <1>0, <1>1, <1>3 DEF Due
<1>5. uwb_binding_status' \in known \union {"UNKNOWN"}
  <2>1. CASE ClientTakes
    <3>1. /\ Head(queue) \in Messages
          /\ Head(queue) \notin S
      BY <1>0, <2>1, TakenIs, TakesFlow DEF TypeInv
    <3>2. Head(queue).type \in BindingTypes => Head(queue).status \in known
      BY <3>1, Kinds DEF S
    <3>3. uwb_binding_status' = uwb_binding_status
            \/ (Head(queue).type \in BindingTypes /\ uwb_binding_status' = Head(queue).status)
      BY <2>1 DEF ClientTakes, devVars, InitSemaphores, BindingTypes
    <3>4. QED
      BY <1>0, <3>2, <3>3
  <2>2. CASE ~ClientTakes
    <3>1. CASE CoreInitialization \/ TimedWait
      BY <1>0, <3>1 DEF CoreInitialization, TimedWait, devVars
    <3>2. CASE ReaderPosts \/ ClientFinishes \/ ChipNotifies \/ ChipCrashes
      BY <1>0, <3>2 DEF ReaderPosts, ClientFinishes, ChipNotifies, ChipCrashes,
         devVars
    <3>3. CASE UNCHANGED vars
      BY <1>0, <3>3 DEF vars, devVars
    <3>4. QED
      BY <1>0, <2>2, <3>1, <3>2, <3>3, MovesFrame, NextCases DEF Others
  <2>3. QED
    BY <2>1, <2>2
<1>6. QED
  BY <1>2, <1>4, <1>5 DEF NextKnows, S

(* The steps of the call decide on a binding that they know.               *)
LEMMA MovesBinding ==
  ASSUME TypeInv, Binding, Moves
  PROVE  /\ api' \notin {"start", "download"}
         /\ Unbound' => Unbound
         /\ (At("dpd_bind") \/ api = "bind")' => bound = "NOT_BOUND"
         /\ (At("dpd_check") \/ api = "check")' => bound = "UNLOCKED"
         /\ (Awaiting({"bind"}) \/ api \in {"wait_bind", "bound"})' =>
              /\ bound \in {"NOT_BOUND", "UNLOCKED"}
              /\ Knows({"NOT_BOUND", bound})
         /\ api' = "lock" => bound = "UNLOCKED"
<1>. USE DEF TypeInv, CommandState, Binding, Unbound, At, Awaiting
<1>1. CASE FirstRead
  BY <1>1 DEF FirstRead, apiVars, chipVars
<1>2. CASE Send
  <2>1. api \in CommandNames \ {"otp"}
    BY <1>2, CommandTable DEF Send
  <2>2. api = "bind" => {"NOT_BOUND", bound} = {bound}
    OBVIOUS
  <2>3. QED
    BY <1>2, <2>1, <2>2 DEF Send, SendCommand, CommandNames
<1>3. CASE Configure \/ ReadOtp
  BY <1>3 DEF Configure, ReadOtp, SendCommand
<1>4. CASE Await
  BY <1>4, OkAwait, CommandTable DEF Await, After, CommandNames, chipVars
<1>5. CASE ParseBindingStatusNtf
  BY <1>5 DEF ParseBindingStatusNtf, Knows, apiVars, chipVars
<1>6. CASE Bound
  BY <1>6 DEF Bound, Knows, apiVars, chipVars
<1>7. CASE Configured \/ OtpEnd \/ TellBinding \/ Done
  BY <1>7 DEF Configured, OtpEnd, TellBinding, Done, apiVars, chipVars
<1>8. CASE Ready \/ Failure \/ Cleanup \/ Return
  BY <1>8 DEF Ready, Failure, Cleanup, Return, apiVars, chipVars
<1>9. QED
  BY <1>1, <1>2, <1>3, <1>4, <1>5, <1>6, <1>7, <1>8 DEF Moves

(* An answer leaves what is known of the binding right, and a bind says so. *)
LEMMA RepliesBinding ==
  ASSUME TypeInv, ChipReplies, NEW known, Knows(known),
         cmd \notin {"reset", "bind", "lock", "check"}
           \/ (bound' \in known /\ cmd \in {"reset", "bind"})
  PROVE  NextKnows(known)
<1>. DEFINE S == OtherBinding(known)
<1>1. NextNum(S) = 0
  BY OtherBindings, Arrivals DEF Knows, Next, Chip
<1>2. uwb_binding_status' = uwb_binding_status /\ cmd \in CommandNames
  BY AnyReply DEF ChipReplies, devVars
<1>3. Count(due', S) = 0
  <2>1. CASE due' = due
    BY <2>1 DEF Knows, Due
  <2>2. CASE Effect(cmd)
    <3>1. ASSUME NEW s \in Seq(Notifications), NEW p \in Notifications,
                 Count(s, S) = 0, p \notin S
          PROVE  Append(s, p) \in Seq(Notifications) /\ Count(Append(s, p), S) = 0
      <4>1. Count(Append(s, p), S) = Count(s, S) + One(p \in S)
        BY CountAppend
      <4>2. QED
        BY <3>1, <4>1 DEF One
    <3>2. due \in Seq(Notifications) /\ Count(due, S) = 0 /\ bound \in Bindings
          /\ bound' \in Bindings
      BY <1>2, <2>2, EffectDue DEF Knows, Due, TypeInv, MessageType
    <3>3. /\ Message("dev_status", "READY") \in Notifications \ S
          /\ \A status \in Answers : Message("calib_data", status) \in Notifications \ S
          /\ \A type \in BindingTypes : \A b \in Bindings :
               /\ Message(type, b) \in Notifications
               /\ b \in known => Message(type, b) \notin S
      BY DEF Notifications, Message, OtherBinding, BindingTypes
    <3>4. CASE cmd = "board"
      <4>1. due' = Append(due, Message("dev_status", "READY"))
        BY <1>2, <2>2, <3>4, EffectDue DEF Announce, TypeInv
      <4>2. QED
        BY <3>1, <3>2, <3>3, <4>1
    <3>5. CASE cmd = "reset"
      <4>1. bound' = bound /\ bound \in known
        BY <1>2, <2>2, <3>5, EffectDue DEF TypeInv
      <4>2. due' = Append(Append(due, Message("dev_status", "READY")),
                          Message("binding_status", bound))
        BY <1>2, <2>2, <3>5, EffectDue DEF TypeInv
      <4>3. QED
        BY <3>1, <3>2, <3>3, <4>1, <4>2 DEF BindingTypes
    <3>6. CASE cmd = "bind"
      <4>1. due' = Append(due, Message("do_bind", bound')) /\ bound' \in known
        BY <1>2, <2>2, <3>6, EffectDue DEF Announce, TypeInv
      <4>2. QED
        BY <3>1, <3>2, <3>3, <4>1 DEF BindingTypes
    <3>7. CASE cmd = "otp"
      <4>1. PICK status \in Answers : due' = Append(due, Message("calib_data", status))
        BY <1>2, <2>2, <3>7, EffectDue DEF Announce, TypeInv
      <4>2. QED
        BY <3>1, <3>2, <3>3, <4>1
    <3>8. CASE cmd \notin {"board", "reset", "bind", "otp"}
      BY <1>2, <2>2, <3>2, <3>8, EffectDue DEF TypeInv
    <3>9. QED
      BY <3>4, <3>5, <3>6, <3>7, <3>8
  <2>3. QED
    BY <2>1, <2>2, AnyReply
<1>4. QED
  BY <1>1, <1>2, <1>3 DEF Knows, NextKnows

LEMMA BindingStep ==
  ASSUME TypeInv, Binding, [Next]_vars
  PROVE  Binding'
<1>. SUFFICES /\ api' \in {"start", "download"} => NextNum(OtherBinding({})) = 0
              /\ Unbound' => NextKnows({bound'})
              /\ (At("dpd_bind") \/ api = "bind")' => bound' = "NOT_BOUND"
              /\ (At("dpd_check") \/ api = "check")' => bound' = "UNLOCKED"
              /\ (Awaiting({"bind"}) \/ api \in {"wait_bind", "bound"})' =>
                   /\ bound' \in {"NOT_BOUND", "UNLOCKED"}
                   /\ NextKnows({"NOT_BOUND", bound'})
              /\ api' = "lock" => bound' = "UNLOCKED"
  BY DEF Binding, Knows, NextKnows, NextNum, Num, Due
<1>0. api \in {"start", "download"} => NextNum(OtherBinding({})) = 0
  <2>1. api \in {"start", "download"} => chip = "off" /\ due = <<>>
    BY DEF TypeInv, Beginning
  <2>2. api \in {"start", "download"} => ~ChipNotifies
    BY <2>1 DEF ChipNotifies
  <2>3. NextNum(OtherBinding({})) \in Nat /\ Num(OtherBinding({})) \in Nat
        /\ (~ChipNotifies => NextNum(OtherBinding({})) <= Num(OtherBinding({})))
    BY OtherBindings, Arrivals DEF Chip
  <2>4. QED
    BY <2>2, <2>3 DEF Binding
<1>1. CASE CoreInitialization \/ Download
  <2>1. /\ api \in {"start", "download"} /\ cmd' = "none" /\ reply' = "none"
        /\ api' \in {"download", "read", "failure"}
        /\ bound' = bound
        /\ api' = "read" => Download
    BY <1>1 DEF CoreInitialization, Download, TypeInv, CommandState, apiVars,
       chipVars
  <2>2. NextNum(OtherBinding({})) = 0
    BY <1>0, <2>1
  <2>3. ASSUME Download, api' = "read" PROVE NextKnows({bound'})
    <3>1. due' = <<Message("dev_status", "INIT")>> /\ uwb_binding_status' = "UNKNOWN"
      BY <2>3 DEF Download
    <3>2. NextNum(OtherBinding({bound'})) = 0
      <4>1. NextNum(OtherBinding({bound'})) <= NextNum(OtherBinding({}))
            /\ NextNum(OtherBinding({bound'})) \in Nat
        BY OtherBindings, NextFlow, TypeInvStep DEF NextNum, TypeInv
      <4>2. QED
        BY <2>2, <4>1
    <3>3. Count(due', OtherBinding({bound'})) = 0
      <4>1. Message("dev_status", "INIT") \notin OtherBinding({bound'})
        BY DEF OtherBinding, BindingTypes, Message
      <4>2. due' \in Seq(Notifications) /\ DOMAIN due' = {1}
            /\ due'[1] = Message("dev_status", "INIT")
        BY <3>1, TypeInvStep DEF TypeInv, MessageType
      <4>3. QED
        BY <4>1, <4>2, CountZero
    <3>4. QED
      BY <3>1, <3>2, <3>3 DEF NextKnows
  <2>4. QED
    BY <2>1, <2>2, <2>3 DEF Unbound, At, Awaiting
<1>2. CASE TimedWait
  <2>1. /\ api \in WaitNames /\ UNCHANGED <<cmd, bound, reply>>
        /\ api' \in {Waits[api].then, Waits[api].late, "failure"}
    BY <1>2, WaitTotal DEF TimedWait, apiVars, chipVars
  <2>2. reply = "none" /\ cmd = "none"
    BY <2>1 DEF TypeInv, CommandState, WaitNames
  <2>3. /\ Unbound' => Unbound
        /\ api' = "bound" => api = "wait_bind"
        /\ api' \notin {"start", "download", "bind", "check", "lock", "wait_bind",
                        "dpd_bind", "dpd_check"}
    BY <2>1, <2>2, WaitTable DEF WaitNames, Wait, Unbound, Awaiting
  <2>4. \A known : Knows(known) => NextKnows(known)
    BY <1>2, KnowsStep
  <2>5. QED
    BY <2>1, <2>2, <2>3, <2>4 DEF Binding, At, Awaiting
<1>3. CASE Moves
  <2>1. bound' = bound /\ \A known : Knows(known) => NextKnows(known)
    BY <1>3, MovesFrame, KnowsStep
  <2>2. QED
    BY <1>3, <2>1, MovesBinding DEF Binding
<1>4. CASE ChipReplies
  <2>1. /\ UNCHANGED <<api, cmd>> /\ api = "await" /\ cmd = reply
        /\ bound' = bound \/ (cmd = "bind" /\ bound' = "UNLOCKED") \/ cmd \in {"lock", "check"}
    BY <1>4, AnyReply, EffectDue DEF TypeInv
  <2>2. Unbound' => NextKnows({bound'})
    <3>1. Unbound' => cmd \in {"board", "reset", "info", "dpd_bind", "dpd_check"}
      BY <2>1 DEF Unbound, Awaiting
    <3>2. Unbound' => Knows({bound}) /\ bound' = bound
      BY <2>1, <3>1 DEF Binding, Unbound, Awaiting
    <3>3. QED
      BY <1>4, <3>1, <3>2, RepliesBinding
  <2>3. ASSUME cmd = "bind"
        PROVE  bound' \in {"NOT_BOUND", "UNLOCKED"} /\ NextKnows({"NOT_BOUND", bound'})
    <3>1. bound \in {"NOT_BOUND", "UNLOCKED"} /\ Knows({"NOT_BOUND", bound})
      BY <2>1, <2>3 DEF Binding, Awaiting
    <3>2. /\ bound' \in {"NOT_BOUND", "UNLOCKED"}
          /\ {"NOT_BOUND", bound} \subseteq {"NOT_BOUND", bound'}
      BY <2>1, <2>3, <3>1
    <3>3. Knows({"NOT_BOUND", bound'})
      <4>1. OtherBinding({"NOT_BOUND", bound'}) \subseteq OtherBinding({"NOT_BOUND", bound})
        BY <3>2, OtherBindings
      <4>2. /\ Num(OtherBinding({"NOT_BOUND", bound'})) = 0
            /\ Due(OtherBinding({"NOT_BOUND", bound'})) = 0
        BY <3>1, <4>1, NoneSubset DEF Knows, TypeInv
      <4>3. QED
        BY <3>1, <3>2, <4>2 DEF Knows
    <3>4. QED
      BY <1>4, <2>3, <3>2, <3>3, RepliesBinding
  <2>4. QED
    BY <2>1, <2>2, <2>3 DEF Binding, At, Awaiting
<1>5. CASE Others \/ UNCHANGED vars
  <2>1. UNCHANGED <<api, cmd, reply, bound>>
    BY <1>5, OkKept DEF Others, vars, apiVars, chipVars
  <2>2. \A known : Knows(known) => NextKnows(known)
    BY <1>5, KnowsStep
  <2>3. api \in {"start", "download"} => NextNum(OtherBinding({})) = 0
    BY <1>0
  <2>4. QED
    BY <2>1, <2>2, <2>3 DEF Binding, Unbound, At, Awaiting
<1>6. QED
  BY <1>1, <1>2, <1>3, <1>4, <1>5, NextCases


(* Only a mishap is counted.                                               *)
LEMMA FaultsCounted == [Next]_vars => NoFault \/ \E mishap : Fault(mishap)
<1>. SUFFICES ASSUME [Next]_vars PROVE NoFault \/ \E mishap : Fault(mishap)
  OBVIOUS
<1>. USE DEF NoFault, faultVars
<1>1. CASE CoreInitialization \/ Download \/ FirstRead \/ TimedWait
  BY <1>1 DEF CoreInitialization, Download, FirstRead, TimedWait
<1>2. CASE Send \/ Configure \/ Configured \/ ReadOtp \/ OtpEnd \/ Await
  BY <1>2 DEF Send, Configure, Configured, ReadOtp, OtpEnd, Await
<1>3. CASE ParseBindingStatusNtf \/ Bound \/ TellBinding \/ Done \/ Ready \/ Failure
           \/ Cleanup \/ Return
  BY <1>3 DEF ParseBindingStatusNtf, Bound, TellBinding, Done, Ready, Failure,
     Cleanup, Return
<1>4. CASE ReaderPosts \/ ClientThread
  BY <1>4 DEF ReaderPosts, ClientThread, ClientTakes, ClientFinishes
<1>5. CASE Chip \/ ChipCrashes
  BY <1>5 DEF Chip, ChipReplies, ChipNotifies, ChipCrashes
<1>6. CASE UNCHANGED vars
  BY <1>6 DEF vars
<1>7. QED
  BY <1>1, <1>2, <1>3, <1>4, <1>5, <1>6 DEF Next, Api

(* A failure is announced by the end of the call that fails alone.         *)
LEMMA UntoldStep ==
  ASSUME TypeInv, Untold, [Next]_vars, api # "failure"
  PROVE  Untold'
<1>. USE DEF TypeInv, MessageType
<1>1. \A e \in (Messages \union Notices) \ Failed :
        Count(Append(told, e), Failed) = 0
  BY CountAppend DEF Untold, One
<1>2. \A e \in (Packets \union Results) \ Failed :
        Count(Append(queue, e), Failed) = 0
  BY CountAppend DEF Untold, One
<1>3. /\ Packets \intersect Failed = {} /\ Forwards \intersect Failed = {}
      /\ Idle \notin Failed /\ Message("init_cplt", "ok") \in Results \ Failed
  <2>1. \A m \in Failed : m.type = "error"
    BY DEF Failed, Message
  <2>2. \A m \in Packets \union Forwards \union {Idle} : m.type # "error"
    BY DEF Packets, Notifications, Responses, Errors, Forwards, Idle, Message,
       BindingTypes
  <2>3. QED
    BY <2>1, <2>2 DEF Results, Message
<1>4. CASE ReaderPosts
  <2>1. Head(rx) \in Packets
    BY <1>4, HeadTailProperties DEF ReaderPosts
  <2>2. QED
    BY <1>2, <1>3, <1>4, <2>1 DEF ReaderPosts, tellVars, Untold
<1>5. CASE ClientTakes
  <2>1. Head(queue) \in Packets \union Results /\ Head(queue) \in Messages
    BY <1>5, TakenIs, TakesFlow
  <2>2. Count(queue, Failed) = Count(Tail(queue), Failed) + One(Head(queue) \in Failed)
    BY <1>5, CountHead DEF ClientTakes
  <2>3. Tail(queue) \in Seq(Packets \union Results)
    BY <1>5, HeadTailProperties DEF ClientTakes
  <2>4. Count(Tail(queue), Failed) \in Nat
    BY <2>3, CountFinite
  <2>5. Head(queue) \notin Failed /\ Count(Tail(queue), Failed) = 0
    BY <2>2, <2>4 DEF Untold, One
  <2>6. queue' = Tail(queue) /\ told' \in {told, Append(told, Head(queue))}
    BY <1>5 DEF ClientTakes
  <2>7. QED
    BY <1>1, <2>1, <2>5, <2>6 DEF Untold
<1>6. CASE ClientFinishes
  <2>1. told' \in {told, Append(told, client)} /\ queue' = queue
    BY <1>6 DEF ClientFinishes
  <2>2. client \in Messages \ Failed
    BY <1>3 DEF Messages
  <2>3. QED
    BY <1>1, <2>1, <2>2 DEF Untold
<1>7. CASE Done
  BY <1>2, <1>3, <1>7 DEF Done, tellVars, Untold
<1>8. CASE TellBinding \/ Ready
  <2>1. \E e \in Notices : told' = Append(told, e)
    BY <1>8 DEF TellBinding, Ready, Notices, Message, TypeOK, Statuses,
       Bindings, AnyState
  <2>2. Notices \intersect Failed = {}
    BY DEF Notices, Failed, Message
  <2>3. queue' = queue
    BY <1>8 DEF TellBinding, Ready, tmlVars
  <2>4. QED
    BY <1>1, <2>1, <2>2, <2>3 DEF Untold
<1>9. CASE UNCHANGED <<queue, told>>
  BY <1>9 DEF Untold
<1>10. QED
  <2>1. CASE CoreInitialization \/ Download \/ FirstRead \/ TimedWait
    BY <1>9, <2>1 DEF CoreInitialization, Download, FirstRead, TimedWait,
       tmlVars, tellVars
  <2>2. CASE Send \/ Configure \/ Configured \/ ReadOtp \/ OtpEnd \/ Await
    BY <1>9, <2>2 DEF Send, Configure, Configured, ReadOtp, OtpEnd, Await,
       tmlVars, tellVars
  <2>3. CASE ParseBindingStatusNtf \/ Bound \/ Failure \/ Cleanup \/ Return
    BY <1>9, <2>3 DEF ParseBindingStatusNtf, Bound, Failure, Cleanup, Return,
       tmlVars, tellVars
  <2>4. CASE Chip \/ ChipCrashes
    BY <1>9, <2>4 DEF Chip, ChipReplies, ChipNotifies, ChipCrashes, tmlVars,
       tellVars
  <2>5. CASE UNCHANGED vars
    BY <1>9, <2>5 DEF vars, tmlVars, tellVars
  <2>6. QED
    BY <1>4, <1>5, <1>6, <1>7, <1>8, <2>1, <2>2, <2>3, <2>4, <2>5 DEF Next,
       Api, ClientThread

(* A command that the chip carries out has its answer on the way.          *)
LEMMA AnsweredStep ==
  ASSUME TypeInv, Answered, [Next]_vars, faulted' \subseteq {"download"}
  PROVE  Answered'
<1>. SUFFICES /\ rsp' # "failed" /\ NextNum(Refusal) = 0
              /\ api' = "await" =>
                   One(reply' # "none") + One(rsp' # "none") + NextNum(Responses) = 1
  BY DEF Answered, NextNum, Num
<1>0. /\ Refusal \in SUBSET Packets /\ Responses \in SUBSET Packets
      /\ Refusal \subseteq Responses /\ Responses \intersect Errors = {}
      /\ Responses \intersect Notifications = {}
      /\ Num(Refusal) \in Nat /\ NextNum(Refusal) \in Nat /\ Num(Refusal) = 0
      /\ Num(Responses) \in Nat /\ NextNum(Responses) \in Nat
      /\ ~Chip /\ ~ChipCrashes => NextNum(Refusal) <= Num(Refusal)
      /\ \A S \in SUBSET Responses : ChipNotifies \/ ChipCrashes => NextNum(S) = Num(S)
  <2>1. /\ Refusal \in SUBSET Packets /\ Responses \in SUBSET Packets
        /\ Refusal \subseteq Responses /\ Responses \intersect Errors = {}
        /\ Responses \intersect Notifications = {}
    BY Sets DEF Responses, Errors, Notifications, BindingTypes
  <2>2. ChipNotifies => Head(due) \in Notifications
    BY NotifyFlow DEF TypeInv
  <2>3. QED
    BY <2>1, <2>2, Arrivals DEF Answered
<1>1. CASE CoreInitialization \/ Download \/ TimedWait
  <2>1. UNCHANGED <<rsp, rx, queue, client>> /\ api' # "await"
    BY <1>1, WaitTotal, WaitTable DEF CoreInitialization, Download, TimedWait,
       apiVars, tmlVars,
       chipVars, WaitNames, Wait
  <2>2. QED
    BY <1>0, <2>1 DEF NextNum, Num, Answered
<1>2. CASE Moves
  <2>1. NextNum(Refusal) = 0
    <3>1. CASE Done \/ Failure
      BY <1>0, <3>1, AnnounceFlow DEF Done, Failure, Results, chipVars,
         NextNum, TypeInv
    <3>2. CASE ~(Done \/ Failure)
      <4>1. UNCHANGED <<rx, queue, client>>
        BY <1>2, <3>2, MovesFrame DEF Moves, FirstRead, Send, Configure,
           Configured, ReadOtp,
           OtpEnd, Await, ParseBindingStatusNtf, Bound, TellBinding, Ready,
           Cleanup,
           Return, tmlVars
      <4>2. QED
        BY <1>0, <4>1 DEF NextNum, Num
    <3>3. QED
      BY <3>1, <3>2
  <2>2. CASE Send \/ Configure \/ ReadOtp
    <3>1. \E c \in CommandNames : SendCommand(c)
      BY <2>2, CommandTable DEF Send, Configure, ReadOtp, CommandNames
    <3>2. api # "await" /\ UNCHANGED <<rx, queue, client>>
      BY <2>2, CommandTable DEF Send, Configure, ReadOtp, CommandNames, tmlVars
    <3>3. Num(Responses) = 0
      BY <3>2, OkNone
    <3>4. rsp' = "none" /\ reply' # "none"
      BY <3>1 DEF SendCommand, CommandNames
    <3>5. QED
      BY <2>1, <3>2, <3>3, <3>4 DEF NextNum, Num, One
  <2>3. CASE Await
    BY <2>1, <2>3, OkAwait DEF Await, Answered
  <2>4. CASE ~(Send \/ Configure \/ ReadOtp \/ Await)
    <3>1. rsp' = rsp /\ api' # "await"
      BY <1>2, <2>4 DEF Moves, FirstRead, Configured, OtpEnd,
         ParseBindingStatusNtf, Bound,
         TellBinding, Done, Ready, Failure, Cleanup, Return, apiVars
    <3>2. QED
      BY <2>1, <3>1 DEF Answered
  <2>5. QED
    BY <2>2, <2>3, <2>4
<1>3. CASE ChipReplies
  <2>0. AllHeard'
    BY DEF AllHeard
  <2>1. /\ api = "await" /\ reply # "none" /\ reply' = "none" /\ UNCHANGED rsp
        /\ rx' = Append(rx, Message("rsp", "ok")) /\ UNCHANGED <<queue, client>>
    BY <1>3, <2>0, OkReply DEF ChipReplies, Fault, tmlVars
  <2>2. /\ Message("rsp", "ok") \in Packets /\ Message("rsp", "ok") \in Responses
        /\ Message("rsp", "ok") \notin Refusal
    BY Sets DEF Answers, Refusal, Message
  <2>3. /\ NextNum(Responses) = Num(Responses) + 1
        /\ NextNum(Refusal) = Num(Refusal)
    BY <1>0, <2>1, <2>2, SendFlow DEF NextNum, TypeInv, One
  <2>4. QED
    BY <1>0, <2>1, <2>3 DEF Answered, One
<1>4. CASE ReaderPosts \/ ChipNotifies \/ ChipCrashes
  <2>1. /\ NextNum(Responses) = Num(Responses) /\ NextNum(Refusal) = Num(Refusal)
    BY <1>0, <1>4, ReaderFlow DEF NextNum, TypeInv
  <2>2. UNCHANGED <<api, reply, rsp>>
    BY <1>4 DEF ReaderPosts, ChipNotifies, ChipCrashes, apiVars
  <2>3. QED
    BY <1>0, <2>1, <2>2 DEF Answered
<1>5. CASE ClientTakes
  <2>1. /\ Head(queue) \in Messages
        /\ \A S \in SUBSET Packets :
             /\ NextNum(S) + One(Head(queue) \in S) = Num(S) + One(client' \in S)
             /\ client' \in S => Head(queue) \in S
    BY <1>5, TakenIs, TakesFlow DEF NextNum, TypeInv
  <2>2. Head(queue) \in Responses => client' = Head(queue)
    <3>1. Head(queue) \in Responses => Head(queue).type = "rsp"
      BY DEF Responses
    <3>2. QED
      BY <1>5, <3>1 DEF ClientTakes
  <2>3. NextNum(Responses) = Num(Responses) /\ NextNum(Refusal) = Num(Refusal)
    BY <1>0, <2>1, <2>2 DEF One
  <2>4. UNCHANGED <<api, reply, rsp>>
    BY <1>5 DEF ClientTakes, apiVars, chipVars
  <2>5. QED
    BY <1>0, <2>3, <2>4 DEF Answered
<1>6. CASE ClientFinishes
  <2>1. /\ NextNum(Responses) + One(client \in Responses) = Num(Responses)
        /\ NextNum(Refusal) + One(client \in Refusal) = Num(Refusal)
    BY <1>0, <1>6, FinishFlow DEF NextNum, TypeInv
  <2>2. client \in Messages
    BY DEF TypeInv, MessageType, Messages
  <2>3. /\ client \in Responses <=> client.type = "rsp"
        /\ client \in Refusal <=> client.type = "rsp" /\ client.status = "failed"
        /\ client.type = "rsp" => client.status \in Answers
    BY <2>2, Kinds
  <2>4. /\ UNCHANGED <<api, reply>>
        /\ rsp' = IF client.type = "rsp" THEN client.status ELSE rsp
    BY <1>6 DEF ClientFinishes, chipVars
  <2>5. client.type = "rsp" => api = "await" /\ rsp = "none"
    BY <1>0, <2>1, <2>3 DEF TypeInv, CommandState, One
  <2>6. NextNum(Refusal) = 0 /\ ~(client.type = "rsp" /\ client.status = "failed")
    BY <1>0, <2>1, <2>3 DEF One
  <2>7. CASE client.type = "rsp"
    <3>1. rsp' = "ok" /\ rsp = "none" /\ NextNum(Responses) = Num(Responses) - 1
      BY <1>0, <2>1, <2>3, <2>4, <2>5, <2>6, <2>7 DEF Answers, One
    <3>2. QED
      BY <1>0, <2>4, <2>6, <3>1 DEF Answered, One
  <2>8. CASE client.type # "rsp"
    <3>1. rsp' = rsp /\ NextNum(Responses) = Num(Responses)
      BY <1>0, <2>1, <2>3, <2>4, <2>8 DEF One
    <3>2. QED
      BY <1>0, <2>4, <2>6, <3>1 DEF Answered
  <2>9. QED
    BY <2>7, <2>8
<1>7. CASE UNCHANGED vars
  <2>1. UNCHANGED <<api, rsp, reply, rx, queue, client>>
    BY <1>7 DEF vars, apiVars, chipVars, tmlVars
  <2>2. QED
    BY <2>1 DEF NextNum, Num, Answered
<1>8. QED
  BY <1>1, <1>2, <1>3, <1>4, <1>5, <1>6, <1>7, NextCases DEF Others

(* Only a mishap leads to a failure.                                       *)
LEMMA NominalStep ==
  ASSUME TypeInv, Balanced, StateKnown, Nominal, [Next]_vars
  PROVE  Nominal'
<1>1. faults' \in Nat /\ (Smooth' => Smooth)
      /\ (Smooth' => NoFault \/ Fault("download"))
  BY FaultsCounted, CoreInitAssumption DEF Nominal, Smooth, Fault, NoFault,
     faultVars
<1>. SUFFICES ASSUME Smooth'
              PROVE  /\ api' \in {"start", "download"} => faults' = fwd_retry_count'
                     /\ api' \notin {"failure", "return"} /\ result' # "FAILED"
  BY <1>1, UntoldStep, AnsweredStep DEF Nominal, Smooth
<1>2. /\ Calm /\ faulted' \subseteq {"download"} /\ faults' <= FWD_MAX_RETRY_COUNT
      /\ api \in {"start", "download"} => faults = fwd_retry_count
      /\ api \notin {"failure", "return"} /\ result # "FAILED" /\ Answered
      /\ faults \in Nat
  BY <1>1 DEF Smooth, Nominal, Calm
<1>3. CASE CoreInitialization
  BY <1>2, <1>3 DEF CoreInitialization, apiVars, faultVars
<1>4. CASE Download
  <2>1. ~Fault("missing") /\ result' = result
    BY <1>2, <1>4 DEF Fault, Download
  <2>2. CASE NoFault /\ api' = "read"
    BY <1>2, <2>1, <2>2
  <2>3. CASE /\ Fault("download") /\ fwd_retry_count' = fwd_retry_count + 1
             /\ api' = IF fwd_retry_count < FWD_MAX_RETRY_COUNT THEN "download"
                       ELSE "failure"
    <3>1. faults' = fwd_retry_count + 1 /\ fwd_retry_count \in Nat
      BY <1>2, <1>4, <2>3 DEF Fault, Download
    <3>2. fwd_retry_count < FWD_MAX_RETRY_COUNT
      BY <1>2, <3>1, CoreInitAssumption
    <3>3. QED
      BY <1>2, <2>1, <2>3, <3>1, <3>2
  <2>4. QED
    BY <1>4, <2>1, <2>2, <2>3 DEF Download
<1>5. CASE TimedWait
  <2>. DEFINE sem == Waits[api].sem
  <2>1. /\ api \in WaitNames /\ result' = result
        /\ sem = "dev_status" => tokens[sem] > 0
        /\ tokens[sem] > 0 => api' = IF uwbc_device_state \in Waits[api].states
                                     THEN Waits[api].then ELSE "failure"
        /\ ~(tokens[sem] > 0) => api' = Waits[api].late
    <3>1. "late" \notin faulted'
      BY <1>2
    <3>2. QED
      BY <1>2, <1>5, <3>1, CalmWait, WaitTable DEF TimedWait
  <2>2. uwbc_device_state \in AnyState
    BY DEF TypeInv, TypeOK
  <2>3. /\ api = "wait_init" => uwbc_device_state = "INIT"
        /\ api \in {"wait_ready", "wait_reset"} => uwbc_device_state = "READY"
    BY <1>2, <2>1, WaitTable DEF StateKnown, Heard, Wait
  <2>4. api' \notin {"failure", "return", "start", "download"}
    BY <2>1, <2>2, <2>3, WaitTable DEF WaitNames, Wait
  <2>5. QED
    BY <1>2, <2>1, <2>4
<1>6. CASE Moves
  <2>1. CASE FirstRead
    BY <1>2, <2>1 DEF FirstRead, TypeInv, Beginning
  <2>2. CASE Send \/ Configure \/ ReadOtp
    BY <1>2, <2>2 DEF Send, Configure, ReadOtp, SendCommand
  <2>3. CASE Await
    <3>1. rsp = "ok"
      <4>1. rsp = "none" => Num(Responses) = 0 /\ reply = "none"
        BY <2>3, NotUnderWay, Sets, Kinds, OkAwait DEF Await, TypeInv
      <4>2. rsp # "none"
        BY <1>2, <2>3, <4>1 DEF Answered, Await, One
      <4>3. QED
        BY <1>2, <4>2 DEF Answered, TypeInv, TypeOK
    <3>2. cmd \in CommandNames /\ api' = Commands[cmd].ok
      BY <2>3, <3>1, OkAwait
    <3>3. QED
      BY <1>2, <2>3, <3>2, CommandTable DEF CommandNames, After, Await
  <2>4. CASE Configured \/ OtpEnd \/ ParseBindingStatusNtf \/ Bound \/ TellBinding
    BY <1>2, <2>4 DEF Configured, OtpEnd, ParseBindingStatusNtf, Bound,
       TellBinding
  <2>5. CASE Done \/ Ready \/ Failure \/ Cleanup \/ Return
    BY <1>2, <2>5 DEF Done, Ready, Failure, Cleanup, Return
  <2>6. QED
    BY <1>6, <2>1, <2>2, <2>3, <2>4, <2>5 DEF Moves
<1>7. CASE ChipReplies \/ Others \/ UNCHANGED vars
  <2>1. UNCHANGED <<api, result, fwd_retry_count>>
    BY <1>7 DEF ChipReplies, Others, ReaderPosts, ClientTakes, ClientFinishes,
       ChipNotifies, ChipCrashes, vars, apiVars
  <2>2. api \in {"start", "download"} => faults' = faults
    <3>1. api \in {"start", "download"} => chip = "off" /\ due = <<>> /\ reply = "none"
      BY OkNone DEF TypeInv, Beginning, DueState
    <3>2. api \in {"start", "download"} => ~Chip /\ ~ChipCrashes
      BY <3>1 DEF Chip, ChipReplies, ChipNotifies, ChipCrashes
    <3>3. QED
      BY <1>7, <3>2 DEF Chip, Others, ReaderPosts, ClientTakes, ClientFinishes,
         faultVars, vars
  <2>3. QED
    BY <1>2, <2>1, <2>2
<1>8. QED
  BY <1>3, <1>4, <1>5, <1>6, <1>7, NextCases


-----------------------------------------------------------------------------
LEMMA InitInv == Init => Inv
<1>. SUFFICES ASSUME Init PROVE Inv
  OBVIOUS
<1>. USE CoreInitAssumption DEF Init
<1>1. \A S : Count(<<>>, S) = 0
  BY CountNone
<1>2. Idle \notin Packets
  BY Sets
<1>3. \A S \in SUBSET Packets : Num(S) = 0 /\ Due(S) = 0
  BY <1>1, <1>2 DEF Num, Due, Flow, One
<1>4. TypeOK
  <2>1. tokens \in [Semaphores -> Nat] /\ configs \in 0 .. MaxConfigs
    OBVIOUS
  <2>2. /\ fwd_retry_count \in 0 .. FWD_MAX_RETRY_COUNT + 1
        /\ downloads \in 0 .. FWD_MAX_RETRY_COUNT + 1
    OBVIOUS
  <2>3. QED
    BY <2>1, <2>2 DEF TypeOK, AnyState
<1>5. MessageType
  BY DEF MessageType, Bindings
<1>6. Num(Responses) = 0 /\ Num(OkAnswer) = 0
  BY <1>3, Sets
<1>7. CommandState /\ LiveState /\ Beginning
  BY <1>6, CommandTable DEF CommandState, LiveState, Beginning, Awaiting, One
<1>8. ChipState /\ DueState
  <2>1. /\ Num(Ntf("dev_status")) = 0 /\ Num(ReadyNtf) = 0
        /\ tokens["dev_status"] = 0
    BY <1>3, Sets DEF Semaphores, InitSemaphores
  <2>2. QED
    BY <2>1 DEF ChipState, DueState, Awaiting, Later, Started
<1>9. TypeInv
  BY <1>4, <1>5, <1>7, <1>8 DEF TypeInv
<1>10. Once /\ Balanced
  <2>1. \A sem \in Semaphores : Total(sem) = 0 /\ ~Expected(sem)
    <3>1. \A sem \in Semaphores : Num(Ntf(sem)) = 0 /\ Due(Ntf(sem)) = 0
      BY <1>3, Sets
    <3>2. \A sem \in Semaphores : tokens[sem] = 0
      OBVIOUS
    <3>3. QED
      BY <1>9, <3>1, <3>2, TotalTypes DEF Expected, Awaited
  <2>2. "dev_status" \in Semaphores
    BY DEF Semaphores, InitSemaphores
  <2>3. QED
    BY <2>1, <2>2 DEF Once, Balanced, Later, Started, One
<1>11. StateKnown /\ NoDeadPosts /\ Nominal
  <2>1. Num(Errors) = 0 /\ Num(InitNtf) = 0 /\ Num(Refusal) = 0
    BY <1>3, Sets
  <2>2. QED
    BY <1>1, <2>1 DEF StateKnown, NoDeadPosts, Nominal, Answered, Untold, At,
       Awaiting,
       Later, Started
<1>12. Binding
  <2>1. Num(OtherBinding({})) = 0
    BY <1>3, Sets
  <2>2. QED
    BY <2>1 DEF Binding, Unbound, At, Awaiting
<1>13. QED
  BY <1>9, <1>10, <1>11, <1>12 DEF Inv

(* Type correctness, whatever goes wrong and however often: among others,  *)
(* the firmware is downloaded at most FWD_MAX_RETRY_COUNT times more than  *)
(* once.                                                                   *)
THEOREM TypeCorrect == Spec => []TypeOK
<1>1. Init => TypeInv
  BY InitInv DEF Inv
<1>2. TypeInv => TypeOK
  BY DEF TypeInv
<1>3. QED
  BY <1>1, <1>2, TypeInvStep, PTL DEF Spec

(* The invariant: what is on its way to a semaphore is what is waited for.  *)
THEOREM CoreInitInvariant == Spec => []Inv
<1>1. Inv /\ [Next]_vars => Inv'
  BY TypeInvStep, OnceStep, BalancedStep, StateKnownStep, NoDeadPostsStep,
     NominalStep, BindingStep DEF Inv
<1>2. QED
  BY <1>1, InitInv, PTL DEF Spec

(* phNxpUciHal_coreInitialization: whatever else goes wrong, the device     *)
(* counts as initialised only when the chip has come up after its reset,   *)
(* as long as it sends no notification twice and carries out no command    *)
(* again whose answer was lost.                                            *)
THEOREM InitialisedIsReal == Spec => []InitIsReal
<1>1. Inv => InitIsReal
  BY DEF Inv, Once, Single, InitIsReal
<1>2. QED
  BY <1>1, CoreInitInvariant, PTL

(* A chip that does what it should is initialised, in any order of the     *)
(* threads and after any number of failed downloads that the code allows:  *)
(* the call does not fail, and does not tell the host that it did.         *)
THEOREM NominalRunSucceeds == Spec => []NominalSucceeds
<1>1. Inv => NominalSucceeds
  <2>1. SUFFICES ASSUME Inv, Smooth PROVE result # "FAILED" /\ ~Told("error", "failed")
    BY DEF NominalSucceeds, Smooth
  <2>2. result # "FAILED" /\ Count(told, Failed) = 0
    BY <2>1 DEF Inv, Nominal, Untold
  <2>3. \A k \in DOMAIN told : told[k] \notin Failed
    BY <2>1, <2>2, CountZero DEF Inv, TypeInv, MessageType
  <2>4. QED
    BY <2>2, <2>3 DEF Told, Failed
<1>2. QED
  BY <1>1, CoreInitInvariant, PTL

(* read_complete posts no semaphore that phNxpUciHal_cleanup_cb_data has   *)
(* released, and process_response uses no context of an OTP read that has  *)
(* returned, in a run without lost, doubled and late notifications and     *)
(* without crashes, even if commands are refused or lost.                  *)
THEOREM PostsAreLive == Spec => []NoDeadPosts
<1>1. Inv => NoDeadPosts
  BY DEF Inv
<1>2. QED
  BY <1>1, CoreInitInvariant, PTL

(* phNxpUciHal_parse_binding_status_ntf: binding is requested only of a    *)
(* chip that is not bound, and locking only of one that is bound and not   *)
(* locked, whatever goes wrong before.                                     *)
THEOREM BindingIsRequested == Spec => BindingRequested
<1>1. Inv /\ [Next]_vars =>
        [/\ reply # reply' /\ reply' = "bind" => bound = "NOT_BOUND"
         /\ reply # reply' /\ reply' \in {"lock", "check"} => bound = "UNLOCKED"]_vars
  <2>1. SUFFICES ASSUME Inv, [Next]_vars, reply # reply', reply' \in {"bind", "lock", "check"}
                 PROVE  /\ reply' = "bind" => bound = "NOT_BOUND"
                        /\ reply' \in {"lock", "check"} => bound = "UNLOCKED"
    OBVIOUS
  <2>2. ~(Others \/ CoreInitialization \/ Download \/ TimedWait \/ ChipReplies
            \/ UNCHANGED vars)
    <3>1. ~(Others \/ UNCHANGED vars)
      BY <2>1, OkKept DEF Inv, Others, vars, chipVars
    <3>2. ~(CoreInitialization \/ Download \/ TimedWait \/ ChipReplies)
      BY <2>1 DEF CoreInitialization, Download, TimedWait, ChipReplies, chipVars
    <3>3. QED
      BY <3>1, <3>2
  <2>3. Moves
    BY <2>1, <2>2, NextCases
  <2>4. Send /\ reply' = api
    <3>1. Send \/ Configure \/ ReadOtp
      BY <2>1, <2>3 DEF Moves, FirstRead, Configured, OtpEnd, Await,
         ParseBindingStatusNtf,
         Bound, TellBinding, Done, Ready, Failure, Cleanup, Return, chipVars
    <3>2. QED
      BY <2>1, <3>1 DEF Send, Configure, ReadOtp, SendCommand
  <2>5. QED
    BY <2>1, <2>4 DEF Inv, Binding
<1>2. QED
  BY <1>1, CoreInitInvariant, PTL DEF Spec, BindingRequested

=============================================================================

------------------------------ MODULE UciService ------------------------------
(***************************************************************************)
(* What the code above the command layer relies on, without its threads,   *)
(* semaphore, timer and packets: commands are served one at a time; one    *)
(* that is answered or given up is not sent again; it is answered at most  *)
(* once, given up only when it was tried to a limit, and never both; and   *)
(* only then does its caller hear, the truth.  UciCommand implements it    *)
(* when a time-out never races an answer.                                  *)
(***************************************************************************)
EXTENDS Integers

CONSTANTS Kinds, MaxCommands, MAX_COMMAND_RETRY_COUNT, MaxInvalidLength

VARIABLES
  cmd, kind,          \* number and kind of the last command
  sent,               \* how often it was sent
  answered, refused,  \* commands the chip answered positively, or negatively
  reported,           \* commands given up, with a device error for the host
  forwarded,          \* per command, responses the host received
  result              \* per command, what the caller was told

serviceVars == <<cmd, kind, sent, answered, refused, reported, forwarded, result>>

Commands == 1 .. MaxCommands
Verdicts == answered \union refused
InProgress == cmd \in Commands /\ result[cmd] = "none"
Waits == kind \in {"internal", "host"}
Settled == cmd \in Verdicts \union reported
Tries == MAX_COMMAND_RETRY_COUNT + MaxInvalidLength - 1
ToALimit == sent >= MAX_COMMAND_RETRY_COUNT \/ sent >= MaxInvalidLength
Tell(r) == result' = [result EXCEPT ![cmd] = r]

\* The response of the chip stays below when the command came from there.
Kept(c) ==
  \/ result[c] \in {"SUCCESS", "FAILED"}
  \/ c = cmd /\ result[c] = "none" /\ kind = "internal"

ServiceInit ==
  /\ cmd = 0 /\ kind = "host" /\ sent = 0
  /\ answered = {} /\ refused = {} /\ reported = {}
  /\ forwarded = [c \in Commands |-> 0]
  /\ result = [c \in Commands |-> "none"]

Submit(k) ==
  /\ ~InProgress /\ cmd < MaxCommands
  /\ cmd' = cmd + 1 /\ kind' = k /\ sent' = 0
  /\ UNCHANGED <<answered, refused, reported, forwarded, result>>

Send ==
  /\ InProgress /\ Waits /\ ~Settled
  /\ sent < Tries /\ sent' = sent + 1
  /\ UNCHANGED <<cmd, kind, answered, refused, reported, forwarded, result>>

Answered ==
  /\ InProgress /\ Waits /\ ~Settled /\ sent > 0
  /\ \/ answered' = answered \union {cmd} /\ refused' = refused
     \/ refused' = refused \union {cmd} /\ answered' = answered
  /\ UNCHANGED <<cmd, kind, sent, reported, forwarded, result>>

GiveUp ==
  /\ InProgress /\ Waits /\ ~Settled /\ ToALimit
  /\ reported' = reported \union {cmd}
  /\ UNCHANGED <<cmd, kind, sent, answered, refused, forwarded, result>>

Return ==
  /\ InProgress /\ Waits /\ Settled
  /\ Tell(IF kind = "host" THEN "LEN" ELSE IF cmd \in answered THEN "SUCCESS" ELSE "FAILED")
  /\ UNCHANGED <<cmd, kind, sent, answered, refused, reported, forwarded>>

\* Nobody waits for an answer to a chained command, and a parsed one is not sent.
ReturnAtOnce ==
  /\ InProgress /\ ~Waits /\ sent = 0
  /\ sent' = IF kind = "chained" THEN 1 ELSE 0
  /\ Tell("LEN")
  /\ UNCHANGED <<cmd, kind, answered, refused, reported, forwarded>>

\* Before the caller hears, or after.
Deliver(c) ==
  /\ c \in Verdicts /\ ~Kept(c)
  /\ forwarded[c] = 0 /\ forwarded' = [forwarded EXCEPT ![c] = 1]
  /\ UNCHANGED <<cmd, kind, sent, answered, refused, reported, result>>

ServiceNext ==
  \/ \E k \in Kinds : Submit(k)
  \/ Send \/ Answered \/ GiveUp \/ Return \/ ReturnAtOnce
  \/ \E c \in Commands : Deliver(c)

ServiceSpec == ServiceInit /\ [][ServiceNext]_serviceVars
=============================================================================

------------------------------ MODULE TmlProofs ------------------------------
(***************************************************************************)
(* The safety of the transport layer for any number of writes and packets. *)
(*                                                                         *)
(* A read request, and a write request, goes round a cycle: requested, at  *)
(* the thread, in the queue, at the client thread.  The flags, semaphores  *)
(* and control states of each phase are fixed, so a request is never in    *)
(* two phases and a static buffer is never refilled while a message that   *)
(* points to it is under way.                                              *)
(***************************************************************************)
EXTENDS Tml, SequenceTheorems, TLAPS

Answering == [bThreadBusy |-> TRUE, bEnable |-> FALSE]

WithRead == {<<"read">>, <<"read", "write">>, <<"write", "read">>}
WithWrite == {<<"write">>, <<"read", "write">>, <<"write", "read">>}
ClientReads == client \in {"read_complete", "rearm"}

(* The phases of the read request.                                         *)
ReadUnarmed ==
  /\ ~listening /\ tReadInfo = Idle /\ rxSemaphore = 0 /\ reader = "sem"
  /\ queue \notin WithRead /\ ~ClientReads
  /\ nRead = 0 /\ delivered = 0

ReadRequested ==
  /\ listening /\ tReadInfo = Requested
  /\ \/ reader = "sem" /\ rxSemaphore = 1
     \/ reader = "read" /\ rxSemaphore = 0
  /\ queue \notin WithRead /\ ~ClientReads
  /\ nRead = delivered

ReadInHand ==
  /\ listening /\ tReadInfo = Answering
  /\ reader \in {"gate", "wait", "post"} /\ rxSemaphore = 0
  /\ queue \notin WithRead /\ ~ClientReads
  /\ rxData = nRead /\ nRead = delivered + 1

ReadQueued ==
  /\ listening /\ tReadInfo = Answering
  /\ reader = "sem" /\ rxSemaphore = 0
  /\ queue \in WithRead /\ ~ClientReads
  /\ rxData = nRead /\ nRead = delivered + 1

ReadHandled ==
  /\ listening /\ tReadInfo = Idle
  /\ reader = "sem" /\ rxSemaphore = 0
  /\ queue \notin WithRead /\ ClientReads
  /\ rxData = nRead
  /\ nRead = IF client = "rearm" THEN delivered ELSE delivered + 1

ReadCycle ==
  \/ ReadUnarmed \/ ReadRequested \/ ReadInHand \/ ReadQueued \/ ReadHandled

(* The phases of the write request.  The writer may still be about to      *)
(* signal a write that the client thread has long completed.               *)
WriterFree == writer \in {"sem", "signal"}

WriteIdle ==
  /\ api = "idle" /\ tWriteInfo = Idle /\ txSemaphore = 0 /\ WriterFree
  /\ queue \notin WithWrite /\ client # "write_complete"
  /\ issued = completed /\ posted = completed

WriteRequested ==
  /\ api = "wait" /\ tWriteInfo = Requested /\ txSemaphore = 1 /\ WriterFree
  /\ queue \notin WithWrite /\ client # "write_complete"
  /\ issued = completed + 1 /\ posted = completed

WriteInHand ==
  /\ api = "wait" /\ tWriteInfo = Answering /\ txSemaphore = 0
  /\ writer \in {"write", "post"}
  /\ writer = "post" => txInfo.cmd = issued /\ ~gWriterCbflag
  /\ queue \notin WithWrite /\ client # "write_complete"
  /\ issued = completed + 1 /\ posted = completed

WriteQueued ==
  /\ api = "wait" /\ tWriteInfo = Answering /\ txSemaphore = 0 /\ WriterFree
  /\ queue \in WithWrite /\ client # "write_complete"
  /\ issued = completed + 1 /\ posted = issued /\ txInfo.cmd = issued

WriteHandled ==
  /\ api = "wait" /\ tWriteInfo = Idle /\ txSemaphore = 0 /\ WriterFree
  /\ queue \notin WithWrite /\ client = "write_complete"
  /\ issued = completed + 1 /\ posted = issued /\ txInfo.cmd = issued

WriteCycle ==
  \/ WriteIdle \/ WriteRequested \/ WriteInHand \/ WriteQueued \/ WriteHandled

(* A write is known to the chip only once SPI took it: its completion is   *)
(* queued already, or it is the one the writer is about to queue.          *)
Written(c) ==
  /\ c \in 1 .. issued
  /\ c <= posted \/ (writer = "post" /\ c = issued)

ChipBound ==
  /\ \A c \in onChip : Written(c)
  /\ \A i \in 1 .. Len(pkts) : ~pkts[i].ntf => Written(pkts[i].cmd)
  /\ nRead <= Len(pkts)

IInv ==
  /\ TypeOK
  /\ ReadCycle
  /\ WriteCycle
  /\ ChipBound
  /\ ResponseAfterCompletion
-----------------------------------------------------------------------------
(* Appending to a queue of one message.                                    *)
LEMMA AppendToOne == ASSUME NEW a, NEW b PROVE Append(<<a>>, b) = <<a, b>>
<1>. DEFINE s == Append(<<a>>, b)
<1>1. s \in Seq({a, b}) /\ Len(s) = 2 /\ s[1] = a /\ s[2] = b
  <2>1. <<a>> \in Seq({a, b})
    OBVIOUS
  <2>2. QED
    BY <2>1
<1>2. <<a, b>> \in Seq({a, b}) /\ Len(<<a, b>>) = 2
  OBVIOUS
<1>3. \A i \in 1 .. Len(s) : s[i] = <<a, b>>[i]
  BY <1>1
<1>. HIDE DEF s
<1>4. s = <<a, b>>
  BY <1>1, <1>2, <1>3, SeqEqual
<1>5. QED
  BY <1>4 DEF s

(* Posting a message of a kind that is not queued, and taking the oldest    *)
(* message, keep the queue in one of the five shapes of TypeOK.             *)
LEMMA PostRead ==
  ASSUME NEW q \in Queues, q \notin WithRead
  PROVE  /\ Append(q, "read") \in Queues
         /\ Append(q, "read") \in WithRead
         /\ Append(q, "read") \in WithWrite <=> q \in WithWrite
<1>1. CASE q = <<>>
  BY <1>1 DEF Queues, WithRead, WithWrite
<1>2. CASE q = <<"write">>
  BY <1>2, AppendToOne DEF Queues, WithRead, WithWrite
<1>3. QED
  BY <1>1, <1>2 DEF Queues, WithRead

LEMMA PostWrite ==
  ASSUME NEW q \in Queues, q \notin WithWrite
  PROVE  /\ Append(q, "write") \in Queues
         /\ Append(q, "write") \in WithWrite
         /\ Append(q, "write") \in WithRead <=> q \in WithRead
<1>1. CASE q = <<>>
  BY <1>1 DEF Queues, WithRead, WithWrite
<1>2. CASE q = <<"read">>
  BY <1>2, AppendToOne DEF Queues, WithRead, WithWrite
<1>3. QED
  BY <1>1, <1>2 DEF Queues, WithWrite

LEMMA HeadRead ==
  ASSUME NEW q \in Queues, q # <<>>, Head(q) = "read"
  PROVE  /\ Tail(q) \in Queues /\ q \in WithRead /\ Tail(q) \notin WithRead
         /\ Tail(q) \in WithWrite <=> q \in WithWrite
<1>1. CASE q = <<"read">>
  BY <1>1 DEF Queues, WithRead, WithWrite
<1>2. CASE q = <<"write">>
  BY <1>2 DEF Queues, WithRead, WithWrite
<1>3. CASE q = <<"read", "write">>
  BY <1>3 DEF Queues, WithRead, WithWrite
<1>4. CASE q = <<"write", "read">>
  BY <1>4 DEF Queues, WithRead, WithWrite
<1>5. QED
  BY <1>1, <1>2, <1>3, <1>4 DEF Queues

LEMMA HeadWrite ==
  ASSUME NEW q \in Queues, q # <<>>, Head(q) = "write"
  PROVE  /\ Tail(q) \in Queues /\ q \in WithWrite /\ Tail(q) \notin WithWrite
         /\ Tail(q) \in WithRead <=> q \in WithRead
<1>1. CASE q = <<"read">>
  BY <1>1 DEF Queues, WithRead, WithWrite
<1>2. CASE q = <<"write">>
  BY <1>2 DEF Queues, WithRead, WithWrite
<1>3. CASE q = <<"read", "write">>
  BY <1>3 DEF Queues, WithRead, WithWrite
<1>4. CASE q = <<"write", "read">>
  BY <1>4 DEF Queues, WithRead, WithWrite
<1>5. QED
  BY <1>1, <1>2, <1>3, <1>4 DEF Queues
-----------------------------------------------------------------------------
(* A request is its two flags.                                             *)
LEMMA RequestEqual ==
  ASSUME NEW r \in Request, NEW s \in Request,
         r.bThreadBusy <=> s.bThreadBusy, r.bEnable <=> s.bEnable
  PROVE  r = s
BY DEF Request

(* The three values of a request, and what the threads do to them.         *)
LEMMA RequestFacts ==
  /\ Idle \in Request /\ Requested \in Request /\ Answering \in Request
  /\ Idle # Requested /\ Idle # Answering /\ Requested # Answering
  /\ ~Idle.bThreadBusy /\ ~Idle.bEnable
  /\ Requested.bThreadBusy /\ Requested.bEnable
  /\ Answering.bThreadBusy /\ ~Answering.bEnable
  /\ [Requested EXCEPT !.bEnable = FALSE] = Answering
  /\ [Answering EXCEPT !.bThreadBusy = FALSE] = Idle
<1>1. /\ Idle \in Request /\ Requested \in Request /\ Answering \in Request
      /\ ~Idle.bThreadBusy /\ ~Idle.bEnable
      /\ Requested.bThreadBusy /\ Requested.bEnable
      /\ Answering.bThreadBusy /\ ~Answering.bEnable
  BY DEF Idle, Requested, Answering, Request
<1>2. [Requested EXCEPT !.bEnable = FALSE] = Answering
  <2>. DEFINE r == [Requested EXCEPT !.bEnable = FALSE]
  <2>1. r \in Request /\ ~r.bEnable /\ r.bThreadBusy
    BY <1>1 DEF Request
  <2>. HIDE DEF r
  <2>2. r = Answering
    BY <1>1, <2>1, RequestEqual
  <2>3. QED
    BY <2>2 DEF r
<1>3. [Answering EXCEPT !.bThreadBusy = FALSE] = Idle
  <2>. DEFINE r == [Answering EXCEPT !.bThreadBusy = FALSE]
  <2>1. r \in Request /\ ~r.bEnable /\ ~r.bThreadBusy
    BY <1>1 DEF Request
  <2>. HIDE DEF r
  <2>2. r = Idle
    BY <1>1, <2>1, RequestEqual
  <2>3. QED
    BY <2>2 DEF r
<1>4. QED
  BY <1>1, <1>2, <1>3


(* What the chip sends is a notification or answers a write it knows.      *)
Admissible(p) == p \in Link!Packet /\ (~p.ntf => p.cmd \in onChip)

LEMMA ChipStep ==
  ASSUME TypeOK, Chip
  PROVE  \E p : Admissible(p) /\ ChipSends(p)
<1>1. CASE ChipSends(Link!Notification)
  <2>1. Admissible(Link!Notification)
    BY DEF Link!Notification, Link!Packet, Admissible
  <2>2. QED
    BY <1>1, <2>1
<1>2. ASSUME NEW c \in onChip, ChipSends(Link!Response(c))
      PROVE  \E p : Admissible(p) /\ ChipSends(p)
  <2>1. Admissible(Link!Response(c))
    BY DEF TypeOK, Link!Response, Link!Packet, Admissible
  <2>2. QED
    BY <1>2, <2>1
<1>3. QED
  BY <1>1, <1>2 DEF Chip

(* The four steps that change the message queue.                           *)
LEMMA ReaderPostsQueue ==
  ASSUME IInv, ReaderPosts
  PROVE  /\ queue' \in Queues /\ queue' \in WithRead
         /\ queue' \in WithWrite <=> queue \in WithWrite
<1>1. /\ queue \in Queues /\ queue \notin WithRead
      /\ queue' = Append(queue, "read")
  BY DEF
     IInv, TypeOK, ReaderPosts, ReadCycle, ReadUnarmed, ReadRequested,
     ReadInHand, ReadQueued, ReadHandled, ClientReads
<1>2. QED
  BY <1>1, PostRead

LEMMA WriterPostsQueue ==
  ASSUME IInv, WriterPosts
  PROVE  /\ queue' \in Queues /\ queue' \in WithWrite
         /\ queue' \in WithRead <=> queue \in WithRead
<1>1. /\ queue \in Queues /\ queue \notin WithWrite
      /\ queue' = Append(queue, "write")
  BY DEF
     IInv, TypeOK, WriterPosts, WriteCycle, WriteIdle, WriteRequested,
     WriteInHand, WriteQueued, WriteHandled, WriterFree
<1>2. QED
  BY <1>1, PostWrite

LEMMA TakeReadQueue ==
  ASSUME IInv, TakeRead
  PROVE  /\ queue' \in Queues /\ queue \in WithRead /\ queue' \notin WithRead
         /\ queue' \in WithWrite <=> queue \in WithWrite
<1>1. /\ queue \in Queues /\ queue' = Tail(queue)
      /\ Head(queue) = "read" /\ queue # <<>>
  BY DEF IInv, TypeOK, TakeRead
<1>2. QED
  BY <1>1, HeadRead

LEMMA TakeWriteQueue ==
  ASSUME IInv, TakeWrite
  PROVE  /\ queue' \in Queues /\ queue \in WithWrite /\ queue' \notin WithWrite
         /\ queue' \in WithRead <=> queue \in WithRead
<1>1. /\ queue \in Queues /\ queue' = Tail(queue)
      /\ Head(queue) = "write" /\ queue # <<>>
  BY DEF IInv, TypeOK, TakeWrite
<1>2. QED
  BY <1>1, HeadWrite

(* Waking, the writer takes a request that was made.                        *)
LEMMA WriterTakesRequest ==
  ASSUME IInv, WriterWakes
  PROVE  WriteRequested /\ tWriteInfo' = Answering /\ writer' = "write"
<1>1. WriteRequested
  BY RequestFacts DEF
     IInv, WriterWakes, WriteCycle, WriteIdle, WriteRequested, WriteInHand,
     WriteQueued, WriteHandled, WriterFree
<1>2. tWriteInfo.bEnable /\ [tWriteInfo EXCEPT !.bEnable = FALSE] = Answering
  BY <1>1, RequestFacts DEF WriteRequested
<1>3. QED
  BY <1>1, <1>2 DEF WriterWakes

(* Every step moves the read request along its cycle or leaves it.          *)
LEMMA ReadCycleStep == IInv /\ [Next]_vars => ReadCycle'
<1>. SUFFICES ASSUME IInv, [Next]_vars PROVE ReadCycle'
  OBVIOUS
<1>. USE RequestFacts DEF
   IInv, TypeOK, threadVars, requestVars, gateVars, bufferVars, linkVars,
   ReadCycle, ReadUnarmed, ReadRequested, ReadInHand, ReadQueued,
   ReadHandled, ClientReads
<1>1. CASE FirstRead
  BY <1>1 DEF FirstRead, RequestRead
<1>2. CASE Write
  BY <1>2 DEF Write
<1>3. CASE ReaderWakes
  BY <1>3 DEF ReaderWakes
<1>4. CASE SpiRead
  BY <1>4 DEF SpiRead
<1>5. CASE SpiReadFails
  BY <1>5 DEF SpiReadFails
<1>6. CASE ReaderLocks
  BY <1>6 DEF ReaderLocks, MustWait
<1>7. CASE WaitExpires
  BY <1>7 DEF WaitExpires
<1>8. CASE ReaderPosts
  BY <1>8, ReaderPostsQueue DEF ReaderPosts
<1>9. CASE WriterWakes
  BY <1>9 DEF WriterWakes
<1>10. ASSUME NEW ok \in BOOLEAN, SpiWrite(ok) PROVE ReadCycle'
  BY <1>10 DEF SpiWrite
<1>11. CASE WriterPosts
  BY <1>11, WriterPostsQueue DEF WriterPosts
<1>12. CASE WriterSignals
  BY <1>12 DEF WriterSignals
<1>13. CASE TakeRead
  BY <1>13, TakeReadQueue DEF TakeRead
<1>14. CASE ReadComplete
  BY <1>14 DEF ReadComplete
<1>15. CASE Rearm
  BY <1>15 DEF Rearm, RequestRead
<1>16. CASE TakeWrite
  BY <1>16, TakeWriteQueue DEF TakeWrite
<1>17. CASE WriteComplete
  BY <1>17 DEF WriteComplete
<1>18. ASSUME NEW p, Admissible(p), ChipSends(p) PROVE ReadCycle'
  BY <1>18 DEF ChipSends, Admissible
<1>19. CASE UNCHANGED vars
  BY <1>19 DEF vars
<1>20. QED
  BY <1>1, <1>2, <1>3, <1>4, <1>5, <1>6, <1>7, <1>8, <1>9, <1>10, <1>11, <1>12,
     <1>13, <1>14, <1>15, <1>16, <1>17, <1>18, <1>19, ChipStep DEF
     Next, Reader, Writer, Client

(* Every step moves the write request along its cycle or leaves it.         *)
LEMMA WriteCycleStep == IInv /\ [Next]_vars => WriteCycle'
<1>. SUFFICES ASSUME IInv, [Next]_vars PROVE WriteCycle'
  OBVIOUS
<1>. USE RequestFacts DEF
   IInv, TypeOK, threadVars, requestVars, gateVars, bufferVars, linkVars,
   WriteCycle, WriteIdle, WriteRequested, WriteInHand, WriteQueued,
   WriteHandled, WriterFree
<1>1. CASE FirstRead
  BY <1>1 DEF FirstRead, RequestRead
<1>2. CASE Write
  BY <1>2 DEF Write
<1>3. CASE ReaderWakes
  BY <1>3 DEF ReaderWakes
<1>4. CASE SpiRead
  BY <1>4 DEF SpiRead
<1>5. CASE SpiReadFails
  BY <1>5 DEF SpiReadFails
<1>6. CASE ReaderLocks
  BY <1>6 DEF ReaderLocks, MustWait
<1>7. CASE WaitExpires
  BY <1>7 DEF WaitExpires
<1>8. CASE ReaderPosts
  BY <1>8, ReaderPostsQueue DEF ReaderPosts
<1>9. CASE WriterWakes
  BY <1>9, WriterTakesRequest DEF WriterWakes
<1>10. ASSUME NEW ok \in BOOLEAN, SpiWrite(ok) PROVE WriteCycle'
  BY <1>10 DEF SpiWrite
<1>11. CASE WriterPosts
  BY <1>11, WriterPostsQueue DEF WriterPosts
<1>12. CASE WriterSignals
  BY <1>12 DEF WriterSignals
<1>13. CASE TakeRead
  BY <1>13, TakeReadQueue DEF TakeRead
<1>14. CASE ReadComplete
  BY <1>14 DEF ReadComplete
<1>15. CASE Rearm
  BY <1>15 DEF Rearm, RequestRead
<1>16. CASE TakeWrite
  BY <1>16, TakeWriteQueue DEF TakeWrite
<1>17. CASE WriteComplete
  BY <1>17 DEF WriteComplete
<1>18. ASSUME NEW p, Admissible(p), ChipSends(p) PROVE WriteCycle'
  BY <1>18 DEF ChipSends, Admissible
<1>19. CASE UNCHANGED vars
  BY <1>19 DEF vars
<1>20. QED
  BY <1>1, <1>2, <1>3, <1>4, <1>5, <1>6, <1>7, <1>8, <1>9, <1>10, <1>11, <1>12,
     <1>13, <1>14, <1>15, <1>16, <1>17, <1>18, <1>19, ChipStep DEF
     Next, Reader, Writer, Client

(* Type correctness is preserved: the cycles bound the semaphores and queue.  *)
LEMMA TypeStep == IInv /\ [Next]_vars => TypeOK'
<1>. SUFFICES ASSUME IInv, [Next]_vars PROVE TypeOK'
  OBVIOUS
<1>. USE RequestFacts DEF
   IInv, TypeOK, threadVars, requestVars, gateVars, bufferVars, linkVars,
   ReadCycle, ReadUnarmed, ReadRequested, ReadInHand, ReadQueued,
   ReadHandled, ClientReads, WriteCycle, WriteIdle, WriteRequested,
   WriteInHand, WriteQueued, WriteHandled, WriterFree
<1>1. CASE FirstRead
  BY <1>1 DEF FirstRead, RequestRead
<1>2. CASE Write
  BY <1>2 DEF Write
<1>3. CASE ReaderWakes
  BY <1>3 DEF ReaderWakes
<1>4. CASE SpiRead
  <2>1. tReadInfo = Requested
    BY <1>4 DEF SpiRead
  <2>2. tReadInfo' = Answering
    BY <1>4, <2>1 DEF SpiRead
  <2>3. tReadInfo' \in Request
    BY <2>2
  <2>4. /\ nRead' \in Nat /\ rxData' \in Nat /\ reader' = "gate"
        /\ UNCHANGED <<tWriteInfo, rxSemaphore, txSemaphore, gateVars, queue,
                      writer, client, api, txInfo, posted, onChip, linkVars>>
    BY <1>4 DEF SpiRead
  <2>5. QED
    BY <2>3, <2>4
<1>5. CASE SpiReadFails
  BY <1>5 DEF SpiReadFails
<1>6. CASE ReaderLocks
  BY <1>6 DEF ReaderLocks, MustWait
<1>7. CASE WaitExpires
  BY <1>7 DEF WaitExpires
<1>8. CASE ReaderPosts
  BY <1>8, ReaderPostsQueue DEF ReaderPosts
<1>9. CASE WriterWakes
  BY <1>9, WriterTakesRequest DEF WriterWakes
<1>10. ASSUME NEW ok \in BOOLEAN, SpiWrite(ok) PROVE TypeOK'
  BY <1>10 DEF SpiWrite
<1>11. CASE WriterPosts
  BY <1>11, WriterPostsQueue DEF WriterPosts
<1>12. CASE WriterSignals
  BY <1>12 DEF WriterSignals
<1>13. CASE TakeRead
  BY <1>13, TakeReadQueue, ZenonT(40) DEF TakeRead
<1>14. CASE ReadComplete
  BY <1>14 DEF ReadComplete
<1>15. CASE Rearm
  BY <1>15 DEF Rearm, RequestRead
<1>16. CASE TakeWrite
  <2>1. tWriteInfo' \in Request
    BY <1>16 DEF TakeWrite, Request
  <2>2. queue' \in Queues
    BY <1>16, TakeWriteQueue
  <2>3. /\ client' = "write_complete"
        /\ UNCHANGED <<reader, writer, api, tReadInfo, rxSemaphore, txSemaphore,
                      gateVars, rxData, txInfo, nRead, posted, onChip, linkVars>>
    BY <1>16 DEF TakeWrite
  <2>4. QED
    BY <2>1, <2>2, <2>3
<1>17. CASE WriteComplete
  BY <1>17 DEF WriteComplete
<1>18. ASSUME NEW p, Admissible(p), ChipSends(p) PROVE TypeOK'
  BY <1>18 DEF ChipSends, Admissible
<1>19. CASE UNCHANGED vars
  BY <1>19 DEF vars
<1>20. QED
  BY <1>1, <1>2, <1>3, <1>4, <1>5, <1>6, <1>7, <1>8, <1>9, <1>10, <1>11, <1>12,
     <1>13, <1>14, <1>15, <1>16, <1>17, <1>18, <1>19, ChipStep DEF
     Next, Reader, Writer, Client

(* What the chip knows of stays written.                                    *)
StillWritten(c) ==
  c \in 1 .. issued' /\ (c <= posted' \/ (writer' = "post" /\ c = issued'))

LEMMA WrittenStep ==
  ASSUME IInv, [Next]_vars, NEW c, Written(c)
  PROVE  StillWritten(c)
<1>. USE DEF
   IInv, TypeOK, Written, StillWritten, threadVars, requestVars, gateVars,
   bufferVars,
   linkVars, WriteCycle, WriteIdle, WriteRequested, WriteInHand, WriteQueued,
   WriteHandled, WriterFree
<1>1. CASE FirstRead
  BY <1>1 DEF FirstRead, RequestRead
<1>2. CASE Write
  BY <1>2 DEF Write
<1>3. CASE ReaderWakes
  BY <1>3 DEF ReaderWakes
<1>4. CASE SpiRead
  BY <1>4 DEF SpiRead
<1>5. CASE SpiReadFails
  BY <1>5 DEF SpiReadFails
<1>6. CASE ReaderLocks
  BY <1>6 DEF ReaderLocks, MustWait
<1>7. CASE WaitExpires
  BY <1>7 DEF WaitExpires
<1>8. CASE ReaderPosts
  BY <1>8, ReaderPostsQueue DEF ReaderPosts
<1>9. CASE WriterWakes
  BY <1>9, WriterTakesRequest DEF WriterWakes
<1>10. ASSUME NEW ok \in BOOLEAN, SpiWrite(ok) PROVE StillWritten(c)
  BY <1>10 DEF SpiWrite
<1>11. CASE WriterPosts
  BY <1>11, WriterPostsQueue DEF WriterPosts
<1>12. CASE WriterSignals
  BY <1>12 DEF WriterSignals
<1>13. CASE TakeRead
  BY <1>13, TakeReadQueue DEF TakeRead
<1>14. CASE ReadComplete
  BY <1>14 DEF ReadComplete
<1>15. CASE Rearm
  BY <1>15 DEF Rearm, RequestRead
<1>16. CASE TakeWrite
  BY <1>16, TakeWriteQueue DEF TakeWrite
<1>17. CASE WriteComplete
  BY <1>17 DEF WriteComplete
<1>18. ASSUME NEW p, Admissible(p), ChipSends(p) PROVE StillWritten(c)
  BY <1>18 DEF ChipSends, Admissible
<1>19. CASE UNCHANGED vars
  BY <1>19 DEF vars
<1>20. QED
  BY <1>1, <1>2, <1>3, <1>4, <1>5, <1>6, <1>7, <1>8, <1>9, <1>10, <1>11, <1>12,
     <1>13, <1>14, <1>15, <1>16, <1>17, <1>18, <1>19, ChipStep DEF
     Next, Reader, Writer, Client

(* A write is answered only after SPI took it; no read overtakes the chip.  *)
LEMMA ChipBoundStep == IInv /\ [Next]_vars => ChipBound'
<1>. SUFFICES ASSUME IInv, [Next]_vars PROVE ChipBound'
  OBVIOUS
<1>. USE DEF
   IInv, TypeOK, threadVars, requestVars, gateVars, bufferVars, linkVars
<1>1. CASE UNCHANGED <<onChip, pkts, nRead>>
  BY <1>1, WrittenStep DEF ChipBound, Written, StillWritten
<1>2. CASE SpiRead
  BY <1>2, WrittenStep DEF SpiRead, ChipBound, Written, StillWritten
<1>3. ASSUME NEW ok \in BOOLEAN, SpiWrite(ok) PROVE ChipBound'
  <2>1. issued \in 1 .. issued /\ writer' = "post" /\ issued' = issued
    BY <1>3 DEF
       SpiWrite, WriteCycle, WriteIdle, WriteRequested, WriteInHand,
       WriteQueued, WriteHandled, WriterFree
  <2>2. QED
    BY <1>3, <2>1, WrittenStep DEF SpiWrite, ChipBound, Written, StillWritten
<1>4. ASSUME NEW p, Admissible(p), ChipSends(p) PROVE ChipBound'
  <2>1. /\ Len(pkts') = Len(pkts) + 1 /\ pkts'[Len(pkts) + 1] = p
        /\ \A i \in 1 .. Len(pkts) : pkts'[i] = pkts[i]
    BY <1>4 DEF ChipSends, Admissible
  <2>2. ~p.ntf => Written(p.cmd)
    BY <1>4 DEF Admissible, ChipBound
  <2>3. QED
    BY <1>4, <2>1, <2>2 DEF ChipSends, ChipBound, Written
<1>5. QED
  BY <1>1, <1>2, <1>3, <1>4, ChipStep DEF Next, Reader, Writer, Client, vars,
     FirstRead, Write, ReaderWakes, SpiReadFails, ReaderLocks, WaitExpires,
     ReaderPosts, WriterWakes, WriterPosts, WriterSignals, TakeRead,
     ReadComplete, Rearm, TakeWrite, WriteComplete

(* A response leaves the reader after the completion of its write is queued. *)
LEMMA ResponseStep == IInv /\ [Next]_vars => ResponseAfterCompletion'
<1>. SUFFICES ASSUME IInv, [Next]_vars PROVE ResponseAfterCompletion'
  OBVIOUS
<1>. USE DEF
   IInv, TypeOK, ResponseAfterCompletion, InHand, threadVars, requestVars,
   gateVars, bufferVars, linkVars
<1>1. CASE FirstRead
  BY <1>1 DEF FirstRead, RequestRead
<1>2. CASE Write
  BY <1>2 DEF Write
<1>3. CASE ReaderWakes
  BY <1>3 DEF ReaderWakes
<1>4. CASE SpiRead
  BY <1>4 DEF SpiRead
<1>5. CASE SpiReadFails
  BY <1>5 DEF SpiReadFails
<1>6. CASE ReaderLocks
  <2>1. rxData \in 1 .. Len(pkts)
    BY <1>6 DEF
       ReaderLocks, ChipBound, ReadCycle, ReadUnarmed, ReadRequested,
       ReadInHand, ReadQueued, ReadHandled, ClientReads
  <2>2. ~MustWait => (~pkts[rxData].ntf => pkts[rxData].cmd <= posted)
    BY <2>1 DEF
       MustWait, ChipBound, Written, WriteCycle, WriteIdle, WriteRequested,
       WriteInHand, WriteQueued, WriteHandled, WriterFree
  <2>3. QED
    BY <1>6, <2>2 DEF ReaderLocks, InHand
<1>7. CASE WaitExpires
  BY <1>7 DEF WaitExpires
<1>8. CASE ReaderPosts
  BY <1>8, ReaderPostsQueue DEF ReaderPosts
<1>9. CASE WriterWakes
  BY <1>9 DEF WriterWakes
<1>10. ASSUME NEW ok \in BOOLEAN, SpiWrite(ok) PROVE ResponseAfterCompletion'
  BY <1>10 DEF SpiWrite
<1>11. CASE WriterPosts
  <2>1. posted <= posted'
    BY <1>11 DEF
       WriterPosts, WriteCycle, WriteIdle, WriteRequested, WriteInHand,
       WriteQueued, WriteHandled, WriterFree
  <2>2. \A i \in 1 .. nRead : ~pkts[i].ntf => pkts[i].cmd \in Nat
    BY DEF ChipBound, Written
  <2>3. QED
    BY <1>11, <2>1, <2>2 DEF WriterPosts, InHand
<1>12. CASE WriterSignals
  <2>1. \A i \in 1 .. nRead : ~pkts[i].ntf => pkts[i].cmd <= posted
    BY <1>12 DEF WriterSignals, ChipBound, Written
  <2>2. QED
    BY <1>12, <2>1 DEF WriterSignals
<1>13. CASE TakeRead
  BY <1>13, TakeReadQueue DEF TakeRead
<1>14. CASE ReadComplete
  BY <1>14 DEF ReadComplete
<1>15. CASE Rearm
  BY <1>15 DEF Rearm, RequestRead
<1>16. CASE TakeWrite
  BY <1>16, TakeWriteQueue DEF TakeWrite
<1>17. CASE WriteComplete
  BY <1>17 DEF WriteComplete
<1>18. ASSUME NEW p, Admissible(p), ChipSends(p) PROVE ResponseAfterCompletion'
  <2>1. \A i \in 1 .. nRead : pkts'[i] = pkts[i]
    BY <1>18 DEF ChipSends, ChipBound, Admissible
  <2>2. QED
    BY <1>18, <2>1 DEF ChipSends, InHand
<1>19. CASE UNCHANGED vars
  BY <1>19 DEF vars
<1>20. QED
  BY <1>1, <1>2, <1>3, <1>4, <1>5, <1>6, <1>7, <1>8, <1>9, <1>10, <1>11, <1>12,
     <1>13, <1>14, <1>15, <1>16, <1>17, <1>18, <1>19, ChipStep DEF
     Next, Reader, Writer, Client

(* The invariant holds initially.                                          *)
LEMMA InitIInv == Init => IInv
<1>. SUFFICES ASSUME Init PROVE IInv
  OBVIOUS
<1>. USE DEF Init, Link!LinkInit
<1>1. /\ queue \in Queues /\ queue \notin WithRead /\ queue \notin WithWrite
  BY DEF Queues, WithRead, WithWrite
<1>2. TypeOK
  <2>1. pkts \in Seq(Link!Packet) /\ txInfo \in [cmd : Nat, ok : BOOLEAN]
    OBVIOUS
  <2>2. tReadInfo \in Request /\ tWriteInfo \in Request
    BY RequestFacts
  <2>3. QED
    BY <1>1, <2>1, <2>2 DEF TypeOK
<1>3. ReadCycle
  BY <1>1 DEF ReadCycle, ReadUnarmed, ClientReads
<1>4. WriteCycle
  BY <1>1 DEF WriteCycle, WriteIdle, WriterFree
<1>5. ChipBound /\ ResponseAfterCompletion
  BY DEF ChipBound, ResponseAfterCompletion
<1>6. QED
  BY <1>2, <1>3, <1>4, <1>5 DEF IInv

(* Both request cycles, and what follows from them, hold for any number of *)
(* writes and packets.                                                     *)
THEOREM Invariant == Spec => []IInv
<1>1. Init => IInv
  BY InitIInv
<1>2. IInv /\ [Next]_vars => IInv'
  BY TypeStep, ReadCycleStep, WriteCycleStep, ChipBoundStep, ResponseStep DEF
     IInv
<1>3. QED
  BY <1>1, <1>2, PTL DEF Spec

(* Type correctness: the semaphores stay binary and the queue never holds   *)
(* two messages of a kind, so that no static buffer is posted twice.       *)
THEOREM TypeCorrect == Spec => []TypeOK
<1>1. IInv => TypeOK
  BY DEF IInv
<1>2. QED
  BY <1>1, Invariant, PTL

(* phTmlUwb_WaitWriteComplete: unless the wait of the reader was cut short, *)
(* the HAL is told of a response after the completion of its command.      *)
THEOREM ResponsesAfterCompletions == Spec => []ResponseAfterCompletion
<1>1. IInv => ResponseAfterCompletion
  BY DEF IInv
<1>2. QED
  BY <1>1, Invariant, PTL

(* The reader's static buffers are not refilled while a message that points *)
(* to them is queued or handled.                                           *)
THEOREM BuffersStable == Spec => []BufferStable
<1>1. IInv => BufferStable
  <2>. SUFFICES ASSUME IInv PROVE BufferStable
    OBVIOUS
  <2>1. ASSUME NEW k \in DOMAIN queue, queue[k] = "read"
        PROVE  queue \in WithRead
    <3>1. queue # <<>> /\ queue # <<"write">>
      BY <2>1
    <3>2. QED
      BY <3>1 DEF IInv, TypeOK, Queues, WithRead
  <2>2. queue \in WithRead => rxData = delivered + 1
    BY DEF
       IInv, TypeOK, ReadCycle, ReadUnarmed, ReadRequested, ReadInHand,
       ReadQueued, ReadHandled, ClientReads
  <2>3. /\ client = "read_complete" => rxData = delivered + 1
        /\ client = "rearm" => rxData = delivered /\ nRead = delivered
    BY DEF
       IInv, TypeOK, ReadCycle, ReadUnarmed, ReadRequested, ReadInHand,
       ReadQueued, ReadHandled, ClientReads
  <2>4. QED
    BY <2>1, <2>2, <2>3 DEF BufferStable
<1>2. QED
  BY <1>1, Invariant, PTL

(* phTmlUwb_Write is never refused with UWBSTATUS_BUSY.                     *)
THEOREM WritesNeverBusy == Spec => []WriteNeverBusy
<1>1. IInv => WriteNeverBusy
  BY DEF
     IInv, WriteNeverBusy, WriteCycle, WriteIdle, WriteRequested,
     WriteInHand, WriteQueued, WriteHandled, WriterFree
<1>2. QED
  BY <1>1, Invariant, PTL

(* Every step is a step of UciLink or leaves its variables alone.          *)
LEMMA RefinementStep == IInv /\ [Next]_vars => [Link!LinkNext]_(Link!linkVars)
<1>. SUFFICES ASSUME IInv, [Next]_vars PROVE [Link!LinkNext]_(Link!linkVars)
  OBVIOUS
<1>. USE DEF linkVars, Link!linkVars
<1>1. CASE UNCHANGED linkVars
  BY <1>1
<1>2. CASE FirstRead
  BY <1>2 DEF FirstRead, Link!LinkNext, Link!Listen
<1>3. CASE Write
  <2>1. issued = completed /\ ~tWriteInfo.bThreadBusy
    BY <1>3, RequestFacts DEF
       Write, IInv, WriteCycle, WriteIdle, WriteRequested, WriteInHand,
       WriteQueued, WriteHandled, WriterFree
  <2>2. QED
    BY <1>3, <2>1 DEF Write, Link!LinkNext, Link!Submit
<1>4. CASE ReadComplete
  <2>1. listening /\ delivered < Len(pkts) /\ rxData = delivered + 1
    BY <1>4 DEF
       ReadComplete, IInv, TypeOK, ChipBound, ReadCycle, ReadUnarmed,
       ReadRequested, ReadInHand, ReadQueued, ReadHandled, ClientReads
  <2>2. QED
    BY <1>4, <2>1 DEF ReadComplete, Link!LinkNext, Link!Deliver
<1>5. CASE WriteComplete
  <2>1. issued = completed + 1 /\ txInfo.cmd = issued /\ completed \in Nat
    BY <1>5 DEF
       WriteComplete, IInv, TypeOK, WriteCycle, WriteIdle, WriteRequested,
       WriteInHand, WriteQueued, WriteHandled, WriterFree
  <2>2. QED
    BY <1>5, <2>1 DEF WriteComplete, Link!LinkNext, Link!Complete
<1>6. CASE ChipSends(Link!Notification)
  BY <1>6 DEF ChipSends, Link!LinkNext, Link!Receive
<1>7. ASSUME NEW c \in onChip, ChipSends(Link!Response(c))
      PROVE  [Link!LinkNext]_(Link!linkVars)
  <2>1. c \in 1 .. issued
    BY DEF IInv, ChipBound, Written
  <2>2. Link!Receive(Link!Response(c))
    BY <1>7 DEF ChipSends, Link!Receive
  <2>3. QED
    BY <2>1, <2>2 DEF Link!LinkNext
<1>8. QED
  BY <1>1, <1>2, <1>3, <1>4, <1>5, <1>6, <1>7
     DEF Next, Reader, Writer, Client, Chip, vars, bufferVars, gateVars,
     requestVars, threadVars, ReaderWakes, SpiRead, SpiReadFails, ReaderLocks,
     WaitExpires, ReaderPosts, WriterWakes, SpiWrite, WriterPosts,
     WriterSignals, TakeRead, Rearm, TakeWrite

(* The transport layer implements UciLink: one completion per write, in     *)
(* order, and every packet handed on once and in the order of the chip.    *)
THEOREM Refinement == Spec => LinkSafety
<1>1. Init => Link!LinkInit
  BY DEF Init
<1>2. QED
  BY <1>1, Invariant, RefinementStep, PTL DEF Spec, LinkSafety, Link!LinkSafety

=============================================================================

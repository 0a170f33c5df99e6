--------------------------------- MODULE Tml ---------------------------------
(***************************************************************************)
(* The transport mapping layer of the UWB HAL between phTmlUwb_Init and    *)
(* phTmlUwb_Shutdown: the reader thread, the writer thread, the client     *)
(* thread that runs the deferred calls of the message queue, the API       *)
(* thread that submits writes, and the chip at the other end of the SPI    *)
(* driver.                                                                 *)
(*                                                                         *)
(* The messages in the queue point to static buffers of the threads that   *)
(* post them, so the queue holds only their kind, and what a message means *)
(* when it is handled is what those buffers hold then (rxData, txInfo).    *)
(* A section that runs under wait_busy_lock is one action.                 *)
(***************************************************************************)
EXTENDS Naturals, Sequences

CONSTANTS
  MaxWrites,   \* writes the HAL submits
  MaxPackets   \* packets the chip sends

ASSUME BoundsAssumption == MaxWrites \in Nat /\ MaxPackets \in Nat

VARIABLES
  tReadInfo,      \* [bThreadBusy, bEnable] of the read request
  tWriteInfo,     \* [bThreadBusy, bEnable] of the write request
  rxSemaphore,    \* wakes the reader thread
  txSemaphore,    \* wakes the writer thread
  gWriterCbflag,  \* the completion of the last write is in the queue
  wait_busy_flag, \* the reader asked to be signalled
  reader,         \* control state of phTmlUwb_TmlReaderThread
  writer,         \* control state of phTmlUwb_TmlWriterThread
  client,         \* control state of phNxpUciHal_client_thread
  api,            \* control state of the thread in phNxpUciHal_write_unlocked
  queue,          \* the message queue: kinds of the messages, oldest first
  rxData,         \* the packet in Rx_data and the reader's tTransactionInfo
  txInfo,         \* the writer's tTransactionInfo: [cmd, ok]
  nRead,          \* packets taken from the driver
  onChip,         \* writes that reached the chip and may still be answered
  posted,         \* history: last write whose completion was queued
  expired,        \* history: packets whose wait for the writer was cut short
  issued, completed, listening, pkts, delivered  \* see UciLink

threadVars == <<reader, writer, client, api>>
requestVars == <<tReadInfo, tWriteInfo, rxSemaphore, txSemaphore>>
gateVars == <<gWriterCbflag, wait_busy_flag, expired>>
bufferVars == <<queue, rxData, txInfo, nRead, posted>>
linkVars == <<issued, completed, listening, pkts, delivered>>
vars == <<threadVars, requestVars, gateVars, bufferVars, onChip, linkVars>>

\* The link is what is left when the threads, flags and the queue are forgotten.
Link == INSTANCE UciLink WITH
  issued <- issued, completed <- completed, listening <- listening,
  pkts <- pkts, delivered <- delivered

Idle == [bThreadBusy |-> FALSE, bEnable |-> FALSE]
Requested == [bThreadBusy |-> TRUE, bEnable |-> TRUE]

Init ==
  /\ tReadInfo = Idle /\ tWriteInfo = Idle
  /\ rxSemaphore = 0 /\ txSemaphore = 0
  /\ gWriterCbflag = FALSE /\ wait_busy_flag = FALSE
  /\ reader = "sem" /\ writer = "sem" /\ client = "msgrcv" /\ api = "idle"
  /\ queue = <<>> /\ rxData = 0 /\ txInfo = [cmd |-> 0, ok |-> FALSE]
  /\ nRead = 0 /\ onChip = {} /\ posted = 0 /\ expired = {}
  /\ Link!LinkInit

(***************************************************************************)
(* Requests.  phTmlUwb_Read of the initialisation arms the first read; the *)
(* HAL waits for each write before it submits the next.                    *)
(***************************************************************************)
RequestRead ==
  IF tReadInfo.bThreadBusy
  THEN UNCHANGED <<tReadInfo, rxSemaphore>>
  ELSE tReadInfo' = Requested /\ rxSemaphore' = rxSemaphore + 1

FirstRead ==
  /\ ~listening
  /\ listening' = TRUE
  /\ RequestRead
  /\ UNCHANGED <<threadVars, tWriteInfo, txSemaphore, gateVars, bufferVars,
                 onChip, issued, completed, pkts, delivered>>

Write ==
  /\ api = "idle"
  /\ issued < MaxWrites
  /\ IF tWriteInfo.bThreadBusy
     THEN /\ api' = "busy"
          /\ UNCHANGED <<tWriteInfo, txSemaphore, issued>>
     ELSE /\ api' = "wait"
          /\ tWriteInfo' = Requested
          /\ txSemaphore' = txSemaphore + 1
          /\ issued' = issued + 1
  /\ UNCHANGED <<reader, writer, client, tReadInfo, rxSemaphore, gateVars,
                 bufferVars, onChip, completed, listening, pkts, delivered>>

(***************************************************************************)
(* The writer thread.                                                      *)
(***************************************************************************)
WriterWakesTokenKept ==
  /\ writer = "sem"
  /\ txSemaphore > 0
  /\ IF tWriteInfo.bEnable
     THEN /\ tWriteInfo' = [tWriteInfo EXCEPT !.bEnable = FALSE]
          /\ writer' = "write"
     ELSE UNCHANGED <<tWriteInfo, writer>>
  /\ UNCHANGED <<reader, client, api, tReadInfo, rxSemaphore, txSemaphore,
                 gateVars, bufferVars, onChip, linkVars>>

WriterWakes ==
  /\ writer = "sem"
  /\ txSemaphore > 0
  /\ txSemaphore' = txSemaphore - 1
  /\ IF tWriteInfo.bEnable
     THEN /\ tWriteInfo' = [tWriteInfo EXCEPT !.bEnable = FALSE]
          /\ writer' = "write"
     ELSE UNCHANGED <<tWriteInfo, writer>>
  /\ UNCHANGED <<reader, client, api, tReadInfo, rxSemaphore,
                 gateVars, bufferVars, onChip, linkVars>>

(* phTmlUwb_spi_write, under wait_busy_lock, writes the buffer or fails.   *)
SpiWrite(ok) ==
  /\ writer = "write"
  /\ gWriterCbflag' = FALSE
  /\ onChip' = IF ok THEN onChip \union {issued} ELSE onChip
  /\ txInfo' = [cmd |-> issued, ok |-> ok]
  /\ writer' = "post"
  /\ UNCHANGED <<reader, client, api, requestVars, wait_busy_flag, expired,
                 queue, rxData, nRead, posted, linkVars>>

WriterPosts ==
  /\ writer = "post"
  /\ queue' = Append(queue, "write")
  /\ posted' = txInfo.cmd
  /\ writer' = IF txInfo.ok THEN "signal" ELSE "sem"
  /\ UNCHANGED <<reader, client, api, requestVars, gateVars, rxData, txInfo,
                 nRead, onChip, linkVars>>

(* phTmlUwb_SignalWriteComplete wakes the reader if it still waits.        *)
WriterSignals ==
  /\ writer = "signal"
  /\ gWriterCbflag' = TRUE
  /\ wait_busy_flag' = FALSE
  /\ reader' = IF wait_busy_flag /\ reader = "wait" THEN "post" ELSE reader
  /\ writer' = "sem"
  /\ UNCHANGED <<client, api, requestVars, expired, bufferVars, onChip,
                 linkVars>>

(***************************************************************************)
(* The reader thread.                                                      *)
(***************************************************************************)
ReaderWakes ==
  /\ reader = "sem"
  /\ rxSemaphore > 0
  /\ rxSemaphore' = rxSemaphore - 1
  /\ reader' = IF tReadInfo.bEnable THEN "read" ELSE "sem"
  /\ UNCHANGED <<writer, client, api, tReadInfo, tWriteInfo, txSemaphore,
                 gateVars, bufferVars, onChip, linkVars>>

SpiRead ==
  /\ reader = "read"
  /\ nRead < Len(pkts)
  /\ nRead' = nRead + 1
  /\ rxData' = nRead + 1
  /\ tReadInfo' = [tReadInfo EXCEPT !.bEnable = FALSE]
  /\ reader' = "gate"
  /\ UNCHANGED <<writer, client, api, tWriteInfo, rxSemaphore, txSemaphore,
                 gateVars, queue, txInfo, posted, onChip, linkVars>>

SpiReadFailsUnretried ==
  /\ reader = "read"
  /\ reader' = "sem"
  /\ UNCHANGED <<writer, client, api, requestVars,
                 gateVars, bufferVars, onChip, linkVars>>

(* A read that fails, is empty or is too long is tried again.              *)
SpiReadFails ==
  /\ reader = "read"
  /\ rxSemaphore' = rxSemaphore + 1
  /\ reader' = "sem"
  /\ UNCHANGED <<writer, client, api, tReadInfo, tWriteInfo, txSemaphore,
                 gateVars, bufferVars, onChip, linkVars>>

(* Must the packet in hand wait for the completion of the last write?      *)
MustWaitNever == FALSE
MustWait == ~gWriterCbflag /\ ~pkts[rxData].ntf

ReaderLocks ==
  /\ reader = "gate"
  /\ wait_busy_flag' = (MustWait \/ wait_busy_flag)
  /\ reader' = IF MustWait THEN "wait" ELSE "post"
  /\ UNCHANGED <<writer, client, api, requestVars, gWriterCbflag, expired,
                 bufferVars, onChip, linkVars>>

(* phTmlUwb_WaitWriteComplete returns after its second, or spuriously: the *)
(* condition is not tested again.                                          *)
WaitExpires ==
  /\ reader = "wait"
  /\ expired' = expired \union {rxData}
  /\ reader' = "post"
  /\ UNCHANGED <<writer, client, api, requestVars, gWriterCbflag,
                 wait_busy_flag, bufferVars, onChip, linkVars>>

ReaderPosts ==
  /\ reader = "post"
  /\ queue' = Append(queue, "read")
  /\ reader' = "sem"
  /\ UNCHANGED <<writer, client, api, requestVars, gateVars, rxData, txInfo,
                 nRead, posted, onChip, linkVars>>

(***************************************************************************)
(* The client thread: phTmlUwb_ReadDeferredCb and phTmlUwb_WriteDeferredCb *)
(* clear bThreadBusy and then call back into the HAL; read_complete        *)
(* requests the next read as its last step.                                *)
(***************************************************************************)
TakeReadRearmed ==
  /\ client = "msgrcv" /\ queue # <<>> /\ Head(queue) = "read"
  /\ queue' = Tail(queue)
  /\ tReadInfo' = Requested /\ rxSemaphore' = rxSemaphore + 1
  /\ client' = "read_complete"
  /\ UNCHANGED <<reader, writer, api, tWriteInfo, txSemaphore,
                 gateVars, rxData, txInfo, nRead, posted, onChip, linkVars>>

TakeRead ==
  /\ client = "msgrcv" /\ queue # <<>> /\ Head(queue) = "read"
  /\ queue' = Tail(queue)
  /\ tReadInfo' = [tReadInfo EXCEPT !.bThreadBusy = FALSE]
  /\ client' = "read_complete"
  /\ UNCHANGED <<reader, writer, api, tWriteInfo, rxSemaphore, txSemaphore,
                 gateVars, rxData, txInfo, nRead, posted, onChip, linkVars>>

ReadComplete ==
  /\ client = "read_complete"
  /\ delivered' = rxData
  /\ client' = "rearm"
  /\ UNCHANGED <<reader, writer, api, requestVars, gateVars, bufferVars,
                 onChip, issued, completed, listening, pkts>>

Rearm ==
  /\ client = "rearm"
  /\ RequestRead
  /\ client' = "msgrcv"
  /\ UNCHANGED <<reader, writer, api, tWriteInfo, txSemaphore, gateVars,
                 bufferVars, onChip, linkVars>>

TakeWriteStillBusy ==
  /\ client = "msgrcv" /\ queue # <<>> /\ Head(queue) = "write"
  /\ queue' = Tail(queue)
  /\ client' = "write_complete"
  /\ UNCHANGED <<reader, writer, api, requestVars,
                 gateVars, rxData, txInfo, nRead, posted, onChip, linkVars>>

TakeWrite ==
  /\ client = "msgrcv" /\ queue # <<>> /\ Head(queue) = "write"
  /\ queue' = Tail(queue)
  /\ tWriteInfo' = [tWriteInfo EXCEPT !.bThreadBusy = FALSE]
  /\ client' = "write_complete"
  /\ UNCHANGED <<reader, writer, api, tReadInfo, rxSemaphore, txSemaphore,
                 gateVars, rxData, txInfo, nRead, posted, onChip, linkVars>>

(* SEM_POST of the writer's cb_data lets write_unlocked return.            *)
WriteComplete ==
  /\ client = "write_complete"
  /\ completed' = txInfo.cmd
  /\ api' = "idle"
  /\ client' = "msgrcv"
  /\ UNCHANGED <<reader, writer, requestVars, gateVars, bufferVars, onChip,
                 issued, listening, pkts, delivered>>

(***************************************************************************)
(* The chip answers what was written to it, now or late, once or in        *)
(* fragments, or not at all, and notifies on its own.                      *)
(***************************************************************************)
ChipSends(p) ==
  /\ Len(pkts) < MaxPackets
  /\ pkts' = Append(pkts, p)
  /\ UNCHANGED <<threadVars, requestVars, gateVars, bufferVars, onChip,
                 issued, completed, listening, delivered>>

Chip ==
  \/ ChipSends(Link!Notification)
  \/ \E c \in onChip : ChipSends(Link!Response(c))

Reader ==
  \/ ReaderWakes \/ SpiRead \/ SpiReadFails
  \/ ReaderLocks \/ WaitExpires \/ ReaderPosts

Writer ==
  \/ WriterWakes \/ (\E ok \in BOOLEAN : SpiWrite(ok))
  \/ WriterPosts \/ WriterSignals

Client == TakeRead \/ ReadComplete \/ Rearm \/ TakeWrite \/ WriteComplete

Next == FirstRead \/ Write \/ Reader \/ Writer \/ Client \/ Chip

(***************************************************************************)
(* Fairness: threads that can run do run, the wait of a second ends, and a *)
(* driver that has packets does not fail every read.                       *)
(***************************************************************************)
Fairness ==
  /\ WF_vars(Writer)
  /\ WF_vars(Client)
  /\ WF_vars(ReaderWakes) /\ SF_vars(SpiRead)
  /\ WF_vars(ReaderLocks) /\ WF_vars(WaitExpires) /\ WF_vars(ReaderPosts)

Spec == Init /\ [][Next]_vars
FairSpec == Spec /\ Fairness
-----------------------------------------------------------------------------
(* Both semaphores are binary, at most one message of each kind is queued, *)
(* and every control state is one of the code's.                           *)
Request == [bThreadBusy : BOOLEAN, bEnable : BOOLEAN]
Queues == {<<>>, <<"read">>, <<"write">>,
           <<"read", "write">>, <<"write", "read">>}

TypeOK ==
  /\ tReadInfo \in Request /\ tWriteInfo \in Request
  /\ rxSemaphore \in {0, 1} /\ txSemaphore \in {0, 1}
  /\ gWriterCbflag \in BOOLEAN /\ wait_busy_flag \in BOOLEAN
  /\ reader \in {"sem", "read", "gate", "wait", "post"}
  /\ writer \in {"sem", "write", "post", "signal"}
  /\ client \in {"msgrcv", "read_complete", "rearm", "write_complete"}
  /\ api \in {"idle", "wait", "busy"}
  /\ queue \in Queues
  /\ rxData \in Nat /\ nRead \in Nat /\ posted \in Nat
  /\ txInfo \in [cmd : Nat, ok : BOOLEAN]
  /\ onChip \in SUBSET Nat /\ expired \in SUBSET Nat
  /\ issued \in Nat /\ completed \in Nat /\ delivered \in Nat
  /\ listening \in BOOLEAN
  /\ pkts \in Seq(Link!Packet)

(* The packet the reader has taken and not yet posted.                     *)
InHand(i) == i = rxData /\ reader \in {"gate", "wait"}

(* phTmlUwb_WaitWriteComplete: a response reaches the message queue after  *)
(* the completion of the write it answers, unless the reader's wait of one *)
(* second was cut short; so the HAL has left the wait for its write when   *)
(* it is told of the response.                                             *)
ResponseAfterCompletion ==
  \A i \in 1 .. nRead :
    ~pkts[i].ntf /\ i \notin expired /\ ~InHand(i) => pkts[i].cmd <= posted

(* The read message in the queue, and read_complete while it runs, refer   *)
(* to the static buffers of the reader: they hold the oldest packet not    *)
(* yet handled until read_complete is done with it.                        *)
BufferStable ==
  /\ (\E k \in DOMAIN queue : queue[k] = "read") => rxData = delivered + 1
  /\ client = "read_complete" => rxData = delivered + 1
  /\ client = "rearm" => rxData = delivered /\ nRead = delivered

(* phTmlUwb_Write: since the HAL waits for the completion callback before  *)
(* it writes again, and that callback runs after bThreadBusy is cleared,   *)
(* no write is ever refused with UWBSTATUS_BUSY.                           *)
WriteNeverBusy == api # "busy"

(* The layer keeps the promises of UciLink: one completion per write, and  *)
(* every packet once and in the chip's order.                              *)
LinkSafety == Link!LinkSafety
LinkSpec == Link!LinkSpec
=============================================================================

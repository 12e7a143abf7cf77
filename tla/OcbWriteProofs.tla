--------------------------- MODULE OcbWriteProofs ---------------------------
(***************************************************************************)
(* Proofs about the results of canRead() and about the transmit half of    *)
(* OcbHandle, the latter for clients that do not mix canSend() and         *)
(* canWrite().                                                             *)
(***************************************************************************)
EXTENDS OcbHandleProofs

-----------------------------------------------------------------------------
(***************************************************************************)
(* The result of a read.                                                   *)
(***************************************************************************)
(* A step that leaves readers, their job and its result alone.             *)
LEMMA ReasonFrame ==
  ASSUME ReadHasReason, UNCHANGED rxVars,
         \A u \in Threads : call'[u] = "read" => call[u] = "read"
  PROVE  ReadHasReason'
BY DEF ReadHasReason, rxVars

(* A job that ends without a frame leaves an error.                        *)
LEMMA ReasonOfEnd ==
  ASSUME IInv, rxJob.live, NEW result, NEW st, NEW p,
         result # "SUCCESS" \/ rxJob.got > 0,
         RxDone(result, rxJob.got, st, p)
  PROVE  ReadHasReason'
<1>1. rxCount' = rxJob.got /\ rxResult' = result
  BY DEF RxDone
<1>2. rxJob.got \in Nat
  BY DEF IInv, TypeOK, RxTypeOK
<1>3. QED
  BY <1>1, <1>2 DEF ReadHasReason

LEMMA ReasonOfAbort ==
  ASSUME IInv, ReadHasReason, NEW st, NEW p,
         "CLOSING" \in rxState => "CLOSING" \in st,
         RxAbort("ABORTED", st, p),
         \A u \in Threads : call'[u] = "read" => call[u] = "read"
  PROVE  ReadHasReason'
<1>1. CASE rxJob.live
  BY <1>1, ReasonOfEnd DEF RxAbort
<1>2. CASE ~rxJob.live
  BY <1>2 DEF RxAbort, ReadHasReason
<1>3. QED
  BY <1>1, <1>2

(* A call or a step of a reader.                                           *)
LEMMA ReasonOfCalls ==
  ASSUME IInv, ReadHasReason, NEW t \in Threads, RxCall(t) \/ RxStep(t)
  PROVE  ReadHasReason'
<1> USE DEF IInv, TypeOK
<1>1. CASE Read(t)
  <2>1. CASE UNCHANGED <<rxState, rxJob, call, pc>>
    BY <1>1, <2>1 DEF Read, RxFree, RxInv, OneReader, ReadHasReason
  <2>2. CASE rxJob' = [live |-> TRUE, got |-> 0]
    BY <2>2 DEF ReadHasReason
  <2>3. QED
    BY <1>1, <2>1, <2>2 DEF Read
<1>2. CASE Take(t)
  <2>1. \A u \in Threads : call'[u] # "read"
    BY <1>2 DEF Take, RxFree, RxInv, OneReader
  <2>2. QED
    BY <2>1 DEF ReadHasReason
<1>3. CASE AbortRx(t)
  BY <1>3, ReasonOfAbort DEF AbortRx
<1>4. CASE ReadCheck(t) \/ ReadAbortCheck(t)
  BY <1>4, ReasonFrame DEF ReadCheck, ReadAbortCheck
<1>5. CASE ReadInterrupted(t)
  <2>1. CASE RxWaitOver
    BY <1>5, <2>1, ReasonFrame DEF ReadInterrupted, rxVars
  <2>2. CASE ~RxWaitOver
    <3>1. RxAbort("ABORTED", rxState \cup {"SIGNAL_INTERRUPT"},
                  [pc EXCEPT ![t] = "abort_check"])
      BY <1>5, <2>2 DEF ReadInterrupted
    <3>2. UNCHANGED call
      BY <1>5 DEF ReadInterrupted
    <3>3. QED
      BY <3>1, <3>2, ReasonOfAbort
  <2>3. QED
    BY <2>1, <2>2
<1>6. CASE ReadFinish(t)
  <2>1. \A u \in Threads : call[u] = "read" => u = t
    BY <1>6 DEF ReadFinish, RxInv, OneReader
  <2>2. \A u \in Threads : call'[u] # "read"
    BY <1>6, <2>1 DEF ReadFinish, Leave, BaseTypeOK
  <2>3. QED
    BY <2>2 DEF ReadHasReason
<1>7. QED
  BY <1>1, <1>2, <1>3, <1>4, <1>5, <1>6 DEF RxCall, RxStep

(* The start of a close aborts the job of a reader.                        *)
LEMMA ReasonOfClose ==
  ASSUME IInv, ReadHasReason, NEW t \in Threads, NEW c \in Closers,
         StartClose(t, c), call[t] = "none"
  PROVE  ReadHasReason'
<1>1. \A u \in Threads : call'[u] = "read" => call[u] = "read"
  BY DEF StartClose, Enter, IInv, TypeOK, BaseTypeOK, Closers
<1>2. "CLOSING" \in rxState => "CLOSING" \in Closing(rxState)
  BY DEF Closing
<1>3. QED
  BY <1>1, <1>2, ReasonOfAbort DEF StartClose

LEMMA ReasonKept ==
  ASSUME IInv, ReadHasReason, [Next]_vars
  PROVE  ReadHasReason'
<1> USE DEF IInv, TypeOK
<1>1. ASSUME NEW t \in Threads, RxCall(t) \/ RxStep(t)
      PROVE  ReadHasReason'
  BY <1>1, ReasonOfCalls
<1>2. ASSUME NEW t \in Threads, TxCall(t) \/ TxStep(t), UNCHANGED rxVars
      PROVE  ReadHasReason'
  <2>1. \A u \in Threads : call'[u] = "read" => call[u] = "read"
    BY <1>2 DEF TxCall, TxStep, Write, Send, AbortTx, WriteCheck, baseVars,
                WriteInterrupted, WriteAbortCheck, WriteFinish, TxRefused,
                Enter, Leave, BaseTypeOK
  <2>2. QED
    BY <1>2, <2>1, ReasonFrame
<1>3. ASSUME NEW t \in Threads, Signal(t), UNCHANGED <<rxVars, txVars>>
      PROVE  ReadHasReason'
  BY <1>3, ReasonFrame DEF Signal
<1>4. ASSUME NEW t \in Threads, Destroy(t)
      PROVE  ReadHasReason'
  BY <1>4, ReasonOfClose DEF Destroy, MayCall, Closers
<1>5. ASSUME NEW t \in Threads, Release(t)
      PROVE  ReadHasReason'
  <2>1. CASE HandleClosed
    BY <1>5, <2>1, ReasonFrame DEF Release
  <2>2. CASE ~HandleClosed
    BY <1>5, <2>2, ReasonOfClose DEF Release, Closers
  <2>3. QED
    BY <2>1, <2>2
<1>6. ASSUME NEW t \in Threads, CloseStep(t)
      PROVE  ReadHasReason'
  BY <1>6, ReasonFrame DEF CloseStep, CloseCheck, CloseFinish, Leave,
                           BaseTypeOK
<1>7. CASE NucRxPut
  BY <1>7 DEF NucRxPut, baseVars, ReadHasReason, RxTypeOK
<1>8. CASE NucRxDone
  <2>1. rxJob.got \in Nat
    BY DEF RxTypeOK
  <2>2. QED
    BY <1>8, <2>1, ReasonOfEnd DEF NucRxDone
<1>9. CASE (NucTxSent \/ NucTxDone) /\ UNCHANGED rxVars
  BY <1>9, ReasonFrame DEF NucTxSent, NucTxDone, baseVars
<1>10. CASE NucCloseDone \/ Gone \/ UNCHANGED vars
  BY <1>10, ReasonFrame DEF NucCloseDone, Gone, vars, baseVars
<1>11. QED
  BY <1>1, <1>2, <1>3, <1>4, <1>5, <1>6, <1>7, <1>8, <1>9, <1>10 DEF Next

LEMMA ReasonHolds == Spec => []ReadHasReason
<1>1. Init => ReadHasReason
  BY DEF Init, BaseInit, ReadHasReason
<1>2. QED
  BY <1>1, ReasonKept, Invariance, PTL DEF Spec

(* A canRead() without a frame returns an error of its own job, or the     *)
(* handle is being closed.                                                 *)
THEOREM EmptyReadExplained == Spec => EmptyReadHasReason
<1>1. ASSUME IInv, ReadHasReason, NEW t \in Threads, ReadFinish(t),
             rxCount = 0
      PROVE  rxResult # "SUCCESS" \/ "CLOSING" \in rxState
  <2>1. ~rxJob.live
    BY <1>1 DEF ReadFinish, IInv, RxInv
  <2>2. QED
    BY <1>1, <2>1 DEF ReadFinish, ReadHasReason
<1>2. IInv /\ ReadHasReason =>
        [\A t \in Threads :
           ReadFinish(t) /\ rxCount = 0 =>
             rxResult # "SUCCESS" \/ "CLOSING" \in rxState]_vars
  BY <1>1
<1>3. QED
  BY <1>2, Invariance, ReasonHolds, PTL DEF EmptyReadHasReason

-----------------------------------------------------------------------------
(***************************************************************************)
(* The transmit half of clients that do not mix.                           *)
(***************************************************************************)
(* A step that leaves the transmit half and its writer alone.              *)
LEMMA UnmixedFrame ==
  ASSUME UnmixedInv, UNCHANGED txVars,
         \A u \in Threads :
           call'[u] = "write" => call[u] = "write" /\ pc'[u] = pc[u],
         HandleClosed => HandleClosed'
  PROVE  UnmixedInv'
<1>1. WriterInv'
  BY DEF UnmixedInv, WriterInv, TxWaitOver, txVars
<1>2. SenderInv'
  BY DEF UnmixedInv, SenderInv, txVars
<1>3. QED
  BY <1>1, <1>2 DEF UnmixedInv

(* The frames of a job are counted.                                        *)
LEMMA TxJobCounts ==
  ASSUME IInv
  PROVE  /\ txJob.live \in BOOLEAN /\ txJob.dying \in BOOLEAN
         /\ txJob.left \in 0 .. TxMax /\ txJob.sent \in 0 .. TxMax
         /\ txCount \in Nat
BY DEF IInv, TypeOK, TxTypeOK, TxJobs

(* nuc_tx_abort() changes nothing a writer or sender looks at.             *)
LEMMA AbortedJobSame ==
  ASSUME IInv, txJob' = AbortedJob
  PROVE  /\ txJob'.live = txJob.live
         /\ txJob'.left = txJob.left /\ txJob'.sent = txJob.sent
BY DEF AbortedJob, IInv, TypeOK, TxTypeOK, TxJobs

(* A writer is alone, and no canSend() frame is marked beside it.          *)
LEMMA WriterAlone ==
  ASSUME IInv, NEW t \in Threads, call[t] = "write"
  PROVE  /\ \A u \in Threads : call[u] = "write" => u = t
         /\ "WRITE" \in txState /\ "SEND" \notin txState
BY DEF IInv, TxInv

(* canWrite() is entered: there was no job, the one it starts is its own.  *)
LEMMA UnmixedWrite ==
  ASSUME IInv, UnmixedInv, NEW t \in Threads, Write(t), NotMixed
  PROVE  UnmixedInv'
<1> USE DEF IInv, TypeOK
<1>1. CASE TxRefused /\ UNCHANGED txOld
  BY <1>1, UnmixedFrame DEF Write, TxRefused, txVars, HandleClosed
<1>2. CASE ~(TxRefused /\ UNCHANGED txOld)
  <2>1. PICK k \in 1 .. TxMax :
          /\ txOld' = IF "SEND" \in txState THEN txJob.left ELSE 0
          /\ txState' = {"WRITE"} /\ txJob' = AcceptedJob(k, TRUE)
          /\ call' = [call EXCEPT ![t] = "write"]
          /\ pc' = [pc EXCEPT ![t] = "check"]
          /\ UNCHANGED txCount
    BY <1>2 DEF Write, Enter
  <2>2. "SEND" \notin txState /\ txOld' = 0
    BY <2>1 DEF NotMixed
  <2>3. /\ "WRITE" \notin txState /\ ~HandleClosed
        /\ \A u \in Threads : call[u] # "write"
    BY DEF Write, MayCall, TxFreeForWrite, TxInv
  <2>4. txCount = 0
    BY <2>3 DEF UnmixedInv, SenderInv
  <2>5. txJob'.live /\ txJob'.left + txJob'.sent > 0
    BY <2>1, TxJobCounts DEF AcceptedJob
  <2>6. \A u \in Threads : call'[u] = "write" => u = t /\ pc'[u] = "check"
    BY <2>1, <2>3 DEF BaseTypeOK
  <2>7. WriterInv'
    BY <2>1, <2>2, <2>4, <2>5, <2>6 DEF WriterInv
  <2>8. SenderInv'
    BY <2>1, <2>5 DEF SenderInv
  <2>9. QED
    BY <2>7, <2>8 DEF UnmixedInv
<1>3. QED
  BY <1>1, <1>2

(* canSend()                                                               *)
LEMMA UnmixedSend ==
  ASSUME IInv, UnmixedInv, NEW t \in Threads, Send(t)
  PROVE  UnmixedInv'
<1> USE DEF IInv, TypeOK
<1>1. CASE TxRefused
  BY <1>1, UnmixedFrame DEF Send, TxRefused, txVars, HandleClosed
<1>2. CASE ~TxRefused
  <2>1. PICK k \in 1 .. TxMax :
          /\ txState' = {"SEND"} /\ txJob' = AcceptedJob(k, FALSE)
          /\ UNCHANGED <<call, pc, txCount>>
    BY <1>2 DEF Send
  <2>2. "WRITE" \notin txState /\ \A u \in Threads : call'[u] # "write"
    BY <2>1 DEF Send, TxInv
  <2>3. txCount' = 0
    BY <2>1, <2>2 DEF UnmixedInv, SenderInv
  <2>4. txJob'.live /\ txJob'.left + txJob'.sent > 0
    BY <2>1, TxJobCounts DEF AcceptedJob
  <2>5. WriterInv'
    BY <2>2 DEF WriterInv
  <2>6. SenderInv'
    BY <2>1, <2>3, <2>4 DEF SenderInv
  <2>7. QED
    BY <2>5, <2>6 DEF UnmixedInv
<1>3. QED
  BY <1>1, <1>2

(* IOCTL_ESDCAN_TX_ABORT                                                   *)
LEMMA UnmixedAbort ==
  ASSUME IInv, UnmixedInv, NEW t \in Threads, AbortTx(t)
  PROVE  UnmixedInv'
<1>1. /\ UNCHANGED <<call, pc, closeState, txState, txCount, txResult, txOld>>
      /\ txJob' = AbortedJob
  BY DEF AbortTx, baseVars
<1>2. WriterInv'
  BY <1>1, AbortedJobSame DEF UnmixedInv, WriterInv, TxWaitOver
<1>3. SenderInv'
  BY <1>1, AbortedJobSame DEF UnmixedInv, SenderInv, HandleClosed
<1>4. QED
  BY <1>2, <1>3 DEF UnmixedInv

(* A writer looks at one of its two conditions.                            *)
LEMMA UnmixedCheck ==
  ASSUME IInv, UnmixedInv, NEW t \in Threads,
         WriteCheck(t) \/ WriteAbortCheck(t)
  PROVE  UnmixedInv'
<1> USE DEF IInv, TypeOK
<1>1. UNCHANGED <<call, closeState, txVars>> /\ call[t] = "write"
  BY DEF WriteCheck, WriteAbortCheck
<1>2. \A u \in Threads : call[u] = "write" => u = t
  BY <1>1, WriterAlone
<1>3. WriterInv'
  <2>1. CASE WriteCheck(t)
    <3>1. /\ pc[t] = "check"
          /\ pc'[t] = IF TxWaitOver THEN "woken"
                      ELSE IF t \in signals THEN "signalled" ELSE "sleep"
      BY <2>1 DEF WriteCheck, CheckInterruptible, BaseTypeOK
    <3>2. txJob.live \/ TxWaitOver
      BY <1>1, <3>1 DEF UnmixedInv, WriterInv
    <3>3. QED
      BY <1>1, <1>2, <3>1, <3>2 DEF UnmixedInv, WriterInv, TxWaitOver, txVars
  <2>2. CASE WriteAbortCheck(t)
    <3>1. /\ pc[t] = "abort_check"
          /\ pc'[t] = IF "SIGNAL_INTERRUPT" \notin txState THEN "aborted"
                      ELSE "abort_sleep"
      BY <2>2 DEF WriteAbortCheck, CheckUninterruptible, BaseTypeOK
    <3>2. QED
      BY <1>1, <1>2, <3>1 DEF UnmixedInv, WriterInv, TxWaitOver, txVars
  <2>3. QED
    BY <2>1, <2>2
<1>4. SenderInv'
  BY <1>1 DEF UnmixedInv, SenderInv, txVars, HandleClosed
<1>5. QED
  BY <1>3, <1>4 DEF UnmixedInv

(* A signal ends the first wait: the job is aborted if it is still there.  *)
LEMMA UnmixedInterrupted ==
  ASSUME IInv, UnmixedInv, NEW t \in Threads, WriteInterrupted(t)
  PROVE  UnmixedInv'
<1> USE DEF IInv, TypeOK
<1>1. /\ call[t] = "write" /\ pc[t] = "signalled"
      /\ UNCHANGED <<call, closeState, txCount, txResult, txOld>>
  BY DEF WriteInterrupted
<1>2. \A u \in Threads : call[u] = "write" => u = t
  BY <1>1, WriterAlone
<1>3. /\ txOld = 0 /\ "SIGNAL_INTERRUPT" \notin txState
      /\ txJob.live => txCount = 0 /\ "ABORT" \notin txState
      /\ txJob.live \/ TxWaitOver
  BY <1>1 DEF UnmixedInv, WriterInv
<1>4. CASE MustAbortWrite
  <2>1. /\ txState' = txState \cup {"SIGNAL_INTERRUPT"} /\ txJob' = AbortedJob
        /\ pc'[t] = "abort_check"
    BY <1>4 DEF WriteInterrupted, BaseTypeOK
  <2>2. txJob.live
    BY <1>3, <1>4, TxJobCounts DEF MustAbortWrite, TxWaitOver
  <2>3. WriterInv'
    BY <1>1, <1>2, <1>3, <2>1, <2>2, AbortedJobSame DEF WriterInv
  <2>4. "WRITE" \in txState'
    BY <1>1, <2>1, WriterAlone
  <2>5. SenderInv'
    BY <2>1, <2>2, <2>4, AbortedJobSame DEF UnmixedInv, SenderInv
  <2>6. QED
    BY <2>3, <2>5 DEF UnmixedInv
<1>5. CASE ~MustAbortWrite
  <2>1. UNCHANGED <<txState, txJob>> /\ pc'[t] = "woken"
    BY <1>5 DEF WriteInterrupted, BaseTypeOK
  <2>2. TxWaitOver
    BY <1>3, <1>5, TxJobCounts DEF MustAbortWrite, TxWaitOver
  <2>3. WriterInv'
    BY <1>1, <1>2, <2>1, <2>2 DEF UnmixedInv, WriterInv, TxWaitOver
  <2>4. SenderInv'
    BY <1>1, <2>1 DEF UnmixedInv, SenderInv, HandleClosed
  <2>5. QED
    BY <2>3, <2>4 DEF UnmixedInv
<1>6. QED
  BY <1>4, <1>5

(* What a writer that is about to leave leaves behind.                     *)
LEMMA LeavingWriter ==
  ASSUME IInv, UnmixedInv, NEW t \in Threads, WriteFinish(t)
  PROVE  ~txJob.live \/ "CLOSING" \in txState
<1>1. call[t] = "write" /\ pc[t] \in {"woken", "aborted"}
  BY DEF WriteFinish
<1>2. CASE pc[t] = "woken"
  BY <1>1, <1>2, TxJobCounts DEF UnmixedInv, WriterInv, TxWaitOver
<1>3. CASE pc[t] = "aborted"
  BY <1>1, <1>3 DEF UnmixedInv, WriterInv
<1>4. QED
  BY <1>1, <1>2, <1>3

LEMMA UnmixedFinish ==
  ASSUME IInv, UnmixedInv, NEW t \in Threads, WriteFinish(t)
  PROVE  UnmixedInv'
<1> USE DEF IInv, TypeOK
<1>1. /\ call[t] = "write" /\ txState' = {} /\ txCount' = 0
      /\ UNCHANGED <<txJob, closeState>>
  BY DEF WriteFinish
<1>2. \A u \in Threads : call'[u] # "write"
  BY <1>1, WriterAlone DEF WriteFinish, Leave, BaseTypeOK
<1>3. WriterInv'
  BY <1>2 DEF WriterInv
<1>4. "CLOSING" \in txState => HandleClosed
  BY DEF CloseInv
<1>5. SenderInv'
  BY <1>1, <1>4, LeavingWriter DEF UnmixedInv, SenderInv, HandleClosed
<1>6. QED
  BY <1>3, <1>5 DEF UnmixedInv

(* The job ends: by its frames, its timeout or an abort.                   *)
LEMMA UnmixedTxDone ==
  ASSUME IInv, UnmixedInv, NucTxDone
  PROVE  UnmixedInv'
<1> USE DEF IInv, TypeOK
<1>1. /\ txJob.live /\ txJob' = NoTxJob /\ ~txJob'.live
      /\ txResult' \in TxOutcomes
      /\ txState' = TxDoneState(txJob.sent)
      /\ txCount' = TxDoneCount(txJob.sent)
      /\ pc' = TxDoneWakes(pc)
      /\ UNCHANGED <<txOld, call, closeState>>
  BY DEF NucTxDone, TxDone, NoTxJob
<1>2. txJob.sent = 0 => txResult' # "SUCCESS"
  BY <1>1, TxJobCounts DEF TxOutcomes, UnmixedInv, SenderInv
<1>3. CASE "WRITE" \notin txState
  <2>1. \A u \in Threads : call'[u] # "write"
    BY <1>1, <1>3 DEF TxInv
  <2>2. /\ txCount' = 0
        /\ txState' = {}
    BY <1>1, <1>3 DEF TxDoneCount, TxDoneState, UnmixedInv, SenderInv
  <2>3. QED
    BY <1>1, <2>1, <2>2 DEF UnmixedInv, WriterInv, SenderInv
<1>4. CASE "WRITE" \in txState
  <2>1. "SEND" \notin txState
    BY <1>4 DEF TxInv
  <2>2. /\ txCount' = txJob.sent
        /\ "WRITE" \in txState' /\ "SIGNAL_INTERRUPT" \notin txState'
    BY <1>1, <1>4, <2>1 DEF TxDoneCount, TxDoneState
  <2>3. "SIGNAL_INTERRUPT" \notin txState =>
          /\ txJob.sent = 0 => "ABORT" \in txState'
          /\ \A u \in Threads :
               pc'[u] = IF call[u] = "write" /\ pc[u] = "sleep" THEN "check"
                        ELSE pc[u]
    BY <1>1, <1>4, <2>1 DEF TxDoneState, TxDoneWakes, WakeUpInterruptible
  <2>4. "SIGNAL_INTERRUPT" \in txState =>
          \A u \in Threads :
            call[u] = "write" =>
              pc'[u] = IF pc[u] = "abort_sleep" THEN "abort_check"
                       ELSE IF pc[u] = "sleep" THEN "check" ELSE pc[u]
    BY <1>1, <2>1 DEF TxDoneWakes, WakeUp
  <2>5. ASSUME NEW u \in Threads, call'[u] = "write"
        PROVE  /\ txOld' = 0
               /\ pc'[u] # "sleep"
               /\ pc'[u] \in {"check", "signalled", "woken"} => TxWaitOver'
    <3>1. /\ call[u] = "write" /\ txOld' = 0
      BY <1>1, <2>5 DEF UnmixedInv, WriterInv
    <3>2. CASE "SIGNAL_INTERRUPT" \in txState
      <4>1. pc[u] \in {"abort_check", "abort_sleep"}
        BY <3>1, <3>2 DEF UnmixedInv, WriterInv
      <4>2. pc'[u] = "abort_check"
        BY <2>4, <3>1, <3>2, <4>1
      <4>3. QED
        BY <3>1, <4>2
    <3>3. CASE "SIGNAL_INTERRUPT" \notin txState
      <4>1. TxWaitOver'
        <5>1. CASE txJob.sent = 0
          BY <2>3, <3>3, <5>1 DEF TxWaitOver
        <5>2. CASE txJob.sent # 0
          <6>1. txCount' - txOld' > 0
            BY <2>2, <3>1, <5>2, TxJobCounts
          <6>2. QED
            BY <6>1 DEF TxWaitOver
        <5>3. QED
          BY <5>1, <5>2
      <4>2. QED
        BY <2>3, <3>1, <3>3, <4>1
    <3>4. QED
      BY <3>2, <3>3
  <2>6. WriterInv'
    BY <1>1, <1>2, <2>2, <2>5 DEF WriterInv
  <2>7. SenderInv'
    BY <1>1, <2>2 DEF SenderInv
  <2>8. QED
    BY <2>6, <2>7 DEF UnmixedInv
<1>5. QED
  BY <1>3, <1>4

(* A frame is sent.                                                        *)
LEMMA UnmixedTxSent ==
  ASSUME IInv, UnmixedInv, NucTxSent
  PROVE  UnmixedInv'
<1>1. /\ UNCHANGED <<call, pc, closeState, txState, txCount, txResult, txOld>>
      /\ txJob'.live = txJob.live
      /\ txJob'.left = txJob.left - 1 /\ txJob'.sent = txJob.sent + 1
  BY DEF NucTxSent, baseVars, IInv, TypeOK, TxTypeOK, TxJobs
<1>2. WriterInv'
  BY <1>1 DEF UnmixedInv, WriterInv, TxWaitOver
<1>3. txJob'.left + txJob'.sent = txJob.left + txJob.sent
  BY <1>1, TxJobCounts
<1>4. SenderInv'
  BY <1>1, <1>3 DEF UnmixedInv, SenderInv, HandleClosed
<1>5. QED
  BY <1>2, <1>4 DEF UnmixedInv

(* The start of a close marks and aborts; who sleeps has still its job.    *)
LEMMA UnmixedClose ==
  ASSUME IInv, UnmixedInv, NEW t \in Threads, NEW c \in Closers,
         StartClose(t, c), call[t] = "none"
  PROVE  UnmixedInv'
<1> USE DEF IInv, TypeOK
<1>1. /\ txState' = Closing(txState) /\ txJob' = AbortedJob
      /\ call' = [call EXCEPT ![t] = c] /\ HandleClosed'
      /\ UNCHANGED <<txCount, txResult, txOld>>
  BY DEF StartClose, Enter, HandleClosed
<1>2. \A u \in Threads : call'[u] = "write" => call[u] = "write" /\ u # t
  BY <1>1 DEF BaseTypeOK, Closers
<1>3. \A u \in Threads : call[u] = "write" => pc'[u] = pc[u]
  BY StartCloseRx DEF Closers
<1>4. ASSUME NEW u \in Threads, call'[u] = "write"
      PROVE  txState' = txState \cup {"CLOSING"}
  BY <1>1, <1>2, <1>4, WriterAlone DEF Closing
<1>5. WriterInv'
  BY <1>1, <1>2, <1>3, <1>4, AbortedJobSame
  DEF UnmixedInv, WriterInv, TxWaitOver
<1>6. SenderInv'
  BY <1>1, AbortedJobSame DEF UnmixedInv, SenderInv, Closing
<1>7. QED
  BY <1>5, <1>6 DEF UnmixedInv

-----------------------------------------------------------------------------
(* No step of the receive half or of a closer touches a writer.            *)
LEMMA UnmixedRx ==
  ASSUME IInv, UnmixedInv, NEW t \in Threads, RxCall(t) \/ RxStep(t),
         UNCHANGED txVars
  PROVE  UnmixedInv'
<1> USE DEF IInv, TypeOK
<1>1. UNCHANGED closeState
  BY DEF RxCall, RxStep, Read, Take, AbortRx, ReadCheck, ReadInterrupted,
         ReadAbortCheck, ReadFinish
<1>2. \A u \in Threads : call'[u] = "write" => call[u] = "write" /\ u # t
  BY DEF RxCall, RxStep, Read, Take, AbortRx, ReadCheck, ReadInterrupted,
         ReadAbortCheck, ReadFinish, MayCall, Enter, Leave, BaseTypeOK
<1>3. \A st, u : \A p \in [Threads -> Pcs] :
        u \in Threads /\ call[u] = "write" => RxDoneWakes(st, p)[u] = p[u]
  BY DEF RxDoneWakes, WakeUp, WakeUpInterruptible
<1>4. \A u \in Threads \ {t} : call[u] = "write" => pc'[u] = pc[u]
  <2>1. CASE Read(t) \/ ReadCheck(t) \/ ReadAbortCheck(t)
    BY <2>1 DEF Read, ReadCheck, ReadAbortCheck, CheckInterruptible,
                CheckUninterruptible, BaseTypeOK
  <2>2. CASE Take(t) \/ AbortRx(t)
    BY <1>3, <2>2 DEF Take, AbortRx, RxAbort, RxDone, BaseTypeOK
  <2>3. CASE ReadInterrupted(t)
    <3> DEFINE start == [pc EXCEPT ![t] = "abort_check"]
    <3>1. start \in [Threads -> Pcs]
      BY DEF BaseTypeOK, Pcs
    <3>2. \/ pc' = [pc EXCEPT ![t] = "woken"]
          \/ pc' = start
          \/ pc' = RxDoneWakes(rxState \cup {"SIGNAL_INTERRUPT"}, start)
      BY <2>3 DEF ReadInterrupted, RxAbort, RxDone
    <3>3. \A u \in Threads \ {t} : start[u] = pc[u]
      BY DEF BaseTypeOK
    <3> HIDE DEF start
    <3>4. QED
      BY <1>3, <3>1, <3>2, <3>3 DEF BaseTypeOK
  <2>4. CASE ReadFinish(t)
    BY <2>4 DEF ReadFinish, WakeClosers, WakeUp, Closers, BaseTypeOK
  <2>5. QED
    BY <2>1, <2>2, <2>3, <2>4 DEF RxCall, RxStep
<1>5. QED
  BY <1>1, <1>2, <1>4, UnmixedFrame DEF HandleClosed

LEMMA UnmixedKept ==
  ASSUME IInv, UnmixedInv, [Next /\ NotMixed]_vars
  PROVE  UnmixedInv'
<1> USE DEF IInv, TypeOK
<1>1. ASSUME NEW t \in Threads, RxCall(t) \/ RxStep(t), UNCHANGED txVars
      PROVE  UnmixedInv'
  BY <1>1, UnmixedRx
<1>2. ASSUME NEW t \in Threads, TxCall(t) \/ TxStep(t), NotMixed
      PROVE  UnmixedInv'
  BY <1>2, UnmixedWrite, UnmixedSend, UnmixedAbort, UnmixedCheck,
     UnmixedInterrupted, UnmixedFinish
  DEF TxCall, TxStep
<1>3. ASSUME NEW t \in Threads, Signal(t), UNCHANGED txVars
      PROVE  UnmixedInv'
  <2>1. /\ UNCHANGED <<call, closeState>>
        /\ \A u \in Threads :
             pc'[u] = IF u = t /\ pc[u] = "sleep" THEN "check" ELSE pc[u]
    BY <1>3 DEF Signal, BaseTypeOK
  <2>2. WriterInv'
    BY <1>3, <2>1 DEF UnmixedInv, WriterInv, TxWaitOver, txVars
  <2>3. SenderInv'
    BY <1>3, <2>1 DEF UnmixedInv, SenderInv, txVars, HandleClosed
  <2>4. QED
    BY <2>2, <2>3 DEF UnmixedInv
<1>4. ASSUME NEW t \in Threads, Destroy(t) \/ Release(t)
      PROVE  UnmixedInv'
  <2>1. CASE Release(t) /\ HandleClosed
    BY <2>1, UnmixedFrame DEF Release, HandleClosed
  <2>2. CASE ~(Release(t) /\ HandleClosed)
    BY <1>4, <2>2, UnmixedClose DEF Destroy, Release, MayCall, Closers
  <2>3. QED
    BY <2>1, <2>2
<1>5. ASSUME NEW t \in Threads, CloseStep(t)
      PROVE  UnmixedInv'
  <2>1. UNCHANGED <<txVars, closeState>>
    BY <1>5 DEF CloseStep, CloseCheck, CloseFinish
  <2>2. \A u \in Threads :
          call'[u] = "write" => call[u] = "write" /\ pc'[u] = pc[u]
    BY <1>5 DEF CloseStep, CloseCheck, CloseFinish, CheckUninterruptible,
                Leave, Closers, BaseTypeOK
  <2>3. QED
    BY <2>1, <2>2, UnmixedFrame DEF HandleClosed
<1>6. CASE (NucRxPut \/ NucRxDone) /\ UNCHANGED txVars
  <2>1. UNCHANGED <<call, closeState>>
    BY <1>6 DEF NucRxPut, NucRxDone, baseVars
  <2>2. \A u \in Threads : call[u] = "write" => pc'[u] = pc[u]
    BY <1>6 DEF NucRxPut, NucRxDone, baseVars, RxDone, RxDoneWakes, WakeUp,
                WakeUpInterruptible, BaseTypeOK
  <2>3. QED
    BY <1>6, <2>1, <2>2, UnmixedFrame DEF HandleClosed
<1>7. CASE NucTxSent \/ NucTxDone
  BY <1>7, UnmixedTxSent, UnmixedTxDone
<1>8. CASE NucCloseDone
  <2>1. UNCHANGED <<txVars, call>> /\ HandleClosed'
    BY <1>8 DEF NucCloseDone, HandleClosed
  <2>2. \A u \in Threads : call[u] = "write" => pc'[u] = pc[u]
    BY <1>8 DEF NucCloseDone, WakeUp, Closers, BaseTypeOK
  <2>3. QED
    BY <2>1, <2>2, UnmixedFrame
<1>9. CASE Gone \/ UNCHANGED vars
  BY <1>9, UnmixedFrame DEF Gone, vars, baseVars, HandleClosed
<1>10. QED
  BY <1>1, <1>2, <1>3, <1>4, <1>5, <1>6, <1>7, <1>8, <1>9 DEF Next

-----------------------------------------------------------------------------
(* Clients that do not mix are clients.                                    *)
LEMMA UnmixedIsSpec == UnmixedSpec => Spec
<1>1. [Next /\ NotMixed]_vars => [Next]_vars
  OBVIOUS
<1>2. QED
  BY <1>1, PTL DEF UnmixedSpec, Spec

(* What the driver knows of a transmit job, for clients that do not mix    *)
(* canSend() and canWrite(): tx.state, tx.cm_count and the place of the    *)
(* writer tell whether the nucleus still has the job.                      *)
THEOREM UnmixedInvariance == UnmixedSpec => [](IInv /\ UnmixedInv)
<1>1. Init => UnmixedInv
  BY DEF Init, BaseInit, TxInit, NoTxJob, UnmixedInv, WriterInv, SenderInv
<1>2. UnmixedSpec => []IInv
  BY UnmixedIsSpec, Invariance, PTL
<1>3. QED
  BY <1>1, <1>2, UnmixedKept, PTL DEF UnmixedSpec

(* esdcan_tx_done finds the call it is meant for.                          *)
THEOREM NoSpuriousTxDone == UnmixedSpec => []TxJobHasOwner
<1>1. IInv /\ UnmixedInv => TxJobHasOwner
  BY DEF IInv, TxInv, UnmixedInv, SenderInv, TxJobHasOwner
<1>2. QED
  BY <1>1, UnmixedInvariance, PTL

(* A writer is never asleep after its job has ended.                       *)
THEOREM WriterIsWoken == UnmixedSpec => []NoLostWriterWakeup
<1>1. UnmixedInv => NoLostWriterWakeup
  BY DEF UnmixedInv, WriterInv, NoLostWriterWakeup
<1>2. QED
  BY <1>1, UnmixedInvariance, PTL

(* The wait no signal can end is entered with a job that will end it.      *)
THEOREM AbortIsAnswered == UnmixedSpec => []TxAbortAnswered
<1>1. IInv /\ UnmixedInv => TxAbortAnswered
  BY DEF IInv, TxInv, UnmixedInv, WriterInv, SenderInv, TxAbortAnswered
<1>2. QED
  BY <1>1, UnmixedInvariance, PTL

(* canWrite() does not leave its job behind on an open handle.             *)
THEOREM WriteIsFinished == UnmixedSpec => WriteEndsWithItsJob
<1>1. IInv /\ UnmixedInv =>
        [\A t \in Threads :
           WriteFinish(t) => ~txJob.live \/ "CLOSING" \in txState]_vars
  BY LeavingWriter
<1>2. QED
  BY <1>1, UnmixedInvariance, PTL DEF WriteEndsWithItsJob

(* A canWrite() without a frame returns the error of its own job, or the   *)
(* handle is being closed.                                                 *)
THEOREM EmptyWriteExplained == UnmixedSpec => EmptyWriteHasReason
<1>1. ASSUME IInv, UnmixedInv, NEW t \in Threads, WriteFinish(t),
             txCount - txOld <= 0
      PROVE  txResult # "SUCCESS" \/ "CLOSING" \in txState
  <2>1. txOld = 0 /\ txCount \in Nat
    BY <1>1, TxJobCounts DEF WriteFinish, UnmixedInv, WriterInv
  <2>2. txCount = 0
    BY <1>1, <2>1
  <2>3. QED
    BY <1>1, <2>2, LeavingWriter DEF WriteFinish, UnmixedInv, WriterInv
<1>2. IInv /\ UnmixedInv =>
        [\A t \in Threads :
           WriteFinish(t) /\ txCount - txOld <= 0 =>
             txResult # "SUCCESS" \/ "CLOSING" \in txState]_vars
  BY <1>1
<1>3. QED
  BY <1>2, UnmixedInvariance, PTL DEF EmptyWriteHasReason

=============================================================================

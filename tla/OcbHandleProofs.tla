--------------------------- MODULE OcbHandleProofs ---------------------------
(***************************************************************************)
(* Proofs about OcbHandle for every set of threads, every choice of calls  *)
(* and every queue size.                                                   *)
(***************************************************************************)
EXTENDS OcbHandle, TLAPS

USE OcbAssumption

(* The invariant holds when the handle has just been opened.               *)
LEMMA InitIInv == Init => IInv
<1> SUFFICES ASSUME Init PROVE IInv
  OBVIOUS
<1> USE DEF Init, BaseInit, RxInit, TxInit, NoRxJob, NoTxJob
<1>1. BaseTypeOK
  BY DEF BaseTypeOK, Calls, Pcs
<1>2. RxTypeOK
  BY DEF RxTypeOK, Results, RxBits
<1>3. TxTypeOK
  BY DEF TxTypeOK, TxResults, TxBits, TxJobs
<1>4. PcInv
  BY DEF PcInv, Closers
<1>5. RxInv
  BY DEF RxInv, OneReader, ShadowAccounted, RxWaitOver
<1>6. TxInv
  BY DEF TxInv
<1>7. CloseInv
  BY DEF CloseInv, HandleClosed, CloseWaitOver, Closers
<1>8. QED
  BY <1>1, <1>2, <1>3, <1>4, <1>5, <1>6, <1>7 DEF IInv, TypeOK

(* What esdcan_rx_done does to rx.state in the states it is called in.     *)
LEMMA RxDoneStates ==
  ASSUME NEW n
  PROVE  /\ RxDoneState({"READ"}, n) =
              IF n = 0 THEN {"READ", "ABORT"} ELSE {"READ"}
         /\ RxDoneState({"READ", "SIGNAL_INTERRUPT"}, n) = {"READ"}
         /\ RxDoneState({"READ", "CLOSING"}, n) =
              IF n = 0 THEN {"READ", "CLOSING", "ABORT"} ELSE {"READ", "CLOSING"}
         /\ RxDoneState({"TAKE"}, n) = {}
<1>1. {"READ"} \cap {"TAKE", "SIGNAL_INTERRUPT"} = {}
  OBVIOUS
<1>2. {"READ", "CLOSING"} \cap {"TAKE", "SIGNAL_INTERRUPT"} = {}
  OBVIOUS
<1>3. {"READ", "SIGNAL_INTERRUPT"} \ {"SIGNAL_INTERRUPT"} = {"READ"}
  OBVIOUS
<1>4. QED
  BY <1>1, <1>2, <1>3 DEF RxDoneState

(* Whom it wakes there: readers in the interruptible wait.                 *)
LEMMA RxDoneWakeUps ==
  ASSUME NEW p
  PROVE  /\ RxDoneWakes({"READ"}, p) = WakeUpInterruptible({"read"}, p)
         /\ RxDoneWakes({"READ", "SIGNAL_INTERRUPT"}, p) = WakeUp({"read"}, p)
         /\ RxDoneWakes({"READ", "CLOSING"}, p) =
              WakeUpInterruptible({"read"}, p)
         /\ RxDoneWakes({"TAKE"}, p) = p
<1>1. {"READ"} \cap {"TAKE", "SIGNAL_INTERRUPT"} = {}
  OBVIOUS
<1>2. {"READ", "CLOSING"} \cap {"TAKE", "SIGNAL_INTERRUPT"} = {}
  OBVIOUS
<1>3. QED
  BY <1>1, <1>2 DEF RxDoneWakes

(* The receive jobs the actions build are receive jobs.                    *)
LEMMA RxJobTypes ==
  /\ NoRxJob \in [live : BOOLEAN, got : 0 .. RxMax]
  /\ [live |-> TRUE, got |-> 0] \in [live : BOOLEAN, got : 0 .. RxMax]
<1>1. 0 \in 0 .. RxMax
  OBVIOUS
<1>2. QED
  BY <1>1 DEF NoRxJob

-----------------------------------------------------------------------------
(***************************************************************************)
(* Which parts of the invariant a step cannot disturb.                     *)
(***************************************************************************)
(* No step at all.                                                         *)
LEMMA StutterKeeps ==
  ASSUME IInv, UNCHANGED vars
  PROVE  IInv'
BY DEF IInv, vars, baseVars, rxVars, txVars, TypeOK, BaseTypeOK, RxTypeOK,
       TxTypeOK, PcInv, RxInv, TxInv, CloseInv, OneReader, ShadowAccounted,
       RxWaitOver, CloseWaitOver, HandleClosed

(* A step that leaves the transmit half alone and moves no writer.         *)
LEMMA TxFrame ==
  ASSUME IInv, UNCHANGED txVars,
         \A u \in Threads : (call'[u] = "write") <=> (call[u] = "write")
  PROVE  TxTypeOK' /\ TxInv'
<1> USE DEF IInv, TypeOK, txVars
<1>1. TxTypeOK'
  BY DEF TxTypeOK
<1>2. TxInv'
  BY DEF TxInv
<1>3. QED
  BY <1>1, <1>2

(* A step that leaves the receive half alone and moves no reader.          *)
LEMMA RxFrame ==
  ASSUME IInv, UNCHANGED rxVars,
         \A u \in Threads : (call'[u] = "read") <=> (call[u] = "read"),
         \A u \in Threads : call[u] = "read" => pc'[u] = pc[u]
  PROVE  RxTypeOK' /\ RxInv'
<1> USE DEF IInv, TypeOK, rxVars
<1>1. RxTypeOK'
  BY DEF RxTypeOK
<1>2. RxInv'
  BY DEF RxInv, OneReader, ShadowAccounted, RxWaitOver
<1>3. QED
  BY <1>1, <1>2

(* A step that opens or closes nothing and ends no job or wait of a closer.*)
LEMMA CloseFrame ==
  ASSUME IInv, UNCHANGED <<closeState, freed, rxState, txState>>,
         \A u \in Threads : (call'[u] \in Closers) <=> (call[u] \in Closers),
         \A u \in Threads : call[u] \in Closers => pc'[u] = pc[u],
         freed => UNCHANGED call,
         HandleClosed => ~rxJob'.live,
         "CLOSE_DONE" \in closeState => ~txJob'.live
  PROVE  CloseInv'
BY DEF IInv, TypeOK, CloseInv, CloseWaitOver, HandleClosed

-----------------------------------------------------------------------------
(* canRead() is entered.                                                   *)
LEMMA ReadKeeps ==
  ASSUME IInv, NEW t \in Threads, Read(t), UNCHANGED txVars
  PROVE  IInv'
<1> USE DEF IInv, TypeOK
<1>1. BaseTypeOK'
  BY DEF BaseTypeOK, Read, RxFree, RxReset, Calls, Pcs, Enter
<1>2. RxTypeOK'
  BY RxJobTypes DEF RxTypeOK, Read, RxFree, RxReset, Results, RxBits
<1>3. TxTypeOK'
  BY DEF TxTypeOK, txVars
<1>4. PcInv'
  BY DEF PcInv, Read, RxFree, RxReset, Closers, Enter, MayCall, BaseTypeOK
<1>5. RxInv'
  <2>1. CASE UNCHANGED <<rxState, rxJob, call, pc>>
    BY <2>1 DEF RxInv, OneReader, ShadowAccounted, RxWaitOver, Read, RxFree, RxReset, RxTypeOK
  <2>2. CASE ~UNCHANGED <<rxState, rxJob, call, pc>>
    <3>1. \A u \in Threads : call'[u] = "read" <=> u = t
      BY <2>2 DEF Read, RxFree, RxReset, Enter, MayCall, BaseTypeOK, RxInv, OneReader
    <3>2. /\ rxState' = {"READ"} /\ rxCount' = 0 /\ shadow' = 0
          /\ rxJob' = [live |-> TRUE, got |-> 0]
          /\ pc'[t] = "check"
      BY <2>2 DEF Read, RxFree, RxReset, BaseTypeOK
    <3>3. QED
      BY <3>1, <3>2 DEF RxInv, OneReader, ShadowAccounted, RxWaitOver
  <2>3. QED
    BY <2>1, <2>2
<1>6. TxInv'
  BY DEF TxInv, txVars, Read, RxFree, RxReset, Enter, MayCall, BaseTypeOK
<1>7. CloseInv'
  BY DEF CloseInv, HandleClosed, CloseWaitOver, Closers, txVars, Read, RxFree, RxReset, Enter, MayCall, BaseTypeOK
<1>8. QED
  BY <1>1, <1>2, <1>3, <1>4, <1>5, <1>6, <1>7

(* A reader looks at its condition.                                         *)
LEMMA ReadCheckKeeps ==
  ASSUME IInv, NEW t \in Threads, ReadCheck(t), UNCHANGED txVars
  PROVE  IInv'
<1> USE DEF IInv, TypeOK
<1>1. BaseTypeOK'
  BY DEF BaseTypeOK, ReadCheck, CheckInterruptible, Pcs
<1>2. RxTypeOK'
  BY DEF RxTypeOK, ReadCheck, rxVars
<1>3. TxTypeOK' /\ TxInv'
  BY TxFrame DEF ReadCheck
<1>4. PcInv'
  BY DEF PcInv, ReadCheck, CheckInterruptible, BaseTypeOK, Closers
<1>5. RxInv'
  BY DEF RxInv, OneReader, ShadowAccounted, RxWaitOver, ReadCheck,
         CheckInterruptible, BaseTypeOK, rxVars
<1>6. CloseInv'
  BY CloseFrame DEF ReadCheck, CheckInterruptible, rxVars, txVars, BaseTypeOK,
                    Closers, CloseInv
<1>7. QED
  BY <1>1, <1>2, <1>3, <1>4, <1>5, <1>6

(* The second wait of a reader is over at once.                             *)
LEMMA ReadAbortCheckKeeps ==
  ASSUME IInv, NEW t \in Threads, ReadAbortCheck(t), UNCHANGED txVars
  PROVE  IInv'
<1> USE DEF IInv, TypeOK
<1>1. BaseTypeOK'
  BY DEF BaseTypeOK, ReadAbortCheck, CheckUninterruptible, Pcs
<1>2. RxTypeOK'
  BY DEF RxTypeOK, ReadAbortCheck, rxVars
<1>3. TxTypeOK' /\ TxInv'
  BY TxFrame DEF ReadAbortCheck
<1>4. PcInv'
  BY DEF PcInv, ReadAbortCheck, CheckUninterruptible, BaseTypeOK, Closers,
         RxInv
<1>5. RxInv'
  BY DEF RxInv, OneReader, ShadowAccounted, RxWaitOver, ReadAbortCheck,
         CheckUninterruptible, BaseTypeOK, rxVars
<1>6. CloseInv'
  BY CloseFrame DEF ReadAbortCheck, CheckUninterruptible, rxVars, txVars,
                    BaseTypeOK, Closers, CloseInv
<1>7. QED
  BY <1>1, <1>2, <1>3, <1>4, <1>5, <1>6

(* A reader leaves, and wakes a closer that waits for it.                   *)
LEMMA ReadFinishKeeps ==
  ASSUME IInv, NEW t \in Threads, ReadFinish(t), UNCHANGED txVars
  PROVE  IInv'
<1> USE DEF IInv, TypeOK
<1>1. BaseTypeOK'
  BY DEF BaseTypeOK, ReadFinish, Leave, WakeUp, WakeClosers, Pcs, Calls
<1>2. RxTypeOK'
  BY DEF RxTypeOK, ReadFinish, RxInv, ShadowAccounted
<1>3. TxTypeOK' /\ TxInv'
  BY TxFrame DEF ReadFinish, Leave, BaseTypeOK
<1>4. PcInv'
  BY DEF PcInv, ReadFinish, Leave, WakeUp, WakeClosers, BaseTypeOK, Closers
<1>5. RxInv'
  <2>1. ~rxJob.live /\ UNCHANGED rxJob
    BY DEF RxInv, ReadFinish
  <2>2. \A u \in Threads : call'[u] # "read"
    BY DEF RxInv, OneReader, ReadFinish, Leave, BaseTypeOK
  <2>3. rxState' = {} /\ rxCount' = 0
    BY DEF ReadFinish
  <2>4. QED
    BY <2>1, <2>2, <2>3 DEF RxInv, OneReader, ShadowAccounted
<1>6. CloseInv'
  BY DEF CloseInv, CloseWaitOver, HandleClosed, ReadFinish, Leave, WakeUp, WakeClosers,
         BaseTypeOK, Closers, txVars
<1>7. QED
  BY <1>1, <1>2, <1>3, <1>4, <1>5, <1>6

(* canTake() comes and goes within one locked stretch.                      *)
LEMMA TakeKeeps ==
  ASSUME IInv, NEW t \in Threads, Take(t), UNCHANGED txVars
  PROVE  IInv'
<1> USE DEF IInv, TypeOK
<1>1. rxState = {} /\ ~rxJob.live /\ \A u \in Threads : call[u] # "read"
  BY DEF Take, RxFree, RxReset, RxInv, OneReader
<1>2. /\ rxState' = {} /\ rxCount' = 0 /\ shadow' = 0
      /\ rxJob' \in {rxJob, NoRxJob} /\ rxResult' \in {rxResult, "SUCCESS"}
      /\ UNCHANGED <<call, pc, signals, closeState, freed>>
  BY RxDoneStates, RxDoneWakeUps DEF Take, RxFree, RxReset, RxDone
<1>3. ~rxJob'.live /\ rxJob'.got = 0
  BY <1>1, <1>2 DEF NoRxJob, RxInv
<1>4. BaseTypeOK'
  BY <1>2 DEF BaseTypeOK
<1>5. RxTypeOK'
  BY <1>2, RxJobTypes DEF RxTypeOK, Results
<1>6. TxTypeOK' /\ TxInv'
  BY <1>2, TxFrame
<1>7. PcInv'
  BY <1>2 DEF PcInv
<1>8. RxInv'
  BY <1>1, <1>2, <1>3 DEF RxInv, OneReader, ShadowAccounted
<1>9. CloseInv'
  BY <1>1, <1>2, <1>3, CloseFrame DEF txVars, CloseInv
<1>10. QED
  BY <1>4, <1>5, <1>6, <1>7, <1>8, <1>9

(* The job of a reader ends: by its frames, its timeout or RX_ABORT.        *)
LEMMA RxEndKeeps ==
  ASSUME IInv, rxJob.live, NEW result \in Results,
         RxDone(result, rxJob.got, rxState, pc),
         UNCHANGED <<shadow, call, signals, closeState, freed, txVars>>
  PROVE  IInv'
<1> USE DEF IInv, TypeOK
<1>1. /\ rxState = {"READ"} /\ rxCount = 0 /\ shadow = rxJob.got
      /\ rxJob.got \in 0 .. RxMax
  BY DEF RxInv, OneReader, ShadowAccounted, RxTypeOK
<1>2. /\ rxState' = IF rxJob.got = 0 THEN {"READ", "ABORT"} ELSE {"READ"}
      /\ pc' = WakeUpInterruptible({"read"}, pc)
      /\ rxCount' = rxJob.got /\ rxResult' = result
      /\ rxJob' = NoRxJob /\ ~rxJob'.live /\ rxJob'.got = 0
  BY <1>1, RxDoneStates, RxDoneWakeUps DEF RxDone, NoRxJob
<1>3. BaseTypeOK'
  BY <1>2 DEF BaseTypeOK, WakeUpInterruptible, Pcs
<1>4. RxTypeOK'
  BY <1>1, <1>2, RxJobTypes DEF RxTypeOK, RxBits
<1>5. TxTypeOK' /\ TxInv'
  BY TxFrame
<1>6. PcInv'
  BY <1>2 DEF PcInv, WakeUpInterruptible, BaseTypeOK, Closers
<1>7. RxInv'
  BY <1>1, <1>2 DEF RxInv, OneReader, ShadowAccounted, RxWaitOver,
         WakeUpInterruptible, BaseTypeOK
<1>8. CloseInv'
  BY <1>1, <1>2 DEF CloseInv, CloseWaitOver, HandleClosed, txVars,
         WakeUpInterruptible, BaseTypeOK, Closers
<1>9. QED
  BY <1>3, <1>4, <1>5, <1>6, <1>7, <1>8

(* IOCTL_ESDCAN_RX_ABORT.                                                  *)
LEMMA AbortRxKeeps ==
  ASSUME IInv, NEW t \in Threads, AbortRx(t), UNCHANGED txVars
  PROVE  IInv'
<1>1. CASE rxJob.live
  BY <1>1, RxEndKeeps DEF AbortRx, RxAbort, Results
<1>2. CASE ~rxJob.live
  BY <1>2, StutterKeeps DEF AbortRx, RxAbort, vars, baseVars, rxVars
<1>3. QED
  BY <1>1, <1>2

(* The nucleus ends the job of a reader.                                   *)
LEMMA NucRxDoneKeeps ==
  ASSUME IInv, NucRxDone, UNCHANGED txVars
  PROVE  IInv'
BY RxEndKeeps DEF NucRxDone, Results

(* A signal ends the wait of a reader, and its job if that is in flight.    *)
LEMMA ReadInterruptedKeeps ==
  ASSUME IInv, NEW t \in Threads, ReadInterrupted(t), UNCHANGED txVars
  PROVE  IInv'
<1> USE DEF IInv, TypeOK
<1>1. CASE RxWaitOver
  <2> USE <1>1
  <2>1. BaseTypeOK'
    BY DEF BaseTypeOK, ReadInterrupted, Pcs
  <2>2. RxTypeOK'
    BY DEF RxTypeOK, ReadInterrupted
  <2>3. TxTypeOK' /\ TxInv'
    BY TxFrame DEF ReadInterrupted
  <2>4. PcInv'
    BY DEF PcInv, ReadInterrupted, BaseTypeOK, Closers
  <2>5. RxInv'
    <3>1. ~rxJob.live
      BY DEF RxInv, RxWaitOver
    <3>2. /\ UNCHANGED <<rxState, rxCount, rxJob, shadow, call>>
          /\ pc' = [pc EXCEPT ![t] = "woken"]
      BY DEF ReadInterrupted
    <3>3. \A u \in Threads : pc'[u] = IF u = t THEN "woken" ELSE pc[u]
      BY <3>2 DEF BaseTypeOK
    <3>4. \A u \in Threads : call[u] = "read" => pc'[u] # "sleep"
      BY <3>1, <3>3 DEF RxInv
    <3>5. QED
      BY <3>1, <3>2, <3>4 DEF RxInv, OneReader, ShadowAccounted, RxWaitOver
  <2>6. CloseInv'
    BY CloseFrame DEF ReadInterrupted, BaseTypeOK, txVars, Closers, CloseInv
  <2>7. QED
    BY <2>1, <2>2, <2>3, <2>4, <2>5, <2>6
<1>2. CASE ~RxWaitOver
  <2> USE <1>2
  <2>1. /\ rxJob.live /\ rxState = {"READ"}
        /\ shadow = rxJob.got /\ rxJob.got \in 0 .. RxMax
    BY DEF ReadInterrupted, RxInv, ShadowAccounted, RxTypeOK
  <2>2. RxDone("ABORTED", rxJob.got, {"READ", "SIGNAL_INTERRUPT"},
               [pc EXCEPT ![t] = "abort_check"])
    BY <2>1 DEF ReadInterrupted, RxAbort
  <2>3. /\ rxState' = {"READ"} /\ rxCount' = rxJob.got
        /\ rxResult' = "ABORTED"
        /\ rxJob' = NoRxJob /\ ~rxJob'.live /\ rxJob'.got = 0
        /\ pc' = WakeUp({"read"}, [pc EXCEPT ![t] = "abort_check"])
        /\ UNCHANGED <<shadow, call, signals, closeState, freed>>
    BY <2>2, RxDoneStates, RxDoneWakeUps DEF RxDone, NoRxJob, ReadInterrupted
  <2>4. pc' = [pc EXCEPT ![t] = "abort_check"]
    <3>1. \A u \in Threads : call[u] = "read" => u = t
      BY DEF RxInv, OneReader, ReadInterrupted
    <3>2. QED
      BY <2>3, <3>1 DEF WakeUp, BaseTypeOK
  <2>5. BaseTypeOK'
    BY <2>3, <2>4 DEF BaseTypeOK, Pcs
  <2>6. RxTypeOK'
    BY <2>1, <2>3, RxJobTypes DEF RxTypeOK, RxBits, Results
  <2>7. TxTypeOK' /\ TxInv'
    BY <2>3, TxFrame
  <2>8. PcInv'
    BY <2>3, <2>4 DEF PcInv, BaseTypeOK, Closers, ReadInterrupted
  <2>9. RxInv'
    <3>1. \A u \in Threads : call[u] = "read" => u = t
      BY DEF RxInv, OneReader, ReadInterrupted
    <3>2. \A u \in Threads : call'[u] = "read" => pc'[u] = "abort_check"
      BY <2>3, <2>4, <3>1 DEF BaseTypeOK
    <3>3. OneReader' /\ ShadowAccounted'
      BY <2>1, <2>3 DEF RxInv, OneReader, ShadowAccounted
    <3>4. QED
      BY <2>3, <3>2, <3>3 DEF RxInv
  <2>10. CloseInv'
    BY <2>1, <2>3, <2>4, CloseFrame DEF BaseTypeOK, txVars, Closers, CloseInv,
                                        ReadInterrupted
  <2>11. QED
    BY <2>5, <2>6, <2>7, <2>8, <2>9, <2>10
<1>3. QED
  BY <1>1, <1>2

(* A frame arrives for the reader.                                          *)
LEMMA NucRxPutKeeps ==
  ASSUME IInv, NucRxPut, UNCHANGED txVars
  PROVE  IInv'
<1> USE DEF IInv, TypeOK
<1>1. BaseTypeOK'
  BY DEF BaseTypeOK, NucRxPut, baseVars
<1>2. RxTypeOK'
  <2>1. shadow' \in 0 .. RxMax
    BY DEF RxTypeOK, NucRxPut, RxInv, OneReader, ShadowAccounted
  <2>2. rxJob' \in [live : BOOLEAN, got : 0 .. RxMax]
    <3>1. rxJob.got + 1 \in 0 .. RxMax
      BY DEF RxTypeOK, NucRxPut
    <3>2. QED
      BY <3>1 DEF RxTypeOK, NucRxPut
  <2>3. QED
    BY <2>1, <2>2 DEF RxTypeOK, NucRxPut
<1>3. TxTypeOK' /\ TxInv'
  BY TxFrame DEF NucRxPut, baseVars
<1>4. PcInv'
  BY DEF PcInv, NucRxPut, baseVars
<1>5. RxInv'
  <2>1. rxJob'.live /\ rxJob'.got = rxJob.got + 1
    BY DEF NucRxPut, RxTypeOK
  <2>2. QED
    BY <2>1 DEF RxInv, OneReader, ShadowAccounted, RxWaitOver, NucRxPut,
                baseVars, RxTypeOK
<1>6. CloseInv'
  BY CloseFrame DEF NucRxPut, baseVars, txVars, CloseInv
<1>7. QED
  BY <1>1, <1>2, <1>3, <1>4, <1>5, <1>6

-----------------------------------------------------------------------------
(* The transmit jobs the actions build are transmit jobs.                  *)
LEMMA NoTxJobType ==
  NoTxJob \in TxJobs /\ NoTxJob.sent + NoTxJob.left <= TxMax
<1>1. 0 \in 0 .. TxMax
  OBVIOUS
<1>2. QED
  BY <1>1 DEF NoTxJob, TxJobs

LEMMA AbortedJobType ==
  ASSUME txJob \in TxJobs
  PROVE  /\ AbortedJob \in TxJobs
         /\ AbortedJob.live = txJob.live
         /\ AbortedJob.sent = txJob.sent /\ AbortedJob.left = txJob.left
BY DEF AbortedJob, TxJobs

LEMMA AcceptedJobType ==
  ASSUME txJob \in TxJobs, NEW k \in 1 .. TxMax, Accepts(k),
         NEW timed \in BOOLEAN
  PROVE  /\ AcceptedJob(k, timed) \in TxJobs
         /\ AcceptedJob(k, timed).sent + AcceptedJob(k, timed).left <= TxMax
<1>1. txJob.left + k \in 0 .. TxMax /\ 0 \in 0 .. TxMax
  BY DEF Accepts, TxJobs
<1>2. QED
  BY <1>1 DEF AcceptedJob, TxJobs

(* canWrite() is entered.                                                   *)
LEMMA WriteKeeps ==
  ASSUME IInv, NEW t \in Threads, Write(t), UNCHANGED rxVars
  PROVE  IInv'
<1> USE DEF IInv, TypeOK
<1>1. CASE UNCHANGED <<txState, txJob, txOld, call, pc>>
  BY <1>1, StutterKeeps DEF Write, TxFreeForWrite, vars, baseVars, txVars
<1>2. CASE ~UNCHANGED <<txState, txJob, txOld, call, pc>>
  <2>1. PICK k \in 1 .. TxMax :
          /\ Accepts(k)
          /\ txOld' = IF "SEND" \in txState THEN txJob.left ELSE 0
          /\ txState' = {"WRITE"}
          /\ txJob' = AcceptedJob(k, TRUE)
          /\ Enter(t, "write")
          /\ pc' = [pc EXCEPT ![t] = "check"]
    BY <1>2 DEF Write, TxFreeForWrite, TxRefused
  <2>2. /\ MayCall(t, "write") /\ "WRITE" \notin txState
        /\ UNCHANGED <<txCount, txResult, signals, closeState, freed>>
    BY DEF Write, TxFreeForWrite
  <2>3. BaseTypeOK'
    BY <2>1, <2>2 DEF BaseTypeOK, Enter, Calls, Pcs
  <2>4. RxTypeOK' /\ RxInv'
    BY <2>1, <2>2, RxFrame DEF Enter, MayCall, BaseTypeOK
  <2>5. TxTypeOK'
    <3>1. txOld' \in 0 .. TxMax
      BY <2>1 DEF TxTypeOK, TxJobs
    <3>2. txJob' \in TxJobs
      BY <2>1, AcceptedJobType DEF TxTypeOK
    <3>3. QED
      BY <2>1, <2>2, <3>1, <3>2 DEF TxTypeOK, TxBits
  <2>6. PcInv'
    BY <2>1, <2>2 DEF PcInv, Enter, MayCall, BaseTypeOK, Closers
  <2>7. TxInv'
    BY <2>1, <2>2, AcceptedJobType DEF TxInv, Enter, MayCall, BaseTypeOK, TxTypeOK
  <2>8. CloseInv'
    BY <2>1, <2>2 DEF CloseInv, CloseWaitOver, HandleClosed, Enter, MayCall,
                      BaseTypeOK, Closers, rxVars
  <2>9. QED
    BY <2>3, <2>4, <2>5, <2>6, <2>7, <2>8
<1>3. QED
  BY <1>1, <1>2

(* A writer looks at its condition.                                         *)
LEMMA WriteCheckKeeps ==
  ASSUME IInv, NEW t \in Threads, WriteCheck(t), UNCHANGED rxVars
  PROVE  IInv'
<1> USE DEF IInv, TypeOK
<1>1. BaseTypeOK'
  BY DEF BaseTypeOK, WriteCheck, CheckInterruptible, Pcs
<1>2. RxTypeOK' /\ RxInv'
  BY RxFrame DEF WriteCheck, CheckInterruptible, BaseTypeOK
<1>3. TxTypeOK' /\ TxInv'
  BY TxFrame DEF WriteCheck
<1>4. PcInv'
  BY DEF PcInv, WriteCheck, CheckInterruptible, BaseTypeOK, Closers
<1>5. CloseInv'
  BY CloseFrame DEF WriteCheck, CheckInterruptible, rxVars, txVars, BaseTypeOK,
                    Closers, CloseInv
<1>6. QED
  BY <1>1, <1>2, <1>3, <1>4, <1>5

(* A writer looks at the condition of its second wait.                      *)
LEMMA WriteAbortCheckKeeps ==
  ASSUME IInv, NEW t \in Threads, WriteAbortCheck(t), UNCHANGED rxVars
  PROVE  IInv'
<1> USE DEF IInv, TypeOK
<1>1. BaseTypeOK'
  BY DEF BaseTypeOK, WriteAbortCheck, CheckUninterruptible, Pcs
<1>2. RxTypeOK' /\ RxInv'
  BY RxFrame DEF WriteAbortCheck, CheckUninterruptible, BaseTypeOK
<1>3. TxTypeOK' /\ TxInv'
  BY TxFrame DEF WriteAbortCheck
<1>4. PcInv'
  BY DEF PcInv, WriteAbortCheck, CheckUninterruptible, BaseTypeOK, Closers
<1>5. CloseInv'
  BY CloseFrame DEF WriteAbortCheck, CheckUninterruptible, rxVars, txVars,
                    BaseTypeOK, Closers, CloseInv
<1>6. QED
  BY <1>1, <1>2, <1>3, <1>4, <1>5

(* A signal ends the wait of a writer, and perhaps aborts its job.          *)
LEMMA WriteInterruptedKeeps ==
  ASSUME IInv, NEW t \in Threads, WriteInterrupted(t), UNCHANGED rxVars
  PROVE  IInv'
<1> USE DEF IInv, TypeOK
<1>1. /\ pc' = [pc EXCEPT ![t] = "woken"] \/ pc' = [pc EXCEPT ![t] = "abort_check"]
      /\ txState' \in {txState, txState \cup {"SIGNAL_INTERRUPT"}}
      /\ txJob' \in {txJob, AbortedJob}
      /\ UNCHANGED <<txCount, txResult, txOld, call, signals, closeState, freed>>
  BY DEF WriteInterrupted
<1>2. call[t] = "write" /\ "WRITE" \in txState
  BY DEF WriteInterrupted, TxInv
<1>3. BaseTypeOK'
  BY <1>1 DEF BaseTypeOK, Pcs
<1>4. RxTypeOK' /\ RxInv'
  BY <1>1, <1>2, RxFrame DEF BaseTypeOK
<1>5. TxTypeOK'
  BY <1>1, AbortedJobType DEF TxTypeOK, TxBits
<1>6. PcInv'
  BY <1>1, <1>2 DEF PcInv, BaseTypeOK, Closers
<1>7. TxInv'
  BY <1>1, <1>2, AbortedJobType DEF TxInv, TxTypeOK
<1>8. CloseInv'
  BY <1>1, <1>2, AbortedJobType DEF CloseInv, CloseWaitOver, HandleClosed, rxVars,
         BaseTypeOK, Closers, TxTypeOK
<1>9. QED
  BY <1>3, <1>4, <1>5, <1>6, <1>7, <1>8

(* A writer leaves, and wakes a closer that waits for it.                   *)
LEMMA WriteFinishKeeps ==
  ASSUME IInv, NEW t \in Threads, WriteFinish(t), UNCHANGED rxVars
  PROVE  IInv'
<1> USE DEF IInv, TypeOK
<1>1. BaseTypeOK'
  BY DEF BaseTypeOK, WriteFinish, Leave, WakeUp, WakeClosers, Pcs, Calls
<1>2. RxTypeOK' /\ RxInv'
  BY RxFrame DEF WriteFinish, Leave, WakeUp, WakeClosers, BaseTypeOK, Closers
<1>3. TxTypeOK'
  BY DEF TxTypeOK, WriteFinish
<1>4. PcInv'
  BY DEF PcInv, WriteFinish, Leave, WakeUp, WakeClosers, BaseTypeOK, Closers
<1>5. TxInv'
  BY DEF TxInv, WriteFinish, Leave, BaseTypeOK
<1>6. CloseInv'
  BY DEF CloseInv, CloseWaitOver, HandleClosed, WriteFinish, Leave, WakeUp, WakeClosers,
         BaseTypeOK, Closers, rxVars
<1>7. QED
  BY <1>1, <1>2, <1>3, <1>4, <1>5, <1>6

(* canSend() comes and goes within one locked stretch.                      *)
LEMMA SendKeeps ==
  ASSUME IInv, NEW t \in Threads, Send(t), UNCHANGED rxVars
  PROVE  IInv'
<1> USE DEF IInv, TypeOK
<1>1. CASE UNCHANGED <<txState, txJob, call, pc>>
  BY <1>1, StutterKeeps DEF Send, vars, baseVars, txVars
<1>2. CASE ~UNCHANGED <<txState, txJob, call, pc>>
  <2>1. PICK k \in 1 .. TxMax :
          /\ Accepts(k)
          /\ txState' = {"SEND"}
          /\ txJob' = AcceptedJob(k, FALSE)
          /\ UNCHANGED <<call, pc>>
    BY <1>2 DEF Send, TxRefused
  <2>2. /\ MayCall(t, "send") /\ "WRITE" \notin txState
        /\ UNCHANGED <<txCount, txResult, txOld, signals, closeState, freed>>
    BY DEF Send
  <2>3. BaseTypeOK'
    BY <2>1, <2>2 DEF BaseTypeOK
  <2>4. RxTypeOK' /\ RxInv'
    BY <2>1, RxFrame
  <2>5. TxTypeOK'
    BY <2>1, <2>2, AcceptedJobType DEF TxTypeOK, TxBits
  <2>6. PcInv'
    BY <2>1 DEF PcInv
  <2>7. TxInv'
    BY <2>1, <2>2, AcceptedJobType DEF TxInv, TxTypeOK
  <2>8. CloseInv'
    BY <2>1, <2>2 DEF CloseInv, CloseWaitOver, HandleClosed, MayCall, Closers, rxVars
  <2>9. QED
    BY <2>3, <2>4, <2>5, <2>6, <2>7, <2>8
<1>3. QED
  BY <1>1, <1>2

(* IOCTL_ESDCAN_TX_ABORT.                                                   *)
LEMMA AbortTxKeeps ==
  ASSUME IInv, NEW t \in Threads, AbortTx(t), UNCHANGED rxVars
  PROVE  IInv'
<1> USE DEF IInv, TypeOK
<1>1. BaseTypeOK'
  BY DEF BaseTypeOK, AbortTx, baseVars
<1>2. RxTypeOK' /\ RxInv'
  BY RxFrame DEF AbortTx, baseVars
<1>3. TxTypeOK'
  BY AbortedJobType DEF AbortTx, TxTypeOK
<1>4. PcInv'
  BY DEF PcInv, AbortTx, baseVars
<1>5. TxInv'
  BY AbortedJobType DEF TxInv, TxTypeOK, AbortTx, baseVars
<1>6. CloseInv'
  BY AbortedJobType, CloseFrame DEF AbortTx, baseVars, rxVars, TxTypeOK,
         CloseInv
<1>7. QED
  BY <1>1, <1>2, <1>3, <1>4, <1>5, <1>6

(* A frame of the job goes on the bus.                                      *)
LEMMA NucTxSentKeeps ==
  ASSUME IInv, NucTxSent, UNCHANGED rxVars
  PROVE  IInv'
<1> USE DEF IInv, TypeOK
<1>1. /\ txJob'.live /\ txJob'.left = txJob.left - 1 /\ txJob'.sent = txJob.sent + 1
      /\ txJob.left \in 1 .. TxMax /\ txJob.sent \in 0 .. TxMax
  BY DEF NucTxSent, TxTypeOK, TxJobs
<1>2. txJob' \in TxJobs
  <2>1. txJob.left - 1 \in 0 .. TxMax /\ txJob.sent + 1 \in 0 .. TxMax
    BY <1>1 DEF TxInv
  <2>2. QED
    BY <2>1 DEF NucTxSent, TxTypeOK, TxJobs
<1>3. BaseTypeOK'
  BY DEF BaseTypeOK, NucTxSent, baseVars
<1>4. RxTypeOK' /\ RxInv'
  BY RxFrame DEF NucTxSent, baseVars
<1>5. TxTypeOK'
  BY <1>2 DEF NucTxSent, TxTypeOK
<1>6. PcInv'
  BY DEF PcInv, NucTxSent, baseVars
<1>7. TxInv'
  BY <1>1 DEF TxInv, NucTxSent, baseVars
<1>8. CloseInv'
  BY CloseFrame DEF NucTxSent, baseVars, rxVars, CloseInv
<1>9. QED
  BY <1>3, <1>4, <1>5, <1>6, <1>7, <1>8

(* The transmit job ends.                                                   *)
LEMMA NucTxDoneKeeps ==
  ASSUME IInv, NucTxDone, UNCHANGED rxVars
  PROVE  IInv'
<1> USE DEF IInv, TypeOK
<1>1. /\ txJob.live /\ txJob' = NoTxJob /\ txResult' \in TxResults
      /\ txState' = TxDoneState(txJob.sent) /\ txCount' = TxDoneCount(txJob.sent)
      /\ pc' = TxDoneWakes(pc)
      /\ UNCHANGED <<txOld, call, signals, closeState, freed>>
  BY DEF NucTxDone, TxDone, TxOutcomes
<1>2. /\ txState' \subseteq txState \cup {"ABORT"}
      /\ txState' = {} \/ txState \ {"SIGNAL_INTERRUPT"} \subseteq txState'
      /\ ("WRITE" \in txState') <=> ("WRITE" \in txState)
      /\ txState' # {} => txState # {}
  BY <1>1 DEF TxDoneState, TxInv
<1>3. txCount' \in 0 .. TxMax
  BY <1>1 DEF TxDoneCount, TxTypeOK, TxJobs
<1>4. pc' \in {pc, WakeUp({"write"}, pc), WakeUpInterruptible({"write"}, pc)}
  BY <1>1 DEF TxDoneWakes
<1>5. /\ pc' \in [Threads -> Pcs]
      /\ \A u \in Threads : pc'[u] # pc[u] =>
           /\ call[u] = "write"
           /\ \/ pc[u] = "sleep" /\ pc'[u] = "check"
              \/ pc[u] = "abort_sleep" /\ pc'[u] = "abort_check"
  BY <1>4 DEF WakeUp, WakeUpInterruptible, BaseTypeOK, Pcs
<1>6. ~txJob'.live
  BY <1>1 DEF NoTxJob
<1>7. BaseTypeOK'
  BY <1>1, <1>5 DEF BaseTypeOK
<1>8. RxTypeOK' /\ RxInv'
  BY <1>1, <1>5, RxFrame
<1>9. TxTypeOK'
  BY <1>1, <1>2, <1>3, NoTxJobType DEF TxTypeOK, TxBits
<1>10. PcInv'
  BY <1>1, <1>5 DEF PcInv, Closers
<1>11. TxInv'
  BY <1>1, <1>2, NoTxJobType DEF TxInv
<1>12. CloseInv'
  BY <1>1, <1>2, <1>5, <1>6 DEF CloseInv, CloseWaitOver, HandleClosed, rxVars,
                                Closers
<1>13. QED
  BY <1>7, <1>8, <1>9, <1>10, <1>11, <1>12

-----------------------------------------------------------------------------
(* A signal reaches a thread in a blocking call.                            *)
LEMMA SignalKeeps ==
  ASSUME IInv, NEW t \in Threads, Signal(t), UNCHANGED <<rxVars, txVars>>
  PROVE  IInv'
<1> USE DEF IInv, TypeOK
<1>1. BaseTypeOK'
  BY DEF BaseTypeOK, Signal, Pcs
<1>2. RxTypeOK'
  BY DEF RxTypeOK, rxVars
<1>3. TxTypeOK' /\ TxInv'
  BY TxFrame DEF Signal
<1>4. PcInv'
  BY DEF PcInv, Signal, BaseTypeOK, Closers
<1>5. RxInv'
  BY DEF RxInv, OneReader, ShadowAccounted, RxWaitOver, Signal, BaseTypeOK,
         rxVars
<1>6. CloseInv'
  BY CloseFrame DEF Signal, rxVars, txVars, BaseTypeOK, Closers, CloseInv
<1>7. QED
  BY <1>1, <1>2, <1>3, <1>4, <1>5, <1>6

(* A closer looks at its condition.                                         *)
LEMMA CloseCheckKeeps ==
  ASSUME IInv, NEW t \in Threads, CloseCheck(t)
  PROVE  IInv'
<1> USE DEF IInv, TypeOK
<1>1. BaseTypeOK'
  BY DEF BaseTypeOK, CloseCheck, CheckUninterruptible, Pcs
<1>2. RxTypeOK' /\ RxInv'
  BY RxFrame DEF CloseCheck, CheckUninterruptible, BaseTypeOK, Closers
<1>3. TxTypeOK' /\ TxInv'
  BY TxFrame DEF CloseCheck
<1>4. PcInv'
  BY DEF PcInv, CloseCheck, CheckUninterruptible, BaseTypeOK, Closers
<1>5. CloseInv'
  BY DEF CloseInv, CloseWaitOver, HandleClosed, CloseCheck, rxVars, txVars,
         CheckUninterruptible, BaseTypeOK, Closers
<1>6. QED
  BY <1>1, <1>2, <1>3, <1>4, <1>5

(* A closer leaves; the release of the file frees the handle.               *)
LEMMA CloseFinishKeeps ==
  ASSUME IInv, NEW t \in Threads, CloseFinish(t)
  PROVE  IInv'
<1> USE DEF IInv, TypeOK
<1>1. /\ call[t] \in Closers /\ HandleClosed /\ CloseWaitOver
      /\ rxState = {} /\ txState = {}
  BY DEF CloseFinish, CloseInv, CloseWaitOver
<1>2. \A u \in Threads : call[u] # "read" /\ call[u] # "write"
  BY <1>1 DEF RxInv, OneReader, TxInv
<1>3. \A u \in Threads : call'[u] = "none"
  BY <1>1, <1>2 DEF CloseFinish, Leave, BaseTypeOK, Calls, Closers, CloseInv
<1>4. BaseTypeOK'
  BY DEF BaseTypeOK, CloseFinish, Leave, Pcs, Calls
<1>5. RxTypeOK' /\ RxInv'
  BY <1>1, <1>2, <1>3, RxFrame DEF CloseFinish
<1>6. TxTypeOK' /\ TxInv'
  BY <1>2, <1>3, TxFrame DEF CloseFinish
<1>7. PcInv'
  BY DEF PcInv, CloseFinish, Leave, BaseTypeOK, Closers
<1>8. CloseInv'
  BY <1>1, <1>3 DEF CloseInv, CloseWaitOver, HandleClosed, CloseFinish, rxVars,
                    txVars, Closers
<1>9. QED
  BY <1>4, <1>5, <1>6, <1>7, <1>8

(* The nucleus makes its last callback.                                     *)
LEMMA NucCloseDoneKeeps ==
  ASSUME IInv, NucCloseDone
  PROVE  IInv'
<1> USE DEF IInv, TypeOK
<1>1. BaseTypeOK'
  BY DEF BaseTypeOK, NucCloseDone, WakeUp, Pcs
<1>2. RxTypeOK' /\ RxInv'
  BY RxFrame DEF NucCloseDone, WakeUp, Closers, BaseTypeOK
<1>3. TxTypeOK' /\ TxInv'
  BY TxFrame DEF NucCloseDone
<1>4. PcInv'
  BY DEF PcInv, NucCloseDone, WakeUp, BaseTypeOK, Closers
<1>5. CloseInv'
  BY DEF CloseInv, CloseWaitOver, HandleClosed, NucCloseDone, WakeUp, rxVars,
         txVars, BaseTypeOK, Closers
<1>6. QED
  BY <1>1, <1>2, <1>3, <1>4, <1>5

(***************************************************************************)
(* The first half of ocb_destroy. With a receive job in flight, rx.state   *)
(* is {READ, CLOSING} when the nucleus ends the job, else just marked.     *)
(***************************************************************************)
LEMMA StartCloseRx ==
  ASSUME IInv, NEW t \in Threads, NEW c \in Closers, StartClose(t, c),
         call[t] = "none"
  PROVE  /\ RxTypeOK'
         /\ UNCHANGED shadow /\ ~rxJob'.live /\ rxJob'.got = 0
         /\ rxState = {} => rxCount' = 0
         /\ rxState # {} => rxCount' = shadow
         /\ rxState' = {} <=> rxState = {}
         /\ rxState' # {} => "CLOSING" \in rxState'
         /\ rxState' # {} => "READ" \in rxState'
         /\ rxState' \subseteq {"READ", "ABORT", "CLOSING"}
         /\ pc'[t] = "check"
         /\ pc' \in [Threads -> Pcs]
         /\ \A u \in Threads \ {t} : pc'[u] # pc[u] =>
              call[u] = "read" /\ pc[u] = "sleep" /\ pc'[u] = "check"
         /\ \A u \in Threads : call[u] = "read" => pc'[u] # "sleep"
<1> USE DEF IInv, TypeOK
<1> DEFINE start == [pc EXCEPT ![t] = "check"]
<1>0. UNCHANGED shadow
  BY DEF StartClose
<1>1. CASE rxJob.live
  <2>1. /\ rxState = {"READ"} /\ shadow = rxJob.got /\ rxJob.got \in 0 .. RxMax
    BY <1>1 DEF RxInv, OneReader, ShadowAccounted, RxTypeOK
  <2>2. Closing(rxState) = {"READ", "CLOSING"}
    BY <2>1 DEF Closing
  <2>3. RxDone("ABORTED", rxJob.got, {"READ", "CLOSING"}, start)
    BY <1>1, <2>2 DEF StartClose, RxAbort
  <2>4. /\ rxJob' = NoRxJob /\ rxResult' = "ABORTED" /\ rxCount' = rxJob.got
        /\ rxState' \in {{"READ", "CLOSING", "ABORT"}, {"READ", "CLOSING"}}
        /\ pc' = WakeUpInterruptible({"read"}, start)
    BY <2>3, RxDoneStates, RxDoneWakeUps DEF RxDone
  <2>5. RxTypeOK'
    BY <1>0, <2>1, <2>4, RxJobTypes DEF RxTypeOK, RxBits, Results
  <2>6. /\ pc'[t] = "check" /\ pc' \in [Threads -> Pcs]
        /\ \A u \in Threads \ {t} : pc'[u] # pc[u] =>
             call[u] = "read" /\ pc[u] = "sleep" /\ pc'[u] = "check"
        /\ \A u \in Threads : call[u] = "read" => pc'[u] # "sleep"
    BY <2>4 DEF WakeUpInterruptible, BaseTypeOK, Pcs
  <2>7. QED
    BY <1>0, <2>1, <2>4, <2>5, <2>6 DEF NoRxJob
<1>2. CASE ~rxJob.live
  <2>1. /\ rxState' = Closing(rxState) /\ pc' = start
        /\ UNCHANGED <<rxCount, rxResult, rxJob>>
    BY <1>2 DEF StartClose, RxAbort
  <2>2. RxTypeOK'
    BY <1>0, <2>1 DEF RxTypeOK, Closing, RxBits
  <2>3. /\ pc'[t] = "check" /\ pc' \in [Threads -> Pcs]
        /\ \A u \in Threads \ {t} : pc'[u] = pc[u]
    BY <2>1 DEF BaseTypeOK, Pcs
  <2>4. /\ rxJob.got = 0
        /\ rxState = {} => rxCount = 0
        /\ rxState # {} => rxCount = shadow
    BY <1>2 DEF RxInv, OneReader, ShadowAccounted
  <2>5. \A u \in Threads : call[u] = "read" => pc'[u] # "sleep"
    BY <1>2, <2>3 DEF RxInv
  <2>6. QED
    BY <1>0, <1>2, <2>1, <2>2, <2>3, <2>4, <2>5 DEF Closing, RxInv
<1>3. QED
  BY <1>1, <1>2

LEMMA StartCloseKeeps ==
  ASSUME IInv, NEW t \in Threads, NEW c \in Closers, StartClose(t, c),
         call[t] = "none", ~HandleClosed, ~freed
  PROVE  IInv'
<1> USE DEF IInv, TypeOK
<1>1. /\ call' = [call EXCEPT ![t] = c]
      /\ closeState' = closeState \cup {"HANDLE_CLOSED"}
      /\ txState' = Closing(txState) /\ txJob' = AbortedJob
      /\ UNCHANGED <<shadow, txCount, txResult, txOld, signals, freed>>
  BY DEF StartClose, Enter
<1>2. \A u \in Threads : /\ call[u] \notin Closers
                         /\ call'[u] = IF u = t THEN c ELSE call[u]
  BY <1>1 DEF CloseInv, BaseTypeOK
<1>3. /\ txState' = {} <=> txState = {}
      /\ txState' # {} => "CLOSING" \in txState'
      /\ txState' \subseteq txState \cup {"CLOSING"} /\ txState \subseteq txState'
  BY <1>1 DEF Closing
<1>4. BaseTypeOK'
  BY <1>1, <1>2, StartCloseRx DEF BaseTypeOK, Calls, Closers
<1>5. RxTypeOK'
  BY StartCloseRx
<1>6. TxTypeOK'
  BY <1>1, <1>3, AbortedJobType DEF TxTypeOK, TxBits
<1>7. PcInv'
  BY <1>2, StartCloseRx DEF PcInv, Closers
<1>8. RxInv'
  <2>1. OneReader' /\ ShadowAccounted'
    BY <1>2, StartCloseRx DEF RxInv, OneReader, ShadowAccounted, Closers
  <2>2. rxState' = {} => rxCount' = 0
    BY StartCloseRx
  <2>3. \A u \in Threads : call'[u] = "read" =>
          /\ pc'[u] # "sleep"
          /\ RxWaitOver'
    BY <1>2, <2>1, StartCloseRx DEF RxInv, OneReader, RxWaitOver, Closers
  <2>4. QED
    BY <2>1, <2>2, <2>3, StartCloseRx DEF RxInv
<1>9. TxInv'
  BY <1>1, <1>2, <1>3, AbortedJobType DEF TxInv, TxTypeOK, Closers
<1>10. CloseInv'
  BY <1>1, <1>2, <1>3, StartCloseRx DEF CloseInv, CloseWaitOver, HandleClosed,
                                        Closers
<1>11. QED
  BY <1>4, <1>5, <1>6, <1>7, <1>8, <1>9, <1>10

(* IOCTL_ESDCAN_DESTROY.                                                   *)
LEMMA DestroyKeeps ==
  ASSUME IInv, NEW t \in Threads, Destroy(t)
  PROVE  IInv'
BY StartCloseKeeps DEF Destroy, MayCall, Closers

(* The release of the file, before or after a canClose().                  *)
LEMMA ReleaseKeeps ==
  ASSUME IInv, NEW t \in Threads, Release(t)
  PROVE  IInv'
<1>1. call[t] = "none" /\ ~freed
  BY DEF Release
<1>2. CASE ~HandleClosed
  BY <1>1, <1>2, StartCloseKeeps DEF Release, Closers
<1>3. CASE HandleClosed
  <2> USE DEF IInv, TypeOK
  <2>1. /\ freed' = TRUE
        /\ UNCHANGED <<call, pc, signals, closeState, rxVars, txVars>>
    BY <1>3 DEF Release
  <2>2. BaseTypeOK' /\ PcInv'
    BY <2>1 DEF BaseTypeOK, PcInv
  <2>3. RxTypeOK' /\ RxInv'
    BY <2>1, RxFrame
  <2>4. TxTypeOK' /\ TxInv'
    BY <2>1, TxFrame
  <2>5. CloseInv'
    BY <1>3, <2>1 DEF Release, CloseInv, CloseWaitOver, HandleClosed, rxVars, txVars
  <2>6. QED
    BY <2>2, <2>3, <2>4, <2>5
<1>4. QED
  BY <1>2, <1>3

-----------------------------------------------------------------------------
(* Every step of the driver and of the nucleus keeps the invariant.        *)
LEMMA NextKeepsIInv ==
  ASSUME IInv, [Next]_vars
  PROVE  IInv'
<1>1. ASSUME NEW t \in Threads, RxCall(t) \/ RxStep(t), UNCHANGED txVars
      PROVE  IInv'
  BY <1>1, ReadKeeps, TakeKeeps, AbortRxKeeps, ReadCheckKeeps,
     ReadInterruptedKeeps, ReadAbortCheckKeeps, ReadFinishKeeps
  DEF RxCall, RxStep
<1>2. ASSUME NEW t \in Threads, TxCall(t) \/ TxStep(t), UNCHANGED rxVars
      PROVE  IInv'
  BY <1>2, WriteKeeps, SendKeeps, AbortTxKeeps, WriteCheckKeeps,
     WriteInterruptedKeeps, WriteAbortCheckKeeps, WriteFinishKeeps
  DEF TxCall, TxStep
<1>3. ASSUME NEW t \in Threads, Signal(t), UNCHANGED <<rxVars, txVars>>
      PROVE  IInv'
  BY <1>3, SignalKeeps
<1>4. ASSUME NEW t \in Threads, Destroy(t) \/ Release(t) \/ CloseStep(t)
      PROVE  IInv'
  BY <1>4, DestroyKeeps, ReleaseKeeps, CloseCheckKeeps, CloseFinishKeeps
  DEF CloseStep
<1>5. CASE (NucRxPut \/ NucRxDone) /\ UNCHANGED txVars
  BY <1>5, NucRxPutKeeps, NucRxDoneKeeps
<1>6. CASE (NucTxSent \/ NucTxDone) /\ UNCHANGED rxVars
  BY <1>6, NucTxSentKeeps, NucTxDoneKeeps
<1>7. CASE NucCloseDone
  BY <1>7, NucCloseDoneKeeps
<1>8. CASE Gone \/ UNCHANGED vars
  BY <1>8, StutterKeeps DEF Gone
<1>9. QED
  BY <1>1, <1>2, <1>3, <1>4, <1>5, <1>6, <1>7, <1>8 DEF Next

(* The inductive invariant: what the pc of every thread, the two state     *)
(* words, the jobs of the nucleus and close_state have to do with each     *)
(* other.                                                                  *)
THEOREM Invariance == Spec => []IInv
BY InitIInv, NextKeepsIInv, PTL DEF Spec

(* Every variable of the handle keeps its type; rx.cm_count and the shadow *)
(* buffer never exceed the size of a read.                                 *)
THEOREM TypeCorrect == Spec => []TypeOK
<1>1. IInv => TypeOK
  BY DEF IInv
<1>2. QED
  BY <1>1, Invariance, PTL

(* One reader at a time, and rx.state is set exactly while it is inside.   *)
THEOREM ReaderIsAlone == Spec => []OneReader
<1>1. IInv => OneReader
  BY DEF IInv, RxInv
<1>2. QED
  BY <1>1, Invariance, PTL

(* No received frame is lost or returned twice.                            *)
THEOREM FramesAccounted == Spec => []ShadowAccounted
<1>1. IInv => ShadowAccounted
  BY DEF IInv, RxInv
<1>2. QED
  BY <1>1, Invariance, PTL

(* esdcan_rx_done always finds the reader it is meant for.                 *)
THEOREM RxDoneNeverSpurious == Spec => []RxJobHasReader
<1>1. IInv => RxJobHasReader
  BY DEF IInv, RxInv, RxJobHasReader, OneReader, Waiting
<1>2. QED
  BY <1>1, Invariance, PTL

(* A reader is never asleep after its result has come.                     *)
THEOREM ReaderIsWoken == Spec => []NoLostReaderWakeup
<1>1. IInv => NoLostReaderWakeup
  BY DEF IInv, RxInv, NoLostReaderWakeup, RxWaitOver
<1>2. QED
  BY <1>1, Invariance, PTL

(* A closer is never asleep after the last of its three conditions holds.  *)
THEOREM CloserIsWoken == Spec => []NoLostCloserWakeup
<1>1. IInv => NoLostCloserWakeup
  BY DEF IInv, CloseInv, NoLostCloserWakeup
<1>2. QED
  BY <1>1, Invariance, PTL

(* After canClose() nobody is inside and the nucleus has nothing to do.    *)
THEOREM CloseIsFinal == Spec => []ClosedIsQuiet
<1>1. IInv => ClosedIsQuiet
  BY DEF IInv, TypeOK, BaseTypeOK, Calls, Closers, RxInv, OneReader, TxInv,
         CloseInv, CloseWaitOver, ClosedIsQuiet
<1>2. QED
  BY <1>1, Invariance, PTL

(* The memory of a handle is freed after its last use.                     *)
THEOREM NoUseAfterFree == Spec => []FreedIsDead
<1>1. IInv => FreedIsDead
  BY DEF IInv, CloseInv, CloseWaitOver, FreedIsDead, Closers
<1>2. QED
  BY <1>1, Invariance, PTL

=============================================================================

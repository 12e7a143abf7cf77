------------------------- MODULE OcbRefinementProofs -------------------------
(***************************************************************************)
(* OcbHandle implements HandleContract under the mapping of OcbHandle:     *)
(* every step of the driver, of the nucleus and of a signal is one step of *)
(* the contract, or changes nothing an application can rely on.            *)
(***************************************************************************)
EXTENDS OcbHandleProofs

(* A step that moves nobody into or out of a call.                         *)
LEMMA InvisibleStep ==
  ASSUME UNCHANGED <<call, closeState, freed, shadow>>
  PROVE  UNCHANGED Contract!cvars
BY DEF Contract!cvars, Phase, Inside, Held, HandleClosed

(* Before any close and after any close there is no closer.                *)
LEMMA PhaseOfState ==
  ASSUME IInv
  PROVE  /\ ~HandleClosed => Phase = "open"
         /\ ~freed /\ HandleClosed /\ (\E t \in Threads : call[t] \in Closers)
              => Phase = "closing"
         /\ ~freed /\ HandleClosed /\ (\A t \in Threads : call[t] = "none")
              => Phase = "closed"
BY DEF Phase, IInv, CloseInv, Closers

LEMMA InitRefines == Init => Contract!Init
BY DEF Init, BaseInit, RxInit, Contract!Init, Phase, HandleClosed,
       Inside, Held

LEMMA ReadRefines ==
  ASSUME IInv, NEW t \in Threads, Read(t)
  PROVE  Contract!BeginRead(t) \/ UNCHANGED Contract!cvars
<1> USE DEF IInv, TypeOK
<1>1. /\ Inside("read") = {} /\ shadow' = 0
      /\ UNCHANGED <<closeState, freed>>
  BY DEF Read, RxFree, RxReset, RxInv, OneReader, Inside
<1>2. CASE UNCHANGED call
  BY <1>1, <1>2 DEF Contract!cvars, Phase, Inside, Held, HandleClosed
<1>3. CASE ~UNCHANGED call
  <2>1. call' = [call EXCEPT ![t] = "read"] /\ call[t] = "none" /\ ~HandleClosed
    BY <1>3 DEF Read, RxFree, RxReset, Enter, MayCall
  <2>2. Phase = "open" /\ Phase' = "open"
    BY <1>1, <2>1, PhaseOfState DEF Phase, HandleClosed, MayCall, Read, RxFree, RxReset
  <2>3. Inside("read") = {} /\ t \notin Inside("write")
    BY <2>1 DEF Inside, Read, RxFree, RxReset, RxInv, OneReader
  <2>4. Inside("read")' = {t} /\ Inside("write")' = Inside("write")
    BY <2>1, <2>3 DEF Inside, BaseTypeOK
  <2>5. Held = 0 /\ Held' = 0
    BY <1>1 DEF Held
  <2>6. QED
    BY <2>2, <2>3, <2>4, <2>5 DEF Contract!BeginRead
<1>4. QED
  BY <1>2, <1>3

LEMMA ReadFinishRefines ==
  ASSUME IInv, NEW t \in Threads, ReadFinish(t)
  PROVE  Contract!EndRead(t)
<1> USE DEF IInv, TypeOK
<1>1. /\ call[t] = "read" /\ call' = [call EXCEPT ![t] = "none"]
      /\ UNCHANGED <<closeState, freed>>
  BY DEF ReadFinish, Leave
<1>2. Inside("read") = {t} /\ Inside("read")' = {}
  BY <1>1 DEF Inside, RxInv, OneReader, BaseTypeOK
<1>3. Inside("write")' = Inside("write")
  BY <1>1 DEF Inside, BaseTypeOK
<1>4. Phase' = Phase
  BY <1>1 DEF Phase, HandleClosed, Closers, BaseTypeOK
<1>5. Held' = 0
  BY <1>2 DEF Held
<1>6. QED
  BY <1>2, <1>3, <1>4, <1>5 DEF Contract!EndRead

LEMMA NucRxPutRefines ==
  ASSUME IInv, NucRxPut
  PROVE  Contract!Receive
<1> USE DEF IInv, TypeOK
<1>1. UNCHANGED <<call, closeState, freed>> /\ shadow' = shadow + 1
  BY DEF NucRxPut, baseVars
<1>2. shadow < RxMax
  BY DEF NucRxPut, RxInv, OneReader, ShadowAccounted
<1>3. Inside("read") # {}
  BY DEF NucRxPut, RxInv, OneReader, Inside
<1>4. Phase = "open"
  BY PhaseOfState DEF NucRxPut, CloseInv
<1>5. UNCHANGED <<Phase, Inside("read"), Inside("write")>>
  BY <1>1 DEF Phase, HandleClosed, Inside
<1>6. QED
  BY <1>1, <1>2, <1>3, <1>4, <1>5 DEF Contract!Receive, Held

LEMMA WriteRefines ==
  ASSUME IInv, NEW t \in Threads, Write(t), UNCHANGED rxVars
  PROVE  Contract!BeginWrite(t) \/ UNCHANGED Contract!cvars
<1> USE DEF IInv, TypeOK
<1>1. UNCHANGED <<shadow, closeState, freed>>
  BY DEF Write, TxFreeForWrite, rxVars
<1>2. CASE UNCHANGED call
  BY <1>1, <1>2, InvisibleStep
<1>3. CASE ~UNCHANGED call
  <2>1. call' = [call EXCEPT ![t] = "write"] /\ call[t] = "none" /\ ~HandleClosed
    BY <1>3 DEF Write, TxFreeForWrite, TxRefused, Enter, MayCall
  <2>2. Phase = "open" /\ Phase' = "open"
    BY <1>1, <2>1, PhaseOfState DEF Phase, HandleClosed, MayCall, Write, TxFreeForWrite
  <2>3. Inside("write") = {} /\ t \notin Inside("read")
    BY <2>1 DEF Inside, Write, TxFreeForWrite, TxInv
  <2>4. Inside("write")' = {t} /\ Inside("read")' = Inside("read")
    BY <2>1, <2>3 DEF Inside, BaseTypeOK
  <2>5. QED
    BY <1>1, <2>2, <2>3, <2>4 DEF Contract!BeginWrite, Held
<1>4. QED
  BY <1>2, <1>3

LEMMA WriteFinishRefines ==
  ASSUME IInv, NEW t \in Threads, WriteFinish(t), UNCHANGED rxVars
  PROVE  Contract!EndWrite(t)
<1> USE DEF IInv, TypeOK
<1>1. /\ call[t] = "write" /\ call' = [call EXCEPT ![t] = "none"]
      /\ UNCHANGED <<shadow, closeState, freed>>
  BY DEF WriteFinish, Leave, rxVars
<1>2. Inside("write") = {t} /\ Inside("write")' = {}
  BY <1>1 DEF Inside, TxInv, BaseTypeOK
<1>3. Inside("read")' = Inside("read")
  BY <1>1 DEF Inside, BaseTypeOK
<1>4. Phase' = Phase
  BY <1>1 DEF Phase, HandleClosed, Closers, BaseTypeOK
<1>5. QED
  BY <1>1, <1>2, <1>3, <1>4 DEF Contract!EndWrite, Held

LEMMA StartCloseRefines ==
  ASSUME IInv, NEW t \in Threads, NEW c \in Closers, StartClose(t, c),
         call[t] = "none", ~HandleClosed, ~freed
  PROVE  Contract!BeginClose
<1> USE DEF IInv, TypeOK
<1>1. /\ call' = [call EXCEPT ![t] = c]
      /\ closeState' = closeState \cup {"HANDLE_CLOSED"}
      /\ UNCHANGED <<shadow, freed>>
  BY DEF StartClose, Enter
<1>2. Phase = "open"
  BY PhaseOfState
<1>3. Phase' = "closing"
  BY <1>1 DEF Phase, HandleClosed, BaseTypeOK
<1>4. UNCHANGED <<Inside("read"), Inside("write")>>
  BY <1>1 DEF Inside, Closers, BaseTypeOK
<1>5. QED
  BY <1>1, <1>2, <1>3, <1>4 DEF Contract!BeginClose, Held

LEMMA ReleaseRefines ==
  ASSUME IInv, NEW t \in Threads, Release(t)
  PROVE  Contract!BeginClose \/ Contract!Free
<1>1. ~freed /\ \A u \in Threads : call[u] = "none"
  BY DEF Release
<1>2. CASE ~HandleClosed
  BY <1>1, <1>2, StartCloseRefines DEF Release, Closers
<1>3. CASE HandleClosed
  <2>1. freed' = TRUE /\ UNCHANGED <<call, closeState, shadow>>
    BY <1>3 DEF Release, rxVars
  <2>2. Phase = "closed" /\ Phase' = "freed"
    BY <1>1, <1>3, <2>1, PhaseOfState DEF Phase
  <2>3. UNCHANGED <<Inside("read"), Inside("write")>>
    BY <2>1 DEF Inside
  <2>4. QED
    BY <2>1, <2>2, <2>3 DEF Contract!Free, Held
<1>4. QED
  BY <1>2, <1>3

LEMMA CloseFinishRefines ==
  ASSUME IInv, NEW t \in Threads, CloseFinish(t)
  PROVE  Contract!EndClose
<1> USE DEF IInv, TypeOK
<1>1. /\ call[t] \in Closers /\ HandleClosed /\ CloseWaitOver /\ ~freed
      /\ rxState = {} /\ txState = {}
  BY DEF CloseFinish, CloseInv, CloseWaitOver, Closers
<1>2. /\ call' = [call EXCEPT ![t] = "none"]
      /\ freed' = (call[t] = "release") /\ UNCHANGED <<closeState, shadow>>
  BY DEF CloseFinish, Leave, rxVars
<1>3. Phase = "closing"
  BY <1>1, PhaseOfState
<1>4. \A u \in Threads : call[u] # "read" /\ call[u] # "write"
  BY <1>1 DEF RxInv, OneReader, TxInv
<1>5. \A u \in Threads : call'[u] = "none"
  BY <1>1, <1>2, <1>4 DEF BaseTypeOK, Calls, Closers, CloseInv
<1>6. Phase' \in {"closed", "freed"}
  BY <1>1, <1>2, <1>5 DEF Phase, HandleClosed, Closers
<1>7. /\ Inside("read") = {} /\ Inside("write") = {}
      /\ UNCHANGED <<Inside("read"), Inside("write")>>
  BY <1>4, <1>5 DEF Inside
<1>8. QED
  BY <1>2, <1>3, <1>6, <1>7 DEF Contract!EndClose, Held

LEMMA NextRefines ==
  ASSUME IInv, [Next]_vars
  PROVE  [Contract!Next]_(Contract!cvars)
<1> USE DEF Contract!Next
<1>1. ASSUME NEW t \in Threads, RxCall(t) \/ RxStep(t), UNCHANGED txVars
      PROVE  [Contract!Next]_(Contract!cvars)
  <2>1. CASE Read(t)
    BY <2>1, ReadRefines
  <2>2. CASE ReadFinish(t)
    BY <2>2, ReadFinishRefines
  <2>3. CASE Take(t)
    <3>1. Inside("read") = {} /\ UNCHANGED <<call, closeState, freed>>
      BY <2>3 DEF Take, RxFree, RxReset, IInv, RxInv, OneReader, Inside
    <3>2. QED
      BY <3>1 DEF Contract!cvars, Phase, Inside, Held, HandleClosed
  <2>4. CASE AbortRx(t) \/ ReadCheck(t) \/ ReadInterrupted(t) \/ ReadAbortCheck(t)
    BY <2>4, InvisibleStep
    DEF AbortRx, ReadCheck, ReadInterrupted, ReadAbortCheck, rxVars
  <2>5. QED
    BY <1>1, <2>1, <2>2, <2>3, <2>4 DEF RxCall, RxStep
<1>2. ASSUME NEW t \in Threads, TxCall(t) \/ TxStep(t), UNCHANGED rxVars
      PROVE  [Contract!Next]_(Contract!cvars)
  <2>1. CASE Write(t)
    BY <1>2, <2>1, WriteRefines
  <2>2. CASE WriteFinish(t)
    BY <1>2, <2>2, WriteFinishRefines
  <2>3. CASE \/ Send(t) \/ AbortTx(t) \/ WriteCheck(t)
             \/ WriteInterrupted(t) \/ WriteAbortCheck(t)
    <3>1. UNCHANGED <<call, closeState, freed>>
      BY <2>3 DEF Send, TxRefused, AbortTx, WriteCheck, WriteInterrupted,
                  WriteAbortCheck, baseVars
    <3>2. QED
      BY <1>2, <3>1, InvisibleStep DEF rxVars
  <2>4. QED
    BY <1>2, <2>1, <2>2, <2>3 DEF TxCall, TxStep
<1>3. ASSUME NEW t \in Threads, Signal(t), UNCHANGED <<rxVars, txVars>>
      PROVE  UNCHANGED Contract!cvars
  BY <1>3, InvisibleStep DEF Signal, rxVars
<1>4. ASSUME NEW t \in Threads, Destroy(t) \/ Release(t) \/ CloseStep(t)
      PROVE  [Contract!Next]_(Contract!cvars)
  <2>1. CASE Destroy(t)
    BY <2>1, StartCloseRefines DEF Destroy, MayCall, Closers
  <2>2. CASE Release(t)
    BY <2>2, ReleaseRefines
  <2>3. CASE CloseFinish(t)
    BY <2>3, CloseFinishRefines
  <2>4. CASE CloseCheck(t)
    BY <2>4, InvisibleStep DEF CloseCheck, rxVars
  <2>5. QED
    BY <1>4, <2>1, <2>2, <2>3, <2>4 DEF CloseStep
<1>5. CASE NucRxPut
  BY <1>5, NucRxPutRefines
<1>6. CASE NucRxDone \/ NucCloseDone
  <2>1. UNCHANGED <<call, freed, shadow>>
    BY <1>6 DEF NucRxDone, NucCloseDone, rxVars
  <2>2. HandleClosed' <=> HandleClosed
    BY <1>6 DEF NucRxDone, NucCloseDone, HandleClosed
  <2>3. QED
    BY <2>1, <2>2 DEF Contract!cvars, Phase, Inside, Held
<1>7. CASE (NucTxSent \/ NucTxDone) /\ UNCHANGED rxVars
  BY <1>7, InvisibleStep DEF NucTxSent, NucTxDone, rxVars, baseVars
<1>8. CASE Gone \/ UNCHANGED vars
  BY <1>8, InvisibleStep DEF Gone, vars, baseVars, rxVars
<1>9. QED
  BY <1>1, <1>2, <1>3, <1>4, <1>5, <1>6, <1>7, <1>8 DEF Next

(* The driver keeps the contract of a handle: one blocking read and one    *)
(* blocking write at a time, every frame held for a read handed over when  *)
(* it returns, and a close that waits for everybody before the free.       *)
THEOREM HandleRefinement == Spec => ImplementsContract
BY InitRefines, NextRefines, Invariance, PTL DEF Spec, Contract!Spec,
   ImplementsContract

=============================================================================

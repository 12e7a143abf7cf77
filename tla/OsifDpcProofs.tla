---------------------------- MODULE OsifDpcProofs ----------------------------
(***************************************************************************)
(* Proofs about the DPC chain of OsifDpc, for any number of DPCs and of    *)
(* callers.  DpcInv is inductive: each lemma XKeeps shows that the action  *)
(* X keeps it.                                                             *)
(***************************************************************************)
EXTENDS OsifDpc, TLAPS

-----------------------------------------------------------------------------
(* What the three operations on the chain do to a sequence that has no     *)
(* element twice.                                                          *)
LEMMA AppendFacts ==
  ASSUME NEW S, NEW s \in Seq(S), IsInjective(s), NEW d \in S, d \notin ToSet(s)
  PROVE  /\ Append(s, d) \in Seq(S)
         /\ ToSet(Append(s, d)) = ToSet(s) \cup {d}
         /\ IsInjective(Append(s, d))
<1> DEFINE r == Append(s, d)
<1>1. r \in Seq(S) /\ Len(r) = Len(s) + 1 /\ r[Len(s) + 1] = d
  OBVIOUS
<1>2. \A i \in 1 .. Len(s) : r[i] = s[i]
  OBVIOUS
<1>3. DOMAIN s = 1 .. Len(s) /\ DOMAIN r = 1 .. (Len(s) + 1) /\ Len(s) \in Nat
  BY <1>1
<1> HIDE DEF r
<1>4. ToSet(r) = ToSet(s) \cup {d}
  <2>1. ToSet(r) \subseteq ToSet(s) \cup {d}
    BY <1>1, <1>2, <1>3 DEF ToSet
  <2>2. ToSet(s) \subseteq ToSet(r)
    BY <1>2, <1>3 DEF ToSet
  <2>3. d \in ToSet(r)
    BY <1>1, <1>3 DEF ToSet
  <2> QED BY <2>1, <2>2, <2>3
<1>5. IsInjective(r)
  <2> SUFFICES ASSUME NEW a \in DOMAIN r, NEW b \in DOMAIN r, r[a] = r[b]
               PROVE  a = b
    BY DEF IsInjective
  <2>1. CASE a \in 1 .. Len(s) /\ b \in 1 .. Len(s)
    BY <2>1, <1>2, <1>3 DEF IsInjective
  <2>2. CASE a = Len(s) + 1 /\ b \in 1 .. Len(s)
    BY <2>2, <1>1, <1>2, <1>3 DEF ToSet
  <2>3. CASE a \in 1 .. Len(s) /\ b = Len(s) + 1
    BY <2>3, <1>1, <1>2, <1>3 DEF ToSet
  <2> QED BY <1>3, <2>1, <2>2, <2>3
<1> QED BY <1>1, <1>4, <1>5 DEF r

LEMMA TailFacts ==
  ASSUME NEW S, NEW s \in Seq(S), IsInjective(s), s # <<>>
  PROVE  /\ Tail(s) \in Seq(S)
         /\ Head(s) \in ToSet(s)
         /\ ToSet(Tail(s)) = ToSet(s) \ {Head(s)}
         /\ IsInjective(Tail(s))
<1> DEFINE r == Tail(s)
<1>1. r \in Seq(S) /\ Len(r) = Len(s) - 1 /\ Head(s) = s[1] /\ Len(s) \in Nat \ {0}
  OBVIOUS
<1>2. \A i \in 1 .. Len(r) : r[i] = s[i + 1]
  OBVIOUS
<1>3. DOMAIN s = 1 .. Len(s) /\ DOMAIN r = 1 .. (Len(s) - 1)
  BY <1>1
<1> HIDE DEF r
<1>4. Head(s) \in ToSet(s)
  BY <1>1, <1>3 DEF ToSet
<1>5. ToSet(r) = ToSet(s) \ {Head(s)}
  <2>1. ASSUME NEW i \in DOMAIN r PROVE r[i] \in ToSet(s) \ {Head(s)}
    <3>1. i + 1 \in DOMAIN s /\ i + 1 # 1 /\ 1 \in DOMAIN s /\ r[i] = s[i + 1]
      BY <1>1, <1>2, <1>3
    <3> QED BY <3>1, <1>1 DEF ToSet, IsInjective
  <2>2. ASSUME NEW i \in DOMAIN s, s[i] # Head(s) PROVE s[i] \in ToSet(r)
    <3>1. i # 1
      BY <2>2, <1>1
    <3>2. i - 1 \in DOMAIN r /\ r[i - 1] = s[i]
      BY <3>1, <1>1, <1>2, <1>3
    <3> QED BY <3>2 DEF ToSet
  <2> QED BY <2>1, <2>2 DEF ToSet
<1>6. IsInjective(r)
  BY <1>1, <1>2, <1>3 DEF IsInjective
<1> QED BY <1>1, <1>4, <1>5, <1>6 DEF r

LEMMA RemoveAtFacts ==
  ASSUME NEW S, NEW s \in Seq(S), IsInjective(s), NEW k \in DOMAIN s
  PROVE  /\ RemoveAt(s, k) \in Seq(S)
         /\ ToSet(RemoveAt(s, k)) = ToSet(s) \ {s[k]}
         /\ IsInjective(RemoveAt(s, k))
<1> DEFINE r == RemoveAt(s, k)
<1>0. Len(s) \in Nat /\ DOMAIN s = 1 .. Len(s) /\ k \in 1 .. Len(s)
  OBVIOUS
<1>1. r \in Seq(S) /\ Len(r) = Len(s) - 1
  BY <1>0 DEF RemoveAt
<1>2. \A i \in 1 .. Len(r) : r[i] = IF i < k THEN s[i] ELSE s[i + 1]
  <2> DEFINE u == SubSeq(s, 1, k - 1)
             v == SubSeq(s, k + 1, Len(s))
  <2>1. u \in Seq(S) /\ Len(u) = k - 1 /\ \A i \in 1 .. k - 1 : u[i] = s[i]
    BY <1>0
  <2>2. v \in Seq(S) /\ Len(v) = Len(s) - k
    BY <1>0
  <2>3. \A i \in 1 .. Len(s) - k : v[i] = s[k + 1 + i - 1]
    BY <1>0, <2>2
  <2>4. r = u \o v
    BY DEF RemoveAt
  <2> HIDE DEF u, v
  <2>5. ASSUME NEW i \in 1 .. Len(r)
        PROVE  r[i] = IF i <= Len(u) THEN u[i] ELSE v[i - Len(u)]
    BY <1>0, <1>1, <2>1, <2>2, <2>4
  <2> SUFFICES ASSUME NEW i \in 1 .. Len(r)
               PROVE  r[i] = IF i < k THEN s[i] ELSE s[i + 1]
    OBVIOUS
  <2>6. CASE i < k
    BY <2>6, <1>0, <1>1, <2>1, <2>5
  <2>7. CASE ~(i < k)
    <3>1. i - (k - 1) \in 1 .. Len(s) - k
      BY <2>7, <1>0, <1>1
    <3>2. v[i - (k - 1)] = s[k + 1 + (i - (k - 1)) - 1]
      BY <3>1, <2>3
    <3>3. k + 1 + (i - (k - 1)) - 1 = i + 1
      BY <1>0, <1>1
    <3> QED BY <2>7, <1>0, <1>1, <2>1, <2>5, <3>2, <3>3
  <2> QED BY <2>6, <2>7
<1>3. DOMAIN r = 1 .. (Len(s) - 1)
  BY <1>1
<1> HIDE DEF r
<1>4. ToSet(r) = ToSet(s) \ {s[k]}
  <2>1. ASSUME NEW i \in DOMAIN r PROVE r[i] \in ToSet(s) \ {s[k]}
    <3>1. CASE i < k
      BY <3>1, <1>0, <1>1, <1>2, <1>3 DEF ToSet, IsInjective
    <3>2. CASE ~(i < k)
      <4>1. i + 1 \in DOMAIN s /\ i + 1 # k /\ r[i] = s[i + 1]
        BY <3>2, <1>0, <1>1, <1>2, <1>3
      <4> QED BY <4>1 DEF ToSet, IsInjective
    <3> QED BY <3>1, <3>2
  <2>2. ASSUME NEW i \in DOMAIN s, s[i] # s[k] PROVE s[i] \in ToSet(r)
    <3>1. CASE i < k
      <4>1. i \in DOMAIN r /\ r[i] = s[i]
        BY <3>1, <1>0, <1>1, <1>2, <1>3
      <4> QED BY <4>1 DEF ToSet
    <3>2. CASE i > k
      <4>1. i - 1 \in DOMAIN r /\ r[i - 1] = s[i]
        BY <3>2, <1>0, <1>1, <1>2, <1>3
      <4> QED BY <4>1 DEF ToSet
    <3> QED BY <2>2, <3>1, <3>2, <1>0
  <2> QED BY <2>1, <2>2 DEF ToSet
<1>5. IsInjective(r)
  <2> SUFFICES ASSUME NEW a \in DOMAIN r, NEW b \in DOMAIN r, r[a] = r[b]
               PROVE  a = b
    BY DEF IsInjective
  <2> DEFINE f(i) == IF i < k THEN i ELSE i + 1
  <2>1. f(a) \in DOMAIN s /\ f(b) \in DOMAIN s /\ r[a] = s[f(a)] /\ r[b] = s[f(b)]
    BY <1>0, <1>1, <1>2, <1>3
  <2>2. f(a) = f(b)
    BY <2>1 DEF IsInjective
  <2> QED BY <2>2, <1>0, <1>3
<1> QED BY <1>1, <1>4, <1>5 DEF r

-----------------------------------------------------------------------------
USE DEF ThreadPcs, CallerPcs, RootStates

(* What every step below uses: a step that leaves the chain and the sets   *)
(* alone keeps ChainInv.                                                   *)
LEMMA ChainFrame ==
  ASSUME DpcInv, UNCHANGED chainVars
  PROVE  ChainInv'
BY DEF DpcInv, ChainInv, LinkedIsOnChain, chainVars

LEMMA CreateKeeps ==
  ASSUME NEW c \in Callers, NEW d \in Dpcs, DpcInv, Create(c, d)
  PROVE  DpcInv'
<1> USE DEF Create, DpcInv, callVars
<1>1. DpcTypeOK'
  BY DEF DpcTypeOK
<1>2. ChainInv'
  <2>1. ToSet(chain)' = ToSet(chain) /\ d \notin ToSet(chain)
    BY DEF ChainInv
  <2> QED BY <2>1 DEF ChainInv, LinkedIsOnChain
<1>3. RunningInv'
  BY DEF RunningInv
<1>4. VictimInv'
  BY DEF VictimInv
<1>5. NoLostTrigger'
  BY DEF NoLostTrigger
<1> QED BY <1>1, <1>2, <1>3, <1>4, <1>5

LEMMA TriggerKeeps ==
  ASSUME NEW c \in Callers, NEW d \in Dpcs, DpcInv, Trigger(c, d)
  PROVE  DpcInv'
<1> USE DEF Trigger, MayLink, DpcInv
<1>1. d \notin ToSet(chain)
  BY DEF ChainInv, LinkedIsOnChain
<1>2. /\ chain' \in Seq(Dpcs)
      /\ ToSet(chain') = ToSet(chain) \cup {d}
      /\ IsInjective(chain')
  BY <1>1, AppendFacts DEF DpcTypeOK, ChainInv, LinkedIsOnChain
<1>3. DpcTypeOK'
  BY <1>2 DEF DpcTypeOK
<1>4. ChainInv'
  BY <1>2 DEF ChainInv, LinkedIsOnChain
<1>5. RunningInv'
  BY DEF RunningInv
<1>6. VictimInv'
  BY DEF VictimInv, DpcTypeOK
<1>7. NoLostTrigger'
  BY DEF NoLostTrigger, DpcTypeOK
<1> QED BY <1>3, <1>4, <1>5, <1>6, <1>7

LEMMA TriggerCountKeeps ==
  ASSUME NEW c \in Callers, DpcInv, TriggerCount(c)
  PROVE  DpcInv'
<1> USE DEF TriggerCount, DpcInv, chainVars
<1>1. DpcTypeOK'
  BY DEF DpcTypeOK
<1>2. ChainInv'
  BY ChainFrame
<1>3. RunningInv'
  BY DEF RunningInv
<1>4. VictimInv'
  BY DEF VictimInv, DpcTypeOK
<1>5. NoLostTrigger'
  BY DEF NoLostTrigger, DpcTypeOK
<1> QED BY <1>1, <1>2, <1>3, <1>4, <1>5

LEMMA TriggerWakeKeeps ==
  ASSUME NEW c \in Callers, DpcInv, TriggerWake(c)
  PROVE  DpcInv'
<1> USE DEF TriggerWake, ThreadAwake, DpcInv, chainVars
<1>1. DpcTypeOK'
  BY DEF DpcTypeOK
<1>2. ChainInv'
  BY ChainFrame
<1>3. RunningInv'
  BY DEF RunningInv
<1>4. VictimInv'
  BY DEF VictimInv, DpcTypeOK
<1>5. NoLostTrigger'
  BY DEF NoLostTrigger
<1> QED BY <1>1, <1>2, <1>3, <1>4, <1>5

(* The chain after the DPC was taken off it, wherever it was.              *)
LEMMA UnlinkFacts ==
  ASSUME NEW d \in Dpcs, DpcInv, Unlink(d)
  PROVE  /\ chain' \in Seq(Dpcs)
         /\ ToSet(chain') = ToSet(chain) \ {d}
         /\ IsInjective(chain')
         /\ chain = <<>> => chain' = <<>>
<1> USE DEF DpcInv, DpcTypeOK, ChainInv, LinkedIsOnChain
<1>1. CASE d \in ToSet(chain)
  <2>1. PICK k \in DOMAIN chain : chain[k] = d /\ chain' = RemoveAt(chain, k)
    BY <1>1 DEF Unlink
  <2>2. chain # <<>>
    OBVIOUS
  <2> QED BY <2>1, <2>2, RemoveAtFacts
<1>2. CASE d \notin ToSet(chain)
  BY <1>2 DEF Unlink
<1> QED BY <1>1, <1>2

LEMMA DestroyKeeps ==
  ASSUME NEW c \in Callers, NEW d \in Dpcs, DpcInv, Destroy(c, d)
  PROVE  DpcInv'
<1> USE DEF Destroy, DpcInv
<1>1. /\ chain' \in Seq(Dpcs)
      /\ ToSet(chain') = ToSet(chain) \ {d}
      /\ IsInjective(chain')
      /\ chain = <<>> => chain' = <<>>
  BY UnlinkFacts
<1>2. DpcTypeOK'
  BY <1>1 DEF DpcTypeOK
<1>3. ChainInv'
  BY <1>1 DEF ChainInv, LinkedIsOnChain
<1>4. RunningInv'
  BY DEF RunningInv
<1>5. VictimInv'
  BY DEF VictimInv, DpcTypeOK
<1>6. NoLostTrigger'
  BY <1>1 DEF NoLostTrigger, DpcTypeOK
<1> QED BY <1>2, <1>3, <1>4, <1>5, <1>6

LEMMA DestroyFreeKeeps ==
  ASSUME NEW c \in Callers, DpcInv, DestroyFree(c)
  PROVE  DpcInv'
<1> USE DEF DestroyFree, MayFree, DpcInv
<1>1. DpcTypeOK'
  BY DEF DpcTypeOK
<1>2. ChainInv'
  <2>1. ToSet(chain)' = ToSet(chain) /\ victim[c] \in destroyed
    BY DEF VictimInv
  <2> QED BY <2>1 DEF ChainInv, LinkedIsOnChain
<1>3. RunningInv'
  BY DEF RunningInv
<1>4. VictimInv'
  BY DEF VictimInv, DpcTypeOK
<1>5. NoLostTrigger'
  BY DEF NoLostTrigger, DpcTypeOK
<1> QED BY <1>1, <1>2, <1>3, <1>4, <1>5

LEMMA ThreadNextKeeps ==
  ASSUME DpcInv, ThreadNext
  PROVE  DpcInv'
<1> USE DEF ThreadNext, Unmarked, DpcInv, callVars
<1>1. /\ chain' \in Seq(Dpcs)
      /\ Head(chain) \in ToSet(chain)
      /\ ToSet(chain') = ToSet(chain) \ {Head(chain)}
      /\ IsInjective(chain')
  BY TailFacts DEF DpcTypeOK, ChainInv, LinkedIsOnChain
<1>2. Head(chain) \in exists
  BY <1>1 DEF ChainInv
<1>3. DpcTypeOK'
  BY <1>1, <1>2 DEF DpcTypeOK
<1>4. ChainInv'
  BY <1>1 DEF ChainInv, LinkedIsOnChain
<1>5. RunningInv'
  BY <1>2 DEF RunningInv
<1>6. VictimInv'
  BY DEF VictimInv
<1>7. NoLostTrigger'
  BY DEF NoLostTrigger
<1> QED BY <1>3, <1>4, <1>5, <1>6, <1>7

LEMMA ThreadIdleKeeps ==
  ASSUME DpcInv, ThreadIdle
  PROVE  DpcInv'
<1> USE DEF ThreadIdle, DpcInv, callVars
<1>1. DpcTypeOK'
  BY DEF DpcTypeOK
<1>2. ChainInv'
  BY DEF ChainInv, LinkedIsOnChain
<1>3. RunningInv'
  BY DEF RunningInv
<1>4. VictimInv'
  BY DEF VictimInv
<1>5. NoLostTrigger'
  BY DEF NoLostTrigger
<1> QED BY <1>1, <1>2, <1>3, <1>4, <1>5

(* The steps of the thread that leave the chain alone.                     *)
LEMMA ThreadFrameKeeps ==
  ASSUME DpcInv, ThreadStart \/ ThreadLoop \/ ThreadCount
  PROVE  DpcInv'
<1> USE DEF ThreadStart, ThreadLoop, ThreadCount, DpcInv, chainVars, callVars
<1>1. DpcTypeOK'
  BY DEF DpcTypeOK
<1>2. ChainInv'
  BY ChainFrame
<1>3. RunningInv'
  BY DEF RunningInv
<1>4. VictimInv'
  BY DEF VictimInv
<1>5. NoLostTrigger'
  BY DEF NoLostTrigger
<1> QED BY <1>1, <1>2, <1>3, <1>4, <1>5

(* Loading and unloading the module, and steps that change nothing.        *)
LEMMA RootKeeps ==
  ASSUME DpcInv,
         RootCreated \/ RootMark \/ RootWake \/ RootGone \/ UNCHANGED vars
  PROVE  DpcInv'
<1> USE DEF RootCreated, RootMark, RootWake, RootGone, ThreadAwake,
            DpcInv, vars, chainVars, callVars
<1>1. DpcTypeOK'
  BY DEF DpcTypeOK
<1>2. ChainInv'
  BY ChainFrame
<1>3. RunningInv'
  BY DEF RunningInv
<1>4. VictimInv'
  BY DEF VictimInv
<1>5. NoLostTrigger'
  BY DEF NoLostTrigger
<1> QED BY <1>1, <1>2, <1>3, <1>4, <1>5

LEMMA InitDpcInv == Init => DpcInv
<1> SUFFICES ASSUME Init PROVE DpcInv
  OBVIOUS
<1>1. DpcTypeOK
  BY DEF Init, DpcTypeOK
<1>2. ToSet(chain) = {} /\ IsInjective(chain)
  BY DEF Init, ToSet, IsInjective
<1> QED
  BY <1>1, <1>2 DEF Init, DpcInv, ChainInv, LinkedIsOnChain, RunningInv,
                    VictimInv, NoLostTrigger

LEMMA NextKeepsDpcInv == DpcInv /\ [Next]_vars => DpcInv'
<1> SUFFICES ASSUME DpcInv, [Next]_vars PROVE DpcInv'
  OBVIOUS
<1>1. ASSUME NEW c \in Callers, Call(c) PROVE DpcInv'
  BY <1>1, CreateKeeps, TriggerKeeps, DestroyKeeps DEF Call
<1>2. ASSUME NEW c \in Callers, CallStep(c) PROVE DpcInv'
  BY <1>2, TriggerCountKeeps, TriggerWakeKeeps, DestroyFreeKeeps DEF CallStep
<1>3. CASE ThreadStep
  BY <1>3, ThreadFrameKeeps, ThreadNextKeeps, ThreadIdleKeeps DEF ThreadStep
<1>4. CASE RootCreated \/ RootMark \/ RootWake \/ RootGone \/ UNCHANGED vars
  BY <1>4, RootKeeps
<1> QED BY <1>1, <1>2, <1>3, <1>4 DEF Next

-----------------------------------------------------------------------------
(* The chain of dpc_root is well formed in every reachable state.          *)
THEOREM DpcInvariance == Spec => []DpcInv
<1>1. Init => DpcInv
  BY InitDpcInv
<1>2. DpcInv /\ [Next]_vars => DpcInv'
  BY NextKeepsDpcInv
<1> QED BY <1>1, <1>2, PTL DEF Spec

(* No trigger is lost between the thread's last look at the chain and its  *)
(* going to sleep in osif_dpc_thread.                                      *)
THEOREM TriggerNotLost == Spec => []NoLostTrigger
<1>1. DpcInv => NoLostTrigger
  BY DEF DpcInv
<1> QED BY <1>1, DpcInvariance, PTL

(* osif_dpc_destroy frees no DPC the thread can still reach.               *)
THEOREM ReachableNotFreed == Spec => []ReachableExists
<1>1. DpcInv => ReachableExists
  BY DEF DpcInv, ChainInv, RunningInv, ReachableExists
<1> QED BY <1>1, DpcInvariance, PTL

(* The linked flag never lies to osif_dpc_trigger.                         *)
THEOREM LinkedFlagIsTrue == Spec => []LinkedIsOnChain
<1>1. DpcInv => LinkedIsOnChain
  BY DEF DpcInv, ChainInv
<1> QED BY <1>1, DpcInvariance, PTL

(* A function is not started after osif_dpc_destroy of its DPC began.      *)
THEOREM DestroyedStaysQuiet == Spec => NoStartAfterDestroy
<1> DEFINE A == \A d \in exists \cap destroyed :
                  d \in running' => d \in running \/ d \notin destroyed'
<1>1. DpcInv /\ [Next]_vars => A
  <2> SUFFICES ASSUME DpcInv, [Next]_vars,
                      NEW d \in exists \cap destroyed,
                      d \in running', d \notin running
               PROVE  FALSE
    OBVIOUS
  <2>1. CASE ThreadNext
    <3>1. Head(chain) \in ToSet(chain) /\ d = Head(chain)
      BY <2>1, TailFacts
      DEF ThreadNext, DpcInv, DpcTypeOK, ChainInv, LinkedIsOnChain
    <3> QED BY <3>1 DEF DpcInv, ChainInv
  <2>2. CASE ~ThreadNext
    BY <2>2 DEF Next, Call, CallStep, ThreadStep, Create, Trigger, Destroy,
                TriggerCount, TriggerWake, DestroyFree, ThreadStart, ThreadLoop,
                ThreadCount, ThreadIdle, RootCreated, RootMark, RootWake,
                RootGone, vars, chainVars
  <2> QED BY <2>1, <2>2
<1> QED BY <1>1, DpcInvariance, PTL DEF Spec, NoStartAfterDestroy

-----------------------------------------------------------------------------
(***************************************************************************)
(* OsifDpc implements DpcContract.                                         *)
(***************************************************************************)
LEMMA InitRefines == Init => Contract!Init
BY DEF Init, Contract!Init, Life, Asked

LEMMA CreateRefines ==
  ASSUME NEW c \in Callers, NEW d \in Dpcs, DpcInv, Create(c, d)
  PROVE  Contract!Create(d)
<1> USE DEF Create, DpcInv, DpcTypeOK, RunningInv
<1>1. Life[d] = "none" /\ Life' = [Life EXCEPT ![d] = "usable"]
  BY DEF Life
<1>2. Asked' = Asked
  BY DEF Asked
<1>3. running' = running
  OBVIOUS
<1> QED BY <1>1, <1>2, <1>3 DEF Contract!Create

LEMMA TriggerRefines ==
  ASSUME NEW c \in Callers, NEW d \in Dpcs, DpcInv, Trigger(c, d)
  PROVE  Contract!Ask(d)
<1> USE DEF Trigger, MayLink
<1>1. Life[d] = "usable" /\ Life' = Life
  BY DEF Life
<1>2. Asked' = Asked \cup {d}
  BY DEF Asked
<1> QED BY <1>1, <1>2 DEF Contract!Ask

LEMMA DestroyRefines ==
  ASSUME NEW c \in Callers, NEW d \in Dpcs, DpcInv, Destroy(c, d)
  PROVE  Contract!BeginDestroy(d)
<1> USE DEF Destroy
<1>1. Life[d] = "usable" /\ Life' = [Life EXCEPT ![d] = "ending"]
  BY DEF Life
<1>2. Asked' = Asked \ {d}
  BY DEF Asked
<1> QED BY <1>1, <1>2 DEF Contract!BeginDestroy

LEMMA DestroyFreeRefines ==
  ASSUME NEW c \in Callers, DpcInv, DestroyFree(c)
  PROVE  Contract!EndDestroy(victim[c])
<1> USE DEF DestroyFree, MayFree, DpcInv, DpcTypeOK
<1>1. victim[c] \in exists \cap destroyed
  BY DEF VictimInv
<1>2. Life[victim[c]] = "ending" /\ Life' = [Life EXCEPT ![victim[c]] = "none"]
  BY <1>1 DEF Life
<1>3. Asked' = Asked
  BY <1>1 DEF Asked
<1> QED BY <1>2, <1>3 DEF Contract!EndDestroy

(* The first DPC on the chain was asked for, and is the only one that is   *)
(* not any more: it was on the chain once.                                 *)
LEMMA ThreadNextRefines ==
  ASSUME DpcInv, ThreadNext
  PROVE  Contract!StartCall(Head(chain))
<1> USE DEF ThreadNext, Unmarked
<1>1. Head(chain) \in ToSet(chain)
  BY TailFacts DEF DpcInv, DpcTypeOK, ChainInv, LinkedIsOnChain
<1>2. Head(chain) \in Asked
  BY <1>1 DEF DpcInv, ChainInv, LinkedIsOnChain, Asked
<1>3. Asked' = Asked \ {Head(chain)}
  BY DEF Asked
<1>4. Life' = Life
  BY DEF Life
<1> QED BY <1>2, <1>3, <1>4 DEF Contract!StartCall

LEMMA ThreadIdleRefines ==
  ASSUME ThreadIdle
  PROVE  Contract!EndCall \/ UNCHANGED Contract!dvars
<1>1. Life' = Life /\ Asked' = Asked /\ running' = {}
  BY DEF ThreadIdle, Life, Asked
<1> QED BY <1>1 DEF Contract!EndCall, Contract!dvars

LEMMA NextRefines ==
  ASSUME DpcInv, [Next]_vars
  PROVE  [Contract!Next]_(Contract!dvars)
<1> USE DEF Contract!Next
<1>1. ASSUME NEW c \in Callers, Call(c) PROVE Contract!Next
  BY <1>1, CreateRefines, TriggerRefines, DestroyRefines DEF Call
<1>2. ASSUME NEW c \in Callers, DestroyFree(c) PROVE Contract!Next
  <2>1. victim[c] \in Dpcs
    BY DEF DpcInv, DpcTypeOK
  <2> QED BY <1>2, <2>1, DestroyFreeRefines
<1>3. CASE ThreadNext
  <2>1. Head(chain) \in Dpcs
    BY <1>3 DEF ThreadNext, DpcInv, DpcTypeOK
  <2> QED BY <1>3, <2>1, ThreadNextRefines
<1>4. CASE ThreadIdle
  BY <1>4, ThreadIdleRefines
<1>5. ASSUME UNCHANGED chainVars PROVE UNCHANGED Contract!dvars
  BY <1>5 DEF chainVars, Contract!dvars, Life, Asked
<1>6. ASSUME NEW c \in Callers, TriggerCount(c) \/ TriggerWake(c)
      PROVE  UNCHANGED Contract!dvars
  BY <1>5, <1>6 DEF TriggerCount, TriggerWake
<1>7. CASE ThreadStart \/ ThreadLoop \/ ThreadCount
  BY <1>5, <1>7 DEF ThreadStart, ThreadLoop, ThreadCount
<1>8. CASE RootCreated \/ RootMark \/ RootWake \/ RootGone \/ UNCHANGED vars
  BY <1>5, <1>8 DEF RootCreated, RootMark, RootWake, RootGone, vars
<1> HIDE DEF Contract!Next
<1> QED BY <1>1, <1>2, <1>3, <1>4, <1>6, <1>7, <1>8 DEF Next, CallStep, ThreadStep

(* Whoever uses a DPC gets what DpcContract promises, for any number of    *)
(* DPCs and of callers: a call for every trigger unless one is waiting     *)
(* already, one function at a time, and no call during or after the end of *)
(* osif_dpc_destroy.                                                       *)
THEOREM DpcRefinement == Spec => ImplementsContract
BY InitRefines, NextRefines, DpcInvariance, PTL DEF Spec, Contract!Spec,
   ImplementsContract

=============================================================================

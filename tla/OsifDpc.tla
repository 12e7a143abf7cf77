------------------------------- MODULE OsifDpc -------------------------------
(***************************************************************************)
(* The deferred procedure calls of osif.c.  Interrupt handlers, timers and *)
(* threads trigger a DPC; the driver's one kernel thread takes the         *)
(* triggered DPCs off the chain dpc_root.first and calls their functions,  *)
(* one after the other.  A DPC may be destroyed while it is on the chain   *)
(* or while its function runs.  Loading the module starts the thread,      *)
(* unloading it ends the thread.                                           *)
(*                                                                         *)
(* A stretch of code with dpc_root.spinlock held is one action; what       *)
(* osif_dpc_trigger does after its unlock is two more.                     *)
(***************************************************************************)
EXTENDS Integers, SequencesExt

CONSTANTS
  Dpcs,      (* OSIF_DPC objects                                           *)
  Callers,   (* Contexts that create, trigger and destroy DPCs.            *)
  TrigMax    (* Bound: no DPC is triggered while dpc_root.trig is as high. *)

ASSUME DpcAssumption ==
  /\ Dpcs # {}
  /\ Callers # {}
  /\ TrigMax \in Nat \ {0}

VARIABLES
  chain,      (* The list that starts at dpc_root.first.                   *)
  exists,     (* DPCs that are allocated.                                  *)
  linked,     (* DPCs with linked = 1.                                     *)
  running,    (* DPCs with running = 1.                                    *)
  destroyed,  (* DPCs with destroy = 1.                                    *)
  trig,       (* dpc_root.trig                                             *)
  tpc,        (* Where the kernel thread is.                               *)
  cpc,        (* Where each caller is inside trigger or destroy.           *)
  victim,     (* The DPC each caller in osif_dpc_destroy waits for.        *)
  root        (* How far osif_attach() or osif_detach() is.                *)

chainVars == <<chain, exists, linked, running, destroyed>>
callVars == <<cpc, victim>>
vars == <<chainVars, trig, tpc, callVars, root>>

(***************************************************************************)
(* The thread: "start" until it says that it runs; "loop" is the test of   *)
(* dpc_root.destroy, "body" is after it, "drain" is before the spinlock is *)
(* taken, "func" is a call of dpc->func with the spinlock released.        *)
(***************************************************************************)
ThreadPcs == {"start", "loop", "body", "drain", "func", "asleep", "exited"}
CallerPcs == {"idle", "linked", "counted", "destroying"}
RootStates == {"starting", "up", "failed", "destroy", "waiting", "down"}

(* dpc_root.destroy                                                        *)
RootDestroy == root \in {"destroy", "waiting"}

(* wake_up_process(dpc_root.tsk): only a sleeping thread takes notice.     *)
ThreadStaysAsleep == tpc          \* mutant: no wake_up_process()

ThreadAwake == IF tpc = "asleep" THEN "loop" ELSE tpc

-----------------------------------------------------------------------------
(* osif_dpc_create                                                         *)
Create(c, d) ==
  /\ root = "up"
  /\ cpc[c] = "idle"
  /\ d \notin exists
  /\ exists' = exists \cup {d}
  /\ linked' = linked \ {d}
  /\ destroyed' = destroyed \ {d}
  /\ running' = running \ {d}
  /\ UNCHANGED <<chain, trig, tpc, callVars, root>>

(***************************************************************************)
(* osif_dpc_trigger up to its unlock, when it links the DPC.  A DPC that   *)
(* is linked already, or that is being destroyed, is left as it is.        *)
(***************************************************************************)
MayLinkUnchecked(d) ==            \* mutant: destroy is not tested
  d \notin linked

MayLink(d) ==
  /\ d \notin destroyed
  /\ d \notin linked

Trigger(c, d) ==
  /\ cpc[c] = "idle"
  /\ d \in exists
  /\ trig < TrigMax
  /\ MayLink(d)
  /\ chain' = Append(chain, d)
  /\ linked' = linked \cup {d}
  /\ cpc' = [cpc EXCEPT ![c] = "linked"]
  /\ UNCHANGED <<exists, running, destroyed, trig, tpc, victim, root>>

(* atomic_inc(&dpc_root.trig)                                              *)
TriggerCount(c) ==
  /\ cpc[c] = "linked"
  /\ trig' = trig + 1
  /\ cpc' = [cpc EXCEPT ![c] = "counted"]
  /\ UNCHANGED <<chainVars, tpc, victim, root>>

TriggerWake(c) ==
  /\ cpc[c] = "counted"
  /\ tpc' = ThreadAwake
  /\ cpc' = [cpc EXCEPT ![c] = "idle"]
  /\ UNCHANGED <<chainVars, trig, victim, root>>

(***************************************************************************)
(* osif_dpc_destroy up to the test of dpc->running.  The linked flag keeps *)
(* its value.  Whoever owns the DPC destroys it once.                      *)
(***************************************************************************)
UnlinkNothing(d) == chain' = chain   \* mutant: the DPC stays on the chain

Unlink(d) ==
  IF d \in ToSet(chain)
    THEN \E i \in DOMAIN chain :
           chain[i] = d /\ chain' = RemoveAt(chain, i)
    ELSE chain' = chain

Destroy(c, d) ==
  /\ cpc[c] = "idle"
  /\ d \in exists \ destroyed
  /\ destroyed' = destroyed \cup {d}
  /\ Unlink(d)
  /\ cpc' = [cpc EXCEPT ![c] = "destroying"]
  /\ victim' = [victim EXCEPT ![c] = d]
  /\ UNCHANGED <<exists, linked, running, trig, tpc, root>>

(* The loop of OSIF_SLEEP(300) ends, the DPC is freed under the spinlock   *)
(* that showed it is not running.                                          *)
MayFreeAtOnce(d) == TRUE          \* mutant: a running DPC is not waited for

MayFree(d) == d \notin running

DestroyFree(c) ==
  /\ cpc[c] = "destroying"
  /\ MayFree(victim[c])
  /\ exists' = exists \ {victim[c]}
  /\ cpc' = [cpc EXCEPT ![c] = "idle"]
  /\ UNCHANGED <<chain, linked, running, destroyed, trig, tpc, victim, root>>

-----------------------------------------------------------------------------
(* The kernel thread says that it runs.                                    *)
ThreadStart ==
  /\ tpc = "start"
  /\ tpc' = "loop"
  /\ UNCHANGED <<chainVars, trig, callVars, root>>

(* while (!dpc_root.destroy)                                               *)
ThreadLoop ==
  /\ tpc = "loop"
  /\ tpc' = IF RootDestroy THEN "exited" ELSE "body"
  /\ UNCHANGED <<chainVars, trig, callVars, root>>

(* atomic_add_unless(&dpc_root.trig, -1, 0)                                *)
ThreadCount ==
  /\ tpc = "body"
  /\ trig' = IF trig = 0 THEN 0 ELSE trig - 1
  /\ tpc' = "drain"
  /\ UNCHANGED <<chainVars, callVars, root>>

(* With the spinlock held: the DPC that ran is marked as not running, and  *)
(* the first one on the chain is taken off and marked as running.          *)
UnmarkNone(d) == linked           \* mutant: dpc->linked is not cleared

Unmarked(d) == linked \ {d}

ThreadNext ==
  /\ tpc \in {"drain", "func"}
  /\ chain # <<>>
  /\ chain' = Tail(chain)
  /\ linked' = Unmarked(Head(chain))
  /\ running' = {Head(chain)}
  /\ tpc' = "func"
  /\ UNCHANGED <<exists, destroyed, trig, callVars, root>>

(***************************************************************************)
(* The chain is empty.  Still with the spinlock held the thread becomes    *)
(* TASK_INTERRUPTIBLE and looks at trig; a wake_up_process() between the   *)
(* unlock and schedule() is one that finds it asleep.                      *)
(***************************************************************************)
ThreadIdleKeepsRunning ==         \* mutant: dpc->running is not cleared
  /\ tpc \in {"drain", "func"}
  /\ chain = <<>>
  /\ tpc' = IF trig = 0 THEN "asleep" ELSE "loop"
  /\ UNCHANGED <<chainVars, trig, callVars, root>>

ThreadIdle ==
  /\ tpc \in {"drain", "func"}
  /\ chain = <<>>
  /\ running' = {}
  /\ tpc' = IF trig = 0 THEN "asleep" ELSE "loop"
  /\ UNCHANGED <<chain, exists, linked, destroyed, trig, callVars, root>>

-----------------------------------------------------------------------------
(* osif_dpc_root_create: waits 100 jiffies for the thread to start.        *)
RootCreated ==
  /\ root = "starting"
  /\ root' = IF tpc = "start" THEN "failed" ELSE "up"
  /\ UNCHANGED <<chainVars, trig, tpc, callVars>>

(* osif_dpc_root_destroy, called after all cards are detached.             *)
RootMark ==
  /\ root = "up"
  /\ exists = {}
  /\ \A c \in Callers : cpc[c] = "idle"
  /\ root' = "destroy"
  /\ UNCHANGED <<chainVars, trig, tpc, callVars>>

RootWake ==
  /\ root = "destroy"
  /\ root' = "waiting"
  /\ tpc' = ThreadAwake
  /\ UNCHANGED <<chainVars, trig, callVars>>

(* wait_for_completion(&dpcThreadCompletion)                               *)
RootGone ==
  /\ root = "waiting"
  /\ tpc = "exited"
  /\ root' = "down"
  /\ UNCHANGED <<chainVars, trig, tpc, callVars>>

-----------------------------------------------------------------------------
Call(c) ==
  \E d \in Dpcs :
    \/ Create(c, d)
    \/ Trigger(c, d)
    \/ Destroy(c, d)

CallStep(c) ==
  \/ TriggerCount(c)
  \/ TriggerWake(c)
  \/ DestroyFree(c)

ThreadStep ==
  \/ ThreadStart
  \/ ThreadLoop
  \/ ThreadCount
  \/ ThreadNext
  \/ ThreadIdle

Next ==
  \/ \E c \in Callers : Call(c) \/ CallStep(c)
  \/ ThreadStep
  \/ RootCreated
  \/ RootMark
  \/ RootWake
  \/ RootGone

Init ==
  /\ chain = <<>>
  /\ exists = {} /\ linked = {} /\ running = {} /\ destroyed = {}
  /\ trig = 0
  /\ tpc = "start"
  /\ cpc = [c \in Callers |-> "idle"]
  /\ victim \in [Callers -> Dpcs]
  /\ root = "starting"

Spec == Init /\ [][Next]_vars

(* The scheduler runs the thread and the callers, and DPC functions and    *)
(* the waits of osif_detach() end.  Nothing makes a trigger or a destroy   *)
(* happen, or the module be unloaded.                                      *)
Fairness ==
  /\ WF_vars(ThreadStep)
  /\ \A c \in Callers : WF_vars(CallStep(c))
  /\ WF_vars(RootWake \/ RootGone)

FairSpec == Spec /\ Fairness

-----------------------------------------------------------------------------
DpcTypeOK ==
  /\ chain \in Seq(Dpcs)
  /\ exists \subseteq Dpcs
  /\ linked \subseteq Dpcs
  /\ running \subseteq Dpcs
  /\ destroyed \subseteq Dpcs
  /\ trig \in Nat
  /\ tpc \in ThreadPcs
  /\ cpc \in [Callers -> CallerPcs]
  /\ victim \in [Callers -> Dpcs]
  /\ root \in RootStates

(* The thread sleeps beside a DPC on the chain only while the trigger that *)
(* linked it has still to wake it: no wake-up is lost between the thread's *)
(* look at the chain and its going to sleep.                               *)
NoLostTrigger ==
  tpc = "asleep" /\ chain # <<>> =>
    \E c \in Callers : cpc[c] \in {"linked", "counted"}

(* A DPC the thread can still reach, on the chain or in a call of its      *)
(* function, has not been freed by osif_dpc_destroy.                       *)
ReachableExists == ToSet(chain) \cup running \subseteq exists

(* The linked flag tells exactly whether the DPC is on the chain, where it *)
(* is once: a trigger is neither ignored nor does it tie the chain into a  *)
(* loop.  The flag of a DPC that is being destroyed has no meaning.        *)
LinkedIsOnChain ==
  /\ \A d \in exists \ destroyed : d \in linked <=> d \in ToSet(chain)
  /\ IsInjective(chain)

(* Once osif_dpc_destroy has had the spinlock the function is not started  *)
(* any more, whatever triggers came before or come later.                  *)
NoStartAfterDestroy ==
  [][\A d \in exists \cap destroyed :
       d \in running' => d \in running \/ d \notin destroyed']_vars

(* Every DPC that is linked runs, unless it is destroyed before.           *)
TriggerServed ==
  \A d \in Dpcs : d \in linked \ destroyed ~> d \in running \cup destroyed

(* osif_dpc_destroy returns, also when the DPC was running.                *)
DestroyReturns ==
  \A c \in Callers : cpc[c] = "destroying" ~> cpc[c] = "idle"

(* Unloading the module gets through: osif_dpc_root_destroy ends after the *)
(* thread has seen dpc_root.destroy and left.                              *)
UnloadReturns == root = "destroy" ~> root = "down"

-----------------------------------------------------------------------------
(***************************************************************************)
(* What DpcContract calls asked are the DPCs with the linked flag, not     *)
(* those on the chain: that the thread finds the ones on the chain that    *)
(* have the flag is the point of the refinement.                           *)
(***************************************************************************)
Life ==
  [d \in Dpcs |-> IF d \notin exists THEN "none"
                  ELSE IF d \in destroyed THEN "ending"
                  ELSE "usable"]

Asked == linked \cap (exists \ destroyed)

Contract ==
  INSTANCE DpcContract WITH life <- Life, asked <- Asked, called <- running

(* The thread and the functions of osif.c do what their users rely on.     *)
ImplementsContract == Contract!Spec

-----------------------------------------------------------------------------
(***************************************************************************)
(* The inductive invariant behind the theorems of OsifDpcProofs.           *)
(***************************************************************************)
(* What is on the chain is allocated and not being destroyed.              *)
ChainInv ==
  /\ ToSet(chain) \subseteq exists \ destroyed
  /\ LinkedIsOnChain

(* One DPC runs at a time, while the thread is in its function.            *)
RunningInv ==
  /\ running \subseteq exists
  /\ running # {} <=> tpc = "func"
  /\ \A d, e \in running : d = e

(* A DPC that is being destroyed is the victim of one caller.              *)
VictimInv ==
  \A c \in Callers : cpc[c] = "destroying" =>
    /\ victim[c] \in exists \cap destroyed
    /\ \A b \in Callers : cpc[b] = "destroying" /\ victim[b] = victim[c] => b = c

DpcInv == DpcTypeOK /\ ChainInv /\ RunningInv /\ VictimInv /\ NoLostTrigger

=============================================================================

------------------------------ MODULE OsifTimer ------------------------------
(***************************************************************************)
(* One timer of osif.c on a kernel from 4.8 on.  The timer wheel of such a *)
(* kernel is coarse: the later a timer expires, the later than asked for   *)
(* it may fire.  osif.c therefore sets the kernel timer to intermediate    *)
(* targets that the wheel can hit exactly, and timer_stub sets it again    *)
(* until real_tgt is reached; only then it triggers the DPC of the timer.  *)
(*                                                                         *)
(* The threads that set a timer hold node->lock, so there is one setter at *)
(* a time; timer_stub takes no lock, and a call may meet it anywhere on    *)
(* its way.  On one processor no call ever does: there raced stays FALSE.  *)
(***************************************************************************)
EXTENDS Integers, FiniteSetsExt

CONSTANTS
  Ratio,      (* The ratio of two wheel levels: 8 in the kernel, and in    *)
              (* the masks of osif.c.                                      *)
  MaxLvl,     (* MAX_LVL of osif.c, LVL_DEPTH of the kernel: 8 or 9.       *)
  FixedStep,  (* The step of talgo 1: 32 in osif.c.                        *)
  Delays,     (* The times, in jiffies, a timer is set to; a time below    *)
              (* half a jiffy is rounded to 0.                             *)
  Horizon     (* Bound: the last jiffy looked at.                          *)

ASSUME TimerAssumption ==
  /\ Ratio \in Nat /\ 2 <= Ratio
  /\ MaxLvl \in Nat /\ 2 <= MaxLvl
  /\ FixedStep \in 1 .. Ratio * Ratio - 1
  /\ Delays \subseteq Nat
  /\ Horizon \in Nat

VARIABLES
  talgo,     (* The module parameter, 0, 1 or 2.                           *)
  now,       (* jiffies                                                    *)
  realTgt,   (* pLxTimer->real_tgt                                         *)
  armed,     (* The kernel timer is in the wheel ...                       *)
  fireAt,    (* ... and fires in this jiffy; 0 if it is not.               *)
  setter,    (* "stored": inside osif_timer_set, before mod_timer().       *)
  setTgt,    (* cur_tgt inside osif_timer_set, 0 outside                   *)
  stub,      (* What timer_stub is about to do, or "idle".                 *)
  stubTgt,   (* cur_tgt inside timer_action, 0 outside                     *)
  linked,    (* The DPC of the timer is triggered.                         *)
  wanted,    (* History: what the timer was last told or did.              *)
  raced      (* History: timer_stub was under way when the last call began.*)

wheelVars == <<armed, fireAt>>
setVars == <<setter, setTgt>>
stubVars == <<stub, stubTgt>>
vars == <<talgo, now, realTgt, wheelVars, setVars, stubVars, linked, wanted,
          raced>>

Later(i, j) == IF i > j THEN i ELSE j

-----------------------------------------------------------------------------
(* The jiffies one slot of a level of the wheel stands for.                *)
Gran[lvl \in Nat] == IF lvl = 0 THEN 1 ELSE Ratio * Gran[lvl - 1]

(* next_lx_timer_target                                                    *)
(* t & lvl_low_mask[lvl]: t without its lowest 3 + 3 * lvl bits.           *)
LowMasked(t, lvl) == IF lvl = 0 THEN t ELSE t - (t % Gran[lvl + 1])

(* The levels the loop of talgo 2 gets past.                               *)
LevelsAhead(cur, tgt) ==
  {lvl \in 0 .. MaxLvl - 1 : \A k \in 0 .. lvl : cur < LowMasked(tgt, k)}

LevelStepSmallest(cur, tgt) ==    \* mutant: stays on the first level
  tgt

LevelStep(cur, tgt) ==
  IF LevelsAhead(cur, tgt) = {} THEN tgt
  ELSE LowMasked(tgt, Max(LevelsAhead(cur, tgt)))

FixedSteps(cur, tgt) ==
  IF cur + FixedStep > tgt THEN tgt ELSE cur + FixedStep

NextTarget(cur, tgt) ==
  CASE talgo = 2 -> LevelStep(cur, tgt)
    [] talgo = 1 -> FixedSteps(cur, tgt)
    [] OTHER     -> cur + 1

-----------------------------------------------------------------------------
(* The level a distance in time falls into, and the jiffy in which the     *)
(* wheel fires a timer that expires at e: the next multiple of that        *)
(* level's granularity.  What is beyond the capacity of the wheel fires as *)
(* late as the wheel can.                                                  *)
LevelStart(lvl) == (Ratio * Ratio - 1) * Gran[lvl - 1]

WheelLevel(delta) ==
  Max({0} \cup {lvl \in 1 .. MaxLvl - 1 : LevelStart(lvl) <= delta})

NextSlot(e, lvl) == ((e + Gran[lvl]) \div Gran[lvl]) * Gran[lvl]

Fires(e) ==
  IF e < now THEN now + 1
  ELSE IF e - now < LevelStart(MaxLvl) THEN NextSlot(e, WheelLevel(e - now))
  ELSE NextSlot(now + LevelStart(MaxLvl) - Gran[MaxLvl - 1], MaxLvl - 1)

(* mod_timer(&pLxTimer->timer, tgt - 1)                                    *)
ModTimer(tgt) ==
  /\ armed' = TRUE
  /\ fireAt' = Fires(tgt - 1)

-----------------------------------------------------------------------------
(* The owner of the timer may call: it exists, and no call is under way.   *)
MayCall == wanted # "destroyed" /\ setter = "idle"

(* Whether this call meets timer_stub between its decision and its act.    *)
Meets == raced' = (stub # "idle")

(* osif_timer_set(t, ms), ms > 0: first the targets are stored ...         *)
Set(d) ==
  /\ MayCall
  /\ realTgt' = now + d
  /\ setTgt' = NextTarget(now, now + d)
  /\ setter' = "stored"
  /\ wanted' = "set" /\ Meets
  /\ UNCHANGED <<talgo, now, wheelVars, stubVars, linked>>

(* ... then mod_timer() is called with the target computed before, even if *)
(* timer_stub or the clock went on meanwhile.                              *)
SetArmUnlessBusy ==               \* mutant: leaves it to a running timer_stub
  /\ setter = "stored"
  /\ IF stub = "idle" THEN ModTimer(setTgt) ELSE UNCHANGED wheelVars
  /\ setter' = "idle" /\ setTgt' = 0
  /\ UNCHANGED <<talgo, now, realTgt, stubVars, linked, wanted, raced>>

SetArm ==
  /\ setter = "stored"
  /\ ModTimer(setTgt)
  /\ setter' = "idle" /\ setTgt' = 0
  /\ UNCHANGED <<talgo, now, realTgt, stubVars, linked, wanted, raced>>

(* osif_timer_set(t, 0)                                                    *)
Disable ==
  /\ MayCall
  /\ armed' = FALSE /\ fireAt' = 0
  /\ wanted' = "disabled" /\ Meets
  /\ UNCHANGED <<talgo, now, realTgt, setVars, stubVars, linked>>

(* osif_timer_destroy(t): del_timer(), which does not wait for a running   *)
(* timer_stub, OSIF_DPC_DESTROY(), and the timer is freed.                 *)
DestroyKeepsTimer ==              \* mutant: no del_timer()
  /\ MayCall
  /\ linked' = FALSE
  /\ wanted' = "destroyed" /\ Meets
  /\ UNCHANGED <<talgo, now, realTgt, wheelVars, setVars, stubVars>>

Destroy ==
  /\ MayCall
  /\ armed' = FALSE /\ fireAt' = 0
  /\ linked' = FALSE
  /\ wanted' = "destroyed" /\ Meets
  /\ UNCHANGED <<talgo, now, realTgt, setVars, stubVars>>

(* The wheel takes the timer out and calls timer_stub, whose timer_action  *)
(* reads jiffies and real_tgt and decides.                                 *)
ReachedUnchecked == TRUE          \* mutant: every expiry is the last one

Reached == now >= realTgt

Expire ==
  /\ armed /\ fireAt <= now
  /\ stub = "idle"
  /\ armed' = FALSE /\ fireAt' = 0
  /\ stub' = IF Reached THEN "trigger" ELSE "rearm"
  /\ stubTgt' = IF Reached THEN 0 ELSE NextTarget(now, realTgt)
  /\ wanted' = IF Reached /\ wanted = "set" THEN "expired" ELSE wanted
  /\ UNCHANGED <<talgo, now, realTgt, setVars, linked, raced>>

StubRearm ==
  /\ stub = "rearm"
  /\ ModTimer(stubTgt)
  /\ stub' = "idle" /\ stubTgt' = 0
  /\ UNCHANGED <<talgo, now, realTgt, setVars, linked, wanted, raced>>

StubTrigger ==
  /\ stub = "trigger"
  /\ linked' = TRUE
  /\ stub' = "idle"
  /\ UNCHANGED <<talgo, now, realTgt, wheelVars, setVars, stubTgt, wanted,
                 raced>>

(* The DPC thread calls the function of the timer.                         *)
DpcRuns ==
  /\ linked
  /\ linked' = FALSE
  /\ UNCHANGED <<talgo, now, realTgt, wheelVars, setVars, stubVars, wanted,
                 raced>>

(* The clock; neither the stub nor a setter has to be in time.             *)
Tick ==
  /\ now < Horizon
  /\ now' = now + 1
  /\ UNCHANGED <<talgo, realTgt, wheelVars, setVars, stubVars, linked, wanted,
                 raced>>

-----------------------------------------------------------------------------
Next ==
  \/ \E d \in Delays : Set(d)
  \/ SetArm
  \/ Disable
  \/ Destroy
  \/ Expire
  \/ StubRearm
  \/ StubTrigger
  \/ DpcRuns
  \/ Tick

Init ==
  /\ talgo \in 0 .. 2
  /\ now = 0
  /\ realTgt = 0
  /\ armed = FALSE /\ fireAt = 0
  /\ setter = "idle" /\ setTgt = 0
  /\ stub = "idle" /\ stubTgt = 0
  /\ linked = FALSE
  /\ wanted = "disabled"
  /\ raced = FALSE

Spec == Init /\ [][Next]_vars

-----------------------------------------------------------------------------
TimerTypeOK ==
  /\ talgo \in 0 .. 2
  /\ now \in 0 .. Horizon
  /\ realTgt \in Nat
  /\ armed \in BOOLEAN
  /\ fireAt \in Nat
  /\ setter \in {"idle", "stored"} /\ setTgt \in Nat
  /\ stub \in {"idle", "rearm", "trigger"} /\ stubTgt \in Nat
  /\ linked \in BOOLEAN
  /\ wanted \in {"set", "expired", "disabled", "destroyed"}
  /\ raced \in BOOLEAN

(* What a call that does not meet timer_stub tells the timer is final: a   *)
(* disabled or destroyed timer is not in the wheel, nobody is about to put *)
(* it there or to trigger it, and a freed DPC is not on the chain, however *)
(* earlier calls raced with timer_stub.                                    *)
FinalUnlessRaced ==
  ~raced /\ wanted \in {"disabled", "destroyed"} =>
    /\ ~armed /\ setter = "idle" /\ stub = "idle"
    /\ wanted = "destroyed" => ~linked

(* Every variable keeps its type, and a call that does not meet timer_stub *)
(* is final.                                                               *)
TimerInv == TimerTypeOK /\ FinalUnlessRaced

(* Neither osif_timer_set nor timer_stub is under way.                     *)
Quiet == setter = "idle" /\ stub = "idle"

(* A timer that is set and has not expired is in the wheel, or somebody is *)
(* about to put it there, in whatever order osif_timer_set and timer_stub  *)
(* store the targets and call mod_timer().                                 *)
NotLost == wanted = "set" => armed \/ setter = "stored" \/ stub = "rearm"

(* A timer that is set is in the wheel and fires no later than it was set  *)
(* to, through all intermediate targets; only a setter that came late pays *)
(* with the next jiffy.  A call that meets timer_stub may be overruled by  *)
(* the mod_timer() of timer_stub and is left out.                          *)
InTime ==
  Quiet /\ wanted = "set" /\ ~raced =>
    armed /\ fireAt <= Later(realTgt, now + 1)

(* The function of a timer is not triggered before the time it is set to,  *)
(* unless the call that set it met timer_stub, whose decision to trigger   *)
(* may have been made for the time before.                                 *)
NotEarly == [][linked' /\ ~linked /\ ~raced => now >= realTgt]_vars

(* A timer that was set to 0 or destroyed is not in the wheel any more.    *)
DisabledStaysOut ==
  Quiet /\ wanted \in {"disabled", "destroyed"} => ~armed

=============================================================================

-------------------------- MODULE OsifTimerProofs --------------------------
(***************************************************************************)
(* Proofs about OsifTimer, for any delays, any wheel and any of the three  *)
(* ways to step, with timer_stub and the setter in any order: that a timer *)
(* that is set is never lost; and, if the last call did not meet           *)
(* timer_stub, that it expires neither too early nor too late and that a   *)
(* disabled or destroyed one is gone.  What the wheel does with a target   *)
(* rests on the powers of the ratio of its levels; the facts about them    *)
(* are proved by taking the least number that would refute them.           *)
(***************************************************************************)
EXTENDS OsifTimer, WellFoundedInduction, TLAPS

(* A set of natural numbers has a least element, one with an upper bound   *)
(* has a greatest: Max() of the community modules is defined.              *)
LEMMA Least ==
  ASSUME NEW T \in SUBSET Nat, T # {}
  PROVE  \E x \in T : \A y \in T : x <= y
<1> DEFINE R == {p \in Nat \X Nat : p[1] < p[2]}
<1>1. IsWellFoundedOn(R, Nat)
  BY NatLessThanWellFounded DEF OpToRel
<1>3. \A x, y \in Nat : <<y, x>> \in R <=> y < x
  OBVIOUS
<1> HIDE DEF R
<1>2. \E x \in T : \A y \in T : ~(<<y, x>> \in R)
  BY <1>1, WFMin
<1>4. PICK x \in T : \A y \in T : ~(<<y, x>> \in R)
  BY <1>2
<1>5. ASSUME NEW y \in T PROVE x <= y
  <2>1. ~(<<y, x>> \in R)
    BY <1>4
  <2>2. x \in Nat /\ y \in Nat
    OBVIOUS
  <2>3. ~(y < x)
    BY <2>1, <2>2, <1>3
  <2> QED BY <2>3, <2>2
<1> QED BY <1>5

LEMMA Greatest ==
  ASSUME NEW n \in Nat, NEW T \in SUBSET (0 .. n), T # {}
  PROVE  /\ Max(T) \in T
         /\ \A y \in T : y <= Max(T)
<1> DEFINE U == {x \in Nat : \E y \in T : x = n - y}
<1>0. PICK t \in T : TRUE
  OBVIOUS
<1>4. n - t \in U
  BY <1>0
<1>1. \E x \in U : \A y \in U : x <= y
  BY <1>4, Least
<1>2. PICK x \in U : \A y \in U : x <= y
  BY <1>1
<1>3. PICK m \in T : x = n - m
  BY <1>2
<1>5. ASSUME NEW y \in T PROVE m >= y
  <2>1. n - y \in U
    OBVIOUS
  <2>2. x <= n - y
    BY <1>2, <2>1
  <2> QED BY <1>3, <2>2
<1> QED BY <1>5 DEF Max

-----------------------------------------------------------------------------
(* Gran is defined by recursion.  A function of that kind exists: it is    *)
(* built from its initial segments.                                        *)
Steps(n, f) == /\ f \in [0 .. n -> Nat]
               /\ f[0] = 1
               /\ \A l \in 1 .. n : f[l] = Ratio * f[l - 1]

LEMMA StepsExist ==
  \A n \in Nat : \E f : Steps(n, f)
<1> DEFINE T == {n \in Nat : ~ \E f : Steps(n, f)}
<1>1. ASSUME T # {} PROVE FALSE
  <2>1. PICK n \in T : \A m \in T : n <= m
    BY <1>1, Least
  <2>2. n # 0
    <3>1. Steps(0, [i \in {0} |-> 1])
      BY DEF Steps
    <3> QED BY <3>1
  <2>3. n - 1 \in Nat /\ n - 1 \notin T
    BY <2>1, <2>2
  <2>4. PICK f : Steps(n - 1, f)
    BY <2>3
  <2> DEFINE g == [i \in 0 .. n |-> IF i = n THEN Ratio * f[n - 1] ELSE f[i]]
  <2>5. Steps(n, g)
    <3>1. Ratio * f[n - 1] \in Nat
      BY <2>3, <2>4, TimerAssumption DEF Steps
    <3>2. g \in [0 .. n -> Nat]
      BY <3>1, <2>3, <2>4 DEF Steps
    <3>3. g[0] = 1
      BY <2>3, <2>4, <2>2 DEF Steps
    <3>4. ASSUME NEW l \in 1 .. n PROVE g[l] = Ratio * g[l - 1]
      <4>1. CASE l = n
        <5>1. l - 1 \in 0 .. n /\ l - 1 # n /\ n \in 0 .. n
          BY <4>1, <2>3
        <5> QED BY <5>1, <4>1
      <4>2. CASE l # n
        <5>1. l \in 1 .. n - 1 /\ l \in 0 .. n /\ l - 1 \in 0 .. n /\ l - 1 # n
          BY <4>2, <2>3
        <5>2. f[l] = Ratio * f[l - 1]
          BY <5>1, <2>4 DEF Steps
        <5> QED BY <5>1, <5>2, <4>2
      <4> QED BY <4>1, <4>2
    <3> HIDE DEF g
    <3> QED BY <3>2, <3>3, <3>4 DEF Steps
  <2> QED BY <2>5
<1> QED BY <1>1

LEMMA StepsAgree ==
  ASSUME NEW n \in Nat, NEW f, NEW g, Steps(n, f), NEW m \in Nat, Steps(m, g), m >= n
  PROVE  \A l \in 0 .. n : f[l] = g[l]
<1> DEFINE T == {l \in Nat : l <= n /\ f[l] # g[l]}
<1>1. ASSUME T # {} PROVE FALSE
  <2>1. PICK l \in T : \A k \in T : l <= k
    BY <1>1, Least
  <2>2. l # 0
    BY DEF Steps
  <2>3. f[l - 1] = g[l - 1]
    BY <2>1, <2>2
  <2>4. l \in 1 .. n /\ l \in 1 .. m
    BY <2>2
  <2> QED BY <2>3, <2>4 DEF Steps
<1> QED BY <1>1

(* The granularities of the wheel levels are the powers of the ratio.      *)
LEMMA GranSteps ==
  /\ Gran \in [Nat -> Nat]
  /\ Gran[0] = 1
  /\ \A l \in Nat : Gran[l + 1] = Ratio * Gran[l]
<1> DEFINE Tower(n) == CHOOSE f : Steps(n, f)
           F == [n \in Nat |-> Tower(n)[n]]
<1>1. \A n \in Nat : Steps(n, Tower(n))
  BY StepsExist
<1> HIDE DEF Tower
<1>2. F \in [Nat -> Nat]
  BY <1>1 DEF Steps
<1>3. F[0] = 1
  BY <1>1 DEF Steps
<1>4. ASSUME NEW l \in Nat PROVE F[l + 1] = Ratio * F[l]
  <2>1. Steps(l, Tower(l)) /\ Steps(l + 1, Tower(l + 1))
    BY <1>1
  <2>2. Tower(l)[l] = Tower(l + 1)[l]
    BY <2>1, StepsAgree
  <2>3. Tower(l + 1)[l + 1] = Ratio * Tower(l + 1)[l]
    <3>1. l + 1 \in 1 .. l + 1 /\ (l + 1) - 1 = l
      OBVIOUS
    <3> QED BY <3>1, <2>1 DEF Steps
  <2> QED BY <2>2, <2>3
<1>5. F = [n \in Nat |-> IF n = 0 THEN 1 ELSE Ratio * F[n - 1]]
  <2>1. ASSUME NEW n \in Nat PROVE F[n] = IF n = 0 THEN 1 ELSE Ratio * F[n - 1]
    <3>1. CASE n = 0
      BY <3>1, <1>3
    <3>2. CASE n # 0
      <4>1. n - 1 \in Nat /\ (n - 1) + 1 = n
        BY <3>2
      <4> HIDE DEF F
      <4> QED BY <4>1, <1>4, <3>2
    <3> QED BY <3>1, <3>2
  <2> QED BY <2>1
<1> HIDE DEF F
<1>6. Gran = [n \in Nat |-> IF n = 0 THEN 1 ELSE Ratio * Gran[n - 1]]
  BY <1>5, Zenon DEF Gran
<1>7. Gran[0] = 1
  BY <1>6
<1>8. ASSUME NEW l \in Nat PROVE Gran[l + 1] = Ratio * Gran[l]
  <2>1. l + 1 \in Nat /\ l + 1 # 0 /\ (l + 1) - 1 = l
    OBVIOUS
  <2> QED BY <2>1, <1>6
<1>9. \A n \in Nat : Gran[n] = F[n]
  <2> DEFINE T == {n \in Nat : Gran[n] # F[n]}
  <2>1. ASSUME T # {} PROVE FALSE
    <3>1. PICK n \in T : \A m \in T : n <= m
      BY <2>1, Least
    <3>2. n # 0
      BY <1>7, <1>3
    <3>3. n - 1 \in Nat /\ n - 1 \notin T /\ (n - 1) + 1 = n
      BY <3>1, <3>2
    <3> QED BY <3>3, <1>4, <1>8
  <2> QED BY <2>1
<1>10. Gran = [n \in Nat |-> Gran[n]]
  BY <1>6
<1> QED BY <1>2, <1>7, <1>8, <1>9, <1>10

LEMMA GranPositive ==
  \A l \in Nat : Gran[l] \in Nat /\ Gran[l] >= 1
<1> DEFINE T == {l \in Nat : Gran[l] = 0}
<1>1. ASSUME T # {} PROVE FALSE
  <2>1. PICK l \in T : \A m \in T : l <= m
    BY <1>1, Least
  <2>2. l # 0
    BY GranSteps
  <2>3. l - 1 \in Nat /\ l - 1 \notin T /\ (l - 1) + 1 = l
    BY <2>1, <2>2
  <2>4. Gran[l] = Ratio * Gran[l - 1]
    BY <2>3, GranSteps
  <2>5. Gran[l - 1] \in Nat /\ Gran[l - 1] # 0
    BY <2>3, GranSteps
  <2> QED BY <2>4, <2>5, TimerAssumption
<1> QED BY <1>1, GranSteps

(* t is a multiple of g.                                                   *)
Multiple(t, g) == \E q \in Int : t = q * g

(* A slot of a level is made of slots of every level below.                *)
LEMMA SlotsNest ==
  ASSUME NEW k \in Nat
  PROVE  \A l \in Nat : k <= l => Multiple(Gran[l], Gran[k])
<1> DEFINE T == {l \in Nat : k <= l /\ ~Multiple(Gran[l], Gran[k])}
<1>1. ASSUME T # {} PROVE FALSE
  <2>1. PICK l \in T : \A m \in T : l <= m
    BY <1>1, Least
  <2>2. l # k
    <3>1. Gran[k] = 1 * Gran[k]
      BY GranPositive
    <3> QED BY <3>1 DEF Multiple
  <2>3. l - 1 \in Nat /\ l - 1 \notin T /\ (l - 1) + 1 = l /\ k <= l - 1
    BY <2>1, <2>2
  <2>4. PICK q \in Int : Gran[l - 1] = q * Gran[k]
    BY <2>3 DEF Multiple
  <2>5. Gran[l] = Ratio * Gran[l - 1]
    BY <2>3, GranSteps
  <2>6. Gran[l] = (Ratio * q) * Gran[k]
    BY <2>4, <2>5, GranPositive, TimerAssumption
  <2>7. Ratio * q \in Int
    BY TimerAssumption
  <2> QED BY <2>6, <2>7 DEF Multiple
<1> QED BY <1>1

LEMMA MultipleOfMultiple ==
  ASSUME NEW t \in Int, NEW g \in Int, NEW f \in Int,
         Multiple(t, g), Multiple(g, f)
  PROVE  Multiple(t, f)
<1>1. PICK q \in Int : t = q * g
  BY DEF Multiple
<1>2. PICK r \in Int : g = r * f
  BY DEF Multiple
<1>3. t = (q * r) * f
  BY <1>1, <1>2
<1>4. q * r \in Int
  OBVIOUS
<1> QED BY <1>3, <1>4 DEF Multiple

(* Masking the low bits of a target goes back to a multiple, by less than  *)
(* one slot.                                                               *)
LEMMA Masked ==
  ASSUME NEW t \in Nat, NEW g \in Nat, g >= 1
  PROVE  /\ Multiple(t - (t % g), g)
         /\ t - (t % g) \in Nat
         /\ t - (t % g) <= t
         /\ t - (t % g) > t - g
<1>1. t = (t \div g) * g + (t % g) /\ t \div g \in Nat /\ t % g \in 0 .. g - 1
  OBVIOUS
<1>2. t - (t % g) = (t \div g) * g
  BY <1>1
<1>3. (t \div g) * g \in Nat
  BY <1>1
<1>4. Multiple(t - (t % g), g)
  BY <1>1, <1>2 DEF Multiple
<1>5. t - (t % g) \in Nat
  BY <1>2, <1>3
<1>6. t - (t % g) <= t /\ t - (t % g) > t - g
  BY <1>1
<1> QED BY <1>4, <1>5, <1>6

-----------------------------------------------------------------------------
(***************************************************************************)
(* The inductive invariant.  Between the computation of an intermediate    *)
(* target and mod_timer() the clock may go on; the target stays one that   *)
(* the wheel hits, and no later than the timer is set to.                  *)
(***************************************************************************)
(* From jiffy n on, the wheel fires in jiffy t a timer with the expiry     *)
(* t - 1: t is a slot of every level the distance may fall into.           *)
Hits(n, t) ==
  \A l \in 1 .. MaxLvl - 1 : LevelStart(l) <= t - 1 - n => Multiple(t, Gran[l])

(* In jiffy n, t is a good target on the way to r.                         *)
Aims(n, r, t) == t <= Later(r, n + 1) /\ Hits(n, t)

-----------------------------------------------------------------------------
(***************************************************************************)
(* What the wheel does with a target.                                      *)
(***************************************************************************)
LEMMA LevelStartType ==
  ASSUME NEW l \in Nat, l >= 1
  PROVE  LevelStart(l) \in Nat /\ LevelStart(l) >= Gran[l]
<1>1. l - 1 \in Nat /\ (l - 1) + 1 = l
  OBVIOUS
<1>2. Gran[l - 1] \in Nat /\ Gran[l] = Ratio * Gran[l - 1]
  BY <1>1, GranSteps
<1>3. Ratio * Ratio - 1 \in Nat /\ Ratio * Ratio - 1 >= Ratio
  BY TimerAssumption
<1>4. (Ratio * Ratio - 1) * Gran[l - 1] >= Ratio * Gran[l - 1]
  BY <1>2, <1>3, TimerAssumption
<1>5. (Ratio * Ratio - 1) * Gran[l - 1] \in Nat
  BY <1>2, <1>3
<1> QED BY <1>2, <1>4, <1>5 DEF LevelStart

LEMMA GranGrows ==
  ASSUME NEW k \in Nat, NEW l \in Nat, k <= l
  PROVE  Gran[k] <= Gran[l]
<1>1. PICK q \in Int : Gran[l] = q * Gran[k]
  BY SlotsNest DEF Multiple
<1>2. Gran[l] \in Nat /\ Gran[l] >= 1 /\ Gran[k] \in Nat /\ Gran[k] >= 1
  BY GranPositive
<1>3. q >= 1
  BY <1>1, <1>2
<1> QED BY <1>1, <1>2, <1>3

(* A target that is near enough is on the first level, where every jiffy   *)
(* is a slot.                                                              *)
LEMMA NearIsHit ==
  ASSUME NEW n \in Nat, NEW t \in Nat, t - 1 - n < Ratio * Ratio - 1
  PROVE  Hits(n, t)
<1> SUFFICES ASSUME NEW l \in 1 .. MaxLvl - 1, LevelStart(l) <= t - 1 - n
             PROVE  FALSE
  BY DEF Hits
<1>1. l - 1 \in Nat
  BY TimerAssumption
<1>2. Gran[l - 1] \in Nat /\ Gran[l - 1] >= 1
  BY <1>1, GranPositive
<1>3. Ratio * Ratio - 1 \in Nat
  BY TimerAssumption
<1>4. (Ratio * Ratio - 1) * Gran[l - 1] >= Ratio * Ratio - 1
  BY <1>2, <1>3
<1>5. (Ratio * Ratio - 1) * Gran[l - 1] \in Nat
  BY <1>2, <1>3
<1> QED BY <1>3, <1>4, <1>5 DEF LevelStart

LEMMA HitsLater ==
  ASSUME NEW n \in Nat, NEW m \in Nat, n <= m, NEW t \in Nat, Hits(n, t)
  PROVE  Hits(m, t)
<1> SUFFICES ASSUME NEW l \in 1 .. MaxLvl - 1, LevelStart(l) <= t - 1 - m
             PROVE  Multiple(t, Gran[l])
  BY DEF Hits
<1>1. l \in Nat /\ l >= 1
  BY TimerAssumption
<1>2. LevelStart(l) \in Nat
  BY <1>1, LevelStartType
<1>3. LevelStart(l) <= t - 1 - n
  BY <1>2
<1> QED BY <1>3 DEF Hits

(* The next slot after the jiffy before a slot is that slot; in any case   *)
(* it is at most one slot away.                                            *)
LEMMA NextSlotType ==
  ASSUME NEW e \in Nat, NEW l \in Nat
  PROVE  NextSlot(e, l) \in Nat /\ NextSlot(e, l) <= e + Gran[l]
<1> DEFINE g == Gran[l]
<1>1. g \in Nat /\ g >= 1
  BY GranPositive
<1> HIDE DEF g
<1>2. /\ e + g = ((e + g) \div g) * g + ((e + g) % g)
      /\ (e + g) \div g \in Nat
      /\ (e + g) % g \in 0 .. g - 1
  BY <1>1
<1>3. ((e + g) \div g) * g \in Nat
  BY <1>1, <1>2
<1>4. ((e + g) \div g) * g <= e + g
  BY <1>1, <1>2, <1>3
<1> QED BY <1>3, <1>4 DEF NextSlot, g

LEMMA NextSlotHit ==
  ASSUME NEW e \in Nat, NEW l \in Nat, Multiple(e + 1, Gran[l])
  PROVE  NextSlot(e, l) = e + 1
<1> DEFINE g == Gran[l]
           d == (e + g) \div g
<1>1. g \in Nat /\ g >= 1
  BY GranPositive
<1>2. PICK q \in Int : e + 1 = q * g
  BY DEF Multiple
<1> HIDE DEF g
<1>3. e + g = d * g + ((e + g) % g) /\ d \in Nat /\ (e + g) % g \in 0 .. g - 1
  BY <1>1
<1> HIDE DEF d
<1>4. q * g + (g - 1) = d * g + ((e + g) % g)
  BY <1>1, <1>2, <1>3
<1>5. (q - d) * g = q * g - d * g
  BY <1>1, <1>3
<1>6. (q - d) * g \in (1 - g) .. 0
  <2>1. q * g \in Int /\ d * g \in Int
    BY <1>1, <1>3
  <2> QED BY <1>1, <1>3, <1>4, <1>5, <2>1
<1>7. q = d
  <2>1. CASE q - d >= 1
    BY <2>1, <1>1, <1>3, <1>6
  <2>2. CASE q - d <= -1
    <3>1. (d - q) * g >= g
      BY <2>2, <1>1, <1>3
    <3>2. (q - d) * g = -((d - q) * g)
      BY <1>1, <1>3
    <3>3. (d - q) * g \in Int
      BY <1>1, <1>3
    <3>4. (q - d) * g < 1 - g
      BY <3>1, <3>2, <3>3, <1>1
    <3> QED BY <3>4, <1>1, <1>6
  <2> QED BY <2>1, <2>2, <1>3
<1> QED BY <1>2, <1>7 DEF NextSlot, d, g

(* The level a distance falls into starts before it.                       *)
LEMMA LevelOf ==
  ASSUME NEW delta \in Nat
  PROVE  LET l == WheelLevel(delta) IN
         /\ l \in 0 .. MaxLvl - 1
         /\ l = 0 \/ LevelStart(l) <= delta
<1> DEFINE S == {0} \cup {l \in 1 .. MaxLvl - 1 : LevelStart(l) <= delta}
<1>1. S \in SUBSET (0 .. MaxLvl - 1) /\ S # {} /\ MaxLvl - 1 \in Nat
  BY TimerAssumption
<1>2. Max(S) \in S
  BY <1>1, Greatest
<1> QED BY <1>1, <1>2 DEF WheelLevel

(* A timer that is set to a target the wheel hits fires in time, even if   *)
(* the target is past, and what is beyond the capacity fires before it.    *)
LEMMA FiresInTime ==
  ASSUME now \in Nat, NEW t \in Nat, Hits(now, t)
  PROVE  Fires(t - 1) \in Nat /\ Fires(t - 1) <= Later(t, now + 1)
<1> DEFINE e == t - 1
           far == now + LevelStart(MaxLvl) - Gran[MaxLvl - 1]
<1>1. CASE e < now
  BY <1>1 DEF Fires, Later
<1>2. CASE e >= now /\ e - now < LevelStart(MaxLvl)
  <2>1. e \in Nat /\ e - now \in Nat
    BY <1>2
  <2> DEFINE l == WheelLevel(e - now)
  <2>2. l \in 0 .. MaxLvl - 1 /\ (l = 0 \/ LevelStart(l) <= e - now)
    BY <2>1, LevelOf
  <2> HIDE DEF l
  <2>3. l \in Nat
    BY <2>2, TimerAssumption
  <2>4. Multiple(t, Gran[l])
    <3>1. CASE l = 0
      BY <3>1, GranSteps DEF Multiple
    <3>2. CASE l # 0
      <4>1. l \in 1 .. MaxLvl - 1 /\ LevelStart(l) <= e - now
        BY <3>2, <2>2, TimerAssumption
      <4> QED BY <4>1 DEF Hits
    <3> QED BY <3>1, <3>2
  <2>5. NextSlot(e, l) = t
    BY <2>1, <2>3, <2>4, NextSlotHit
  <2>6. Fires(e) = NextSlot(e, l)
    BY <1>2, <2>1 DEF Fires, l
  <2> QED BY <2>5, <2>6 DEF Later
<1>3. CASE e >= now /\ ~(e - now < LevelStart(MaxLvl))
  <2>1. MaxLvl \in Nat /\ MaxLvl >= 1 /\ MaxLvl - 1 \in Nat
    BY TimerAssumption
  <2>2. LevelStart(MaxLvl) \in Nat /\ LevelStart(MaxLvl) >= Gran[MaxLvl]
    BY <2>1, LevelStartType
  <2>3. /\ Gran[MaxLvl - 1] \in Nat /\ Gran[MaxLvl - 1] <= Gran[MaxLvl]
        /\ Gran[MaxLvl] \in Nat
    BY <2>1, GranGrows, GranPositive
  <2>4. far \in Nat /\ far + Gran[MaxLvl - 1] = now + LevelStart(MaxLvl)
    BY <2>2, <2>3
  <2>5. /\ NextSlot(far, MaxLvl - 1) \in Nat
        /\ NextSlot(far, MaxLvl - 1) <= far + Gran[MaxLvl - 1]
    BY <2>1, <2>4, NextSlotType
  <2>6. Fires(e) = NextSlot(far, MaxLvl - 1)
    BY <1>3, <2>2 DEF Fires
  <2> HIDE DEF far
  <2> QED BY <1>3, <2>2, <2>4, <2>5, <2>6 DEF Later
<1>4. e \in Int
  OBVIOUS
<1>5. LevelStart(MaxLvl) \in Nat
  BY TimerAssumption, LevelStartType
<1> QED BY <1>1, <1>2, <1>3, <1>4, <1>5

(* next_lx_timer_target(): the targets of all three ways to step are hit   *)
(* by the wheel, and are not later than asked for.                         *)
LEMMA LowMaskedType ==
  ASSUME NEW t \in Nat, NEW l \in Nat
  PROVE  LowMasked(t, l) \in Nat /\ LowMasked(t, l) <= t
<1>1. l + 1 \in Nat /\ Gran[l + 1] \in Nat /\ Gran[l + 1] >= 1
  BY GranPositive
<1>2. t - (t % Gran[l + 1]) \in Nat /\ t - (t % Gran[l + 1]) <= t
  BY <1>1, Masked
<1>3. CASE l = 0
  BY <1>3 DEF LowMasked
<1>4. CASE l # 0
  BY <1>2, <1>4 DEF LowMasked
<1> QED BY <1>3, <1>4

LEMMA LevelStepHits ==
  ASSUME NEW n \in Nat, NEW t \in Nat
  PROVE  /\ LevelStep(n, t) \in Nat
         /\ LevelStep(n, t) <= t
         /\ Hits(n, LevelStep(n, t))
<1> DEFINE A == LevelsAhead(n, t)
<1>1. CASE A = {}
  <2>1. ~(n < LowMasked(t, 0))
    <3>1. 0 \in 0 .. MaxLvl - 1 /\ 0 .. 0 = {0}
      BY TimerAssumption
    <3> QED BY <3>1, <1>1 DEF LevelsAhead
  <2>2. t <= n
    BY <2>1 DEF LowMasked
  <2>3. t - 1 - n < Ratio * Ratio - 1
    <3>1. Ratio * Ratio - 1 \in Nat
      BY TimerAssumption
    <3> QED BY <3>1, <2>2
  <2> QED BY <1>1, <2>3, NearIsHit DEF LevelStep
<1>2. CASE A # {}
  <2> DEFINE m == Max(A)
             x == LowMasked(t, m)
  <2>1. MaxLvl - 1 \in Nat /\ A \in SUBSET (0 .. MaxLvl - 1)
    BY TimerAssumption DEF LevelsAhead
  <2>2. m \in A /\ \A l \in A : l <= m
    BY <1>2, <2>1, Greatest
  <2>3. m \in 0 .. MaxLvl - 1 /\ m \in Nat
    BY <2>1, <2>2
  <2>4. \A k \in 0 .. m : n < LowMasked(t, k)
    BY <2>2 DEF LevelsAhead
  <2>5. LevelStep(n, t) = x
    BY <1>2 DEF LevelStep
  <2> HIDE DEF A, m
  <2>6. x \in Nat /\ x <= t /\ n < x
    <3>1. m \in 0 .. m
      BY <2>3
    <3> QED BY <3>1, <2>3, <2>4, LowMaskedType
  <2>7. m + 1 \in Nat /\ m + 2 \in Nat
    BY <2>3
  <2>8. m # MaxLvl - 1 => x - 1 - n <= Gran[m + 2] - 2
    <3> SUFFICES ASSUME m # MaxLvl - 1
                 PROVE  x - 1 - n <= Gran[m + 2] - 2
      OBVIOUS
    <3>1. m + 1 \in 0 .. MaxLvl - 1 /\ m + 1 \notin A
      BY <2>1, <2>2, <2>3
    <3>2. ~(n < LowMasked(t, m + 1))
      <4>1. \A k \in 0 .. m + 1 : k \in 0 .. m \/ k = m + 1
        BY <2>3
      <4> QED BY <4>1, <3>1, <2>4 DEF LevelsAhead, A
    <3>3. LowMasked(t, m + 1) = t - (t % Gran[m + 2])
      BY <2>3 DEF LowMasked
    <3>4. Gran[m + 2] \in Nat /\ Gran[m + 2] >= 1
      BY <2>7, GranPositive
    <3>5. /\ LowMasked(t, m + 1) \in Nat
          /\ LowMasked(t, m + 1) > t - Gran[m + 2]
      BY <3>3, <3>4, Masked
    <3> QED BY <3>2, <3>4, <3>5, <2>6
  <2>9. CASE m = 0
    <3>1. 0 # MaxLvl - 1
      BY TimerAssumption
    <3>2. Gran[2] = Ratio * Ratio
      <4>1. Gran[1] = Ratio * 1
        BY GranSteps
      <4>2. Gran[2] = Ratio * Gran[1]
        BY GranSteps
      <4> QED BY <4>1, <4>2, TimerAssumption
    <3>3. x - 1 - n <= Ratio * Ratio - 2 /\ Ratio * Ratio \in Nat
      BY <3>1, <3>2, <2>8, <2>9, TimerAssumption
    <3>4. x - 1 - n < Ratio * Ratio - 1
      BY <3>3, <2>6
    <3> QED BY <3>4, <2>5, <2>6, NearIsHit
  <2>10. CASE m # 0
    <3>1. Gran[m + 1] \in Nat /\ Gran[m + 1] >= 1
      BY <2>7, GranPositive
    <3>2. Multiple(x, Gran[m + 1])
      BY <2>10, <2>3, <3>1, Masked DEF LowMasked
    <3>3. ASSUME NEW l \in 1 .. MaxLvl - 1, LevelStart(l) <= x - 1 - n
          PROVE  Multiple(x, Gran[l])
      <4>1. l \in Nat /\ l >= 1 /\ Gran[l] \in Nat
        BY TimerAssumption, GranPositive
      <4>2. l <= m + 1
        <5>1. CASE m = MaxLvl - 1
          BY <5>1, <2>3
        <5>2. CASE m # MaxLvl - 1
          <6> SUFFICES ASSUME m + 2 <= l
                       PROVE  FALSE
            BY <2>3, <4>1
          <6>1. Gran[m + 2] <= Gran[l] /\ Gran[m + 2] \in Nat
            BY <2>7, <4>1, GranGrows, GranPositive
          <6>2. LevelStart(l) \in Nat /\ LevelStart(l) >= Gran[l]
            BY <4>1, LevelStartType
          <6> QED BY <6>1, <6>2, <5>2, <4>1, <3>3, <2>6, <2>8
        <5> QED BY <5>1, <5>2
      <4>3. Multiple(Gran[m + 1], Gran[l])
        BY <4>1, <4>2, <2>7, SlotsNest
      <4> QED BY <4>1, <4>3, <3>1, <3>2, <2>6, MultipleOfMultiple
    <3> QED BY <3>3, <2>5, <2>6 DEF Hits
  <2> QED BY <2>9, <2>10
<1> QED BY <1>1, <1>2

(* Whichever way to step next_lx_timer_target() takes, its target is not   *)
(* later than the time asked for, or the next jiffy, and the wheel fires a *)
(* timer that is set to it in exactly that jiffy, from now or later.       *)
THEOREM NextTargetHits ==
  ASSUME talgo \in 0 .. 2, NEW n \in Nat, NEW t \in Nat
  PROVE  /\ NextTarget(n, t) \in Nat
         /\ NextTarget(n, t) <= Later(t, n + 1)
         /\ Hits(n, NextTarget(n, t))
<1>1. FixedStep \in Nat /\ FixedStep - 1 < Ratio * Ratio - 1 /\ FixedStep >= 1
      /\ 0 < Ratio * Ratio - 1
  BY TimerAssumption
<1>2. CASE talgo = 2
  BY <1>2, LevelStepHits DEF NextTarget, Later
<1>3. CASE talgo = 1
  <2>1. NextTarget(n, t) = FixedSteps(n, t)
    BY <1>3 DEF NextTarget
  <2>2. /\ FixedSteps(n, t) \in Nat
        /\ FixedSteps(n, t) <= t
        /\ FixedSteps(n, t) <= n + FixedStep
    BY <1>1 DEF FixedSteps
  <2>3. FixedSteps(n, t) - 1 - n < Ratio * Ratio - 1
    <3>1. Ratio * Ratio \in Nat
      BY TimerAssumption
    <3> QED BY <3>1, <1>1, <2>2
  <2> QED BY <2>1, <2>2, <2>3, NearIsHit DEF Later
<1>4. CASE talgo = 0
  <2>1. NextTarget(n, t) = n + 1
    BY <1>4 DEF NextTarget
  <2>2. Hits(n, n + 1)
    BY <1>1, NearIsHit
  <2> QED BY <2>1, <2>2 DEF Later
<1> QED BY <1>2, <1>3, <1>4

-----------------------------------------------------------------------------
(* What timer_stub is about to do is the wheel's to hit in any case, and   *)
(* in step with what the timer was last told unless that call met it.      *)
StubIsTrue ==
  /\ stub = "rearm" => Hits(now, stubTgt)
  /\ ~raced /\ stub = "rearm" => stubTgt <= Later(realTgt, now + 1)
  /\ ~raced /\ stub = "trigger" => wanted # "set" /\ now >= realTgt

TimerIInv ==
  /\ TimerTypeOK
  /\ setter = "stored" => Aims(now, realTgt, setTgt)
  /\ StubIsTrue
  /\ wanted = "destroyed" => setter = "idle"
  /\ FinalUnlessRaced
  /\ NotLost
  /\ InTime

LEMMA AimsLater ==
  ASSUME NEW n \in Nat, NEW r \in Nat, NEW t \in Nat, Aims(n, r, t)
  PROVE  Aims(n + 1, r, t)
<1>1. Hits(n + 1, t)
  BY HitsLater DEF Aims
<1>2. t <= Later(r, n + 2)
  BY DEF Aims, Later
<1> QED BY <1>1, <1>2 DEF Aims

LEMMA ArmedInTime ==
  ASSUME now \in Nat, realTgt \in Nat, NEW t \in Nat,
         Hits(now, t), ModTimer(t)
  PROVE  /\ armed' = TRUE /\ fireAt' \in Nat
         /\ t <= Later(realTgt, now + 1) => fireAt' <= Later(realTgt, now + 1)
<1>1. Fires(t - 1) \in Nat /\ Fires(t - 1) <= Later(t, now + 1)
  BY FiresInTime
<1> QED BY <1>1 DEF Later, ModTimer

LEMMA TimerInitially == Init => TimerIInv
<1> SUFFICES ASSUME Init PROVE TimerIInv
  OBVIOUS
<1>1. Horizon \in Nat
  BY TimerAssumption
<1>2. TimerTypeOK
  <2>1. now \in 0 .. Horizon /\ {realTgt, fireAt, setTgt, stubTgt} \subseteq Nat
    BY <1>1 DEF Init
  <2>2. armed \in BOOLEAN /\ linked \in BOOLEAN /\ raced \in BOOLEAN
    BY Zenon DEF Init
  <2> QED BY <2>1, <2>2 DEF Init, TimerTypeOK
<1>3. FinalUnlessRaced /\ InTime /\ NotLost /\ StubIsTrue
  BY DEF Init, FinalUnlessRaced, InTime, NotLost, StubIsTrue
<1> QED BY <1>2, <1>3 DEF Init, TimerIInv

(* The clock: every target stays in reach.                                 *)
LEMMA TickKept ==
  ASSUME TimerIInv, Tick
  PROVE  TimerIInv'
<1> USE DEF Tick, wheelVars, setVars, stubVars
<1>1. TimerTypeOK /\ now \in Nat /\ realTgt \in Nat /\ now' = now + 1
  BY TimerAssumption DEF TimerIInv, TimerTypeOK
<1>2. TimerTypeOK'
  BY <1>1, TimerAssumption DEF TimerTypeOK
<1>3. setter' = "stored" => Aims(now, realTgt, setTgt)'
  <2> SUFFICES ASSUME setter = "stored" PROVE Aims(now, realTgt, setTgt)'
    OBVIOUS
  <2>1. setTgt \in Nat /\ Aims(now, realTgt, setTgt) /\ setTgt' = setTgt
    BY DEF TimerIInv, TimerTypeOK
  <2> QED BY <2>1, <1>1, AimsLater
<1>4. StubIsTrue'
  <2>1. stubTgt \in Nat /\ stubTgt' = stubTgt /\ StubIsTrue
    BY DEF TimerIInv, TimerTypeOK
  <2>2. stub' = "rearm" => Hits(now, stubTgt)'
    BY <2>1, <1>1, HitsLater DEF StubIsTrue
  <2>3. ~raced' /\ stub' = "rearm" => stubTgt' <= Later(realTgt', now' + 1)
    BY <2>1, <1>1 DEF StubIsTrue, Later
  <2>4. ~raced' /\ stub' = "trigger" => wanted' # "set" /\ now' >= realTgt'
    BY <2>1, <1>1 DEF StubIsTrue
  <2> QED BY <2>2, <2>3, <2>4 DEF StubIsTrue
<1>5. InTime'
  BY <1>1 DEF TimerIInv, TimerTypeOK, InTime, Quiet, Later
<1>6. FinalUnlessRaced' /\ NotLost'
  BY DEF TimerIInv, FinalUnlessRaced, NotLost
<1>7. wanted' = "destroyed" => setter' = "idle"
  BY DEF TimerIInv
<1> QED BY <1>2, <1>3, <1>4, <1>5, <1>6, <1>7 DEF TimerIInv

LEMMA SetKept ==
  ASSUME TimerIInv, NEW d \in Delays, Set(d)
  PROVE  TimerIInv'
<1> USE DEF Set, MayCall, Meets, wheelVars, stubVars
<1>1. TimerTypeOK /\ now \in Nat /\ d \in Nat /\ now + d \in Nat /\ talgo \in 0 .. 2
  BY TimerAssumption DEF TimerIInv, TimerTypeOK
<1>2. /\ setTgt' \in Nat
      /\ setTgt' <= Later(realTgt', now' + 1)
      /\ Hits(now', setTgt')
  BY <1>1, NextTargetHits
<1>3. raced' \in BOOLEAN
  BY Zenon
<1>4. TimerTypeOK'
  BY <1>1, <1>2, <1>3 DEF TimerTypeOK
<1>5. Aims(now', realTgt', setTgt')
  BY <1>2 DEF Aims
<1>6. setter' = "stored" /\ wanted' = "set" /\ raced' = (stub' # "idle")
  OBVIOUS
<1>7. StubIsTrue'
  BY <1>6 DEF TimerIInv, StubIsTrue
<1> QED BY <1>4, <1>5, <1>6, <1>7
        DEF TimerIInv, FinalUnlessRaced, NotLost, InTime, Quiet

LEMMA SetArmKept ==
  ASSUME TimerIInv, SetArm
  PROVE  TimerIInv'
<1> USE DEF SetArm, stubVars
<1>1. /\ TimerTypeOK /\ now \in Nat /\ realTgt \in Nat /\ setTgt \in Nat
      /\ Aims(now, realTgt, setTgt)
  BY TimerAssumption DEF TimerIInv, TimerTypeOK
<1>2. armed' = TRUE /\ fireAt' \in Nat /\ fireAt' <= Later(realTgt, now + 1)
  BY <1>1, ArmedInTime DEF Aims
<1>3. TimerTypeOK'
  BY <1>1, <1>2 DEF TimerTypeOK
<1>4. InTime' /\ NotLost'
  BY <1>2 DEF InTime, NotLost, Later
<1>5. wanted' # "destroyed" /\ (wanted' = "disabled" => raced')
  BY DEF TimerIInv, FinalUnlessRaced
<1>6. StubIsTrue'
  BY DEF TimerIInv, StubIsTrue
<1> QED BY <1>3, <1>4, <1>5, <1>6 DEF TimerIInv, FinalUnlessRaced

LEMMA ExpireKept ==
  ASSUME TimerIInv, Expire
  PROVE  TimerIInv'
<1> USE DEF Expire, setVars
<1>1. /\ TimerTypeOK /\ now \in Nat /\ realTgt \in Nat /\ talgo \in 0 .. 2
      /\ now' = now /\ realTgt' = realTgt /\ raced' = raced
  BY TimerAssumption DEF TimerIInv, TimerTypeOK
<1>2. /\ setter' = "stored" => Aims(now', realTgt', setTgt')
      /\ wanted' = "destroyed" => setter' = "idle"
  BY DEF TimerIInv
<1>3. ~raced => wanted \notin {"disabled", "destroyed"}
  BY DEF TimerIInv, FinalUnlessRaced
<1>4. CASE Reached
  <2>1. TimerTypeOK'
    BY <1>1, <1>4 DEF TimerTypeOK
  <2>2. stub' = "trigger" /\ wanted' # "set" /\ now' >= realTgt'
    BY <1>1, <1>4 DEF Reached
  <2>3. FinalUnlessRaced'
    BY <1>1, <1>3 DEF FinalUnlessRaced
  <2> QED BY <1>2, <2>1, <2>2, <2>3
          DEF TimerIInv, StubIsTrue, NotLost, InTime, Quiet
<1>5. CASE ~Reached
  <2>1. /\ stubTgt' \in Nat
        /\ stubTgt' <= Later(realTgt', now' + 1)
        /\ Hits(now', stubTgt')
    BY <1>1, <1>5, NextTargetHits
  <2>2. TimerTypeOK'
    BY <1>1, <1>5, <2>1 DEF TimerTypeOK
  <2>3. stub' = "rearm" /\ wanted' = wanted
    BY <1>5
  <2>4. FinalUnlessRaced'
    BY <1>1, <1>3, <2>3 DEF FinalUnlessRaced
  <2>5. StubIsTrue'
    BY <2>1, <2>3 DEF StubIsTrue
  <2> QED BY <1>2, <2>2, <2>3, <2>4, <2>5
          DEF TimerIInv, NotLost, InTime, Quiet
<1> QED BY <1>4, <1>5

LEMMA StubRearmKept ==
  ASSUME TimerIInv, StubRearm
  PROVE  TimerIInv'
<1> USE DEF StubRearm, setVars
<1>1. /\ TimerTypeOK /\ now \in Nat /\ realTgt \in Nat /\ stubTgt \in Nat
      /\ Hits(now, stubTgt)
  BY TimerAssumption DEF TimerIInv, TimerTypeOK, StubIsTrue
<1>2. /\ armed' = TRUE /\ fireAt' \in Nat
      /\ ~raced => fireAt' <= Later(realTgt, now + 1)
  BY <1>1, ArmedInTime DEF TimerIInv, StubIsTrue
<1>3. TimerTypeOK'
  BY <1>1, <1>2 DEF TimerTypeOK
<1>4. InTime' /\ NotLost'
  BY <1>2 DEF InTime, NotLost, Later
<1>5. FinalUnlessRaced'
  BY DEF TimerIInv, FinalUnlessRaced
<1>6. /\ setter' = "stored" => Aims(now', realTgt', setTgt')
      /\ wanted' = "destroyed" => setter' = "idle"
  BY DEF TimerIInv
<1> QED BY <1>3, <1>4, <1>5, <1>6 DEF TimerIInv, StubIsTrue

LEMMA StubTriggerKept ==
  ASSUME TimerIInv, StubTrigger
  PROVE  TimerIInv'
<1> USE DEF StubTrigger, wheelVars, setVars
<1>1. TimerTypeOK'
  BY DEF TimerIInv, TimerTypeOK
<1>2. StubIsTrue' /\ FinalUnlessRaced' /\ NotLost'
  BY DEF TimerIInv, StubIsTrue, FinalUnlessRaced, NotLost
<1>3. InTime'
  BY DEF TimerIInv, TimerTypeOK, StubIsTrue, NotLost, InTime, Quiet
<1>4. /\ setter' = "stored" => Aims(now', realTgt', setTgt')
      /\ wanted' = "destroyed" => setter' = "idle"
  BY DEF TimerIInv
<1> QED BY <1>1, <1>2, <1>3, <1>4 DEF TimerIInv

(* The calls that only take the timer out of the wheel, and the steps that *)
(* do not come near it.                                                    *)
LEMMA OtherStepsKept ==
  ASSUME TimerIInv, Disable \/ Destroy \/ DpcRuns \/ UNCHANGED vars
  PROVE  TimerIInv'
<1> USE DEF TimerIInv, TimerTypeOK, StubIsTrue, FinalUnlessRaced, NotLost, InTime,
            Quiet
<1>1. CASE Disable \/ Destroy
  <2> USE DEF Disable, Destroy, MayCall, setVars, stubVars
  <2>1. stub' = stub /\ raced' = (stub # "idle")
    BY <1>1 DEF Meets
  <2>2. raced' \in BOOLEAN
    BY <2>1, Zenon
  <2>3. TimerTypeOK'
    <3>1. /\ UNCHANGED <<talgo, now, realTgt, setter, setTgt, stub, stubTgt>>
          /\ fireAt' = 0 /\ wanted' \in {"disabled", "destroyed"}
      BY <1>1
    <3>2. armed' \in BOOLEAN /\ linked' \in BOOLEAN
      BY <1>1, Zenon
    <3> QED BY <3>1, <3>2, <2>2
  <2>4. ~raced' => stub' = "idle"
    BY <2>1
  <2>5. wanted' \in {"disabled", "destroyed"} /\ ~armed' /\ setter' = "idle"
        /\ (wanted' = "destroyed" => ~linked')
    BY <1>1
  <2>6. stub' = "rearm" => Hits(now', stubTgt')
    BY <1>1
  <2> QED BY <2>3, <2>4, <2>5, <2>6
<1>2. CASE DpcRuns
  BY <1>2 DEF DpcRuns, wheelVars, setVars, stubVars
<1>3. CASE UNCHANGED vars
  BY <1>3 DEF vars, wheelVars, setVars, stubVars
<1> QED BY <1>1, <1>2, <1>3

LEMMA TimerKept == TimerIInv /\ [Next]_vars => TimerIInv'
BY SetKept, SetArmKept, ExpireKept, StubRearmKept, StubTriggerKept, TickKept,
   OtherStepsKept
   DEF Next

(* A call that disables or destroys a timer and does not meet timer_stub   *)
(* leaves the timer neither in the wheel nor with timer_stub, nor a freed  *)
(* DPC on the chain, whatever races earlier calls had with timer_stub.     *)
THEOREM TimerInvariant == Spec => []TimerInv
<1>1. TimerIInv => TimerInv
  BY DEF TimerIInv, TimerInv
<1> QED BY <1>1, TimerKept, TimerInitially, PTL DEF Spec

(* Between osif_timer_set(t, ms) and its expiry a timer is in the wheel or *)
(* about to be put there, with timer_stub anywhere on its way.             *)
THEOREM SetIsNotLost == Spec => []NotLost
<1>1. TimerIInv => NotLost
  BY DEF TimerIInv
<1> QED BY <1>1, TimerKept, TimerInitially, PTL DEF Spec

(* A timer fires no later than it is set to, whichever of the three ways   *)
(* to step is chosen and however far away the time is, unless the call     *)
(* that set it met timer_stub.                                             *)
THEOREM ExpiresInTime == Spec => []InTime
<1>1. TimerIInv => InTime
  BY DEF TimerIInv
<1> QED BY <1>1, TimerKept, TimerInitially, PTL DEF Spec

(* The function of a timer is not triggered before the time the timer is   *)
(* set to, whatever intermediate targets it went through, unless the call  *)
(* that set it met timer_stub.                                             *)
THEOREM NeverEarly == Spec => NotEarly
<1>1. ASSUME TimerIInv, Next, linked', ~linked, ~raced
      PROVE  now >= realTgt
  BY <1>1 DEF TimerIInv, StubIsTrue, Next, Set, SetArm, Disable, Destroy, Expire,
              StubRearm, StubTrigger, DpcRuns, Tick
<1>2. TimerIInv /\ [Next]_vars =>
        [linked' /\ ~linked /\ ~raced => now >= realTgt]_vars
  BY <1>1
<1>3. NotEarly <=> [][linked' /\ ~linked /\ ~raced => now >= realTgt]_vars
  BY DEF NotEarly
<1> QED BY <1>2, <1>3, TimerKept, TimerInitially, PTL DEF Spec

=============================================================================

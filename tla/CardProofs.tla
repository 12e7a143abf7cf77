----------------------------- MODULE CardProofs -----------------------------
(***************************************************************************)
(* Proofs about CardTable, for any number of devices, files, cards and     *)
(* nodes per card, when cards come and go with the module alone.           *)
(***************************************************************************)
EXTENDS CardTable, FiniteSetTheorems, TLAPS

(***************************************************************************)
(* Minors: card_no * NODES_PER_CARD + index, a number of its own for every *)
(* node.                                                                   *)
(***************************************************************************)
LEMMA MinorInTable ==
  ASSUME NEW c \in Nat, c < MaxCards, NEW i \in NodeIdx
  PROVE  c * NodesPerCard + i \in Minors
<1> DEFINE N == NodesPerCard
           M == MaxCards
<1>1. N \in Nat /\ N > 0 /\ M \in Nat /\ i \in Nat /\ i < N /\ c + 1 <= M
  BY CardAssumption DEF NodeIdx
<1> HIDE DEF N, M
<1>2. M - c - 1 \in Nat /\ (M - c - 1) * N >= 0
  BY <1>1
<1>3. (M - c - 1) * N = M * N - c * N - N
  BY <1>1
<1>4. c * N + i \in Int /\ 0 <= c * N + i /\ c * N + i <= M * N - 1
  BY <1>1, <1>2, <1>3
<1>5. M * N \in Int
  BY <1>1
<1> QED BY <1>4, <1>5 DEF Minors, N, M

LEMMA MinorApart ==
  ASSUME NEW c \in Nat, NEW e \in Nat, NEW i \in NodeIdx, NEW j \in NodeIdx,
         c * NodesPerCard + i = e * NodesPerCard + j
  PROVE  c = e /\ i = j
<1> DEFINE N == NodesPerCard
<1>1. N \in Nat /\ N > 0 /\ i \in Nat /\ i < N /\ j \in Nat /\ j < N
  BY CardAssumption DEF NodeIdx
<1>2. c * N + i = e * N + j
  OBVIOUS
<1> HIDE DEF N
<1>3. ASSUME NEW x \in Nat, NEW y \in Nat, NEW k \in 0 .. N - 1,
             NEW l \in 0 .. N - 1, x * N + k = y * N + l
      PROVE  ~(x < y)
  <2>1. (y - x - 1) * N = y * N - x * N - N
    BY <1>1
  <2>2. x < y => (y - x - 1) * N >= 0
    BY <1>1
  <2>3. x * N \in Int /\ y * N \in Int
    BY <1>1
  <2> QED BY <1>1, <1>3, <2>1, <2>2, <2>3
<1>4. i \in 0 .. N - 1 /\ j \in 0 .. N - 1
  BY <1>1
<1>5. ~(c < e) /\ ~(e < c)
  BY <1>2, <1>3, <1>4
<1>6. c = e
  BY <1>5
<1>7. c * N \in Int
  BY <1>1
<1> QED BY <1>1, <1>2, <1>6, <1>7

(* What the labels give back, with all that they fall through to.          *)
LEMMA Freed ==
  /\ FreedFrom("release_1") = {"msi", "master", "crd"}
  /\ {"crd", "bars", "master", "msi"} \subseteq FreedFrom("release_2")
  /\ {"crd", "bars", "master", "msi"} \subseteq FreedFrom("attach_1")
  /\ Parts \ Forgotten \subseteq FreedFrom("attach_2")
  /\ Parts \ Forgotten \subseteq FreedFrom("attach_3")
<1>1. /\ DOMAIN Labels = 1 .. 5
      /\ Labels[1] = "attach_3" /\ Labels[2] = "attach_2"
      /\ Labels[3] = "attach_1" /\ Labels[4] = "release_2"
      /\ Labels[5] = "release_1"
  BY DEF Labels
<1>2. /\ FreedAt(Labels[1]) = {} /\ FreedAt(Labels[2]) = {"irqs", "board"}
      /\ FreedAt(Labels[3]) = {} /\ FreedAt(Labels[4]) = {"bars"}
      /\ FreedAt(Labels[5]) = {"msi", "master", "crd"}
  BY <1>1 DEF FreedAt
<1> DEFINE From(label) == {j \in DOMAIN Labels :
                             \E i \in 1 .. j : Labels[i] = label}
<1>3. \A label : FreedFrom(label) = UNION {FreedAt(Labels[k]) : k \in From(label)}
  BY DEF FreedFrom
<1>4. /\ From("release_1") = {5}
      /\ 4 \in From("release_2") /\ 5 \in From("release_2")
      /\ 4 \in From("attach_1") /\ 5 \in From("attach_1")
      /\ {2, 4, 5} \subseteq From("attach_2")
      /\ {2, 4, 5} \subseteq From("attach_3")
  <2>1. From("release_1") = {5}
    BY <1>1
  <2>2. {2, 4, 5} \subseteq From("attach_3")
    BY <1>1
  <2>3. {2, 4, 5} \subseteq From("attach_2")
    BY <1>1
  <2>4. {4, 5} \subseteq From("attach_1")
    BY <1>1
  <2>5. {4, 5} \subseteq From("release_2")
    BY <1>1
  <2> QED BY <2>1, <2>2, <2>3, <2>4, <2>5
<1> HIDE DEF From
<1>5. \A label : \A k \in From(label) : FreedAt(Labels[k]) \subseteq FreedFrom(label)
  BY <1>3
<1>6. FreedFrom("release_1") = {"msi", "master", "crd"}
  BY <1>2, <1>3, <1>4
<1> QED BY <1>2, <1>4, <1>5, <1>6 DEF Parts, Forgotten

-----------------------------------------------------------------------------
(***************************************************************************)
(* The table without the nodes of one card.                                *)
(***************************************************************************)
(* The entries the code clears are those of the card, and of no other.     *)
LEMMA ClearedIsGone ==
  ASSUME CardInv, NEW d \in Devs, pc[d] \in {"attaching", "bound"},
         NEW m \in Minors
  PROVE  Cleared(d, nodesOf[d])[m] =
           IF nodes[m] # Null /\ nodes[m].dev = d THEN Null ELSE nodes[m]
<1>1. nodesOf[d] \subseteq NodeIdx /\ cardNo[d] \in Nat
  BY CardAssumption DEF CardInv, CardTypeOK
<1>2. CASE nodes[m] # Null /\ nodes[m].dev = d
  BY <1>2 DEF CardInv, TableTrue, Cleared
<1>3. CASE nodes[m] # Null /\ nodes[m].dev # d
  <2> DEFINE e == nodes[m].dev
             j == nodes[m].idx
  <2>1. e \in Devs /\ e # d /\ j \in NodeIdx /\ cardNo[e] \in Nat
    BY <1>3, CardAssumption DEF CardInv, CardTypeOK, NodeRefs
  <2>2. pc[e] \in {"attaching", "bound"} /\ Minor(e, j) = m
    BY <1>3 DEF CardInv, TableTrue, Entered
  <2>3. cardNo[e] # cardNo[d]
    <3>1. attached \in Nat
      BY CardAssumption DEF CardInv, CardTypeOK
    <3>2. Probed(d) => cardNo[d] = attached /\ pc[e] = "bound"
                         /\ module = "probing"
      BY <2>1, <2>2 DEF CardInv, NumbersApart, Probed
    <3>3. Probed(e) => cardNo[e] = attached /\ pc[d] = "bound"
                         /\ module = "probing"
      BY <2>1 DEF CardInv, NumbersApart, Probed
    <3>4. \A c \in Devs :
            pc[c] = "bound" /\ module # "removing" => cardNo[c] < attached
      BY DEF CardInv, NumbersApart, Bound
    <3>5. pc[d] = "bound" /\ pc[e] = "bound" => cardNo[e] # cardNo[d]
      BY <2>1 DEF CardInv, NumbersApart, Bound
    <3> HIDE DEF e, j
    <3> QED BY <1>1, <2>1, <2>2, <3>1, <3>2, <3>3, <3>4, <3>5 DEF Probed
  <2>4. \A i \in nodesOf[d] : m # Minor(d, i)
    BY <1>1, <2>1, <2>2, <2>3, MinorApart DEF Minor
  <2> QED BY <1>3, <2>4 DEF Cleared
<1>4. CASE nodes[m] = Null
  BY <1>4 DEF Cleared
<1> QED BY <1>2, <1>3, <1>4

(* A card that is gone, with its nodes and its entries.                    *)
LEMMA TableGone ==
  ASSUME CardInv, NEW d \in Devs, NEW q \in {"unbound", "oops"},
         pc' = [pc EXCEPT ![d] = q], UNCHANGED <<cardNo, next>>,
         nodesOf' = [nodesOf EXCEPT ![d] = {}],
         nodes' \in [Minors -> NodeRefs],
         \A m \in Minors : nodes'[m] =
           IF nodes[m] # Null /\ nodes[m].dev = d THEN Null ELSE nodes[m]
  PROVE  NodesHeld' /\ TableTrue'
<1> USE DEF CardInv
<1>1. /\ \A e \in Devs \ {d} :
           pc'[e] = pc[e] /\ nodesOf'[e] = nodesOf[e]
      /\ pc'[d] = q /\ nodesOf'[d] = {}
  BY DEF CardTypeOK
<1>2. ASSUME NEW e \in Devs \ {d}, NEW i \in nodesOf[e], Entered(e, i)
      PROVE  nodes'[Minor(e, i)] = Node(e, i)
  <2>1. nodes[Minor(e, i)] = Node(e, i)
    BY <1>2 DEF NodesHeld
  <2>2. cardNo[e] \in Nat /\ cardNo[e] < MaxCards /\ i \in NodeIdx
    BY <1>2, CardAssumption DEF CardTypeOK, NumbersApart, Entered
  <2>3. Minor(e, i) \in Minors
    BY <2>2, MinorInTable DEF Minor
  <2>4. Node(e, i).dev # d
    BY DEF Node
  <2> QED BY <2>1, <2>3, <2>4
<1>3. NodesHeld'
  <2>1. ASSUME NEW e \in Devs \ {d}
        PROVE  /\ \A i : Entered(e, i)' <=> Entered(e, i)
               /\ \A i : Minor(e, i)' = Minor(e, i)
    BY <1>1 DEF Entered, Minor
  <2> QED BY <1>1, <1>2, <2>1 DEF NodesHeld
<1>4. ASSUME NEW m \in Minors, nodes'[m] # Null
      PROVE  /\ Entered(nodes[m].dev, nodes[m].idx)'
             /\ nodes'[m].idx \in nodesOf'[nodes'[m].dev]
             /\ Minor(nodes[m].dev, nodes[m].idx)' = m
             /\ nodes'[m] = nodes[m]
  <2>1. nodes'[m] = nodes[m] /\ nodes[m] # Null /\ nodes[m].dev # d
    BY <1>4
  <2>2. nodes[m].dev \in Devs
    BY <2>1 DEF CardTypeOK, NodeRefs
  <2> QED BY <1>1, <2>1, <2>2 DEF TableTrue, Entered, Minor
<1>5. TableTrue'
  BY <1>4 DEF TableTrue, Entered, Minor
<1> QED BY <1>3, <1>5

-----------------------------------------------------------------------------
(***************************************************************************)
(* The steps of a probe.                                                   *)
(***************************************************************************)
(* Before the table is touched.                                            *)
LEMMA ProbeGoesOn ==
  ASSUME CardInv, NEW d \in Devs, Probed(d), pc[d] # "attaching",
         NEW q \in {"enabled", "mapped", "noded", "boarded", "attaching"},
         pc' = [pc EXCEPT ![d] = q],
         UNCHANGED <<module, osif, attached, cardNo, nodes, handle>>,
         NEW h \in SUBSET Parts, h \subseteq HeldAt(q) \cup Forgotten,
         held' = [held EXCEPT ![d] = h],
         NEW own \in SUBSET NodeIdx, nodesOf' = [nodesOf EXCEPT ![d] = own],
         NEW n \in 0 .. NodesPerCard, next' = [next EXCEPT ![d] = n],
         q \in {"enabled", "mapped"} => own = {},
         q \in {"noded", "boarded", "attaching"} =>
           own = NodeIdx /\ cardNo[d] < MaxCards,
         q = "attaching" => n = 0
  PROVE  CardInv'
<1> USE DEF CardInv
<1>1. /\ \A e \in Devs \ {d} :
           /\ pc'[e] = pc[e] /\ nodesOf'[e] = nodesOf[e]
           /\ held'[e] = held[e] /\ next'[e] = next[e]
      /\ pc'[d] = q /\ nodesOf'[d] = own /\ held'[d] = h /\ next'[d] = n
  BY DEF CardTypeOK
<1>2. CardTypeOK'
  BY DEF CardTypeOK, ProbePcs
<1>3. module = "probing"
  BY DEF NumbersApart
<1>4. ModuleTrue'
  BY <1>3 DEF ModuleTrue
<1>5. NumbersApart'
  <2>1. Bound' = Bound
    BY <1>1 DEF Bound, Probed
  <2>2. \A e \in Devs : Probed(e)' <=> Probed(e)
    BY <1>1 DEF Probed
  <2>3. ASSUME NEW e \in Devs,
               pc'[e] \in {"noded", "boarded", "attaching", "bound"}
        PROVE  cardNo'[e] < MaxCards'
    BY <1>1, <2>3 DEF NumbersApart
  <2> QED BY <2>1, <2>2, <2>3 DEF NumbersApart
<1>6. PartsHeld'
  BY <1>1 DEF PartsHeld
<1>7. \A i \in NodeIdx : ~Entered(d, i) /\ ~Entered(d, i)'
  BY <1>1 DEF Entered, Probed, NodeIdx
<1>8. NodesHeld'
  <2>1. ASSUME NEW e \in Devs \ {d}
        PROVE  \A i : /\ Entered(e, i)' <=> Entered(e, i)
                      /\ Minor(e, i)' = Minor(e, i)
    BY <1>1 DEF Entered, Minor
  <2>2. \A e \in Devs \ {d} : \A i \in nodesOf'[e] :
           Entered(e, i)' => nodes'[Minor(e, i)'] = Node(e, i)
    BY <1>1, <2>1 DEF NodesHeld
  <2>3. \A i \in nodesOf'[d] : ~Entered(d, i)'
    BY <1>1, <1>7
  <2>4. ASSUME NEW e \in Devs
        PROVE  /\ pc'[e] \in {"unbound", "oops", "card", "enabled", "mapped"}
                    => nodesOf'[e] = {}
               /\ pc'[e] \in {"noded", "boarded"} => nodesOf'[e] = NodeIdx
               /\ pc'[e] = "attaching" =>
                    \A i \in NodeIdx : i >= next'[e] => i \in nodesOf'[e]
    BY <1>1 DEF NodesHeld
  <2> QED BY <2>2, <2>3, <2>4 DEF NodesHeld, Minor
<1>9. TableTrue'
  <2>1. ASSUME NEW m \in Minors, nodes[m] # Null
        PROVE  nodes[m].dev \in Devs \ {d}
    BY <1>7, <2>1 DEF CardTypeOK, NodeRefs, TableTrue
  <2> QED BY <1>1, <2>1 DEF TableTrue, Entered, Minor
<1>10. NodesOutliveHandles'
  BY <1>3 DEF ModuleTrue, NodesOutliveHandles
<1> QED BY <1>2, <1>4, <1>5, <1>6, <1>8, <1>9, <1>10

(* When it fails, and has given back what can be given back.               *)
LEMMA ProbeStops ==
  ASSUME CardInv, NEW d \in Devs, Probed(d), NEW q \in {"unbound", "oops"},
         pc' = [pc EXCEPT ![d] = q],
         UNCHANGED <<module, osif, attached, cardNo, next, handle>>,
         NEW h \in SUBSET Forgotten, held' = [held EXCEPT ![d] = h],
         nodesOf' = [nodesOf EXCEPT ![d] = {}],
         nodes' = IF pc[d] = "attaching" THEN Cleared(d, nodesOf[d]) ELSE nodes
  PROVE  CardInv'
<1> USE DEF CardInv
<1>1. /\ \A e \in Devs \ {d} : pc'[e] = pc[e] /\ held'[e] = held[e]
      /\ pc'[d] = q /\ held'[d] = h
  BY DEF CardTypeOK
<1>2. module = "probing"
  BY DEF NumbersApart
<1>3. \A m \in Minors : nodes'[m] =
        IF nodes[m] # Null /\ nodes[m].dev = d THEN Null ELSE nodes[m]
  <2>1. CASE pc[d] = "attaching"
    BY <2>1, ClearedIsGone
  <2>2. CASE pc[d] # "attaching"
    BY <2>2 DEF TableTrue, Entered, Probed
  <2> QED BY <2>1, <2>2
<1>4. nodes' \in [Minors -> NodeRefs]
  BY DEF CardTypeOK, Cleared, NodeRefs
<1>5. NodesHeld' /\ TableTrue'
  BY <1>3, <1>4, TableGone
<1>6. CardTypeOK'
  <2>1. h \in SUBSET Parts
    BY DEF Forgotten, Parts
  <2> QED BY <1>4, <2>1 DEF CardTypeOK, ProbePcs
<1>7. ModuleTrue'
  BY <1>2 DEF ModuleTrue
<1>8. NumbersApart'
  <2>1. Bound' = Bound
    BY <1>1 DEF Bound, Probed
  <2>2. \A e \in Devs : Probed(e)' => Probed(e)
    BY <1>1 DEF Probed
  <2>3. ASSUME NEW e \in Devs,
               pc'[e] \in {"noded", "boarded", "attaching", "bound"}
        PROVE  cardNo'[e] < MaxCards'
    BY <1>1, <2>3 DEF NumbersApart
  <2> QED BY <2>1, <2>2, <2>3 DEF NumbersApart
<1>9. PartsHeld'
  BY <1>1 DEF PartsHeld
<1>10. NodesOutliveHandles'
  BY <1>2 DEF ModuleTrue, NodesOutliveHandles
<1> QED BY <1>5, <1>6, <1>7, <1>8, <1>9, <1>10

(* can_attach() at a label of its error paths.                             *)
LEMMA Fails ==
  ASSUME CardInv, NEW d \in Devs, Probed(d),
         NEW label, NEW got, NEW idxs, NEW n,
         FailAt(d, label, got, idxs, n),
         UNCHANGED <<module, osif, attached, cardNo, next, handle>>,
         (HeldAt(pc[d]) \cup got) \ FreedFrom(label) \subseteq Forgotten,
         idxs \subseteq 0 .. n - 1,
         pc[d] = "attaching" <=> label = "attach_3",
         label = "attach_3" => idxs = nodesOf[d]
  PROVE  CardInv'
<1> DEFINE h == (held[d] \cup got) \ FreedFrom(label)
<1>1. h \in SUBSET Forgotten
  BY DEF CardInv, PartsHeld
<1>2. held' = [held EXCEPT ![d] = h]
  BY DEF FailAt, CardInv, CardTypeOK
<1>3. nodesOf' = [nodesOf EXCEPT ![d] = {}]
  <2>1. idxs \ (0 .. n - 1) = {}
    OBVIOUS
  <2> QED BY <2>1 DEF FailAt
<1>4. nodes' = IF pc[d] = "attaching" THEN Cleared(d, nodesOf[d]) ELSE nodes
  BY DEF FailAt
<1> HIDE DEF h
<1> QED BY <1>1, <1>2, <1>3, <1>4, ProbeStops DEF FailAt

LEMMA Started ==
  ASSUME ~Hotplug, CardInv, NEW d \in Devs, ProbeStart(d)
  PROVE  CardInv'
<1> USE DEF CardInv
<1>1. /\ module = "probing" /\ pc[d] = "unbound"
      /\ \A e \in Devs : ~Probed(e)
      /\ pc' = [pc EXCEPT ![d] = "card"]
      /\ held' = [held EXCEPT ![d] = held[d] \cup {"crd"}]
      /\ cardNo' = [cardNo EXCEPT ![d] = attached]
      /\ UNCHANGED <<module, osif, attached, nodesOf, next, nodes, handle>>
  BY DEF ProbeStart, MayProbe, NobodyProbes, Probed
<1>2. /\ \A e \in Devs \ {d} :
           pc'[e] = pc[e] /\ held'[e] = held[e] /\ cardNo'[e] = cardNo[e]
      /\ pc'[d] = "card" /\ held'[d] = held[d] \cup {"crd"}
      /\ cardNo'[d] = attached
  BY <1>1 DEF CardTypeOK
<1>3. CardTypeOK'
  BY <1>1 DEF CardTypeOK, ProbePcs, Parts
<1>4. ModuleTrue'
  BY <1>1 DEF ModuleTrue
<1>5. NumbersApart'
  <2>1. Bound' = Bound /\ d \notin Bound
    BY <1>1, <1>2 DEF Bound
  <2>2. \A e \in Devs : Probed(e)' <=> e = d
    BY <1>1, <1>2 DEF Probed
  <2>3. ASSUME NEW e \in Devs,
               pc'[e] \in {"noded", "boarded", "attaching", "bound"}
        PROVE  cardNo'[e] < MaxCards'
    BY <1>2, <2>3 DEF NumbersApart
  <2>4. ASSUME NEW e \in Bound'
        PROVE  /\ module' # "removing" => cardNo'[e] < attached'
               /\ \A f \in Bound' \ {e} : cardNo'[f] # cardNo'[e]
    BY <1>1, <1>2, <2>1, <2>4 DEF NumbersApart, Bound
  <2>5. attached' = Cardinality(Bound')
    BY <1>1, <2>1 DEF NumbersApart
  <2> HIDE DEF CardInv
  <2> QED BY <1>1, <1>2, <2>2, <2>3, <2>4, <2>5 DEF NumbersApart
<1>6. PartsHeld'
  BY <1>1, <1>2 DEF PartsHeld, HeldAt
<1>7. \A e \in Devs : \A i \in NodeIdx : Entered(e, i)' <=> Entered(e, i)
  BY <1>1, <1>2 DEF Entered
<1>8. NodesHeld'
  <2>1. nodesOf[d] = {}
    BY <1>1 DEF NodesHeld
  <2>2. ASSUME NEW e \in Devs \ {d}
        PROVE  \A i : Minor(e, i)' = Minor(e, i) /\ (Entered(e, i)' <=> Entered(e, i))
    BY <1>1, <1>2 DEF Minor, Entered
  <2> QED BY <1>1, <1>2, <2>1, <2>2 DEF NodesHeld
<1>9. TableTrue'
  <2>1. ASSUME NEW m \in Minors, nodes[m] # Null
        PROVE  nodes[m].dev \in Devs \ {d}
    BY <1>1, <2>1 DEF CardTypeOK, NodeRefs, TableTrue, Entered
  <2> QED BY <1>1, <1>2, <2>1 DEF TableTrue, Entered, Minor
<1>10. NodesOutliveHandles'
  BY <1>1 DEF NodesOutliveHandles
<1> QED BY <1>3, <1>4, <1>5, <1>6, <1>8, <1>9, <1>10

LEMMA Prepared ==
  ASSUME CardInv, NEW d \in Devs, Enable(d) \/ MapBars(d)
  PROVE  CardInv'
<1>1. /\ held[d] \subseteq HeldAt(pc[d]) \cup Forgotten
      /\ nodesOf[d] \in SUBSET NodeIdx
      /\ pc[d] \in {"card", "enabled"} => nodesOf[d] = {}
      /\ next[d] \in 0 .. NodesPerCard
      /\ nodesOf = [nodesOf EXCEPT ![d] = nodesOf[d]]
      /\ next = [next EXCEPT ![d] = next[d]]
      /\ held = [held EXCEPT ![d] = held[d]]
      /\ held[d] \in SUBSET Parts
  BY DEF CardInv, CardTypeOK, PartsHeld, NodesHeld
<1>2. CASE Enable(d) /\ pc' = [pc EXCEPT ![d] = "enabled"]
  <2>1. HeldAt("enabled") = {"crd"} /\ HeldAt("card") = {"crd"}
    BY DEF HeldAt
  <2>2. /\ held' = [held EXCEPT ![d] = held[d] \cup {"enable"}]
        /\ nodesOf' = [nodesOf EXCEPT ![d] = {}]
        /\ next' = [next EXCEPT ![d] = next[d]]
        /\ UNCHANGED <<module, osif, attached, cardNo, nodes, handle>>
        /\ pc[d] = "card"
    BY <1>1, <1>2 DEF Enable, CardInv, CardTypeOK
  <2>3. /\ held[d] \cup {"enable"} \subseteq HeldAt("enabled") \cup Forgotten
        /\ held[d] \cup {"enable"} \in SUBSET Parts
    BY <1>1, <2>1, <2>2 DEF Forgotten, Parts
  <2> HIDE DEF HeldAt
  <2> QED BY <1>1, <1>2, <2>2, <2>3, ProbeGoesOn DEF Probed
<1>3. CASE Enable(d) /\ pc' = [pc EXCEPT ![d] = "oops"]
  <2> DEFINE h == held[d] \ FreedFrom("release_1")
  <2>1. h \in SUBSET Forgotten
    BY <1>1, <1>3, Freed DEF Enable, HeldAt
  <2>2. pc[d] = "card" /\ held' = [held EXCEPT ![d] = h]
    BY <1>3 DEF Enable, CardInv, CardTypeOK
  <2>3. nodesOf' = [nodesOf EXCEPT ![d] = {}]
    BY <1>1, <1>3, <2>2 DEF Enable
  <2> HIDE DEF h
  <2> QED BY <1>3, <2>1, <2>2, <2>3, ProbeStops DEF Enable, Probed
<1>4. CASE MapBars(d) /\ pc' = [pc EXCEPT ![d] = "mapped"]
  <2>1. HeldAt("mapped") = {"crd", "bars", "master", "msi"}
        /\ HeldAt("enabled") = {"crd"}
    BY DEF HeldAt
  <2>2. pc[d] = "enabled"
    BY <1>4 DEF MapBars
  <2>3. PICK msi \in SUBSET {"msi"} :
          held' = [held EXCEPT ![d] = held[d] \cup {"bars", "master"} \cup msi]
    BY <1>4, <2>2 DEF MapBars, FailAt, CardInv, CardTypeOK
  <2>4. UNCHANGED <<nodesOf, nodes>>
    BY <1>4, <2>2 DEF MapBars, FailAt, CardInv, CardTypeOK
  <2>5. held[d] \cup {"bars", "master"} \cup msi
          \subseteq HeldAt("mapped") \cup Forgotten
    BY <1>1, <2>1, <2>2
  <2>6. held[d] \cup {"bars", "master"} \cup msi \in SUBSET Parts
    BY <1>1 DEF Parts
  <2> HIDE DEF HeldAt
  <2> QED BY <1>1, <1>4, <2>2, <2>3, <2>4, <2>5, <2>6, ProbeGoesOn
          DEF MapBars, Probed
<1>5. CASE MapBars(d) /\ FailAt(d, "release_2", {"bars"}, {}, 0)
  <2>1. HeldAt("enabled") = {"crd"}
    BY DEF HeldAt
  <2> QED BY <1>5, <2>1, Freed, Fails DEF MapBars, Probed
<1> QED BY <1>2, <1>3, <1>4, <1>5 DEF Enable, MapBars

LEMMA AllocKeeps ==
  ASSUME CardInv, NEW d \in Devs, AllocNodes(d)
  PROVE  CardInv'
<1>1. /\ pc[d] = "mapped" /\ Probed(d) /\ held[d] \in SUBSET Parts
      /\ held[d] \subseteq HeldAt("noded") \cup Forgotten
      /\ HeldAt("mapped") = {"crd", "bars", "master", "msi"}
      /\ next[d] \in 0 .. NodesPerCard
      /\ held = [held EXCEPT ![d] = held[d]]
      /\ next = [next EXCEPT ![d] = next[d]]
      /\ UNCHANGED <<module, osif, attached, cardNo, next, handle>>
  BY DEF CardInv, CardTypeOK, PartsHeld, HeldAt, AllocNodes, Probed
<1>2. CASE /\ cardNo[d] < MaxCards
           /\ pc' = [pc EXCEPT ![d] = "noded"]
           /\ nodesOf' = [nodesOf EXCEPT ![d] = NodeIdx]
           /\ UNCHANGED <<held, nodes>>
  <2>1. /\ held' = [held EXCEPT ![d] = held[d]]
        /\ next' = [next EXCEPT ![d] = next[d]]
    BY <1>1, <1>2
  <2> QED BY <1>1, <1>2, <2>1, ProbeGoesOn
<1>3. ASSUME NEW n \in NodeIdx, FailAt(d, "attach_1", {}, 0 .. n - 1, n)
      PROVE  CardInv'
  <2>1. (HeldAt(pc[d]) \cup {}) \ FreedFrom("attach_1") \subseteq Forgotten
    BY <1>1, Freed
  <2> QED BY <1>1, <1>3, <2>1, Fails
<1>4. CASE FailAt(d, "release_2", {}, {}, 0)
  <2>1. (HeldAt(pc[d]) \cup {}) \ FreedFrom("release_2") \subseteq Forgotten
    BY <1>1, Freed
  <2> QED BY <1>1, <1>4, <2>1, Fails
<1> QED BY <1>2, <1>3, <1>4 DEF AllocNodes

LEMMA BoardKeeps ==
  ASSUME CardInv, NEW d \in Devs, AttachBoard(d)
  PROVE  CardInv'
<1>1. /\ pc[d] = "noded" /\ Probed(d) /\ held[d] \in SUBSET Parts
      /\ held[d] \subseteq {"crd", "bars", "master", "msi"} \cup Forgotten
      /\ HeldAt("noded") = {"crd", "bars", "master", "msi"}
      /\ HeldAt("boarded") = {"crd", "bars", "master", "msi", "board"}
      /\ nodesOf[d] = NodeIdx /\ cardNo[d] < MaxCards
      /\ next[d] \in 0 .. NodesPerCard
      /\ nodesOf = [nodesOf EXCEPT ![d] = NodeIdx]
      /\ next = [next EXCEPT ![d] = next[d]]
      /\ UNCHANGED <<module, osif, attached, cardNo, next, handle>>
  BY DEF CardInv, CardTypeOK, PartsHeld, HeldAt, NodesHeld, NumbersApart,
         AttachBoard, Probed
<1>2. CASE /\ pc' = [pc EXCEPT ![d] = "boarded"]
           /\ held' = [held EXCEPT ![d] = @ \cup {"board"}]
           /\ UNCHANGED <<nodesOf, nodes>>
  <2>1. /\ held' = [held EXCEPT ![d] = held[d] \cup {"board"}]
        /\ nodesOf' = [nodesOf EXCEPT ![d] = NodeIdx]
        /\ next' = [next EXCEPT ![d] = next[d]]
    BY <1>1, <1>2
  <2>2. /\ held[d] \cup {"board"} \in SUBSET Parts
        /\ held[d] \cup {"board"} \subseteq HeldAt("boarded") \cup Forgotten
    BY <1>1 DEF Parts
  <2> HIDE DEF HeldAt
  <2> QED BY <1>1, <1>2, <2>1, <2>2, ProbeGoesOn
<1>3. ASSUME NEW got \in SUBSET {"lock"},
             FailAt(d, "attach_1", got, nodesOf[d], NodesPerCard)
      PROVE  CardInv'
  <2>1. nodesOf[d] \subseteq 0 .. NodesPerCard - 1
    BY <1>1 DEF NodeIdx
  <2>2. (HeldAt(pc[d]) \cup got) \ FreedFrom("attach_1") \subseteq Forgotten
    BY <1>1, Freed DEF Forgotten
  <2> QED BY <1>1, <1>3, <2>1, <2>2, Fails
<1> QED BY <1>2, <1>3 DEF AttachBoard

LEMMA IrqsKeep ==
  ASSUME CardInv, NEW d \in Devs, RequestIrqs(d)
  PROVE  CardInv'
<1>1. /\ pc[d] = "boarded" /\ Probed(d) /\ held[d] \in SUBSET Parts
      /\ HeldAt("boarded") = {"crd", "bars", "master", "msi", "board"}
      /\ HeldAt("attaching") = Parts
      /\ nodesOf[d] = NodeIdx /\ cardNo[d] < MaxCards
      /\ nodesOf = [nodesOf EXCEPT ![d] = NodeIdx]
      /\ UNCHANGED <<module, osif, attached, cardNo, handle>>
  BY DEF CardInv, CardTypeOK, HeldAt, NodesHeld, NumbersApart, RequestIrqs,
         Probed
<1>2. CASE /\ pc' = [pc EXCEPT ![d] = "attaching"]
           /\ held' = [held EXCEPT ![d] = @ \cup {"irqs"}]
           /\ next' = [next EXCEPT ![d] = 0]
           /\ UNCHANGED <<nodesOf, nodes>>
  <2>1. /\ held' = [held EXCEPT ![d] = held[d] \cup {"irqs"}]
        /\ nodesOf' = [nodesOf EXCEPT ![d] = NodeIdx]
    BY <1>1, <1>2
  <2>2. /\ held[d] \cup {"irqs"} \in SUBSET Parts
        /\ held[d] \cup {"irqs"} \subseteq HeldAt("attaching")
        /\ 0 \in 0 .. NodesPerCard
    BY <1>1, CardAssumption DEF Parts
  <2> HIDE DEF HeldAt
  <2> QED BY <1>1, <1>2, <2>1, <2>2, ProbeGoesOn
<1>3. CASE /\ FailAt(d, "attach_2", {"irqs"}, nodesOf[d], NodesPerCard)
           /\ UNCHANGED next
  <2>1. nodesOf[d] \subseteq 0 .. NodesPerCard - 1
    BY <1>1 DEF NodeIdx
  <2>2. (HeldAt(pc[d]) \cup {"irqs"}) \ FreedFrom("attach_2") \subseteq Forgotten
    BY <1>1, Freed DEF Parts
  <2> QED BY <1>1, <1>3, <2>1, <2>2, Fails
<1> QED BY <1>2, <1>3 DEF RequestIrqs

(***************************************************************************)
(* The table is filled: a node that was attached takes the entry of its    *)
(* minor, which is nobody else's; one that was not leaves it empty.        *)
(***************************************************************************)
LEMMA NodeEntered ==
  ASSUME CardInv, NEW d \in Devs, AttachNode(d)
  PROVE  CardInv'
<1> USE DEF CardInv
<1> DEFINE k == next[d]
<1>1. /\ pc[d] = "attaching" /\ Probed(d) /\ module = "probing"
      /\ k \in NodeIdx /\ k + 1 \in 0 .. NodesPerCard
      /\ k \in nodesOf[d]
      /\ cardNo[d] \in Nat /\ cardNo[d] = attached /\ cardNo[d] < MaxCards
  BY CardAssumption
     DEF AttachNode, Probed, NumbersApart, NodesHeld, CardTypeOK, NodeIdx
<1>2. Minor(d, k) \in Minors
  BY <1>1, MinorInTable DEF Minor
<1>3. /\ next' = [next EXCEPT ![d] = k + 1] /\ next'[d] = k + 1
      /\ \A e \in Devs \ {d} : next'[e] = next[e]
      /\ UNCHANGED <<module, osif, attached, pc, cardNo, held, handle>>
  BY DEF AttachNode, CardTypeOK
<1>4. PICK v \in {Node(d, k), Null} :
        /\ nodes' = [nodes EXCEPT ![Minor(d, k)] = v]
        /\ nodesOf' = [nodesOf EXCEPT ![d] =
                         IF v = Null THEN nodesOf[d] \ {k} ELSE nodesOf[d]]
  <2>1. Node(d, k) # Null
    BY CardAssumption DEF Node, Null
  <2>2. CASE nodes' = [nodes EXCEPT ![Minor(d, k)] = Node(d, k)]
               /\ UNCHANGED nodesOf
    <3>1. nodesOf' = [nodesOf EXCEPT ![d] = nodesOf[d]]
      BY <2>2 DEF CardTypeOK
    <3> QED BY <2>1, <2>2, <3>1
  <2>3. CASE /\ nodes' = [nodes EXCEPT ![Minor(d, k)] = Null]
             /\ nodesOf' = [nodesOf EXCEPT ![d] = @ \ {k}]
    BY <2>3
  <2> QED BY <2>2, <2>3 DEF AttachNode
<1>5. /\ \A e \in Devs \ {d} : nodesOf'[e] = nodesOf[e]
      /\ nodesOf'[d] = IF v = Null THEN nodesOf[d] \ {k} ELSE nodesOf[d]
      /\ nodes'[Minor(d, k)] = v
      /\ \A m \in Minors \ {Minor(d, k)} : nodes'[m] = nodes[m]
  BY <1>2, <1>4 DEF CardTypeOK
<1>6. Node(d, k) \in NodeRefs /\ Null \in NodeRefs
  BY <1>1 DEF Node, NodeRefs
<1>7. CardTypeOK'
  BY <1>1, <1>3, <1>4, <1>6 DEF CardTypeOK
<1>8. \A e \in Devs \ {d}, i \in NodeIdx :
         Entered(e, i) => Minor(e, i) \in Minors \ {Minor(d, k)}
  <2> SUFFICES ASSUME NEW e \in Devs \ {d}, NEW i \in NodeIdx, Entered(e, i)
               PROVE  Minor(e, i) \in Minors \ {Minor(d, k)}
    OBVIOUS
  <2>1. pc[e] = "bound"
    BY <1>1 DEF NumbersApart, Probed, Entered
  <2>2. cardNo[e] \in Nat /\ cardNo[e] < MaxCards /\ cardNo[e] < attached
    BY <1>1, <2>1, CardAssumption DEF NumbersApart, Bound, CardTypeOK
  <2>3. attached \in Nat
    BY CardAssumption DEF CardTypeOK
  <2> QED BY <1>1, <2>2, <2>3, MinorInTable, MinorApart DEF Minor
<1>9. ASSUME NEW i \in nodesOf[d], i < k
      PROVE  Minor(d, i) \in Minors \ {Minor(d, k)}
  <2>1. i \in NodeIdx /\ i # k
    BY <1>1, <1>9 DEF CardTypeOK, NodeIdx
  <2> QED BY <1>1, <2>1, MinorInTable, MinorApart DEF Minor
<1>10. NodesHeld'
  <2>1. ASSUME NEW e \in Devs \ {d}, NEW i \in nodesOf'[e], Entered(e, i)'
        PROVE  nodes'[Minor(e, i)'] = Node(e, i)
    <3>1. i \in nodesOf[e] /\ i \in NodeIdx /\ Entered(e, i)
      BY <1>3, <1>5, <2>1 DEF Entered, CardTypeOK
    <3>2. Minor(e, i)' = Minor(e, i)
      BY <1>3 DEF Minor
    <3>3. nodes[Minor(e, i)] = Node(e, i)
      BY <3>1 DEF NodesHeld
    <3> QED BY <1>5, <1>8, <3>1, <3>2, <3>3
  <2>2. ASSUME NEW i \in nodesOf'[d], Entered(d, i)'
        PROVE  nodes'[Minor(d, i)'] = Node(d, i)
    <3>1. i \in nodesOf[d] /\ i \in NodeIdx /\ i < k + 1
      BY <1>1, <1>3, <1>5, <2>2 DEF Entered, CardTypeOK
    <3>2. Minor(d, i)' = Minor(d, i)
      BY <1>3 DEF Minor
    <3>3. CASE i = k
      BY <1>4, <1>5, <2>2, <3>2, <3>3
    <3>4. CASE i # k
      <4>1. i < k
        BY <1>1, <3>1, <3>4 DEF NodeIdx
      <4>2. nodes[Minor(d, i)] = Node(d, i)
        BY <1>1, <3>1, <4>1 DEF NodesHeld, Entered
      <4> QED BY <1>5, <1>9, <3>1, <3>2, <4>1, <4>2
    <3> QED BY <3>3, <3>4
  <2>3. ASSUME NEW i \in NodeIdx, i >= next'[d] PROVE i \in nodesOf'[d]
    <3>1. i >= k /\ i # k
      BY <1>1, <1>3, <2>3 DEF NodeIdx
    <3> QED BY <1>1, <1>5, <3>1 DEF NodesHeld
  <2>4. ASSUME NEW e \in Devs
        PROVE  /\ pc'[e] \in {"unbound", "oops", "card", "enabled", "mapped"}
                    => nodesOf'[e] = {}
               /\ pc'[e] \in {"noded", "boarded"} => nodesOf'[e] = NodeIdx
               /\ pc'[e] = "attaching" =>
                    \A i \in NodeIdx : i >= next'[e] => i \in nodesOf'[e]
    BY <1>1, <1>3, <1>5, <2>3 DEF NodesHeld
  <2> QED BY <2>1, <2>2, <2>4 DEF NodesHeld
<1>11. TableTrue'
  <2> SUFFICES ASSUME NEW m \in Minors, nodes'[m] # Null
               PROVE  /\ Entered(nodes[m].dev, nodes[m].idx)'
                      /\ nodes'[m].idx \in nodesOf'[nodes'[m].dev]
                      /\ Minor(nodes[m].dev, nodes[m].idx)' = m
    BY DEF TableTrue, Entered, Minor
  <2>1. CASE m = Minor(d, k)
    <3>1. nodes'[m] = Node(d, k) /\ v = Node(d, k)
      BY <1>4, <1>5, <2>1
    <3>2. nodes'[m].dev = d /\ nodes'[m].idx = k
      BY <3>1 DEF Node
    <3>3. pc'[d] = "attaching" /\ k < next'[d]
      BY <1>1, <1>3 DEF NodeIdx
    <3>4. k \in nodesOf'[d]
      BY <1>1, <1>5, <3>1, CardAssumption DEF Node, Null
    <3> HIDE DEF k
    <3> QED BY <1>3, <2>1, <3>2, <3>3, <3>4 DEF Minor, Entered
  <2>2. CASE m # Minor(d, k)
    <3>1. nodes'[m] = nodes[m] /\ nodes[m] # Null
      BY <1>5, <2>2
    <3> DEFINE e == nodes[m].dev
               i == nodes[m].idx
    <3>2. /\ e \in Devs /\ i \in NodeIdx /\ Entered(e, i)
          /\ i \in nodesOf[e] /\ Minor(e, i) = m
      BY <3>1 DEF CardTypeOK, NodeRefs, TableTrue
    <3>3. e = d => i # k
      BY <2>2, <3>2
    <3>4. i \in nodesOf'[e]
      BY <1>5, <3>2, <3>3
    <3>5. pc'[e] = "bound" \/ (pc'[e] = "attaching" /\ i < next'[e])
      BY <1>1, <1>3, <3>2 DEF Entered, NodeIdx
    <3> QED BY <1>3, <3>1, <3>2, <3>4, <3>5 DEF Entered, Minor
  <2> QED BY <2>1, <2>2
<1>12. ModuleTrue' /\ PartsHeld'
  BY <1>3 DEF ModuleTrue, PartsHeld
<1>13. NumbersApart'
  BY <1>3 DEF NumbersApart, Bound, Probed
<1>14. NodesOutliveHandles'
  BY <1>1, <1>3 DEF ModuleTrue, NodesOutliveHandles
<1> QED BY <1>7, <1>10, <1>11, <1>12, <1>13, <1>14

(* The card is there: the count of the attached cards, its number, goes    *)
(* to the next.                                                            *)
LEMMA CardBound ==
  ASSUME CardInv, NEW d \in Devs, AttachFinal(d)
  PROVE  CardInv'
<1> USE DEF CardInv
<1>1. /\ pc[d] = "attaching" /\ Probed(d) /\ module = "probing"
      /\ next[d] = NodesPerCard
      /\ cardNo[d] \in Nat /\ cardNo[d] = attached /\ cardNo[d] < MaxCards
      /\ attached \in Nat
      /\ UNCHANGED <<module, osif, cardNo, next, handle>>
  BY CardAssumption
     DEF AttachFinal, Probed, NumbersApart, CardTypeOK
<1>2. CASE FailAt(d, "attach_3", {}, nodesOf[d], NodesPerCard)
             /\ UNCHANGED attached
  <2>1. nodesOf[d] \subseteq 0 .. NodesPerCard - 1
    BY DEF CardTypeOK, NodeIdx
  <2>2. HeldAt(pc[d]) = Parts
    BY <1>1 DEF HeldAt
  <2>3. (HeldAt(pc[d]) \cup {}) \ FreedFrom("attach_3") \subseteq Forgotten
    BY <2>2, Freed
  <2> QED BY <1>1, <1>2, <2>1, <2>3, Fails
<1>3. CASE /\ pc' = [pc EXCEPT ![d] = "bound"]
           /\ attached' = attached + 1
           /\ UNCHANGED <<held, nodesOf, nodes>>
  <2>1. pc'[d] = "bound" /\ \A e \in Devs \ {d} : pc'[e] = pc[e]
    BY <1>3 DEF CardTypeOK
  <2>2. attached + 1 \in 0 .. MaxCards
    BY <1>1, CardAssumption
  <2>3. CardTypeOK'
    BY <1>1, <1>3, <2>2 DEF CardTypeOK, ProbePcs
  <2>4. ModuleTrue'
    BY <1>1, <2>1 DEF ModuleTrue
  <2>5. NumbersApart'
    <3>1. Bound' = Bound \cup {d} /\ d \notin Bound
      BY <1>1, <2>1 DEF Bound
    <3>2. IsFiniteSet(Bound)
      BY CardAssumption, FS_Subset DEF Bound
    <3>3. attached' = Cardinality(Bound')
      BY <1>3, <3>1, <3>2, FS_AddElement DEF NumbersApart
    <3>4. \A e \in Devs : ~Probed(e)'
      BY <1>1, <2>1 DEF NumbersApart, Probed
    <3>5. \A e \in Devs :
            pc'[e] \in {"noded", "boarded", "attaching", "bound"} =>
              cardNo'[e] < MaxCards
      BY <1>1, <2>1 DEF NumbersApart
    <3>6. \A e \in Bound : cardNo[e] < attached /\ cardNo[e] \in Nat
      BY <1>1, CardAssumption DEF NumbersApart, Bound, CardTypeOK
    <3>7. ASSUME NEW e \in Bound'
          PROVE  /\ module' # "removing" => cardNo'[e] < attached'
                 /\ \A f \in Bound' \ {e} : cardNo'[f] # cardNo'[e]
      <4>1. cardNo'[e] < attached'
        BY <1>1, <1>3, <3>1, <3>6
      <4>2. \A f \in Bound' \ {e} : cardNo'[f] # cardNo'[e]
        BY <1>1, <3>1, <3>6, <3>7 DEF NumbersApart
      <4> QED BY <4>1, <4>2
    <3> HIDE DEF CardInv
    <3> QED BY <3>3, <3>4, <3>5, <3>7 DEF NumbersApart
  <2>6. PartsHeld'
    <3>1. HeldAt("bound") = Parts
      BY DEF HeldAt
    <3> QED BY <1>3, <2>1, <3>1 DEF PartsHeld, CardTypeOK
  <2>7. \A e \in Devs, i \in NodeIdx : Entered(e, i)' <=> Entered(e, i)
    BY <1>1, <2>1, CardAssumption DEF Entered, NodeIdx
  <2>8. NodesHeld'
    <3>1. \A e \in Devs : \A i \in nodesOf'[e] :
            Entered(e, i)' => nodes'[Minor(e, i)'] = Node(e, i)
      BY <1>1, <1>3, <2>7 DEF NodesHeld, Minor, CardTypeOK
    <3> QED BY <1>1, <1>3, <2>1, <3>1 DEF NodesHeld
  <2>9. TableTrue'
    <3>1. \A m \in Minors : nodes[m] # Null =>
            nodes[m].dev \in Devs /\ nodes[m].idx \in NodeIdx
      BY DEF CardTypeOK, NodeRefs
    <3> QED BY <1>1, <1>3, <2>7, <3>1 DEF TableTrue, Minor, Entered
  <2>10. NodesOutliveHandles'
    BY <1>1, <1>3 DEF NodesOutliveHandles
  <2> QED BY <2>3, <2>4, <2>5, <2>6, <2>8, <2>9, <2>10
<1> QED BY <1>2, <1>3 DEF AttachFinal

(* A card is removed, with the driver: no handle is open any more.         *)
LEMMA CardDetached ==
  ASSUME ~Hotplug, CardInv, NEW d \in Devs, Detach(d)
  PROVE  CardInv'
<1> USE DEF CardInv
<1>1. /\ module = "removing" /\ pc[d] = "bound"
      /\ \A e \in Devs : ~Probed(e)
      /\ pc' = [pc EXCEPT ![d] = "unbound"]
      /\ attached' = attached - 1
      /\ nodes' = Cleared(d, nodesOf[d])
      /\ nodesOf' = [nodesOf EXCEPT ![d] = {}]
      /\ UNCHANGED <<module, osif, cardNo, next, handle>>
  BY DEF Detach, DetachCommon, NobodyProbes, Probed
<1> DEFINE h == held[d] \ ({"board", "irqs", "bars"} \cup {"msi", "master", "crd"})
<1>2. /\ held' = [held EXCEPT ![d] = h]
      /\ h \in SUBSET Forgotten /\ h \in SUBSET Parts
  BY DEF Detach, DetachCommon, CardTypeOK, Parts, Forgotten
<1> HIDE DEF h
<1>3. /\ \A e \in Devs \ {d} : pc'[e] = pc[e] /\ held'[e] = held[e]
      /\ pc'[d] = "unbound" /\ held'[d] = h
  BY <1>1, <1>2 DEF CardTypeOK
<1>4. \A m \in Minors : nodes'[m] =
        IF nodes[m] # Null /\ nodes[m].dev = d THEN Null ELSE nodes[m]
  BY <1>1, ClearedIsGone
<1>5. nodes' \in [Minors -> NodeRefs]
  BY <1>1 DEF CardTypeOK, Cleared, NodeRefs
<1>6. NodesHeld' /\ TableTrue'
  BY <1>1, <1>4, <1>5, TableGone
<1>7. /\ Bound' = Bound \ {d} /\ d \in Bound /\ IsFiniteSet(Bound)
      /\ attached = Cardinality(Bound)
  <2>1. IsFiniteSet(Bound)
    BY CardAssumption, FS_Subset DEF Bound
  <2> QED BY <1>1, <1>3, <2>1 DEF Bound, NumbersApart
<1>8. attached' = Cardinality(Bound') /\ attached' \in 0 .. MaxCards
  <2>1. Cardinality(Bound \ {d}) = attached - 1
    BY <1>7, FS_RemoveElement
  <2>2. IsFiniteSet(Bound \ {d})
    BY <1>7, FS_RemoveElement
  <2>3. Cardinality(Bound \ {d}) \in Nat
    BY <2>2, FS_CardinalityType
  <2> QED BY <1>1, <1>7, <2>1, <2>3, CardAssumption DEF CardTypeOK
<1>9. CardTypeOK'
  BY <1>1, <1>2, <1>5, <1>8 DEF CardTypeOK, ProbePcs
<1>10. ModuleTrue'
  BY <1>1 DEF ModuleTrue
<1>11. NumbersApart'
  <2>1. \A e \in Devs : ~Probed(e)'
    BY <1>1, <1>3 DEF Probed
  <2>2. \A e \in Devs :
          pc'[e] \in {"noded", "boarded", "attaching", "bound"} =>
            cardNo'[e] < MaxCards
    BY <1>1, <1>3 DEF NumbersApart
  <2>3. \A e \in Bound' : \A f \in Bound' \ {e} : cardNo'[f] # cardNo'[e]
    BY <1>1, <1>7 DEF NumbersApart
  <2> HIDE DEF CardInv
  <2> QED BY <1>1, <1>8, <2>1, <2>2, <2>3 DEF NumbersApart
<1>12. PartsHeld'
  BY <1>2, <1>3 DEF PartsHeld
<1>13. NodesOutliveHandles'
  BY <1>1 DEF ModuleTrue, NodesOutliveHandles
<1> QED BY <1>6, <1>9, <1>10, <1>11, <1>12, <1>13

-----------------------------------------------------------------------------
(***************************************************************************)
(* The module and the handles.                                             *)
(***************************************************************************)
(* A step that leaves the cards and the table alone.                       *)
LEMMA CardsUnmoved ==
  ASSUME CardInv, UNCHANGED <<attached, cardVars, nodes>>,
         NEW to \in Modules, module' = to, osif' \in BOOLEAN,
         handle' \in [Files -> NodeRefs], ModuleTrue', NodesOutliveHandles',
         \A d \in Devs : Probed(d) => to = "probing",
         Bound # {} /\ to # "removing" => module # "removing"
  PROVE  CardInv'
<1> USE DEF CardInv, cardVars
<1>1. CardTypeOK'
  BY DEF CardTypeOK
<1>2. NumbersApart'
  BY DEF NumbersApart, Bound, Probed
<1>3. PartsHeld' /\ NodesHeld' /\ TableTrue'
  BY DEF PartsHeld, NodesHeld, TableTrue, Entered, Minor
<1> QED BY <1>1, <1>2, <1>3

LEMMA ModuleSteps ==
  ASSUME CardInv, Load \/ RegisterFails \/ Registered \/ Unload \/ Unloaded
  PROVE  CardInv'
<1> USE DEF CardInv
<1>1. /\ UNCHANGED <<attached, cardVars, nodes, handle>>
      /\ module' \in Modules /\ osif' \in BOOLEAN
      /\ handle' \in [Files -> NodeRefs]
  BY DEF Load, RegisterFails, Registered, Unload, Unloaded, Modules,
         CardTypeOK
<1>2. ModuleTrue'
  BY <1>1 DEF ModuleTrue, Load, RegisterFails, Registered, Unload, Unloaded,
              cardVars, Modules
<1>3. NodesOutliveHandles'
  BY <1>1 DEF NodesOutliveHandles, cardVars
<1>4. \A d \in Devs : Probed(d) => module' = "probing"
  BY DEF Load, RegisterFails, Registered, Unload, Unloaded, NobodyProbes,
         Probed, NumbersApart
<1>5. Bound # {} /\ module' # "removing" => module # "removing"
  BY DEF Load, RegisterFails, Registered, Unload, Unloaded, Bound
<1> QED BY <1>1, <1>2, <1>3, <1>4, <1>5, CardsUnmoved

LEMMA HandleSteps ==
  ASSUME CardInv, NEW f \in Files,
         Release(f) \/ \E m \in Minors : Create(f, m)
  PROVE  CardInv'
<1> USE DEF CardInv
<1>1. /\ UNCHANGED <<module, osif, attached, cardVars, nodes>>
      /\ module \in Modules /\ osif \in BOOLEAN
  BY DEF Release, Create, CardTypeOK
<1>2. /\ handle' \in [Files -> NodeRefs]
      /\ ModuleTrue' /\ NodesOutliveHandles'
  <2>1. CASE Release(f)
    <3>1. handle' = [handle EXCEPT ![f] = Null] /\ Null \in NodeRefs
      BY <2>1 DEF Release, NodeRefs
    <3> QED BY <1>1, <3>1
            DEF CardTypeOK, ModuleTrue, NodesOutliveHandles, cardVars
  <2>2. ASSUME NEW m \in Minors, Create(f, m)
        PROVE  /\ handle' \in [Files -> NodeRefs]
               /\ ModuleTrue' /\ NodesOutliveHandles'
    <3>1. /\ handle' = [handle EXCEPT ![f] = nodes[m]] /\ module = "live"
          /\ nodes[m] # Null /\ nodes[m] \in NodeRefs
      BY <2>2 DEF Create, CardTypeOK
    <3>2. nodes[m].idx \in nodesOf[nodes[m].dev]
      BY <3>1 DEF TableTrue
    <3> QED BY <1>1, <3>1, <3>2
            DEF CardTypeOK, ModuleTrue, NodesOutliveHandles, cardVars
  <2> QED BY <2>1, <2>2
<1>3. \A d \in Devs : Probed(d) => module = "probing"
  BY DEF NumbersApart
<1> QED BY <1>1, <1>2, <1>3, CardsUnmoved

-----------------------------------------------------------------------------
(***************************************************************************)
(* Theorems.                                                               *)
(***************************************************************************)
LEMMA CardsInitially == Init => CardInv
<1> SUFFICES ASSUME Init PROVE CardInv
  OBVIOUS
<1>1. Bound = {} /\ Cardinality(Bound) = 0
  BY FS_EmptySet DEF Init, Bound
<1>2. CardTypeOK
  <2>1. 0 \in 0 .. MaxCards /\ 0 \in 0 .. NodesPerCard
    BY CardAssumption
  <2>2. Null \in NodeRefs
    BY DEF NodeRefs
  <2> HIDE DEF Null
  <2> QED BY <2>1, <2>2 DEF Init, CardTypeOK, Modules, ProbePcs
<1>3. NumbersApart
  BY <1>1 DEF Init, NumbersApart, Probed
<1> QED
  BY <1>2, <1>3
     DEF Init, CardInv, ModuleTrue, PartsHeld, NodesHeld, TableTrue, Entered,
         NodesOutliveHandles

LEMMA CardsKept ==
  ASSUME ~Hotplug, CardInv, [Next]_vars
  PROVE  CardInv'
<1>1. ASSUME NEW d \in Devs, Probe(d) \/ Detach(d) PROVE CardInv'
  BY <1>1, Started, Prepared, AllocKeeps, BoardKeeps, IrqsKeep, NodeEntered,
     CardBound, CardDetached DEF Probe
<1>2. CASE Load \/ RegisterFails \/ Registered \/ Unload \/ Unloaded
  BY <1>2, ModuleSteps
<1>3. ASSUME NEW f \in Files, Release(f) \/ \E m \in Minors : Create(f, m)
      PROVE  CardInv'
  BY <1>3, HandleSteps
<1>4. CASE UNCHANGED vars
  BY <1>4 DEF vars, cardVars, CardInv, CardTypeOK, ModuleTrue, NumbersApart,
              PartsHeld, NodesHeld, TableTrue, NodesOutliveHandles, Bound,
              Probed, Entered, Minor
<1> QED BY <1>1, <1>2, <1>3, <1>4 DEF Next

(* As long as cards come and go with the module alone, the count of the    *)
(* attached cards is a free card number at every probe, and the nodes, the *)
(* parts and the entries of a card are those of the step its probe is at.  *)
THEOREM CardInvariance ==
  ASSUME ~Hotplug
  PROVE  Spec => []CardInv
<1>1. CardInv /\ [Next]_vars => CardInv'
  BY CardsKept
<1> QED BY <1>1, CardsInitially, PTL DEF Spec

(* nodes[] leads from a minor to the node with this minor and to no freed  *)
(* one, and every attached node is found under its minor.                  *)
THEOREM MinorsAreTrue ==
  ASSUME ~Hotplug
  PROVE  Spec => []MinorsTrue
<1>1. CardInv => MinorsTrue
  BY DEF CardInv, MinorsTrue, TableTrue, NodesHeld, Entered
<1> QED BY <1>1, CardInvariance, PTL

(* A probe that fails, at whatever step, and a removal give back all that  *)
(* can_attach had acquired but the enable of the device and, when          *)
(* can_board_attach() fails, crd->lock_irq.                                *)
THEOREM OnlyForgottenLeft ==
  ASSUME ~Hotplug
  PROVE  Spec => []OnlyForgottenLeaks
<1>1. ASSUME CardInv, NEW d \in Devs, pc[d] \in {"unbound", "oops"}
      PROVE  /\ held[d] \subseteq Forgotten /\ nodesOf[d] = {}
             /\ \A m \in Minors : nodes[m] # Null => nodes[m].dev # d
  <2>1. held[d] \subseteq Forgotten
    BY <1>1 DEF CardInv, PartsHeld, HeldAt
  <2>2. nodesOf[d] = {}
    BY <1>1 DEF CardInv, NodesHeld
  <2> QED BY <1>1, <2>1, <2>2 DEF CardInv, TableTrue, Entered
<1>2. CardInv => OnlyForgottenLeaks
  BY <1>1 DEF OnlyForgottenLeaks
<1> QED BY <1>2, CardInvariance, PTL

(* No handle keeps the pointer to a node that was freed.                   *)
THEOREM HandlesKeepNodes ==
  ASSUME ~Hotplug
  PROVE  Spec => []NodesOutliveHandles
<1>1. CardInv => NodesOutliveHandles
  BY DEF CardInv
<1> QED BY <1>1, CardInvariance, PTL

(* Whatever a card holds, its interrupt and its timers among it, it holds  *)
(* between OSIF_ATTACH and OSIF_DETACH.                                    *)
THEOREM OsifOutlives ==
  ASSUME ~Hotplug
  PROVE  Spec => []OsifOutlivesCards
<1>1. CardInv => OsifOutlivesCards
  BY DEF CardInv, OsifOutlivesCards, ModuleTrue, PartsHeld, HeldAt
<1> QED BY <1>1, CardInvariance, PTL

=============================================================================

------------------------------ MODULE CardTable ------------------------------
(***************************************************************************)
(* Loading and unloading of the driver module, the probing and removal of  *)
(* its PCI cards, and the table nodes[] that leads from the minor number   *)
(* of a device file to the CAN_NODE a handle is created on.                *)
(*                                                                         *)
(* can_attach() acquires the parts of a card one after the other; when one *)
(* fails it jumps to a label, and the labels fall through to each other.   *)
(* Nothing of this holds a lock of the driver.  Probes and removals are    *)
(* modelled one at a time, as pci_register_driver() and                    *)
(* pci_unregister_driver() make them.                                      *)
(***************************************************************************)
EXTENDS Integers, FiniteSets

CONSTANTS
  Devs,          (* PCI devices that match esdcan_pci_tbl.                 *)
  Files,         (* Open device files.                                     *)
  MaxCards,      (* MAX_CARDS: 16 in boardrc.h.                            *)
  NodesPerCard,  (* NODES_PER_CARD: 8 in boardrc.h.                        *)
  Hotplug        (* Whether devices come and go while the module is loaded.*)

ASSUME CardAssumption ==
  /\ IsFiniteSet(Devs)
  /\ MaxCards \in Nat \ {0}
  /\ NodesPerCard \in Nat \ {0}
  /\ Hotplug \in BOOLEAN
  /\ "none" \notin Devs           (* The device of Null.                  *)

VARIABLES
  module,    (* Where esdcan_pci_init() and esdcan_pci_exit() are.         *)
  osif,      (* OSIF_ATTACH() was done: DPCs and timers work.              *)
  attached,  (* esdcan_pci_attached_cards                                  *)
  pc,        (* How far can_attach() is for each device.                   *)
  cardNo,    (* crd->card_no                                               *)
  held,      (* What the card holds, besides its nodes; and what its       *)
             (* probes and removals forgot.                                *)
  nodesOf,   (* The i with crd->node[i] # NULL.                            *)
  next,      (* idx_node of the loop that calls nuc_node_attach.           *)
  nodes,     (* nodes[minor]: the device and index of a CAN_NODE, or Null. *)
  handle     (* ocb->node of each file, Null while there is no OCB.        *)

cardVars == <<pc, cardNo, held, nodesOf, next>>
vars == <<module, osif, attached, cardVars, nodes, handle>>

Modules == {"out", "probing", "live", "removing"}
ProbePcs == {"unbound", "card", "enabled", "mapped", "noded", "boarded",
             "attaching", "bound", "oops"}
Parts == {"crd", "enable", "bars", "master", "msi", "lock", "board", "irqs"}

(* What no path gives back: the enable of pci_enable_device(), and the     *)
(* crd->lock_irq of a can_board_attach() that fails.  Otherwise this lock  *)
(* is part of the "board", which can_board_detach() gives back.            *)
Forgotten == {"enable", "lock"}

Null == [dev |-> "none", idx |-> 0]
NodeIdx == 0 .. NodesPerCard - 1
Minors == 0 .. MaxCards * NodesPerCard - 1
Node(d, i) == [dev |-> d, idx |-> i]
Minor(d, i) == cardNo[d] * NodesPerCard + i

(* The table when the entries of the nodes idxs of d are set to NULL.      *)
ClearedKeeps(d, idxs) == nodes    \* mutant: nodes[] is left as it is

Cleared(d, idxs) ==
  [m \in Minors |-> IF \E i \in idxs : m = Minor(d, i) THEN Null ELSE nodes[m]]

-----------------------------------------------------------------------------
(***************************************************************************)
(* The error labels, in the order in which they fall through: those of     *)
(* can_attach_common, then release_2 and release_1 of can_attach.          *)
(***************************************************************************)
Labels == <<"attach_3", "attach_2", "attach_1", "release_2", "release_1">>

FreedAtNoBars(label) ==           \* mutant: pci_bars_release() is forgotten
  CASE label = "attach_2"  -> {"irqs", "board"}
    [] label = "release_1" -> {"msi", "master", "crd"}
    [] OTHER               -> {}

FreedAt(label) ==
  CASE label = "attach_2"  -> {"irqs", "board"}
    [] label = "release_2" -> {"bars"}
    [] label = "release_1" -> {"msi", "master", "crd"}
    [] OTHER               -> {}

FreedFrom(label) ==
  UNION {FreedAt(Labels[k]) : k \in {j \in DOMAIN Labels :
           \E i \in 1 .. j : Labels[i] = label}}

(* can_attach() for d ends at a label with an error, after a loop that got *)
(* some of the part got, when crd->node[] has the nodes idxs and idx_node  *)
(* is n: attach_1 frees the nodes below n.                                 *)
FailAt(d, label, got, idxs, n) ==
  /\ pc' = [pc EXCEPT ![d] = "unbound"]
  /\ held' = [held EXCEPT ![d] = (@ \cup got) \ FreedFrom(label)]
  /\ nodesOf' = [nodesOf EXCEPT ![d] = idxs \ (0 .. n - 1)]
  /\ nodes' = IF label = "attach_3" THEN Cleared(d, idxs) ELSE nodes

-----------------------------------------------------------------------------
NobodyProbes == \A d \in Devs : pc[d] \in {"unbound", "bound"}

MayProbe ==
  /\ module = "probing" \/ (Hotplug /\ module = "live")
  /\ NobodyProbes

(* can_attach: the card structure and its number.                          *)
ProbeStart(d) ==
  /\ MayProbe
  /\ pc[d] = "unbound"
  /\ pc' = [pc EXCEPT ![d] = "card"]
  /\ held' = [held EXCEPT ![d] = @ \cup {"crd"}]
  /\ cardNo' = [cardNo EXCEPT ![d] = attached]
  /\ UNCHANGED <<module, osif, attached, nodesOf, next, nodes, handle>>

(***************************************************************************)
(* pci_enable_device.  When it fails, result is set but not lastError: the *)
(* card is freed and can_attach returns OSIF_SUCCESS, and esdcan_init goes *)
(* on to esdcan_show_card_info with the NULL pointer of a device without a *)
(* card.                                                                   *)
(***************************************************************************)
Enable(d) ==
  /\ pc[d] = "card"
  /\ \/ /\ pc' = [pc EXCEPT ![d] = "enabled"]
        /\ held' = [held EXCEPT ![d] = @ \cup {"enable"}]
     \/ /\ pc' = [pc EXCEPT ![d] = "oops"]
        /\ held' = [held EXCEPT ![d] = @ \ FreedFrom("release_1")]
  /\ UNCHANGED <<module, osif, attached, cardNo, nodesOf, next, nodes, handle>>

(* The loop over the BARs, pci_set_master and pci_enable_msi, which may    *)
(* fail without an error.                                                  *)
MapBars(d) ==
  /\ pc[d] = "enabled"
  /\ \/ /\ pc' = [pc EXCEPT ![d] = "mapped"]
        /\ \E msi \in SUBSET {"msi"} :
             held' = [held EXCEPT ![d] = @ \cup {"bars", "master"} \cup msi]
        /\ UNCHANGED <<nodesOf, nodes>>
     \/ FailAt(d, "release_2", {"bars"}, {}, 0)
  /\ UNCHANGED <<module, osif, attached, cardNo, next, handle>>

(* can_attach_common: the check of the card number, then the loop that     *)
(* allocates the nodes and may run out of memory at any of them.           *)
AllocNodes(d) ==
  /\ pc[d] = "mapped"
  /\ \/ /\ cardNo[d] < MaxCards
        /\ pc' = [pc EXCEPT ![d] = "noded"]
        /\ nodesOf' = [nodesOf EXCEPT ![d] = NodeIdx]
        /\ UNCHANGED <<held, nodes>>
     \/ /\ cardNo[d] < MaxCards
        /\ \E n \in NodeIdx : FailAt(d, "attach_1", {}, 0 .. n - 1, n)
     \/ /\ cardNo[d] >= MaxCards
        /\ FailAt(d, "release_2", {}, {}, 0)
  /\ UNCHANGED <<module, osif, attached, cardNo, next, handle>>

(* can_board_attach; when it fails, it may have created crd->lock_irq.     *)
AttachBoard(d) ==
  /\ pc[d] = "noded"
  /\ \/ /\ pc' = [pc EXCEPT ![d] = "boarded"]
        /\ held' = [held EXCEPT ![d] = @ \cup {"board"}]
        /\ UNCHANGED <<nodesOf, nodes>>
     \/ \E got \in SUBSET {"lock"} :
          FailAt(d, "attach_1", got, nodesOf[d], NodesPerCard)
  /\ UNCHANGED <<module, osif, attached, cardNo, next, handle>>

(* The loop of request_irq                                                 *)
RequestIrqs(d) ==
  /\ pc[d] = "boarded"
  /\ \/ /\ pc' = [pc EXCEPT ![d] = "attaching"]
        /\ held' = [held EXCEPT ![d] = @ \cup {"irqs"}]
        /\ next' = [next EXCEPT ![d] = 0]
        /\ UNCHANGED <<nodesOf, nodes>>
     \/ /\ FailAt(d, "attach_2", {"irqs"}, nodesOf[d], NodesPerCard)
        /\ UNCHANGED next
  /\ UNCHANGED <<module, osif, attached, cardNo, handle>>

(* One turn of the loop of nuc_node_attach: a node that cannot be attached *)
(* is freed, the others become known under their minor.                    *)
AttachNode(d) ==
  /\ pc[d] = "attaching"
  /\ next[d] < NodesPerCard
  /\ \/ /\ nodes' = [nodes EXCEPT ![Minor(d, next[d])] = Node(d, next[d])]
        /\ UNCHANGED nodesOf
     \/ /\ nodes' = [nodes EXCEPT ![Minor(d, next[d])] = Null]
        /\ nodesOf' = [nodesOf EXCEPT ![d] = @ \ {next[d]}]
  /\ next' = [next EXCEPT ![d] = @ + 1]
  /\ UNCHANGED <<module, osif, attached, pc, cardNo, held, handle>>

(* At least one node was attached, and can_board_attach_final succeeds.    *)
AttachFinalUncounted(d) ==        \* mutant: the counter is not incremented
  /\ pc[d] = "attaching"
  /\ next[d] = NodesPerCard
  /\ \/ /\ nodesOf[d] # {}
        /\ pc' = [pc EXCEPT ![d] = "bound"]
        /\ UNCHANGED <<attached, held, nodesOf, nodes>>
     \/ /\ FailAt(d, "attach_3", {}, nodesOf[d], NodesPerCard)
        /\ UNCHANGED attached
  /\ UNCHANGED <<module, osif, cardNo, next, handle>>

AttachFinal(d) ==
  /\ pc[d] = "attaching"
  /\ next[d] = NodesPerCard
  /\ \/ /\ nodesOf[d] # {}
        /\ pc' = [pc EXCEPT ![d] = "bound"]
        /\ attached' = attached + 1
        /\ UNCHANGED <<held, nodesOf, nodes>>
     \/ /\ FailAt(d, "attach_3", {}, nodesOf[d], NodesPerCard)
        /\ UNCHANGED attached
  /\ UNCHANGED <<module, osif, cardNo, next, handle>>

(* can_detach_common: the nodes are freed whether or not a handle refers   *)
(* to them.  The card loses its own parts, and those its caller gives back.*)
DetachCommon(d, others) ==
  /\ held' = [held EXCEPT ![d] = @ \ ({"board", "irqs", "bars"} \cup others)]
  /\ nodes' = Cleared(d, nodesOf[d])
  /\ nodesOf' = [nodesOf EXCEPT ![d] = {}]

Detach(d) ==
  /\ module = "removing" \/ (Hotplug /\ module = "live")
  /\ NobodyProbes
  /\ pc[d] = "bound"
  /\ pc' = [pc EXCEPT ![d] = "unbound"]
  /\ DetachCommon(d, {"msi", "master", "crd"})
  /\ attached' = attached - 1
  /\ UNCHANGED <<module, osif, cardNo, next, handle>>

-----------------------------------------------------------------------------
(* esdcan_pci_init up to pci_register_driver, which probes the devices.    *)
Load ==
  /\ module = "out"
  /\ module' = "probing"
  /\ osif' = TRUE
  /\ UNCHANGED <<attached, cardVars, nodes, handle>>

(* pci_register_driver fails.                                              *)
RegisterFails ==
  /\ module = "probing"
  /\ \A d \in Devs : pc[d] = "unbound"
  /\ module' = "out"
  /\ osif' = FALSE
  /\ UNCHANGED <<attached, cardVars, nodes, handle>>

(* All devices are probed: without a card, or when register_chrdev fails,  *)
(* the driver is unregistered again.                                       *)
Registered ==
  /\ module = "probing"
  /\ NobodyProbes
  /\ \/ attached > 0 /\ module' = "live"
     \/ module' = "removing"
  /\ UNCHANGED <<osif, attached, cardVars, nodes, handle>>

(* esdcan_pci_exit; the kernel lets no module go that has open files.      *)
UnloadOsifFirst ==                \* mutant: OSIF_DETACH() comes first
  /\ module = "live"
  /\ \A f \in Files : handle[f] = Null
  /\ module' = "removing"
  /\ osif' = FALSE
  /\ UNCHANGED <<attached, cardVars, nodes, handle>>

Unload ==
  /\ module = "live"
  /\ \A f \in Files : handle[f] = Null
  /\ module' = "removing"
  /\ UNCHANGED <<osif, attached, cardVars, nodes, handle>>

(* pci_unregister_driver has removed the cards, OSIF_DETACH follows.       *)
Unloaded ==
  /\ module = "removing"
  /\ \A d \in Devs : pc[d] = "unbound"
  /\ module' = "out"
  /\ osif' = FALSE
  /\ UNCHANGED <<attached, cardVars, nodes, handle>>

(* IOCTL_ESDCAN_CREATE on the device file of a minor: ocb_create and       *)
(* ocb_create2, as far as they succeed.                                    *)
Create(f, m) ==
  /\ module = "live"
  /\ handle[f] = Null
  /\ nodes[m] # Null
  /\ handle' = [handle EXCEPT ![f] = nodes[m]]
  /\ UNCHANGED <<module, osif, attached, cardVars, nodes>>

Release(f) ==
  /\ handle[f] # Null
  /\ handle' = [handle EXCEPT ![f] = Null]
  /\ UNCHANGED <<module, osif, attached, cardVars, nodes>>

-----------------------------------------------------------------------------
Probe(d) ==
  \/ ProbeStart(d)
  \/ Enable(d)
  \/ MapBars(d)
  \/ AllocNodes(d)
  \/ AttachBoard(d)
  \/ RequestIrqs(d)
  \/ AttachNode(d)
  \/ AttachFinal(d)

Next ==
  \/ \E d \in Devs : Probe(d) \/ Detach(d)
  \/ Load
  \/ RegisterFails
  \/ Registered
  \/ Unload
  \/ Unloaded
  \/ \E f \in Files : Release(f) \/ \E m \in Minors : Create(f, m)

Init ==
  /\ module = "out"
  /\ osif = FALSE
  /\ attached = 0
  /\ pc = [d \in Devs |-> "unbound"]
  /\ cardNo = [d \in Devs |-> 0]
  /\ held = [d \in Devs |-> {}]
  /\ nodesOf = [d \in Devs |-> {}]
  /\ next = [d \in Devs |-> 0]
  /\ nodes = [m \in Minors |-> Null]
  /\ handle = [f \in Files |-> Null]

Spec == Init /\ [][Next]_vars

-----------------------------------------------------------------------------
NodeRefs == [dev : Devs, idx : NodeIdx] \cup {Null}

CardTypeOK ==
  /\ module \in Modules
  /\ osif \in BOOLEAN
  /\ attached \in 0 .. MaxCards
  /\ pc \in [Devs -> ProbePcs]
  /\ cardNo \in [Devs -> 0 .. MaxCards]
  /\ held \in [Devs -> SUBSET Parts]
  /\ nodesOf \in [Devs -> SUBSET NodeIdx]
  /\ next \in [Devs -> 0 .. NodesPerCard]
  /\ nodes \in [Minors -> NodeRefs]
  /\ handle \in [Files -> NodeRefs]

(* The table nodes[] is "index: minor": an entry leads to a node that      *)
(* exists and has this minor, and every node of an attached card is found  *)
(* under its own minor.                                                    *)
MinorsTrue ==
  /\ \A m \in Minors : nodes[m] # Null =>
       /\ nodes[m].idx \in nodesOf[nodes[m].dev]
       /\ Minor(nodes[m].dev, nodes[m].idx) = m
  /\ \A d \in Devs : pc[d] = "bound" =>
       \A i \in nodesOf[d] : nodes[Minor(d, i)] = Node(d, i)

(* A probe that fails, at whatever step, and a removal give back all that  *)
(* can_attach() acquired, except for the enable of the device, which       *)
(* nothing undoes, and for the lock the comment at esdcan.c:933 names; and *)
(* they leave no node and no entry in nodes[].                             *)
OnlyForgottenLeaks ==
  \A d \in Devs : pc[d] \in {"unbound", "oops"} =>
    /\ held[d] \subseteq Forgotten /\ nodesOf[d] = {}
    /\ \A m \in Minors : nodes[m] # Null => nodes[m].dev # d

(* The node of an open handle has not been freed.                          *)
NodesOutliveHandles ==
  \A f \in Files : handle[f] # Null => handle[f].idx \in nodesOf[handle[f].dev]

(* The timers and DPCs of the cards can rely on the kernel thread: it runs *)
(* before the first card is attached until the last one is detached.       *)
OsifOutlivesCards ==
  (\E d \in Devs : held[d] \ Forgotten # {}) => osif

-----------------------------------------------------------------------------
(***************************************************************************)
(* What keeps the cards apart, and the table true, as long as cards go     *)
(* with the module alone.                                                  *)
(***************************************************************************)
Probed(d) == pc[d] \notin {"unbound", "bound"}
Bound == {d \in Devs : pc[d] = "bound"}

ModuleTrue ==
  /\ osif <=> module # "out"
  /\ module = "out" => \A d \in Devs : pc[d] = "unbound"
  /\ \A f \in Files : handle[f] # Null => module = "live"

(* A probe is alone and has the number that is next; the cards that are    *)
(* there have numbers of their own, all below.                             *)
NumbersApart ==
  /\ attached = Cardinality(Bound)
  /\ \A d \in Devs : Probed(d) =>
       /\ module = "probing"
       /\ cardNo[d] = attached
       /\ \A e \in Devs \ {d} : ~Probed(e)
  /\ \A d \in Devs :
       pc[d] \in {"noded", "boarded", "attaching", "bound"} =>
         cardNo[d] < MaxCards
  /\ \A d \in Bound :
       /\ module # "removing" => cardNo[d] < attached
       /\ \A e \in Bound \ {d} : cardNo[e] # cardNo[d]

(* What a card can hold at each step of can_attach(), besides what was     *)
(* forgotten.                                                              *)
HeldAt(p) ==
  CASE p \in {"unbound", "oops"}   -> {}
    [] p \in {"card", "enabled"}   -> {"crd"}
    [] p \in {"mapped", "noded"}   -> {"crd", "bars", "master", "msi"}
    [] p = "boarded"               -> {"crd", "bars", "master", "msi", "board"}
    [] p \in {"attaching", "bound"} -> Parts

PartsHeld == \A d \in Devs : held[d] \subseteq HeldAt(pc[d]) \cup Forgotten

(* Which nodes a card has, and which of them the loop of nuc_node_attach   *)
(* has entered into the table.                                             *)
Entered(d, i) == pc[d] = "bound" \/ (pc[d] = "attaching" /\ i < next[d])

NodesHeld ==
  \A d \in Devs :
    /\ pc[d] \in {"unbound", "oops", "card", "enabled", "mapped"} =>
         nodesOf[d] = {}
    /\ pc[d] \in {"noded", "boarded"} => nodesOf[d] = NodeIdx
    /\ pc[d] = "attaching" =>
         \A i \in NodeIdx : i >= next[d] => i \in nodesOf[d]
    /\ \A i \in nodesOf[d] :
         Entered(d, i) => nodes[Minor(d, i)] = Node(d, i)

TableTrue ==
  \A m \in Minors : nodes[m] # Null =>
    LET d == nodes[m].dev
        i == nodes[m].idx IN
    Entered(d, i) /\ i \in nodesOf[d] /\ Minor(d, i) = m

(* Strong enough to follow from itself when no card comes or goes while    *)
(* the module is loaded: the number of a card, the count of the attached   *)
(* ones at its probe, is then a free one.                                  *)
CardInv ==
  /\ CardTypeOK
  /\ ModuleTrue
  /\ NumbersApart
  /\ PartsHeld
  /\ NodesHeld
  /\ TableTrue
  /\ NodesOutliveHandles

=============================================================================

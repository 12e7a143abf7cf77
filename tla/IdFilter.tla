------------------------------ MODULE IdFilter ------------------------------
(***************************************************************************)
(* ID_RANGE_ADD and ID_RANGE_DEL with id_filter(), which hands a range of  *)
(* CAN IDs to the nucleus in as many pieces as that takes, dropping the    *)
(* lock for a millisecond after each piece the nucleus answers EAGAIN to,  *)
(* and ID_REGION_ADD and ID_REGION_DEL, which ask the nucleus once.        *)
(***************************************************************************)
EXTENDS FileBase

CONSTANTS
  IdMax,     (* The largest ID of the node.                                *)
  WordMax,   (* The largest value of the 32-bit count and ID.              *)
  RangeArgs  (* The arguments <<id_start, id_stop>> of the ranges.         *)

ASSUME IdAssumption ==
  /\ IdMax \in Nat
  /\ WordMax \in Nat
  /\ IdMax < WordMax
  /\ RangeArgs \subseteq (0 .. WordMax) \X (0 .. WordMax)

VARIABLES
  filter,    (* What the nucleus has switched on for each OCB.             *)
  range      (* The range each thread is working on.                       *)

idVars == <<filter, range>>

Ids == 0 .. IdMax

(* One element for all the 29-bit IDs, which are only switched together.   *)
Ids20B == IdMax + 1

Words == 0 .. WordMax

Wrap(n) == n % (WordMax + 1)

(***************************************************************************)
(* on: ADD or DEL; first, last: the argument; want: *count of the id_filter*)
(* in progress; done: count_done; undo: the id_filter(FILTER_OFF) after a  *)
(* failed ADD; added: the IDs the ADD got through; alone: no other thread  *)
(* has changed the filter since the start (a history variable).            *)
(***************************************************************************)
Ranges == [on : BOOLEAN, first : Words, last : Words, want : Words,
           done : Words, undo : BOOLEAN, added : Words, alone : BOOLEAN,
           result : {"SUCCESS", "EAGAIN", "ERROR"}]

NoRange == [on |-> FALSE, first |-> 0, last |-> 0, want |-> 0, done |-> 0,
            undo |-> FALSE, added |-> 0, alone |-> TRUE,
            result |-> "SUCCESS"]

(* n IDs from first on.                                                    *)
Piece(first, n) == {i \in Ids : first <= i /\ i < first + n}

SwitchedPiece(o, on, first, n) ==
  [filter EXCEPT ![o] = IF on THEN @ \cup Piece(first, n)
                        ELSE @ \ Piece(first, n)]

(* nuc_id_filter(ocb, cmd, first, &n): how many of n IDs it has switched   *)
(* and its result.  IDs the node does not have are an error.               *)
Answers(first, n) ==
  {a \in [got : 0 .. n, result : {"SUCCESS", "EAGAIN", "ERROR"}] :
     /\ a.got > 0 => first + a.got - 1 <= IdMax
     /\ a.result = "SUCCESS" => a.got = n
     /\ a.result = "ERROR" => a.got < n}

(* The history variable alone of the other threads.                        *)
Disturbed(t, r) ==
  [u \in Threads |-> IF u = t THEN r
                     ELSE [range[u] EXCEPT !.alone = @ /\ mine[u] # mine[t]]]

(***************************************************************************)
(* The first piece: the count is computed in 32 bits.                      *)
(***************************************************************************)
CountWithoutLast(first, last) == Wrap(last - first)  \* mutant: no + 1

Count(first, last) == Wrap(last - first + 1)

RangeBeginUnchecked(t, on, first, last) == \* mutant: no CAN_ACTION_CHECK
  /\ Dispatched(t)
  /\ range' = [range EXCEPT ![t] =
       [NoRange EXCEPT !.on = on, !.first = first, !.last = last,
                       !.want = Count(first, last)]]
  /\ Go(t, "turn")
  /\ UNCHANGED <<opened, private, wrong, ocb, mine, filter>>

RangeBegin(t, on, first, last) ==
  /\ Dispatched(t)
  /\ ~wrong
  /\ range' = [range EXCEPT ![t] =
       [NoRange EXCEPT !.on = on, !.first = first, !.last = last,
                       !.want = Count(first, last)]]
  /\ Go(t, "turn")
  /\ UNCHANGED <<opened, private, wrong, ocb, mine, filter>>

(* id_filter() has ended with a result after n IDs: a failed ADD takes     *)
(* back what it did, with a second id_filter() under the same lock.        *)
RangeEnds(t, r, n, result) ==
  IF r.on /\ ~r.undo /\ result # "SUCCESS"
    THEN /\ range' = Disturbed(t, [r EXCEPT !.undo = TRUE, !.added = n,
                                            !.want = n,
                                            !.done = 0])
         /\ Go(t, "turn")
    ELSE /\ range' = Disturbed(t, [r EXCEPT !.done = n, !.result = result,
                                  !.added = IF r.undo THEN @ ELSE n])
         /\ Go(t, "answered")

(* One turn of the loop in id_filter().                                    *)
Switching(r) == r.on /\ ~r.undo

FilterTurn(t) ==
  /\ at[t] = "turn"
  /\ LET r == range[t] IN
     \E answer \in Answers(Wrap(r.first + r.done), r.want - r.done) :
        LET n == r.done + answer.got IN
        /\ filter' = SwitchedPiece(mine[t], Switching(r),
                                   Wrap(r.first + r.done), answer.got)
        /\ IF answer.result = "EAGAIN"
             THEN /\ range' = Disturbed(t, [r EXCEPT !.done = n])
                  /\ Go(t, "nap")
             ELSE RangeEnds(t, r, n, answer.result)
  /\ UNCHANGED <<opened, private, wrong, ocb, mine>>

(* OSIF_SLEEP(1) is over and the lock is taken: close_state is not looked  *)
(* at again.  With all IDs done the loop ends, its result is EAGAIN.       *)
NapOver(t) ==
  /\ at[t] = "nap"
  /\ LockFree
  /\ LET r == range[t] IN
     IF r.done < r.want
       THEN Go(t, "turn") /\ UNCHANGED range
       ELSE RangeEnds(t, r, r.done, "EAGAIN")
  /\ UNCHANGED <<opened, private, wrong, ocb, mine, filter>>

(* The lock is dropped, the result goes to the user.                       *)
RangeReturns(t) ==
  /\ at[t] = "answered"
  /\ range' = [range EXCEPT ![t] = NoRange]
  /\ Leave(t)
  /\ UNCHANGED <<opened, private, wrong, ocb, filter>>

(* A range that starts in the 29-bit IDs: one call, EAGAIN is an error     *)
(* like any other, and the undo switches off what an earlier ADD had on.   *)
Range20B(t, on) ==
  /\ Dispatched(t)
  /\ ~wrong
  /\ \E done, undone \in BOOLEAN :
       filter' = [filter EXCEPT ![mine[t]] =
         IF done THEN IF on THEN @ \cup {Ids20B} ELSE @ \ {Ids20B}
         ELSE IF on /\ undone THEN @ \ {Ids20B} ELSE @]
  /\ Leave(t)
  /\ UNCHANGED <<opened, private, wrong, ocb, range>>

(* ID_REGION_ADD and ID_REGION_DEL: one piece, no undo, and the number of  *)
(* IDs that were switched is what the user gets.                           *)
Region(t, on, first, n) ==
  /\ Dispatched(t)
  /\ ~wrong
  /\ \E answer \in Answers(first, n) :
       filter' = SwitchedPiece(mine[t], on, first, answer.got)
  /\ range' = Disturbed(t, range[t])
  /\ Leave(t)
  /\ UNCHANGED <<opened, private, wrong, ocb>>

IdTypeOK ==
  /\ filter \in [Ocbs -> SUBSET (Ids \cup {Ids20B})]
  /\ range \in [Threads -> Ranges]

IdInit ==
  /\ filter = [o \in Ocbs |-> {}]
  /\ range = [t \in Threads |-> NoRange]

=============================================================================

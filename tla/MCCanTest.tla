------------------------------ MODULE MCCanTest ------------------------------
(***************************************************************************)
(* Command lines for cantest: every test with small and large counts, and  *)
(* for some tests every kind of ID range, bit rate and repetition.         *)
(***************************************************************************)
EXTENDS CanTest

Plain == [test |-> 0, first |-> 0, last |-> 1, count |-> 1, txtout |-> 0,
          baud |-> [nominal |-> "none", flag |-> "no"], testcount |-> 1]

Counts ==
  {[Plain EXCEPT !.test = t, !.count = c] :
     t \in KnownTests \cup {99}, c \in {-4, 0, 1, 4, 9}}

Points == {0, 2, 3, ExtBase, EvBase, EvBusload, CodeBase}

Ranges ==
  {[Plain EXCEPT !.test = t, !.first = f, !.last = l, !.txtout = x] :
     t \in {0, 3, 4, 32, 55, 120}, f \in Points, l \in Points, x \in {0, 1}}

Rates ==
  {[Plain EXCEPT !.test = t, !.baud = b] : t \in {0, 60, 53}, b \in Bauds}

Repeated ==
  {[Plain EXCEPT !.test = t, !.testcount = n] :
     t \in (KnownTests \ {54}) \cup {99}, n \in {Absent, -1, 0, 2}}
    \cup {[Plain EXCEPT !.test = 54, !.testcount = n] : n \in 0 .. 2}

BusloadOfForks ==
  {[Plain EXCEPT !.test = 54, !.first = EvBusload, !.last = EvBusload,
                 !.txtout = x, !.testcount = n] : x \in {0, 1}, n \in 0 .. 2}

Helps == {[Plain EXCEPT !.test = -1]}

SomeArgs == Counts \cup Ranges \cup Rates \cup Repeated \cup BusloadOfForks
              \cup Helps

SomeDelays == <<1, 33>>

==============================================================================

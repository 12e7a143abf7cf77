---------------------------- MODULE DpcContract ----------------------------
(***************************************************************************)
(* What the card and the timers may rely on when they use DPCs, whatever   *)
(* the kernel thread does inside: a trigger asks for one call of the       *)
(* function, and triggers that come before that call are merged into it;   *)
(* one function is called at a time, and only one that was asked for; a    *)
(* destroy takes the request back, lets no new one in, and ends only when  *)
(* the function is not being called.                                       *)
(***************************************************************************)
CONSTANTS Dpcs

VARIABLES
  life,     (* "none", "usable" or "ending" for each DPC.                  *)
  asked,    (* The DPCs with a trigger that no call has answered yet.      *)
  called    (* The DPCs whose function is being called: none or one.       *)

dvars == <<life, asked, called>>

Init ==
  /\ life = [d \in Dpcs |-> "none"]
  /\ asked = {}
  /\ called = {}

Create(d) ==
  /\ life[d] = "none"
  /\ life' = [life EXCEPT ![d] = "usable"]
  /\ UNCHANGED <<asked, called>>

Ask(d) ==
  /\ life[d] = "usable"
  /\ asked' = asked \cup {d}
  /\ UNCHANGED <<life, called>>

(* The call before it may end in the same step.                            *)
StartCall(d) ==
  /\ d \in asked
  /\ called' = {d}
  /\ asked' = asked \ {d}
  /\ UNCHANGED life

EndCall ==
  /\ called # {}
  /\ called' = {}
  /\ UNCHANGED <<life, asked>>

BeginDestroy(d) ==
  /\ life[d] = "usable"
  /\ life' = [life EXCEPT ![d] = "ending"]
  /\ asked' = asked \ {d}
  /\ UNCHANGED called

EndDestroy(d) ==
  /\ life[d] = "ending"
  /\ d \notin called
  /\ life' = [life EXCEPT ![d] = "none"]
  /\ UNCHANGED <<asked, called>>

Next ==
  \/ \E d \in Dpcs :
       Create(d) \/ Ask(d) \/ StartCall(d) \/ BeginDestroy(d) \/ EndDestroy(d)
  \/ EndCall

Spec == Init /\ [][Next]_dvars

=============================================================================

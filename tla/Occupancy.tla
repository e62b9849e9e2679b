----------------------------- MODULE Occupancy -----------------------------
(***************************************************************************)
(* What a viewer of the office is promised, whatever the transports do:    *)
(* an agent comes in at a free desk and keeps it, and nobody vanishes      *)
(* from a desk without first having been seen walking out.  Any number of  *)
(* agents may move in one step, as they do when a sweep runs ahead of an   *)
(* event.                                                                  *)
(***************************************************************************)
EXTENDS Naturals

CONSTANTS Agent,    (* everyone who may ever come in                       *)
          Nowhere   (* the place of those who are not in                   *)

VARIABLES place,    (* each agent's desk, or Nowhere                       *)
          leaving   (* those walking out, still at their desk              *)

vars == <<place, leaving>>

Init == place = [a \in Agent |-> Nowhere] /\ leaving = {}

\* a stays where it is; it may start to walk out, or think better of it.
Stays(a) == place'[a] = place[a] /\ (a \in leaving' => place[a] # Nowhere)

ComesIn(a) == place[a] = Nowhere /\ place'[a] \in Nat /\ a \notin leaving'

Leaves(a) == a \in leaving /\ place'[a] = Nowhere /\ a \notin leaving'

\* Out of the door and in again before anyone looked.
Returns(a) == a \in leaving /\ place'[a] \in Nat /\ a \notin leaving'

NoSharing(at) == \A a, b \in Agent : a # b /\ at[a] # Nowhere => at[a] # at[b]

Next ==
    /\ place' \in [Agent -> Nat \cup {Nowhere}]
    /\ leaving' \in SUBSET Agent
    /\ \A a \in Agent : Stays(a) \/ ComesIn(a) \/ Leaves(a) \/ Returns(a)
    /\ NoSharing(place')

Spec == Init /\ [][Next]_vars
=============================================================================

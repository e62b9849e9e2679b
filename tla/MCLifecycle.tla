---------------------------- MODULE MCLifecycle ----------------------------
(***************************************************************************)
(* Agents that come and go: any two of them, with the echoes of lives that *)
(* are over and too few desks, or all of them, linked in every direction.  *)
(***************************************************************************)
EXTENDS MCReducer, TLC

CONSTANTS a1, a2, a3

VARIABLE cast   \* who takes part

Among(A, events) == {e \in events : e.id \in A /\ e.parent \in A \cup {NoAgent}}

\* Links in every direction, and ends.
TreeEvents == Starts("Jsonl", Agent \cup {NoAgent}, {TRUE}) \cup Plain("SessionEnd", "Jsonl")

AllEvents == LifecycleEvents \cup TreeEvents

All == cast = Agent

Sizes == IF All THEN {3} ELSE {1, 2}

AllSizes == {1, 2, 3}

LifecycleInit ==
    /\ cast \in {Agent} \cup {A \in SUBSET Agent : \E a, b \in Agent : a # b /\ A = {a, b}}
    /\ Init /\ st.cap \in Sizes

Event1 == \E e \in Among(cast, IF All THEN TreeEvents ELSE LifecycleEvents) : Delivered(e)

LifecycleNext ==
    /\ \/ Event1 \/ SweepTick \/ Elapse
       \/ Resize /\ st'.cap \in Sizes
    /\ UNCHANGED cast

LifecycleSpec == LifecycleInit /\ [][LifecycleNext]_<<vars, cast>>

AgentSymmetry == Permutations(Agent)
=============================================================================

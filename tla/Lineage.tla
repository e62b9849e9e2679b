------------------------------ MODULE Lineage ------------------------------
(***************************************************************************)
(* The parent/subagent scope of pixtuoid-core (state/scope.rs): which      *)
(* slots an exit flowing down, a liveness signal flowing up, or a link     *)
(* check visits.  The source walks `parent_id` links with a visited set;   *)
(* here each walk is the least set closed under the links it follows, so   *)
(* that no operator is recursive and a proof can reason about closure.     *)
(*                                                                         *)
(* `up` is a parent map: up[x] is the parent_id of x's slot, and NoAgent   *)
(* both for a root slot and for an id that has no slot, because a walk     *)
(* that reaches either of them stops there.                                *)
(***************************************************************************)
EXTENDS Naturals, FiniteSets

CONSTANTS Agent,    (* the agent ids                                       *)
          NoAgent   (* the absent parent: Option::None                     *)

ASSUME NoAgentAssumption == NoAgent \notin Agent

ParentMap == [Agent -> Agent \cup {NoAgent}]

UpClosed(up, S)   == \A x \in S : up[x] # NoAgent => up[x] \in S

DownClosed(up, S) == \A x \in Agent : up[x] \in S => x \in S

\* x and everything a walk from x along parent links reaches: what
\* refresh_lineage stamps.
LineageOf(up, x) ==
    {y \in Agent : \A S \in SUBSET Agent : x \in S /\ UpClosed(up, S) => y \in S}

\* x and everything below it: the breadth-first frontier of cascade_exit.
\* Nodes already exiting are walked through, not pruned.
SubtreeOf(up, x) ==
    {y \in Agent : \A S \in SUBSET Agent : x \in S /\ DownClosed(up, S) => y \in S}

\* has_ancestor_where seeds its visited set with the start node, so even in
\* a cycle the node is never its own ancestor.
AncestorsOf(up, x) == LineageOf(up, x) \ {x}

\* Mutant: the link check looks one level up.
WouldPointBack(up, child, parent) == child = parent \/ up[parent] = child

WouldCreateCycle(up, child, parent) == child \in LineageOf(up, parent)

\* Every nonempty set of agents holds one whose parent is outside the set.
Acyclic(up) == \A S \in SUBSET Agent : S # {} => \E x \in S : up[x] \notin S
=============================================================================

----------------------------- MODULE MCReplay -----------------------------
(***************************************************************************)
(* The reducer behind two transports that deliver nothing twice: every     *)
(* event arrives at most once, and the transcript keeps its own order.     *)
(* Hook against transcript, any order and any lag is possible.             *)
(***************************************************************************)
EXTENDS MCReducer

VARIABLE seen   \* the events delivered so far

allVars == <<st, connected, seen>>

\* A transcript End comes after the transcript Start of the same tool, and no
\* End arrives before something has started the tool.
InOrder(e) ==
    e.kind = "ActivityEnd" /\ e.tool # NoTool =>
        \E b \in seen : b.kind = "ActivityStart" /\ b.tool = e.tool /\ b.via = e.via

OnceNext ==
    \/ \E e \in Events \ seen :
          InOrder(e) /\ Delivered(e) /\ seen' = seen \cup {e}
    \/ Elapse /\ UNCHANGED seen

OnceInit == FamilyInit /\ seen = {}

OnceSpec == OnceInit /\ [][OnceNext]_allVars
=============================================================================

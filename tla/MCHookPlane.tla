---------------------------- MODULE MCHookPlane ----------------------------
(***************************************************************************)
(* Two agents of one process, one that it announces and one that first     *)
(* shows in the middle of its work, and a child that the hooks end by      *)
(* name.                                                                   *)
(***************************************************************************)
EXTENDS HookPlane

CONSTANTS a1, a2, p1

E(kind, a) == [kind |-> kind, of |-> a, child |-> FALSE]

ChildEnd(a) == [kind |-> "end", of |-> a, child |-> TRUE]

Sends(p, events) == [pid |-> p, events |-> events]

ShimPayloads ==
    {Sends(p1, <<E("start", a1)>>), Sends(p1, <<E("identity", a2), E("activity", a2)>>),
     Sends(NoPid, <<ChildEnd(a2)>>), Sends(NoPid, <<>>)}
=============================================================================

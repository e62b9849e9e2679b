----------------------------- MODULE MCSources -----------------------------
(***************************************************************************)
(* Two commands over one source with hooks and one with a flag only: on    *)
(* different sources, on the same one, for and against each other, as a    *)
(* list of choices and as an exact set; a hook command from an earlier     *)
(* version among them.                                                     *)
(***************************************************************************)
EXTENDS Sources, TLC

CONSTANTS p1, p2, cli, bare, newHook, oldHook

Hooks == (p1 :> newHook) @@ (p2 :> oldHook)

On(s)  == [src |-> s, act |-> "connect"]
Off(s) == [src |-> s, act |-> "disconnect"]

Choices(items) == [exact |-> FALSE, items |-> items]
Exactly(want)  == [exact |-> TRUE, items |-> {On(s) : s \in want}]

Both(a, b) == (p1 :> a) @@ (p2 :> b)

Commands ==
  {Both(Choices({On(cli)}), Exactly({bare})),
   Both(Choices({On(cli), Off(bare)}), Choices({On(bare)})),
   Both(Choices({Off(cli)}), Choices({On(cli), On(bare)})),
   Both(Exactly({cli}), Choices({Off(cli)}))}

=============================================================================

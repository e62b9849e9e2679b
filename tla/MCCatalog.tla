----------------------------- MODULE MCCatalog -----------------------------
(***************************************************************************)
(* One built-in look, none or two imported ones that come and go, one map  *)
(* and one helper at a time: room for a restart and two failing steps.     *)
(***************************************************************************)
EXTENDS Catalog

CONSTANTS ann, bob, helper1, market

FoundLists == {<<>>, <<ann, bob>>}
=============================================================================

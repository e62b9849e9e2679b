------------------------------ MODULE MCFamily ------------------------------
(***************************************************************************)
(* A parent P that is seated, a child C that has joined it, and one of     *)
(* three questions: what both transports make of P's Tasks, what ends a    *)
(* prompt of P's, and what ends a family that falls silent.                *)
(***************************************************************************)
EXTENDS MCReducer

VARIABLE question

Alphabet == [delegation |-> DelegationEvents, prompts |-> PromptEvents, silence |-> SilenceEvents]

FamilyEvents == UNION {Alphabet[q] : q \in DOMAIN Alphabet}

QuestionInit == question \in DOMAIN Alphabet /\ FamilyInit

Event1 == \E e \in Alphabet[question] : Delivered(e)

FamilyNext == (Event1 \/ SweepTick \/ Resize \/ Elapse) /\ UNCHANGED question

FamilySpec == QuestionInit /\ [][FamilyNext]_<<vars, question>>
=============================================================================

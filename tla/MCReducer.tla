----------------------------- MODULE MCReducer -----------------------------
(* Small instances of the reducer for TLC: event alphabets per question.   *)
EXTENDS ReducerProperties

CONSTANTS P, C, k1, k2, s1, s2   \* members of Agent, Tool and Source

Ev(kind, via, id) ==
    [kind |-> kind, via |-> via, id |-> id, parent |-> NoAgent, src |-> Blank, cwd |-> FALSE,
     tool |-> NoTool, task |-> FALSE, child |-> FALSE]

Starts(via, parents, cwds) ==
    {[Ev("SessionStart", via, a) EXCEPT !.parent = p, !.src = s, !.cwd = c] :
        a \in Agent, p \in parents, s \in Source, c \in cwds}

Ends(kinds) == {[Ev("SessionEnd", "Hook", a) EXCEPT !.child = k] : a \in Agent, k \in kinds}

Plain(kind, via) == {Ev(kind, via, a) : a \in Agent}

Identities == {[Ev("Identity", "Hook", a) EXCEPT !.src = s] : a \in Agent, s \in Source}

BothWays(e) == {[e EXCEPT !.via = v] : v \in {"Hook", "Jsonl"}}

Task(k) ==
    BothWays([Ev("ActivityStart", "Hook", P) EXCEPT !.tool = k, !.task = TRUE])
      \cup BothWays([Ev("ActivityEnd", "Hook", P) EXCEPT !.tool = k])

\* A parent P that delegates to C: two Tasks whose events arrive on both
\* transports, and a permission prompt.
DelegationEvents == Task(k1) \cup Task(k2) \cup {Ev("Waiting", "Hook", P)}

\* One Task, a tool of P's own, the prompt, and both shapes of a turn's end.
PromptEvents ==
    Task(k1) \cup {Ev("Waiting", "Hook", P), Ev("ActivityEnd", "Hook", P),
                   Ev("TurnComplete", "Jsonl", P),
                   [Ev("ActivityStart", "Hook", P) EXCEPT !.tool = k2]}
      \cup BothWays([Ev("ActivityEnd", "Hook", P) EXCEPT !.tool = k2])

\* What keeps a silent tree alive, and what ends it.
SilenceEvents ==
    Plain("Waiting", "Hook") \cup Plain("ProofOfLife", "Jsonl")
      \cup {[Ev("ActivityStart", "Jsonl", P) EXCEPT !.tool = k1, !.task = TRUE],
            [Ev("ActivityEnd", "Jsonl", P) EXCEPT !.tool = k1],
            Ev("ActivityStart", "Jsonl", C), Ev("Rename", "Jsonl", C),
            Ev("SessionEnd", "Hook", P)}

\* A parent P that is seated, and a child C that has joined it.
FamilyInit ==
    /\ connected \in Connectable
    /\ \E n \in Capacities, s \in Source :
          LET root  == [Ev("SessionStart", "Jsonl", P) EXCEPT !.src = s, !.cwd = TRUE]
              child == [Ev("SessionStart", "Jsonl", C) EXCEPT !.src = s, !.cwd = TRUE, !.parent = P]
          IN st = Apply(Apply(Empty(n), root, NoTool), child, NoTool)

\* Registration, links, ends, and the echoes of a life that is over.
LifecycleEvents ==
    Starts("Jsonl", Agent \cup {NoAgent}, {TRUE}) \cup Ends({TRUE, FALSE})
      \cup Plain("ActivityStart", "Hook")

\* Two sources behind the connection gate: an id belongs to one of them, for
\* it is the hash of the source's name and the session.
Home(a) == IF a = P THEN s1 ELSE s2

GateEvents ==
    {e \in Starts("Jsonl", {NoAgent}, {TRUE, FALSE}) \cup Identities : e.src = Home(e.id)}
      \cup Ends({FALSE}) \cup Plain("ActivityEnd", "Hook")

OnOrOff == SUBSET Source

On == {Source}
=============================================================================

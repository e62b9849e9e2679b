---------------------------- MODULE MCDeparture ----------------------------
(***************************************************************************)
(* The reducer under the scheduling of reducer_task: its interval and the  *)
(* clock never stop, and no event is ever owed.                            *)
(***************************************************************************)
EXTENDS MCReducer

CONSTANT Budget   \* how many events may arrive before the world falls silent

Endless == -1     \* the budget of a world that never does

VARIABLES left,   \* how many still may
          turn    \* which of the two perpetual steps was taken last

allVars == <<st, connected, left, turn>>

\* Everybody's source is connected.
DepartureEvents ==
    {e \in Starts("Jsonl", Agent \cup {NoAgent}, {TRUE}) : e.src = s1}
      \cup Plain("Waiting", "Hook") \cup Plain("ProofOfLife", "Jsonl")

WorldEvents == DepartureEvents \cup GateEvents

FairInit ==
    /\ Init /\ turn = "clock"
    /\ left \in {Budget, Endless}
    /\ left = Budget => connected = Source

Arrive ==
    /\ left > 0 /\ left' = left - 1 /\ UNCHANGED turn
    /\ \E e \in DepartureEvents : Delivered(e)

Chatter ==
    /\ left = Endless /\ UNCHANGED <<left, turn>>
    /\ \E e \in GateEvents : Delivered(e)

Clock  == Elapse /\ turn' = "clock" /\ UNCHANGED left

Sweep  == SweepTick /\ turn' = "sweep" /\ UNCHANGED left

\* Clock and Sweep are always enabled; that each is taken again and again is
\* said of `turn`, so that ENABLED does not have to unfold the reducer.
Scheduling == WF_turn(turn' = "clock") /\ WF_turn(turn' = "sweep")

FairSpec == FairInit /\ [][Arrive \/ Chatter \/ Clock \/ Sweep]_allVars /\ Scheduling

\* stale-sweep and the no-immortality rule (#238): once events stop, everyone
\* leaves; links, prompts and vouches only ever postpone it.
EveryoneLeaves == <>[](left = Endless \/ st.here = {})

\* apply_gated_event and reconcile_connected: a session of a source that is not
\* connected leaves again and again, whatever its hooks go on saying; the slot
\* a hook without identity conjures up never becomes its home.
StrangersLeave == \A a \in Agent : []<>(Home(a) \in connected \/ a \notin st.here)
=============================================================================

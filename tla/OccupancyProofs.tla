-------------------------- MODULE OccupancyProofs --------------------------
(* The correlation maps belong to the slots, the ledger knows every link,  *)
(* the reducer keeps what Occupancy promises a viewer of the office, and a *)
(* step does to walk-outs, prompts and timers only what it may.            *)
EXTENDS ReducerProofs

-----------------------------------------------------------------------------
(* What an id without a slot leaves behind, and what the ledger remembers. *)

\* Nothing of the slot survives it.
Gone(s, a) ==
    /\ s.exiting[a] = Never /\ s.gate[a] = NoTool
    /\ s.b1[a] = Never /\ s.vouch[a] = Never /\ a \notin s.done

Remembers(s, a) == s.ledger[a].known /\ s.ledger[a].parent = s.parent[a]

Linked(s) == {a \in s.here : s.parent[a] # NoAgent}

\* The ledger's clock of a linked slot runs no earlier than its walkout, so
\* that the ledger cannot expire before the slot is swept.
Timed(s) ==
    \A a \in Linked(s) : s.exiting[a] <= ExitGrace =>
        Remembers(s, a) /\ s.ledger[a].ended <= s.exiting[a]

\* Between the expiry of the ledger and the sweep, a slot that has walked out
\* may be forgotten; nowhere else.
Ordered(s) == Sound(s) /\ (\A a \in Agent \ s.here : Gone(s, a)) /\ Timed(s)

Kept(s) == Ordered(s) /\ \A a \in Linked(s) : Remembers(s, a)

\* t differs from s in nothing that Kept reads.
Steady(s, t) ==
    /\ Calm(s, t) /\ t.exiting = s.exiting /\ t.ledger = s.ledger
    /\ \A a \in Agent \ s.here : Gone(s, a) => Gone(t, a)

LEMMA SteadyTrans ==
    ASSUME NEW s, NEW u, NEW t, Steady(s, u), Steady(u, t)
    PROVE  Steady(s, t)
    BY DEF Steady, Calm

LEMMA SteadyKeeps ==
    ASSUME NEW s, NEW t, Kept(s), Steady(s, t)
    PROVE  Kept(t)
<1>1. Sound(t)
    BY CalmKeepsSound DEF Kept, Ordered, Steady
<1> QED BY <1>1 DEF Kept, Ordered, Steady, Calm, Linked, Timed, Remembers

LEMMA KeptIsState ==
    ASSUME NEW s, Kept(s)
    PROVE  Sound(s) /\ s \in State /\ s.here \in SUBSET Agent
    BY SoundHasParents DEF Kept, Ordered
-----------------------------------------------------------------------------
(* The operators that touch neither clock nor ledger.                      *)

LEMMA FieldsSteady ==
    ASSUME NEW s \in State, NEW a \in Agent, NEW t \in Tool \cup {NoTool}
    PROVE  /\ Steady(s, s)
           /\ Steady(s, [s EXCEPT !.gate[a] = NoTool])
           /\ a \in s.here => Steady(s, [s EXCEPT !.gate[a] = t])
           /\ Steady(s, [s EXCEPT !.quiet[a] = 0])
           /\ a \in s.here => Steady(s, [s EXCEPT !.vouch[a] = 0])
           /\ a \in s.here => Steady(s, [s EXCEPT !.done = @ \cup {a}])
           /\ Steady(s, [s EXCEPT !.done = @ \ {a}])
           /\ Steady(s, [s EXCEPT !.ghost[a] = FALSE])
<1>1. Steady(s, s)
    BY FieldsCalm DEF Steady
<1>2. Steady(s, [s EXCEPT !.gate[a] = NoTool])
    BY FieldsCalm DEF Steady, Gone, State
<1>3. a \in s.here => Steady(s, [s EXCEPT !.gate[a] = t])
    BY FieldsCalm DEF Steady, Gone, State
<1>4. Steady(s, [s EXCEPT !.quiet[a] = 0]) /\ Steady(s, [s EXCEPT !.ghost[a] = FALSE])
    BY FieldsCalm DEF Steady, Gone, State
<1>5. a \in s.here => Steady(s, [s EXCEPT !.vouch[a] = 0])
    BY FieldsCalm DEF Steady, Gone, State
<1>6. a \in s.here => Steady(s, [s EXCEPT !.done = @ \cup {a}])
    BY FieldsCalm DEF Steady, Gone, State
<1>7. Steady(s, [s EXCEPT !.done = @ \ {a}])
    BY FieldsCalm DEF Steady, Gone, State
<1> QED BY <1>1, <1>2, <1>3, <1>4, <1>5, <1>6, <1>7

LEMMA MachineSteady ==
    ASSUME NEW s \in State, NEW a \in Agent, NEW t \in Tool \cup {NoTool}
    PROVE  /\ \A k \in BOOLEAN : Steady(s, EnterActive(s, a, t, k))
           /\ Steady(s, EnterDelegating(s, a, t))
           /\ Steady(s, EnterWaiting(s, a)) /\ Steady(s, ArmPendingIdle(s, a))
<1>1. ASSUME NEW k \in BOOLEAN PROVE Steady(s, EnterActive(s, a, t, k))
    BY EnterActiveCalm DEF Steady, Gone, EnterActive, State
<1>2. Steady(s, EnterDelegating(s, a, t))
    BY EnterDelegatingCalm DEF Steady, Gone, EnterDelegating, State
<1>3. Steady(s, EnterWaiting(s, a))
    BY EnterWaitingCalm DEF Steady, Gone, EnterWaiting, State
<1>4. Steady(s, ArmPendingIdle(s, a))
    BY ArmPendingIdleCalm DEF Steady, Gone, ArmPendingIdle, State
<1> QED BY <1>1, <1>2, <1>3, <1>4

LEMMA SettleToIdleSteady ==
    ASSUME NEW s \in State, NEW S \in SUBSET Agent
    PROVE  Steady(s, SettleToIdle(s, S)) /\ Steady(s, DropCorrelation(s, S))
<1>1. Steady(s, SettleToIdle(s, S))
    BY SettleToIdleCalm DEF Steady, Gone, SettleToIdle, State
<1>2. Steady(s, DropCorrelation(s, S))
    BY DropCorrelationCalm DEF Steady, Gone, DropCorrelation, State
<1> QED BY <1>1, <1>2

LEMMA IdentityFieldsSteady ==
    ASSUME NEW s \in State, NEW e \in Event
    PROVE  /\ Steady(s, BackfillIdentity(s, e.id, e.src, e.cwd))
           /\ Steady(s, RefreshLineage(s, e.id)) /\ Steady(s, BuryUnknown(s, e))
<1>1. Steady(s, BackfillIdentity(s, e.id, e.src, e.cwd))
    BY EventFields, BackfillIdentityCalm DEF Steady, Gone, BackfillIdentity, State
<1>2. Steady(s, RefreshLineage(s, e.id))
    BY EventFields, RefreshLineageCalm DEF Steady, Gone, RefreshLineage, State
<1>3. Steady(s, BuryUnknown(s, e))
    BY EventFields, BuryUnknownCalm DEF Steady, Gone, BuryUnknown, State
<1> QED BY <1>1, <1>2, <1>3

LEMMA RecordHookToolSteady ==
    ASSUME NEW s \in State, NEW e \in Event
    PROVE  Steady(s, RecordHookTool(s, e))
<1>1. \/ RecordHookTool(s, e) = s
      \/ \E r : RecordHookTool(s, e) = [s EXCEPT !.recent = r]
    BY DEF RecordHookTool, State
<1> QED BY <1>1, RecordHookToolCalm DEF Steady, Gone, State

LEMMA TrackActiveTasksSteady ==
    ASSUME NEW s \in State, NEW e \in Event
    PROVE  Steady(s, TrackActiveTasks(s, e))
<1>1. CASE DispatchesTask(e)
    <2> DEFINE inserted == [s EXCEPT !.tasks[e.id] = @ \cup {e.tool}]
    <2>1. e.tool \in Tool /\ e.id \in Agent
        BY <1>1 DEF DispatchesTask, ToolStart, Event
    <2>2. Calm(s, inserted)
        BY <2>1, ZenonT(30) DEF State, Calm
    <2>3. Steady(s, inserted)
        BY <2>2 DEF Steady, Gone, State
    <2>4. Steady(inserted, EnterDelegating(inserted, e.id, e.tool))
        <3> HIDE DEF inserted
        <3> QED BY <2>1, <2>2, MachineSteady DEF Calm
    <2> QED BY <1>1, <2>3, <2>4, SteadyTrans DEF TrackActiveTasks, TrackDispatch
<1>2. CASE DrainsTask(s, e) /\ ~DispatchesTask(e)
    <2> DEFINE a       == e.id
               left    == s.tasks[a] \ {e.tool}
               removed == [s EXCEPT !.tasks[a] = left, !.drained[a][e.tool] = 0,
                                    !.gate[a] = IF @ = e.tool THEN NoTool ELSE @]
               t       == TrackDrain(s, e)
    <2>1. t.exiting = s.exiting /\ t.ledger = s.ledger /\ t.vouch = s.vouch /\ t.done = s.done
        BY DEF TrackDrain, State
    <2>2. t.gate = [s.gate EXCEPT ![a] = IF @ = e.tool THEN NoTool ELSE @]
        BY DEF TrackDrain, State
    <2>3. a \notin s.here => t.b1 = s.b1
        BY DEF TrackDrain, State
    <2>4. \A x \in Agent \ {a} : t.b1[x] = s.b1[x]
        BY DEF TrackDrain, State
    <2>5. Calm(s, t)
        BY <1>2, TrackDrainCalm
    <2> HIDE DEF t
    <2>6. Steady(s, t)
        BY <2>1, <2>2, <2>3, <2>4, <2>5 DEF Steady, Gone, State
    <2> QED BY <1>2, <2>6 DEF TrackActiveTasks, t
<1> QED BY <1>1, <1>2, FieldsSteady, EventFields DEF TrackActiveTasks

LEMMA ResumeDelegatingSteady ==
    ASSUME NEW s \in State, NEW e \in Event, NEW t \in Tool \cup {NoTool}
    PROVE  Steady(s, ResumeDelegating(s, e, t))
<1> DEFINE d == EnterDelegating(s, e.id, t)
<1>1. Steady(s, s) /\ Steady(s, d)
    BY EventFields, FieldsSteady, MachineSteady
<1>2. Steady(d, [d EXCEPT !.gate[e.id] = NoTool])
    <2> HIDE DEF d
    <2> QED BY <1>1, EventFields, FieldsSteady DEF Steady, Calm
<1> QED BY <1>1, <1>2, SteadyTrans DEF ResumeDelegating

LEMMA StartActivitySteady ==
    ASSUME NEW s \in State, NEW e \in Event
    PROVE  Steady(s, StartActivity(s, e))
<1> DEFINE g == [s EXCEPT !.gate[e.id] = NoTool]
<1>1. Steady(s, s) /\ Steady(s, g)
    BY EventFields, FieldsSteady
<1> HIDE DEF g
<1>2. Steady(g, EnterActive(g, e.id, e.tool, e.task))
    BY <1>1, EventFields, MachineSteady DEF Steady, Calm
<1> QED BY <1>1, <1>2, SteadyTrans DEF StartActivity, g

LEMMA EndActivitySteady ==
    ASSUME NEW s \in State, NEW e \in Event, NEW t \in Tool \cup {NoTool}
    PROVE  Steady(s, EndActivity(s, e, t))
<1> DEFINE a == e.id
           g == IF ResolvesWait(s, e) THEN [s EXCEPT !.gate[a] = NoTool] ELSE s
           ended == IF s.act[a] = "Active" \/ ResolvesWait(s, e)
                    THEN IF s.tasks[a] # {} THEN EnterDelegating(g, a, t)
                                            ELSE ArmPendingIdle(g, a)
                    ELSE g
<1>1. Steady(s, s) /\ Steady(s, g)
    BY EventFields, FieldsSteady
<1>2. Steady(g, g) /\ Steady(g, EnterDelegating(g, a, t)) /\ Steady(g, ArmPendingIdle(g, a))
    <2>1. a \in Agent /\ g \in State
        BY <1>1, EventFields DEF Steady, Calm
    <2> HIDE DEF g, a, ended
    <2> QED BY <2>1, FieldsSteady, MachineSteady
<1>3. Steady(s, ended)
    <2> HIDE DEF g
    <2> QED BY <1>1, <1>2, SteadyTrans
<1>4. Steady(ended, [ended EXCEPT !.quiet[a] = 0])
    <2> HIDE DEF ended
    <2> QED BY <1>3, EventFields, FieldsSteady DEF Steady, Calm
<1> QED BY <1>1, <1>3, <1>4, SteadyTrans DEF EndActivity

LEMMA AwaitPermissionSteady ==
    ASSUME NEW s \in State, NEW e \in Event
    PROVE  Steady(s, AwaitPermission(s, e))
<1> DEFINE t == IF s.act[e.id] = "Active" THEN s.tool[e.id] ELSE NoTool
           g == [s EXCEPT !.gate[e.id] = t]
<1>1. t \in Tool \cup {NoTool}
    BY EventFields DEF State
<1> HIDE DEF t
<1>2. Steady(s, s) /\ (e.id \in s.here => Steady(s, g))
    BY <1>1, EventFields, FieldsSteady
<1>3. e.id \in s.here => Steady(g, EnterWaiting(g, e.id))
    <2> HIDE DEF g
    <2> QED BY <1>2, EventFields, MachineSteady DEF Steady, Calm
<1>4. e.id \in s.here => Steady(s, EnterWaiting(g, e.id))
    <2> HIDE DEF g
    <2> QED BY <1>2, <1>3, SteadyTrans
<1> QED BY <1>2, <1>4 DEF AwaitPermission, t

LEMMA SmallHandlersSteady ==
    ASSUME NEW s \in State, NEW e \in Event
    PROVE  /\ Steady(s, s) /\ Steady(s, Vouch(s, e)) /\ Steady(s, CompleteTurn(s, e))
           /\ Steady(s, NewWork(s, e)) /\ Steady(s, [s EXCEPT !.quiet[e.id] = 0])
    BY EventFields, FieldsSteady DEF Vouch, CompleteTurn, NewWork
-----------------------------------------------------------------------------
(* The operators that start or clear a clock.                              *)

LEMMA ClocksAreInts ==
    ASSUME NEW s \in State, NEW a \in Agent
    PROVE  /\ s.ledger[a].ended \in Int /\ s.ledger[a].ended >= Never
           /\ s.exiting[a] \in Int /\ s.exiting[a] >= Never
<1>1. \A n \in Nat : \A x \in Age(n) : x \in Int /\ x >= Never
    BY DEF Age, Never
<1>2. s.ledger[a].ended \in Age(LedgerTTL)
    BY EntriesOpen DEF State
<1>3. s.exiting[a] \in Age(ExitGrace + 1)
    BY DEF State
<1> QED BY <1>1, <1>2, <1>3, WindowsAreNat

\* An exit that is marked starts at once, long after no end it follows.
LEMMA MarkExitingKeeps ==
    ASSUME NEW s, Kept(s), NEW S \in SUBSET Agent
    PROVE  Kept(MarkExiting(s, S))
<1> DEFINE t == MarkExiting(s, S)
<1>1. s \in State /\ Sound(t)
    BY KeptIsState, MarkExitingCalm, CalmKeepsSound
<1>2. /\ t.here = s.here /\ t.parent = s.parent /\ t.ledger = s.ledger /\ t.gate = s.gate
      /\ t.b1 = s.b1 /\ t.vouch = s.vouch /\ t.done = s.done
      /\ \A a \in Agent : t.exiting[a] = IF a \in S /\ a \in s.here /\ s.exiting[a] = Never
                                         THEN 0 ELSE s.exiting[a]
    BY <1>1 DEF MarkExiting, State
<1> HIDE DEF t
<1>3. \A a \in Agent \ t.here : Gone(t, a)
    BY <1>2 DEF Kept, Ordered, Gone
<1>4. \A a \in Linked(t) : Remembers(t, a)
    BY <1>2 DEF Kept, Linked, Remembers
<1>5. Timed(t)
    <2> SUFFICES ASSUME NEW a \in Linked(t)
                 PROVE  t.ledger[a].ended <= t.exiting[a] \/ ~(t.exiting[a] <= ExitGrace)
        BY <1>4 DEF Timed
    <2>1. a \in Linked(s) /\ a \in Agent
        BY <1>1, <1>2 DEF Linked, State
    <2>2. s.ledger[a].ended \in Int /\ s.exiting[a] \in Int
        BY <1>1, <2>1, ClocksAreInts
    <2>3. s.exiting[a] = Never => s.ledger[a].ended <= Never
        BY <2>1, WindowsAreNat DEF Kept, Ordered, Timed, Never
    <2> QED BY <1>2, <2>1, <2>2, <2>3 DEF Kept, Ordered, Timed, Never
<1> QED BY <1>1, <1>3, <1>4, <1>5 DEF Kept, Ordered, t

LEMMA CascadesKeep ==
    ASSUME NEW s, Kept(s), NEW R \in SUBSET Agent
    PROVE  Kept(CascadeWithRoot(s, R)) /\ Kept(CascadeBelow(s, R))
<1>1. \A r \in R : SubtreeOf(Up(s), r) \in SUBSET Agent
    BY DEF SubtreeOf
<1> QED BY <1>1, MarkExitingKeeps DEF CascadeWithRoot, CascadeBelow

LEMMA FirePendingB1Keeps ==
    ASSUME NEW s, Kept(s)
    PROVE  Kept(FirePendingB1(s))
<1> DEFINE due      == {a \in Agent : ElapsedAtLeast(s.b1[a], B1Grace)}
           disarmed == [s EXCEPT !.b1 = [a \in Agent |-> IF a \in due THEN Never ELSE s.b1[a]]]
           roots    == {a \in due : s.tasks[a] = {}}
<1>1. s \in State
    BY KeptIsState
<1>2. Calm(s, disarmed)
    BY <1>1, WindowsAreNat, AgesOpen DEF State, Calm
<1>3. Steady(s, disarmed)
    BY <1>1, <1>2 DEF Steady, Gone, State
<1>4. Kept(disarmed)
    <2> HIDE DEF disarmed
    <2> QED BY <1>3, SteadyKeeps
<1>5. Kept(CascadeBelow(disarmed, roots))
    <2> HIDE DEF disarmed
    <2> QED BY <1>4, CascadesKeep
<1> QED BY <1>5 DEF FirePendingB1

LEMMA RemoveSlotsKeeps ==
    ASSUME NEW s, Ordered(s), NEW S \in SUBSET Agent
    PROVE  LET t == RemoveSlots(s, S)
           IN  /\ Ordered(t) /\ t.here = s.here \ S
               /\ \A a \in t.here : t.exiting[a] = s.exiting[a] /\ t.parent[a] = s.parent[a]
                                  /\ t.ledger[a] = s.ledger[a]
<1> DEFINE t == RemoveSlots(s, S)
<1>1. s \in State /\ Sound(t) /\ s.here \in SUBSET Agent
    BY SoundHasParents, RemoveSlotsSound DEF Ordered
<1>2. /\ t.here = s.here \ S /\ t.done = s.done \ S
      /\ \A a \in S : /\ t.exiting[a] = Never /\ t.gate[a] = NoTool /\ t.b1[a] = Never
                      /\ t.vouch[a] = Never
      /\ \A a \in Agent \ S : /\ t.exiting[a] = s.exiting[a] /\ t.gate[a] = s.gate[a]
                              /\ t.b1[a] = s.b1[a] /\ t.vouch[a] = s.vouch[a]
                              /\ t.parent[a] = s.parent[a] /\ t.ledger[a] = s.ledger[a]
    BY <1>1 DEF RemoveSlots, DropVouch, DropCorrelation, State
<1> HIDE DEF t
<1>3. \A a \in Agent \ t.here : Gone(t, a)
    BY <1>2 DEF Ordered, Gone
<1>4. Timed(t)
    BY <1>1, <1>2 DEF Ordered, Timed, Linked, Remembers
<1> QED BY <1>1, <1>2, <1>3, <1>4 DEF Ordered, t

\* The ledger forgets an ended child only when its slot is past its walkout.
LEMMA GcKeepsOrder ==
    ASSUME NEW s, Kept(s)
    PROVE  Ordered(Gc(s)) /\ Gc(s).here = s.here /\ Gc(s).exiting = s.exiting
           /\ Gc(s).desk = s.desk /\ Gc(s).parent = s.parent
<1> DEFINE t == Gc(s)
<1>1. s \in State /\ Sound(t) /\ Calm(s, t) /\ s.here \in SUBSET Agent
    BY KeptIsState, GcCalm, CalmKeepsSound
<1>2. /\ t.exiting = s.exiting /\ t.gate = s.gate /\ t.b1 = s.b1 /\ t.done = s.done
      /\ \A a \in Agent : t.vouch[a] = Keep(s.vouch[a], VouchTTL)
      /\ \A a \in Agent : s.ledger[a].ended = Never \/ Fresh(s.ledger[a].ended, LedgerTTL)
                            => t.ledger[a] = s.ledger[a]
    BY <1>1 DEF Gc, State
<1> HIDE DEF t
<1>3. \A a \in Agent \ t.here : Gone(t, a)
    BY <1>1, <1>2 DEF Kept, Ordered, Gone, Calm, Keep
<1>4. Timed(t)
    <2> SUFFICES ASSUME NEW a \in Linked(t), t.exiting[a] <= ExitGrace
                 PROVE  Remembers(t, a) /\ t.ledger[a].ended <= t.exiting[a]
        BY DEF Timed
    <2>1. a \in Linked(s) /\ a \in Agent /\ t.parent[a] = s.parent[a]
        BY <1>1 DEF Linked, Calm
    <2>2. Remembers(s, a) /\ s.ledger[a].ended <= s.exiting[a] /\ s.exiting[a] <= ExitGrace
        BY <1>2, <2>1 DEF Kept, Ordered, Timed
    <2>3. s.ledger[a].ended = Never \/ Fresh(s.ledger[a].ended, LedgerTTL)
        BY <1>1, <2>1, <2>2, ClocksAreInts, WindowsAreNat, LedgerOutlivesExit DEF Fresh, Never
    <2> QED BY <1>2, <2>1, <2>2, <2>3 DEF Remembers
<1> QED BY <1>1, <1>2, <1>3, <1>4 DEF Ordered, Calm, t

\* What a slot's place in the preamble is: it is swept when its walkout is
\* over, and otherwise left as it was.
LEMMA PreambleKeeps ==
    ASSUME NEW s, Kept(s)
    PROVE  /\ Kept(Preamble(s)) /\ Preamble(s).here \subseteq s.here
           /\ \A a \in Preamble(s).here : Preamble(s).desk[a] = s.desk[a]
           /\ \A a \in s.here \ Preamble(s).here : ElapsedPast(s.exiting[a], ExitGrace)
<1> DEFINE g == Gc(s)
           S == {a \in g.here : ElapsedPast(g.exiting[a], ExitGrace)}
           w == SweepExited(g)
<1>1. /\ Ordered(g) /\ g.here = s.here /\ g.exiting = s.exiting /\ g.desk = s.desk
      /\ s \in State /\ s.here \in SUBSET Agent
    BY GcKeepsOrder, KeptIsState
<1> HIDE DEF g
<1>2. /\ Ordered(w) /\ w.here = g.here \ S
      /\ \A a \in w.here : w.exiting[a] = g.exiting[a]
    BY <1>1, RemoveSlotsKeeps DEF SweepExited
<1>3. g \in State /\ \A a \in Agent \ S : w.desk[a] = g.desk[a]
    BY <1>1, SoundHasParents DEF SweepExited, RemoveSlots, DropVouch, DropCorrelation, State, Ordered
<1>4. \A a \in w.here : w.exiting[a] <= ExitGrace
    BY <1>1, <1>2, ClocksAreInts, WindowsAreNat DEF ElapsedPast
<1>5. \A a \in S : ElapsedPast(s.exiting[a], ExitGrace)
    BY <1>1
<1> HIDE DEF w, S
<1>6. Kept(w) /\ w \in State /\ w.here \in SUBSET Agent
    BY <1>2, <1>4, SoundHasParents DEF Kept, Ordered, Timed, Linked
<1>7. Steady(w, ExpirePendingIdles(w))
    BY <1>6, SettleToIdleSteady DEF ExpirePendingIdles
<1>8. Kept(ExpirePendingIdles(w))
    BY <1>6, <1>7, SteadyKeeps
<1>9. Preamble(s) = ExpirePendingIdles(w)
    BY DEF Preamble, w, g
<1> QED BY <1>1, <1>2, <1>3, <1>5, <1>6, <1>7, <1>8, <1>9 DEF Steady, Calm
-----------------------------------------------------------------------------
(* Newcomers.                                                              *)

\* From s to t everyone keeps desk and slot, and whoever is new is not on the
\* way out.
Opened(s, t) ==
    /\ \A a \in s.here : a \in t.here /\ t.desk[a] = s.desk[a]
    /\ \A a \in t.here \ s.here : t.exiting[a] = Never

\* And whoever is new is a root, so that no cascade from above can reach it.
Rooted(s, t) ==
    /\ Opened(s, t)
    /\ \A a \in t.here \ s.here : t.parent[a] = NoAgent

LEMMA SteadyOpens ==
    ASSUME NEW s, NEW t, Steady(s, t)
    PROVE  Opened(s, t) /\ Rooted(s, t)
    BY DEF Opened, Rooted, Steady, Calm

LEMMA CalmOpens ==
    ASSUME NEW s, NEW u, NEW t, Calm(s, u), Opened(u, t)
    PROVE  Opened(s, t)
    BY DEF Opened, Calm

LEMMA RootedThenSteady ==
    ASSUME NEW s, NEW u, NEW t, Rooted(s, u), Steady(u, t)
    PROVE  Rooted(s, t)
    BY DEF Opened, Rooted, Steady, Calm

\* What register_slot does to the parts that matter here.
LEMMA RegisterEffect ==
    ASSUME NEW s \in State, NEW a \in Agent, a \notin s.here, NEW src, NEW cwd, NEW p
    PROVE  LET r == Register(s, a, src, cwd, p)
           IN  \/ r = s
               \/ /\ r.here = s.here \cup {a} /\ r.exiting = s.exiting /\ r.gate = s.gate
                  /\ r.b1 = s.b1 /\ r.vouch = s.vouch /\ r.done = s.done /\ r.ledger = s.ledger
                  /\ r.parent = [s.parent EXCEPT ![a] = p]
                  /\ \A b \in Agent \ {a} : r.desk[b] = s.desk[b]
    BY DEF Register, State

\* A blank root: a hook's proof of life, or an identity that comes first.
LEMMA BlankRootKeeps ==
    ASSUME NEW s, Kept(s), NEW a \in Agent, a \notin s.here,
           NEW src \in Source \cup {Blank}, NEW cwd \in BOOLEAN
    PROVE  LET t == [Register(s, a, src, cwd, NoAgent) EXCEPT !.ghost[a] = FALSE]
           IN  Kept(t) /\ Rooted(s, t)
<1> DEFINE r == Register(s, a, src, cwd, NoAgent)
           t == [r EXCEPT !.ghost[a] = FALSE]
<1>1. s \in State /\ Sound(s) /\ Sound(r) /\ s.here \in SUBSET Agent
    BY KeptIsState, RegisterSound
<1>2. \/ r = s
      \/ /\ r.here = s.here \cup {a} /\ r.exiting = s.exiting /\ r.gate = s.gate
         /\ r.b1 = s.b1 /\ r.vouch = s.vouch /\ r.done = s.done /\ r.ledger = s.ledger
         /\ r.parent = [s.parent EXCEPT ![a] = NoAgent]
         /\ \A b \in Agent \ {a} : r.desk[b] = s.desk[b]
    BY <1>1, RegisterEffect
<1> HIDE DEF r
<1>3. /\ \A b \in Agent \ r.here : Gone(r, b)
      /\ Linked(r) = Linked(s)
      /\ \A b \in Linked(s) : r.parent[b] = s.parent[b]
    BY <1>1, <1>2 DEF Kept, Ordered, Gone, Linked, State
<1>4. r.ledger = s.ledger /\ r.exiting = s.exiting
    BY <1>2
<1>5. Kept(r)
    BY <1>1, <1>3, <1>4 DEF Kept, Ordered, Timed, Remembers
<1>6. Steady(r, t)
    BY <1>1, SoundHasParents, FieldsSteady
<1>7. Rooted(s, r)
    BY <1>1, <1>2 DEF Rooted, Opened, Kept, Ordered, Gone, State
<1> HIDE DEF t
<1> QED BY <1>5, <1>6, <1>7, SteadyKeeps, RootedThenSteady DEF t, r

LEMMA FirstStartKeeps ==
    ASSUME NEW s, Kept(s), NEW e \in Event, e.id \notin s.here
    PROVE  Kept(FirstStart(s, e)) /\ Opened(s, FirstStart(s, e))
<1> DEFINE a == e.id
           p == AcceptedParent(s, e)
           r == Register(s, a, e.src, e.cwd, p)
           t == FirstStart(s, e)
<1>1. /\ s \in State /\ Sound(s) /\ s.here \in SUBSET Agent /\ a \in Agent
      /\ p \in Agent \cup {NoAgent}
    BY KeptIsState, EventFields, AcceptedParentIsSafe
<1>2. Sound(t)
    BY <1>1, FirstStartSound
<1>3. \/ r = s
      \/ /\ r.here = s.here \cup {a} /\ r.exiting = s.exiting /\ r.gate = s.gate
         /\ r.b1 = s.b1 /\ r.vouch = s.vouch /\ r.done = s.done /\ r.ledger = s.ledger
         /\ r.parent = [s.parent EXCEPT ![a] = p]
         /\ \A b \in Agent \ {a} : r.desk[b] = s.desk[b]
    BY <1>1, RegisterEffect
<1>4. t = IF a \in r.here /\ p # NoAgent THEN LinkAppliedParent(r, a, p) ELSE r
    BY DEF FirstStart
<1> HIDE DEF r, t, p, a
<1>5. CASE r = s
    <2>1. t = s
        BY <1>4, <1>5 DEF a
    <2> QED BY <2>1 DEF Opened, t
<1>6. CASE /\ r.here = s.here \cup {a} /\ r.exiting = s.exiting /\ r.gate = s.gate
           /\ r.b1 = s.b1 /\ r.vouch = s.vouch /\ r.done = s.done /\ r.ledger = s.ledger
           /\ r.parent = [s.parent EXCEPT ![a] = p]
           /\ \A b \in Agent \ {a} : r.desk[b] = s.desk[b]
    <2> DEFINE entry == [known |-> TRUE, parent |-> p, ended |-> Never]
    <2>1. /\ t.here = r.here /\ t.exiting = r.exiting /\ t.gate = r.gate /\ t.b1 = r.b1
          /\ t.vouch = r.vouch /\ t.done = r.done /\ t.parent = r.parent /\ t.desk = r.desk
          /\ t.ledger = IF p # NoAgent THEN [r.ledger EXCEPT ![a] = entry] ELSE r.ledger
        BY <1>1, <1>4, <1>6, SoundHasParents DEF LinkAppliedParent, State
    <2>2. \A b \in Agent \ t.here : Gone(t, b)
        BY <1>1, <1>6, <2>1 DEF Kept, Ordered, Gone
    <2>3. s.exiting[a] = Never
        BY <1>1 DEF Kept, Ordered, Gone, a
    <2>4. a \in Linked(t) => Remembers(t, a) /\ t.ledger[a].ended = Never
        BY <1>1, <1>6, <2>1 DEF Linked, Remembers, State
    <2>5. \A b \in Linked(t) \ {a} : /\ b \in Linked(s) /\ t.ledger[b] = s.ledger[b]
                                     /\ t.parent[b] = s.parent[b] /\ t.exiting[b] = s.exiting[b]
        BY <1>1, <1>6, <2>1 DEF Linked, State
    <2>6. \A b \in Linked(t) : Remembers(t, b)
        BY <2>4, <2>5 DEF Kept, Remembers
    <2>7. Timed(t)
        BY <1>6, <2>1, <2>3, <2>4, <2>5, <2>6 DEF Kept, Ordered, Timed, Never
    <2>8. Opened(s, t)
        BY <1>1, <1>6, <2>1, <2>3 DEF Opened, a
    <2> QED BY <1>2, <2>2, <2>6, <2>7, <2>8 DEF Kept, Ordered, t
<1> QED BY <1>3, <1>5, <1>6 DEF t

\* A parent link is recorded in the same step that sets it, and only a root's
\* walkout is undone.
LEMMA DuplicateStartKeeps ==
    ASSUME NEW s, Kept(s), NEW e \in Event, e.id \in s.here
    PROVE  Kept(DuplicateStart(s, e)) /\ Opened(s, DuplicateStart(s, e))
<1> DEFINE a == e.id
           p == AcceptedParent(s, e)
           joined == [s EXCEPT !.parent[a] = p]
           linked == IF s.parent[a] = NoAgent /\ p # NoAgent
                     THEN LinkAppliedParent(joined, a, p) ELSE s
           filled == BackfillIdentity(linked, a, e.src, e.cwd)
           healed == [filled EXCEPT !.quiet[a] = 0]
           risen  == ResurrectInPlace(healed, a)
<1>1. /\ s \in State /\ Sound(s) /\ s.here \in SUBSET Agent /\ a \in Agent
      /\ p \in Agent \cup {NoAgent}
    BY KeptIsState, EventFields, AcceptedParentIsSafe
<1>2. Kept(linked) /\ linked.here = s.here /\ linked.desk = s.desk
    <2>1. CASE s.parent[a] = NoAgent /\ p # NoAgent
        <3> DEFINE entry == [known |-> TRUE, parent |-> p, ended |-> Never]
                   t == LinkAppliedParent(joined, a, p)
        <3>1. Sound(t)
            BY <1>1, <2>1, LinkedSound
        <3>2. /\ t.here = s.here /\ t.exiting = s.exiting /\ t.gate = s.gate /\ t.b1 = s.b1
              /\ t.vouch = s.vouch /\ t.done = s.done /\ t.desk = s.desk
              /\ t.parent = [s.parent EXCEPT ![a] = p]
              /\ t.ledger = [s.ledger EXCEPT ![a] = entry]
            BY <1>1 DEF LinkAppliedParent, State
        <3> HIDE DEF t, p, a
        <3>3. Remembers(t, a) /\ t.ledger[a].ended = Never
            BY <1>1, <3>2 DEF Remembers, State
        <3>4. \A b \in Linked(t) \ {a} : /\ b \in Linked(s) /\ t.ledger[b] = s.ledger[b]
                                         /\ t.parent[b] = s.parent[b]
            BY <1>1, <3>2 DEF Linked, State
        <3>5. \A b \in Agent \ t.here : Gone(t, b)
            BY <3>2 DEF Kept, Ordered, Gone
        <3>6. \A b \in Linked(t) : Remembers(t, b)
            BY <3>3, <3>4 DEF Kept, Remembers
        <3>7. t.ledger[a].ended <= t.exiting[a]
            BY <1>1, <3>2, <3>3, ClocksAreInts
        <3>8. Timed(t)
            BY <3>2, <3>4, <3>6, <3>7 DEF Kept, Ordered, Timed
        <3> QED BY <2>1, <3>1, <3>2, <3>5, <3>6, <3>8 DEF Kept, Ordered, t
    <2>2. CASE ~(s.parent[a] = NoAgent /\ p # NoAgent)
        BY <2>2
    <2> QED BY <2>1, <2>2
<1> HIDE DEF linked
<1>3. Kept(healed) /\ healed.here = s.here /\ healed.desk = s.desk
    <2>1. linked \in State
        BY <1>2, KeptIsState
    <2>2. Steady(linked, filled)
        BY <2>1, IdentityFieldsSteady
    <2>3. filled \in State
        BY <2>2 DEF Steady, Calm
    <2> HIDE DEF filled
    <2>4. Steady(filled, healed)
        BY <1>1, <2>3, FieldsSteady
    <2> HIDE DEF healed
    <2> QED BY <1>2, <2>2, <2>4, SteadyKeeps DEF Steady, Calm
<1> HIDE DEF healed
<1>4. CASE healed.exiting[a] # Never /\ healed.parent[a] = NoAgent /\ p = NoAgent
    <2> DEFINE t == DropCorrelation(risen, {a})
    <2>1. healed \in State /\ Sound(healed) /\ healed.here \in SUBSET Agent
        BY <1>3, KeptIsState
    <2>2. Sound(risen) /\ risen \in State
        BY <1>1, <2>1, ResurrectInPlaceCalm, CalmKeepsSound, SoundHasParents
    <2>3. /\ risen.here = healed.here /\ risen.parent = healed.parent /\ risen.gate = healed.gate
          /\ risen.b1 = healed.b1 /\ risen.vouch = healed.vouch /\ risen.done = healed.done
          /\ risen.ledger = healed.ledger /\ risen.desk = healed.desk
          /\ risen.exiting = [healed.exiting EXCEPT ![a] = Never]
        BY <2>1 DEF ResurrectInPlace, State
    <2> HIDE DEF risen, a, p
    <2>4. \A b \in Agent \ risen.here : Gone(risen, b)
        BY <1>1, <1>3, <2>1, <2>3 DEF Kept, Ordered, Gone, State
    <2>5. /\ Linked(risen) = Linked(healed) /\ a \notin Linked(healed)
          /\ \A b \in Linked(healed) : risen.exiting[b] = healed.exiting[b]
        BY <1>1, <1>4, <2>1, <2>3 DEF Linked, State
    <2>6. Timed(risen) /\ \A b \in Linked(risen) : Remembers(risen, b)
        BY <1>3, <2>3, <2>5 DEF Kept, Ordered, Timed, Remembers
    <2>7. Kept(risen)
        BY <2>2, <2>4, <2>6 DEF Kept, Ordered
    <2>8. Steady(risen, t)
        BY <1>1, <2>2, SettleToIdleSteady
    <2>9. DuplicateStart(s, e) = t
        BY <1>4 DEF DuplicateStart, healed, linked, risen, a, p
    <2> HIDE DEF t
    <2>10. Kept(t) /\ t.here = s.here /\ t.desk = s.desk
        BY <1>3, <2>3, <2>7, <2>8, SteadyKeeps DEF Steady, Calm
    <2> QED BY <2>9, <2>10 DEF Opened
<1>5. CASE ~(healed.exiting[a] # Never /\ healed.parent[a] = NoAgent /\ p = NoAgent)
    <2>1. DuplicateStart(s, e) = healed
        BY <1>5 DEF DuplicateStart, healed, linked
    <2> QED BY <1>3, <2>1 DEF Opened
<1> QED BY <1>4, <1>5
-----------------------------------------------------------------------------
(* The handlers.                                                           *)

\* The ledger's clock of an ended child starts with the child's walkout, or
\* after it.
LEMMA EndSessionKeeps ==
    ASSUME NEW s, Kept(s), NEW e \in Event
    PROVE  Kept(EndSession(s, e)) /\ Opened(s, EndSession(s, e))
<1> DEFINE a == e.id
           entry == [s.ledger[a] EXCEPT !.known = TRUE, !.ended = 0]
           l == IF e.child THEN [s EXCEPT !.ledger[a] = entry] ELSE s
           t == EndSession(s, e)
           S == UNION {SubtreeOf(Up(l), r) : r \in {a}}
<1>1. s \in State /\ a \in Agent /\ s.here \in SUBSET Agent
    BY KeptIsState, EventFields
<1>2. Calm(s, t) /\ Sound(t)
    BY <1>1, KeptIsState, EndSessionCalm, CalmKeepsSound
<1>3. /\ l.exiting = s.exiting /\ l.gate = s.gate /\ l.b1 = s.b1 /\ l.vouch = s.vouch
      /\ l.done = s.done /\ l.here = s.here /\ l.desk = s.desk /\ l.parent = s.parent
      /\ l.ledger = s.ledger \/ l.ledger = [s.ledger EXCEPT ![a] = entry]
    BY <1>1 DEF State
<1>4. a \in S
    BY <1>1 DEF SubtreeOf
<1>5. t = MarkExiting(l, S)
    BY DEF EndSession, CascadeWithRoot
<1> HIDE DEF S
<1>6. /\ t.gate = s.gate /\ t.b1 = s.b1 /\ t.vouch = s.vouch /\ t.done = s.done
      /\ t.ledger = l.ledger
      /\ \A b \in Agent : t.exiting[b] = IF b \in S /\ b \in s.here /\ s.exiting[b] = Never
                                         THEN 0 ELSE s.exiting[b]
    BY <1>1, <1>3, <1>5 DEF MarkExiting, State
<1>7. s.ledger[a] \in LedgerEntry
    BY <1>1 DEF State
<1>8. /\ entry.known = TRUE /\ entry.ended = 0 /\ entry.parent = s.ledger[a].parent
    BY <1>7 DEF LedgerEntry
<1> HIDE DEF t, l, entry
<1>9. ASSUME NEW b \in Agent
      PROVE  /\ t.ledger[b].parent = s.ledger[b].parent
             /\ s.ledger[b].known => t.ledger[b].known
             /\ t.ledger[b].ended = s.ledger[b].ended \/ (b = a /\ t.ledger[b].ended = 0)
    <2>1. t.ledger[b] = s.ledger[b] \/ (b = a /\ t.ledger[b] = entry)
        BY <1>1, <1>3, <1>6 DEF State
    <2> QED BY <1>8, <2>1
<1>10. \A b \in Agent \ t.here : Gone(t, b)
    BY <1>2, <1>6 DEF Kept, Ordered, Gone, Calm
<1>11. \A b \in Linked(t) : b \in Linked(s) /\ Remembers(t, b)
    BY <1>1, <1>2, <1>9 DEF Kept, Linked, Remembers, Calm
<1>12. ASSUME NEW b \in Linked(t), t.exiting[b] <= ExitGrace
       PROVE  t.ledger[b].ended <= t.exiting[b]
    <2>1. b \in Linked(s) /\ b \in s.here /\ b \in Agent
        BY <1>1, <1>11, <1>12 DEF Linked
    <2>2. s.exiting[b] <= ExitGrace
        BY <1>1, <1>6, <1>12, <2>1, WindowsAreNat DEF Never
    <2>3. s.ledger[b].ended <= s.exiting[b]
        BY <2>1, <2>2 DEF Kept, Ordered, Timed
    <2>4. s.exiting[b] <= t.exiting[b]
        BY <1>1, <1>6, <2>1, ClocksAreInts DEF Never
    <2>5. b = a => t.exiting[b] >= 0
        BY <1>1, <1>4, <1>6, <2>1, ClocksAreInts DEF Never
    <2>6. t.exiting[b] \in Int
        BY <1>1, <1>6, <2>1, ClocksAreInts
    <2> QED BY <1>1, <1>9, <2>1, <2>3, <2>4, <2>5, <2>6, ClocksAreInts
<1>13. Timed(t)
    BY <1>11, <1>12 DEF Timed
<1>14. Opened(s, t)
    BY <1>2 DEF Calm, Opened
<1> QED BY <1>2, <1>10, <1>11, <1>13, <1>14 DEF Kept, Ordered, t

LEMMA IdentifyKeeps ==
    ASSUME NEW s, Kept(s), NEW e \in Event
    PROVE  /\ Kept(Identify(s, e)) /\ Opened(s, Identify(s, e))
           /\ Kept(SynthesizeHookRegistration(s, e)) /\ Rooted(s, SynthesizeHookRegistration(s, e))
           /\ e.kind \notin {"ActivityStart", "ActivityEnd", "Waiting"} =>
                 SynthesizeHookRegistration(s, e) = s
<1> DEFINE filled == BackfillIdentity(s, e.id, e.src, e.cwd)
           known  == [filled EXCEPT !.ghost[e.id] = FALSE]
<1>1. s \in State /\ e.id \in Agent /\ Rooted(s, s)
    BY KeptIsState, EventFields DEF Rooted, Opened
<1>2. e.id \notin s.here =>
         \A src \in Source \cup {Blank}, cwd \in BOOLEAN :
            LET t == [Register(s, e.id, src, cwd, NoAgent) EXCEPT !.ghost[e.id] = FALSE]
            IN  Kept(t) /\ Rooted(s, t)
    BY <1>1, BlankRootKeeps
<1>3. Steady(s, known)
    <2>1. Steady(s, filled) /\ filled \in State
        BY <1>1, IdentityFieldsSteady DEF Steady, Calm
    <2> HIDE DEF filled
    <2>2. Steady(filled, known)
        BY <1>1, <2>1, FieldsSteady
    <2> QED BY <2>1, <2>2, SteadyTrans
<1>4. Kept(known) /\ Opened(s, known)
    <2> HIDE DEF known
    <2> QED BY <1>3, SteadyKeeps, SteadyOpens
<1>5. Kept(SynthesizeHookRegistration(s, e)) /\ Rooted(s, SynthesizeHookRegistration(s, e))
    BY <1>1, <1>2 DEF SynthesizeHookRegistration
<1>6. Kept(Identify(s, e)) /\ Opened(s, Identify(s, e))
    BY <1>1, <1>2, <1>4, EventFields DEF Identify, Rooted
<1> QED BY <1>5, <1>6 DEF SynthesizeHookRegistration

\* The kinds of event for which a hook may register an unknown id.
Proving == {"ActivityStart", "ActivityEnd", "Waiting"}

LEMMA HandleKeeps ==
    ASSUME NEW s, Kept(s), NEW e \in Event, NEW t \in Tool \cup {NoTool}, NEW b \in BOOLEAN
    PROVE  /\ Kept(Handle(s, e, t, b)) /\ Opened(s, Handle(s, e, t, b))
           /\ e.kind \in Proving => Steady(s, Handle(s, e, t, b))
<1> DEFINE n == NewWork(s, e)
           c == CompleteTurn(s, e)
           h == Handle(s, e, t, b)
<1>1. s \in State /\ Steady(s, s) /\ Steady(s, n) /\ Steady(s, c) /\ Steady(s, Vouch(s, e))
      /\ Steady(s, [s EXCEPT !.quiet[e.id] = 0]) /\ Steady(s, EndActivity(s, e, t))
    BY KeptIsState, SmallHandlersSteady, EndActivitySteady
<1> HIDE DEF n, c
<1>2. n \in State /\ c \in State /\ Kept(n) /\ n.here = s.here /\ n.desk = s.desk
    BY <1>1, SteadyKeeps DEF Steady, Calm
<1>3. /\ Steady(n, StartActivity(n, e)) /\ Steady(n, AwaitPermission(n, e))
      /\ Steady(c, EndActivity(c, e, t))
    BY <1>2, StartActivitySteady, AwaitPermissionSteady, EndActivitySteady
<1>4. /\ Steady(s, StartActivity(n, e)) /\ Steady(s, AwaitPermission(n, e))
      /\ Steady(s, EndActivity(c, e, t))
    BY <1>1, <1>3, SteadyTrans
<1>5. CASE e.kind \in Proving \cup {"TurnComplete", "Rename", "ProofOfLife"}
    <2>1. Steady(s, h)
        BY <1>1, <1>4, <1>5 DEF Handle, Proving, n, c
    <2> QED BY <2>1, SteadyKeeps, SteadyOpens
<1>6. CASE e.kind = "SessionStart"
    <2>1. h = StartSession(n, e)
        BY <1>6 DEF Handle, n
    <2>2. Opened(n, n)
        BY DEF Opened
    <2>3. Kept(StartSession(n, e)) /\ Opened(n, StartSession(n, e))
        BY <1>2, <2>2, FirstStartKeeps, DuplicateStartKeeps DEF StartSession
    <2>4. Opened(s, h)
        BY <1>2, <2>1, <2>3 DEF Opened
    <2> QED BY <1>6, <2>1, <2>3, <2>4 DEF Proving
<1>7. CASE e.kind \in {"SessionEnd", "Identity"}
    BY <1>7, EndSessionKeeps, IdentifyKeeps DEF Handle, Proving
<1>8. e.kind \in Kinds
    BY DEF Event
<1> QED BY <1>5, <1>6, <1>7, <1>8 DEF Kinds, Proving
-----------------------------------------------------------------------------
(* The steps of the reducer task.                                          *)

\* A deferred cascade falls on descendants, and a root is nobody's.
LEMMA FirePendingB1SparesRoots ==
    ASSUME NEW s \in State, NEW a \in Agent, s.parent[a] = NoAgent
    PROVE  FirePendingB1(s).exiting[a] = s.exiting[a]
<1> DEFINE due      == {x \in Agent : ElapsedAtLeast(s.b1[x], B1Grace)}
           disarmed == [s EXCEPT !.b1 = [x \in Agent |-> IF x \in due THEN Never ELSE s.b1[x]]]
           roots    == {x \in due : s.tasks[x] = {}}
           S        == UNION {SubtreeOf(Up(disarmed), r) \ {r} : r \in roots}
<1>1. ASSUME NEW r \in Agent, r # a
      PROVE  a \notin SubtreeOf(Up(disarmed), r)
    <2> DEFINE T == {x \in Agent : x = r \/ s.parent[x] # NoAgent}
    <2>1. r \in T /\ a \notin T /\ T \in SUBSET Agent
        BY <1>1
    <2>2. Up(disarmed) = s.parent
        BY DEF Up, State
    <2>3. DownClosed(s.parent, T)
        BY NoAgentAssumption DEF DownClosed
    <2> QED BY <2>1, <2>2, <2>3 DEF SubtreeOf
<1>2. a \notin S
    BY <1>1
<1>3. FirePendingB1(s) = MarkExiting(disarmed, S)
    BY DEF FirePendingB1, CascadeBelow
<1> HIDE DEF S
<1> QED BY <1>2, <1>3 DEF MarkExiting, State

LEMMA FirePendingB1Rooted ==
    ASSUME NEW p, NEW s, Kept(s), Rooted(p, s)
    PROVE  Rooted(p, FirePendingB1(s))
<1>1. s \in State /\ s.here \in SUBSET Agent /\ Calm(s, FirePendingB1(s))
    BY KeptIsState, FirePendingB1Calm
<1>2. \A a \in s.here \ p.here : FirePendingB1(s).exiting[a] = s.exiting[a]
    BY <1>1, FirePendingB1SparesRoots DEF Rooted
<1> QED BY <1>1, <1>2 DEF Rooted, Opened, Calm

\* What an event finds: expired slots are gone, and a hook may have registered
\* its session.
LEMMA MetKeeps ==
    ASSUME NEW s, Kept(s), NEW e \in Event
    PROVE  /\ Kept(Met(s, e)) /\ Rooted(Preamble(s), Met(s, e))
           /\ e.kind \notin Proving => Calm(Preamble(s), Met(s, e))
<1> DEFINE p == Preamble(s)
           u == BuryUnknown(p, e)
           h == IF e.via = "Hook" THEN SynthesizeHookRegistration(u, e) ELSE p
           m == Met(s, e)
<1>1. Kept(p) /\ p \in State
    BY PreambleKeeps, KeptIsState
<1> HIDE DEF p
<1>2. Steady(p, p) /\ Steady(p, u) /\ Kept(u) /\ u \in State
    BY <1>1, IdentityFieldsSteady, SmallHandlersSteady, SteadyKeeps DEF Steady, Calm
<1> HIDE DEF u
<1>3. Kept(h) /\ h \in State /\ Rooted(p, h) /\ (e.kind \notin Proving => Calm(p, h))
    <2>1. /\ Kept(SynthesizeHookRegistration(u, e)) /\ Rooted(u, SynthesizeHookRegistration(u, e))
          /\ e.kind \notin Proving => SynthesizeHookRegistration(u, e) = u
        BY <1>2, IdentifyKeeps DEF Proving
    <2>2. Rooted(p, SynthesizeHookRegistration(u, e)) /\ Rooted(p, p)
        BY <1>2, <2>1 DEF Rooted, Opened, Steady, Calm
    <2> QED BY <1>1, <1>2, <2>1, <2>2, KeptIsState DEF Steady
<1> HIDE DEF h
<1>4. Steady(h, h) /\ Steady(h, RefreshLineage(h, e.id))
    BY <1>3, IdentityFieldsSteady, SmallHandlersSteady
<1>5. m = IF IsActivity(e) THEN RefreshLineage(h, e.id) ELSE h
    BY DEF Met, h, u, p
<1>6. Steady(h, m)
    BY <1>4, <1>5
<1> HIDE DEF m
<1>7. Kept(m) /\ Rooted(p, m)
    BY <1>3, <1>6, SteadyKeeps, RootedThenSteady
<1>8. e.kind \notin Proving => Calm(p, m)
    BY <1>3, <1>6, CalmTrans DEF Steady
<1> QED BY <1>7, <1>8 DEF m, p

\* One applied event, whatever it is: after the sweep that runs ahead of it,
\* everyone keeps their desk, and whoever comes in is not walking out.
LEMMA ApplyKeeps ==
    ASSUME NEW s, Kept(s), NEW e \in Event, NEW t \in Tool \cup {NoTool}
    PROVE  Kept(Apply(s, e, t)) /\ Opened(Preamble(s), Apply(s, e, t))
<1> DEFINE p == Preamble(s)
           m == Met(s, e)
           r == IF e.via = "Hook" THEN RecordHookTool(m, e) ELSE m
           k == TrackActiveTasks(r, e)
           f == FirePendingB1(k)
           h == Handle(f, e, t, DrainsTask(r, e))
           d == ResumeDelegating(m, e, t)
<1>1. /\ Kept(m) /\ m \in State /\ Rooted(p, m)
      /\ e.kind \notin Proving => Calm(p, m)
    BY MetKeeps, KeptIsState
<1>2. Kept(m) /\ Opened(p, m)
    BY <1>1 DEF Rooted
<1> HIDE DEF p, m
<1>3. Kept(d) /\ Opened(p, d)
    <2>1. Steady(m, d)
        BY <1>1, ResumeDelegatingSteady
    <2> QED BY <1>1, <2>1, SteadyKeeps, RootedThenSteady DEF Rooted
<1>4. Steady(m, r) /\ r \in State
    BY <1>1, RecordHookToolSteady, SmallHandlersSteady DEF Steady, Calm
<1>5. DrainsTask(r, e) \in BOOLEAN
    BY DEF DrainsTask, ToolEnd
<1> HIDE DEF r
<1>6. Steady(m, k)
    BY <1>4, TrackActiveTasksSteady, SteadyTrans
<1> HIDE DEF k
<1>7. Kept(k) /\ k \in State /\ Rooted(p, k) /\ (e.kind \notin Proving => Calm(p, k))
    <2>1. Calm(m, k)
        BY <1>6 DEF Steady
    <2> QED BY <1>1, <1>6, <2>1, SteadyKeeps, RootedThenSteady, KeptIsState, CalmTrans
<1>8. Kept(f) /\ Rooted(p, f) /\ (e.kind \notin Proving => Calm(p, f))
    <2>1. Kept(f) /\ Rooted(p, f) /\ Calm(k, f)
        BY <1>7, FirePendingB1Keeps, FirePendingB1Rooted, FirePendingB1Calm
    <2> HIDE DEF f
    <2> QED BY <1>7, <2>1, CalmTrans
<1> HIDE DEF f
<1>9. Kept(h) /\ Opened(f, h) /\ (e.kind \in Proving => Steady(f, h))
    BY <1>5, <1>8, HandleKeeps
<1> HIDE DEF h
<1>10. Opened(p, h)
    <2>1. e.kind \in Proving => Rooted(p, h)
        BY <1>8, <1>9, RootedThenSteady
    <2> QED BY <1>8, <1>9, <2>1, CalmOpens DEF Rooted
<1>11. Apply(s, e, t) \in {d, m, h}
    BY DEF Apply, Process, m, r, k, f, h
<1> HIDE DEF d
<1> QED BY <1>2, <1>3, <1>9, <1>10, <1>11 DEF p

\* Why an agent's desk may be another after a step: it came in, or it had
\* walked out, and if it is in again it is not on its way out.
Walks(s, t) ==
    \A a \in Agent :
        \/ t.desk[a] = s.desk[a]
        \/ a \notin s.here /\ t.exiting[a] = Never
        \/ a \in s.here /\ s.exiting[a] # Never /\ (a \in t.here => t.exiting[a] = Never)

LEMMA SweptWalk ==
    ASSUME NEW s, Kept(s), NEW t, Kept(t), Opened(Preamble(s), t)
    PROVE  Walks(s, t)
<1> DEFINE p == Preamble(s)
<1>1. /\ p.here \subseteq s.here
      /\ \A a \in p.here : p.desk[a] = s.desk[a]
      /\ \A a \in s.here \ p.here : ElapsedPast(s.exiting[a], ExitGrace)
    BY PreambleKeeps
<1>2. s \in State /\ t \in State
    BY KeptIsState
<1>3. \A a \in s.here \ p.here : s.exiting[a] # Never
    BY <1>1, WindowsAreNat DEF ElapsedPast, Never
<1>4. \A a \in Agent \ t.here : t.exiting[a] = Never
    BY DEF Kept, Ordered, Gone
<1> HIDE DEF p
<1> QED BY <1>1, <1>3, <1>4 DEF Walks, Opened, p

LEMMA CalmWalks ==
    ASSUME NEW s, NEW t, Calm(s, t)
    PROVE  Walks(s, t)
    BY DEF Calm, Walks

\* reconcile_connected only starts walkouts, so it is the sweep of an earlier
\* one that empties a desk.
LEMMA TickKeeps ==
    ASSUME NEW s, Kept(s), NEW on
    PROVE  LET t == Tick(ReconcileConnected(s, on)) IN Kept(t) /\ Walks(s, t)
<1> DEFINE R == {a \in s.here : s.exiting[a] = Never /\ s.src[a] \notin on}
           c == ReconcileConnected(s, on)
           p == Preamble(c)
           f == FirePendingB1(p)
           w == SweepStale(f)
           t == RetainOwned(w)
<1>1. s \in State /\ R \in SUBSET Agent /\ Calm(s, c) /\ Kept(c)
    BY KeptIsState, CascadesCalm, CascadesKeep DEF ReconcileConnected
<1>2. \A a \in Agent : c.exiting[a] = s.exiting[a] \/ c.exiting[a] = 0
    BY <1>1 DEF ReconcileConnected, CascadeWithRoot, MarkExiting, State
<1> HIDE DEF c
<1>3. /\ Kept(p) /\ p.here \subseteq c.here
      /\ \A a \in p.here : p.desk[a] = c.desk[a]
      /\ \A a \in c.here \ p.here : ElapsedPast(c.exiting[a], ExitGrace)
    BY <1>1, PreambleKeeps
<1> HIDE DEF p
<1>4. Kept(f) /\ Calm(p, f)
    BY <1>3, KeptIsState, FirePendingB1Keeps, FirePendingB1Calm
<1> HIDE DEF f
<1>5. Kept(w) /\ Calm(f, w)
    BY <1>4, KeptIsState, CascadesKeep, CascadesCalm DEF SweepStale, Stale
<1> HIDE DEF w
<1>6. Kept(t) /\ Calm(w, t)
    BY <1>5, KeptIsState, SettleToIdleSteady, SteadyKeeps DEF RetainOwned, Steady
<1> HIDE DEF t
<1>7. Calm(p, t)
    BY <1>4, <1>5, <1>6, CalmTrans
<1>8. ASSUME NEW a \in s.here \ t.here
      PROVE  a \in Agent /\ s.exiting[a] # Never
    <2>1. a \in Agent /\ a \in c.here \ p.here
        BY <1>1, <1>7 DEF Calm, State
    <2>2. c.exiting[a] > ExitGrace
        BY <1>3, <2>1 DEF ElapsedPast
    <2>3. c.exiting[a] # 0
        BY <2>2, WindowsAreNat
    <2> QED BY <1>2, <2>1, <2>2, <2>3, WindowsAreNat DEF Never
<1>9. \A a \in t.here : t.desk[a] = s.desk[a]
    BY <1>1, <1>3, <1>7 DEF Calm
<1>10. \A a \in Agent \ s.here : t.desk[a] = s.desk[a]
    BY <1>1, <1>3, <1>6, <1>7 DEF Calm, Kept, Ordered, Sound
<1>11. Walks(s, t)
    BY <1>8, <1>9, <1>10 DEF Walks
<1> QED BY <1>6, <1>11 DEF Tick, t, w, f, p, c

LEMMA ElapsedKeeps ==
    ASSUME NEW s, Kept(s)
    PROVE  Kept(Elapsed(s)) /\ Walks(s, Elapsed(s))
<1> DEFINE t == Elapsed(s)
<1>1. s \in State /\ s.here \in SUBSET Agent /\ Sound(t)
    BY KeptIsState, ElapsedSound
<1>2. /\ t.here = s.here /\ t.parent = s.parent /\ t.desk = s.desk /\ t.gate = s.gate
      /\ t.done = s.done
      /\ \A a \in Agent : /\ t.exiting[a] = Older(s.exiting[a], ExitGrace + 1)
                           /\ t.b1[a] = Older(s.b1[a], B1Grace)
                           /\ t.vouch[a] = Older(s.vouch[a], VouchTTL)
                           /\ t.ledger[a] = [s.ledger[a] EXCEPT !.ended = Older(@, LedgerTTL)]
    BY <1>1 DEF Elapsed, State
<1> HIDE DEF t
<1>3. \A a \in Agent \ t.here : Gone(t, a)
    BY <1>2 DEF Kept, Ordered, Gone, Older
<1>4. ASSUME NEW a \in Agent
      PROVE  /\ t.ledger[a].known = s.ledger[a].known /\ t.ledger[a].parent = s.ledger[a].parent
             /\ t.ledger[a].ended = Older(s.ledger[a].ended, LedgerTTL)
    <2>1. s.ledger[a] \in LedgerEntry
        BY <1>1 DEF State
    <2> QED BY <1>2, <2>1 DEF LedgerEntry
<1>5. Linked(t) = Linked(s) /\ \A a \in Linked(t) : a \in Agent /\ Remembers(t, a)
    BY <1>1, <1>2, <1>4 DEF Kept, Linked, Remembers
<1>6. ASSUME NEW a \in Linked(t), t.exiting[a] <= ExitGrace
      PROVE  t.ledger[a].ended <= t.exiting[a]
    <2>1. a \in Agent /\ a \in Linked(s)
        BY <1>5
    <2>2. t.ledger[a].ended = Older(s.ledger[a].ended, LedgerTTL)
          /\ t.exiting[a] = Older(s.exiting[a], ExitGrace + 1)
        BY <1>2, <1>4, <2>1
    <2>3. s.exiting[a] \in Int /\ s.ledger[a].ended \in Int /\ s.ledger[a].ended >= Never
        BY <1>1, <2>1, ClocksAreInts
    <2>4. s.exiting[a] <= ExitGrace
        BY <1>6, <2>2, <2>3, WindowsAreNat DEF Older, Never
    <2>5. s.ledger[a].ended <= s.exiting[a]
        BY <2>1, <2>4 DEF Kept, Ordered, Timed
    <2> QED BY <2>2, <2>3, <2>4, <2>5, WindowsAreNat, LedgerOutlivesExit DEF Older, Never
<1>7. Timed(t)
    BY <1>5, <1>6 DEF Timed
<1>8. Walks(s, t)
    BY <1>2 DEF Walks
<1> QED BY <1>1, <1>3, <1>5, <1>7, <1>8 DEF Kept, Ordered, t
-----------------------------------------------------------------------------
(* What a step may never do.                                               *)

\* A parent map with fewer links.
LEMMA FewerLinks ==
    ASSUME NEW up, NEW fewer, NEW a, \A x \in Agent : fewer[x] \in {up[x], NoAgent}
    PROVE  LineageOf(fewer, a) \subseteq LineageOf(up, a)
<1> SUFFICES ASSUME NEW y \in LineageOf(fewer, a), NEW S \in SUBSET Agent, a \in S, UpClosed(up, S)
             PROVE  y \in S
    BY DEF LineageOf
<1>1. UpClosed(fewer, S)
    BY DEF UpClosed
<1> QED BY <1>1 DEF LineageOf

\* Who is below x has x above.
LEMMA BelowAndAbove ==
    ASSUME NEW up \in ParentMap, NEW x \in Agent, NEW a \in SubtreeOf(up, x)
    PROVE  x \in LineageOf(up, a)
<1> SUFFICES ASSUME NEW S \in SUBSET Agent, a \in S, UpClosed(up, S), x \notin S
             PROVE  FALSE
    BY DEF LineageOf
<1>1. DownClosed(up, Agent \ S)
    BY NoAgentAssumption DEF DownClosed, UpClosed, ParentMap
<1> QED BY <1>1 DEF SubtreeOf

\* What the preamble leaves of the slots it keeps, and of the memory of ended
\* lives; what it takes away is that of slots that have walked out.
LEMMA PreambleMemory ==
    ASSUME NEW s, Kept(s), NEW a \in Agent
    PROVE  LET p == Preamble(s)
           IN  /\ Fresh(s.tomb[a], Tombstone) => p.tomb[a] = s.tomb[a]
               /\ Fresh(s.ledger[a].ended, LedgerTTL) => p.ledger[a] = s.ledger[a]
               /\ p.parent[a] \in {s.parent[a], NoAgent}
               /\ a \in p.here => /\ p.exiting[a] = s.exiting[a] /\ p.tasks[a] = s.tasks[a]
                                  /\ p.b1[a] = s.b1[a]
               /\ a \in s.here /\ s.exiting[a] = Never => a \in p.here
<1> DEFINE g == Gc(s)
           S == {x \in g.here : ElapsedPast(g.exiting[x], ExitGrace)}
           w == RemoveSlots(g, S)
           p == Preamble(s)
<1>1. s \in State /\ g \in State
    BY KeptIsState, GcCalm DEF Calm
<1>2. /\ g.here = s.here /\ g.exiting = s.exiting /\ g.tasks = s.tasks /\ g.b1 = s.b1 /\ g.parent = s.parent
      /\ Fresh(s.tomb[a], Tombstone) => g.tomb[a] = s.tomb[a]
      /\ Fresh(s.ledger[a].ended, LedgerTTL) => g.ledger[a] = s.ledger[a]
    BY <1>1 DEF Gc, State, Keep
<1> HIDE DEF g
<1>3. /\ w.here = g.here \ S /\ w.tomb = g.tomb
      /\ g.ledger[a].ended # Never => w.ledger[a] = g.ledger[a]
      /\ w.parent[a] = IF a \in S THEN NoAgent ELSE g.parent[a]
      /\ a \notin S => w.exiting[a] = g.exiting[a] /\ w.tasks[a] = g.tasks[a] /\ w.b1[a] = g.b1[a]
    BY <1>1 DEF RemoveSlots, DropVouch, DropCorrelation, State
<1>4. s.exiting[a] = Never => a \notin S
    BY <1>2, WindowsAreNat DEF ElapsedPast, Never
<1>5. a \in w.here => a \notin S
    BY <1>3
<1>6. Fresh(s.ledger[a].ended, LedgerTTL) => s.ledger[a].ended # Never
    BY DEF Fresh, Never
<1> HIDE DEF w, S
<1>7. p = ExpirePendingIdles(w)
    BY DEF Preamble, SweepExited, w, S, g
<1>8. /\ p.here = w.here /\ p.tomb = w.tomb /\ p.ledger = w.ledger /\ p.parent = w.parent
      /\ p.exiting = w.exiting /\ p.tasks = w.tasks /\ p.b1 = w.b1
    <2>1. w \in State
        <3>1. Ordered(g)
            BY GcKeepsOrder DEF g
        <3>2. S \in SUBSET Agent
            BY <1>1 DEF S, State
        <3>3. Ordered(w)
            BY <3>1, <3>2, RemoveSlotsKeeps DEF w
        <3> QED BY <3>3, SoundHasParents DEF Ordered
    <2> QED BY <1>7, <2>1 DEF ExpirePendingIdles, SettleToIdle, State
<1> HIDE DEF p
<1>9. a \in s.here /\ s.exiting[a] = Never => a \in p.here
    BY <1>2, <1>3, <1>4, <1>8 DEF w, S
<1> QED BY <1>2, <1>3, <1>5, <1>6, <1>8, <1>9 DEF p

\* A slot that a due cascade sends home has an agent above it whose last Task
\* is long done.
LEMMA FireHasCause ==
    ASSUME NEW s \in State
    PROVE  LET f == FirePendingB1(s)
           IN  /\ f.tomb = s.tomb /\ f.ledger = s.ledger /\ f.here = s.here /\ f.parent = s.parent
               /\ f.tasks = s.tasks
               /\ \A a \in Agent :
                     \/ f.exiting[a] = s.exiting[a]
                     \/ \E x \in AncestorsOf(Up(s), a) : s.tasks[x] = {} /\ ElapsedAtLeast(s.b1[x], B1Grace)
<1> DEFINE due      == {x \in Agent : ElapsedAtLeast(s.b1[x], B1Grace)}
           disarmed == [s EXCEPT !.b1 = [x \in Agent |-> IF x \in due THEN Never ELSE s.b1[x]]]
           roots    == {x \in due : s.tasks[x] = {}}
           S        == UNION {SubtreeOf(s.parent, r) \ {r} : r \in roots}
           f        == FirePendingB1(s)
<1>1. /\ disarmed.tomb = s.tomb /\ disarmed.ledger = s.ledger /\ disarmed.here = s.here
      /\ disarmed.parent = s.parent /\ disarmed.exiting = s.exiting /\ disarmed.tasks = s.tasks
      /\ disarmed \in State
    <2>1. Calm(s, disarmed)
        BY WindowsAreNat, AgesOpen DEF State, Calm
    <2> QED BY <2>1 DEF State, Calm
<1>2. f = MarkExiting(disarmed, S)
    BY <1>1 DEF FirePendingB1, CascadeBelow, Up
<1> HIDE DEF f, disarmed
<1>3. /\ f.tomb = s.tomb /\ f.ledger = s.ledger /\ f.here = s.here /\ f.parent = s.parent /\ f.tasks = s.tasks
      /\ \A a \in Agent : a \notin S => f.exiting[a] = s.exiting[a]
    BY <1>1, <1>2 DEF MarkExiting, State
<1>4. ASSUME NEW a \in S
      PROVE  \E x \in AncestorsOf(Up(s), a) : s.tasks[x] = {} /\ ElapsedAtLeast(s.b1[x], B1Grace)
    <2>1. PICK r \in roots : a \in SubtreeOf(s.parent, r) \ {r}
        BY <1>4
    <2>2. r \in LineageOf(s.parent, a) \ {a}
        BY <2>1, BelowAndAbove DEF State, ParentMap
    <2> QED BY <2>1, <2>2 DEF AncestorsOf, Up
<1> HIDE DEF S
<1> QED BY <1>3, <1>4 DEF f

\* A parented start for an agent the reducer remembers to have ended changes no
\* slot.
LEMMA EchoIsDropped ==
    ASSUME NEW s, Kept(s), NEW e \in Event, NEW t,
           e.kind = "SessionStart", e.parent # NoAgent, e.id \notin Preamble(s).here,
           \/ Fresh(s.tomb[e.id], Tombstone)
           \/ s.ledger[e.id].known /\ Fresh(s.ledger[e.id].ended, LedgerTTL)
    PROVE  Apply(s, e, t).here = Preamble(s).here
<1> DEFINE p == Preamble(s)
           f == FirePendingB1(p)
           n == NewWork(f, e)
<1>1. p \in State /\ e.id \in Agent
    BY PreambleKeeps, KeptIsState, EventFields
<1>2. Tombstoned(p, e.id) \/ RecentlyEnded(p, e.id)
    BY <1>1, PreambleMemory DEF Tombstoned, RecentlyEnded
<1> HIDE DEF p
<1>3. Met(s, e) = p
    BY DEF Met, BuryUnknown, SynthesizeHookRegistration, IsActivity, p
<1>4. Apply(s, e, t) = StartSession(n, e)
    BY <1>3 DEF Apply, LeakedFromSubagent, HookWon, Process, RecordHookTool, TrackActiveTasks,
       DispatchesTask, DrainsTask, ToolStart, ToolEnd, Handle
<1>5. f \in State /\ f.here = p.here /\ f.tomb = p.tomb /\ f.ledger = p.ledger
    BY <1>1, FireHasCause, FirePendingB1Calm DEF Calm
<1> HIDE DEF f
<1>6. n.here = p.here /\ n.tomb = p.tomb /\ n.ledger = p.ledger
    BY <1>5 DEF NewWork, State
<1>7. LateEcho(n, e)
    BY <1>2, <1>6 DEF LateEcho, Tombstoned, RecentlyEnded, p
<1> HIDE DEF n
<1> QED BY <1>4, <1>6, <1>7 DEF StartSession, p

\* The end of a session, whatever walked out before it in the same apply.
LEMMA EndMarksSubtree ==
    ASSUME NEW s, Kept(s), NEW e \in Event, NEW t, e.kind = "SessionEnd"
    PROVE  \A a \in SubtreeOf(Up(Preamble(s)), e.id) \cap Apply(s, e, t).here :
              Apply(s, e, t).exiting[a] # Never
<1> DEFINE p == Preamble(s)
           m == Met(s, e)
           f == FirePendingB1(m)
           l == IF e.child THEN [f EXCEPT !.ledger[e.id] = [@ EXCEPT !.known = TRUE, !.ended = 0]] ELSE f
           T == SubtreeOf(Up(p), e.id)
<1>1. p \in State /\ e.id \in Agent
    BY PreambleKeeps, KeptIsState, EventFields
<1> HIDE DEF p
<1>2. m \in {p, BuryUnknown(p, e)}
    BY DEF Met, SynthesizeHookRegistration, IsActivity, p
<1>3. Calm(p, m)
    BY <1>1, <1>2, BuryUnknownCalm, FieldsCalm
<1>4. Apply(s, e, t) = CascadeWithRoot(l, {e.id})
    BY DEF Apply, LeakedFromSubagent, HookWon, Process, RecordHookTool, TrackActiveTasks,
       DispatchesTask, DrainsTask, ToolStart, ToolEnd, Handle, EndSession
<1> HIDE DEF m
<1>5. f \in State /\ f.here = p.here /\ f.parent = p.parent
    BY <1>3, FirePendingB1Calm DEF Calm
<1> HIDE DEF f
<1>6. l \in State /\ l.here = f.here /\ l.parent = f.parent
    BY <1>1, <1>5, EntriesOpen DEF State
<1> HIDE DEF l
<1>7. Apply(s, e, t) = MarkExiting(l, T)
    BY <1>4, <1>5, <1>6 DEF CascadeWithRoot, Up
<1>8. T \in SUBSET Agent
    BY DEF SubtreeOf
<1> HIDE DEF T
<1>9. \A a \in T \cap MarkExiting(l, T).here : MarkExiting(l, T).exiting[a] # Never
    BY <1>6, <1>8 DEF MarkExiting, State, Never
<1> QED BY <1>7, <1>9 DEF T, p

\* Handling an event sends nobody home but by the end of a session.
LEMMA HandleHasCause ==
    ASSUME NEW s, Kept(s), NEW e \in Event, NEW t \in Tool \cup {NoTool}, NEW b \in BOOLEAN,
           NEW a \in Agent, s.exiting[a] = Never, Handle(s, e, t, b).exiting[a] # Never
    PROVE  e.kind = "SessionEnd" /\ e.id \in LineageOf(Up(s), a)
<1> DEFINE n == NewWork(s, e)
           c == CompleteTurn(s, e)
           h == Handle(s, e, t, b)
<1>1. s \in State /\ e.id \in Agent /\ Steady(s, s) /\ Steady(s, n) /\ Steady(s, c) /\ Steady(s, Vouch(s, e))
      /\ Steady(s, [s EXCEPT !.quiet[e.id] = 0]) /\ Steady(s, EndActivity(s, e, t))
    BY KeptIsState, SmallHandlersSteady, EndActivitySteady, EventFields
<1> HIDE DEF n, c
<1>2. n \in State /\ c \in State /\ n.exiting = s.exiting
    BY <1>1 DEF Steady, Calm
<1>3. /\ Steady(s, StartActivity(n, e)) /\ Steady(s, AwaitPermission(n, e))
      /\ Steady(s, EndActivity(c, e, t))
    BY <1>1, <1>2, StartActivitySteady, AwaitPermissionSteady, EndActivitySteady, SteadyTrans
<1>4. CASE e.kind \in Proving \cup {"TurnComplete", "Rename", "ProofOfLife"}
    <2>1. Steady(s, h)
        BY <1>1, <1>3, <1>4 DEF Handle, Proving, n, c
    <2> QED BY <2>1 DEF Steady
<1>5. CASE e.kind = "SessionStart"
    <2> DEFINE p      == AcceptedParent(n, e)
               linked == IF n.parent[e.id] = NoAgent /\ p # NoAgent
                         THEN LinkAppliedParent([n EXCEPT !.parent[e.id] = p], e.id, p) ELSE n
               healed == [BackfillIdentity(linked, e.id, e.src, e.cwd) EXCEPT !.quiet[e.id] = 0]
               r      == Register(n, e.id, e.src, e.cwd, p)
    <2>1. h = StartSession(n, e)
        BY <1>5 DEF Handle, n
    <2>2. DuplicateStart(n, e).exiting[a] = Never
        <3>1. linked.exiting = n.exiting
            BY <1>2 DEF LinkAppliedParent, State
        <3>2. healed.exiting = linked.exiting
            <4>1. linked \in {n, LinkAppliedParent([n EXCEPT !.parent[e.id] = p], e.id, p)}
                OBVIOUS
            <4> QED BY <1>2, <4>1 DEF BackfillIdentity, LinkAppliedParent, State
        <3>3. healed.exiting \in [Agent -> Age(ExitGrace + 1)] /\ healed.exiting[a] = Never
            BY <1>2, <3>1, <3>2 DEF State
        <3>4. DropCorrelation(ResurrectInPlace(healed, e.id), {e.id}).exiting[a] = Never
            <4>1. \A x : DropCorrelation(x, {e.id}).exiting = x.exiting
                BY DEF DropCorrelation
            <4>2. p \in Agent \cup {NoAgent}
                BY <1>1, <1>2, EventFields, EntriesOpen DEF AcceptedParent, AdoptedParent, State
            <4>3. linked \in State
                <5>1. [n EXCEPT !.parent[e.id] = p] \in State
                    BY <1>2, <4>2 DEF State
                <5> HIDE DEF p
                <5> QED BY <1>1, <1>2, <4>2, <5>1, LinkAppliedParentCalm DEF Calm
            <4>4. healed \in State
                <5> HIDE DEF linked
                <5> QED BY <1>1, <4>3, EventFields, BackfillIdentityCalm, FieldsCalm DEF Calm
            <4> HIDE DEF healed
            <4> QED BY <3>3, <4>1, <4>4, ZenonT(30) DEF ResurrectInPlace, State
        <3> QED BY <3>3, <3>4 DEF DuplicateStart
    <2>3. FirstStart(n, e).exiting = n.exiting
        <3>1. r.exiting = n.exiting
            BY <1>2 DEF Register, State
        <3>2. LinkAppliedParent(r, e.id, p).exiting = r.exiting
            BY <1>2 DEF LinkAppliedParent, Register, State
        <3> QED BY <3>1, <3>2 DEF FirstStart
    <2>4. h.exiting[a] = Never
        BY <1>2, <2>1, <2>2, <2>3 DEF StartSession
    <2> QED BY <2>4
<1>6. CASE e.kind = "Identity"
    <2>1. h = Identify(s, e)
        BY <1>6 DEF Handle
    <2>2. Identify(s, e).exiting = s.exiting
        BY <1>1 DEF Identify, BackfillIdentity, Register, State
    <2> QED BY <2>1, <2>2
<1>7. CASE e.kind = "SessionEnd"
    <2> DEFINE l == IF e.child THEN [s EXCEPT !.ledger[e.id] = [@ EXCEPT !.known = TRUE, !.ended = 0]] ELSE s
               S == SubtreeOf(s.parent, e.id)
    <2>1. l.parent = s.parent /\ l.exiting = s.exiting
        BY <1>1 DEF State
    <2>2. h = CascadeWithRoot(l, {e.id})
        BY <1>7 DEF Handle, EndSession
    <2> HIDE DEF l
    <2>3. h = MarkExiting(l, S)
        BY <2>1, <2>2 DEF CascadeWithRoot, Up
    <2>4. l \in State
        BY <1>1, EntriesOpen DEF State, l
    <2> HIDE DEF h, S
    <2>5. a \in S
        BY <2>1, <2>3, <2>4 DEF MarkExiting, State, h
    <2> QED BY <1>1, <1>7, <2>5, BelowAndAbove DEF S, State, ParentMap, Up
<1>8. e.kind \in Kinds
    BY DEF Event
<1> QED BY <1>4, <1>5, <1>6, <1>7, <1>8 DEF Kinds, Proving

\* What an event meets: nobody is sent home, nothing of a Task changes.
LEMMA MetIsQuiet ==
    ASSUME NEW s, Kept(s), NEW e \in Event
    PROVE  /\ Met(s, e).exiting = Preamble(s).exiting
           /\ Met(s, e).tasks = Preamble(s).tasks /\ Met(s, e).b1 = Preamble(s).b1
           /\ \A x \in Agent : Met(s, e).parent[x] \in {Preamble(s).parent[x], NoAgent}
<1> DEFINE p == Preamble(s)
           u == BuryUnknown(p, e)
           y == SynthesizeHookRegistration(u, e)
           h == IF e.via = "Hook" THEN y ELSE p
<1>1. p \in State
    BY PreambleKeeps, KeptIsState
<1> HIDE DEF p
<1>2. u \in State /\ u.exiting = p.exiting /\ u.tasks = p.tasks /\ u.b1 = p.b1 /\ u.parent = p.parent
    BY <1>1, BuryUnknownCalm DEF BuryUnknown, State, Calm
<1> HIDE DEF u
<1>3. /\ y.exiting = p.exiting /\ y.tasks = p.tasks /\ y.b1 = p.b1
      /\ \A x \in Agent : y.parent[x] \in {p.parent[x], NoAgent}
    BY <1>2, EventFields DEF SynthesizeHookRegistration, Register, State
<1> HIDE DEF y
<1>4. Met(s, e) = IF IsActivity(e) THEN RefreshLineage(h, e.id) ELSE h
    BY DEF Met, h, y, u, p
<1>5. \A x : RefreshLineage(x, e.id).exiting = x.exiting /\ RefreshLineage(x, e.id).tasks = x.tasks
             /\ RefreshLineage(x, e.id).b1 = x.b1 /\ RefreshLineage(x, e.id).parent = x.parent
    BY DEF RefreshLineage
<1> QED BY <1>3, <1>4, <1>5 DEF p

\* Task tracking arms no cascade that is due, and the dispatch of a Task takes
\* its agent off the list of those that are.
LEMMA TrackingArmsNothingDue ==
    ASSUME NEW s, Kept(s), NEW e \in Event, NEW x \in Agent
    PROVE  LET k == TrackActiveTasks(s, e)
           IN  k.tasks[x] = {} /\ ElapsedAtLeast(k.b1[x], B1Grace) =>
                  /\ s.tasks[x] = {} /\ ElapsedAtLeast(s.b1[x], B1Grace)
                  /\ DispatchesTask(e) => x # e.id
<1>1. s \in State /\ e.id \in Agent
    BY KeptIsState, EventFields
<1>2. CASE DispatchesTask(e)
    <2>1. TrackDispatch(s, e).tasks = [s.tasks EXCEPT ![e.id] = @ \cup {e.tool}] /\ TrackDispatch(s, e).b1 = s.b1
        BY <1>1 DEF TrackDispatch, EnterDelegating, State
    <2>2. TrackActiveTasks(s, e) = TrackDispatch(s, e)
        BY <1>2 DEF TrackActiveTasks
    <2>3. TrackDispatch(s, e).tasks[x] = {} => x # e.id /\ s.tasks[x] = {}
        <3>1. s.tasks \in [Agent -> SUBSET Tool]
            BY <1>1 DEF State
        <3> QED BY <1>1, <2>1, <3>1
    <2> QED BY <2>1, <2>2, <2>3
<1>3. CASE DrainsTask(s, e) /\ ~DispatchesTask(e)
    <2> DEFINE k    == TrackDrain(s, e)
               left == s.tasks[e.id] \ {e.tool}
    <2>1. k.tasks = [s.tasks EXCEPT ![e.id] = left]
        BY <1>1 DEF TrackDrain, State
    <2>2. k.b1 = IF e.id \in s.here /\ left = {} THEN [s.b1 EXCEPT ![e.id] = 0] ELSE s.b1
        BY <1>1 DEF TrackDrain, State
    <2>3. TrackActiveTasks(s, e) = k
        BY <1>3 DEF TrackActiveTasks
    <2> HIDE DEF k
    <2>4. ~ElapsedAtLeast(0, B1Grace) /\ ~ElapsedAtLeast(Never, B1Grace)
        <3>1. B1Grace \in Nat \ {0}
            <4>1. B1Grace \in Windows /\ \A w \in Windows : w \in Nat \ {0}
                BY ReducerAssumption, Zenon DEF Windows
            <4> QED BY <4>1
        <3> QED BY <3>1 DEF ElapsedAtLeast, Never
    <2>5. e.id \notin s.here => s.b1[e.id] = Never
        BY <1>1 DEF Kept, Ordered, Gone
    <2>6. CASE x = e.id /\ left = {}
        <3>1. s.b1 \in [Agent -> Age(B1Grace)]
            BY <1>1 DEF State
        <3>2. k.b1[x] \in {0, Never}
            BY <1>1, <2>2, <2>5, <2>6, <3>1
        <3> QED BY <2>3, <2>4, <3>2
    <2>7. CASE ~(x = e.id /\ left = {})
        <3>1. k.tasks[x] = {} => x # e.id /\ s.tasks[x] = {}
            BY <1>1, <2>1, <2>7 DEF State
        <3>2. x # e.id => k.b1[x] = s.b1[x]
            BY <1>1, <2>2 DEF State
        <3> QED BY <1>3, <2>3, <3>1, <3>2
    <2> QED BY <2>6, <2>7
<1>4. CASE ~DrainsTask(s, e) /\ ~DispatchesTask(e)
    BY <1>4 DEF TrackActiveTasks
<1> QED BY <1>2, <1>3, <1>4

\* Whoever starts to walk out when an event is applied does so by the end of
\* its session or of one above, or because an agent above has long seen its last
\* Task done and does not dispatch another with this event.
LEMMA ApplyHasCause ==
    ASSUME NEW s, Kept(s), NEW e \in Event, NEW t \in Tool \cup {NoTool},
           NEW a \in s.here, s.exiting[a] = Never, Apply(s, e, t).exiting[a] # Never
    PROVE  \/ e.kind = "SessionEnd" /\ e.id \in LineageOf(Up(s), a)
           \/ \E x \in AncestorsOf(Up(s), a) :
                 /\ s.tasks[x] = {} /\ ElapsedAtLeast(s.b1[x], B1Grace)
                 /\ DispatchesTask(e) => x # e.id
<1> DEFINE p == Preamble(s)
           m == Met(s, e)
           r == IF e.via = "Hook" THEN RecordHookTool(m, e) ELSE m
           k == TrackActiveTasks(r, e)
           f == FirePendingB1(k)
           h == Handle(f, e, t, DrainsTask(r, e))
           d == ResumeDelegating(m, e, t)
<1>1. s \in State /\ a \in Agent /\ s.here \in SUBSET Agent
    BY KeptIsState
<1>2. a \in p.here /\ p.exiting[a] = Never
    BY <1>1, PreambleMemory
<1>3. ASSUME NEW x \in Agent
      PROVE  /\ p.parent[x] \in {s.parent[x], NoAgent}
             /\ p.tasks[x] = {} /\ ElapsedAtLeast(p.b1[x], B1Grace) =>
                   s.tasks[x] = {} /\ ElapsedAtLeast(s.b1[x], B1Grace)
    <2>1. x \notin p.here => p.b1[x] = Never
        BY PreambleKeeps DEF Kept, Ordered, Gone
    <2> QED BY <2>1, PreambleMemory, WindowsAreNat DEF ElapsedAtLeast, Never
<1>4. /\ m.exiting = p.exiting /\ m.tasks = p.tasks /\ m.b1 = p.b1
      /\ \A x \in Agent : m.parent[x] \in {p.parent[x], NoAgent}
      /\ Kept(m) /\ m \in State
    BY MetIsQuiet, MetKeeps, KeptIsState
<1> HIDE DEF p, m
<1>5. Steady(m, d)
    BY <1>4, ResumeDelegatingSteady
<1>6. Steady(m, r) /\ r.tasks = m.tasks /\ r.b1 = m.b1
    <2>1. RecordHookTool(m, e).tasks = m.tasks /\ RecordHookTool(m, e).b1 = m.b1
        BY <1>4 DEF RecordHookTool, State
    <2> QED BY <1>4, <2>1, RecordHookToolSteady, FieldsSteady, EventFields
<1>7. DrainsTask(r, e) \in BOOLEAN /\ Kept(r) /\ r \in State
    BY <1>4, <1>6, SteadyKeeps, KeptIsState DEF DrainsTask, ToolEnd
<1> HIDE DEF r
<1>8. Steady(r, k) /\ Kept(k) /\ k \in State
    BY <1>7, TrackActiveTasksSteady, SteadyKeeps, KeptIsState
<1>9. \A x \in Agent : k.tasks[x] = {} /\ ElapsedAtLeast(k.b1[x], B1Grace) =>
          /\ m.tasks[x] = {} /\ ElapsedAtLeast(m.b1[x], B1Grace)
          /\ DispatchesTask(e) => x # e.id
    BY <1>6, <1>7, TrackingArmsNothingDue
<1> HIDE DEF k
<1>10. \A x \in Agent : k.parent[x] \in {s.parent[x], NoAgent}
    BY <1>3, <1>4, <1>6, <1>8 DEF Steady, Calm
<1>11. k.exiting[a] = Never /\ m.exiting[a] = Never /\ d.exiting[a] = Never
    BY <1>2, <1>4, <1>5, <1>6, <1>8 DEF Steady
<1>12. LineageOf(Up(k), a) \subseteq LineageOf(Up(s), a)
    BY <1>10, FewerLinks DEF Up
<1>13. Kept(f) /\ f.parent = k.parent
    BY <1>8, FirePendingB1Keeps, FireHasCause
<1>14. CASE f.exiting[a] # Never
    <2>1. PICK x \in AncestorsOf(Up(k), a) : k.tasks[x] = {} /\ ElapsedAtLeast(k.b1[x], B1Grace)
        BY <1>1, <1>8, <1>11, <1>14, FireHasCause
    <2>2. x \in AncestorsOf(Up(s), a) /\ x \in Agent
        BY <1>12, <2>1 DEF AncestorsOf, LineageOf
    <2> QED BY <1>3, <1>4, <1>9, <2>1, <2>2
<1>15. CASE f.exiting[a] = Never
    <2> HIDE DEF f, d
    <2>1. h.exiting[a] # Never
        <3>1. Apply(s, e, t) \in {d, m, h}
            BY DEF Apply, Process, m, r, k, f, h, d
        <3> QED BY <1>11, <3>1
    <2>2. e.kind = "SessionEnd" /\ e.id \in LineageOf(Up(f), a)
        BY <1>1, <1>7, <1>13, <1>15, <2>1, HandleHasCause
    <2> QED BY <1>12, <1>13, <2>2 DEF Up
<1> QED BY <1>14, <1>15

\* The fields that the sweep of silent slots reads.
Alike(s, t) ==
    /\ t.here = s.here /\ t.parent = s.parent /\ t.act = s.act /\ t.tool = s.tool /\ t.task = s.task
    /\ t.src = s.src /\ t.ghost = s.ghost /\ t.quiet = s.quiet /\ t.vouch = s.vouch
    /\ t.pending = s.pending

\* The preamble reads no clock of a walkout but whether it is over.
LEMMA PreambleAlike ==
    ASSUME NEW s, Kept(s), NEW t, Kept(t), Alike(s, t),
           \A a \in Agent : ElapsedPast(t.exiting[a], ExitGrace) <=> ElapsedPast(s.exiting[a], ExitGrace)
    PROVE  Alike(Preamble(s), Preamble(t))
<1> DEFINE S == {a \in s.here : ElapsedPast(s.exiting[a], ExitGrace)}
           w(x) == RemoveSlots(Gc(x), S)
<1>1. s \in State /\ t \in State /\ S \in SUBSET Agent
    BY KeptIsState
<1>2. S = {a \in t.here : ElapsedPast(t.exiting[a], ExitGrace)}
    BY <1>1 DEF Alike, State
<1>3. Gc(s) \in State /\ Gc(t) \in State /\ Alike(Gc(s), Gc(t))
    <2>1. Gc(s) \in State /\ Gc(t) \in State
        BY <1>1, GcCalm DEF Calm
    <2>2. \A x \in {s, t} : /\ Gc(x).here = x.here /\ Gc(x).parent = x.parent /\ Gc(x).act = x.act
                            /\ Gc(x).tool = x.tool /\ Gc(x).task = x.task /\ Gc(x).src = x.src
                            /\ Gc(x).ghost = x.ghost /\ Gc(x).quiet = x.quiet /\ Gc(x).pending = x.pending
                            /\ Gc(x).vouch = [a \in Agent |-> Keep(x.vouch[a], VouchTTL)]
        BY <1>1 DEF Gc, State
    <2> QED BY <2>1, <2>2 DEF Alike
<1>4. SweepExited(Gc(s)) = w(s) /\ SweepExited(Gc(t)) = w(t)
    <2>1. \A x : Gc(x).here = x.here /\ Gc(x).exiting = x.exiting
        BY DEF Gc
    <2> QED BY <1>2, <2>1 DEF SweepExited
<1> HIDE DEF S
<1>5. Alike(w(s), w(t)) /\ w(s) \in State /\ w(t) \in State
    <2>1. Alike(w(s), w(t))
        BY <1>1, <1>3 DEF Alike, RemoveSlots, DropVouch, DropCorrelation, State
    <2>2. w(s) \in State /\ w(t) \in State
        BY <1>1, GcKeepsOrder, RemoveSlotsKeeps, SoundHasParents DEF Ordered
    <2> QED BY <2>1, <2>2
<1> HIDE DEF w
<1>6. Alike(ExpirePendingIdles(w(s)), ExpirePendingIdles(w(t)))
    BY <1>5 DEF Alike, ExpirePendingIdles, SettleToIdle, State
<1> QED BY <1>4, <1>6 DEF Preamble

LEMMA FireIsAlike ==
    ASSUME NEW s \in State
    PROVE  Alike(s, FirePendingB1(s))
    BY DEF FirePendingB1, CascadeBelow, MarkExiting, Alike, State

\* A slot found silent in t is silent in s.
LEMMA SilentAlike ==
    ASSUME NEW s, NEW t, Alike(s, t), NEW x \in Stale(t)
    PROVE  /\ x \in s.here /\ s.quiet[x] > StaleThreshold(s, x)
           /\ ~Fresh(s.vouch[x], VouchTTL) /\ ~HasWaitingAncestor(s, x)
    BY DEF Alike, Stale, Exempt, StaleThreshold, HasWaitingAncestor, Up

LEMMA CascadeHasCause ==
    ASSUME NEW s \in State, NEW R \in SUBSET Agent, NEW a \in Agent,
           CascadeWithRoot(s, R).exiting[a] # s.exiting[a]
    PROVE  \E x \in R : x \in LineageOf(Up(s), a)
<1> DEFINE S == UNION {SubtreeOf(Up(s), r) : r \in R}
<1>1. a \in S
    <2>1. CascadeWithRoot(s, R) = MarkExiting(s, S)
        BY DEF CascadeWithRoot
    <2> HIDE DEF S
    <2> QED BY <2>1 DEF MarkExiting, State
<1>2. PICK r \in R : a \in SubtreeOf(Up(s), r)
    BY <1>1
<1> QED BY <1>2, BelowAndAbove DEF State, ParentMap, Up

\* Whoever starts to walk out on a tick is below a slot whose source is
\* disconnected or that has fallen silent, or below an agent whose last Task is
\* long done.
LEMMA TickHasCause ==
    ASSUME NEW s, Kept(s), NEW on, NEW a \in s.here, s.exiting[a] = Never,
           Tick(ReconcileConnected(s, on)).exiting[a] # Never
    PROVE  \/ \E x \in LineageOf(Up(s), a) \cap s.here :
                 \/ s.src[x] \notin on
                 \/ LET q == Preamble(s)
                    IN  /\ q.quiet[x] > StaleThreshold(q, x) /\ ~Fresh(q.vouch[x], VouchTTL)
                        /\ ~HasWaitingAncestor(q, x)
           \/ \E x \in AncestorsOf(Up(s), a) : s.tasks[x] = {} /\ ElapsedAtLeast(s.b1[x], B1Grace)
<1> DEFINE R == {x \in s.here : s.exiting[x] = Never /\ s.src[x] \notin on}
           c == ReconcileConnected(s, on)
           p == Preamble(c)
           f == FirePendingB1(p)
           w == SweepStale(f)
           q == Preamble(s)
<1>1. s \in State /\ R \in SUBSET Agent /\ c = CascadeWithRoot(s, R) /\ Kept(c) /\ a \in Agent
    BY KeptIsState, CascadesKeep DEF ReconcileConnected
<1>2. /\ Alike(s, c) /\ c.tasks = s.tasks /\ c.b1 = s.b1
      /\ \A x \in Agent : c.exiting[x] \in {s.exiting[x], 0} /\ (c.exiting[x] = 0 => s.exiting[x] \in {Never, 0})
    BY <1>1 DEF CascadeWithRoot, MarkExiting, Alike, State
<1> HIDE DEF R, c
<1>3. CASE c.exiting[a] # Never
    BY <1>1, <1>3, CascadeHasCause DEF R
<1>4. CASE c.exiting[a] = Never
    <2>1. Kept(p) /\ p \in State /\ p.here \subseteq c.here
        BY <1>1, PreambleKeeps, KeptIsState
    <2>2. a \in p.here /\ p.exiting[a] = Never
        BY <1>1, <1>2, <1>4, PreambleMemory DEF Alike
    <2>3. \A x \in Agent :
             /\ p.parent[x] \in {s.parent[x], NoAgent}
             /\ p.tasks[x] = {} /\ ElapsedAtLeast(p.b1[x], B1Grace) =>
                   s.tasks[x] = {} /\ ElapsedAtLeast(s.b1[x], B1Grace)
        <3>1. \A x \in Agent : x \notin p.here => p.b1[x] = Never
            BY <2>1 DEF Kept, Ordered, Gone
        <3> QED BY <1>1, <1>2, <3>1, PreambleMemory, WindowsAreNat DEF ElapsedAtLeast, Never, Alike
    <2>4. Alike(q, p)
        <3>1. \A x \in Agent : ElapsedPast(c.exiting[x], ExitGrace) <=> ElapsedPast(s.exiting[x], ExitGrace)
            BY <1>2, WindowsAreNat DEF ElapsedPast, Never
        <3> QED BY <1>1, <1>2, <3>1, PreambleAlike
    <2>5. q.here \subseteq s.here
        BY PreambleKeeps
    <2> HIDE DEF p, q
    <2>6. Alike(p, f) /\ f \in State
        BY <2>1, FireIsAlike, FirePendingB1Calm DEF Calm
    <2>7. LineageOf(Up(p), a) \subseteq LineageOf(Up(s), a)
        BY <2>3, FewerLinks DEF Up
    <2>8. CASE f.exiting[a] # Never
        <3>1. PICK x \in AncestorsOf(Up(p), a) : p.tasks[x] = {} /\ ElapsedAtLeast(p.b1[x], B1Grace)
            BY <1>1, <2>1, <2>2, <2>8, FireHasCause
        <3>2. x \in AncestorsOf(Up(s), a) /\ x \in Agent
            BY <2>7, <3>1 DEF AncestorsOf, LineageOf
        <3> QED BY <2>3, <3>1, <3>2
    <2>9. CASE f.exiting[a] = Never
        <3> HIDE DEF f
        <3>1. Stale(f) \in SUBSET Agent /\ w = CascadeWithRoot(f, Stale(f))
            BY <2>6 DEF Stale, State, SweepStale
        <3>2. w.exiting[a] # f.exiting[a]
            <4>1. RetainOwned(w).exiting = w.exiting
                BY DEF RetainOwned, DropCorrelation
            <4>2. Tick(c) = RetainOwned(w)
                BY DEF Tick, w, f, p
            <4> HIDE DEF w
            <4> QED BY <2>9, <4>1, <4>2 DEF c
        <3>3. PICK x \in Stale(f) : x \in LineageOf(Up(f), a)
            BY <1>1, <2>6, <3>1, <3>2, CascadeHasCause
        <3>4. Alike(q, f)
            BY <2>4, <2>6 DEF Alike
        <3>5. /\ x \in q.here /\ q.quiet[x] > StaleThreshold(q, x)
              /\ ~Fresh(q.vouch[x], VouchTTL) /\ ~HasWaitingAncestor(q, x)
            BY <3>4, SilentAlike
        <3>6. x \in LineageOf(Up(s), a)
            BY <2>6, <2>7, <3>3 DEF Alike, Up
        <3> QED BY <2>5, <3>5, <3>6 DEF q
    <2> QED BY <2>8, <2>9
<1> QED BY <1>3, <1>4
-----------------------------------------------------------------------------
(* Prompts and the idle debounce.                                          *)

\* The fields that a prompt, its gate and the idle debounce live in.
Same(s, t) == t.act = s.act /\ t.pending = s.pending /\ t.gate = s.gate /\ t.tasks = s.tasks

\* No debounce runs on a prompt whose gated tool has not ended.
Unlapsed(s) ==
    \A a \in Agent : s.pending[a] # Never /\ s.act[a] = "Waiting" => s.gate[a] = NoTool

\* From s to t no debounce is armed.
Quells(s, t) ==
    /\ Unlapsed(s) => Unlapsed(t)
    /\ \A a \in Agent : t.pending[a] # Never => s.pending[a] # Never

\* From s to t a debounce is armed only of a slot with no Task in flight, and
\* no Task is tracked that was not.
Spares(s, t) ==
    /\ Unlapsed(s) => Unlapsed(t)
    /\ \A a \in Agent : /\ t.tasks[a] \subseteq s.tasks[a]
                        /\ s.pending[a] = Never /\ t.pending[a] # Never => t.tasks[a] = {}

LEMMA SameSpares ==
    ASSUME NEW s, NEW t, Same(s, t)
    PROVE  Quells(s, t) /\ Spares(s, t)
    BY DEF Same, Quells, Spares, Unlapsed

LEMMA QuellsTrans ==
    ASSUME NEW s, NEW u, NEW t, Quells(s, u), Quells(u, t)
    PROVE  Quells(s, t)
    BY DEF Quells

LEMMA SparesTrans ==
    ASSUME NEW s, NEW u, NEW t, Spares(s, u), Spares(u, t)
    PROVE  Spares(s, t)
<1>1. Unlapsed(s) => Unlapsed(t)
    BY DEF Spares
<1>2. ASSUME NEW a \in Agent
      PROVE  /\ t.tasks[a] \subseteq s.tasks[a]
             /\ s.pending[a] = Never /\ t.pending[a] # Never => t.tasks[a] = {}
    <2>1. u.tasks[a] \subseteq s.tasks[a] /\ t.tasks[a] \subseteq u.tasks[a]
        BY DEF Spares
    <2>2. u.pending[a] = Never /\ t.pending[a] # Never => t.tasks[a] = {}
        BY DEF Spares
    <2>3. s.pending[a] = Never /\ u.pending[a] # Never => u.tasks[a] = {}
        BY DEF Spares
    <2> QED BY <2>1, <2>2, <2>3
<1> QED BY <1>1, <1>2 DEF Spares

\* The preamble arms nothing; of a slot it keeps, it leaves a prompt that no
\* debounce runs on.
LEMMA PreambleQuells ==
    ASSUME NEW s, Kept(s)
    PROVE  /\ Quells(s, Preamble(s))
           /\ \A a \in s.here : s.exiting[a] \in {Never} \cup 0..ExitGrace =>
                 /\ a \in Preamble(s).here
                 /\ Preamble(s).gate[a] = s.gate[a] /\ Preamble(s).tasks[a] = s.tasks[a]
                 /\ s.pending[a] = Never => Preamble(s).pending[a] = Never /\ Preamble(s).act[a] = s.act[a]
           /\ \A a \in Agent, k \in Tool :
                 Fresh(s.drained[a][k], DrainTTL) => Preamble(s).drained[a][k] = s.drained[a][k]
<1> DEFINE g == Gc(s)
           S == {x \in g.here : ElapsedPast(g.exiting[x], ExitGrace)}
           w == RemoveSlots(g, S)
           p == Preamble(s)
<1>1. s \in State /\ g \in State /\ s.here \in SUBSET Agent
    BY KeptIsState, GcCalm DEF Calm
<1>2. /\ g.here = s.here /\ g.exiting = s.exiting /\ Same(s, g)
      /\ \A a \in Agent, k \in Tool : Fresh(s.drained[a][k], DrainTTL) => g.drained[a][k] = s.drained[a][k]
    BY <1>1 DEF Gc, State, Keep, Same
<1>3. Ordered(g)
    BY GcKeepsOrder DEF g
<1> HIDE DEF g
<1>4. S \in SUBSET Agent
    BY <1>1, <1>2 DEF S
<1>5. w \in State
    BY <1>3, <1>4, RemoveSlotsKeeps, SoundHasParents DEF Ordered
<1>6. /\ w.here = g.here \ S /\ w.drained = g.drained
      /\ \A a \in Agent :
            IF a \in S THEN w.act[a] = "Idle" /\ w.pending[a] = Never /\ w.gate[a] = NoTool /\ w.tasks[a] = {}
            ELSE /\ w.act[a] = g.act[a] /\ w.pending[a] = g.pending[a]
                 /\ w.gate[a] = g.gate[a] /\ w.tasks[a] = g.tasks[a]
    BY <1>1 DEF RemoveSlots, DropVouch, DropCorrelation, State
<1>7. \A a \in s.here : s.exiting[a] \in {Never} \cup 0..ExitGrace => a \notin S
    BY <1>2, WindowsAreNat DEF ElapsedPast, Never
<1> HIDE DEF w, S
<1>8. p = ExpirePendingIdles(w)
    BY DEF Preamble, SweepExited, w, S, g
<1>9. /\ p.here = w.here /\ p.drained = w.drained /\ p.gate = w.gate /\ p.tasks = w.tasks
      /\ \A a \in Agent :
            \/ p.act[a] = w.act[a] /\ p.pending[a] = w.pending[a]
            \/ p.act[a] = "Idle" /\ p.pending[a] = Never /\ ElapsedAtLeast(w.pending[a], ActiveGrace)
    BY <1>5, <1>8 DEF ExpirePendingIdles, SettleToIdle, State
<1> HIDE DEF p
<1>10. Quells(s, p)
    BY <1>2, <1>6, <1>9 DEF Quells, Unlapsed, Same
<1>11. ~ElapsedAtLeast(Never, ActiveGrace)
    BY WindowsAreNat DEF ElapsedAtLeast, Never
<1>12. ASSUME NEW a \in s.here, s.exiting[a] \in {Never} \cup 0..ExitGrace
       PROVE  /\ a \in p.here /\ p.gate[a] = s.gate[a] /\ p.tasks[a] = s.tasks[a]
              /\ s.pending[a] = Never => p.pending[a] = Never /\ p.act[a] = s.act[a]
    BY <1>1, <1>2, <1>6, <1>7, <1>9, <1>11, <1>12 DEF Same
<1>13. \A a \in Agent, k \in Tool : Fresh(s.drained[a][k], DrainTTL) => p.drained[a][k] = s.drained[a][k]
    BY <1>2, <1>6, <1>9
<1> QED BY <1>10, <1>12, <1>13 DEF p

LEMMA MetIsSame ==
    ASSUME NEW s, Kept(s), NEW e \in Event
    PROVE  /\ Same(Preamble(s), Met(s, e)) /\ Met(s, e).drained = Preamble(s).drained
           /\ Preamble(s).here \subseteq Met(s, e).here
<1> DEFINE p == Preamble(s)
           u == BuryUnknown(p, e)
           y == SynthesizeHookRegistration(u, e)
           h == IF e.via = "Hook" THEN y ELSE p
           Like(x, z) == Same(x, z) /\ z.drained = x.drained /\ x.here \subseteq z.here
<1>1. p \in State
    BY PreambleKeeps, KeptIsState
<1> HIDE DEF p
<1>2. u \in State /\ Like(p, u)
    BY <1>1, BuryUnknownCalm DEF BuryUnknown, State, Calm, Same
<1> HIDE DEF u
<1>3. Like(u, y)
    BY <1>2, EventFields DEF SynthesizeHookRegistration, Register, State, Same
<1> HIDE DEF y
<1>4. Like(p, h)
    BY <1>2, <1>3 DEF Same
<1> HIDE DEF h
<1>5. Met(s, e) = IF IsActivity(e) THEN RefreshLineage(h, e.id) ELSE h
    BY DEF Met, h, y, u, p
<1>6. Like(h, RefreshLineage(h, e.id))
    BY DEF RefreshLineage, Same
<1> QED BY <1>4, <1>5, <1>6 DEF p, Same

LEMMA SmallStepsAreSame ==
    ASSUME NEW s \in State, NEW e \in Event
    PROVE  /\ Same(s, FirePendingB1(s)) /\ FirePendingB1(s).here = s.here
           /\ Same(s, RecordHookTool(s, e)) /\ RecordHookTool(s, e).here = s.here
           /\ RecordHookTool(s, e).drained = s.drained
           /\ Same(s, NewWork(s, e)) /\ Same(s, CompleteTurn(s, e))
<1>1. Same(s, FirePendingB1(s)) /\ FirePendingB1(s).here = s.here
    BY DEF FirePendingB1, CascadeBelow, MarkExiting, Same, State
<1>2. /\ Same(s, RecordHookTool(s, e)) /\ RecordHookTool(s, e).here = s.here
      /\ RecordHookTool(s, e).drained = s.drained
    BY DEF RecordHookTool, Same, State
<1>3. Same(s, NewWork(s, e)) /\ Same(s, CompleteTurn(s, e))
    BY DEF NewWork, CompleteTurn, Same, State
<1> QED BY <1>1, <1>2, <1>3

\* Task tracking: a dispatch quells the debounce or leaves it, the last drain
\* arms it, and only of an Active slot.
LEMMA TrackingSpares ==
    ASSUME NEW s \in State, NEW e \in Event
    PROVE  LET k == TrackActiveTasks(s, e) IN Quells(s, k) \/ Spares(s, k)
<1> DEFINE a == e.id
           k == TrackActiveTasks(s, e)
<1>1. a \in Agent
    BY EventFields
<1>2. CASE DispatchesTask(e)
    <2>1. /\ k.gate = s.gate
          /\ \/ k.act = s.act /\ k.pending = s.pending
             \/ k.act = [s.act EXCEPT ![a] = "Active"] /\ k.pending = [s.pending EXCEPT ![a] = Never]
        BY <1>1, <1>2 DEF TrackActiveTasks, TrackDispatch, EnterDelegating, State
    <2>2. Quells(s, k)
        BY <1>1, <2>1 DEF Quells, Unlapsed, State
    <2> QED BY <2>2
<1>3. CASE DrainsTask(s, e) /\ ~DispatchesTask(e)
    <2> DEFINE left == s.tasks[a] \ {e.tool}
    <2>1. k = TrackDrain(s, e)
        BY <1>3 DEF TrackActiveTasks
    <2>2. /\ k.act = s.act
          /\ k.tasks = [s.tasks EXCEPT ![a] = left]
          /\ k.gate \in {s.gate, [s.gate EXCEPT ![a] = NoTool]}
          /\ \/ k.pending = s.pending
             \/ left = {} /\ s.act[a] = "Active" /\ k.pending = [s.pending EXCEPT ![a] = 0]
        <3>1. k.act = s.act /\ k.tasks = [s.tasks EXCEPT ![a] = left]
            BY <1>1, <2>1 DEF TrackDrain, State
        <3>2. k.gate = [s.gate EXCEPT ![a] = IF s.gate[a] = e.tool THEN NoTool ELSE s.gate[a]]
            BY <1>1, <2>1 DEF TrackDrain, State
        <3>3. k.gate \in {s.gate, [s.gate EXCEPT ![a] = NoTool]}
            BY <1>1, <3>2 DEF State
        <3>4. \/ k.pending = s.pending
              \/ k.pending = [s.pending EXCEPT ![a] = IF left = {} /\ s.act[a] = "Active" THEN 0 ELSE s.pending[a]]
            BY <1>1, <2>1 DEF TrackDrain, State
        <3>5. [s.pending EXCEPT ![a] = s.pending[a]] = s.pending
            BY <1>1 DEF State
        <3> QED BY <3>1, <3>3, <3>4, <3>5
    <2> HIDE DEF k
    <2>3. Spares(s, k)
        BY <1>1, <2>2 DEF Spares, Unlapsed, State
    <2> QED BY <2>3 DEF k
<1>4. CASE ~DrainsTask(s, e) /\ ~DispatchesTask(e)
    BY <1>4, SameSpares DEF TrackActiveTasks, Same
<1> QED BY <1>2, <1>3, <1>4

\* A turn or a tool that ends arms the debounce only of a slot with no Task in
\* flight, and never leaves a prompt whose gate it has not opened.
LEMMA EndActivitySpares ==
    ASSUME NEW s \in State, NEW e \in Event, NEW t \in Tool \cup {NoTool}
    PROVE  Spares(s, EndActivity(s, e, t))
<1> DEFINE a == e.id
           g == IF ResolvesWait(s, e) THEN [s EXCEPT !.gate[a] = NoTool] ELSE s
           d == EnterDelegating(g, a, t)
           p == ArmPendingIdle(g, a)
<1>1. a \in Agent
    BY EventFields
<1>2. /\ g \in State /\ g.act = s.act /\ g.pending = s.pending /\ g.tasks = s.tasks
      /\ g.gate = IF ResolvesWait(s, e) THEN [s.gate EXCEPT ![a] = NoTool] ELSE s.gate
    BY <1>1 DEF State
<1>3. Spares(s, g)
    BY <1>1, <1>2 DEF Spares, Unlapsed, State
<1> HIDE DEF g
<1>4. Spares(g, d)
    BY <1>1, <1>2 DEF EnterDelegating, Spares, Unlapsed, State
<1>5. ASSUME s.tasks[a] = {}, s.act[a] = "Active" \/ ResolvesWait(s, e)
      PROVE  Spares(g, p)
    <2>1. p.act = g.act /\ p.gate = g.gate /\ p.tasks = g.tasks /\ p.pending = [g.pending EXCEPT ![a] = 0]
        BY <1>1, <1>2 DEF ArmPendingIdle, State
    <2>2. g.act[a] = "Active" \/ g.gate[a] = NoTool
        BY <1>1, <1>2, <1>5 DEF State
    <2> QED BY <1>1, <1>2, <1>5, <2>1, <2>2 DEF Spares, Unlapsed, State
<1> DEFINE ended == IF s.act[a] = "Active" \/ ResolvesWait(s, e)
                    THEN IF s.tasks[a] # {} THEN d ELSE p
                    ELSE g
<1>6. Spares(s, ended)
    BY <1>3, <1>4, <1>5, SparesTrans
<1>7. Same(ended, [ended EXCEPT !.quiet[a] = 0])
    BY <1>1, <1>2 DEF Same, EnterDelegating, ArmPendingIdle, State
<1>8. EndActivity(s, e, t) \in {s, [ended EXCEPT !.quiet[a] = 0]}
    BY DEF EndActivity, g, d, p, ended
<1>9. Same(s, s)
    BY DEF Same
<1> HIDE DEF ended
<1> QED BY <1>6, <1>7, <1>8, <1>9, SameSpares, SparesTrans

\* A start arms nothing; one that brings a root back takes its gate with it.
LEMMA StartSessionSpares ==
    ASSUME NEW s \in State, NEW e \in Event
    PROVE  Spares(s, StartSession(s, e))
<1> DEFINE a == e.id
           p == AcceptedParent(s, e)
           linked == IF s.parent[a] = NoAgent /\ p # NoAgent
                     THEN LinkAppliedParent([s EXCEPT !.parent[a] = p], a, p) ELSE s
           healed == [BackfillIdentity(linked, a, e.src, e.cwd) EXCEPT !.quiet[a] = 0]
           r == Register(s, a, e.src, e.cwd, p)
           back == DropCorrelation(ResurrectInPlace(healed, a), {a})
<1>1. a \in Agent
    BY EventFields
<1>2. Same(s, healed)
    BY DEF Same, BackfillIdentity, LinkAppliedParent, State
<1>3. Spares(s, back)
    <2>1. p \in Agent \cup {NoAgent}
        BY <1>1, EventFields, EntriesOpen DEF AcceptedParent, AdoptedParent, State
    <2>2. linked \in State
        <3>1. [s EXCEPT !.parent[a] = p] \in State
            BY <2>1 DEF State
        <3> HIDE DEF p
        <3> QED BY <1>1, <2>1, <3>1, LinkAppliedParentCalm DEF Calm
    <2>3. healed \in State
        <3> HIDE DEF linked
        <3> QED BY <1>1, <2>2, EventFields, BackfillIdentityCalm, FieldsCalm DEF Calm
    <2> HIDE DEF healed
    <2>4. /\ back.act = [healed.act EXCEPT ![a] = "Idle"]
          /\ back.pending = [healed.pending EXCEPT ![a] = Never]
          /\ back.gate = [x \in Agent |-> IF x = a THEN NoTool ELSE healed.gate[x]]
          /\ back.tasks = [x \in Agent |-> IF x = a THEN {} ELSE healed.tasks[x]]
        BY <2>3 DEF DropCorrelation, ResurrectInPlace, State
    <2> HIDE DEF back
    <2> QED BY <1>1, <1>2, <2>4 DEF Same, Spares, Unlapsed, State
<1>4. Same(s, DuplicateStart(s, e)) \/ DuplicateStart(s, e) = back
    BY <1>2 DEF DuplicateStart
<1>5. Same(s, FirstStart(s, e))
    BY DEF FirstStart, Same, Register, LinkAppliedParent, State
<1>6. Same(s, s)
    BY DEF Same
<1> HIDE DEF back
<1> QED BY <1>3, <1>4, <1>5, <1>6, SameSpares DEF StartSession

LEMMA HandleSpares ==
    ASSUME NEW s \in State, NEW e \in Event, NEW t \in Tool \cup {NoTool}, NEW b \in BOOLEAN
    PROVE  Spares(s, Handle(s, e, t, b))
<1> DEFINE a == e.id
           n == NewWork(s, e)
           c == CompleteTurn(s, e)
           h == Handle(s, e, t, b)
<1>1. a \in Agent /\ e.kind \in Kinds /\ Same(s, s) /\ Same(s, n) /\ Same(s, c)
    BY EventFields, SmallStepsAreSame DEF Same, Event
<1>2. n \in State /\ c \in State
    BY SmallHandlersSteady DEF Steady, Calm
<1>3. Spares(s, s) /\ Spares(s, n) /\ Spares(s, c)
    BY <1>1, SameSpares
<1> HIDE DEF n, c
<1>4. CASE e.kind = "SessionStart"
    BY <1>2, <1>3, <1>4, StartSessionSpares, SparesTrans DEF Handle, n
<1>5. CASE e.kind = "ActivityStart"
    <2> DEFINE g == [n EXCEPT !.gate[a] = NoTool]
               q == EnterActive(g, a, e.tool, e.task)
    <2>1. Spares(n, g)
        BY <1>1, <1>2 DEF Spares, Unlapsed, State
    <2>2. Spares(n, q)
        BY <1>1, <1>2 DEF EnterActive, Spares, Unlapsed, State
    <2>3. h \in {n, g, q}
        BY <1>5 DEF Handle, StartActivity, n
    <2> QED BY <1>3, <2>1, <2>2, <2>3, SparesTrans
<1>6. CASE e.kind = "ActivityEnd"
    BY <1>3, <1>6, EndActivitySpares DEF Handle
<1>7. CASE e.kind = "TurnComplete"
    BY <1>2, <1>3, <1>7, EndActivitySpares, SparesTrans DEF Handle, c
<1>8. CASE e.kind = "Waiting"
    <2> DEFINE q == EnterWaiting([n EXCEPT !.gate[a] = IF n.act[a] = "Active" THEN n.tool[a] ELSE NoTool], a)
    <2>1. q.pending = [n.pending EXCEPT ![a] = Never] /\ q.tasks = n.tasks
          /\ q.act = [n.act EXCEPT ![a] = "Waiting"]
          /\ \A x \in Agent \ {a} : q.gate[x] = n.gate[x]
        BY <1>1, <1>2 DEF EnterWaiting, State
    <2>2. h \in {n, q}
        BY <1>8 DEF Handle, AwaitPermission, n
    <2> HIDE DEF q
    <2>3. Spares(n, q)
        BY <1>1, <1>2, <2>1 DEF Spares, Unlapsed, State
    <2> QED BY <1>3, <2>2, <2>3, SparesTrans
<1>9. CASE e.kind \in {"Rename", "ProofOfLife"}
    <2>1. Same(s, h)
        BY <1>9 DEF Handle, Vouch, Same, State
    <2> QED BY <2>1, SameSpares
<1>10. CASE e.kind = "SessionEnd"
    <2>1. Same(s, h)
        BY <1>10 DEF Handle, EndSession, CascadeWithRoot, MarkExiting, Same, State
    <2> QED BY <2>1, SameSpares
<1>11. CASE e.kind = "Identity"
    <2>1. h = Identify(s, e)
        BY <1>11 DEF Handle
    <2>2. Same(s, Identify(s, e))
        BY DEF Identify, BackfillIdentity, Register, Same, State
    <2> QED BY <2>1, <2>2, SameSpares
<1> QED BY <1>1, <1>4, <1>5, <1>6, <1>7, <1>8, <1>9, <1>10, <1>11 DEF Kinds

\* What an apply may do to the debounce.
LEMMA ApplySpares ==
    ASSUME NEW s, Kept(s), Unlapsed(s), NEW e \in Event, NEW t \in Tool \cup {NoTool}
    PROVE  LET n == Apply(s, e, t)
           IN  /\ Unlapsed(n)
               /\ \A a \in Agent : s.pending[a] = Never /\ n.pending[a] # Never => n.tasks[a] = {}
<1> DEFINE p == Preamble(s)
           m == Met(s, e)
           r == IF e.via = "Hook" THEN RecordHookTool(m, e) ELSE m
           k == TrackActiveTasks(r, e)
           f == FirePendingB1(k)
           h == Handle(f, e, t, DrainsTask(r, e))
           d == ResumeDelegating(m, e, t)
           Fine(n) == /\ Unlapsed(n)
                      /\ \A a \in Agent : s.pending[a] = Never /\ n.pending[a] # Never => n.tasks[a] = {}
<1>1. Quells(s, p) /\ Same(p, m) /\ Kept(m) /\ m \in State
    BY PreambleQuells, MetIsSame, MetKeeps, KeptIsState
<1>2. Quells(s, m)
    BY <1>1, SameSpares, QuellsTrans
<1> HIDE DEF p, m
<1>3. Same(m, r) /\ Steady(m, r)
    BY <1>1, SmallStepsAreSame, RecordHookToolSteady, FieldsSteady, EventFields DEF Same
<1>4. Quells(s, r) /\ Kept(r) /\ r \in State /\ DrainsTask(r, e) \in BOOLEAN
    BY <1>1, <1>2, <1>3, SameSpares, QuellsTrans, SteadyKeeps, KeptIsState DEF DrainsTask, ToolEnd
<1> HIDE DEF r
<1>5. Kept(k) /\ k \in State /\ (Quells(r, k) \/ Spares(r, k))
    BY <1>4, TrackActiveTasksSteady, SteadyKeeps, KeptIsState, TrackingSpares
<1> HIDE DEF k
<1>6. Same(k, f) /\ f \in State
    BY <1>5, SmallStepsAreSame, FirePendingB1Calm DEF Calm
<1> HIDE DEF f
<1>7. Spares(f, h)
    BY <1>4, <1>6, HandleSpares
<1> HIDE DEF h
<1>8. Spares(k, h)
    BY <1>6, <1>7, SameSpares, SparesTrans
<1>9. Fine(h)
    <2>1. CASE Quells(r, k)
        <3>1. Quells(s, k)
            BY <1>4, <2>1, QuellsTrans
        <3> QED BY <1>8, <3>1 DEF Quells, Spares
    <2>2. CASE Spares(r, k)
        <3>1. Spares(r, h)
            BY <1>8, <2>2, SparesTrans
        <3> QED BY <1>4, <3>1 DEF Quells, Spares
    <2> QED BY <1>5, <2>1, <2>2
<1>10. Fine(m)
    BY <1>2 DEF Quells
<1>11. Fine(d)
    <2>1. \/ d = m
          \/ /\ d.act = [m.act EXCEPT ![e.id] = "Active"] /\ d.pending = [m.pending EXCEPT ![e.id] = Never]
             /\ \A x \in Agent \ {e.id} : d.gate[x] = m.gate[x]
        BY <1>1, EventFields DEF ResumeDelegating, EnterDelegating, State
    <2> HIDE DEF d
    <2>2. Quells(m, d)
        BY <1>1, <2>1, EventFields DEF Quells, Unlapsed, State
    <2> QED BY <1>2, <2>2, QuellsTrans DEF Quells
<1>12. Apply(s, e, t) \in {d, m, h}
    BY DEF Apply, Process, m, r, k, f, h, d
<1> HIDE DEF d
<1> QED BY <1>9, <1>10, <1>11, <1>12

\* A sweep tick arms nothing.
LEMMA TickQuells ==
    ASSUME NEW s, Kept(s), NEW on
    PROVE  Quells(s, Tick(ReconcileConnected(s, on)))
<1> DEFINE c == ReconcileConnected(s, on)
           p == Preamble(c)
           f == FirePendingB1(p)
           w == SweepStale(f)
           r == RetainOwned(w)
<1>1. s \in State /\ Kept(c)
    BY KeptIsState, CascadesKeep DEF ReconcileConnected
<1>2. Same(s, c)
    BY <1>1 DEF ReconcileConnected, CascadeWithRoot, MarkExiting, Same, State
<1> HIDE DEF c
<1>3. Quells(c, p) /\ p \in State
    BY <1>1, PreambleQuells, PreambleKeeps, KeptIsState
<1> HIDE DEF p
<1>4. Same(p, f) /\ f \in State
    BY <1>3, FirePendingB1Calm DEF FirePendingB1, CascadeBelow, MarkExiting, Same, State, Calm
<1> HIDE DEF f
<1>5. Same(f, w) /\ w.here = f.here
    BY DEF SweepStale, CascadeWithRoot, MarkExiting, Same
<1> HIDE DEF w
<1>6. Quells(w, r)
    BY DEF RetainOwned, DropCorrelation, Quells, Unlapsed
<1>7. r = Tick(ReconcileConnected(s, on))
    BY DEF Tick, r, w, f, p, c
<1> HIDE DEF r
<1> QED BY <1>2, <1>3, <1>4, <1>5, <1>6, <1>7, SameSpares, QuellsTrans

\* Nor do a resize and the clock.
LEMMA RestQuells ==
    ASSUME Kept(st), Resize \/ Elapse \/ UNCHANGED vars
    PROVE  Quells(st, st')
<1>1. st \in State
    BY KeptIsState
<1>2. CASE Resize \/ UNCHANGED vars
    <2>1. Same(st, st')
        BY <1>1, <1>2 DEF Resize, vars, Same, State
    <2> QED BY <2>1, SameSpares
<1>3. CASE Elapse
    <2>1. /\ Elapsed(st).act = st.act /\ Elapsed(st).gate = st.gate
          /\ \A a \in Agent : Elapsed(st).pending[a] = Older(st.pending[a], ActiveGrace)
        BY <1>1 DEF Elapsed, State
    <2>2. \A a \in Agent : Elapsed(st).pending[a] # Never => st.pending[a] # Never
        BY <2>1 DEF Older
    <2> QED BY <1>3, <2>1, <2>2 DEF Elapse, Quells, Unlapsed
<1> QED BY <1>2, <1>3

\* What an event is met with, when the prompt of its agent was pending.
LEMMA PromptIsMet ==
    ASSUME NEW s, Kept(s), NEW e \in Event, e.id \in s.here, s.exiting[e.id] \in {Never} \cup 0..ExitGrace,
           s.act[e.id] = "Waiting", s.pending[e.id] = Never
    PROVE  LET m == Met(s, e)
           IN  /\ m \in State /\ Kept(m) /\ e.id \in m.here
               /\ m.act[e.id] = "Waiting" /\ m.pending[e.id] = Never
               /\ m.gate[e.id] = s.gate[e.id] /\ m.tasks[e.id] = s.tasks[e.id]
               /\ \A k \in Tool : Fresh(s.drained[e.id][k], DrainTTL) => m.drained[e.id][k] # Never
<1>1. e.id \in Agent
    BY EventFields
<1>2. Kept(Met(s, e)) /\ Met(s, e) \in State
    BY MetKeeps, KeptIsState
<1>3. \A k \in Tool : Fresh(s.drained[e.id][k], DrainTTL) => Met(s, e).drained[e.id][k] # Never
    <2>1. ~Fresh(Never, DrainTTL)
        BY DEF Fresh, Never
    <2> QED BY <1>1, <2>1, PreambleQuells, MetIsSame
<1> QED BY <1>1, <1>2, <1>3, PreambleQuells, MetIsSame DEF Same

\* The slot of a pending prompt is shown Waiting and runs no debounce.
Prompting(s, a) == s.act[a] = "Waiting" /\ s.pending[a] = Never

\* The replayed transcript pair of a drained Task.
LEMMA ReplayIsHarmless ==
    ASSUME NEW m \in State, NEW e \in Event, NEW t, e.id \in m.here, Prompting(m, e.id),
           e.tool \in Tool, m.drained[e.id][e.tool] # Never,
           DispatchesTask(e) \/ DrainsTask(m, e)
    PROVE  LET f == FirePendingB1(TrackActiveTasks(m, e))
           IN  Prompting(Handle(f, e, t, DrainsTask(m, e)), e.id)
<1> DEFINE k == TrackActiveTasks(m, e)
           f == FirePendingB1(k)
<1>1. e.id \in Agent
    BY EventFields
<1>2. k \in State
    BY EventFields, TrackActiveTasksSteady DEF Steady, Calm
<1>3. Prompting(k, e.id)
    <2>1. CASE DispatchesTask(e)
        BY <1>1, <2>1 DEF TrackActiveTasks, TrackDispatch, Prompting, State
    <2>2. CASE DrainsTask(m, e) /\ ~DispatchesTask(e)
        BY <1>1, <2>2 DEF TrackActiveTasks, TrackDrain, Prompting, State
    <2> QED BY <2>1, <2>2
<1> HIDE DEF k
<1>4. Prompting(f, e.id) /\ f \in State
    BY <1>2, <1>3, SmallStepsAreSame, FirePendingB1Calm DEF Same, Prompting, Calm
<1> HIDE DEF f
<1>5. Prompting(NewWork(f, e), e.id)
    BY <1>4, SmallStepsAreSame DEF Same, Prompting
<1>6. Handle(f, e, t, DrainsTask(m, e)) \in {f, NewWork(f, e)}
    <2>1. CASE DispatchesTask(e)
        BY <2>1 DEF Handle, StartActivity, DispatchesTask, ToolStart
    <2>2. CASE DrainsTask(m, e)
        BY <2>2 DEF Handle, DrainsTask, ToolEnd
    <2> QED BY <2>1, <2>2
<1> QED BY <1>4, <1>5, <1>6 DEF f, k

\* The end of a tool that is not the gated one.
LEMMA ParallelEndIsHarmless ==
    ASSUME NEW m \in State, NEW e \in Event, NEW t, e.id \in m.here, Prompting(m, e.id),
           e.kind = "ActivityEnd", e.tool \notin {NoTool, m.gate[e.id]}
    PROVE  LET f == FirePendingB1(TrackActiveTasks(m, e))
           IN  Prompting(Handle(f, e, t, DrainsTask(m, e)), e.id)
<1> DEFINE k == TrackActiveTasks(m, e)
           f == FirePendingB1(k)
<1>1. e.id \in Agent
    BY EventFields
<1>2. k \in State
    BY EventFields, TrackActiveTasksSteady DEF Steady, Calm
<1>3. Prompting(k, e.id) /\ (~DrainsTask(m, e) => k = m)
    <2>1. ~DispatchesTask(e)
        BY DEF DispatchesTask, ToolStart
    <2>2. CASE DrainsTask(m, e)
        BY <1>1, <2>1, <2>2 DEF TrackActiveTasks, TrackDrain, Prompting, State
    <2>3. CASE ~DrainsTask(m, e)
        BY <2>1, <2>3 DEF TrackActiveTasks
    <2> QED BY <2>2, <2>3
<1> HIDE DEF k
<1>4. Prompting(f, e.id) /\ f \in State /\ Same(k, f)
    BY <1>2, <1>3, SmallStepsAreSame, FirePendingB1Calm DEF Same, Prompting, Calm
<1> HIDE DEF f
<1>5. CASE DrainsTask(m, e)
    BY <1>4, <1>5 DEF Handle, f, k
<1>6. CASE ~DrainsTask(m, e)
    <2>1. ~ResolvesWait(f, e)
        BY <1>3, <1>4, <1>6 DEF ResolvesWait, Same
    <2>2. EndActivity(f, e, t) \in {f, [f EXCEPT !.quiet[e.id] = 0]}
        BY <1>4, <2>1 DEF EndActivity, Prompting
    <2>3. Prompting(EndActivity(f, e, t), e.id)
        BY <1>4, <2>2 DEF Prompting, State
    <2> QED BY <1>6, <2>3 DEF Handle, f, k
<1> QED BY <1>5, <1>6
-----------------------------------------------------------------------------
(* The theorems.                                                           *)

\* The inductive invariant: what IInv says, and that a departed slot leaves
\* nothing behind, that the ledger holds every link, and that its clock never
\* runs ahead of the walkout.
OInv == Kept(st)

LEMMA InitOInv == Init => OInv
<1> SUFFICES ASSUME Init PROVE OInv
    OBVIOUS
<1>1. PICK n \in Nat : st = Empty(n)
    BY ReducerAssumption DEF Init
<1>2. Sound(st)
    BY <1>1, EmptySound
<1>3. st.here = {} /\ \A a \in Agent : Gone(st, a)
    BY <1>1 DEF Empty, Gone
<1> QED BY <1>2, <1>3 DEF OInv, Kept, Ordered, Timed, Linked

LEMMA DeliverWalks ==
    ASSUME OInv, NEW kind, Deliver(kind)
    PROVE  Kept(st') /\ Walks(st, st')
<1>1. PICK e \in Events, first \in Tool \cup {NoTool} : st' = Apply(st, e, first)
    BY DEF Deliver
<1>2. e \in Event
    BY <1>1, ReducerAssumption
<1>3. Kept(Apply(st, e, first)) /\ Opened(Preamble(st), Apply(st, e, first))
    BY <1>2, ApplyKeeps DEF OInv
<1>4. Walks(st, Apply(st, e, first))
    BY <1>3, SweptWalk DEF OInv
<1> QED BY <1>1, <1>3, <1>4

LEMMA NextWalks ==
    ASSUME OInv, [Next]_vars
    PROVE  Kept(st') /\ Walks(st, st')
<1>1. CASE \/ SessionStart \/ ActivityStart \/ ActivityEnd \/ TurnComplete \/ Waiting
           \/ Rename \/ SessionEnd \/ ProofOfLife \/ Identity
    BY <1>1, DeliverWalks DEF SessionStart, ActivityStart, ActivityEnd, TurnComplete, Waiting,
       Rename, SessionEnd, ProofOfLife, Identity
<1>2. CASE SweepTick
    BY <1>2, TickKeeps DEF SweepTick, OInv
<1>3. CASE Resize
    <2>1. PICK n \in Nat : st' = [st EXCEPT !.cap = n]
        BY <1>3, ReducerAssumption DEF Resize
    <2>2. st \in State
        BY KeptIsState DEF OInv
    <2>3. Calm(st, st')
        BY <2>1, <2>2 DEF State, Calm
    <2>4. Steady(st, st')
        BY <2>1, <2>2, <2>3 DEF Steady, Gone, State
    <2> QED BY <2>3, <2>4, SteadyKeeps, CalmWalks DEF OInv
<1>4. CASE Elapse
    BY <1>4, ElapsedKeeps DEF Elapse, OInv
<1>5. CASE UNCHANGED vars
    BY <1>5 DEF vars, OInv, Walks
<1> QED BY <1>1, <1>2, <1>3, <1>4, <1>5 DEF Next

LEMMA OInvariance == Spec => []OInv
<1>1. OInv /\ [Next]_vars => OInv'
    BY NextWalks DEF OInv
<1> QED BY <1>1, InitOInv, PTL DEF Spec

\* sweep_exited and tick: a gate, an armed cascade, a vouch or a completion
\* edge never outlives the slot it belongs to.
THEOREM CorrelationIsOwned == Spec => []CorrelationOwned
<1>1. OInv => CorrelationOwned
    BY KeptIsState DEF OInv, Kept, Ordered, Gone, State, CorrelationOwned
<1> QED BY <1>1, OInvariance, PTL

\* link_applied_parent and gc: because a walkout is shorter than the ledger's
\* memory, the ledger knows the parent of every child that still has a slot.
THEOREM LedgerHoldsLinks == Spec => []LedgerKnowsLiveLinks
<1>1. OInv => LedgerKnowsLiveLinks
    BY DEF OInv, Kept, Linked, Remembers, LedgerKnowsLiveLinks
<1> QED BY <1>1, OInvariance, PTL

LEMMA WalksAreOfficeSteps ==
    ASSUME OInv, Kept(st'), Walks(st, st')
    PROVE  Office!Next
<1> DEFINE Leaving(s) == {a \in s.here : s.exiting[a] # Never}
<1>1. /\ st \in State /\ st' \in State /\ Sound(st) /\ Sound(st')
      /\ st.here \in SUBSET Agent /\ st'.here \in SUBSET Agent
    BY KeptIsState DEF OInv
<1>2. st'.desk \in [Agent -> Nat \cup {Never}] /\ Leaving(st') \in SUBSET Agent
    BY <1>1 DEF State, Desk
<1>3. Office!NoSharing(st'.desk)
    BY <1>1 DEF Sound, Office!NoSharing
<1>4. ASSUME NEW a \in Agent
      PROVE  Office!Stays(a) \/ Office!ComesIn(a) \/ Office!Leaves(a) \/ Office!Returns(a)
    <2>1. /\ a \in st.here <=> st.desk[a] # Never
          /\ a \in st'.here <=> st'.desk[a] # Never
        BY <1>1 DEF Sound
    <2>2. st'.desk[a] # Never => st'.desk[a] \in Nat
        BY <1>2
    <2>3. CASE st'.desk[a] = st.desk[a]
        BY <2>1, <2>3 DEF Office!Stays
    <2>4. CASE st'.desk[a] # st.desk[a] /\ a \notin st.here /\ st'.exiting[a] = Never
        BY <2>1, <2>2, <2>4 DEF Office!ComesIn
    <2>5. CASE a \in st.here /\ st.exiting[a] # Never /\ (a \in st'.here => st'.exiting[a] = Never)
        BY <2>1, <2>2, <2>5 DEF Office!Leaves, Office!Returns
    <2> QED BY <2>3, <2>4, <2>5 DEF Walks
<1> QED BY <1>2, <1>3, <1>4 DEF Office!Next

\* The refinement: whatever the transports deliver and however the clock runs,
\* nobody vanishes from a desk unseen, changes desk, or shares one.
THEOREM OfficeRefined == Spec => KeepsOffice
<1>1. Init => Office!Init
    <2> SUFFICES ASSUME Init PROVE Office!Init
        OBVIOUS
    <2>1. PICK n \in Capacities : st = Empty(n)
        BY DEF Init
    <2> QED BY <2>1 DEF Empty, Office!Init
<1>2. OInv /\ [Next]_vars => [Office!Next]_(Office!vars)
    BY NextWalks, WalksAreOfficeSteps
<1> QED BY <1>1, <1>2, OInvariance, PTL DEF Spec, KeepsOffice, Office!Spec

\* What an event delivers comes out of Apply.
LEMMA DeliveredApplies ==
    ASSUME NEW e \in Events, Delivered(e)
    PROVE  e \in Event /\ \E first \in Tool \cup {NoTool} : st' = Apply(st, e, first)
    BY ReducerAssumption DEF Delivered

\* #242 and #244, for any number of agents: while the reducer remembers that a
\* child ended, no parented start puts it on stage again, whatever the pre-passes
\* of the same apply sweep, expire or forget.
THEOREM DeadStayGone == Spec => DeadChildStaysGone
<1> DEFINE Echo(a) ==
        \/ Fresh(st.tomb[a], Tombstone)
        \/ st.ledger[a].known /\ Fresh(st.ledger[a].ended, LedgerTTL)
<1>1. ASSUME OInv, NEW a \in st'.here \ Preamble(st).here, Echo(a), NEW e \in Events,
             e.kind = "SessionStart", e.id = a, e.parent # NoAgent, Delivered(e)
      PROVE  FALSE
    <2>1. PICK first \in Tool \cup {NoTool} : e \in Event /\ st' = Apply(st, e, first)
        BY <1>1, DeliveredApplies
    <2> QED BY <1>1, <2>1, EchoIsDropped DEF OInv
<1>2. OInv => [\A a \in st'.here \ Preamble(st).here :
                  Echo(a) => ~\E e \in Events :
                     e.kind = "SessionStart" /\ e.id = a /\ e.parent # NoAgent /\ Delivered(e)]_vars
    BY <1>1
<1> QED BY <1>2, OInvariance, PTL DEF DeadChildStaysGone

\* cascade_exit, for any number of agents and any links: the end of a session
\* leaves nobody of its subtree on stage, also those below a descendant that was
\* walking out already.
THEOREM EndsTakeSubtrees == Spec => EndTakesSubtree
<1>1. ASSUME OInv, NEW a \in Agent, EndsNow(a)
      PROVE  \A c \in SubtreeOf(Up(Preamble(st)), a) \cap st'.here : st'.exiting[c] # Never
    <2>1. PICK e \in Events : e.kind = "SessionEnd" /\ e.id = a /\ Delivered(e)
        BY <1>1 DEF EndsNow
    <2>2. PICK first \in Tool \cup {NoTool} : e \in Event /\ st' = Apply(st, e, first)
        BY <2>1, DeliveredApplies
    <2> QED BY <1>1, <2>1, <2>2, EndMarksSubtree DEF OInv
<1>2. OInv => [\A a \in Agent :
                  \/ \A c \in SubtreeOf(Up(Preamble(st)), a) \cap st'.here : st'.exiting[c] # Never
                  \/ ~EndsNow(a)]_vars
    BY <1>1
<1> QED BY <1>2, OInvariance, PTL DEF EndTakesSubtree

\* #151, for any tree of any depth: the apply that carries the dispatch of a
\* Task does not fire its agent's own deferred cascade.
THEOREM DispatchSpares == Spec => DispatchSparesSubtree
<1>1. ASSUME OInv, NEW e \in Events, DispatchesTask(e), Delivered(e), NEW c \in st.here \cap st'.here,
             st.exiting[c] = Never, st'.exiting[c] # Never
      PROVE  \E x \in AncestorsOf(Up(st), c) \ {e.id} : Returned(x)
    <2>1. PICK first \in Tool \cup {NoTool} : e \in Event /\ st' = Apply(st, e, first)
        BY <1>1, DeliveredApplies
    <2>2. e.kind # "SessionEnd"
        BY <1>1 DEF DispatchesTask, ToolStart
    <2>3. PICK x \in AncestorsOf(Up(st), c) :
             st.tasks[x] = {} /\ ElapsedAtLeast(st.b1[x], B1Grace) /\ x # e.id
        BY <1>1, <2>1, <2>2, ApplyHasCause DEF OInv
    <2> QED BY <2>3 DEF Returned
<1>2. OInv => [\A e \in Events :
                  DispatchesTask(e) =>
                    \/ \A c \in st.here \cap st'.here :
                          st.exiting[c] = Never /\ st'.exiting[c] # Never =>
                             \E x \in AncestorsOf(Up(st), c) \ {e.id} : Returned(x)
                    \/ ~Delivered(e)]_vars
    BY <1>1
<1> QED BY <1>2, OInvariance, PTL DEF DispatchSparesSubtree

\* cascade_exit and its four callers, for any tree: whatever a step does, nobody
\* starts to walk out without a cause of their own or of an agent above.
THEOREM ExitsHaveCauses == Spec => ExitHasCause
<1> DEFINE Cause(a) ==
        \/ \E x \in LineageOf(Up(st), a) :
              EndsNow(x) \/ (x \in st.here /\ (FallenSilent(x) \/ TurnedOff(x)))
        \/ \E x \in AncestorsOf(Up(st), a) : Returned(x)
<1>1. ASSUME OInv, [Next]_vars, NEW a \in st.here \cap st'.here, st.exiting[a] = Never, st'.exiting[a] # Never
      PROVE  Cause(a)
    <2> USE DEF OInv
    <2>1. ASSUME NEW kind, Deliver(kind) PROVE Cause(a)
        <3>1. PICK e \in Events : Delivered(e)
            BY <2>1 DEF Deliver, Delivered
        <3>2. PICK first \in Tool \cup {NoTool} : e \in Event /\ st' = Apply(st, e, first)
            BY <3>1, DeliveredApplies
        <3>3. \/ e.kind = "SessionEnd" /\ e.id \in LineageOf(Up(st), a)
              \/ \E x \in AncestorsOf(Up(st), a) : st.tasks[x] = {} /\ ElapsedAtLeast(st.b1[x], B1Grace)
            BY <1>1, <3>2, ApplyHasCause
        <3> QED BY <3>1, <3>3 DEF EndsNow, Returned
    <2>2. CASE SweepTick
        BY <1>1, <2>2, TickHasCause DEF SweepTick, FallenSilent, TurnedOff, Returned
    <2>3. CASE Resize \/ Elapse \/ UNCHANGED vars
        <3>1. st \in State /\ a \in Agent
            BY <1>1, KeptIsState
        <3>2. CASE Elapse
            <4>1. Elapsed(st).exiting[a] = Older(st.exiting[a], ExitGrace + 1)
                BY <3>1 DEF Elapsed, State
            <4> QED BY <1>1, <3>2, <4>1 DEF Elapse, Older
        <3>3. CASE Resize \/ UNCHANGED vars
            <4>1. st'.exiting = st.exiting
                BY <3>1, <3>3 DEF Resize, vars, State
            <4> QED BY <1>1, <4>1
        <3> QED BY <2>3, <3>2, <3>3
    <2> QED BY <1>1, <2>1, <2>2, <2>3 DEF Next, SessionStart, ActivityStart, ActivityEnd, TurnComplete,
            Waiting, Rename, SessionEnd, ProofOfLife, Identity
<1>2. OInv /\ [Next]_vars => [\A a \in st.here \cap st'.here :
                                 st.exiting[a] = Never /\ st'.exiting[a] # Never => Cause(a)]_vars
    BY <1>1
<1> QED BY <1>2, OInvariance, PTL DEF ExitHasCause, Spec

LEMMA UnlapsedInvariance == Spec => [](OInv /\ Unlapsed(st))
<1>1. Init => Unlapsed(st)
    <2> SUFFICES ASSUME Init PROVE Unlapsed(st)
        OBVIOUS
    <2>1. PICK n \in Nat : st = Empty(n)
        BY ReducerAssumption DEF Init
    <2> QED BY <2>1 DEF Empty, Unlapsed
<1>2. ASSUME OInv, Unlapsed(st), [Next]_vars
      PROVE  Unlapsed(st')
    <2> USE DEF OInv
    <2>1. ASSUME NEW kind, Deliver(kind) PROVE Unlapsed(st')
        <3>1. PICK e \in Events, first \in Tool \cup {NoTool} : st' = Apply(st, e, first)
            BY <2>1 DEF Deliver
        <3>2. Unlapsed(Apply(st, e, first))
            BY <1>2, ReducerAssumption, ApplySpares
        <3> QED BY <3>1, <3>2
    <2>2. CASE SweepTick
        BY <1>2, <2>2, TickKeeps, TickQuells DEF SweepTick, Quells
    <2>3. CASE Resize \/ Elapse \/ UNCHANGED vars
        BY <1>2, <2>3, RestQuells DEF Quells
    <2> QED BY <1>2, <2>1, <2>2, <2>3 DEF Next, SessionStart, ActivityStart, ActivityEnd, TurnComplete,
            Waiting, Rename, SessionEnd, ProofOfLife, Identity
<1>3. (OInv /\ Unlapsed(st)) /\ OInv' /\ [Next]_vars => (OInv /\ Unlapsed(st))'
    BY <1>2
<1> QED BY <1>1, <1>3, OInvariance, PTL DEF Spec

\* expire_pending_idles and active_tasks, for every interleaving of the two
\* transports: no prompt lapses while its gated tool runs, and no step arms the
\* debounce of an agent with a Task in flight.
THEOREM TimersSpareTheBusy == Spec => TimerSparesTheBusy
<1> DEFINE Rests(a) == /\ ~(st'.act[a] = "Waiting" /\ st'.gate[a] # NoTool)
                       /\ a \in st.here /\ st.pending[a] = Never => st'.tasks[a] = {}
<1>1. ASSUME OInv, Unlapsed(st), Unlapsed(st'), [Next]_vars, NEW a \in Agent,
             st.pending[a] = Never, st'.pending[a] # Never
      PROVE  st'.tasks[a] = {}
    <2> USE DEF OInv
    <2>1. ASSUME NEW kind, Deliver(kind) PROVE st'.tasks[a] = {}
        <3>1. PICK e \in Events, first \in Tool \cup {NoTool} : st' = Apply(st, e, first)
            BY <2>1 DEF Deliver
        <3>2. Apply(st, e, first).pending[a] # Never => Apply(st, e, first).tasks[a] = {}
            BY <1>1, ReducerAssumption, ApplySpares
        <3> QED BY <1>1, <3>1, <3>2
    <2>2. CASE SweepTick
        BY <1>1, <2>2, TickKeeps, TickQuells DEF SweepTick, Quells
    <2>3. CASE Resize \/ Elapse \/ UNCHANGED vars
        BY <1>1, <2>3, RestQuells DEF Quells
    <2> QED BY <1>1, <2>1, <2>2, <2>3 DEF Next, SessionStart, ActivityStart, ActivityEnd, TurnComplete,
            Waiting, Rename, SessionEnd, ProofOfLife, Identity
<1>2. ASSUME OInv, OInv', Unlapsed(st), Unlapsed(st'), [Next]_vars, NEW a \in st'.here, st'.pending[a] # Never
      PROVE  Rests(a)
    <2>1. a \in Agent
        BY <1>2, KeptIsState DEF OInv
    <2> QED BY <1>1, <1>2, <2>1 DEF Unlapsed
<1>3. (OInv /\ Unlapsed(st)) /\ (OInv /\ Unlapsed(st))' /\ [Next]_vars =>
         [\A a \in st'.here : st'.pending[a] # Never => Rests(a)]_vars
    BY <1>2
<1> QED BY <1>3, UnlapsedInvariance, PTL DEF TimerSparesTheBusy, Spec

\* recent_task_drains, for every order of the two transports: the lagged pair of
\* a finished Task leaves a prompt raised since on show.
THEOREM ReplaysKeepPrompts == Spec => ReplayKeepsPrompt
<1>1. ASSUME OInv, NEW e \in Events, IsReplay(e), PromptPending(e.id), Delivered(e)
      PROVE  PromptStays(e.id)
    <2> DEFINE m == Met(st, e)
    <2>1. PICK first \in Tool \cup {NoTool} : e \in Event /\ st' = Apply(st, e, first)
        BY <1>1, DeliveredApplies
    <2>2. e.via = "Jsonl" /\ e.tool \in Tool /\ Fresh(st.drained[e.id][e.tool], DrainTTL)
        BY <1>1, <2>1, EventFields DEF IsReplay
    <2>3. /\ m \in State /\ e.id \in m.here /\ Prompting(m, e.id)
          /\ m.tasks[e.id] = st.tasks[e.id] /\ m.drained[e.id][e.tool] # Never
        BY <1>1, <2>1, <2>2, PromptIsMet DEF PromptPending, OInv, Prompting
    <2> HIDE DEF m
    <2>4. DispatchesTask(e) \/ DrainsTask(m, e)
        BY <1>1, <2>3 DEF IsReplay, DispatchesTask, DrainsTask, ToolStart, ToolEnd
    <2>5. CASE HookWon(m, e)
        BY <2>1, <2>2, <2>3, <2>5 DEF Apply, m, PromptStays, Prompting
    <2>6. CASE ~HookWon(m, e)
        <3>1. Prompting(Process(m, e, first), e.id)
            BY <2>1, <2>2, <2>3, <2>4, ReplayIsHarmless DEF Process
        <3>2. st' = Process(m, e, first)
            BY <2>1, <2>2, <2>6 DEF Apply, m
        <3> QED BY <3>1, <3>2 DEF PromptStays, Prompting
    <2> QED BY <2>5, <2>6
<1>2. OInv => [\A e \in Events :
                  IsReplay(e) /\ PromptPending(e.id) => PromptStays(e.id) \/ ~Delivered(e)]_vars
    BY <1>1
<1> QED BY <1>2, OInvariance, PTL DEF ReplayKeepsPrompt

\* apply_activity_end, for any number of tools in flight: a prompt outlives the
\* end of every tool but the one it gates.
THEOREM PromptsOutliveParallelEnds == Spec => PromptOutlivesParallelEnds
<1> DEFINE Parallel(e) == /\ e.kind = "ActivityEnd" /\ e.tool \notin {NoTool, st.gate[e.id]}
                          /\ e.via = "Jsonl" \/ st.tasks[e.id] = {}
                          /\ PromptPending(e.id)
<1>1. ASSUME OInv, NEW e \in Events, Parallel(e), Delivered(e)
      PROVE  PromptStays(e.id)
    <2> DEFINE m == Met(st, e)
               r == IF e.via = "Hook" THEN RecordHookTool(m, e) ELSE m
    <2>1. PICK first \in Tool \cup {NoTool} : e \in Event /\ st' = Apply(st, e, first)
        BY <1>1, DeliveredApplies
    <2>2. /\ m \in State /\ e.id \in m.here /\ Prompting(m, e.id)
          /\ m.tasks[e.id] = st.tasks[e.id] /\ m.gate[e.id] = st.gate[e.id]
        BY <1>1, <2>1, PromptIsMet DEF PromptPending, OInv, Prompting
    <2> HIDE DEF m
    <2>3. ~(e.via = "Hook" /\ LeakedFromSubagent(m, e))
        BY <1>1, <2>1, <2>2, EventFields DEF LeakedFromSubagent
    <2>4. r \in State /\ e.id \in r.here /\ Prompting(r, e.id) /\ r.gate = m.gate
        <3>1. RecordHookTool(m, e) \in State
            BY <2>1, <2>2, EventFields, RecordHookToolSteady DEF Steady, Calm
        <3> QED BY <2>1, <2>2, <3>1, SmallStepsAreSame DEF Same, Prompting
    <2>5. CASE e.via = "Jsonl" /\ HookWon(m, e)
        BY <2>1, <2>2, <2>3, <2>5 DEF Apply, m, PromptStays, Prompting
    <2>6. CASE ~(e.via = "Jsonl" /\ HookWon(m, e))
        <3> HIDE DEF r
        <3>1. Prompting(Handle(FirePendingB1(TrackActiveTasks(r, e)), e, first, DrainsTask(r, e)), e.id)
            BY <1>1, <2>1, <2>2, <2>4, ParallelEndIsHarmless
        <3>2. st' = Handle(FirePendingB1(TrackActiveTasks(r, e)), e, first, DrainsTask(r, e))
            BY <2>1, <2>3, <2>6 DEF Apply, Process, m, r
        <3> QED BY <3>1, <3>2 DEF PromptStays, Prompting
    <2> QED BY <2>5, <2>6
<1>2. OInv => [\A e \in Events : Parallel(e) => PromptStays(e.id) \/ ~Delivered(e)]_vars
    BY <1>1
<1> QED BY <1>2, OInvariance, PTL DEF PromptOutlivesParallelEnds
=============================================================================

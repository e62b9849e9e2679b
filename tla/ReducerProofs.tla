--------------------------- MODULE ReducerProofs ---------------------------
(* Theorems about the reducer, for all agents, tools, sources and windows. *)
EXTENDS ReducerProperties, WellFoundedInduction, TLAPS

-----------------------------------------------------------------------------
(* A parent map stays acyclic under the two ways the reducer changes it.   *)

\* has_ancestor_where, as register and enrich use it: a link from a parentless
\* child to a parent whose lineage does not hold the child closes no cycle.
LEMMA LinkKeepsAcyclic ==
    ASSUME NEW up \in ParentMap, Acyclic(up),
           NEW child \in Agent, NEW parent \in Agent,
           up[child] = NoAgent, ~WouldCreateCycle(up, child, parent)
    PROVE  Acyclic([up EXCEPT ![child] = parent])
<1> DEFINE new == [up EXCEPT ![child] = parent]
<1>1. /\ new[child] = parent
      /\ \A x \in Agent \ {child} : new[x] = up[x]
    BY DEF ParentMap
<1> HIDE DEF new
<1>2. ASSUME NEW S \in SUBSET Agent, S # {}, \A x \in S : new[x] \in S
      PROVE  FALSE
    <2>1. PICK y \in S : up[y] \notin S
        BY <1>2 DEF Acyclic
    <2>2. y = child /\ parent \in S
        BY <1>1, <1>2, <2>1
    <2>3. PICK T \in SUBSET Agent : parent \in T /\ UpClosed(up, T) /\ child \notin T
        BY DEF WouldCreateCycle, LineageOf
    <2>4. PICK x \in S \cap T : up[x] \notin S \cap T
        BY <2>2, <2>3 DEF Acyclic
    <2>5. x # child /\ up[x] \in S
        BY <1>1, <1>2, <2>3, <2>4
    <2>6. up[x] \in T
        BY <2>3, <2>4, <2>5, NoAgentAssumption DEF UpClosed
    <2> QED BY <2>4, <2>5, <2>6
<1> QED BY <1>2 DEF Acyclic, new

\* sweep_exited: forgetting the links of the slots that leave closes no cycle.
LEMMA ForgetKeepsAcyclic ==
    ASSUME NEW up \in ParentMap, Acyclic(up), NEW Gone \in SUBSET Agent
    PROVE  Acyclic([x \in Agent |-> IF x \in Gone THEN NoAgent ELSE up[x]])
<1> DEFINE new == [x \in Agent |-> IF x \in Gone THEN NoAgent ELSE up[x]]
<1>1. ASSUME NEW S \in SUBSET Agent, S # {}
      PROVE  \E x \in S : new[x] \notin S
    <2>1. PICK x \in S : up[x] \notin S
        BY <1>1 DEF Acyclic
    <2>2. NoAgent \notin S
        BY NoAgentAssumption
    <2> QED BY <2>1, <2>2
<1> QED BY <1>1 DEF Acyclic

\* No links, no cycle.
LEMMA NoLinksAcyclic == Acyclic([x \in Agent |-> NoAgent])
    BY NoAgentAssumption DEF Acyclic
-----------------------------------------------------------------------------
(* Ages.                                                                   *)

LEMMA WindowsAreNat ==
    /\ ExitGrace \in Nat /\ ActiveGrace \in Nat /\ B1Grace \in Nat /\ HookWins \in Nat
    /\ Tombstone \in Nat /\ DrainTTL \in Nat /\ LedgerTTL \in Nat /\ VouchTTL \in Nat
    /\ StaleUnknownCwd \in Nat /\ StaleShortIdle \in Nat /\ StaleActive \in Nat
    /\ StaleIdle \in Nat /\ StaleWaiting \in Nat /\ ExitGrace + 1 \in Nat
    BY ReducerAssumption DEF Windows

LEMMA QuietCapIsNat == QuietCap \in Nat
<1> DEFINE W == {StaleUnknownCwd, StaleShortIdle, StaleActive, StaleIdle, StaleWaiting}
<1>1. \E w \in W : \A v \in W : v <= w
    BY WindowsAreNat
<1> QED BY <1>1, WindowsAreNat DEF QuietCap

LEMMA AgesOpen == \A n \in Nat : 0 \in Age(n) /\ Never \in Age(n)
    BY DEF Age, Never

LEMMA AgesKept ==
    ASSUME NEW n \in Nat, NEW x \in Age(n)
    PROVE  Keep(x, n) \in Age(n) /\ Older(x, n) \in Age(n)
    BY DEF Age, Never, Keep, Fresh, Older

LEMMA QuietOpen == 0 \in Quiet /\ \A q \in Quiet : Older(q, QuietCap + 1) \in Quiet
    BY QuietCapIsNat DEF Quiet, Older, Never

LEMMA RecordsOpen ==
    /\ NoRecord \in HookRecord
    /\ \A k \in {"Start", "End"} : [kind |-> k, age |-> 0] \in HookRecord
    /\ \A r \in HookRecord : [r EXCEPT !.age = Older(@, HookWins)] \in HookRecord
    BY WindowsAreNat DEF NoRecord, HookRecord, Older, Never

LEMMA EntriesOpen ==
    /\ NoEntry \in LedgerEntry
    /\ \A p \in Agent : [known |-> TRUE, parent |-> p, ended |-> Never] \in LedgerEntry
    /\ \A l \in LedgerEntry :
          /\ [l EXCEPT !.ended = 0] \in LedgerEntry
          /\ [l EXCEPT !.known = TRUE] \in LedgerEntry
          /\ [l EXCEPT !.ended = Older(@, LedgerTTL)] \in LedgerEntry
          /\ l.parent \in Agent \cup {NoAgent} /\ l.known \in BOOLEAN /\ l.ended \in Age(LedgerTTL)
    BY WindowsAreNat, AgesOpen, AgesKept DEF NoEntry, LedgerEntry
-----------------------------------------------------------------------------
(* Operators that leave slots, desks and links alone.                      *)

\* t is a state with the slots, desks and links of s.
Calm(s, t) == t \in State /\ t.here = s.here /\ t.desk = s.desk /\ t.parent = s.parent

LEMMA EnterActiveCalm ==
    ASSUME NEW s \in State, NEW a \in Agent, NEW t \in Tool \cup {NoTool}, NEW k \in BOOLEAN
    PROVE  Calm(s, EnterActive(s, a, t, k))
    BY WindowsAreNat, AgesOpen, QuietOpen DEF State, EnterActive, Calm

LEMMA EnterDelegatingCalm ==
    ASSUME NEW s \in State, NEW a \in Agent, NEW t \in Tool \cup {NoTool}
    PROVE  Calm(s, EnterDelegating(s, a, t))
    BY WindowsAreNat, AgesOpen, QuietOpen DEF State, EnterDelegating, Calm

LEMMA EnterWaitingCalm ==
    ASSUME NEW s \in State, NEW a \in Agent
    PROVE  Calm(s, EnterWaiting(s, a))
    BY WindowsAreNat, AgesOpen, QuietOpen DEF State, EnterWaiting, Calm

LEMMA ArmPendingIdleCalm ==
    ASSUME NEW s \in State, NEW a \in Agent
    PROVE  Calm(s, ArmPendingIdle(s, a))
    BY WindowsAreNat, AgesOpen DEF State, ArmPendingIdle, Calm

LEMMA SettleToIdleCalm ==
    ASSUME NEW s \in State, NEW S \in SUBSET Agent
    PROVE  Calm(s, SettleToIdle(s, S))
    BY WindowsAreNat, AgesOpen DEF State, SettleToIdle, Calm

LEMMA MarkExitingCalm ==
    ASSUME NEW s \in State, NEW S \in SUBSET Agent
    PROVE  Calm(s, MarkExiting(s, S))
    BY WindowsAreNat, AgesOpen DEF State, MarkExiting, Calm

LEMMA ResurrectInPlaceCalm ==
    ASSUME NEW s \in State, NEW a \in Agent
    PROVE  Calm(s, ResurrectInPlace(s, a))
    BY WindowsAreNat, AgesOpen DEF State, ResurrectInPlace, Calm

LEMMA RefreshLineageCalm ==
    ASSUME NEW s \in State, NEW a \in Agent
    PROVE  Calm(s, RefreshLineage(s, a))
    BY QuietOpen DEF State, RefreshLineage, Calm

LEMMA GcCalm ==
    ASSUME NEW s \in State
    PROVE  Calm(s, Gc(s))
<1>1. Gc(s).recent \in [Agent -> [Tool -> HookRecord]]
    BY RecordsOpen DEF State, Gc
<1>2. Gc(s).tomb \in [Agent -> Age(Tombstone)] /\ Gc(s).vouch \in [Agent -> Age(VouchTTL)]
    BY WindowsAreNat, AgesKept DEF State, Gc
<1>3. Gc(s).drained \in [Agent -> [Tool -> Age(DrainTTL)]]
    BY WindowsAreNat, AgesKept DEF State, Gc
<1>4. Gc(s).ledger \in [Agent -> LedgerEntry]
    BY EntriesOpen DEF State, Gc
<1> QED BY <1>1, <1>2, <1>3, <1>4 DEF State, Gc, Calm

LEMMA DropCorrelationCalm ==
    ASSUME NEW s \in State, NEW S \in SUBSET Agent
    PROVE  Calm(s, DropCorrelation(s, S))
    BY WindowsAreNat, AgesOpen DEF State, DropCorrelation, Calm

LEMMA DropVouchCalm ==
    ASSUME NEW s \in State, NEW S \in SUBSET Agent
    PROVE  Calm(s, DropVouch(s, S))
    BY WindowsAreNat, AgesOpen DEF State, DropVouch, Calm

LEMMA BackfillIdentityCalm ==
    ASSUME NEW s \in State, NEW a \in Agent, NEW src \in Source \cup {Blank}, NEW cwd \in BOOLEAN
    PROVE  Calm(s, BackfillIdentity(s, a, src, cwd))
    BY DEF State, BackfillIdentity, Calm

LEMMA LinkAppliedParentCalm ==
    ASSUME NEW s \in State, NEW a \in Agent, NEW p \in Agent
    PROVE  Calm(s, LinkAppliedParent(s, a, p))
    BY EntriesOpen DEF State, LinkAppliedParent, Calm

LEMMA CalmTrans ==
    ASSUME NEW s, NEW u, NEW t, Calm(s, u), Calm(u, t)
    PROVE  Calm(s, t)
    BY DEF Calm

LEMMA CascadesCalm ==
    ASSUME NEW s \in State, NEW R \in SUBSET Agent
    PROVE  Calm(s, CascadeWithRoot(s, R)) /\ Calm(s, CascadeBelow(s, R))
<1>1. \A r \in R : SubtreeOf(Up(s), r) \in SUBSET Agent
    BY DEF SubtreeOf
<1> QED BY <1>1, MarkExitingCalm DEF CascadeWithRoot, CascadeBelow

LEMMA BuryUnknownCalm ==
    ASSUME NEW s \in State, NEW e \in Event
    PROVE  Calm(s, BuryUnknown(s, e))
    BY WindowsAreNat, AgesOpen DEF State, Event, BuryUnknown, Calm

LEMMA RecordHookToolCalm ==
    ASSUME NEW s \in State, NEW e \in Event
    PROVE  Calm(s, RecordHookTool(s, e))
<1>1. CASE (ToolStart(e) \/ ToolEnd(e)) /\ e.id \in s.here
    <2>1. e.tool \in Tool /\ e.id \in Agent
        BY <1>1 DEF ToolStart, ToolEnd, Event
    <2>2. PICK r \in HookRecord : RecordHookTool(s, e) = [s EXCEPT !.recent[e.id][e.tool] = r]
        BY <1>1, RecordsOpen DEF RecordHookTool
    <2>3. [s.recent EXCEPT ![e.id] = [s.recent[e.id] EXCEPT ![e.tool] = r]]
             \in [Agent -> [Tool -> HookRecord]]
        BY <2>1 DEF State
    <2> QED BY <2>1, <2>2, <2>3 DEF State, Calm
<1>2. CASE ~((ToolStart(e) \/ ToolEnd(e)) /\ e.id \in s.here)
    BY <1>2 DEF RecordHookTool, Calm
<1> QED BY <1>1, <1>2

LEMMA TrackDispatchCalm ==
    ASSUME NEW s \in State, NEW e \in Event, DispatchesTask(e)
    PROVE  Calm(s, TrackDispatch(s, e))
<1> DEFINE inserted == [s EXCEPT !.tasks[e.id] = @ \cup {e.tool}]
<1>1. e.tool \in Tool /\ e.id \in Agent
    BY DEF DispatchesTask, ToolStart, Event
<1>2. Calm(s, inserted)
    BY <1>1, ZenonT(30) DEF State, Calm
<1>3. Calm(inserted, EnterDelegating(inserted, e.id, e.tool))
    BY <1>1, <1>2, EnterDelegatingCalm DEF Calm
<1> QED BY <1>2, <1>3, CalmTrans DEF TrackDispatch

LEMMA TrackDrainCalm ==
    ASSUME NEW s \in State, NEW e \in Event, DrainsTask(s, e)
    PROVE  Calm(s, TrackDrain(s, e))
<1> DEFINE a       == e.id
           left    == s.tasks[a] \ {e.tool}
           removed == [s EXCEPT !.tasks[a] = left, !.drained[a][e.tool] = 0,
                                !.gate[a] = IF @ = e.tool THEN NoTool ELSE @]
           quieted == [removed EXCEPT
                         !.quiet[a]   = 0,
                         !.b1[a]      = IF left = {} THEN 0 ELSE @,
                         !.pending[a] = IF left = {} /\ s.act[a] = "Active" THEN 0 ELSE @]
<1>1. e.tool \in Tool /\ e.id \in Agent
    BY DEF DrainsTask, ToolEnd, Event
<1>2. [s.drained EXCEPT ![a] = [s.drained[a] EXCEPT ![e.tool] = 0]]
         \in [Agent -> [Tool -> Age(DrainTTL)]]
    BY <1>1, WindowsAreNat, AgesOpen DEF State
<1>3. Calm(s, removed)
    BY <1>1, <1>2 DEF State, Calm
<1>4. Calm(removed, quieted)
    <2> HIDE DEF removed
    <2> QED BY <1>1, <1>3, WindowsAreNat, AgesOpen, QuietOpen, ZenonT(30) DEF State, Calm
<1> QED BY <1>3, <1>4, CalmTrans DEF TrackDrain

LEMMA TrackActiveTasksCalm ==
    ASSUME NEW s \in State, NEW e \in Event
    PROVE  Calm(s, TrackActiveTasks(s, e))
    BY TrackDispatchCalm, TrackDrainCalm DEF TrackActiveTasks, Calm

LEMMA FirePendingB1Calm ==
    ASSUME NEW s \in State
    PROVE  Calm(s, FirePendingB1(s))
<1> DEFINE due      == {a \in Agent : ElapsedAtLeast(s.b1[a], B1Grace)}
           disarmed == [s EXCEPT !.b1 = [a \in Agent |-> IF a \in due THEN Never ELSE s.b1[a]]]
           roots    == {a \in due : s.tasks[a] = {}}
<1>1. Calm(s, disarmed)
    BY WindowsAreNat, AgesOpen DEF State, Calm
<1>2. Calm(disarmed, CascadeBelow(disarmed, roots))
    BY <1>1, CascadesCalm DEF Calm
<1> QED BY <1>1, <1>2, CalmTrans DEF FirePendingB1

LEMMA ResumeDelegatingCalm ==
    ASSUME NEW s \in State, NEW e \in Event, NEW t \in Tool \cup {NoTool}
    PROVE  Calm(s, ResumeDelegating(s, e, t))
<1> DEFINE d == EnterDelegating(s, e.id, t)
<1>1. e.id \in Agent
    BY DEF Event
<1>2. Calm(s, d)
    BY <1>1, EnterDelegatingCalm
<1>3. Calm(d, [d EXCEPT !.gate[e.id] = NoTool])
    <2> HIDE DEF d
    <2> QED BY <1>1, <1>2 DEF State, Calm
<1>4. Calm(s, s)
    BY DEF Calm
<1> QED BY <1>2, <1>3, <1>4, CalmTrans DEF ResumeDelegating

LEMMA EventFields ==
    ASSUME NEW e \in Event
    PROVE  /\ e.id \in Agent /\ e.tool \in Tool \cup {NoTool} /\ e.task \in BOOLEAN
           /\ e.parent \in Agent \cup {NoAgent} /\ e.src \in Source \cup {Blank}
           /\ e.cwd \in BOOLEAN
    BY DEF Event

LEMMA FieldsCalm ==
    ASSUME NEW s \in State, NEW a \in Agent, NEW t \in Tool \cup {NoTool}
    PROVE  /\ Calm(s, s)
           /\ Calm(s, [s EXCEPT !.gate[a] = t])
           /\ Calm(s, [s EXCEPT !.quiet[a] = 0])
           /\ Calm(s, [s EXCEPT !.vouch[a] = 0])
           /\ Calm(s, [s EXCEPT !.done = @ \cup {a}])
           /\ Calm(s, [s EXCEPT !.done = @ \ {a}])
           /\ Calm(s, [s EXCEPT !.ghost[a] = FALSE])
    BY WindowsAreNat, AgesOpen, QuietOpen DEF State, Calm

LEMMA StartActivityCalm ==
    ASSUME NEW s \in State, NEW e \in Event
    PROVE  Calm(s, StartActivity(s, e))
<1> DEFINE g == [s EXCEPT !.gate[e.id] = NoTool]
<1>1. Calm(s, s) /\ Calm(s, g)
    BY EventFields, FieldsCalm
<1> HIDE DEF g
<1>2. Calm(g, EnterActive(g, e.id, e.tool, e.task))
    BY <1>1, EventFields, EnterActiveCalm DEF Calm
<1> QED BY <1>1, <1>2, CalmTrans DEF StartActivity, g

LEMMA EndActivityCalm ==
    ASSUME NEW s \in State, NEW e \in Event, NEW t \in Tool \cup {NoTool}
    PROVE  Calm(s, EndActivity(s, e, t))
<1> DEFINE a == e.id
           g == IF ResolvesWait(s, e) THEN [s EXCEPT !.gate[a] = NoTool] ELSE s
           ended == IF s.act[a] = "Active" \/ ResolvesWait(s, e)
                    THEN IF s.tasks[a] # {} THEN EnterDelegating(g, a, t)
                                            ELSE ArmPendingIdle(g, a)
                    ELSE g
<1>1. Calm(s, s) /\ Calm(s, g)
    BY EventFields, FieldsCalm
<1>2. Calm(g, g) /\ Calm(g, EnterDelegating(g, a, t)) /\ Calm(g, ArmPendingIdle(g, a))
    <2> HIDE DEF g
    <2> QED BY <1>1, EventFields, FieldsCalm, EnterDelegatingCalm, ArmPendingIdleCalm DEF Calm
<1>3. Calm(s, ended)
    <2> HIDE DEF g
    <2> QED BY <1>1, <1>2, CalmTrans
<1>4. Calm(ended, [ended EXCEPT !.quiet[a] = 0])
    <2> HIDE DEF ended
    <2> QED BY <1>3, EventFields, FieldsCalm DEF Calm
<1> QED BY <1>1, <1>3, <1>4, CalmTrans DEF EndActivity

LEMMA AwaitPermissionCalm ==
    ASSUME NEW s \in State, NEW e \in Event
    PROVE  Calm(s, AwaitPermission(s, e))
<1> DEFINE t == IF s.act[e.id] = "Active" THEN s.tool[e.id] ELSE NoTool
           g == [s EXCEPT !.gate[e.id] = t]
<1>1. t \in Tool \cup {NoTool}
    BY EventFields DEF State
<1> HIDE DEF t
<1>2. Calm(s, s) /\ Calm(s, g)
    BY <1>1, EventFields, FieldsCalm
<1> HIDE DEF g
<1>3. Calm(g, EnterWaiting(g, e.id))
    BY <1>2, EventFields, EnterWaitingCalm DEF Calm
<1> QED BY <1>2, <1>3, CalmTrans DEF AwaitPermission, g, t

LEMMA EndSessionCalm ==
    ASSUME NEW s \in State, NEW e \in Event
    PROVE  Calm(s, EndSession(s, e))
<1> DEFINE r == [s.ledger[e.id] EXCEPT !.known = TRUE, !.ended = 0]
           l == IF e.child THEN [s EXCEPT !.ledger[e.id] = r] ELSE s
<1>1. s.ledger[e.id] \in LedgerEntry
    BY EventFields DEF State
<1>2. r \in LedgerEntry
    <2> DEFINE k == [s.ledger[e.id] EXCEPT !.known = TRUE]
    <2>1. k \in LedgerEntry
        BY <1>1, EntriesOpen
    <2>2. r = [k EXCEPT !.ended = 0]
        BY <1>1 DEF LedgerEntry
    <2> QED BY <2>1, <2>2, EntriesOpen
<1> HIDE DEF r
<1>3. Calm(s, l)
    <2>1. [s EXCEPT !.ledger[e.id] = r] = [s EXCEPT !.ledger = [s.ledger EXCEPT ![e.id] = r]]
        BY DEF State
    <2>2. Calm(s, [s EXCEPT !.ledger = [s.ledger EXCEPT ![e.id] = r]])
        BY <1>2, EventFields DEF State, Calm
    <2> QED BY <2>1, <2>2, EventFields, FieldsCalm
<1> HIDE DEF l
<1>4. Calm(l, CascadeWithRoot(l, {e.id}))
    BY <1>3, EventFields, CascadesCalm DEF Calm
<1> QED BY <1>3, <1>4, CalmTrans DEF EndSession, l, r

LEMMA SmallHandlersCalm ==
    ASSUME NEW s \in State, NEW e \in Event
    PROVE  Calm(s, Vouch(s, e)) /\ Calm(s, CompleteTurn(s, e)) /\ Calm(s, NewWork(s, e))
    BY EventFields, FieldsCalm DEF Vouch, CompleteTurn, NewWork
-----------------------------------------------------------------------------
(* Slots come and go: the inductive invariant.                             *)

\* The part of the state the three theorems are about, kept by every operator
\* of the reducer.
Sound(s) ==
    /\ s \in State
    /\ Acyclic(Up(s))
    /\ \A a \in Agent \ s.here : s.parent[a] = NoAgent
    /\ \A a \in Agent : a \in s.here <=> s.desk[a] # Never
    /\ \A a, b \in s.here : a # b => s.desk[a] # s.desk[b]

LEMMA CalmKeepsSound ==
    ASSUME NEW s, NEW t, Sound(s), Calm(s, t)
    PROVE  Sound(t)
    BY DEF Sound, Calm, Up

LEMMA SoundHasParents ==
    ASSUME NEW s, Sound(s)
    PROVE  s \in State /\ Up(s) \in ParentMap /\ s.here \in SUBSET Agent
    BY DEF Sound, State, Up, ParentMap

LEMMA RemoveSlotsSound ==
    ASSUME NEW s, Sound(s), NEW S \in SUBSET Agent
    PROVE  Sound(RemoveSlots(s, S))
<1> DEFINE d == DropVouch(DropCorrelation(s, S), S)
           t == RemoveSlots(s, S)
           up == [a \in Agent |-> IF a \in S THEN NoAgent ELSE s.parent[a]]
           ledger == [a \in Agent |->
                        IF a \in S /\ s.ledger[a].known /\ s.ledger[a].ended = Never
                        THEN [s.ledger[a] EXCEPT !.ended = 0] ELSE s.ledger[a]]
<1>1. s \in State
    BY DEF Sound
<1>2. d \in State
    BY <1>1, DropCorrelationCalm, DropVouchCalm DEF Calm
<1>3. ledger \in [Agent -> LedgerEntry]
    BY <1>1, EntriesOpen DEF State
<1>4. /\ t.here = s.here \ S /\ t.parent = up
      /\ t.desk = [a \in Agent |-> IF a \in S THEN Never ELSE s.desk[a]]
    <2> HIDE DEF d
    <2> QED BY <1>2 DEF RemoveSlots, State, d
<1>5. t \in State
    <2> HIDE DEF d, ledger
    <2> QED BY <1>1, <1>2, <1>3, WindowsAreNat, AgesOpen, QuietOpen, ZenonT(30)
            DEF RemoveSlots, State, d, ledger, Desk
<1>6. Acyclic(up)
    BY SoundHasParents, ForgetKeepsAcyclic DEF Sound, Up
<1> QED BY <1>1, <1>4, <1>5, <1>6 DEF Sound, Up, State

LEMMA PreambleSound ==
    ASSUME NEW s, Sound(s)
    PROVE  Sound(Preamble(s))
<1>1. Sound(Gc(s))
    BY GcCalm, CalmKeepsSound DEF Sound
<1>2. Sound(SweepExited(Gc(s)))
    BY <1>1, SoundHasParents, RemoveSlotsSound DEF SweepExited
<1>3. \A t : Sound(t) => Sound(ExpirePendingIdles(t))
    BY SettleToIdleCalm, CalmKeepsSound, SoundHasParents DEF ExpirePendingIdles
<1> QED BY <1>2, <1>3 DEF Preamble

\* Every nonempty set of naturals has a least member.
LEMMA LeastExists ==
    ASSUME NEW S \in SUBSET Nat, S # {}
    PROVE  \E x \in S : \A y \in S : x <= y
<1> DEFINE Less == {ss \in Nat \X Nat : ss[1] < ss[2]}
<1>1. IsWellFoundedOn(Less, Nat)
    BY NatLessThanWellFounded DEF OpToRel
<1> HIDE DEF Less
<1>2. PICK x \in S : \A y \in S : ~(<<y, x>> \in Less)
    BY <1>1, WFMin
<1>3. ASSUME NEW y \in S PROVE x <= y
    <2>1. ~(<<y, x>> \in Less)
        BY <1>2
    <2>2. ~(y < x)
        BY <2>1, SMT DEF Less
    <2> QED BY <2>2
<1> QED BY <1>3

LEMMA LowestFreeDeskIsFree ==
    ASSUME NEW s \in State, FreeDesks(s) # {}
    PROVE  LowestFreeDesk(s) \in Nat /\ \A a \in s.here : s.desk[a] # LowestFreeDesk(s)
<1>1. FreeDesks(s) \in SUBSET Nat
    BY DEF FreeDesks, State
<1>2. LowestFreeDesk(s) \in FreeDesks(s)
    BY <1>1, LeastExists DEF LowestFreeDesk
<1> QED BY <1>1, <1>2 DEF FreeDesks

LEMMA RegisterSound ==
    ASSUME NEW s, Sound(s), NEW a \in Agent, a \notin s.here,
           NEW src \in Source \cup {Blank}, NEW cwd \in BOOLEAN,
           NEW p \in Agent \cup {NoAgent},
           p = NoAgent \/ ~WouldCreateCycle(Up(s), a, p)
    PROVE  Sound(Register(s, a, src, cwd, p))
<1>1. CASE FreeDesks(s) = {}
    BY <1>1 DEF Register
<1>2. CASE FreeDesks(s) # {}
    <2> DEFINE d == LowestFreeDesk(s)
               t == Register(s, a, src, cwd, p)
    <2>1. s \in State /\ s.parent[a] = NoAgent
        BY DEF Sound
    <2>2. d \in Nat /\ \A b \in s.here : s.desk[b] # d
        BY <1>2, <2>1, LowestFreeDeskIsFree
    <2> HIDE DEF d
    <2>3. /\ t \in State /\ t.here = s.here \cup {a}
          /\ t.parent = [s.parent EXCEPT ![a] = p] /\ t.desk = [s.desk EXCEPT ![a] = d]
        <3> DEFINE ghost == ~cwd /\ p = NoAgent
        <3>1. ghost \in BOOLEAN
            OBVIOUS
        <3> HIDE DEF ghost
        <3>2. t = [s EXCEPT !.here = @ \cup {a}, !.parent[a] = p, !.src[a] = src,
                            !.desk[a] = d, !.ghost[a] = ghost]
            BY <1>2 DEF Register, d, ghost
        <3> HIDE DEF t
        <3> QED BY <2>1, <2>2, <3>1, <3>2, ZenonT(30) DEF State, Desk
    <2>4. Acyclic(Up(t))
        <3>1. CASE p = NoAgent
            <4>1. Up(t) = Up(s)
                BY <2>1, <2>3, <3>1 DEF Up, State
            <4> QED BY <4>1 DEF Sound
        <3>2. CASE p # NoAgent
            BY <2>1, <2>3, <3>2, SoundHasParents, LinkKeepsAcyclic DEF Sound, Up
        <3> QED BY <3>1, <3>2
    <2>5. /\ \A b \in Agent \ t.here : t.parent[b] = NoAgent
          /\ \A b \in Agent : b \in t.here <=> t.desk[b] # Never
          /\ \A b, c \in t.here : b # c => t.desk[b] # t.desk[c]
        BY <2>1, <2>2, <2>3 DEF Sound, State, Never
    <2> QED BY <2>3, <2>4, <2>5 DEF Sound
<1> QED BY <1>1, <1>2
-----------------------------------------------------------------------------
(* The handlers and the steps keep the invariant.                          *)

LEMMA FieldsSound ==
    ASSUME NEW s, Sound(s), NEW a \in Agent
    PROVE  Sound([s EXCEPT !.ghost[a] = FALSE]) /\ Sound([s EXCEPT !.quiet[a] = 0])
    BY SoundHasParents, FieldsCalm, CalmKeepsSound

LEMMA IdentitySound ==
    ASSUME NEW s, Sound(s), NEW e \in Event
    PROVE  Sound(SynthesizeHookRegistration(s, e)) /\ Sound(Identify(s, e))
<1>1. ASSUME e.id \notin s.here, NEW src \in Source \cup {Blank}, NEW cwd \in BOOLEAN
      PROVE  Sound([Register(s, e.id, src, cwd, NoAgent) EXCEPT !.ghost[e.id] = FALSE])
    BY <1>1, EventFields, RegisterSound, FieldsSound
<1>2. Sound([BackfillIdentity(s, e.id, e.src, e.cwd) EXCEPT !.ghost[e.id] = FALSE])
    BY EventFields, SoundHasParents, BackfillIdentityCalm, CalmKeepsSound, FieldsSound
<1> QED BY <1>1, <1>2, EventFields DEF SynthesizeHookRegistration, Identify

LEMMA AcceptedParentIsSafe ==
    ASSUME NEW s \in State, NEW e \in Event
    PROVE  /\ AcceptedParent(s, e) \in Agent \cup {NoAgent}
           /\ s.parent[e.id] = NoAgent /\ AcceptedParent(s, e) # NoAgent =>
                 ~WouldCreateCycle(Up(s), e.id, AcceptedParent(s, e))
<1>1. AdoptedParent(s, e) \in Agent \cup {NoAgent}
    BY EventFields, EntriesOpen DEF AdoptedParent, State
<1> QED BY <1>1 DEF AcceptedParent

LEMMA FirstStartSound ==
    ASSUME NEW s, Sound(s), NEW e \in Event, e.id \notin s.here
    PROVE  Sound(FirstStart(s, e))
<1> DEFINE p == AcceptedParent(s, e)
           r == Register(s, e.id, e.src, e.cwd, p)
<1>1. s \in State /\ s.parent[e.id] = NoAgent
    BY EventFields DEF Sound
<1>2. p \in Agent \cup {NoAgent} /\ (p = NoAgent \/ ~WouldCreateCycle(Up(s), e.id, p))
    BY <1>1, AcceptedParentIsSafe
<1>3. Sound(r)
    BY <1>2, EventFields, RegisterSound
<1> HIDE DEF p, r
<1>4. p # NoAgent => Sound(LinkAppliedParent(r, e.id, p))
    BY <1>2, <1>3, EventFields, SoundHasParents, LinkAppliedParentCalm, CalmKeepsSound
<1> QED BY <1>3, <1>4 DEF FirstStart, p, r

LEMMA LinkedSound ==
    ASSUME NEW s, Sound(s), NEW e \in Event, e.id \in s.here, s.parent[e.id] = NoAgent,
           AcceptedParent(s, e) # NoAgent
    PROVE  LET p == AcceptedParent(s, e)
           IN  Sound(LinkAppliedParent([s EXCEPT !.parent[e.id] = p], e.id, p))
<1> DEFINE a == e.id
           p == AcceptedParent(s, e)
           joined == [s EXCEPT !.parent[a] = p]
<1>1. a \in Agent /\ p \in Agent /\ s \in State /\ ~WouldCreateCycle(Up(s), a, p)
    BY EventFields, SoundHasParents, AcceptedParentIsSafe
<1> HIDE DEF p
<1>2. Acyclic([s.parent EXCEPT ![a] = p])
    BY <1>1, SoundHasParents, LinkKeepsAcyclic DEF Sound, Up
<1>3. joined \in State /\ joined.here = s.here /\ joined.desk = s.desk
      /\ joined.parent = [s.parent EXCEPT ![a] = p]
    BY <1>1 DEF State
<1>4. Sound(joined)
    BY <1>1, <1>2, <1>3 DEF Sound, Up, State
<1> HIDE DEF joined
<1>5. Sound(LinkAppliedParent(joined, a, p))
    BY <1>1, <1>4, SoundHasParents, LinkAppliedParentCalm, CalmKeepsSound
<1> QED BY <1>5 DEF joined, p

LEMMA DuplicateStartSound ==
    ASSUME NEW s, Sound(s), NEW e \in Event, e.id \in s.here
    PROVE  Sound(DuplicateStart(s, e))
<1> DEFINE a == e.id
           p == AcceptedParent(s, e)
           joined == [s EXCEPT !.parent[a] = p]
           linked == IF s.parent[a] = NoAgent /\ p # NoAgent
                     THEN LinkAppliedParent(joined, a, p) ELSE s
           healed == [BackfillIdentity(linked, a, e.src, e.cwd) EXCEPT !.quiet[a] = 0]
<1>1. a \in Agent /\ p \in Agent \cup {NoAgent} /\ s \in State
    BY EventFields, SoundHasParents, AcceptedParentIsSafe
<1>2. Sound(linked)
    <2>1. CASE s.parent[a] = NoAgent /\ p # NoAgent
        BY <1>1, <2>1, LinkedSound
    <2>2. CASE ~(s.parent[a] = NoAgent /\ p # NoAgent)
        BY <2>2
    <2> QED BY <2>1, <2>2
<1> HIDE DEF linked
<1>3. Sound(healed)
    BY <1>2, EventFields, SoundHasParents, BackfillIdentityCalm, CalmKeepsSound, FieldsSound
<1> HIDE DEF healed
<1>4. Sound(ResurrectInPlace(healed, a))
    BY <1>1, <1>3, SoundHasParents, ResurrectInPlaceCalm, CalmKeepsSound
<1>5. Sound(DropCorrelation(ResurrectInPlace(healed, a), {a}))
    BY <1>1, <1>4, SoundHasParents, DropCorrelationCalm, CalmKeepsSound
<1> QED BY <1>3, <1>5 DEF DuplicateStart, healed, linked

LEMMA HandleSound ==
    ASSUME NEW s, Sound(s), NEW e \in Event, NEW t \in Tool \cup {NoTool}, NEW b \in BOOLEAN
    PROVE  Sound(Handle(s, e, t, b))
<1>1. \A x : Sound(x) => Sound(StartSession(x, e))
    BY FirstStartSound, DuplicateStartSound DEF StartSession
<1>2. \A x : Sound(x) => /\ Sound(NewWork(x, e)) /\ Sound(CompleteTurn(x, e)) /\ Sound(Vouch(x, e))
                         /\ Sound(StartActivity(x, e)) /\ Sound(EndActivity(x, e, t))
                         /\ Sound(AwaitPermission(x, e)) /\ Sound(EndSession(x, e))
    BY SoundHasParents, CalmKeepsSound, SmallHandlersCalm, StartActivityCalm, EndActivityCalm,
       AwaitPermissionCalm, EndSessionCalm
<1>3. Sound([s EXCEPT !.quiet[e.id] = 0]) /\ Sound(Identify(s, e))
    BY EventFields, FieldsSound, IdentitySound
<1>4. e.kind \in Kinds
    BY DEF Event
<1> QED BY <1>1, <1>2, <1>3, <1>4 DEF Handle, Kinds

LEMMA ApplySound ==
    ASSUME NEW s, Sound(s), NEW e \in Event, NEW t \in Tool \cup {NoTool}
    PROVE  Sound(Apply(s, e, t))
<1>1. Sound(Met(s, e))
    <2>1. \A x : Sound(x) => Sound(BuryUnknown(x, e)) /\ Sound(RefreshLineage(x, e.id))
        BY EventFields, SoundHasParents, CalmKeepsSound, BuryUnknownCalm, RefreshLineageCalm
    <2> QED BY <2>1, PreambleSound, IdentitySound DEF Met
<1>2. \A x : Sound(x) => Sound(Process(x, e, t))
    <2>1. \A x : Sound(x) => /\ Sound(RecordHookTool(x, e)) /\ Sound(TrackActiveTasks(x, e))
                             /\ Sound(FirePendingB1(x))
        BY SoundHasParents, CalmKeepsSound, RecordHookToolCalm, TrackActiveTasksCalm,
           FirePendingB1Calm
    <2>2. \A x : DrainsTask(x, e) \in BOOLEAN
        BY DEF DrainsTask, ToolEnd
    <2> QED BY <2>1, <2>2, HandleSound DEF Process
<1>3. \A x : Sound(x) => Sound(ResumeDelegating(x, e, t))
    BY SoundHasParents, CalmKeepsSound, ResumeDelegatingCalm
<1> QED BY <1>1, <1>2, <1>3 DEF Apply

LEMMA TickSound ==
    ASSUME NEW s, Sound(s)
    PROVE  Sound(Tick(s)) /\ \A on : Sound(ReconcileConnected(s, on))
<1>1. \A x : Sound(x) => Sound(SweepStale(x))
    BY SoundHasParents, CascadesCalm, CalmKeepsSound DEF SweepStale, Stale
<1>2. \A x : Sound(x) => Sound(RetainOwned(x))
    BY SoundHasParents, DropCorrelationCalm, CalmKeepsSound DEF RetainOwned
<1>3. \A x : Sound(x) => Sound(FirePendingB1(x))
    BY SoundHasParents, FirePendingB1Calm, CalmKeepsSound
<1>4. \A on : Sound(ReconcileConnected(s, on))
    BY SoundHasParents, CascadesCalm, CalmKeepsSound DEF ReconcileConnected
<1> QED BY <1>1, <1>2, <1>3, <1>4, PreambleSound DEF Tick

LEMMA ElapsedSound ==
    ASSUME NEW s, Sound(s)
    PROVE  Sound(Elapsed(s))
<1>1. s \in State
    BY DEF Sound
<1>2. Elapsed(s).recent \in [Agent -> [Tool -> HookRecord]]
    BY <1>1, RecordsOpen DEF State, Elapsed
<1>3. Elapsed(s).drained \in [Agent -> [Tool -> Age(DrainTTL)]]
    BY <1>1, WindowsAreNat, AgesKept DEF State, Elapsed
<1>4. Elapsed(s).ledger \in [Agent -> LedgerEntry]
    BY <1>1, EntriesOpen DEF State, Elapsed
<1>5. /\ Elapsed(s).exiting \in [Agent -> Age(ExitGrace + 1)]
      /\ Elapsed(s).pending \in [Agent -> Age(ActiveGrace)]
      /\ Elapsed(s).tomb \in [Agent -> Age(Tombstone)]
      /\ Elapsed(s).vouch \in [Agent -> Age(VouchTTL)]
      /\ Elapsed(s).b1 \in [Agent -> Age(B1Grace)]
    BY <1>1, WindowsAreNat, AgesKept DEF State, Elapsed
<1>6. Elapsed(s).quiet \in [Agent -> Quiet]
    BY <1>1, QuietOpen DEF State, Elapsed
<1>7. Calm(s, Elapsed(s))
    BY <1>1, <1>2, <1>3, <1>4, <1>5, <1>6 DEF State, Elapsed, Calm
<1> QED BY <1>7, CalmKeepsSound
-----------------------------------------------------------------------------
(* The theorems.                                                           *)

\* The inductive invariant of Spec.
IInv == Sound(st) /\ connected \in SUBSET Source

LEMMA EmptySound ==
    ASSUME NEW n \in Nat
    PROVE  Sound(Empty(n))
<1>1. Empty(n) \in State
    BY WindowsAreNat, AgesOpen, QuietOpen, RecordsOpen, EntriesOpen DEF State, Empty, Desk
<1>2. Acyclic(Up(Empty(n)))
    BY NoLinksAcyclic DEF Empty, Up
<1> QED BY <1>1, <1>2 DEF Sound, Empty

LEMMA InitIInv == Init => IInv
    BY EmptySound, ReducerAssumption DEF Init, IInv

LEMMA DeliverIInv ==
    ASSUME IInv, NEW kind, Deliver(kind)
    PROVE  IInv'
<1>1. PICK e \in Events, first \in Tool \cup {NoTool} : st' = Apply(st, e, first)
    BY DEF Deliver
<1>2. e \in Event
    BY <1>1, ReducerAssumption
<1>3. Sound(st')
    BY <1>1, <1>2, ApplySound DEF IInv
<1>4. connected' = connected
    BY DEF Deliver
<1> QED BY <1>3, <1>4 DEF IInv, Sound, Up

LEMMA NextIInv == IInv /\ [Next]_vars => IInv'
<1> SUFFICES ASSUME IInv, [Next]_vars PROVE IInv'
    OBVIOUS
<1>1. CASE \/ SessionStart \/ ActivityStart \/ ActivityEnd \/ TurnComplete \/ Waiting
           \/ Rename \/ SessionEnd \/ ProofOfLife \/ Identity
    BY <1>1, DeliverIInv DEF SessionStart, ActivityStart, ActivityEnd, TurnComplete, Waiting,
       Rename, SessionEnd, ProofOfLife, Identity
<1>2. CASE SweepTick
    BY <1>2, TickSound DEF SweepTick, IInv
<1>3. CASE Resize
    <2>1. PICK n \in Nat : st' = [st EXCEPT !.cap = n] /\ connected' = connected
        BY <1>3, ReducerAssumption DEF Resize
    <2>2. Calm(st, st')
        BY <2>1 DEF IInv, Sound, State, Calm
    <2> QED BY <2>1, <2>2, CalmKeepsSound DEF IInv
<1>4. CASE Elapse
    BY <1>4, ElapsedSound DEF Elapse, IInv
<1>5. CASE UNCHANGED vars
    BY <1>5 DEF vars, IInv
<1> QED BY <1>1, <1>2, <1>3, <1>4, <1>5 DEF Next

LEMMA Invariance == Spec => []IInv
    BY InitIInv, NextIInv, PTL DEF Spec

\* The scene and the correlation maps keep the shape the code's types give
\* them, with every age inside its window, a desk exactly for the slots there
\* are, and no parent without a slot.
THEOREM TypeCorrect == Spec => []TypeOK
<1>1. IInv => TypeOK
    BY DEF IInv, Sound, TypeOK
<1> QED BY <1>1, Invariance, PTL

\* scope.rs: no order of starts, ends, adoptions from the ledger, sweeps and
\* walkouts ever closes a cycle of parent links.
THEOREM ParentsAcyclic == Spec => []NoParentCycle
<1>1. IInv => NoParentCycle
    BY DEF IInv, Sound, NoParentCycle
<1> QED BY <1>1, Invariance, PTL

\* next_free_desk: no two slots ever share a desk, for any number of agents
\* and any sequence of floor capacities.
THEOREM DesksNeverShared == Spec => []DesksExclusive
<1>1. IInv => DesksExclusive
    BY DEF IInv, Sound, DesksExclusive
<1> QED BY <1>1, Invariance, PTL
=============================================================================

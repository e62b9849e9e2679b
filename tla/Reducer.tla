------------------------------ MODULE Reducer ------------------------------
(***************************************************************************)
(* The event coordinator of pixtuoid-core (state/reducer/mod.rs) with the  *)
(* per-slot machine (state/fsm.rs), the parent scope (state/scope.rs), the *)
(* cross-event memory (state/correlation.rs), and the connection gate its  *)
(* only caller wraps round it (pixtuoid/src/runtime/gate.rs).              *)
(*                                                                         *)
(* One task owns the reducer, so the application of one event and one      *)
(* sweep tick are atomic.  What is not controlled is the order in which    *)
(* events of the two transports arrive, how late, how often, and what the  *)
(* clock does between them: Next lets every event of `Events` happen at    *)
(* every moment.                                                           *)
(*                                                                         *)
(* A timestamp is modelled by its age, which saturates once every window   *)
(* that reads it has passed; an unset Option<SystemTime> is Never.         *)
(***************************************************************************)
EXTENDS Lineage, Integers

CONSTANTS
    Tool, NoTool,        (* tool_use_ids, and the absent one                *)
    Source, Blank,       (* source names; Blank is the empty string         *)
    ShortIdle,           (* sources with SourceCaps::short_idle_reap()      *)
    HookSilent,          (* sources with delegations_are_hook_silent        *)
    Capacities,          (* the totals of floor_capacities that may be seen *)
    Connectable,         (* the connected-source sets a process may find    *)
    Events,              (* the decoded events this instance delivers       *)
    HookWins, Tombstone, LedgerTTL, DrainTTL, VouchTTL,
    ExitGrace, B1Grace, ActiveGrace,
    StaleUnknownCwd, StaleShortIdle, StaleActive, StaleIdle, StaleWaiting

Windows == {HookWins, Tombstone, LedgerTTL, DrainTTL, VouchTTL, ExitGrace,
            B1Grace, ActiveGrace, StaleUnknownCwd, StaleShortIdle,
            StaleActive, StaleIdle, StaleWaiting}

Kinds == {"SessionStart", "ActivityStart", "ActivityEnd", "TurnComplete", "Waiting",
          "Rename", "SessionEnd", "ProofOfLife", "Identity"}

\* Every AgentEvent, with the fields of its variant that steer the reducer;
\* a variant leaves the others at their defaults.
Event == [kind : Kinds, via : {"Hook", "Jsonl"}, id : Agent,
          parent : Agent \cup {NoAgent}, src : Source \cup {Blank}, cwd : BOOLEAN,
          tool : Tool \cup {NoTool}, task : BOOLEAN, child : BOOLEAN]

ASSUME ReducerAssumption ==
    /\ NoTool \notin Tool
    /\ Blank \notin Source
    /\ Windows \subseteq Nat \ {0}
    /\ Capacities \subseteq Nat /\ Capacities # {}
    /\ Connectable \subseteq SUBSET Source /\ Connectable # {}
    /\ Events \subseteq Event

\* reducer/mod.rs and correlation.rs: a walkout takes 9.5 s, the memory of an
\* ended child 90 s.
ASSUME LedgerOutlivesExit == ExitGrace < LedgerTTL

VARIABLES st,        (* SceneState and the reducer's own maps               *)
          connected  (* ConnectedSources: enabled when the process started   *)

vars == <<st, connected>>
-----------------------------------------------------------------------------
(* Ages.                                                                   *)

Never == -1

Fresh(age, ttl)          == 0 <= age /\ age < ttl
ElapsedAtLeast(age, ttl) == age >= ttl
ElapsedPast(age, ttl)    == age > ttl

Older(age, cap) == IF age = Never THEN Never ELSE IF age < cap THEN age + 1 ELSE cap

Keep(age, ttl) == IF Fresh(age, ttl) THEN age ELSE Never

\* The longest window that reads last_event_at.
QuietCap == CHOOSE w \in {StaleUnknownCwd, StaleShortIdle, StaleActive, StaleIdle, StaleWaiting} :
               \A v \in {StaleUnknownCwd, StaleShortIdle, StaleActive, StaleIdle, StaleWaiting} : v <= w

NoRecord == [kind |-> "None", age |-> 0]
NoEntry  == [known |-> FALSE, parent |-> NoAgent, ended |-> Never]
-----------------------------------------------------------------------------
(* The state: slots first, then the correlation maps.                      *)

Age(cap)    == {Never} \cup 0..cap
Quiet       == 0..(QuietCap + 1)                       \* last_event_at is never unset
Desk        == {Never} \cup Nat
HookRecord  == [kind : {"None", "Start", "End"}, age : 0..HookWins]
LedgerEntry == [known : BOOLEAN, parent : Agent \cup {NoAgent}, ended : Age(LedgerTTL)]

State ==
    [here    : SUBSET Agent,                           \* ids that have a slot
     parent  : [Agent -> Agent \cup {NoAgent}],
     act     : [Agent -> {"Idle", "Active", "Waiting"}],
     tool    : [Agent -> Tool \cup {NoTool}],          \* Active's tool_use_id
     task    : [Agent -> BOOLEAN],                     \* Active's kind is Task
     exiting : [Agent -> Age(ExitGrace + 1)],
     pending : [Agent -> Age(ActiveGrace)],
     quiet   : [Agent -> Quiet],                       \* age of last_event_at
     desk    : [Agent -> Desk],
     src     : [Agent -> Source \cup {Blank}],
     ghost   : [Agent -> BOOLEAN],                     \* unknown_cwd
     done    : SUBSET Agent,                           \* last_turn_completed
     cap     : Nat,                                    \* total_capacity()
     recent  : [Agent -> [Tool -> HookRecord]],
     tomb    : [Agent -> Age(Tombstone)],              \* recent_hook_session_ends
     tasks   : [Agent -> SUBSET Tool],                 \* active_tasks
     drained : [Agent -> [Tool -> Age(DrainTTL)]],
     ledger  : [Agent -> LedgerEntry],
     vouch   : [Agent -> Age(VouchTTL)],               \* recent_proof_of_life
     gate    : [Agent -> Tool \cup {NoTool}],          \* gated_before_waiting
     b1      : [Agent -> Age(B1Grace)]]                \* pending_b1_cascades

Up(s) == s.parent   \* NoAgent for an id without a slot, as Lineage wants

Empty(cap) ==
    [here    |-> {},
     parent  |-> [a \in Agent |-> NoAgent],
     act     |-> [a \in Agent |-> "Idle"],
     tool    |-> [a \in Agent |-> NoTool],
     task    |-> [a \in Agent |-> FALSE],
     exiting |-> [a \in Agent |-> Never],
     pending |-> [a \in Agent |-> Never],
     quiet   |-> [a \in Agent |-> 0],
     desk    |-> [a \in Agent |-> Never],
     src     |-> [a \in Agent |-> Blank],
     ghost   |-> [a \in Agent |-> FALSE],
     done    |-> {},
     cap     |-> cap,
     recent  |-> [a \in Agent |-> [t \in Tool |-> NoRecord]],
     tomb    |-> [a \in Agent |-> Never],
     tasks   |-> [a \in Agent |-> {}],
     drained |-> [a \in Agent |-> [t \in Tool |-> Never]],
     ledger  |-> [a \in Agent |-> NoEntry],
     vouch   |-> [a \in Agent |-> Never],
     gate    |-> [a \in Agent |-> NoTool],
     b1      |-> [a \in Agent |-> Never]]
-----------------------------------------------------------------------------
(* The per-slot machine (fsm.rs).  An agent without a slot is never passed.*)

EnterActive(s, a, tool, task) ==
    [s EXCEPT !.act[a] = "Active", !.tool[a] = tool, !.task[a] = task,
              !.quiet[a] = 0, !.pending[a] = Never]

\* No stamp of last_event_at: both callers have refreshed the lineage.
EnterDelegating(s, a, tool) ==
    [s EXCEPT !.act[a] = "Active", !.tool[a] = tool, !.task[a] = TRUE, !.pending[a] = Never]

EnterWaiting(s, a) ==
    [s EXCEPT !.act[a] = "Waiting", !.tool[a] = NoTool, !.task[a] = FALSE,
              !.quiet[a] = 0, !.pending[a] = Never]

ArmPendingIdle(s, a) == [s EXCEPT !.pending[a] = 0]

SettleToIdle(s, S) ==
    [s EXCEPT !.act     = [a \in Agent |-> IF a \in S THEN "Idle" ELSE s.act[a]],
              !.tool    = [a \in Agent |-> IF a \in S THEN NoTool ELSE s.tool[a]],
              !.task    = [a \in Agent |-> IF a \in S THEN FALSE ELSE s.task[a]],
              !.pending = [a \in Agent |-> IF a \in S THEN Never ELSE s.pending[a]]]

\* Write-once: a slot already walking out keeps its clock.
MarkExiting(s, S) ==
    [s EXCEPT !.exiting = [a \in Agent |->
        IF a \in S /\ a \in s.here /\ s.exiting[a] = Never THEN 0 ELSE s.exiting[a]]]

ResurrectInPlace(s, a) ==
    [s EXCEPT !.exiting[a] = Never, !.pending[a] = Never,
              !.act[a] = "Idle", !.tool[a] = NoTool, !.task[a] = FALSE]
-----------------------------------------------------------------------------
(* The scope (scope.rs), on the slots there are.                           *)

\* Mutant: the cascade stops at the children.
CascadeOneLevel(s, roots) == MarkExiting(s, roots \cup {a \in Agent : s.parent[a] \in roots})

CascadeWithRoot(s, roots) == MarkExiting(s, UNION {SubtreeOf(Up(s), r) : r \in roots})

CascadeBelow(s, roots) == MarkExiting(s, UNION {SubtreeOf(Up(s), r) \ {r} : r \in roots})

RefreshLineage(s, a) ==
    [s EXCEPT !.quiet = [x \in Agent |->
        IF x \in LineageOf(Up(s), a) /\ x \in s.here THEN 0 ELSE s.quiet[x]]]

\* Mutant: the walk does not seed its visited set with the start.
HasWaitingSelfOrAncestor(s, a) ==
    \E x \in LineageOf(Up(s), a) \cap s.here : s.act[x] = "Waiting"

HasWaitingAncestor(s, a) ==
    \E x \in AncestorsOf(Up(s), a) \cap s.here : s.act[x] = "Waiting"
-----------------------------------------------------------------------------
(* The preamble of every apply and tick: gc, sweep_exited and              *)
(* expire_pending_idles.                                                   *)

Gc(s) ==
    [s EXCEPT
      !.recent  = [a \in Agent |-> [t \in Tool |->
                     IF Fresh(s.recent[a][t].age, HookWins) THEN s.recent[a][t] ELSE NoRecord]],
      !.tomb    = [a \in Agent |-> Keep(s.tomb[a], Tombstone)],
      !.vouch   = [a \in Agent |-> Keep(s.vouch[a], VouchTTL)],
      !.drained = [a \in Agent |-> [t \in Tool |-> Keep(s.drained[a][t], DrainTTL)]],
      !.ledger  = [a \in Agent |->
                     IF s.ledger[a].ended = Never \/ Fresh(s.ledger[a].ended, LedgerTTL)
                     THEN s.ledger[a] ELSE NoEntry]]

\* The maps a departing slot owns; proof of life is not one of them.
DropCorrelation(s, S) ==
    [s EXCEPT !.tasks = [a \in Agent |-> IF a \in S THEN {} ELSE s.tasks[a]],
              !.gate  = [a \in Agent |-> IF a \in S THEN NoTool ELSE s.gate[a]],
              !.b1    = [a \in Agent |-> IF a \in S THEN Never ELSE s.b1[a]]]

DropVouch(s, S) ==
    [s EXCEPT !.vouch = [a \in Agent |-> IF a \in S THEN Never ELSE s.vouch[a]]]

\* The slots leave, whatever points at them as parent stays; a remembered
\* child starts its ledger clock unless its end already did.
RemoveSlots(s, S) ==
    LET d == DropVouch(DropCorrelation(s, S), S)
        cleared(f, default) == [a \in Agent |-> IF a \in S THEN default ELSE f[a]]
    IN [d EXCEPT
         !.here    = s.here \ S,
         !.done    = s.done \ S,
         !.parent  = cleared(s.parent, NoAgent),
         !.act     = cleared(s.act, "Idle"),
         !.tool    = cleared(s.tool, NoTool),
         !.task    = cleared(s.task, FALSE),
         !.exiting = cleared(s.exiting, Never),
         !.pending = cleared(s.pending, Never),
         !.quiet   = cleared(s.quiet, 0),
         !.desk    = cleared(s.desk, Never),
         !.src     = cleared(s.src, Blank),
         !.ghost   = cleared(s.ghost, FALSE),
         !.ledger  = [a \in Agent |->
                        IF a \in S /\ s.ledger[a].known /\ s.ledger[a].ended = Never
                        THEN [s.ledger[a] EXCEPT !.ended = 0] ELSE s.ledger[a]]]

SweepExited(s) == RemoveSlots(s, {a \in s.here : ElapsedPast(s.exiting[a], ExitGrace)})

ExpirePendingIdles(s) ==
    SettleToIdle(s, {a \in s.here : ElapsedAtLeast(s.pending[a], ActiveGrace)})

Preamble(s) == ExpirePendingIdles(SweepExited(Gc(s)))
-----------------------------------------------------------------------------
(* Registration and identity.                                              *)

\* Mutant: a desk is free as soon as its agent starts to walk out.
FreeDesksOfLeavers(s) ==
    {d \in 0..(s.cap - 1) : \A a \in s.here : s.exiting[a] # Never \/ s.desk[a] # d}

FreeDesks(s) == {d \in 0..(s.cap - 1) : \A a \in s.here : s.desk[a] # d}

LowestFreeDesk(s) == CHOOSE d \in FreeDesks(s) : \A c \in FreeDesks(s) : d <= c

\* register_slot: with every desk taken the session is dropped.
Register(s, a, src, cwd, parent) ==
    IF FreeDesks(s) = {} THEN s
    ELSE [s EXCEPT !.here = @ \cup {a}, !.parent[a] = parent, !.src[a] = src,
                   !.desk[a] = LowestFreeDesk(s),
                   !.ghost[a] = ~cwd /\ parent = NoAgent]

\* Established values are never overwritten.
BackfillIdentity(s, a, src, cwd) ==
    [s EXCEPT !.src[a]   = IF @ = Blank THEN src ELSE @,
              !.ghost[a] = @ /\ ~cwd]

Tombstoned(s, a)    == Fresh(s.tomb[a], Tombstone)
RecentlyEnded(s, a) == s.ledger[a].known /\ Fresh(s.ledger[a].ended, LedgerTTL)

\* Mutant: the revived child's ledger clock keeps running.
LinkKeepsEnded(s, a, parent) ==
    [s EXCEPT !.ledger[a].known = TRUE, !.ledger[a].parent = parent]

\* Applying a link revives the ledger entry of the child.
LinkAppliedParent(s, a, parent) ==
    [s EXCEPT !.ledger[a] = [known |-> TRUE, parent |-> parent, ended |-> Never]]

\* A hook SessionEnd for an id without a slot leaves a tombstone.
BuryUnknown(s, e) ==
    IF e.kind = "SessionEnd" /\ e.id \notin s.here THEN [s EXCEPT !.tomb[e.id] = 0] ELSE s

\* A hook event is proof of life: an unknown id is registered blank, and is
\* not an unknown-cwd ghost.
SynthesizeHookRegistration(s, e) ==
    IF \/ e.id \in s.here
       \/ e.kind \notin {"ActivityStart", "ActivityEnd", "Waiting"}
       \/ Tombstoned(s, e.id)
    THEN s
    ELSE [Register(s, e.id, Blank, FALSE, NoAgent) EXCEPT !.ghost[e.id] = FALSE]
-----------------------------------------------------------------------------
(* The pre-passes of apply: leak suppression, hook-wins dedup, Task        *)
(* tracking, deferred b1 cascades.                                         *)

ToolEnd(e)   == e.kind = "ActivityEnd" /\ e.tool # NoTool
ToolStart(e) == e.kind = "ActivityStart" /\ e.tool # NoTool

\* A tool event on the hook transport for an agent with a Task in flight is
\* a subagent's, misattributed to its parent, unless it ends a tracked Task.
LeakedFromSubagent(s, e) ==
    /\ s.tasks[e.id] # {}
    /\ \/ e.kind = "ActivityStart"
       \/ e.kind = "ActivityEnd" /\ e.tool \notin s.tasks[e.id]

\* Its one effect: a parent waiting on that subagent's prompt resumes
\* delegating.  A gate held by a tool of the parent's own keeps it waiting.
\* `first` is the element the tasks' HashSet iterator yields.
ResumeDelegating(s, e, first) ==
    IF /\ e.id \in s.here
       /\ s.act[e.id] = "Waiting"
       /\ s.gate[e.id] \in s.tasks[e.id] \cup {NoTool}
    THEN [EnterDelegating(s, e.id, first) EXCEPT !.gate[e.id] = NoTool]
    ELSE s

\* A recorded hook End drops both kinds of transcript copy, a recorded hook
\* Start only a Start.
HookWon(s, e) ==
    /\ ToolStart(e) \/ ToolEnd(e)
    /\ \/ s.recent[e.id][e.tool].kind = "End"
       \/ s.recent[e.id][e.tool].kind = "Start" /\ ToolStart(e)

\* Recorded only for a slot: the record of a refused registration would
\* outlive the refusal.
RecordHookTool(s, e) ==
    IF (ToolStart(e) \/ ToolEnd(e)) /\ e.id \in s.here
    THEN [s EXCEPT !.recent[e.id][e.tool] =
            [kind |-> IF ToolStart(e) THEN "Start" ELSE "End", age |-> 0]]
    ELSE s

DispatchesTask(e) == ToolStart(e) /\ e.task

DrainsTask(s, e) == ToolEnd(e) /\ e.tool \in s.tasks[e.id]

\* Mutant: the replayed dispatch of a finished Task shows Delegating again.
TrackDispatchForgetful(s, e) ==
    LET inserted == [s EXCEPT !.tasks[e.id] = @ \cup {e.tool}]
    IN IF e.tool \notin s.tasks[e.id] /\ e.id \in s.here
       THEN EnterDelegating(inserted, e.id, e.tool)
       ELSE inserted

\* A first insert shows Delegating, unless the Task is a remembered drain.
TrackDispatch(s, e) ==
    LET inserted == [s EXCEPT !.tasks[e.id] = @ \cup {e.tool}]
    IN IF /\ e.tool \notin s.tasks[e.id]
          /\ s.drained[e.id][e.tool] = Never
          /\ e.id \in s.here
       THEN EnterDelegating(inserted, e.id, e.tool)
       ELSE inserted

\* Mutant: every drain arms the idle debounce, in whatever state.
TrackDrainAlwaysArms(s, e) ==
    LET a       == e.id
        left    == s.tasks[a] \ {e.tool}
        removed == [s EXCEPT !.tasks[a] = left, !.drained[a][e.tool] = 0,
                             !.gate[a] = IF @ = e.tool THEN NoTool ELSE @]
    IN IF a \notin s.here THEN removed
       ELSE [removed EXCEPT !.quiet[a] = 0, !.pending[a] = 0,
                            !.b1[a] = IF left = {} THEN 0 ELSE @]

\* The last drain arms the deferred cascade, and the idle debounce only of an
\* Active slot: a waiting parent still has its prompt.
TrackDrain(s, e) ==
    LET a       == e.id
        left    == s.tasks[a] \ {e.tool}
        removed == [s EXCEPT !.tasks[a] = left, !.drained[a][e.tool] = 0,
                             !.gate[a] = IF @ = e.tool THEN NoTool ELSE @]
    IN IF a \notin s.here THEN removed
       ELSE [removed EXCEPT
               !.quiet[a]   = 0,
               !.b1[a]      = IF left = {} THEN 0 ELSE @,
               !.pending[a] = IF left = {} /\ s.act[a] = "Active" THEN 0 ELSE @]

TrackActiveTasks(s, e) ==
    IF DispatchesTask(e) THEN TrackDispatch(s, e)
    ELSE IF DrainsTask(s, e) THEN TrackDrain(s, e)
    ELSE s

\* A due cascade is discarded when a Task has been inserted meanwhile.
FirePendingB1(s) ==
    LET due == {a \in Agent : ElapsedAtLeast(s.b1[a], B1Grace)}
    IN CascadeBelow([s EXCEPT !.b1 = [a \in Agent |-> IF a \in due THEN Never ELSE s.b1[a]]],
                    {a \in due : s.tasks[a] = {}})
-----------------------------------------------------------------------------
(* The event handlers.                                                     *)

\* Mutant: only the tombstone stands in the way of an echo.
LateEchoLedgerless(s, e) == e.parent # NoAgent /\ e.id \notin s.here /\ Tombstoned(s, e.id)

\* Two gates against a dead child's late echo; then the ledger's parent is
\* adopted and a link that would close a cycle refused.
LateEcho(s, e) ==
    /\ e.parent # NoAgent
    /\ e.id \notin s.here
    /\ Tombstoned(s, e.id) \/ RecentlyEnded(s, e.id)

AdoptedParent(s, e) == IF e.parent # NoAgent THEN e.parent ELSE s.ledger[e.id].parent

AcceptedParent(s, e) ==
    LET p == AdoptedParent(s, e)
    IN IF /\ p # NoAgent
          /\ s.parent[e.id] = NoAgent       \* no slot, or a parentless one
          /\ WouldCreateCycle(Up(s), e.id, p)
       THEN NoAgent ELSE p

\* A start on a known slot: join the tree if parentless, heal the identity,
\* refresh liveness, and bring a root that is walking out back to life.
DuplicateStart(s, e) ==
    LET a == e.id
        p == AcceptedParent(s, e)
        linked == IF s.parent[a] = NoAgent /\ p # NoAgent
                  THEN LinkAppliedParent([s EXCEPT !.parent[a] = p], a, p) ELSE s
        healed == [BackfillIdentity(linked, a, e.src, e.cwd) EXCEPT !.quiet[a] = 0]
    IN IF healed.exiting[a] # Never /\ healed.parent[a] = NoAgent /\ p = NoAgent
       THEN DropCorrelation(ResurrectInPlace(healed, a), {a})
       ELSE healed

FirstStart(s, e) ==
    LET p == AcceptedParent(s, e)
        r == Register(s, e.id, e.src, e.cwd, p)
    IN IF e.id \in r.here /\ p # NoAgent THEN LinkAppliedParent(r, e.id, p) ELSE r

\* Mutant: a parented start joins the tree without asking for a slot.
StartSessionUnseated(s, e) ==
    IF LateEcho(s, e) THEN s
    ELSE IF e.id \in s.here \/ e.parent # NoAgent THEN DuplicateStart(s, e)
    ELSE FirstStart(s, e)

StartSession(s, e) ==
    IF LateEcho(s, e) THEN s
    ELSE IF e.id \in s.here THEN DuplicateStart(s, e)
    ELSE FirstStart(s, e)

StartActivity(s, e) ==
    IF DispatchesTask(e) THEN s
    ELSE LET g == [s EXCEPT !.gate[e.id] = NoTool]
         IN IF e.id \in s.here THEN EnterActive(g, e.id, e.tool, e.task) ELSE g

\* Mutant: the end of any tool resolves the prompt.
AnyToolResolvesWait(s, e) ==
    s.act[e.id] = "Waiting" /\ (e.tool # NoTool \/ e.via = "Hook")

\* A tool's end resolves a prompt only when it is the gated tool; a turn's
\* end (no tool id) only on the hook transport.
ResolvesWait(s, e) ==
    /\ s.act[e.id] = "Waiting"
    /\ IF e.tool # NoTool THEN s.gate[e.id] = e.tool ELSE e.via = "Hook"

EndActivity(s, e, first) ==
    LET a == e.id
        g == IF ResolvesWait(s, e) THEN [s EXCEPT !.gate[a] = NoTool] ELSE s
        ended == IF s.act[a] = "Active" \/ ResolvesWait(s, e)
                 THEN IF s.tasks[a] # {} THEN EnterDelegating(g, a, first)
                                         ELSE ArmPendingIdle(g, a)
                 ELSE g
    IN IF a \in s.here THEN [ended EXCEPT !.quiet[a] = 0] ELSE s

\* Remembers the tool the prompt interrupted.
AwaitPermission(s, e) ==
    IF e.id \notin s.here THEN s
    ELSE EnterWaiting([s EXCEPT !.gate[e.id] = IF s.act[e.id] = "Active" THEN s.tool[e.id] ELSE NoTool],
                      e.id)

EndSession(s, e) ==
    LET l == IF e.child THEN [s EXCEPT !.ledger[e.id] = [@ EXCEPT !.known = TRUE, !.ended = 0]] ELSE s
    IN CascadeWithRoot(l, {e.id})

Vouch(s, e) ==
    IF e.id \in s.here /\ s.exiting[e.id] = Never THEN [s EXCEPT !.vouch[e.id] = 0] ELSE s

Identify(s, e) ==
    IF e.via # "Hook" THEN s
    ELSE IF e.id \in s.here
         THEN [BackfillIdentity(s, e.id, e.src, e.cwd) EXCEPT !.ghost[e.id] = FALSE]
         ELSE IF Tombstoned(s, e.id) THEN s
         ELSE [Register(s, e.id, e.src, e.cwd, NoAgent) EXCEPT !.ghost[e.id] = FALSE]

\* Mutant: a completion is stamped for an id without a slot.
CompleteTurnAnyone(s, e) == [s EXCEPT !.done = @ \cup {e.id}]

\* The one-shot completion edge the renderer reads.
CompleteTurn(s, e) == IF e.id \in s.here THEN [s EXCEPT !.done = @ \cup {e.id}] ELSE s

NewWork(s, e) == [s EXCEPT !.done = @ \ {e.id}]

\* `tracked` says that Task tracking has already applied this end.
Handle(s, e, first, tracked) ==
    CASE e.kind = "SessionStart"  -> StartSession(NewWork(s, e), e)
      [] e.kind = "ActivityStart" -> StartActivity(NewWork(s, e), e)
      [] e.kind = "ActivityEnd"   -> IF tracked THEN s ELSE EndActivity(s, e, first)
      [] e.kind = "TurnComplete"  -> EndActivity(CompleteTurn(s, e), e, first)
      [] e.kind = "Waiting"       -> AwaitPermission(NewWork(s, e), e)
      [] e.kind = "Rename"        -> IF e.id \in s.here THEN [s EXCEPT !.quiet[e.id] = 0] ELSE s
      [] e.kind = "SessionEnd"    -> EndSession(s, e)
      [] e.kind = "ProofOfLife"   -> Vouch(s, e)
      [] e.kind = "Identity"      -> Identify(s, e)
-----------------------------------------------------------------------------
(* Reducer::apply: the order of the pre-passes is load-bearing.            *)

IsActivity(e) == e.kind \in {"ActivityStart", "ActivityEnd", "TurnComplete", "Waiting"}

\* What an event meets: expired state is gone, a hook has proved its session
\* alive, and liveness has flowed up.
Met(s0, e) ==
    LET s == Preamble(s0)
        h == IF e.via = "Hook" THEN SynthesizeHookRegistration(BuryUnknown(s, e), e) ELSE s
    IN IF IsActivity(e) THEN RefreshLineage(h, e.id) ELSE h

\* Mutant: due cascades fire before the dispatch that cancels them is tracked.
ProcessFiringFirst(s, e, first) ==
    LET recorded == IF e.via = "Hook" THEN RecordHookTool(s, e) ELSE s
        tracked  == TrackActiveTasks(FirePendingB1(recorded), e)
    IN Handle(tracked, e, first, DrainsTask(recorded, e))

\* An event that neither the leak suppression nor the dedup has dropped.
Process(s, e, first) ==
    LET recorded == IF e.via = "Hook" THEN RecordHookTool(s, e) ELSE s
        tracked  == TrackActiveTasks(recorded, e)
    IN Handle(FirePendingB1(tracked), e, first, DrainsTask(recorded, e))

Apply(s0, e, first) ==
    LET s == Met(s0, e)
    IN IF e.via = "Hook" /\ LeakedFromSubagent(s, e) THEN ResumeDelegating(s, e, first)
       ELSE IF e.via = "Jsonl" /\ HookWon(s, e) THEN s
       ELSE Process(s, e, first)
-----------------------------------------------------------------------------
(* Reducer::tick and reconcile_connected.                                  *)

StaleThreshold(s, a) ==
    CASE s.ghost[a] -> StaleUnknownCwd
      [] ~s.ghost[a] /\ s.act[a] = "Active" ->
            IF s.task[a] /\ s.src[a] \in HookSilent THEN StaleWaiting ELSE StaleActive
      [] ~s.ghost[a] /\ s.act[a] = "Idle" ->
            IF s.src[a] \in ShortIdle THEN StaleShortIdle ELSE StaleIdle
      [] ~s.ghost[a] /\ s.act[a] = "Waiting" -> StaleWaiting

\* Mutant: a prompt above does not hold the sweep back.
ExemptIfVouched(s, a) ==
    \/ Fresh(s.vouch[a], VouchTTL)
    \/ \E x \in AncestorsOf(Up(s), a) \cap s.here :
          Fresh(s.vouch[x], VouchTTL) /\ s.tasks[x] # {}

\* Not ready is not dead: a human gate above, a probe that vouches, or a
\* vouched ancestor that is delegating.
Exempt(s, a) ==
    \/ HasWaitingAncestor(s, a)
    \/ Fresh(s.vouch[a], VouchTTL)
    \/ \E x \in AncestorsOf(Up(s), a) \cap s.here :
          Fresh(s.vouch[x], VouchTTL) /\ s.tasks[x] # {}

Stale(s) == {a \in s.here : /\ s.exiting[a] = Never
                            /\ ~Exempt(s, a)
                            /\ s.quiet[a] > StaleThreshold(s, a)}

\* Mutant: a stale slot is removed on the spot.
SweepStaleAtOnce(s) == RemoveSlots(s, Stale(s))

SweepStale(s) == CascadeWithRoot(s, Stale(s))

RetainOwned(s) == DropCorrelation(s, Agent \ s.here)

Tick(s) == RetainOwned(SweepStale(FirePendingB1(Preamble(s))))

\* The complement of the connected set, so a blank source goes too.
ReconcileConnected(s, on) ==
    CascadeWithRoot(s, {a \in s.here : s.exiting[a] = Never /\ s.src[a] \notin on})
-----------------------------------------------------------------------------
(* The steps of the reducer task.                                          *)

\* Mutant: the gate is left to the sweep.
AdmittedAlways(s, e, on) == TRUE

\* event_source and apply_gated_event: an event whose source is resolved and
\* not connected is dropped before it reaches the reducer.
Admitted(s, e, on) ==
    IF e.kind \in {"SessionStart", "Identity"} /\ e.src # Blank THEN e.src \in on
    ELSE e.id \in s.here => s.src[e.id] \in on

\* The element a HashSet iterator may yield first.
FirstOf(T, t) == IF T = {} THEN t = NoTool ELSE t \in T

Deliver(kind) ==
    /\ \E e \in {x \in Events : x.kind = kind} :
          /\ Admitted(st, e, connected)
          /\ \E first \in Tool \cup {NoTool} :
                /\ FirstOf(Preamble(st).tasks[e.id], first)
                /\ st' = Apply(st, e, first)
    /\ UNCHANGED connected

SessionStart  == Deliver("SessionStart")
ActivityStart == Deliver("ActivityStart")
ActivityEnd   == Deliver("ActivityEnd")
TurnComplete  == Deliver("TurnComplete")
Waiting       == Deliver("Waiting")
Rename        == Deliver("Rename")
SessionEnd    == Deliver("SessionEnd")
ProofOfLife   == Deliver("ProofOfLife")
Identity      == Deliver("Identity")

\* reconcile_sweep_tick, on the 1 Hz interval.
SweepTick ==
    /\ st' = Tick(ReconcileConnected(st, connected))
    /\ UNCHANGED connected

\* The renderer's layout publishes new floor capacities.
Resize ==
    /\ \E n \in Capacities : st' = [st EXCEPT !.cap = n]
    /\ UNCHANGED connected

Elapsed(s) ==
    [s EXCEPT
      !.exiting = [a \in Agent |-> Older(s.exiting[a], ExitGrace + 1)],
      !.pending = [a \in Agent |-> Older(s.pending[a], ActiveGrace)],
      !.quiet   = [a \in Agent |-> IF a \in s.here THEN Older(s.quiet[a], QuietCap + 1) ELSE 0],
      !.recent  = [a \in Agent |-> [t \in Tool |->
                     IF s.recent[a][t] = NoRecord THEN NoRecord
                     ELSE [s.recent[a][t] EXCEPT !.age = Older(@, HookWins)]]],
      !.tomb    = [a \in Agent |-> Older(s.tomb[a], Tombstone)],
      !.drained = [a \in Agent |-> [t \in Tool |-> Older(s.drained[a][t], DrainTTL)]],
      !.ledger  = [a \in Agent |-> [s.ledger[a] EXCEPT !.ended = Older(@, LedgerTTL)]],
      !.vouch   = [a \in Agent |-> Older(s.vouch[a], VouchTTL)],
      !.b1      = [a \in Agent |-> Older(s.b1[a], B1Grace)]]

Elapse == st' = Elapsed(st) /\ UNCHANGED connected

Init ==
    /\ \E n \in Capacities : st = Empty(n)
    /\ connected \in Connectable

Next ==
    \/ SessionStart \/ ActivityStart \/ ActivityEnd \/ TurnComplete \/ Waiting
    \/ Rename \/ SessionEnd \/ ProofOfLife \/ Identity
    \/ SweepTick \/ Resize \/ Elapse

Spec == Init /\ [][Next]_vars
=============================================================================

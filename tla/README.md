# TLA+ models of maple-agent-market

maple-agent-market (crates `pixtuoid-core`, `pixtuoid`, `pixtuoid-scene`,
`pixtuoid-hook`) watches coding agents that run on the same machine and draws
each as a sprite in an office.  What it knows of them arrives over channels
that it does not control: hook processes that each write one line into a
socket, transcripts that are tailed, process exits, and the gateway of a
long-running daemon.  Most of what follows is about the code that turns these
late, doubled, reordered and missing signals into one scene: who is on stage,
at which desk, doing what, whose child, and when they leave.  The rest is about
the files the program shares: the configurations of other programs that it
puts its hooks into, and the catalogue of characters a user imports.

Paths are relative to `src/crates/`.  `PROJECT.json` maps each definition of
the modules to the lines it translates.

## 1. Inventory

| component | state | operations | talks to |
|---|---|---|---|
| **Reducer** `pixtuoid-core/src/state/reducer/mod.rs`, `correlation.rs` | eight correlation maps: recent hook tools, end tombstones, active Tasks, drained Tasks, child ledger, vouches, prompt gates, armed cascades; completion edges | `apply` (nine kinds of event), `tick`, `reconcile_connected` | owned by the reducer task; writes the scene |
| **Slot machine** `state/fsm.rs` | activity, pending idle, exiting, clocks of one slot | enter active / delegating / waiting, settle, mark exiting, resurrect | called by the reducer only |
| **Parent scope** `state/scope.rs` | none (walks `parent_id`) | cascade an exit down, refresh a lineage up, ancestor queries, link check | reducer |
| **Scene** `state/mod.rs` | slots, desks, floor capacities, mascots | desk search | cloned to the renderer after every change |
| **Gate and tick** `pixtuoid/src/runtime/gate.rs` | the connected set, fixed at launch | gate an event, gate a presence delta, 1 Hz tick | wraps the reducer |
| **Reducer task** `pixtuoid/src/runtime/driver.rs` | the `select!` loop | one branch at a time: event, presence delta, tick; reads capacities first | event channel, presence channel, renderer |
| **Exit watch** `source/exit_watch.rs` | locked queue, `closed`, self-pipe, pidfds | `watch`, thread, `Drop` | hook pid watch, presence, transcript watcher |
| **Daemon presence** `source/daemon.rs`, `daemon/native.rs`, `openclaw.rs` | mascot per gateway, pid bindings | deltas, TTL sweep, note/arm, drain | presence channel, exit watch, reducer task |
| **Hook listener, router** `source/hook/{mod,router}.rs` | connections with a time budget, the tee, bounded channels | accept, decode, bind, send, tee un-claims | event and presence channels, watcher |
| **Hook pid watch** `source/hook/pid_watch.rs` | pid to agents | note, take on exit, send the ends | exit watch, event channel |
| **Transcript watcher** `source/jsonl/*` | cursors, first-sight claims, admission set, probe ladder, pending un-claims | seed, rescan, notify, poll, exit, un-claim, walk | event channel, exit watch, probes |
| **Installer** `pixtuoid/src/install/*` | other programs' configurations, their backups and artifacts | a locked round: merge in, merge out | connect and disconnect |
| **Source commands, configuration** `sources.rs`, `cli.rs`, `config/mod.rs` | the flags in `config.toml` | connect, disconnect, setup, sources set | installer |
| **Character catalogue** `floating/window.rs`, `config/mod.rs`, `tools/*.ps1`, `tools/*.psm1` | catalogue file, source folders, pack, choices in `config.toml`, the panel's armed row | toggle, arm, import, remove, finish; the helper process's steps | helper process, pack loader |
| **Decoders** `source/*.rs` | little or none | foreign line to `AgentEvent`s | listener, watcher |
| **Shim** `pixtuoid-hook` | none | one line per hook | listener |
| **Layout, motion, painting, audio, event loop of the window** `pixtuoid-scene`, `pixtuoid/src/floating` | animation | per frame | read the scene; publish capacities |

**What is hard.**  Two transports tell the same story in any order, with any
lag, hook against transcript; the reducer dedups by short windows, and every
window is a boundary.  A Task's drain, a deferred cascade and a permission
prompt overlap on one agent.  A child's end may precede its start.  Slots leave
in two phases and may come back in between.  Silence must evict the dead
without evicting those who wait, and no exemption may feed itself.  Desks are
handed out under a capacity that the renderer changes.  The exit watch is a
lock-free hand-shake over a pipe.  A gateway is replaced while envelopes and
exit receipts of its predecessor are still under way; an agent is bound to a
process while that process's exit is being drained.  The watcher reads files
that are written, truncated and deleted under it, judges liveness by a probe
that may fail, and hears of ends on a side channel.  A source is connected by
two writes to two files with nothing but order and rollback between them.  Four
copies of the catalogue may disagree, and everything that points into it is a
position.

**What makes each component correct.**

* Reducer: a prompt stays until its own tool ends; a finished Task cannot be
  replayed; a dead child stays gone; no correlation outlives its slot; every
  walkout has a cause; once events stop, everybody leaves.
* Scope: links never close a cycle; an exit takes the whole subtree.
* Scene: nobody shares a desk, changes desk or vanishes unseen.
* Gate: strangers do not settle.
* Exit watch: only the dead are reported, once per hand-over; a pid is dropped
  only with its report or where it cannot be opened; no wakeup is lost; `Drop`
  ends the thread.
* Presence: a bound mascot hears of its process's death; a replacement does not
  die its predecessor's death; a lost end of a run keeps nobody busy; the stage
  empties.
* Listener and pid watch: an agent bound to a process is watched or is about to
  be ended, whatever the order of note, report and take; every agent of a dead
  process is sent its end; a connection's slot comes back whatever its client
  and the reducer do.
* Watcher: a session is ended only for a cause, does not reappear without one,
  is ended once no process holds it and is brought in once one does; every byte
  of a live session is read, or passed over as too large a backlog.
* Installer and source commands: no file is ever torn; what the user had is
  recoverable while our hooks are in; no save loses another's flag; what is told
  is true; a flag without hooks behind it is not left behind.
* Catalogue: the character removed is the one confirmed; choices stay with their
  characters; after a failed step the user can try again.

`PROJECT.json` lists the hazards behind these, each at its line.

## 2. Modules

```
Lineage <-- Reducer <-- ReducerProperties <-- MCReducer <-- MCLifecycle
   ^           ^            (Occupancy!)          ^  ^----- MCFamily
   |           |                 ^                |-------- MCReplay
   |           |                 |                `-------- MCDeparture
   `---- ReducerProofs <------ OccupancyProofs

ExitReports  <== implemented by ==  ExitWatch  (ExitWatchProofs)
     ^
     +-- the environment of --  Presence    (PresenceProofs)
     +-- the environment of --  HookPlane   (HookPlaneProofs)   <-- MCHookPlane
     +-- the environment of --  Transcript  (TranscriptProofs)  <-- MCTranscript
                                    |
                                    v
                                ProbeLadder

Sources (SourcesProofs) <-- MCSources     Catalog (CatalogProofs) <-- MCCatalog
```

An arrow points to what a module extends.  `INSTANCE` is used for the abstract
specifications (`Occupancy`, `ExitReports`).

**Lineage** -- `scope.rs`.  A walk along links is the least set closed under
them: the code's visited sets and queues are how it computes that set.
`LineageOf`, `SubtreeOf`, `AncestorsOf` and `WouldCreateCycle` are its walks.

**Reducer** -- `reducer/mod.rs`, `fsm.rs`, `correlation.rs`, `gate.rs`, and the
loop of `driver.rs`.  `st` is a record with one field per slot attribute and per
correlation map.  An event is applied in one step, for one task owns the
reducer: `Apply` runs the pre-passes in the code's order (`Preamble`, leak
suppression, hook-wins, Task tracking, due cascades) and then the handler.  The
nine event kinds, `SweepTick`, `Resize` and `Elapse` are the actions.

* *Time.*  A timestamp is modelled by its age, which saturates once every window
  reading it has passed; `Elapse` ages everything by one.  The order of strict
  and non-strict comparisons (`Fresh`, `ElapsedAtLeast`, `ElapsedPast`) is the
  code's.  A clock that runs backwards is not modelled.
* *Transports.*  No queue is modelled: any event of `Events` may be delivered at
  any moment, which covers every loss, duplication, reordering and delay between
  and within the transports.  Where that is more than the transports can do and
  the claim needs less, `MCReplay` restricts it (below).
* *Desks.*  `next_free_desk` takes the lowest free desk over the floors
  concatenated; `cap` is the total and `Resize` changes it.
* *Iteration order.*  Where the code takes the first element of a hash set, the
  element is chosen nondeterministically (`FirstOf`).
* *Left out* of the slot: labels, tool call counts, active time, session id,
  pid, floor index, `ModelInfo` and `Usage`.  Nothing above reads them.

**Occupancy** -- the office a viewer may rely on: seats are taken one by one,
nobody moves or shares, and a sprite leaves its desk only after it has been seen
walking out.  `KeepsOffice` says that the reducer implements it.

**ExitWatch** -- `exit_watch.rs` on Linux, one step per system call, critical
section, or load or store of `closed`; `pc` names the thread's next step.
Callers inside `watch()` are in the middle of it for as long as they like.  The
queue is a bag; the order in which a batch is registered is free.  The kqueue
backend is not modelled (it has no separate drain, so the race the code
comments on cannot occur), nor is the reuse of pids.

**ExitReports** -- what exit detection promises: only the dead are reported;
a pid handed over is owed a report until it is reported, refused, or the whole
detection stops.  Presence, HookPlane and Transcript run on top of it, with
refusals and stops at any time.  `KeepsReports` says that ExitWatch implements it
(`Reports!Spec`), and what a user may not see but the thread owes: while it runs a
pid is dropped only in the step that reports it or where `pidfd_open` fails of a
process that is still there (`NoneForgotten`), and it stops only when told to, when
nobody listens, or when poll(2) or the kernel fails it (`StopsForCause`).

**Presence** -- `daemon.rs`, `daemon/native.rs`, `openclaw.rs`, the presence
halves of `gate.rs` and `driver.rs`, and `handle_conn`'s demultiplexer.
`Receive` and `Send` are a connection task (an envelope decodes to one or two
deltas, put on the channel one at a time), `Merge`, `Note`, `Arm` and `Sweep`
the reducer task, `Take` and `Forward` the drain task, `Start` and `Die` the
gateways.  `Note` and `Arm` are the two halves of `PresenceExitWatch::watch`;
the drain may run between them, the reducer task does nothing else meanwhile.
An envelope of a process may arrive long after its death, any number of times.
The session count, which scales a speech bubble, and the enter time are left
out.  A failing watch needs no action: no report is owed to anybody.
The connected set is fixed at launch, in the code as here, so a disconnected
source never has a mascot and `MarkDown` finds nothing to do; the run connects it.

**HookPlane** -- `hook/mod.rs`, `pid_watch.rs`, `router.rs`.  `conn` says where
each connection's future stands: free, reading, between the two halves of
`HookPidWatch::note` (`Bind`, then `WatchPid`), or sending what its payload
decoded to, one event at a time into the tee's bounded channel.  `Cut` is
`CONN_TIMEOUT`, which drops the future wherever it waits, and there only.  The
tee (`TeeTake`, `TeeForward`) holds one event while the reducer's channel is
full; the drain (`ReceiveExit`, `Take`, `SendEnd`) sends the ends of a dead
process's agents straight into that channel.  `view` is what the reducer makes
of it all, reduced to known, shown and ended.  The reducer may stop reading.

**ProbeLadder** -- `jsonl/liveness.rs`: which sessions were vouched, since when
one is missing, and which process each is bound to.  A ladder is a record and
its operations (`Fold` of a healthy snapshot, `PidDied`, `Older`) map ladders to
ladders, so that they are proved about on their own.

**Transcript** -- the watcher, `jsonl/mod.rs`, `walk.rs`, `unclaim.rs`.  It is
one task: an arm of its loop (`Seed`, `Rescan`, `Poll`, `Notify`, `Exited`) plans
steps into `todo`, and the steps are taken one by one while agents write,
truncate, delete, open and close their transcripts and die.  The outcomes of
`walk_jsonl` are disjuncts of `Walk`: vanished, parked at first sight,
truncated, nothing complete yet, too far behind (`Skip`), read.  A file is a
sequence of line kinds and possibly an unfinished line; a position counts half
lines, so that the middle of a line is a position too.  `owner`, `unseen` and
`cause` are history: with whom a session was last seen, how long ago the first of
the healthy probes was that found nobody holding it since one found somebody, and
what could bring its agent back.

**Sources** -- `sources.rs`, `cli.rs`, `install/*`, and the load and save of
flags in `config/mod.rs`.  Each command is a process: it plans, takes up an
item, and runs rounds (`stage`: flag, install or uninstall, restore) of which
each is lock, read, artifacts, backup, create, fill, rename, remove the backup,
release (`pc`).  Any step that touches a file may fail, and a process may be
killed between any two.  A merge is modelled by what it makes of a
configuration: ours in, ours out, or nothing to do.

**Catalog** -- the character panel of `floating/window.rs`, the choices in
`config/mod.rs`, and the helper (`tools/Import-MapleAtelierCharacter.ps1`,
`MapleSkinWorkshop.psm1`), one step per change of the disk: read, move the
source aside, save the catalogue, build the pack, swap it by two renames, and
the way back when a step throws.  The four copies of the list are `list` (the
file), `pack` (built from it), `app.pack` (loaded) and `meant` (what the user
saw when they clicked).

**MC modules** hold the instances' alphabets.  `MCLifecycle` picks who takes
part, `MCFamily` which question is asked of a seated parent and child, so that
one run covers instances that have little to do with each other.  `MCReplay`
adds a history so that every event arrives once, a transcript keeps its own
order and nothing ends before it started: the restriction under which the
late-end finding is a fault of the code and not of the transport.
`MCDeparture` adds the scheduling.

## 3. Runs

Windows are one to three ticks.  Ages saturate just past the largest window
that reads them, so what matters is which windows are shorter than which; the
runs keep the code's relations where a property depends on them (the ledger
outlives the tombstone and the walk-out, a Waiting slot outlives an Active one).

| run | instance | shows |
|---|---|---|
| `lifecycle` | any two of three agents with starts, ends of roots and children, bare activity and echoes of lives that are over, one or two desks; or all three, linked in every direction | `TypeOK`, `NoParentCycle`, `DesksExclusive`, `LedgerKnowsLiveLinks`; `DeadChildStaysGone`, `EndTakesSubtree`, `KeepsOffice` |
| `family` | a seated parent and child: two Tasks, each on both transports, with a prompt; or prompts among a Task and a parallel tool and a turn's end; or prompts, vouches and silence under thresholds that differ by state | `CorrelationOwned`; `TimerSparesTheBusy`, `ReplayKeepsPrompt`, `DispatchSparesSubtree`, `PromptOutlivesParallelEnds`, `ExitHasCause` |
| `departure` | five events of any kind that prolongs a stay, then silence; or hooks of two sources, any subset connected, that never stop | `EveryoneLeaves`, `StrangersLeave` |
| `watch` | two processes, two callers, three calls, every fault, `Drop` | `OneExitPerWatch`, `KeepsReports`, `ExitsAreReported`, `DropStopsThread` |
| `presence` | one port, two incarnations of its gateway, one connection, sessions that go on for ever, two other envelopes, each with a pid or without | `BoundIsWatched`, `ReplacementSurvives`, `BusyEnds`, `StageEmpties` |
| `hookplane` | two connections, two agents of one process, one announced and one first met at work, a child ended by name; channels of one; the reducer may stall | `TypeOK`, `BoundIsWatched`, `DeadAreEnded`, `SlotsComeBack` |
| `transcript` | one transcript, two processes, the vocabularies of Claude Code and Codex, two moves of the world at any moment, failing probes, a watch that refuses or stops | `EndHasCause`, `NoGhost` |
| `catchup` | the same under fairness, one move | `DeadIsEnded`, `LiveComesBack`, `EverythingIsRead` |
| `sources` | two commands over a source with hooks and one with a flag only: on different sources, on one, for and against each other, as choices and as an exact set; an older hook version; two faults | `TypeOK`, `RecoveryPath`, `NoHollowConnection`, `OnlyOwnFlag`, `OutcomesAreTrue` |
| `catalog` | one built-in look, none or two imported ones, one map, a restart, a toggle, two faults | `RemovesTheConfirmed`, `ChoicesFollowCharacters`, `SafeToRetry` |
| `late_end`, `abrupt_exit` | smallest instance that shows it | findings, section 6 |

*What the deeper ones say.*  `TimerSparesTheBusy`: no step leaves the idle
debounce running under a prompt whose tool has not ended, or arms it of an agent
with a Task in flight.  `DispatchSparesSubtree`: the apply that carries a Task's
dispatch does not fire the dispatcher's own deferred cascade; one of an agent
higher up may still fire.  `ExitHasCause`: nobody walks out but by an end, a
silence that nothing excuses, or a disconnection, of their own or of someone above
(who may be gone already: its end still reaches the children that point at it), or
because someone above has long seen its last Task done.
`EndHasCause`: the watcher ends a session of its own accord only if the process
it was *last* seen with has exited, or if every healthy probe since one that is at
least a span old, that one included, found nobody holding it; section 6 says what
this is not.
`KeepsReports`: a pid handed over is owed a report until it gets one; a drain, a
batch or a report that loses another pid on the way violates it.
`NoGhost`: an agent reappears because bytes were written since it was last
ended, released or passed over, or because the probe has vouched for it since,
but never on the vouch alone once its turn has ended.  `LiveComesBack`: a session
that is held for good is registered for good, whatever hid it.
`OutcomesAreTrue`: "connected", "disconnected", "hooks left" and "failed" each
hold of flag, hooks and artifacts at the moment they are told, unless another
command was working on the same source.

*Why the bounds are enough.*  The reducer's rules relate an agent to its
ancestors and to its own maps: a pair exercises each, a triple is the shortest
chain with a middle that can be exiting, removed or re-linked; the theorems of
section 5 remove the bounds, of agents, tools and windows, for every reducer
property but the two of `departure`.
Two Tasks are the fewest for which "the last one drained" differs from "one
drained".  In `watch` two pids make one process's exit share a wake with
another's registration, and three calls allow a duplicate beside a second pid.
In `presence` two incarnations are a predecessor and a replacement; a channel of
length one loses no interleaving of interest because connection and drain tasks
hold what they have yet to send; the theorems remove the bounds for
`BoundIsWatched` and `ReplacementSurvives`.  In `hookplane` two connections race
each other and the drain for one binding, and a channel of one is full as soon as one event is under way;
more processes only multiply registries that share nothing but the drain, and
the theorem covers any number.  In `transcript` every initial file of one line,
every probe result and every holder is tried, so two moves reach what takes four
or five from an empty root: the hazards are between a walk and a single write,
or a single exit; what is between two probes of a session that is dropped and
reopened they never see, and the theorem covers.  A window of two lines and a head of one are less than a file
of two lines and a cut one.  The theorems remove the bounds, of files, lines, sessions
and moves, for `EndHasCause` and `NoGhost`.  In `sources` two commands are the fewest that cross,
and two faults the fewest for which a rollback fails after what it rolls back;
the theorems cover all its properties, for any number of either.
In `catalog` two faults let a step fail and its undoing fail; the theorems cover
catalogues of any length and any number of faults and restarts.  Agents are
interchangeable in `lifecycle`, which has no liveness property, so symmetry is
sound there.

`CHECK_DEADLOCK FALSE` is used where the system may stop: the exit watch
has ended; gateways are dead and no envelope is left; the commands are over; the
window is closed and no restart is left.

## 4. Fairness

* `MCDeparture`: the clock and the 1 Hz interval never stop
  (`tokio::time::interval`, missed ticks skipped, a `select!` that picks at
  random among ready branches).  No event is owed.  As both are always enabled,
  weak fairness is stated of the variable `turn`, which says the same and spares
  TLC unfolding ENABLED.
* `ExitWatch`: weak fairness of the thread, of a caller inside `watch()` and of
  the second half of `Drop`; strong fairness of `Poll`, because a signal may
  interrupt poll(2) again and again but not for ever.  Nobody has to exit, to be
  watched, or to be dropped.
* `Presence`: the clock and the interval never stop, and `watch()` returns (strong
  fairness where the reducer task's being inside `watch()` holds the interval up
  for a moment).  It is stated of `turn`, as in `MCDeparture`, and for a second
  reason: fairness of `Sweep` over all variables would force a sweep *that
  changes something*, which an interval does not promise.  Nothing else is owed:
  no event, death, restart or report, and no connection or drain task has to get
  on.  `BusyEnds` and `StageEmpties` thus rest on the sweep alone and hold with
  exit detection off.
* `HookPlane`: the tasks run (weak fairness of `Task` as a whole, for a runtime
  that never leaves every runnable task alone).  `Cut` is strongly fair per
  connection: the budget is a deadline of the whole connection, so one that waits
  again and again is cut off at one of its waits.  A report that is the last one
  owed is strongly fair: a dead process's hooks may hand its pid over again, but
  not for ever.  No client has to send, finish a line or hang up, no process has
  to die, and a stalled reducer never has to resume (`DeadAreEnded` is claimed
  while it reads, `SlotsComeBack` also when it does not).
* `Transcript`: weak fairness of the step at the head of `todo` and of the two
  start-up passes; the poll interval ticks; `Poll` is strongly fair, since another
  arm may run whenever it is due; a probe that is tried again and again succeeds
  again and again.  No notice has to arrive, no process to exit, no report to come.
* `Sources`, `Catalog`: none.  They claim safety only: a user need not try again.

## 5. Proofs

Checked by TLAPS for every value of the constants that satisfies the named
assumptions of the modules; TLC evaluates those assumptions in the runs.

| module | theorem | says |
|---|---|---|
| `ReducerProofs` | `TypeCorrect`, `ParentsAcyclic`, `DesksNeverShared` | `Spec => []TypeOK`, `[]NoParentCycle`, `[]DesksExclusive` |
| `OccupancyProofs` | `CorrelationIsOwned`, `LedgerHoldsLinks` | `Spec => []CorrelationOwned`, `[]LedgerKnowsLiveLinks` |
| | `OfficeRefined` | `Spec => KeepsOffice`: the reducer implements Occupancy |
| | `DeadStayGone`, `EndsTakeSubtrees` | `Spec => DeadChildStaysGone`, `EndTakesSubtree` |
| | `DispatchSpares`, `ExitsHaveCauses` | `Spec => DispatchSparesSubtree`, `ExitHasCause` |
| | `TimersSpareTheBusy` | `Spec => TimerSparesTheBusy` |
| | `ReplaysKeepPrompts`, `PromptsOutliveParallelEnds` | `Spec => ReplayKeepsPrompt`, `PromptOutlivesParallelEnds` |
| `ExitWatchProofs` | `ReportsKept` | `Spec => KeepsReports`: the exit watch implements ExitReports, forgets no pid and stops only for a cause |
| | `ExitsAreBudgeted` | `Spec => []OneExitPerWatch`: no second exit for one watch |
| `PresenceProofs` | `MascotsAreWatched`, `ReplacementsSurvive` | `Spec => []BoundIsWatched`, `ReplacementSurvives` of Presence |
| `HookPlaneProofs` | `HookTypes`, `BindingsAreWatched` | `Spec => []TypeOK`, `[]BoundIsWatched` of HookPlane |
| `TranscriptProofs` | `EndsHaveCauses` | `Spec => EndHasCause` |
| | `GhostsHaveCauses` | `Spec => NoGhost` |
| | `LadderStaysConsistent` | `Spec => []Consistent(ladder)`, from `EmptyIsConsistent`, `FoldIsConsistent`, `ExitIsConsistent`, `TickIsConsistent` of its operations |
| `SourcesProofs` | `WholeFiles`, `Recoverable`, `NoLostSave` | `Spec => []TypeOK`, `[]RecoveryPath`, `OnlyOwnFlag` of Sources |
| | `TruthTold`, `FlagsAreBacked` | `Spec => OutcomesAreTrue`, `[]NoHollowConnection` of Sources |
| `CatalogProofs` | `CatalogTypes` | `Spec => []TypeOK` of CatalogProofs |
| | `RemovalTakesTheConfirmed`, `ChoicesStayWithCharacters` | `Spec => []RemovesTheConfirmed`, `[]ChoicesFollowCharacters` |
| | `FailuresCanBeRetried` | `Spec /\ []OneHelper => []SafeToRetry` |

*Reducer.*  None of its three theorems is inductive alone.  An application of an
event is a composition of a dozen operators, each of which reads fields another
one writes; desks stay exclusive only if a desk exists exactly for the slots
there are, and links stay acyclic only if an id without a slot has no parent,
since a walk stops there.  `IInv` is therefore `Sound(st)` (the state's type,
desks exactly for slots, no parent without a slot, acyclic links, exclusive
desks) together with `connected \subseteq Source`.  Operators fall into
three classes, proved once each: those that leave slots, desks and links alone
(`Calm`), those that remove slots (`sweep_exited`; `ForgetKeepsAcyclic`), and
those that register a slot or set a link (`LinkKeepsAcyclic`, through the
guard `WouldCreateCycle`, also for a parent adopted from the ledger).  `Preamble`,
`Apply` and `Tick` are then chains of such operators.  The module opens with the
graph lemmas of Lineage.  Acyclicity is stated as "every nonempty set of agents has a member
whose parent is outside it", which needs neither recursion nor finiteness.  The
choice of the lowest free desk rests on the library's theorem that a nonempty set
of naturals has a least member.

*Occupancy, ledger, maps.*  `Kept` adds to `Sound` that a departed slot leaves
nothing behind (`Gone`), that the ledger remembers linked slots (`Remembers`), and
that the ledger's clock of a linked slot does not run ahead of the slot's own
walk-out (`Timed`).  The last is why the ledger cannot forget a child before the
sweep has removed it, given that it keeps an entry longer than a walk-out lasts:
the assumption `LedgerOutlivesExit`, 90 s against 9.5 s in the code.  For the
refinement each step of the reducer is shown to be a sequence of what Occupancy
allows in one step: newcomers take free seats and are not walking out, a
newcomer that a hook conjured is a root, so the cascades that run later in the
same `apply` cannot reach it, and only those who have walked out long enough
are removed.

*What a step of the reducer may never do.*  An action property speaks of `st` and
the outcome of an `apply`, between which lie a dozen operators; each operator is
classified once by what it does to the fields in question, and the classes
compose.  For the walk-outs the class is "whom it marks": the deferred cascade
marks only below an agent whose last Task is long done (`FireHasCause`), and a
lineage computed after the sweep is part of the one computed before it
(`FewerLinks`), so that a cause found in the middle of the apply is a cause in
`st` (`ApplyHasCause`, `TickHasCause`).  Subtree and lineage are each other's
inverse (`BelowAndAbove`), which turns "below a root" into "has it above".  For
the debounce two classes suffice: operators that arm nothing (`Quells`), and those
that arm only where no Task is in flight and track no new one (`Spares`); the one
invariant they need is that no debounce runs under a gated prompt (`Unlapsed`).
The prompt theorems follow the prompt through the preamble and the pre-passes
(`PromptIsMet`) to the handler, where a replayed pair or a parallel end finds
nothing to do.

These proofs also corrected three properties that TLC had found no fault with.
`DispatchSparesSubtree` once promised that nobody below the dispatcher walks out;
in a tree of three levels the cascade of an agent above may fall due in that very
apply.  `ExitHasCause` once asked that whoever causes a walk-out has a slot.
`TimerSparesTheBusy` once forbade the debounce on an active agent with an
undrained Task in flight; a replayed dispatch is tracked again while its drain is
remembered, and that memory may expire under a debounce armed later (TLC finds it
once DrainTTL and ActiveGrace are longer).  All three are now stated as what the
code does keep, for every tree and every window.

*Exit watch.*  The refinement mapping says what is owed: pids in the queue, in
the batch being registered, or watched.  The invariant is that there is a batch
only while the thread registers it and that what it is about to report is
watched and dead; each step of the thread is then a hand-over, a report, a
refusal, a stop, or nothing.  Refinement alone would let a pid be refused anywhere;
`NextForgetsNone` and `NextStopsForCause` go through the same steps and name the
one place of each.

For `OneExitPerWatch` the exits that may still come are counted: one if the pid is
watched or in the batch, one if copies of it in the queue may come out after its
report (`Threat`), one for each caller about to push that has no excuse
(`Pushing`).  Together with the exits sent they stay within `late` (`Budgeted`).
Copies in the queue are no threat while the thread is bound to drain before it
reports (`DrainFirst`), or while a caller that found the pid watched and alive
still has its byte to write; the exit of a process pays for the callers in flight
that it overtakes.  The count needs the callers to be finitely many, which
`ExitWatchAssumption` says.

*Presence and hook plane.*  An exit's way to a binding is a disjunction: owed by
the watch, reported and unread, inside the call that will hand it over, taken by
the drain, or in the channel.  Every step of every party moves a binding along
these stations and never off them.  For a mascot one needs besides that nobody
who is not on stage is bound: else a receipt that finds no mascot would be spent
for a binding made later.  That a replacement survives its predecessor needs the
converse (`Truthful`): every word of a death, in the watch's reports, in the drain
or in the channel, is of a process that is gone; it takes down only a mascot bound
to that very pid, and nothing but `GatewayUp` moves a binding to another one.

*Watcher: ends.*  What is to be ended is decided in one step and done in a later
one, with the world moving in between, and by a ladder that knows only what the
last healthy probe saw.  `Justified` therefore speaks of the plan: whoever has a
"collect" or an "end" in `todo` (`Doomed`) has a cause to end (`Blamed`), and a
cause does not go away but by a probe, which only ever starts an arm, before
anything is doomed in it (`Planned`).  That whom the ladder picks is to blame is
`Faithful`, two comparisons of the ladder with the history: a session is bound to
the process it was last seen with, so that an exit blames the right process; and
the window of a missing one is no older than `unseen`, so that a window that runs
out speaks of a run of probes that lasted as long.  Between a probe and its fold the comparisons hold but
for the sessions the snapshot shows, for which the snapshot itself is right.
`Consistent` of the ladder is proved beside it: it is what keeps an exit from ending
a session that has moved on to another process.

*Watcher: ghosts.*  `cause` says what may bring a file's agent back.  `Accounted`
says that every file that a walk would read, or that a vouch would put back to its
start, has one unless its claim is held.  The claim is what the code relies on: a
held claim makes a walk silent, so the watcher may forget the cause of a held file
when its end is decided, and only then.  It must read the file once more before
the claim goes, or the rest of it would come later and bring the agent back.
That is `Drained`: no step of `todo` takes the claim of a file that is behind
(`Stale`) unless the file is parked before, or is being walked and is not over-read
(`Awaited`; the walk of an over-read file only sets it back).  Each step of the
watcher keeps it, since a drain plans the park, the walk and the taking of the
claim together and in this order; what the agents write meanwhile is a cause by
itself.  The rest is arithmetic: a backlog is longer than an unfinished line, so a
skipped file is behind (`MAX_PENDING` is not 0), and the head in which a re-entry is
searched lies in the file.

*Sources.*  The invariant follows a round through its file: who holds the lock
owns the temporary names, has read what is still there, and has backed it up
before it goes on (`Shape`, `DiskOK`, `Held`, `Local`).  The lock is what makes
the read valid at the rename, a killed holder's leftovers are reclaimed or
ignored, and the backup goes only when the hooks are out.  What a command tells
is a matter of being alone: as long as no second one has started on the source
(`contested` is the negation), flag, hooks and artifacts are as its own rounds
left them, and each round's end is known from its stage (`Flagged`, `Fitted`); the
drafts of the others carry the flag along unchanged.  Of a source nobody works on,
flag and hooks agree (`Settled`).

*Catalogue.*  Four copies of one list are related by where the helper stands.  As
long as nothing has failed and no window was closed under its helper (`Calm`), the
window waits for its one helper (`Awaited`), the list in the file is the one shown or
the one the helper is to make of it (`InStep`), a marked row still bears the
character that was marked (`Armed`), and the choices in memory and on disk are the
user's, translated into positions of the list they belong to (`Linked`).  After a
failure what is left is `Shape`: every choice is of a row that exists.  For
the retry the files are followed through the helper's steps instead (`Stocked`):
each listed character has its source, but for the one that a removal has moved
aside and would put back.  Two helpers at work break it, as section 6 says, hence
the hypothesis `OneHelper`: that is what `window.rs:101` promises, and what holds of
one process whose window stays open, or of a single helper.  The proof made the
model exact in two places: the arms of `Rewritten` overlapped in a CASE, which leaves
the choice between them open, and are now the conditional of the script; and a
list has to name no character twice for a removal by position to be a removal of
one character.

*Only model-checked*: the liveness properties `EveryoneLeaves`, `StrangersLeave`,
`ExitsAreReported`, `DropStopsThread`, `BusyEnds`, `StageEmpties`, `DeadAreEnded`,
`SlotsComeBack`, `DeadIsEnded`, `LiveComesBack` and `EverythingIsRead`, since
liveness under fairness and ENABLED are beyond this prover.  Every invariant and
action property of the table in section 3 is stated by a theorem above, except
those of the two findings, which do not hold.  Induction over data whose induction predicate
would be an operator parameter is beyond it as well: the proofs use the least
member of a set of naturals, and the size of a finite set, in its place.  No module
here declares a RECURSIVE operator, and what the proofs reach of the community
modules is not recursive either.

*Assumptions on constants.*  Those that do more than type them: the ledger outlives
a walk-out (`LedgerOutlivesExit`); the reducer's windows are positive; callers of
the exit watch are finitely many; transcripts, sessions and processes of the
watcher are finitely many, since it takes them up one after the other;
`MaxPending` is positive (1 MiB in the code) and the lines a file starts with do not
exceed the bound on its lines; an imported list names no character twice (the importer
leaves the list as it is when it finds the key) and a character is not a number.

## 6. Findings

* `late_end`.  `pixtuoid-core/tests/reducer/tasks.rs:828` tests that a late
  transcript end of a drained Task does not resolve a pending prompt, in the order
  prompt, drain, end.  In the order drain, prompt, end the prompt gates itself on
  the drained Task that still shows during the idle debounce
  (`reducer/mod.rs:528`), and the late end resolves it.  The run delivers each
  event once and in transcript order.
* `abrupt_exit`.  `hook/mod.rs:316` says of the binding of an agent to a pid that it
  is there "so an abrupt exit ends it".  The drain of the pid watch sends the
  ends straight to the reducer's channel, the registration travels through the
  tee; when the process dies in between (or had died when a late shim wrote), the
  end overtakes the registration, the binding is spent, and the agent stays until
  the stale sweep.

Observed while modelling, without a run of its own:

* *Two connects of one source* (`sources.rs:219`): the prior flag is read without
  a lock and restored when the install fails, so the loser of two concurrent
  connects, having found the winner's lock, removes the flag of a connection that
  was reported as made.  `OutcomesAreTrue` holds because it speaks of the moment
  of telling and leaves sources out that two commands work on at once.
* *Catalogue*: `window.rs:101` says that two helpers cannot race.  The gate is a
  field of the window: closed under a helper and opened again, the program starts
  a second one, and with two members in `Helper` and no fault at all TLC finds
  `SafeToRetry` broken.  The run has one helper.
* *Catalogue after failures*: an import whose catalogue is saved and whose build
  fails, or a helper killed between the two, leaves a catalogue longer than the
  pack; the next removal builds a pack of unexpected size, the window keeps the
  old list, and the row removed after that is another character's.  Closing the
  window between a removal and its report leaves the choices of `config.toml`
  unshifted.  A kill between the move of a source and the save wedges every later
  rebuild; one between the two renames leaves no pack.  `Calm` and `spoilt`
  name these cases in the properties.
* *Blank slots*: `reducer/mod.rs:1068` says of a slot synthesized for a hook
  without identity that it "rides the normal state-adaptive timeouts"; the next
  tick (`gate.rs:82`) evicts it, as its blank source is in no connected set.
* *Double reports*: `exit_watch.rs:118` says that watching an already watched live
  pid is a no-op.  If the process dies and its exit is polled before the wake byte
  is, the queued duplicate is drained in the next round, found dead, and reported
  again.  `OneExitPerWatch` is what does hold; every user tolerates the duplicate,
  which `presence`, `hookplane` and `transcript` confirm (ExitReports allows it).
* *Bare sightings*: `PidSeen` binds a mascot that is already Down, and the receipt
  of that pid then restarts its walk-out, so `daemon.rs`'s remark that a Down
  daemon has no pid is true when it goes down and not afterwards.  The mascot still
  leaves (`StageEmpties`).
* *Drop and reopen*: `liveness.rs:153` says of two observations at least 60 s apart
  that they "make the signal immune to Codex's brief drop-and-reopen fd gap".  One
  gap shorter than the span never ends a session (`EndHasCause`: the probe after it
  sees the session and the window is gone).  Two such gaps do, when a probe meets
  each and none meets the reopening between them, which takes polls at the very
  interval of the span, or probes that fail in between: the ladder then counts two
  misses a span apart of a session that was away for a moment twice.  TLC finds it
  with three moves once `unseen` starts over at a reopening nobody saw.  The next
  vouch shows the agent again (`LiveComesBack`).
* *Un-claims*: `unclaim.rs:120` says that walking a child's pending bytes before
  the release keeps a straggler from bringing it back.  A line that starts a
  turn (`session_reentry`, Codex) among those bytes outranks the claim and does
  register it; `NoGhost` allows for it.

## 7. Not modelled

Within the modelled parts:

* *Transcript*: of what a line decodes to, registration and end; not
  `scan_pending_tasks`, nor the activity that a re-entry beyond `MAX_PENDING`
  replays.  A walk is one step (the watcher holds no lock across it, but nothing
  else reads its cursors).  A pid that loses its last session in the same fold in
  which it gains another may or may not be handed over again; the map's order
  decides.  An un-claim lapses only if no pass could have taken it.  The clock
  starts with the rescan, 250 ms after the seed.
* *Listener*: binding and ceding the socket, the accept backoff, malformed lines.
  A session restarted in the same workspace keeps its agent id, so the late exit
  of the old process ends it; the code accepts this (`pid_watch.rs:22`) and the
  next hook brings it back.
* *Sources*: the formats the merges parse, symbolic links, file modes, edits by
  others, the other keys of `config.toml`.  The order of a command's items is open,
  a source's artifacts are written in one step.  A configuration that did not
  exist before us has nothing to recover, so `RecoveryPath` speaks of those that
  did.  A prior flag that could not be read, or a rollback that finds the lock
  taken, counts as a failed rollback.
* *Catalogue*: that a guest may be turned away or is still walking out; a failing
  start of the helper (the row is disarmed, as by `Disarm`); a helper's exit and
  the window's reaction are one step.  The listed characters are imports, which
  the helper checks.
* *Exit detection*: kqueue, and the reuse of pids.
* *Shutdown* of the tasks, and publication to the renderer: one watch value that
  each change overwrites with the whole scene.

Left out as a whole:

* *Decoders, registry, drift, probes*: parsing and reads of `/proc`.  Reducer takes
  every event they may produce; Transcript takes every answer of a probe.
* *Shim, source manager, start-up, diagnostics*: one-shot or wiring.  The shim's
  lateness and loss are in Reducer's event order.
* *Layout, motion, pose, path finding, painting, audio*: functions of the scene, the
  clock and the window's size that feed nothing back but capacities, which
  `Resize` covers.  They are more than half of the program's lines; their
  correctness is a matter of geometry and looks that their own unit tests examine
  by example, and a model of them would be a second copy of their arithmetic.
* *Market, training, pets, routing of parties to maps*: animation drawn from the
  scene and the clock, deterministic frame by frame, with no second actor.
  Reading them brought up points for review rather than for a model: a merchant's
  slot is found by linear probing, so a peer's exit can move one although
  `market.rs:298` says that it never does; a guest who was sent home while on a map
  that is not shown is not evicted and holds a seat.

## 8. Plan

Done: what decides who is on stage (Lineage, Reducer, Occupancy), what feeds it
(ExitWatch, ExitReports, Presence, HookPlane, ProbeLadder, Transcript), the files
(Sources, Catalog), and the theorems of section 5.

What would come next: the catalogue with two helpers, once the window's gate
outlives the window.

------------------------- MODULE ReducerProperties -------------------------
(***************************************************************************)
(* What the reducer promises.  Invariants first, then what a step may      *)
(* never do.                                                               *)
(***************************************************************************)
EXTENDS Reducer

\* The scene and the correlation maps have the shape the code's types give
\* them, every age stays inside its window, and desk and parent are a slot's.
TypeOK ==
    /\ st \in State
    /\ connected \in SUBSET Source
    /\ \A a \in Agent : a \in st.here <=> st.desk[a] # Never
    /\ \A a \in Agent \ st.here : st.parent[a] = NoAgent

\* scope.rs: every seam that sets parent_id refuses a link that would close a
\* cycle, dangling parents and ledger-adopted links included, so a cycle can
\* never exist (two Waiting members would keep each other alive for ever).
NoParentCycle == Acyclic(Up(st))

\* next_free_desk: two sprites never share a desk, walking-out slots and a
\* capacity that shrinks under seated agents included.
DesksExclusive ==
    \A a, b \in st.here : a # b => st.desk[a] # st.desk[b]

\* sweep_exited and tick: a gate, an armed cascade, a vouch or a completion
\* edge never outlives the slot it belongs to, whatever path removed it.
CorrelationOwned ==
    /\ \A a \in Agent : st.gate[a] # NoTool => a \in st.here
    /\ \A a \in Agent : st.b1[a] # Never => a \in st.here
    /\ \A a \in Agent : st.vouch[a] # Never => a \in st.here
    /\ st.done \subseteq st.here

\* link_applied_parent and gc: the ledger never forgets, and never disagrees
\* with, the parent of a child that still has a slot.
LedgerKnowsLiveLinks ==
    \A a \in st.here : st.parent[a] # NoAgent =>
        st.ledger[a].known /\ st.ledger[a].parent = st.parent[a]

\* expire_pending_idles and active_tasks: a step never arms the idle debounce of
\* a slot that has a Task in flight, and never leaves it armed on a slot shown
\* Waiting whose gated tool has not ended, so that no prompt silently lapses.
TimerSparesTheBusy ==
    [][\A a \in st'.here : st'.pending[a] # Never =>
          /\ ~(st'.act[a] = "Waiting" /\ st'.gate[a] # NoTool)
          /\ a \in st.here /\ st.pending[a] = Never => st'.tasks[a] = {}]_vars

\* The step from st to the next state delivers e.
Delivered(e) ==
    /\ Admitted(st, e, connected)
    /\ connected' = connected
    /\ \E first \in Tool \cup {NoTool} :
          FirstOf(Preamble(st).tasks[e.id], first) /\ st' = Apply(st, e, first)

\* What the transcript says of a Task after the hooks have drained it: the
\* Start again, and the End that closes that Start.
IsReplay(e) ==
    /\ e.via = "Jsonl" /\ e.tool # NoTool /\ Fresh(st.drained[e.id][e.tool], DrainTTL)
    /\ \/ e.kind = "ActivityStart" /\ e.task
       \/ e.kind = "ActivityEnd" /\ e.tool \in st.tasks[e.id]

\* Event e meets a slot whose permission prompt is pending.
PromptPending(a) ==
    /\ a \in st.here /\ st.exiting[a] \in {Never} \cup 0..ExitGrace
    /\ st.act[a] = "Waiting" /\ st.pending[a] = Never

PromptStays(a) == st'.act[a] = "Waiting" /\ st'.pending[a] = Never

\* recent_task_drains: the lagged transcript pair of a finished Task neither
\* takes down a prompt raised since, nor arms its lapse.
ReplayKeepsPrompt ==
    [][\A e \in Events :
          IsReplay(e) /\ PromptPending(e.id) => PromptStays(e.id) \/ ~Delivered(e)]_vars

\* tests/reducer/tasks.rs:828, for every order of events: a late transcript
\* copy of a drained Task's End must not resolve a prompt that is pending.
ReplayedEndKeepsPrompt ==
    [][\A e \in Events :
          /\ e.via = "Jsonl" /\ e.kind = "ActivityEnd" /\ e.tool # NoTool
          /\ Fresh(st.drained[e.id][e.tool], DrainTTL)
          /\ PromptPending(e.id)
          => PromptStays(e.id) \/ ~Delivered(e)]_vars

\* apply_activity_end: while a prompt is pending, the end of a tool other than
\* the one it gates leaves it alone; a subagent's tool may end the prompt that
\* the subagent raised.
PromptOutlivesParallelEnds ==
    [][\A e \in Events :
          /\ e.kind = "ActivityEnd" /\ e.tool \notin {NoTool, st.gate[e.id]}
          /\ e.via = "Jsonl" \/ st.tasks[e.id] = {}
          /\ PromptPending(e.id)
          => PromptStays(e.id) \/ ~Delivered(e)]_vars

\* Agent x's session ends in this step.
EndsNow(x) == \E e \in Events : e.kind = "SessionEnd" /\ e.id = x /\ Delivered(e)

\* cascade_exit: the end of a session takes its whole subtree with it, through
\* descendants that were already on their way out.
EndTakesSubtree ==
    [][\A a \in Agent :
          \/ \A c \in SubtreeOf(Up(Preamble(st)), a) \cap st'.here : st'.exiting[c] # Never
          \/ ~EndsNow(a)]_vars

\* x's last Task is long done and no other was dispatched: its subtree is due
\* to walk out.
Returned(x) == st.tasks[x] = {} /\ ElapsedAtLeast(st.b1[x], B1Grace)

\* The order of the pre-passes (#151): the apply that carries the dispatch of
\* a Task does not fire the dispatcher's own deferred cascade, even when it
\* falls due in that very apply; only another agent's, above the slot, may
\* send a slot home in it.
DispatchSparesSubtree ==
    [][\A e \in Events :
          DispatchesTask(e) =>
            \/ \A c \in st.here \cap st'.here :
                  st.exiting[c] = Never /\ st'.exiting[c] # Never =>
                     \E x \in AncestorsOf(Up(st), c) \ {e.id} : Returned(x)
            \/ ~Delivered(e)]_vars

\* #242 and #244: from the end of a child's life until the window of that
\* memory passes, no parented start puts the child on stage again.
DeadChildStaysGone ==
    [][\A a \in st'.here \ Preamble(st).here :
          \/ Fresh(st.tomb[a], Tombstone)
          \/ st.ledger[a].known /\ Fresh(st.ledger[a].ended, LedgerTTL)
          => ~\E e \in Events :
                e.kind = "SessionStart" /\ e.id = a /\ e.parent # NoAgent /\ Delivered(e)]_vars

\* The office a viewer sees.
Office == INSTANCE Occupancy WITH
              Nowhere <- Never,
              place   <- st.desk,
              leaving <- {a \in st.here : st.exiting[a] # Never}

\* The reducer keeps what Occupancy promises: whatever the transports deliver,
\* nobody vanishes from a desk unseen, changes desk, or shares one.
KeepsOffice == Office!Spec

\* A reason for x, and so for its subtree, to walk out in this step besides its
\* own end: silence past its threshold that nothing excuses, or its source being
\* disconnected.  For the subtree alone there is Returned.
FallenSilent(x) == LET s == Preamble(st)
                   IN /\ s.quiet[x] > StaleThreshold(s, x)
                      /\ ~Fresh(s.vouch[x], VouchTTL)
                      /\ ~HasWaitingAncestor(s, x)
TurnedOff(x) == st.src[x] \notin connected

\* cascade_exit: no slot starts to walk out but for a reason of its own or of
\* an agent above it; a prompt waiting anywhere above, or a live process,
\* holds a silent slot on stage.
ExitHasCause ==
    [][\A a \in st.here \cap st'.here :
          st.exiting[a] = Never /\ st'.exiting[a] # Never =>
            \/ \E x \in LineageOf(Up(st), a) :
                  EndsNow(x) \/ (x \in st.here /\ (FallenSilent(x) \/ TurnedOff(x)))
            \/ \E x \in AncestorsOf(Up(st), a) : Returned(x)]_vars
=============================================================================

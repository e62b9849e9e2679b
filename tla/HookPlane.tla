----------------------------- MODULE HookPlane -----------------------------
(***************************************************************************)
(* The hook plane (pixtuoid-core source/hook: mod.rs, pid_watch.rs,        *)
(* router.rs): the connections on which the shims of the agent CLIs write  *)
(* their payloads, the registry of which agents end with which process,    *)
(* and the two bounded channels on which events travel to the reducer.     *)
(*                                                                         *)
(* A connection is a task with a budget; so are the tee, which stands      *)
(* between the connections and the reducer, and the drain, which turns the *)
(* exit of a process into the ends of its agents and does not stand behind *)
(* the tee.  Daemon payloads take another way: see Presence.               *)
(***************************************************************************)
EXTENDS Naturals, Sequences

CONSTANTS
    Agent, Pid, NoPid,
    Conn,          (* connections, of MAX_CONCURRENT_CONNS                 *)
    Payloads,      (* what a shim may send: a pid or NoPid, and its events *)
    Cap,           (* EVENT_CHANNEL_CAPACITY                               *)
    Stalls,        (* BOOLEAN: may the reducer stop reading?               *)
    MaxReports,    (* bound: unread exit reports of one process            *)
    Budget         (* bound: payloads                                      *)

Event == [kind : {"start", "identity", "activity", "end"}, of : Agent, child : BOOLEAN]

ASSUME HookAssumption ==
    /\ NoPid \notin Pid
    /\ Payloads \subseteq [pid : Pid \cup {NoPid}, events : Seq(Event)]
    /\ Cap \in Nat \ {0} /\ MaxReports \in Nat \ {0} /\ Budget \in Nat
    /\ Stalls \in BOOLEAN

VARIABLES
    conn,      (* each connection: where it is, its payload, the next event *)
    bound,     (* pid to the agents to end when it dies                    *)
    gone, owed, exits, up,   (* processes that have exited; the exit watch *)
    drain,     (* the drain: where it is, and the agents still to end      *)
    tee,       (* the events between the connections and the tee           *)
    hand,      (* the event the tee holds, if any                          *)
    out,       (* the events between all producers and the reducer         *)
    unclaims,  (* the children pushed to the transcript watchers           *)
    stalled,   (* whether the reducer has stopped reading                  *)
    view,      (* the agents as the reducer has them: unknown, shown, ended *)
    left       (* how many more payloads may come                          *)

watch    == <<gone, owed, exits, up>>
channels == <<tee, hand, out, unclaims>>
reducer  == <<stalled, view>>
vars     == <<conn, bound, watch, drain, channels, reducer, left>>

Watch == INSTANCE ExitReports WITH Faults <- {}

Free    == [at |-> "free"]
Reading == [at |-> "reading"]
Idle    == [at |-> "idle"]
Nothing == <<>>   \* an empty hand

Init ==
    /\ conn = [c \in Conn |-> Free]
    /\ bound = [p \in Pid |-> {}]
    /\ Watch!Init
    /\ drain = Idle
    /\ tee = <<>> /\ hand = Nothing /\ out = <<>> /\ unclaims = {}
    /\ stalled \in {FALSE, Stalls} /\ view = [a \in Agent |-> "unknown"]
    /\ left = Budget
-----------------------------------------------------------------------------
(* A connection: handle_conn.                                              *)

\* pid_bind_target: the events that register a session.
Binds(e) == e.kind \in {"start", "identity"}

\* Mutant: HookPidWatch::note watches the pid and then binds the agent.
WatchFirst == <<"watch", "bind">>

\* HookPidWatch::note.
Note == <<"bind", "watch">>

\* What is to be done about a payload: the events to look at for a note, and
\* the events to send.
Loaded(m) ==
    CASE m.events = <<>> -> Reading
      [] m.events # <<>> /\ m.pid = NoPid ->
            [at |-> "send", pid |-> NoPid, notes |-> <<>>, sends |-> m.events]
      [] m.events # <<>> /\ m.pid # NoPid ->
            [at |-> Note[1], pid |-> m.pid, notes |-> m.events, sends |-> m.events]

NextNote(k) ==
    IF Len(k.notes) > 1 THEN [k EXCEPT !.at = Note[1], !.notes = Tail(@)]
                        ELSE [k EXCEPT !.at = "send", !.notes = <<>>]

\* One half of the note of the event at the head is done.
Noted(k) == IF k.at = Note[1] THEN [k EXCEPT !.at = Note[2]] ELSE NextNote(k)

\* The event at the head has been sent.
Sent(k) == IF Len(k.sends) > 1 THEN [k EXCEPT !.sends = Tail(@)] ELSE Reading

\* CONN_TIMEOUT drops the future: what is left of the payload is lost.
CutOff(k) == Free

\* Mutant: the budget is on the wait for room alone.
PendingOnRoom(c) == conn[c].at = "send" /\ Len(tee) = Cap

\* The future waits, so that its budget may end it: for the client, or for room.
Pending(c) ==
    \/ conn[c].at = "reading"
    \/ conn[c].at = "send" /\ Len(tee) = Cap

Accept(c) ==
    /\ conn[c].at = "free"
    /\ conn' = [conn EXCEPT ![c] = Reading]
    /\ UNCHANGED <<bound, watch, drain, channels, reducer, left>>

Receive(c) ==
    /\ conn[c].at = "reading" /\ left > 0
    /\ \E m \in Payloads : conn' = [conn EXCEPT ![c] = Loaded(m)]
    /\ left' = left - 1
    /\ UNCHANGED <<bound, watch, drain, channels, reducer>>

HangUp(c) ==
    /\ conn[c].at = "reading"
    /\ conn' = [conn EXCEPT ![c] = Free]
    /\ UNCHANGED <<bound, watch, drain, channels, reducer, left>>

\* An event that does not register is not noted.
SkipNote(c) ==
    /\ conn[c].at = Note[1] /\ ~Binds(Head(conn[c].notes))
    /\ conn' = [conn EXCEPT ![c] = NextNote(@)]
    /\ UNCHANGED <<bound, watch, drain, channels, reducer, left>>

Bind(c) ==
    /\ conn[c].at = "bind" /\ Binds(Head(conn[c].notes))
    /\ bound' = [bound EXCEPT ![conn[c].pid] = @ \cup {Head(conn[c].notes).of}]
    /\ conn' = [conn EXCEPT ![c] = Noted(@)]
    /\ UNCHANGED <<watch, drain, channels, reducer, left>>

WatchPid(c) ==
    /\ conn[c].at = "watch" /\ Binds(Head(conn[c].notes))
    /\ Watch!HandOver(conn[c].pid)
    /\ conn' = [conn EXCEPT ![c] = Noted(@)]
    /\ UNCHANGED <<bound, drain, channels, reducer, left>>

Send(c) ==
    /\ conn[c].at = "send" /\ Len(tee) < Cap
    /\ tee' = tee \o <<Head(conn[c].sends)>>
    /\ conn' = [conn EXCEPT ![c] = Sent(@)]
    /\ UNCHANGED <<bound, watch, drain, hand, out, unclaims, reducer, left>>

Cut(c) ==
    /\ Pending(c)
    /\ conn' = [conn EXCEPT ![c] = CutOff(@)]
    /\ UNCHANGED <<bound, watch, drain, channels, reducer, left>>
-----------------------------------------------------------------------------
(* The tee: tee_child_end_unclaims.                                        *)

TeeTake ==
    /\ hand = Nothing /\ tee # <<>>
    /\ hand' = <<Head(tee)>> /\ tee' = Tail(tee)
    /\ unclaims' = unclaims \cup {e.of : e \in {f \in {Head(tee)} : f.kind = "end" /\ f.child}}
    /\ UNCHANGED <<conn, bound, watch, drain, out, reducer, left>>

TeeForward ==
    /\ hand # Nothing /\ Len(out) < Cap
    /\ out' = out \o hand /\ hand' = Nothing
    /\ UNCHANGED <<conn, bound, watch, drain, tee, unclaims, reducer, left>>
-----------------------------------------------------------------------------
(* The drain of HookPidWatch::spawn.                                       *)

ReceiveExit(p) ==
    /\ drain = Idle /\ Watch!Receive(p)
    /\ drain' = [at |-> "take", pid |-> p]
    /\ UNCHANGED <<conn, bound, channels, reducer, left>>

\* Mutant: one agent per process.
EndOne(S) == IF S = {} THEN Idle ELSE [at |-> "end", agents |-> {CHOOSE a \in S : TRUE}]

\* The agents to end.
EndAll(S) == IF S = {} THEN Idle ELSE [at |-> "end", agents |-> S]

Take ==
    /\ drain.at = "take"
    /\ drain' = EndAll(bound[drain.pid])
    /\ bound' = [bound EXCEPT ![drain.pid] = {}]
    /\ UNCHANGED <<conn, watch, channels, reducer, left>>

End(a) == [kind |-> "end", of |-> a, child |-> FALSE]

\* Mutant: the ends do not wait for room.
SendEndAtOnce ==
    /\ drain.at = "end"
    /\ \E a \in drain.agents : out' = out \o <<End(a)>> /\ drain' = EndAll(drain.agents \ {a})
    /\ UNCHANGED <<conn, bound, watch, tee, hand, unclaims, reducer, left>>

\* The ends go straight to the reducer's channel.
SendEnd ==
    /\ drain.at = "end" /\ Len(out) < Cap
    /\ \E a \in drain.agents : out' = out \o <<End(a)>> /\ drain' = EndAll(drain.agents \ {a})
    /\ UNCHANGED <<conn, bound, watch, tee, hand, unclaims, reducer, left>>
-----------------------------------------------------------------------------
(* The processes, their exits, and the reducer.                            *)

Die(p) ==
    /\ Watch!Exit(p)
    /\ UNCHANGED <<conn, bound, drain, channels, reducer, left>>

Report(p) ==
    /\ exits[p] < MaxReports /\ Watch!Report(p)
    /\ UNCHANGED <<conn, bound, drain, channels, reducer, left>>

\* The reducer takes the next event: an end ends an agent it knows, any other
\* event shows its agent.
Apply ==
    /\ ~stalled /\ out # <<>>
    /\ out' = Tail(out)
    /\ LET e == Head(out)
       IN view' = [view EXCEPT ![e.of] = IF e.kind # "end" THEN "shown"
                                         ELSE IF @ = "unknown" THEN @ ELSE "ended"]
    /\ UNCHANGED <<conn, bound, watch, drain, tee, hand, unclaims, stalled, left>>

Connection(c) == SkipNote(c) \/ Bind(c) \/ WatchPid(c) \/ Send(c)

Drain == Take \/ SendEnd \/ \E p \in Pid : ReceiveExit(p)

Task == (\E c \in Conn : Connection(c)) \/ TeeTake \/ TeeForward \/ Drain \/ Apply

Next ==
    \/ Task
    \/ \E c \in Conn : Accept(c) \/ Receive(c) \/ HangUp(c) \/ Cut(c)
    \/ \E p \in Pid : Die(p) \/ Report(p)

Spec == Init /\ [][Next]_vars

\* The tasks run; the budget of a connection is a deadline, so if it has to wait
\* again and again it is cut off; a pid is not handed over for ever.
Fairness ==
    /\ WF_vars(Task)
    /\ \A c \in Conn : SF_vars(Cut(c))
    /\ \A p \in Pid : SF_vars(Report(p) /\ p \notin owed')

FairSpec == Spec /\ Fairness
-----------------------------------------------------------------------------
(* Properties.                                                             *)

Some(S) == Seq(S) \ {<<>>}

ConnState ==
    {Free, Reading}
      \cup [at : {"bind", "watch"}, pid : Pid, notes : Some(Event), sends : Some(Event)]
      \cup [at : {"send"}, pid : Pid \cup {NoPid}, notes : {<<>>}, sends : Some(Event)]

DrainState ==
    {Idle} \cup [at : {"take"}, pid : Pid] \cup [at : {"end"}, agents : (SUBSET Agent) \ {{}}]

TypeOK ==
    /\ conn \in [Conn -> ConnState]
    /\ bound \in [Pid -> SUBSET Agent]
    /\ gone \subseteq Pid /\ owed \subseteq Pid /\ exits \in [Pid -> 0..MaxReports] /\ up
    /\ drain \in DrainState
    /\ tee \in Seq(Event) /\ Len(tee) <= Cap
    /\ hand \in Seq(Event) /\ Len(hand) <= 1
    /\ out \in Seq(Event) /\ Len(out) <= Cap
    /\ unclaims \subseteq Agent /\ view \in [Agent -> {"unknown", "shown", "ended"}]
    /\ stalled \in BOOLEAN /\ left \in 0..Budget

\* note and take (pid_watch.rs:86): however the binding, the hand-over, the
\* report and the take interleave, an agent bound to a process is bound to one
\* whose exit somebody is still going to look at.
BoundIsWatched ==
    \A p \in Pid : bound[p] # {} =>
        \/ p \in owed
        \/ exits[p] > 0
        \/ drain = [at |-> "take", pid |-> p]
        \/ \E c \in Conn : conn[c].at = "watch" /\ conn[c].pid = p

\* Every agent bound to a process that has exited is sent its end, as long as
\* the reducer reads.
InChannel(e) == \E n \in DOMAIN out : out[n] = e

DeadAreEnded ==
    \A a \in Agent, p \in Pid : (a \in bound[p] /\ p \in gone /\ ~stalled) ~> InChannel(End(a))

\* CONN_TIMEOUT: a connection gives its slot back, also when the client never
\* finishes its line and when the reducer has stopped reading.
SlotsComeBack == \A c \in Conn : conn[c].at # "free" ~> conn[c].at = "free"

\* hook/mod.rs:316 says of the binding: "so an abrupt exit ends it".  When all
\* that was under way has arrived, nobody is shown whose processes are gone.
Settled ==
    /\ \A c \in Conn : conn[c].at \in {"free", "reading"}
    /\ tee = <<>> /\ hand = Nothing /\ out = <<>> /\ drain = Idle
    /\ owed \cap gone = {} /\ \A p \in Pid : exits[p] = 0

AbruptExitEnds ==
    Settled => \A a \in Agent : view[a] = "shown" => \E p \in Pid \ gone : a \in bound[p]
=============================================================================

----------------------------- MODULE Presence -----------------------------
(***************************************************************************)
(* The mascots of daemon sources: the presence state machine and its sweep *)
(* (pixtuoid-core source/daemon.rs), the binding of gateway pids to        *)
(* mascots (daemon/native.rs), the arms of reducer_task that drive them    *)
(* (pixtuoid/src/runtime: driver.rs, gate.rs), and the envelopes of the    *)
(* one daemon there is (source/openclaw.rs, source/hook/mod.rs).           *)
(*                                                                         *)
(* Four parties run concurrently: connection tasks that put the deltas of  *)
(* an envelope on the presence channel one by one, the reducer task that   *)
(* merges them, the drain task that turns exit reports into deltas, and    *)
(* the exit watch behind ExitReports.  An envelope of a process may arrive *)
(* at any time after the process was born, long after its death included,  *)
(* any number of times.                                                    *)
(***************************************************************************)
EXTENDS Integers, Sequences, FiniteSets

CONSTANTS
    Inst,         (* gateway instances: the ports                           *)
    Pid, NoPid,   (* processes, each pid used once; Option::None            *)
    Nobody,       (* the home of a pid no gateway has had yet               *)
    Run,          (* the run keys                                           *)
    Conn,         (* connection tasks that may be open at once              *)
    Connected,    (* whether the source was connected when we started       *)
    Talk, Lasting,   (* the events of sessions; the others                  *)
    Stamped,      (* whether envelopes carry _pid: a subset of BOOLEAN      *)
    BusyDecay, PresenceTtl, DownRemove,
    MaxReports,   (* bound: the unread reports of a process                 *)
    MaxQueue,     (* bound: the length of the presence channel              *)
    Budget        (* bound: how many envelopes may arrive, idle talk aside  *)

ASSUME PresenceAssumption ==
    /\ NoPid \notin Pid /\ Nobody \notin Inst
    /\ Connected \in BOOLEAN /\ Stamped \subseteq BOOLEAN
    /\ Talk \subseteq {"session_start", "session_end"}
    /\ Lasting \subseteq {"gateway_start", "gateway_stop", "before_agent_run", "agent_end", "agent_end failed"}
    /\ {BusyDecay, PresenceTtl, DownRemove, MaxReports, MaxQueue} \subseteq Nat \ {0}
    /\ Budget \in Nat

VARIABLES
    mascot,             (* SceneState::daemons                              *)
    pids,               (* pid to the mascots its death takes down          *)
    chan,               (* the presence channel                             *)
    conn,               (* what each connection task has yet to send        *)
    arming,             (* the watch() call the reducer task is inside      *)
    taken,              (* the receipts the drain task has yet to send      *)
    gone, owed, exits, up,   (* the exit watch: ExitReports                 *)
    home,               (* whose process a pid is                           *)
    left,               (* how many envelopes may still arrive              *)
    turn                (* which of the two perpetual steps was last        *)

\* A watch that has failed is one that reports nothing more: no report is owed
\* to anybody here (FairSpec), so the faults need no actions of their own.
Watch == INSTANCE ExitReports WITH Faults <- {}

watch == <<gone, owed, exits, up>>
world == <<home, left>>
vars  == <<mascot, pids, chan, conn, arming, taken, watch, world, turn>>
-----------------------------------------------------------------------------
(* The state machine.  An instance without an entry is "Absent".  The      *)
(* count of sessions, which only scales a bubble, is left out.             *)

Never   == -1
Age(n)  == {Never} \cup 0..n
Cap     == IF PresenceTtl > DownRemove THEN PresenceTtl ELSE DownRemove   \* where last_seen saturates

NoRuns  == [r \in Run |-> Never]
Absent  == [life |-> "Absent", runs |-> NoRuns, pid |-> NoPid, seen |-> 0]
Newborn == [Absent EXCEPT !.life = "Up"]

Mascot == [life : {"Absent", "Up", "Degraded", "Down"}, runs : [Run -> Age(BusyDecay)],
           pid : Pid \cup {NoPid}, seen : 0..Cap]

Delta(kind, pid, run) == [kind |-> kind, pid |-> pid, run |-> run]
NoRun == "none"

EnterDown(m) == [Absent EXCEPT !.life = "Down"]

\* Any event but a bare sighting brings a mascot that is Down back.
Revived(m) == [m EXCEPT !.life = IF @ = "Down" THEN "Up" ELSE @]

Ended(m, run) == [m EXCEPT !.runs[run] = Never]

\* Mutant: a sighting rebinds the mascot whatever pid it has.
SightClobber(m, pid) == [m EXCEPT !.pid = pid]

\* PidSeen adopts a pid only where there is none.
Sight(m, pid) == [m EXCEPT !.pid = IF @ = NoPid THEN pid ELSE @]

\* A proof of life, applied to a mascot created or refreshed by it.
Live(m, d) ==
    CASE d.kind = "GatewayUp"      -> [Newborn EXCEPT !.pid = d.pid]
      [] d.kind = "GatewayDown"    -> EnterDown(m)
      [] d.kind \in {"SessionStarted", "SessionEnded"} -> Revived(m)
      [] d.kind = "RunStarted"     -> [m EXCEPT !.runs[d.run] = 0, !.life = "Up"]
      [] d.kind = "RunEnded"       ->
            LET e == Ended(m, d.run)
            IN IF e.runs = NoRuns THEN [e EXCEPT !.life = "Up"] ELSE e
      [] d.kind = "RunFailed"      -> [Ended(m, d.run) EXCEPT !.life = "Degraded"]
      [] d.kind = "PidSeen"        -> Sight(m, d.pid)

Refreshed(m) == IF m.life = "Absent" THEN Newborn ELSE [m EXCEPT !.seen = 0]

\* A receipt of the death of the bound pid is the one delta that neither
\* creates a mascot nor counts as a sign of life.
ApplyPresence(m, d) ==
    IF d.kind = "PidExited"
    THEN IF m.life # "Absent" /\ m.pid = d.pid THEN EnterDown(m) ELSE m
    ELSE Live(Refreshed(m), d)

\* Mutant: a run's lease is as old as the last event of its gateway.
DecayOnSilence(m) ==
    [m EXCEPT !.runs = [r \in Run |-> IF m.seen >= BusyDecay THEN Never ELSE m.runs[r]]]

\* Every run has a lease of its own.
Decay(m) ==
    [m EXCEPT !.runs = [r \in Run |-> IF m.runs[r] >= BusyDecay THEN Never ELSE m.runs[r]]]

\* Mutant: a degraded mascot does not time out.
SweptIfHealthy(m) ==
    IF m.life = "Absent" \/ (m.life = "Down" /\ m.seen >= DownRemove) THEN Absent
    ELSE IF m.life = "Down" THEN m
    ELSE IF m.life = "Up" /\ m.seen >= PresenceTtl THEN EnterDown(m)
    ELSE Decay(m)

Swept(m) ==
    IF m.life = "Absent" \/ (m.life = "Down" /\ m.seen >= DownRemove) THEN Absent
    ELSE IF m.life = "Down" THEN m
    ELSE IF m.seen >= PresenceTtl THEN EnterDown(m)
    ELSE Decay(m)

\* A disconnected source walks all its mascots out, once.
MarkDown(m) == IF m.life \in {"Absent", "Down"} THEN m ELSE EnterDown(m)
-----------------------------------------------------------------------------
(* The gateways and their envelopes.                                       *)

Born(p)   == home[p] # Nobody
Alive(p)  == Born(p) /\ p \notin gone

\* A port has one live gateway at a time.
Start(i) ==
    /\ \A p \in Pid : home[p] = i => p \in gone
    /\ \E p \in Pid : ~Born(p)
    /\ home' = [home EXCEPT ![CHOOSE p \in Pid : ~Born(p)] = i]
    /\ UNCHANGED <<mascot, pids, chan, conn, arming, taken, watch, left, turn>>

Die(p) ==
    /\ Born(p) /\ Watch!Exit(p)
    /\ UNCHANGED <<mascot, pids, chan, conn, arming, taken, world, turn>>

\* The deltas an envelope of event `what` decodes to; pid is its _pid.
Decoded(what, pid, run) ==
    LET sighted == IF pid = NoPid THEN <<>> ELSE <<Delta("PidSeen", pid, NoRun)>>
    IN CASE what = "gateway_start"    -> <<Delta("GatewayUp", pid, NoRun)>>
         [] what = "gateway_stop"     -> sighted \o <<Delta("GatewayDown", NoPid, NoRun)>>
         [] what = "session_start"    -> sighted \o <<Delta("SessionStarted", NoPid, NoRun)>>
         [] what = "session_end"      -> sighted \o <<Delta("SessionEnded", NoPid, NoRun)>>
         [] what = "before_agent_run" -> sighted \o <<Delta("RunStarted", NoPid, run)>>
         [] what = "agent_end"        -> sighted \o <<Delta("RunEnded", NoPid, run)>>
         [] what = "agent_end failed" -> sighted \o <<Delta("RunFailed", NoPid, run)>>

Idle == [inst |-> Nobody, deltas |-> <<>>]

\* handle_conn reads an envelope of process p.  Idle talk of a live gateway
\* goes on for ever; of everything else there is a Budget.
Receive(c, p) ==
    /\ conn[c] = Idle /\ Born(p)
    /\ \E what \in Lasting \cup Talk, run \in Run, stamped \in Stamped :
          /\ \/ what \in Talk /\ Alive(p) /\ left' = left
             \/ ~(what \in Talk /\ Alive(p)) /\ left > 0 /\ left' = left - 1
          /\ conn' = [conn EXCEPT ![c] =
                        [inst |-> home[p], deltas |-> Decoded(what, IF stamped THEN p ELSE NoPid, run)]]
    /\ UNCHANGED <<mascot, pids, chan, arming, taken, watch, home, turn>>

Message(i, d) == [inst |-> i, delta |-> d]

\* One delta at a time: other producers may get in between.
Send(c) ==
    /\ conn[c] # Idle /\ Len(chan) < MaxQueue
    /\ chan' = Append(chan, Message(conn[c].inst, Head(conn[c].deltas)))
    /\ LET k == conn[c]
       IN conn' = [conn EXCEPT ![c] =
                     IF Len(k.deltas) = 1 THEN Idle ELSE [k EXCEPT !.deltas = Tail(k.deltas)]]
    /\ UNCHANGED <<mascot, pids, arming, taken, watch, world, turn>>
-----------------------------------------------------------------------------
(* The reducer task.  It merges nothing while it is inside watch().        *)

NotArming == [inst |-> Nobody, pid |-> NoPid, noted |-> FALSE]

\* Mutant: only the pid a gateway announces at its start is watched.
AnnouncedPid(d) == d.kind = "GatewayUp" /\ d.pid # NoPid

Armable(d) == d.kind \in {"GatewayUp", "PidSeen"} /\ d.pid # NoPid

Merge ==
    /\ arming = NotArming /\ chan # <<>>
    /\ chan' = Tail(chan)
    /\ LET i == Head(chan).inst
           d == Head(chan).delta
           m == ApplyPresence(mascot[i], d)
       IN IF Connected
          THEN /\ mascot' = [mascot EXCEPT ![i] = m]
               /\ arming' = IF Armable(d) THEN [inst |-> i, pid |-> d.pid, noted |-> FALSE] ELSE arming
          ELSE UNCHANGED <<mascot, arming>>
    /\ UNCHANGED <<pids, conn, taken, watch, world, turn>>

Note ==
    /\ arming # NotArming /\ ~arming.noted
    /\ pids' = [pids EXCEPT ![arming.pid] = @ \cup {arming.inst}]
    /\ arming' = [arming EXCEPT !.noted = TRUE]
    /\ UNCHANGED <<mascot, chan, conn, taken, watch, world, turn>>

Arm ==
    /\ arming.noted
    /\ Watch!HandOver(arming.pid)
    /\ arming' = NotArming
    /\ UNCHANGED <<mascot, pids, chan, conn, taken, world, turn>>

\* The presence half of reconcile_sweep_tick.
Sweep ==
    /\ arming = NotArming
    /\ mascot' = [i \in Inst |-> Swept(IF Connected THEN mascot[i] ELSE MarkDown(mascot[i]))]
    /\ turn' = "sweep"
    /\ UNCHANGED <<pids, chan, conn, arming, taken, watch, world>>
-----------------------------------------------------------------------------
(* The drain task, the exit watch, the clock.                              *)

Take(p) ==
    /\ taken = {} /\ Watch!Receive(p)
    /\ taken' = {[inst |-> i, pid |-> p] : i \in pids[p]}
    /\ pids' = [pids EXCEPT ![p] = {}]
    /\ UNCHANGED <<mascot, chan, conn, arming, world, turn>>

Forward(x) ==
    /\ Len(chan) < MaxQueue
    /\ chan' = Append(chan, Message(x.inst, Delta("PidExited", x.pid, NoRun)))
    /\ taken' = taken \ {x}
    /\ UNCHANGED <<mascot, pids, conn, arming, watch, world, turn>>

Report(p) ==
    /\ exits[p] < MaxReports /\ Watch!Report(p)
    /\ UNCHANGED <<mascot, pids, chan, conn, arming, taken, world, turn>>

Older(age, cap) == IF age = Never THEN Never ELSE IF age < cap THEN age + 1 ELSE cap

\* No time passes inside watch(), where nothing reads the clock.
Elapse ==
    /\ arming = NotArming
    /\ mascot' = [i \in Inst |->
          [mascot[i] EXCEPT !.seen = IF mascot[i].life = "Absent" THEN 0 ELSE Older(@, Cap),
                            !.runs = [r \in Run |-> Older(mascot[i].runs[r], BusyDecay)]]]
    /\ turn' = "clock"
    /\ UNCHANGED <<pids, chan, conn, arming, taken, watch, world>>
-----------------------------------------------------------------------------
Init ==
    /\ mascot = [i \in Inst |-> Absent]
    /\ pids = [p \in Pid |-> {}]
    /\ chan = <<>> /\ conn = [c \in Conn |-> Idle]
    /\ arming = NotArming /\ taken = {}
    /\ Watch!Init
    /\ home = [p \in Pid |-> Nobody] /\ left = Budget
    /\ turn = "clock"

Next ==
    \/ \E i \in Inst : Start(i)
    \/ \E p \in Pid : Die(p) \/ Report(p) \/ Take(p)
    \/ \E c \in Conn : Send(c) \/ (\E p \in Pid : Receive(c, p))
    \/ \E x \in taken : Forward(x)
    \/ Merge \/ Note \/ Arm \/ Sweep \/ Elapse

Spec == Init /\ [][Next]_vars

\* The clock and the interval never stop: select! takes its ready branches at
\* random, so the channels do not starve the interval, and watch() returns.
\* Nothing else is owed: no event, death, restart or report, and no connection
\* or drain task has to get on with what it holds.
FairSpec ==
    /\ Spec
    /\ SF_turn(Sweep \/ Elapse)    \* now the one, now the other
    /\ WF_arming(Note \/ Arm)
-----------------------------------------------------------------------------
\* The death of p, now or in time, will reach mascot i.
Routed(p, i) ==
    \/ i \in pids[p] /\ (p \in owed \/ exits[p] > 0)
    \/ arming.pid = p /\ (i \in pids[p] \/ (arming.inst = i /\ ~arming.noted))
    \/ [inst |-> i, pid |-> p] \in taken
    \/ \E n \in DOMAIN chan : chan[n] = Message(i, Delta("PidExited", p, NoRun))

\* PresenceExitWatch::watch and its drain: however the note, the hand-over, the
\* report and the take interleave, a mascot bound to a pid hears of its death.
BoundIsWatched ==
    \A i \in Inst : mascot[i].pid # NoPid => Routed(mascot[i].pid, i)

Merged(kind) == chan # <<>> /\ chan' = Tail(chan) /\ Head(chan).delta.kind = kind

\* daemon.rs:24: a late exit receipt of a replaced process is a no-op: a mascot
\* is never taken down by a receipt while the pid it is bound to lives, and a
\* binding moves to another pid only when a gateway announces its start.
ReplacementSurvives ==
    [][\A i \in Inst :
          /\ (Merged("PidExited") /\ mascot[i].life # "Down" /\ mascot'[i].life = "Down")
                => mascot[i].pid \in gone
          /\ (mascot[i].pid # NoPid /\ mascot'[i].pid \notin {NoPid, mascot[i].pid})
                => Merged("GatewayUp")]_vars

\* sweep_presence_ttl: a run whose end got lost does not keep a mascot busy,
\* however long its gateway goes on serving others.
BusyEnds == \A i \in Inst : []<>(mascot[i].runs = NoRuns)

\* Whatever gets lost, once its gateways are dead the stage empties.
StageEmpties ==
    <>[](\A p \in Pid : ~Alive(p)) => <>[](\A i \in Inst : mascot[i].life = "Absent")
=============================================================================

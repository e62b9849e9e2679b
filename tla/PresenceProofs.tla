--------------------------- MODULE PresenceProofs ---------------------------
(* A mascot that is bound to a process hears of its death, and of no other *)
(* one, for any number of gateways, processes, runs and connections.       *)
EXTENDS Presence, SequenceTheorems, TLAPS

-----------------------------------------------------------------------------
(* The shape of the state.                                                 *)

DeltaKinds == {"GatewayUp", "GatewayDown", "SessionStarted", "SessionEnded", "RunStarted",
               "RunEnded", "RunFailed", "PidSeen", "PidExited"}

Deltas   == [kind : DeltaKinds, pid : Pid \cup {NoPid}, run : Run \cup {NoRun}]
Messages == [inst : Inst, delta : Deltas]
Sends    == [inst : Inst, deltas : Seq(Deltas) \ {<<>>}]
Arming   == [inst : Inst, pid : Pid, noted : BOOLEAN]

\* A mascot, its ages left open.
Figure == [life : {"Absent", "Up", "Degraded", "Down"}, runs : [Run -> Int],
           pid : Pid \cup {NoPid}, seen : Int]

Shape ==
    /\ mascot \in [Inst -> Figure]
    /\ pids \in [Pid -> SUBSET Inst]
    /\ chan \in Seq(Messages)
    /\ conn \in [Conn -> Sends \cup {Idle}]
    /\ arming \in Arming \cup {NotArming}
    /\ taken \in SUBSET [inst : Inst, pid : Pid]
    /\ exits \in [Pid -> Nat] /\ owed \in SUBSET Pid /\ up = TRUE
    /\ home \in [Pid -> Inst \cup {Nobody}]

\* Who is not on stage is bound to nothing, and without the source connected
\* nobody is.
Unbound == \A i \in Inst : mascot[i].life = "Absent" \/ ~Connected => mascot[i].pid = NoPid

LEMMA FigureOpen ==
    /\ Absent \in Figure /\ Newborn \in Figure /\ NoRuns \in [Run -> Int]
    /\ \A m \in Figure :
          /\ EnterDown(m) \in Figure /\ Revived(m) \in Figure /\ Refreshed(m) \in Figure
          /\ Decay(m) \in Figure /\ MarkDown(m) \in Figure /\ Swept(m) \in Figure
          /\ EnterDown(m).pid = NoPid /\ Revived(m).pid = m.pid
          /\ Refreshed(m).pid \in {m.pid, NoPid} /\ Decay(m).pid = m.pid
          /\ MarkDown(m).pid \in {m.pid, NoPid} /\ Swept(m).pid \in {m.pid, NoPid}
          /\ Refreshed(m).life # "Absent" /\ EnterDown(m).life # "Absent"
          /\ m.life # "Absent" => Revived(m).life # "Absent"
          /\ MarkDown(m).life = "Absent" => m.life = "Absent"
          /\ Swept(m).life = "Absent" => Swept(m).pid = NoPid
<1>1. Absent \in Figure /\ Newborn \in Figure /\ NoRuns \in [Run -> Int] /\ Absent.pid = NoPid
    BY DEF Absent, Newborn, NoRuns, Figure, Never
<1>2. \A m \in Figure : /\ EnterDown(m) \in Figure /\ EnterDown(m).pid = NoPid
                        /\ EnterDown(m).life # "Absent"
    BY <1>1 DEF EnterDown, Figure
<1>3. \A m \in Figure : /\ Revived(m) \in Figure /\ Revived(m).pid = m.pid
                        /\ m.life # "Absent" => Revived(m).life # "Absent"
    BY DEF Revived, Figure
<1>4. \A m \in Figure : /\ Refreshed(m) \in Figure /\ Refreshed(m).pid \in {m.pid, NoPid}
                        /\ Refreshed(m).life # "Absent"
    BY <1>1 DEF Refreshed, Newborn, Absent, Figure
<1>5. \A m \in Figure : Decay(m) \in Figure /\ Decay(m).pid = m.pid /\ Decay(m).life = m.life
    BY DEF Decay, Figure, Never
<1>6. \A m \in Figure : /\ MarkDown(m) \in Figure /\ MarkDown(m).pid \in {m.pid, NoPid}
                        /\ MarkDown(m).life = "Absent" => m.life = "Absent"
    BY <1>2 DEF MarkDown
<1>7. \A m \in Figure : /\ Swept(m) \in Figure /\ Swept(m).pid \in {m.pid, NoPid}
                        /\ Swept(m).life = "Absent" => Swept(m).pid = NoPid
    BY <1>1, <1>2, <1>5 DEF Swept
<1> QED BY <1>1, <1>2, <1>3, <1>4, <1>5, <1>6, <1>7

\* What one delta does to a mascot, and to its binding.
LEMMA ApplyEffect ==
    ASSUME NEW m \in Figure, NEW d \in Deltas
    PROVE  /\ ApplyPresence(m, d) \in Figure
           /\ \/ ApplyPresence(m, d).pid \in {m.pid, NoPid}
              \/ ApplyPresence(m, d).pid = d.pid /\ d.kind \in {"GatewayUp", "PidSeen"}
           /\ ApplyPresence(m, d).life = "Absent" => ApplyPresence(m, d) = m
           /\ d.kind = "PidExited" /\ m.life # "Absent" =>
                 ApplyPresence(m, d).pid # d.pid \/ d.pid = NoPid
<1> DEFINE r == Refreshed(m)
           a == ApplyPresence(m, d)
<1>1. r \in Figure /\ r.pid \in {m.pid, NoPid} /\ r.life # "Absent" /\ d.pid \in Pid \cup {NoPid} /\ d.kind \in DeltaKinds
    BY FigureOpen DEF Deltas
<1> HIDE DEF r
<1>2. CASE d.kind = "GatewayUp"
    <2>1. a = [Newborn EXCEPT !.pid = d.pid]
        BY <1>2 DEF ApplyPresence, Live
    <2>2. Newborn.life # "Absent" /\ Newborn \in Figure
        BY FigureOpen DEF Newborn, Absent
    <2> QED BY <1>1, <1>2, <2>1, <2>2 DEF Figure
<1>3. CASE d.kind \in {"GatewayDown", "SessionStarted", "SessionEnded"}
    <2>1. a = EnterDown(r) \/ a = Revived(r)
        BY <1>3 DEF ApplyPresence, Live, r
    <2> QED BY <1>1, <1>3, <2>1, FigureOpen
<1>4. CASE d.kind \in {"RunStarted", "RunEnded", "RunFailed"}
    <2>1. \A k : [r EXCEPT !.runs[k] = Never] \in Figure /\ [r EXCEPT !.runs[k] = 0] \in Figure
        BY <1>1 DEF Figure, Never
    <2>2. a.pid = r.pid /\ a \in Figure /\ a.life # "Absent"
        BY <1>1, <1>4, <2>1 DEF ApplyPresence, Live, Ended, Figure, r
    <2> QED BY <1>1, <1>4, <2>2
<1>5. CASE d.kind = "PidSeen"
    <2>1. a = [r EXCEPT !.pid = IF @ = NoPid THEN d.pid ELSE @]
        BY <1>5 DEF ApplyPresence, Live, Sight, r
    <2> QED BY <1>1, <1>5, <2>1 DEF Figure
<1>6. CASE d.kind = "PidExited"
    BY <1>1, <1>6, FigureOpen DEF ApplyPresence
<1> QED BY <1>1, <1>2, <1>3, <1>4, <1>5, <1>6 DEF DeltaKinds
-----------------------------------------------------------------------------
(* The channel.                                                            *)

InQueue(q, x) == \E n \in DOMAIN q : q[n] = x

LEMMA Pushed ==
    ASSUME NEW q \in Seq(Messages), NEW x \in Messages
    PROVE  /\ Append(q, x) \in Seq(Messages) /\ InQueue(Append(q, x), x)
           /\ \A y : InQueue(q, y) => InQueue(Append(q, x), y)
<1>1. /\ Append(q, x) \in Seq(Messages) /\ Len(Append(q, x)) = Len(q) + 1 /\ Len(q) \in Nat
      /\ DOMAIN q = 1..Len(q) /\ DOMAIN Append(q, x) = 1..(Len(q) + 1)
      /\ Append(q, x)[Len(q) + 1] = x /\ \A n \in 1..Len(q) : Append(q, x)[n] = q[n]
    OBVIOUS
<1>2. Len(q) + 1 \in DOMAIN Append(q, x) /\ DOMAIN q \subseteq DOMAIN Append(q, x)
    BY <1>1
<1> QED BY <1>1, <1>2 DEF InQueue

LEMMA Popped ==
    ASSUME NEW q \in Seq(Messages), q # <<>>
    PROVE  /\ Head(q) \in Messages /\ Tail(q) \in Seq(Messages)
           /\ \A y : InQueue(q, y) /\ y # Head(q) => InQueue(Tail(q), y)
<1>1. /\ Head(q) \in Messages /\ Tail(q) \in Seq(Messages) /\ Len(Tail(q)) = Len(q) - 1
      /\ Len(q) \in Nat /\ Head(q) = q[1] /\ DOMAIN q = 1..Len(q)
      /\ DOMAIN Tail(q) = 1..(Len(q) - 1)
      /\ \A n \in 1..(Len(q) - 1) : Tail(q)[n] = q[n + 1]
    BY HeadTailProperties, LenProperties
<1>2. ASSUME NEW y, InQueue(q, y), y # Head(q)
      PROVE  InQueue(Tail(q), y)
    <2>1. PICK n \in 1..Len(q) : q[n] = y
        BY <1>1, <1>2 DEF InQueue
    <2>2. n - 1 \in 1..(Len(q) - 1) /\ (n - 1) + 1 = n
        BY <1>1, <1>2, <2>1
    <2> QED BY <1>1, <2>1, <2>2 DEF InQueue
<1> QED BY <1>1, <1>2

LEMMA SendsParts ==
    ASSUME NEW k \in Sends
    PROVE  /\ k.inst \in Inst /\ Head(k.deltas) \in Deltas
           /\ Len(k.deltas) # 1 => [k EXCEPT !.deltas = Tail(k.deltas)] \in Sends
<1>1. k.inst \in Inst /\ k.deltas \in Seq(Deltas) /\ k.deltas # <<>>
    BY DEF Sends
<1>2. /\ Head(k.deltas) \in Deltas /\ Tail(k.deltas) \in Seq(Deltas)
      /\ Len(Tail(k.deltas)) = Len(k.deltas) - 1
    BY <1>1, HeadTailProperties
<1>3. ASSUME Len(k.deltas) # 1 PROVE Tail(k.deltas) # <<>>
    <2>1. Len(k.deltas) \in Nat
        BY <1>1, LenProperties
    <2>2. Len(Tail(k.deltas)) # 0
        BY <1>2, <1>3, <2>1
    <2> QED BY <2>2, EmptySeq
<1> QED BY <1>1, <1>2, <1>3 DEF Sends

LEMMA DecodedShape ==
    ASSUME NEW what \in Lasting \cup Talk, NEW p \in Pid \cup {NoPid}, NEW run \in Run
    PROVE  Decoded(what, p, run) \in Seq(Deltas) \ {<<>>}
<1>1. \A k \in DeltaKinds, q \in Pid \cup {NoPid}, r \in Run \cup {NoRun} : Delta(k, q, r) \in Deltas
    BY DEF Delta, Deltas
<1> DEFINE sighted == IF p = NoPid THEN <<>> ELSE <<Delta("PidSeen", p, NoRun)>>
<1>2. sighted \in Seq(Deltas)
    BY <1>1 DEF DeltaKinds
<1> HIDE DEF sighted
<1>3. \A d \in Deltas : sighted \o <<d>> \in Seq(Deltas) \ {<<>>}
    <2> TAKE d \in Deltas
    <2>1. <<d>> \in Seq(Deltas) /\ Len(<<d>>) = 1
        OBVIOUS
    <2>2. sighted \o <<d>> \in Seq(Deltas) /\ Len(sighted \o <<d>>) = Len(sighted) + 1
        BY <1>2, <2>1, ConcatProperties
    <2> QED BY <1>2, <2>2, LenProperties
<1>4. Delta("GatewayUp", p, NoRun) \in Deltas
    BY <1>1 DEF DeltaKinds
<1>5. <<Delta("GatewayUp", p, NoRun)>> \in Seq(Deltas) \ {<<>>}
    BY <1>4
<1>6. what \in {"gateway_start", "gateway_stop", "session_start", "session_end",
                "before_agent_run", "agent_end", "agent_end failed"}
    BY PresenceAssumption
<1>7. /\ Delta("GatewayDown", NoPid, NoRun) \in Deltas /\ Delta("SessionStarted", NoPid, NoRun) \in Deltas
      /\ Delta("SessionEnded", NoPid, NoRun) \in Deltas /\ Delta("RunStarted", NoPid, run) \in Deltas
      /\ Delta("RunEnded", NoPid, run) \in Deltas /\ Delta("RunFailed", NoPid, run) \in Deltas
    BY <1>1 DEF DeltaKinds
<1> QED BY <1>3, <1>5, <1>6, <1>7 DEF Decoded, sighted
-----------------------------------------------------------------------------
(* The inductive invariant.                                                *)

PInv == Shape /\ Unbound /\ BoundIsWatched

LEMMA InitPInv == Init => PInv
<1> SUFFICES ASSUME Init PROVE PInv
    OBVIOUS
<1>1. Shape
    BY FigureOpen DEF Init, Shape, Watch!Init
<1>2. \A i \in Inst : mascot[i].pid = NoPid
    BY DEF Init, Absent
<1> QED BY <1>1, <1>2 DEF PInv, Unbound, BoundIsWatched

\* A step that keeps the mascots' bindings, or lets go of some, and that keeps
\* every route, keeps the invariant.
LEMMA RoutesKept ==
    ASSUME PInv, Shape', Unbound',
           \A i \in Inst : mascot'[i].pid \in {mascot[i].pid, NoPid},
           \A p \in Pid, i \in Inst : Routed(p, i) => Routed(p, i)'
    PROVE  PInv'
<1>1. \A i \in Inst : mascot[i].pid \in Pid \cup {NoPid}
    BY DEF PInv, Shape, Figure
<1> QED BY <1>1 DEF PInv, BoundIsWatched

LEMMA StillUnbound ==
    ASSUME PInv, mascot' = mascot
    PROVE  Unbound'
    BY DEF PInv, Unbound

\* A step that leaves mascots, bindings, reports and receipts alone, and at most
\* adds to the channel.
LEMMA Bystander ==
    ASSUME PInv, Shape', UNCHANGED <<mascot, pids, arming, taken, owed, exits>>,
           \A y : InQueue(chan, y) => InQueue(chan', y)
    PROVE  PInv'
<1>1. \A p \in Pid, i \in Inst : Routed(p, i) => Routed(p, i)'
    BY DEF Routed, InQueue
<1> QED BY <1>1, StillUnbound, RoutesKept

LEMMA WorldSteps ==
    ASSUME PInv, (\E i \in Inst : Start(i)) \/ (\E p \in Pid : Die(p))
                 \/ (\E c \in Conn, p \in Pid : Receive(c, p))
    PROVE  PInv'
<1> USE DEF watch, world
<1>1. UNCHANGED <<mascot, pids, chan, arming, taken, owed, exits, up>>
    BY DEF Start, Die, Receive, Watch!Exit
<1>2. CASE \E i \in Inst : Start(i)
    <2>1. PICK i \in Inst : Start(i)
        BY <1>2
    <2>2. \E p \in Pid : home' = [home EXCEPT ![p] = i]
        BY <2>1 DEF Start
    <2>3. Shape'
        BY <1>1, <2>1, <2>2 DEF PInv, Shape, Start
    <2> QED BY <1>1, <2>3, Bystander
<1>3. CASE \E p \in Pid : Die(p)
    <2>1. Shape'
        BY <1>1, <1>3 DEF PInv, Shape, Die
    <2> QED BY <1>1, <2>1, Bystander
<1>4. CASE \E c \in Conn, p \in Pid : Receive(c, p)
    <2>1. PICK c \in Conn, p \in Pid : Receive(c, p)
        BY <1>4
    <2>2. PICK what \in Lasting \cup Talk, run \in Run, stamped \in Stamped :
             conn' = [conn EXCEPT ![c] =
                        [inst |-> home[p], deltas |-> Decoded(what, IF stamped THEN p ELSE NoPid, run)]]
        <3>1. PICK what \in Lasting \cup Talk, run \in Run, stamped \in Stamped :
                 /\ \/ what \in Talk /\ Alive(p) /\ left' = left
                    \/ ~(what \in Talk /\ Alive(p)) /\ left > 0 /\ left' = left - 1
                 /\ conn' = [conn EXCEPT ![c] =
                        [inst |-> home[p], deltas |-> Decoded(what, IF stamped THEN p ELSE NoPid, run)]]
            BY <2>1, Zenon DEF Receive
        <3> QED BY <3>1, Zenon
    <2>3. home[p] \in Inst
        BY <2>1 DEF Receive, Born, PInv, Shape
    <2>4. Decoded(what, IF stamped THEN p ELSE NoPid, run) \in Seq(Deltas) \ {<<>>}
        BY DecodedShape
    <2>5. [inst |-> home[p], deltas |-> Decoded(what, IF stamped THEN p ELSE NoPid, run)] \in Sends
        BY <2>3, <2>4 DEF Sends
    <2>6. Shape'
        BY <1>1, <2>1, <2>2, <2>5 DEF PInv, Shape, Receive
    <2> QED BY <1>1, <2>6, Bystander
<1> QED BY <1>2, <1>3, <1>4

LEMMA SendStep ==
    ASSUME PInv, NEW c \in Conn, Send(c)
    PROVE  PInv'
<1> USE DEF watch, world
<1>1. conn[c] \in Sends /\ UNCHANGED <<mascot, pids, arming, taken, owed, exits, up, home>>
    BY DEF Send, PInv, Shape
<1>2. Message(conn[c].inst, Head(conn[c].deltas)) \in Messages
    BY <1>1, SendsParts DEF Message, Messages
<1>3. chan' \in Seq(Messages) /\ \A y : InQueue(chan, y) => InQueue(chan', y)
    BY <1>2, Pushed DEF Send, PInv, Shape
<1>4. conn' \in [Conn -> Sends \cup {Idle}]
    <2> DEFINE k == IF Len(conn[c].deltas) = 1 THEN Idle
                    ELSE [conn[c] EXCEPT !.deltas = Tail(conn[c].deltas)]
    <2>1. conn' = [conn EXCEPT ![c] = k]
        BY DEF Send
    <2>2. k \in Sends \cup {Idle}
        BY <1>1, SendsParts
    <2> HIDE DEF k
    <2> QED BY <2>1, <2>2 DEF PInv, Shape
<1>5. Shape'
    BY <1>1, <1>3, <1>4 DEF PInv, Shape
<1> QED BY <1>1, <1>3, <1>5, Bystander

LEMMA ForwardStep ==
    ASSUME PInv, NEW x \in taken, Forward(x)
    PROVE  PInv'
<1> USE DEF watch, world
<1> DEFINE m == Message(x.inst, Delta("PidExited", x.pid, NoRun))
<1>1. x.inst \in Inst /\ x.pid \in Pid /\ x = [inst |-> x.inst, pid |-> x.pid]
    BY DEF PInv, Shape
<1>2. m \in Messages
    BY <1>1 DEF Message, Delta, Messages, Deltas, DeltaKinds
<1>3. /\ UNCHANGED <<mascot, pids, arming, owed, exits, up, conn, home>>
      /\ chan' = Append(chan, m) /\ taken' = taken \ {x}
    BY DEF Forward
<1> HIDE DEF m
<1>4. chan' \in Seq(Messages) /\ InQueue(chan', m) /\ \A y : InQueue(chan, y) => InQueue(chan', y)
    BY <1>2, <1>3, Pushed DEF PInv, Shape
<1>5. Shape'
    BY <1>3, <1>4 DEF PInv, Shape
<1>6. ASSUME NEW p \in Pid, NEW i \in Inst, Routed(p, i)
      PROVE  Routed(p, i)'
    <2>1. CASE [inst |-> i, pid |-> p] = x
        <3>1. m = Message(i, Delta("PidExited", p, NoRun))
            BY <2>1 DEF m
        <3> QED BY <1>4, <3>1 DEF Routed, InQueue
    <2>2. CASE [inst |-> i, pid |-> p] # x
        BY <1>3, <1>4, <1>6, <2>2 DEF Routed, InQueue
    <2> QED BY <2>1, <2>2
<1> QED BY <1>3, <1>5, <1>6, StillUnbound, RoutesKept

-----------------------------------------------------------------------------
(* The reducer task.                                                       *)

LEMMA NoPidIsNone == /\ NoPid \notin Pid /\ NotArming \notin Arming
                     /\ NotArming.pid = NoPid /\ ~NotArming.noted
<1>1. NoPid \notin Pid
    BY PresenceAssumption
<1> QED BY <1>1 DEF NotArming, Arming

LEMMA MergeStep ==
    ASSUME PInv, Merge
    PROVE  PInv'
<1> USE DEF watch, world
<1> DEFINE x == Head(chan)
           m == ApplyPresence(mascot[x.inst], x.delta)
<1>1. /\ x \in Messages /\ chan' \in Seq(Messages)
      /\ \A y : InQueue(chan, y) /\ y # x => InQueue(chan', y)
    BY Popped DEF Merge, PInv, Shape
<1>2. x.inst \in Inst /\ x.delta \in Deltas /\ x = Message(x.inst, x.delta)
      /\ x.delta.pid \in Pid \cup {NoPid}
    BY <1>1 DEF Messages, Message, Deltas
<1>3. mascot[x.inst] \in Figure /\ mascot[x.inst].pid \in Pid \cup {NoPid}
    BY <1>2 DEF PInv, Shape, Figure
<1>4. /\ m \in Figure
      /\ \/ m.pid \in {mascot[x.inst].pid, NoPid}
         \/ m.pid = x.delta.pid /\ x.delta.kind \in {"GatewayUp", "PidSeen"}
      /\ m.life = "Absent" => m = mascot[x.inst]
      /\ x.delta.kind = "PidExited" /\ mascot[x.inst].life # "Absent" =>
            m.pid # x.delta.pid \/ x.delta.pid = NoPid
    BY <1>2, <1>3, ApplyEffect
<1>5. /\ UNCHANGED <<pids, conn, taken, owed, exits, up, home>>
      /\ arming = NotArming
      /\ Connected => /\ mascot' = [mascot EXCEPT ![x.inst] = m]
                      /\ arming' = IF Armable(x.delta)
                                   THEN [inst |-> x.inst, pid |-> x.delta.pid, noted |-> FALSE]
                                   ELSE arming
      /\ ~Connected => UNCHANGED <<mascot, arming>>
    BY DEF Merge
<1> HIDE DEF m, x
<1>6. mascot' \in [Inst -> Figure] /\ arming' \in Arming \cup {NotArming}
    <2>1. mascot \in [Inst -> Figure]
        BY DEF PInv, Shape
    <2>2. mascot' \in [Inst -> Figure]
        BY <1>2, <1>4, <1>5, <2>1
    <2>3. Armable(x.delta) => [inst |-> x.inst, pid |-> x.delta.pid, noted |-> FALSE] \in Arming
        BY <1>2 DEF Armable, Arming
    <2> QED BY <1>5, <2>2, <2>3
<1>7. Shape'
    BY <1>1, <1>5, <1>6 DEF PInv, Shape
<1>8. Unbound'
    BY <1>2, <1>4, <1>5 DEF PInv, Shape, Unbound
<1>9. ASSUME NEW i \in Inst, NEW p \in Pid, mascot'[i].pid = p
      PROVE  Routed(p, i)'
    <2>0. p # NoPid
        BY NoPidIsNone
    <2>1. CASE i = x.inst /\ p # mascot[i].pid
        <3>1. p = x.delta.pid /\ x.delta.kind \in {"GatewayUp", "PidSeen"} /\ Connected
            BY <1>2, <1>4, <1>5, <1>9, <2>0, <2>1 DEF PInv, Shape
        <3>2. arming' = [inst |-> i, pid |-> p, noted |-> FALSE]
            BY <1>5, <2>0, <2>1, <3>1 DEF Armable
        <3> QED BY <3>2 DEF Routed
    <2>2. CASE p = mascot[i].pid
        <3>1. Routed(p, i)
            BY <2>0, <2>2 DEF PInv, BoundIsWatched
        <3>2. x # Message(i, Delta("PidExited", p, NoRun))
            <4>1. SUFFICES ASSUME x = Message(i, Delta("PidExited", p, NoRun)) PROVE FALSE
                OBVIOUS
            <4>2. x.inst = i /\ x.delta.kind = "PidExited" /\ x.delta.pid = p
                BY <4>1 DEF Message, Delta
            <4>3. Connected /\ mascot[i].life # "Absent"
                BY <2>0, <2>2 DEF PInv, Unbound
            <4>4. p = m.pid
                BY <1>2, <1>5, <1>9, <4>2, <4>3 DEF PInv, Shape
            <4>5. mascot[x.inst].life # "Absent"
                BY <4>2, <4>3
            <4> QED BY <1>4, <2>0, <4>2, <4>4, <4>5
        <3>3. InQueue(chan, Message(i, Delta("PidExited", p, NoRun))) =>
                 InQueue(chan', Message(i, Delta("PidExited", p, NoRun)))
            BY <1>1, <3>2
        <3>4. arming.pid # p
            BY <1>5, NoPidIsNone
        <3> QED BY <1>5, <3>1, <3>3, <3>4 DEF Routed, InQueue
    <2>3. CASE i # x.inst /\ p # mascot[i].pid
        BY <1>2, <1>5, <1>9, <2>3 DEF PInv, Shape
    <2> QED BY <2>1, <2>2, <2>3
<1>10. BoundIsWatched'
    <2>1. \A i \in Inst : mascot'[i].pid \in Pid \cup {NoPid}
        BY <1>6 DEF Figure
    <2> QED BY <1>9, <2>1 DEF BoundIsWatched
<1> QED BY <1>7, <1>8, <1>10 DEF PInv

LEMMA NoteStep ==
    ASSUME PInv, Note
    PROVE  PInv'
<1> USE DEF watch, world
<1>1. arming \in Arming /\ arming.pid \in Pid /\ arming.inst \in Inst
    BY DEF Note, PInv, Shape, Arming
<1>2. /\ UNCHANGED <<mascot, chan, conn, taken, owed, exits, up, home>>
      /\ pids' = [pids EXCEPT ![arming.pid] = @ \cup {arming.inst}]
      /\ arming' = [arming EXCEPT !.noted = TRUE]
    BY DEF Note
<1>3. Shape'
    BY <1>1, <1>2 DEF PInv, Shape, Arming
<1>4. arming'.pid = arming.pid /\ \A p \in Pid : pids[p] \subseteq pids'[p]
    BY <1>1, <1>2 DEF PInv, Shape, Arming
<1>5. arming.inst \in pids'[arming.pid]
    BY <1>1, <1>2 DEF PInv, Shape
<1>6. ASSUME NEW p \in Pid, NEW i \in Inst, Routed(p, i)
      PROVE  Routed(p, i)'
    BY <1>2, <1>4, <1>5, <1>6 DEF Routed
<1>7. \A i \in Inst : mascot'[i].pid \in {mascot[i].pid, NoPid}
    BY <1>2
<1> QED BY <1>2, <1>3, <1>6, <1>7, StillUnbound, RoutesKept

LEMMA ArmStep ==
    ASSUME PInv, Arm
    PROVE  PInv'
<1> USE DEF watch, world
<1>1. arming \in Arming /\ arming.pid \in Pid /\ arming.noted
    BY NoPidIsNone DEF Arm, PInv, Shape, Arming
<1>2. /\ UNCHANGED <<mascot, pids, chan, conn, taken, exits, up, home>>
      /\ owed' = owed \cup {arming.pid} /\ arming' = NotArming
    BY DEF Arm, Watch!HandOver, PInv, Shape
<1>3. Shape'
    BY <1>1, <1>2 DEF PInv, Shape
<1>4. ASSUME NEW p \in Pid, NEW i \in Inst, Routed(p, i)
      PROVE  Routed(p, i)'
    BY <1>1, <1>2, <1>4 DEF Routed
<1>5. \A i \in Inst : mascot'[i].pid \in {mascot[i].pid, NoPid}
    BY <1>2
<1> QED BY <1>2, <1>3, <1>4, <1>5, StillUnbound, RoutesKept

LEMMA ClockSteps ==
    ASSUME PInv, Sweep \/ Elapse
    PROVE  PInv'
<1> USE DEF watch, world
<1>1. UNCHANGED <<pids, chan, conn, arming, taken, owed, exits, up, home>>
    BY DEF Sweep, Elapse
<1>2. /\ mascot' \in [Inst -> Figure]
      /\ \A i \in Inst : /\ mascot'[i].pid \in {mascot[i].pid, NoPid}
                         /\ mascot'[i].life = "Absent" => mascot'[i].pid = NoPid
    <2>1. CASE Sweep
        <3> DEFINE a(i) == IF Connected THEN mascot[i] ELSE MarkDown(mascot[i])
        <3>1. mascot' = [i \in Inst |-> Swept(a(i))]
            BY <2>1 DEF Sweep
        <3>2. \A i \in Inst : a(i) \in Figure /\ a(i).pid \in {mascot[i].pid, NoPid}
            BY FigureOpen DEF PInv, Shape
        <3> HIDE DEF a
        <3>3. \A i \in Inst : /\ Swept(a(i)) \in Figure
                              /\ Swept(a(i)).pid \in {a(i).pid, NoPid}
                              /\ Swept(a(i)).life = "Absent" => Swept(a(i)).pid = NoPid
            BY <3>2, FigureOpen
        <3> QED BY <3>1, <3>2, <3>3
    <2>2. CASE Elapse
        <3>1. BusyDecay \in Nat \ {0} /\ PresenceTtl \in Nat \ {0} /\ DownRemove \in Nat \ {0}
            <4>1. \A k \in {BusyDecay, PresenceTtl, DownRemove, MaxReports, MaxQueue} : k \in Nat \ {0}
                BY PresenceAssumption, Zenon
            <4> QED BY <4>1, Zenon
        <3>2. BusyDecay \in Int /\ Cap \in Int
            BY <3>1 DEF Cap
        <3>4. \A n \in Int, cap \in Int : Older(n, cap) \in Int
            BY DEF Older, Never
        <3>3. ASSUME NEW i \in Inst
              PROVE  /\ mascot'[i] \in Figure /\ mascot'[i].pid = mascot[i].pid
                     /\ mascot'[i].life = mascot[i].life
            <4>1. mascot[i] \in Figure
                BY DEF PInv, Shape
            <4> DEFINE s == IF mascot[i].life = "Absent" THEN 0 ELSE Older(mascot[i].seen, Cap)
                       r == [k \in Run |-> Older(mascot[i].runs[k], BusyDecay)]
            <4>2. mascot'[i] = [mascot[i] EXCEPT !.seen = s, !.runs = r]
                BY <2>2, <4>1 DEF Elapse, Figure
            <4>3. s \in Int /\ r \in [Run -> Int]
                <5>1. mascot[i].seen \in Int /\ \A k \in Run : mascot[i].runs[k] \in Int
                    BY <4>1 DEF Figure
                <5>2. Older(mascot[i].seen, Cap) \in Int
                    BY <3>2, <3>4, <5>1
                <5>3. \A k \in Run : Older(mascot[i].runs[k], BusyDecay) \in Int
                    BY <3>2, <3>4, <5>1
                <5> QED BY <5>2, <5>3
            <4> HIDE DEF s, r
            <4> QED BY <4>1, <4>2, <4>3 DEF Figure
        <3>5. mascot' \in [Inst -> Figure]
            BY <2>2, <3>3 DEF Elapse
        <3> QED BY <3>3, <3>5 DEF PInv, Unbound
    <2> QED BY <2>1, <2>2
<1>3. Shape'
    BY <1>1, <1>2 DEF PInv, Shape
<1>4. Unbound'
    BY <1>2 DEF PInv, Unbound
<1>5. ASSUME NEW p \in Pid, NEW i \in Inst, Routed(p, i)
      PROVE  Routed(p, i)'
    BY <1>1, <1>5 DEF Routed
<1> QED BY <1>2, <1>3, <1>4, <1>5, RoutesKept
-----------------------------------------------------------------------------
(* The exit watch and the drain task.                                      *)

LEMMA ReportStep ==
    ASSUME PInv, NEW p \in Pid, Report(p)
    PROVE  PInv'
<1> USE DEF watch, world
<1>1. /\ UNCHANGED <<mascot, pids, chan, conn, arming, taken, up, home>>
      /\ exits' = [exits EXCEPT ![p] = @ + 1] /\ owed' \in {owed, owed \ {p}}
    BY DEF Report, Watch!Report
<1>2. Shape' /\ exits'[p] > 0 /\ \A q \in Pid \ {p} : exits'[q] = exits[q]
    BY <1>1 DEF PInv, Shape
<1>3. ASSUME NEW q \in Pid, NEW i \in Inst, Routed(q, i)
      PROVE  Routed(q, i)'
    BY <1>1, <1>2, <1>3 DEF Routed
<1>4. \A i \in Inst : mascot'[i].pid \in {mascot[i].pid, NoPid}
    BY <1>1
<1> QED BY <1>1, <1>2, <1>3, <1>4, StillUnbound, RoutesKept

LEMMA TakeStep ==
    ASSUME PInv, NEW p \in Pid, Take(p)
    PROVE  PInv'
<1> USE DEF watch, world
<1>1. /\ UNCHANGED <<mascot, chan, conn, arming, owed, up, home>>
      /\ taken = {} /\ taken' = {[inst |-> i, pid |-> p] : i \in pids[p]}
      /\ pids' = [pids EXCEPT ![p] = {}]
      /\ exits[p] > 0 /\ exits' = [exits EXCEPT ![p] = @ - 1]
    BY DEF Take, Watch!Receive
<1>2. Shape'
    BY <1>1 DEF PInv, Shape
<1>3. /\ \A i \in pids[p] : [inst |-> i, pid |-> p] \in taken'
      /\ \A q \in Pid \ {p} : pids'[q] = pids[q] /\ exits'[q] = exits[q]
    BY <1>1 DEF PInv, Shape
<1>4. ASSUME NEW q \in Pid, NEW i \in Inst, Routed(q, i)
      PROVE  Routed(q, i)'
    BY <1>1, <1>3, <1>4 DEF Routed
<1>5. \A i \in Inst : mascot'[i].pid \in {mascot[i].pid, NoPid}
    BY <1>1
<1> QED BY <1>1, <1>2, <1>4, <1>5, StillUnbound, RoutesKept

LEMMA NextPInv == PInv /\ [Next]_vars => PInv'
<1> SUFFICES ASSUME PInv, [Next]_vars PROVE PInv'
    OBVIOUS
<1>1. CASE UNCHANGED vars
    BY <1>1 DEF PInv, Shape, Unbound, BoundIsWatched, Routed, vars, watch, world
<1>2. CASE Next
    BY <1>2, WorldSteps, SendStep, ForwardStep, MergeStep, NoteStep, ArmStep, ClockSteps,
       ReportStep, TakeStep, Zenon DEF Next
<1> QED BY <1>1, <1>2

\* PresenceExitWatch::watch and its drain, for any number of gateways,
\* processes and connections: a mascot bound to a process hears of its death,
\* wherever note, hand-over, report and take may interleave.
THEOREM MascotsAreWatched == Spec => []BoundIsWatched
<1>1. PInv => BoundIsWatched
    BY DEF PInv
<1> QED BY <1>1, InitPInv, NextPInv, PTL DEF Spec
-----------------------------------------------------------------------------
(* The replacement.                                                        *)

Exited(d) == d.kind = "PidExited"

\* Every word of a death, wherever it is, is of a process that is gone.
Truthful ==
    /\ \A p \in Pid : exits[p] > 0 => p \in gone
    /\ \A x \in taken : x.pid \in gone
    /\ \A n \in DOMAIN chan : Exited(chan[n].delta) => chan[n].delta.pid \in gone
    /\ \A c \in Conn : \A n \in DOMAIN conn[c].deltas : ~Exited(conn[c].deltas[n])

\* No envelope speaks of an exit.
LEMMA EnvelopesTellNoExit ==
    ASSUME NEW what \in Lasting \cup Talk, NEW p, NEW run
    PROVE  \A n \in DOMAIN Decoded(what, p, run) : ~Exited(Decoded(what, p, run)[n])
<1> DEFINE sighted == IF p = NoPid THEN <<>> ELSE <<Delta("PidSeen", p, NoRun)>>
           kinds == {"GatewayUp", "GatewayDown", "SessionStarted", "SessionEnded", "RunStarted", "RunEnded", "RunFailed"}
<1>1. \E k \in kinds : \E q, r : Decoded(what, p, run) \in {<<Delta(k, q, r)>>, sighted \o <<Delta(k, q, r)>>}
    <2>1. what \in {"session_start", "session_end", "gateway_start", "gateway_stop", "before_agent_run",
                    "agent_end", "agent_end failed"}
        BY PresenceAssumption
    <2> HIDE DEF sighted
    <2> QED BY <2>1 DEF Decoded, sighted
<1>2. ASSUME NEW k \in kinds, NEW q, NEW r
      PROVE  \A w \in {<<Delta(k, q, r)>>, sighted \o <<Delta(k, q, r)>>} :
                \A n \in DOMAIN w : ~Exited(w[n])
    <2>1. ~Exited(Delta(k, q, r)) /\ ~Exited(Delta("PidSeen", p, NoRun))
        BY DEF Exited, Delta
    <2> HIDE DEF kinds
    <2> QED BY <2>1
<1> QED BY <1>1, <1>2

LEMMA SendParts ==
    ASSUME NEW q \in Seq(Deltas), q # <<>>, \A n \in DOMAIN q : ~Exited(q[n])
    PROVE  ~Exited(Head(q)) /\ \A n \in DOMAIN Tail(q) : ~Exited(Tail(q)[n])
<1>1. /\ Head(q) = q[1] /\ DOMAIN q = 1..Len(q) /\ Len(q) \in Nat \ {0}
      /\ DOMAIN Tail(q) = 1..(Len(q) - 1) /\ \A n \in 1..(Len(q) - 1) : Tail(q)[n] = q[n + 1]
    BY HeadTailProperties, LenProperties, EmptySeq
<1> QED BY <1>1

\* What is true of a queue's members stays true of what is popped or pushed.
LEMMA QueueTells ==
    ASSUME NEW q \in Seq(Messages), NEW x \in Messages,
           \A n \in DOMAIN q : Exited(q[n].delta) => q[n].delta.pid \in gone
    PROVE  /\ q # <<>> => /\ Exited(Head(q).delta) => Head(q).delta.pid \in gone
                          /\ \A n \in DOMAIN Tail(q) : Exited(Tail(q)[n].delta) => Tail(q)[n].delta.pid \in gone
           /\ (Exited(x.delta) => x.delta.pid \in gone) =>
                 \A n \in DOMAIN Append(q, x) :
                    Exited(Append(q, x)[n].delta) => Append(q, x)[n].delta.pid \in gone
<1>1. DOMAIN q = 1..Len(q) /\ Len(q) \in Nat
    OBVIOUS
<1>2. q # <<>> => /\ Head(q) = q[1] /\ Len(q) >= 1 /\ DOMAIN Tail(q) = 1..(Len(q) - 1)
                  /\ \A n \in 1..(Len(q) - 1) : Tail(q)[n] = q[n + 1]
    BY <1>1, HeadTailProperties, LenProperties, EmptySeq
<1>3. /\ DOMAIN Append(q, x) = 1..(Len(q) + 1) /\ Append(q, x)[Len(q) + 1] = x
      /\ \A n \in 1..Len(q) : Append(q, x)[n] = q[n]
    BY <1>1
<1> QED BY <1>1, <1>2, <1>3

LEMMA TruthKept ==
    ASSUME PInv, Truthful, [Next]_vars
    PROVE  Truthful'
<1> USE DEF watch, world
<1>1. CASE UNCHANGED vars
    BY <1>1 DEF vars, Truthful
<1>2. ASSUME NEW i \in Inst, Start(i) PROVE Truthful'
    BY <1>2 DEF Start, Truthful
<1>3. ASSUME NEW p \in Pid, Die(p) PROVE Truthful'
    BY <1>3 DEF Die, Watch!Exit, Truthful
<1>4. ASSUME NEW p \in Pid, Report(p) PROVE Truthful'
    BY <1>4 DEF Report, Watch!Report, Truthful, PInv, Shape
<1>5. ASSUME NEW p \in Pid, Take(p) PROVE Truthful'
    BY <1>5 DEF Take, Watch!Receive, Truthful, PInv, Shape
<1>6. ASSUME NEW c \in Conn, NEW p \in Pid, Receive(c, p) PROVE Truthful'
    <2>1. PICK what \in Lasting \cup Talk, run \in Run, q \in Pid \cup {NoPid} :
             conn' = [conn EXCEPT ![c] = [inst |-> home[p], deltas |-> Decoded(what, q, run)]]
        BY <1>6 DEF Receive
    <2>2. \A k \in Conn : \A n \in DOMAIN conn'[k].deltas : ~Exited(conn'[k].deltas[n])
        BY <2>1, EnvelopesTellNoExit DEF PInv, Shape, Truthful
    <2> QED BY <1>6, <2>2 DEF Receive, Truthful
<1>7. ASSUME NEW c \in Conn, Send(c) PROVE Truthful'
    <2> DEFINE k == conn[c]
               x == Message(k.inst, Head(k.deltas))
    <2>1. k \in Sends
        BY <1>7 DEF Send, PInv, Shape
    <2>2. ~Exited(Head(k.deltas)) /\ \A n \in DOMAIN Tail(k.deltas) : ~Exited(Tail(k.deltas)[n])
        BY <2>1, SendParts DEF Sends, Truthful
    <2>3. x \in Messages /\ x.delta = Head(k.deltas) /\ chan \in Seq(Messages)
        BY <2>1, SendsParts DEF Messages, Message, PInv, Shape
    <2>4. chan' = Append(chan, x) /\ gone' = gone /\ exits' = exits /\ taken' = taken
          /\ conn' = [conn EXCEPT ![c] = IF Len(k.deltas) = 1 THEN Idle ELSE [k EXCEPT !.deltas = Tail(k.deltas)]]
        BY <1>7 DEF Send
    <2>5. \A j \in Conn : \A n \in DOMAIN conn'[j].deltas : ~Exited(conn'[j].deltas[n])
        BY <2>1, <2>2, <2>4 DEF Truthful, PInv, Shape, Idle, Sends
    <2> HIDE DEF x, k
    <2>6. \A n \in DOMAIN chan' : Exited(chan'[n].delta) => chan'[n].delta.pid \in gone
        BY <2>2, <2>3, <2>4, QueueTells DEF Truthful
    <2> QED BY <2>4, <2>5, <2>6 DEF Truthful
<1>8. ASSUME NEW x \in taken, Forward(x) PROVE Truthful'
    <2> DEFINE m == Message(x.inst, Delta("PidExited", x.pid, NoRun))
    <2>1. x.inst \in Inst /\ x.pid \in Pid /\ x.pid \in gone /\ chan \in Seq(Messages)
        BY <1>8 DEF PInv, Shape, Truthful
    <2>2. m \in Messages /\ m.delta.pid = x.pid
        BY <2>1 DEF Message, Delta, Messages, Deltas, DeltaKinds
    <2>3. chan' = Append(chan, m) /\ UNCHANGED <<gone, exits, conn>> /\ taken' \subseteq taken
        BY <1>8 DEF Forward
    <2> HIDE DEF m
    <2>4. \A n \in DOMAIN chan' : Exited(chan'[n].delta) => chan'[n].delta.pid \in gone
        BY <2>1, <2>2, <2>3, QueueTells DEF Truthful
    <2> QED BY <2>3, <2>4 DEF Truthful
<1>9. CASE Merge
    <2>1. chan' = Tail(chan) /\ chan # <<>> /\ UNCHANGED <<gone, exits, conn, taken>> /\ chan \in Seq(Messages)
        BY <1>9 DEF Merge, PInv, Shape
    <2>2. \A n \in DOMAIN chan' : Exited(chan'[n].delta) => chan'[n].delta.pid \in gone
        BY <2>1, QueueTells, Popped DEF Truthful
    <2> QED BY <2>1, <2>2 DEF Truthful
<1>10. CASE Note \/ Arm \/ Sweep \/ Elapse
    BY <1>10 DEF Note, Arm, Watch!HandOver, Sweep, Elapse, Truthful
<1> QED BY <1>1, <1>2, <1>3, <1>4, <1>5, <1>6, <1>7, <1>8, <1>9, <1>10 DEF Next

LEMMA InitTruthful == Init => Truthful
    BY DEF Init, Watch!Init, Truthful, Idle

\* A receipt takes down only a mascot bound to that very pid, and only a start
\* moves a binding.
LEMMA ApplyReplaces ==
    ASSUME NEW m \in Figure, NEW d \in Deltas
    PROVE  LET a == ApplyPresence(m, d)
           IN  /\ Exited(d) /\ m.life # "Down" /\ a.life = "Down" => m.pid = d.pid
               /\ m.life # "Absent" /\ m.pid # NoPid /\ a.pid \notin {NoPid, m.pid} => d.kind = "GatewayUp"
<1> DEFINE r == Refreshed(m)
           a == ApplyPresence(m, d)
<1>1. Exited(d) /\ m.life # "Down" /\ a.life = "Down" => m.pid = d.pid
    BY DEF Exited, ApplyPresence
<1>2. ASSUME m.life # "Absent", m.pid # NoPid, a.pid \notin {NoPid, m.pid}, d.kind # "GatewayUp"
      PROVE  FALSE
    <2>1. r = [m EXCEPT !.seen = 0]
        BY <1>2 DEF Refreshed
    <2>2. r \in Figure /\ r.pid = m.pid
        BY <2>1, FigureOpen DEF Figure
    <2> HIDE DEF r
    <2>3. CASE d.kind \in {"GatewayDown", "SessionStarted", "SessionEnded"}
        <3>1. a = EnterDown(r) \/ a = Revived(r)
            BY <2>3 DEF ApplyPresence, Live, r
        <3> QED BY <1>2, <2>2, <3>1, FigureOpen
    <2>4. CASE d.kind \in {"RunStarted", "RunEnded", "RunFailed"}
        <3>1. a.pid = r.pid
            BY <2>2, <2>4 DEF ApplyPresence, Live, Ended, Figure, r
        <3> QED BY <1>2, <2>2, <3>1
    <2>5. CASE d.kind = "PidSeen"
        <3>1. a = [r EXCEPT !.pid = IF r.pid = NoPid THEN d.pid ELSE r.pid]
            BY <2>5 DEF ApplyPresence, Live, Sight, r
        <3>2. a.pid = r.pid
            BY <1>2, <2>2, <3>1 DEF Figure
        <3> QED BY <1>2, <2>2, <3>2
    <2>6. CASE d.kind = "PidExited"
        BY <1>2, <2>6, FigureOpen DEF ApplyPresence
    <2>7. d.kind \in DeltaKinds
        BY DEF Deltas
    <2> QED BY <1>2, <2>3, <2>4, <2>5, <2>6, <2>7 DEF DeltaKinds
<1> QED BY <1>1, <1>2

\* daemon.rs:24, for any number of processes behind a port: however late a
\* receipt comes, the replacement stays up.
THEOREM ReplacementsSurvive == Spec => ReplacementSurvives
<1> DEFINE Survives(i) ==
        /\ (Merged("PidExited") /\ mascot[i].life # "Down" /\ mascot'[i].life = "Down")
              => mascot[i].pid \in gone
        /\ (mascot[i].pid # NoPid /\ mascot'[i].pid \notin {NoPid, mascot[i].pid})
              => Merged("GatewayUp")
<1>1. ASSUME PInv, Truthful, [Next]_vars, NEW i \in Inst
      PROVE  Survives(i)
    <2> USE DEF watch, world
    <2>1. chan \in Seq(Messages) /\ mascot \in [Inst -> Figure]
        BY <1>1 DEF PInv, Shape
    <2>2. CASE Merge
        <3> DEFINE x == Head(chan)
                   m == ApplyPresence(mascot[x.inst], x.delta)
        <3>1. chan # <<>> /\ chan' = Tail(chan)
            BY <2>2 DEF Merge
        <3>2. x \in Messages /\ (Exited(x.delta) => x.delta.pid \in gone)
            BY <1>1, <2>1, <3>1, Popped, QueueTells DEF Truthful
        <3>3. x.inst \in Inst /\ x.delta \in Deltas
            BY <3>2 DEF Messages
        <3>4. mascot' = mascot \/ (Connected /\ mascot' = [mascot EXCEPT ![x.inst] = m])
            BY <2>2 DEF Merge
        <3>5. mascot[i].pid # NoPid => mascot[i].life # "Absent"
            BY <1>1 DEF PInv, Unbound
        <3>6. mascot'[i] = mascot[i] \/ (i = x.inst /\ mascot'[i] = m)
            BY <2>1, <3>3, <3>4
        <3>7. CASE mascot'[i] = mascot[i]
            BY <3>7
        <3>8. CASE i = x.inst /\ mascot'[i] = m
            <4>1. /\ Exited(x.delta) /\ mascot[i].life # "Down" /\ m.life = "Down" => mascot[i].pid = x.delta.pid
                  /\ mascot[i].life # "Absent" /\ mascot[i].pid # NoPid /\ m.pid \notin {NoPid, mascot[i].pid} =>
                        x.delta.kind = "GatewayUp"
                BY <2>1, <3>3, <3>8, ApplyReplaces
            <4> HIDE DEF m
            <4>2. Merged("PidExited") => Exited(x.delta)
                BY DEF Merged, Exited
            <4>3. x.delta.kind = "GatewayUp" => Merged("GatewayUp")
                BY <3>1 DEF Merged
            <4> QED BY <3>2, <3>5, <3>8, <4>1, <4>2, <4>3
        <3> QED BY <3>6, <3>7, <3>8
    <2>3. CASE Sweep \/ Elapse
        <3>1. chan' = chan
            BY <2>3 DEF Sweep, Elapse
        <3>2. ~Merged("PidExited")
            <4>1. chan # <<>> => Tail(chan) # chan
                BY <2>1, HeadTailProperties, LenProperties
            <4> QED BY <3>1, <4>1 DEF Merged
        <3>3. mascot'[i].pid \in {mascot[i].pid, NoPid}
            <4>1. CASE Sweep
                BY <2>1, <4>1, FigureOpen DEF Sweep
            <4>2. CASE Elapse
                BY <2>1, <4>2 DEF Elapse, Figure
            <4> QED BY <2>3, <4>1, <4>2
        <3> QED BY <3>2, <3>3
    <2>4. CASE mascot' = mascot
        BY <2>4
    <2>5. Merge \/ Sweep \/ Elapse \/ mascot' = mascot
        BY <1>1 DEF Next, Start, Die, Report, Take, Send, Receive, Forward, Note, Arm, vars
    <2> QED BY <2>2, <2>3, <2>4, <2>5
<1>2. PInv /\ Truthful /\ [Next]_vars => [\A i \in Inst : Survives(i)]_vars
    BY <1>1
<1> QED BY <1>2, InitPInv, NextPInv, InitTruthful, TruthKept, PTL DEF Spec, ReplacementSurvives
=============================================================================

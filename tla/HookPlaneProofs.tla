-------------------------- MODULE HookPlaneProofs --------------------------
(* Theorems about the hook plane, for any number of agents, processes and  *)
(* connections and channels of any capacity.                               *)
EXTENDS HookPlane, SequenceTheorems, TLAPS

-----------------------------------------------------------------------------
(* Connections.                                                            *)

LEMMA SomeParts ==
    ASSUME NEW S, NEW s \in Some(S)
    PROVE  /\ s \in Seq(S) /\ Len(s) \in Nat \ {0} /\ Head(s) \in S
           /\ Len(s) > 1 => Tail(s) \in Some(S)
<1>1. s \in Seq(S) /\ s # <<>>
    BY DEF Some
<1>2. Head(s) \in S /\ Tail(s) \in Seq(S) /\ Len(Tail(s)) = Len(s) - 1
    BY <1>1, HeadTailProperties
<1>3. Len(s) \in Nat /\ Len(s) # 0
    BY <1>1, EmptySeq, LenProperties
<1>4. ASSUME Len(s) > 1 PROVE Tail(s) # <<>>
    <2>1. Len(Tail(s)) # 0
        BY <1>2, <1>3, <1>4
    <2> QED BY <1>2, <2>1, EmptySeq
<1> QED BY <1>1, <1>2, <1>3, <1>4 DEF Some

Noting  == [at : {"bind", "watch"}, pid : Pid, notes : Some(Event), sends : Some(Event)]
Sending == [at : {"send"}, pid : Pid \cup {NoPid}, notes : {<<>>}, sends : Some(Event)]

LEMMA ConnParts ==
    ASSUME NEW k \in ConnState
    PROVE  /\ k.at \in {"bind", "watch"} => k \in Noting
           /\ k.at = "send" => k \in Sending
    BY DEF ConnState, Noting, Sending, Free, Reading

LEMMA ConnOpen ==
    /\ Free \in ConnState /\ Reading \in ConnState
    /\ Noting \subseteq ConnState /\ Sending \subseteq ConnState
    BY DEF ConnState, Noting, Sending

LEMMA LoadedState ==
    ASSUME NEW m \in Payloads
    PROVE  Loaded(m) \in ConnState /\ Loaded(m).at # "watch"
<1>1. m.pid \in Pid \cup {NoPid} /\ m.events \in Seq(Event)
    BY HookAssumption
<1>2. CASE m.events = <<>>
    BY <1>2, ConnOpen DEF Loaded, Reading
<1>3. CASE m.events # <<>> /\ m.pid = NoPid
    <2>1. Loaded(m) = [at |-> "send", pid |-> NoPid, notes |-> <<>>, sends |-> m.events]
        BY <1>3 DEF Loaded
    <2>2. Loaded(m) \in Sending
        BY <1>1, <1>3, <2>1 DEF Sending, Some
    <2> QED BY <2>1, <2>2, ConnOpen
<1>4. CASE m.events # <<>> /\ m.pid # NoPid
    <2>1. Loaded(m) = [at |-> "bind", pid |-> m.pid, notes |-> m.events, sends |-> m.events]
        BY <1>4 DEF Loaded, Note
    <2>2. Loaded(m) \in Noting
        BY <1>1, <1>4, <2>1 DEF Noting, Some
    <2> QED BY <2>1, <2>2, ConnOpen
<1> QED BY <1>2, <1>3, <1>4

LEMMA NextNoteState ==
    ASSUME NEW k \in Noting
    PROVE  NextNote(k) \in ConnState /\ NextNote(k).at # "watch"
<1>1. CASE Len(k.notes) > 1
    <2>1. Tail(k.notes) \in Some(Event)
        BY <1>1, SomeParts DEF Noting
    <2>2. NextNote(k) = [k EXCEPT !.at = "bind", !.notes = Tail(k.notes)]
        BY <1>1 DEF NextNote, Note
    <2>3. NextNote(k) \in Noting /\ NextNote(k).at = "bind"
        BY <2>1, <2>2 DEF Noting
    <2> QED BY <2>3, ConnOpen
<1>2. CASE ~(Len(k.notes) > 1)
    <2>1. NextNote(k) = [k EXCEPT !.at = "send", !.notes = <<>>]
        BY <1>2 DEF NextNote
    <2>2. NextNote(k) \in Sending /\ NextNote(k).at = "send"
        BY <2>1 DEF Noting, Sending
    <2> QED BY <2>2, ConnOpen
<1> QED BY <1>1, <1>2

LEMMA NotedState ==
    ASSUME NEW k \in Noting
    PROVE  /\ Noted(k) \in ConnState
           /\ k.at = "bind" => Noted(k).at = "watch" /\ Noted(k).pid = k.pid
           /\ k.at = "watch" => Noted(k).at # "watch"
<1>1. CASE k.at = "bind"
    <2>1. Noted(k) = [k EXCEPT !.at = "watch"]
        BY <1>1 DEF Noted, Note
    <2>2. Noted(k) \in Noting /\ Noted(k).at = "watch" /\ Noted(k).pid = k.pid
        BY <2>1 DEF Noting
    <2> QED BY <1>1, <2>2, ConnOpen
<1>2. CASE k.at = "watch"
    <2>1. Noted(k) = NextNote(k)
        BY <1>2 DEF Noted, Note
    <2> QED BY <1>2, <2>1, NextNoteState
<1> QED BY <1>1, <1>2 DEF Noting

LEMMA SentState ==
    ASSUME NEW k \in Sending
    PROVE  Sent(k) \in ConnState /\ Sent(k).at # "watch"
<1>1. CASE Len(k.sends) > 1
    <2>1. Tail(k.sends) \in Some(Event)
        BY <1>1, SomeParts DEF Sending
    <2>2. Sent(k) = [k EXCEPT !.sends = Tail(k.sends)]
        BY <1>1 DEF Sent
    <2>3. Sent(k) \in Sending /\ Sent(k).at = "send"
        BY <2>1, <2>2 DEF Sending
    <2> QED BY <2>3, ConnOpen
<1>2. CASE ~(Len(k.sends) > 1)
    BY <1>2, ConnOpen DEF Sent, Reading
<1> QED BY <1>1, <1>2

-----------------------------------------------------------------------------
(* Channels.                                                               *)

LEMMA Pushed ==
    ASSUME NEW s \in Seq(Event), NEW e \in Event, Len(s) < Cap
    PROVE  s \o <<e>> \in Seq(Event) /\ Len(s \o <<e>>) <= Cap
<1>1. <<e>> \in Seq(Event) /\ Len(<<e>>) = 1
    OBVIOUS
<1>2. Cap \in Nat /\ Len(s) \in Nat
    BY HookAssumption, LenProperties
<1> QED BY <1>1, <1>2, ConcatProperties

LEMMA Popped ==
    ASSUME NEW s \in Seq(Event), s # <<>>, Len(s) <= Cap
    PROVE  Head(s) \in Event /\ Tail(s) \in Seq(Event) /\ Len(Tail(s)) <= Cap
<1>1. Head(s) \in Event /\ Tail(s) \in Seq(Event) /\ Len(Tail(s)) = Len(s) - 1
    BY HeadTailProperties
<1>2. Cap \in Nat /\ Len(s) \in Nat
    BY HookAssumption, LenProperties
<1> QED BY <1>1, <1>2
-----------------------------------------------------------------------------
(* Types, part by part.                                                    *)

WatchOK == gone \subseteq Pid /\ owed \subseteq Pid /\ exits \in [Pid -> 0..MaxReports] /\ up

ChannelsOK ==
    /\ tee \in Seq(Event) /\ Len(tee) <= Cap
    /\ hand \in Seq(Event) /\ Len(hand) <= 1
    /\ out \in Seq(Event) /\ Len(out) <= Cap
    /\ unclaims \subseteq Agent

ReducerOK == view \in [Agent -> {"unknown", "shown", "ended"}] /\ stalled \in BOOLEAN

LEMMA TypeParts ==
    TypeOK <=> /\ conn \in [Conn -> ConnState] /\ bound \in [Pid -> SUBSET Agent] /\ WatchOK
               /\ drain \in DrainState /\ ChannelsOK /\ ReducerOK /\ left \in 0..Budget
    BY DEF TypeOK, WatchOK, ChannelsOK, ReducerOK

LEMMA EndAllState == \A S \in SUBSET Agent : EndAll(S) \in DrainState
    BY DEF EndAll, DrainState

\* Steps that change only one connection, to a state a connection may be in.
LEMMA ConnStep ==
    ASSUME TypeOK, NEW c \in Conn, NEW k \in ConnState, conn' = [conn EXCEPT ![c] = k]
    PROVE  conn' \in [Conn -> ConnState]
    BY DEF TypeOK

LEMMA InitTypes == Init => TypeOK
<1> SUFFICES ASSUME Init PROVE TypeOK
    OBVIOUS
<1> USE DEF Init, Watch!Init
<1>1. conn \in [Conn -> ConnState]
    BY ConnOpen
<1>2. bound \in [Pid -> SUBSET Agent] /\ WatchOK
    BY HookAssumption DEF WatchOK
<1>3. drain \in DrainState
    BY DEF DrainState
<1>4. ChannelsOK
    BY HookAssumption, EmptySeq DEF ChannelsOK, Nothing
<1>5. stalled \in BOOLEAN
    BY HookAssumption, Zenon
<1>6. ReducerOK
    BY <1>5 DEF ReducerOK
<1>7. left \in 0..Budget
    BY HookAssumption
<1> QED BY <1>1, <1>2, <1>3, <1>4, <1>6, <1>7, TypeParts

LEMMA NextTypes == TypeOK /\ [Next]_vars => TypeOK'
<1> SUFFICES ASSUME TypeOK, [Next]_vars PROVE TypeOK'
    OBVIOUS
<1>a. /\ conn \in [Conn -> ConnState] /\ bound \in [Pid -> SUBSET Agent] /\ WatchOK
      /\ drain \in DrainState /\ ChannelsOK /\ ReducerOK /\ left \in 0..Budget
    BY TypeParts
<1> USE DEF watch, channels, reducer
<1>1. ASSUME NEW c \in Conn, Accept(c) \/ HangUp(c) \/ Cut(c) PROVE TypeOK'
    <2>1. conn' \in [Conn -> ConnState]
        BY <1>1, <1>a, ConnOpen DEF Accept, HangUp, Cut, CutOff
    <2> QED BY <1>1, <1>a, <2>1 DEF Accept, HangUp, Cut, TypeOK, WatchOK, ChannelsOK, ReducerOK
<1>2. ASSUME NEW c \in Conn, Receive(c) PROVE TypeOK'
    <2>1. conn' \in [Conn -> ConnState]
        BY <1>2, <1>a, LoadedState DEF Receive
    <2>2. left' \in 0..Budget
        BY <1>2, <1>a, HookAssumption DEF Receive
    <2> QED BY <1>2, <1>a, <2>1, <2>2 DEF Receive, TypeOK, WatchOK, ChannelsOK, ReducerOK
<1>3. ASSUME NEW c \in Conn, SkipNote(c) PROVE TypeOK'
    <2>1. conn[c] \in Noting
        BY <1>3, <1>a, ConnParts DEF SkipNote, Note
    <2>2. conn' \in [Conn -> ConnState]
        BY <1>3, <1>a, <2>1, NextNoteState DEF SkipNote
    <2> QED BY <1>3, <1>a, <2>2 DEF SkipNote, TypeOK, WatchOK, ChannelsOK, ReducerOK
<1>4. ASSUME NEW c \in Conn, Bind(c) PROVE TypeOK'
    <2>1. conn[c] \in Noting
        BY <1>4, <1>a, ConnParts DEF Bind
    <2>2. conn' \in [Conn -> ConnState]
        BY <1>4, <1>a, <2>1, NotedState DEF Bind
    <2>a. conn[c].notes \in Some(Event) /\ conn[c].pid \in Pid
        BY <2>1 DEF Noting
    <2>b. Head(conn[c].notes) \in Event
        BY <2>a, SomeParts
    <2>3. Head(conn[c].notes).of \in Agent
        BY <2>b DEF Event
    <2>4. bound' \in [Pid -> SUBSET Agent]
        BY <1>4, <1>a, <2>a, <2>3 DEF Bind
    <2> QED BY <1>4, <1>a, <2>2, <2>4 DEF Bind, TypeOK, WatchOK, ChannelsOK, ReducerOK
<1>5. ASSUME NEW c \in Conn, WatchPid(c) PROVE TypeOK'
    <2>1. conn[c] \in Noting
        BY <1>5, <1>a, ConnParts DEF WatchPid
    <2>2. conn' \in [Conn -> ConnState]
        BY <1>5, <1>a, <2>1, NotedState DEF WatchPid
    <2>3. WatchOK'
        BY <1>5, <1>a, <2>1 DEF WatchPid, Watch!HandOver, WatchOK, Noting
    <2> QED BY <1>5, <1>a, <2>2, <2>3 DEF WatchPid, TypeOK, WatchOK, ChannelsOK, ReducerOK
<1>6. ASSUME NEW c \in Conn, Send(c) PROVE TypeOK'
    <2>1. conn[c] \in Sending
        BY <1>6, <1>a, ConnParts DEF Send
    <2>2. conn' \in [Conn -> ConnState]
        BY <1>6, <1>a, <2>1, SentState DEF Send
    <2>a. conn[c].sends \in Some(Event)
        BY <2>1 DEF Sending
    <2>3. Head(conn[c].sends) \in Event
        BY <2>a, SomeParts
    <2>4. tee' \in Seq(Event) /\ Len(tee') <= Cap
        BY <1>6, <1>a, <2>3, Pushed DEF Send, ChannelsOK
    <2> QED BY <1>6, <1>a, <2>2, <2>4 DEF Send, TypeOK, WatchOK, ChannelsOK, ReducerOK
<1>7. CASE TeeTake
    <2>1. Head(tee) \in Event /\ tee' \in Seq(Event) /\ Len(tee') <= Cap
        BY <1>7, <1>a, Popped DEF TeeTake, ChannelsOK
    <2>2. hand' \in Seq(Event) /\ Len(hand') <= 1
        BY <1>7, <2>1 DEF TeeTake
    <2>3. unclaims' \subseteq Agent
        BY <1>7, <1>a, <2>1 DEF TeeTake, ChannelsOK, Event
    <2> QED BY <1>7, <1>a, <2>1, <2>2, <2>3 DEF TeeTake, TypeOK, WatchOK, ChannelsOK, ReducerOK
<1>8. CASE TeeForward
    <2>1. hand \in Seq(Event) /\ out \in Seq(Event) /\ Len(hand) \in Nat /\ Len(out) \in Nat
        BY <1>a, LenProperties DEF ChannelsOK
    <2>2. hand \o out \in Seq(Event) /\ out' \in Seq(Event) /\ Len(out') = Len(out) + Len(hand)
        BY <1>8, <2>1, ConcatProperties DEF TeeForward
    <2>3. Len(out') <= Cap
        BY <1>8, <1>a, <2>1, <2>2, HookAssumption DEF TeeForward, ChannelsOK
    <2>4. hand' \in Seq(Event) /\ Len(hand') <= 1
        BY <1>8, EmptySeq DEF TeeForward, Nothing
    <2> QED BY <1>8, <1>a, <2>2, <2>3, <2>4 DEF TeeForward, TypeOK, WatchOK, ChannelsOK, ReducerOK
<1>9. ASSUME NEW p \in Pid, ReceiveExit(p) PROVE TypeOK'
    <2>1. WatchOK'
        BY <1>9, <1>a, HookAssumption DEF ReceiveExit, Watch!Receive, WatchOK
    <2>2. drain' \in DrainState
        BY <1>9 DEF ReceiveExit, DrainState
    <2> QED BY <1>9, <1>a, <2>1, <2>2 DEF ReceiveExit, TypeOK, WatchOK, ChannelsOK, ReducerOK
<1>10. CASE Take
    <2>1. drain.pid \in Pid
        BY <1>10, <1>a DEF Take, DrainState, Idle
    <2>2. drain' \in DrainState
        BY <1>10, <1>a, <2>1, EndAllState DEF Take
    <2>3. bound' \in [Pid -> SUBSET Agent]
        BY <1>10, <1>a DEF Take
    <2> QED BY <1>10, <1>a, <2>2, <2>3 DEF Take, TypeOK, WatchOK, ChannelsOK, ReducerOK
<1>11. CASE SendEnd
    <2>1. drain.agents \in SUBSET Agent
        BY <1>11, <1>a DEF SendEnd, DrainState, Idle
    <2>2. PICK a \in drain.agents : out' = out \o <<End(a)>> /\ drain' = EndAll(drain.agents \ {a})
        BY <1>11 DEF SendEnd
    <2>3. drain' \in DrainState
        BY <2>1, <2>2, EndAllState
    <2>4. End(a) \in Event
        BY <2>1 DEF End, Event
    <2>5. out' \in Seq(Event) /\ Len(out') <= Cap
        BY <1>11, <1>a, <2>2, <2>4, Pushed DEF SendEnd, ChannelsOK
    <2> QED BY <1>11, <1>a, <2>3, <2>5 DEF SendEnd, TypeOK, WatchOK, ChannelsOK, ReducerOK
<1>12. CASE Apply
    <2>1. Head(out) \in Event /\ out' \in Seq(Event) /\ Len(out') <= Cap
        BY <1>12, <1>a, Popped DEF Apply, ChannelsOK
    <2>2. view' \in [Agent -> {"unknown", "shown", "ended"}]
        BY <1>12, <1>a, <2>1 DEF Apply, ReducerOK, Event
    <2> QED BY <1>12, <1>a, <2>1, <2>2 DEF Apply, TypeOK, WatchOK, ChannelsOK, ReducerOK
<1>13. ASSUME NEW p \in Pid, Die(p) PROVE TypeOK'
    BY <1>13, <1>a DEF Die, Watch!Exit, TypeOK, WatchOK, ChannelsOK, ReducerOK
<1>14. ASSUME NEW p \in Pid, Report(p) PROVE TypeOK'
    <2>1. WatchOK'
        BY <1>14, <1>a, HookAssumption DEF Report, Watch!Report, WatchOK
    <2> QED BY <1>14, <1>a, <2>1 DEF Report, TypeOK, WatchOK, ChannelsOK, ReducerOK
<1>15. CASE UNCHANGED vars
    BY <1>15, <1>a DEF vars, TypeOK, WatchOK, ChannelsOK, ReducerOK
<1> QED
    BY <1>1, <1>2, <1>3, <1>4, <1>5, <1>6, <1>7, <1>8, <1>9, <1>10, <1>11, <1>12, <1>13, <1>14, <1>15
    DEF Next, Task, Connection, Drain

\* The state of the hook plane keeps its shape: channels stay within their
\* capacity, and a connection is where its payload says (mod.rs, pid_watch.rs,
\* router.rs).
THEOREM HookTypes == Spec => []TypeOK
<1> QED BY InitTypes, NextTypes, PTL DEF Spec
-----------------------------------------------------------------------------
(* note, take and the exit watch.                                          *)

\* Somebody is still going to look at the exit of p.
WillLook(p) ==
    \/ p \in owed
    \/ exits[p] > 0
    \/ drain = [at |-> "take", pid |-> p]
    \/ \E c \in Conn : conn[c].at = "watch" /\ conn[c].pid = p

\* A step that binds nobody new to p, and does not stop anybody from looking.
LEMMA StillLooking ==
    ASSUME BoundIsWatched, NEW p \in Pid, bound'[p] # {} => bound[p] # {},
           WillLook(p) => WillLook(p)' \/ bound'[p] = {}
    PROVE  bound'[p] # {} => WillLook(p)'
    BY DEF BoundIsWatched, WillLook

\* A connection that was not handing over leaves the others as they were.
LEMMA OthersLook ==
    ASSUME NEW c \in Conn, NEW k, conn' = [conn EXCEPT ![c] = k], conn \in [Conn -> ConnState],
           conn[c].at # "watch", UNCHANGED <<owed, exits, drain>>, NEW p \in Pid, WillLook(p)
    PROVE  WillLook(p)'
    BY DEF WillLook

LEMMA NextWatched == TypeOK /\ BoundIsWatched /\ [Next]_vars => BoundIsWatched'
<1> SUFFICES ASSUME TypeOK, BoundIsWatched, [Next]_vars, NEW p \in Pid
             PROVE  bound'[p] # {} => WillLook(p)'
    BY DEF BoundIsWatched, WillLook
<1>a. conn \in [Conn -> ConnState] /\ bound \in [Pid -> SUBSET Agent] /\ WatchOK /\ drain \in DrainState
    BY TypeParts
<1> USE DEF watch, channels, reducer
<1>1. CASE \E c \in Conn : Accept(c) \/ HangUp(c) \/ Cut(c) \/ Receive(c) \/ Send(c)
    <2>1. PICK c \in Conn : Accept(c) \/ HangUp(c) \/ Cut(c) \/ Receive(c) \/ Send(c)
        BY <1>1
    <2>2. conn[c].at # "watch" /\ UNCHANGED <<bound, owed, exits, drain>>
        BY <2>1 DEF Accept, HangUp, Cut, Pending, Receive, Send
    <2>3. \E k : conn' = [conn EXCEPT ![c] = k]
        BY <2>1 DEF Accept, HangUp, Cut, Receive, Send
    <2>4. WillLook(p) => WillLook(p)'
        BY <1>a, <2>2, <2>3, OthersLook
    <2> QED BY <2>2, <2>4, StillLooking
<1>2. ASSUME NEW c \in Conn, SkipNote(c) PROVE bound'[p] # {} => WillLook(p)'
    <2>1. conn[c].at # "watch" /\ UNCHANGED <<bound, owed, exits, drain>>
        BY <1>2 DEF SkipNote, Note
    <2>2. WillLook(p) => WillLook(p)'
        BY <1>2, <1>a, <2>1, OthersLook DEF SkipNote
    <2> QED BY <2>1, <2>2, StillLooking
<1>3. ASSUME NEW c \in Conn, Bind(c) PROVE bound'[p] # {} => WillLook(p)'
    <2>1. conn[c].at = "bind" /\ UNCHANGED <<owed, exits, drain>> /\ conn' = [conn EXCEPT ![c] = Noted(conn[c])]
        BY <1>3 DEF Bind
    <2>2. conn[c] \in Noting
        BY <1>a, <2>1, ConnParts
    <2>3. CASE p = conn[c].pid
        <3>1. conn'[c].at = "watch" /\ conn'[c].pid = p
            BY <1>a, <2>1, <2>2, <2>3, NotedState
        <3> QED BY <3>1 DEF WillLook
    <2>4. CASE p # conn[c].pid
        <3>1. bound'[p] = bound[p]
            BY <1>3, <1>a, <2>4 DEF Bind
        <3>2. WillLook(p) => WillLook(p)'
            BY <1>a, <2>1, OthersLook
        <3> QED BY <3>1, <3>2, StillLooking
    <2> QED BY <2>3, <2>4
<1>4. ASSUME NEW c \in Conn, WatchPid(c) PROVE bound'[p] # {} => WillLook(p)'
    <2>1. /\ conn[c].at = "watch" /\ UNCHANGED <<bound, exits, drain>>
          /\ conn' = [conn EXCEPT ![c] = Noted(conn[c])]
          /\ owed' = owed \cup {conn[c].pid}
        BY <1>4, <1>a DEF WatchPid, Watch!HandOver, WatchOK
    <2>2. WillLook(p) => WillLook(p)'
        BY <1>a, <2>1 DEF WillLook
    <2> QED BY <2>1, <2>2, StillLooking
<1>5. CASE TeeTake \/ TeeForward \/ Apply
    <2>1. UNCHANGED <<conn, bound, owed, exits, drain>>
        BY <1>5 DEF TeeTake, TeeForward, Apply
    <2> QED BY <2>1, StillLooking DEF WillLook
<1>6. ASSUME NEW q \in Pid, ReceiveExit(q) PROVE bound'[p] # {} => WillLook(p)'
    <2>1. /\ drain = Idle /\ drain' = [at |-> "take", pid |-> q] /\ UNCHANGED <<conn, bound, owed>>
          /\ exits' = [exits EXCEPT ![q] = @ - 1]
        BY <1>6 DEF ReceiveExit, Watch!Receive
    <2>2. drain # [at |-> "take", pid |-> p]
        BY <2>1 DEF Idle
    <2>3. WillLook(p) => WillLook(p)'
        BY <1>a, <2>1, <2>2 DEF WillLook, WatchOK
    <2> QED BY <2>1, <2>3, StillLooking
<1>7. CASE Take
    <2>1. drain.at = "take" /\ bound' = [bound EXCEPT ![drain.pid] = {}] /\ UNCHANGED <<conn, owed, exits>>
        BY <1>7 DEF Take
    <2>2. CASE p = drain.pid
        BY <1>a, <2>1, <2>2
    <2>3. CASE p # drain.pid
        <3>1. bound'[p] = bound[p] /\ drain # [at |-> "take", pid |-> p]
            BY <1>a, <2>1, <2>3
        <3>2. WillLook(p) => WillLook(p)'
            BY <2>1, <3>1 DEF WillLook
        <3> QED BY <3>1, <3>2, StillLooking
    <2> QED BY <2>2, <2>3
<1>8. CASE SendEnd
    <2>1. drain.at = "end" /\ UNCHANGED <<conn, bound, owed, exits>>
        BY <1>8 DEF SendEnd
    <2>2. WillLook(p) => WillLook(p)'
        BY <2>1 DEF WillLook
    <2> QED BY <2>1, <2>2, StillLooking
<1>9. ASSUME NEW q \in Pid, Die(q) PROVE bound'[p] # {} => WillLook(p)'
    <2>1. UNCHANGED <<conn, bound, owed, exits, drain>>
        BY <1>9 DEF Die, Watch!Exit
    <2> QED BY <2>1, StillLooking DEF WillLook
<1>10. ASSUME NEW q \in Pid, Report(q) PROVE bound'[p] # {} => WillLook(p)'
    <2>1. UNCHANGED <<conn, bound, drain>> /\ exits' = [exits EXCEPT ![q] = @ + 1] /\ owed' \in {owed, owed \ {q}}
        BY <1>10 DEF Report, Watch!Report
    <2>2. exits[p] \in Nat /\ exits[q] \in Nat /\ exits'[q] > 0 /\ (p # q => exits'[p] = exits[p])
        BY <1>a, <2>1, HookAssumption DEF WatchOK
    <2>3. WillLook(p) => WillLook(p)'
        BY <2>1, <2>2 DEF WillLook
    <2> QED BY <2>1, <2>3, StillLooking
<1>11. CASE UNCHANGED vars
    BY <1>11, StillLooking DEF vars, WillLook
<1> QED
    BY <1>1, <1>2, <1>3, <1>4, <1>5, <1>6, <1>7, <1>8, <1>9, <1>10, <1>11
    DEF Next, Task, Connection, Drain

\* However noting, handing over, reporting and taking interleave, an agent bound
\* to a process is bound to one whose exit somebody is still going to look at
\* (HookPidWatch::note and the drain of HookPidWatch::spawn).
THEOREM BindingsAreWatched == Spec => []BoundIsWatched
<1>1. Init => BoundIsWatched
    BY DEF Init, BoundIsWatched
<1> QED BY <1>1, HookTypes, NextWatched, PTL DEF Spec
=============================================================================

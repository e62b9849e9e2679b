-------------------------- MODULE ExitWatchProofs --------------------------
(* The exit-watch thread implements ExitReports, and reports no exit more  *)
(* often than it was asked to, for any set of processes and any finite set *)
(* of tasks inside watch(), whatever goes wrong.                           *)
EXTENDS ExitWatch, FiniteSetTheorems, TLAPS

Running == Labels \ {"ending", "clearing", "ended"}

\* What the thread holds: a batch only while it registers one, and of the
\* descriptors it found readable only those of dead processes it still watches.
ThreadOK ==
    /\ proc \in [Pid -> {"live", "zombie", "reaped"}]
    /\ pending \in [Pid -> Nat] /\ sent \in [Pid -> Nat]
    /\ pc \in Labels
    /\ watched \in SUBSET Pid /\ batch \in SUBSET Pid /\ exited \in SUBSET watched
    /\ \A p \in exited : proc[p] # "live"
    /\ pc \in Running \ {"register"} => batch = {}
    /\ \A c \in Caller : call[c].at # "out" => call[c].pid \in Pid
    /\ call \in [Caller -> [at : {"out", "push", "wake"}, pid : Pid \cup {NoPid}, settled : BOOLEAN]]

LEMMA InitThread == Init => ThreadOK
    BY DEF Init, ThreadOK, Labels, Running, Outside

LEMMA NextThread == ThreadOK /\ [Next]_vars => ThreadOK'
<1> SUFFICES ASSUME ThreadOK, [Next]_vars PROVE ThreadOK'
    OBVIOUS
<1> USE DEF ThreadOK, Labels, Running, thread, callers
<1>1. ASSUME NEW c \in Caller, NEW p \in Pid, Watch(c, p) PROVE ThreadOK'
    BY <1>1 DEF Watch
<1>2. ASSUME NEW c \in Caller, Push(c) PROVE ThreadOK'
    BY <1>2 DEF Push
<1>3. ASSUME NEW c \in Caller, Wake(c) PROVE ThreadOK'
    BY <1>3 DEF Wake, Outside
<1>4. CASE Drop \/ DropWake \/ ReceiverGone
    BY <1>4 DEF Drop, DropWake, ReceiverGone
<1>5. CASE Top \/ Poll \/ PollFails \/ Polled \/ DrainPipe
    BY <1>5 DEF Top, Poll, PollFails, Polled, DrainPipe, Goto
<1>6. CASE DrainPending \/ ClearPending \/ MarkClosed
    BY <1>6 DEF DrainPending, ClearPending, MarkClosed, Goto
<1>7. ASSUME NEW p \in Pid, Register(p) PROVE ThreadOK'
    BY <1>7 DEF Register, Report
<1>8. ASSUME NEW p \in Pid, SendExit(p) PROVE ThreadOK'
    BY <1>8 DEF SendExit, Report
<1>9. CASE Registered \/ Again
    BY <1>9 DEF Registered, Again, Goto
<1>10. ASSUME NEW p \in Pid, Exit(p) \/ Reap(p) PROVE ThreadOK'
    BY <1>10 DEF Exit, Reap
<1>11. CASE UNCHANGED vars
    BY <1>11 DEF vars
<1> QED BY <1>1, <1>2, <1>3, <1>4, <1>5, <1>6, <1>7, <1>8, <1>9, <1>10, <1>11 DEF Next, ThreadStep
-----------------------------------------------------------------------------
(* The refinement.                                                         *)

Gone == {p \in Pid : proc[p] # "live"}
Due  == {p \in Pid : Owed(p)}

\* A report: the pid was owed one, and is still owed one if it was handed over
\* again meanwhile.
LEMMA ReportSeen ==
    ASSUME ThreadOK, ThreadOK', NEW p \in Pid, NEW next, Report(p, next), next \in Running,
           pc \in Running, p \in Due, p \in Gone, proc' = proc,
           \A q \in Pid \ {p} : Owed(q)' <=> Owed(q)
    PROVE  Reports!Report(p) \/ Reports!Stop
<1> USE DEF Up
<1>1. CASE receiver
    <2>1. sent' = [sent EXCEPT ![p] = @ + 1] /\ pc' \in Running
        BY <1>1 DEF Report
    <2>2. Due' \in {Due, Due \ {p}}
        BY DEF Due
    <2> QED BY <2>1, <2>2 DEF Reports!Report, Gone, Due, Running
<1>2. CASE ~receiver
    <2>1. sent' = sent /\ pc' = "ending"
        BY <1>2 DEF Report
    <2>2. Due' \in SUBSET Due
        BY DEF Due
    <2> QED BY <2>1, <2>2 DEF Reports!Stop, Due
<1> QED BY <1>1, <1>2

LEMMA NextSeen == ThreadOK /\ ThreadOK' /\ [Next]_vars => [Reports!Next]_(Reports!vars)
<1> SUFFICES ASSUME ThreadOK, ThreadOK', [Next]_vars PROVE [Reports!Next]_(Reports!vars)
    OBVIOUS
<1> USE DEF Up
<1>1. ASSUME NEW c \in Caller, NEW p \in Pid, Watch(c, p) PROVE UNCHANGED Reports!vars
    BY <1>1 DEF Watch, thread, Reports!vars, Owed
<1>2. ASSUME NEW c \in Caller, Push(c) PROVE \E p \in Pid : Reports!HandOver(p)
    <2> DEFINE p == call[c].pid
    <2>1. p \in Pid /\ pending' = [pending EXCEPT ![p] = @ + 1]
          /\ UNCHANGED <<proc, watched, batch, sent, pc>>
        BY <1>2 DEF Push, ThreadOK, thread
    <2> HIDE DEF p
    <2>2. pending'[p] > 0 /\ \A q \in Pid \ {p} : pending'[q] = pending[q]
        BY <2>1 DEF ThreadOK
    <2>3. {q \in Pid : Owed(q)}' = {q \in Pid : Owed(q)} \cup {p}
        BY <2>1, <2>2 DEF Owed
    <2> QED BY <2>1, <2>3 DEF Reports!HandOver
<1>3. CASE Drop \/ DropWake \/ ReceiverGone \/ \E c \in Caller : Wake(c)
    BY <1>3 DEF Drop, DropWake, ReceiverGone, Wake, thread, Reports!vars, Owed
<1>4. CASE Top \/ Poll \/ PollFails \/ Polled \/ DrainPipe \/ Registered \/ Again
    <2>1. UNCHANGED <<proc, pending, watched, batch, sent>>
        BY <1>4 DEF Top, Poll, PollFails, Polled, DrainPipe, Registered, Again
    <2>2. UNCHANGED <<{p \in Pid : proc[p] # "live"}, {p \in Pid : Owed(p)}, sent>>
        BY <2>1 DEF Owed
    <2>3. pc \notin {"ending", "clearing", "ended"} /\ pc' \notin {"clearing", "ended"}
        BY <1>4 DEF Top, Poll, PollFails, Polled, DrainPipe, Registered, Again, Goto
    <2>4. CASE pc' = "ending"
        BY <2>2, <2>4 DEF Reports!Next, Reports!Stop
    <2>5. CASE pc' # "ending"
        BY <2>2, <2>3, <2>5 DEF Reports!vars
    <2> QED BY <2>4, <2>5
<1>5. CASE DrainPending
    <2>1. /\ pc = "pending" /\ pc' = "register" /\ batch = {} /\ UNCHANGED <<proc, watched, sent>>
          /\ batch' = {p \in Pid : pending[p] > 0} /\ pending' = [p \in Pid |-> 0]
        BY <1>5 DEF DrainPending, Goto, ThreadOK, Running, Labels
    <2>2. \A p \in Pid : Owed(p)' <=> Owed(p)
        BY <2>1 DEF Owed
    <2>3. {p \in Pid : Owed(p)}' = {p \in Pid : Owed(p)}
        BY <2>2
    <2> QED BY <2>1, <2>3 DEF Reports!vars
<1>6. CASE MarkClosed \/ ClearPending
    <2>1. /\ UNCHANGED <<proc, sent>> /\ pc \in {"ending", "clearing"} /\ pc' \in {"clearing", "ended"}
          /\ \A p \in Pid : Owed(p)' => Owed(p)
        BY <1>6 DEF MarkClosed, ClearPending, Goto, Owed, ThreadOK
    <2>2. {p \in Pid : Owed(p)}' \in SUBSET {p \in Pid : Owed(p)}
        BY <2>1
    <2> QED BY <2>1, <2>2 DEF Reports!Next, Reports!Stop
<1>7. ASSUME NEW p \in Pid, Register(p) PROVE [Reports!Next]_(Reports!vars)
    <2>1. /\ pc = "register" /\ p \in batch /\ batch' = batch \ {p} /\ UNCHANGED <<proc, pending>>
          /\ Owed(p)
        BY <1>7 DEF Register, Owed
    <2>2. CASE \/ p \in watched /\ UNCHANGED <<pc, watched, sent>>
               \/ watched' = watched \cup {p} /\ UNCHANGED <<pc, sent>>
        <3>1. \A q \in Pid : Owed(q)' <=> Owed(q)
            BY <2>1, <2>2 DEF Owed
        <3>2. {q \in Pid : Owed(q)}' = {q \in Pid : Owed(q)}
            BY <3>1
        <3> QED BY <2>1, <2>2, <3>2 DEF Reports!vars
    <2>3. CASE proc[p] = "reaped" /\ Report(p, "register") /\ UNCHANGED watched
        <3>1. \A q \in Pid \ {p} : Owed(q)' <=> Owed(q)
            BY <2>1, <2>3 DEF Owed
        <3>2. p \in Due /\ p \in Gone /\ pc \in Running /\ "register" \in Running
            BY <2>1, <2>3 DEF Due, Gone, Running, Labels
        <3>3. Reports!Report(p) \/ Reports!Stop
            BY <2>1, <2>3, <3>1, <3>2, ReportSeen
        <3> QED BY <3>3 DEF Reports!Next
    <2>4. CASE p \notin watched /\ UNCHANGED <<pc, watched, sent>>
        <3>1. \A q \in Pid \ {p} : Owed(q)' <=> Owed(q)
            BY <2>1, <2>4 DEF Owed
        <3>2. {q \in Pid : Owed(q)}' \in {{q \in Pid : Owed(q)}, {q \in Pid : Owed(q)} \ {p}}
            BY <3>1, <2>1
        <3> QED BY <2>1, <2>4, <3>2 DEF Reports!Next, Reports!Refuse, Reports!vars
    <2>5. CASE pc' = "ending" /\ UNCHANGED <<watched, sent>>
        <3>1. {q \in Pid : Owed(q)}' \in SUBSET {q \in Pid : Owed(q)}
            BY <2>1, <2>5 DEF Owed
        <3> QED BY <2>1, <2>5, <3>1 DEF Reports!Next, Reports!Stop
    <2> QED BY <1>7, <2>2, <2>3, <2>4, <2>5 DEF Register
<1>8. ASSUME NEW p \in Pid, SendExit(p) PROVE Reports!Next
    <2>1. /\ pc = "send" /\ p \in exited /\ p \in watched /\ watched' = watched \ {p}
          /\ Report(p, "send") /\ UNCHANGED <<proc, pending, batch>>
        BY <1>8 DEF SendExit, ThreadOK
    <2>2. \A q \in Pid \ {p} : Owed(q)' <=> Owed(q)
        BY <2>1 DEF Owed
    <2>3. p \in Due /\ p \in Gone /\ pc \in Running /\ "send" \in Running
        BY <2>1 DEF Due, Gone, Owed, Running, Labels, ThreadOK
    <2>4. Reports!Report(p) \/ Reports!Stop
        BY <2>1, <2>2, <2>3, ReportSeen
    <2> QED BY <2>4 DEF Reports!Next
<1>9. ASSUME NEW p \in Pid, Exit(p) PROVE Reports!Next
    <2>1. /\ proc[p] = "live" /\ proc' = [proc EXCEPT ![p] = "zombie"]
          /\ UNCHANGED <<pending, watched, batch, sent, pc>>
        BY <1>9 DEF Exit, thread
    <2>2. {q \in Pid : proc[q] # "live"}' = {q \in Pid : proc[q] # "live"} \cup {p}
        BY <2>1 DEF ThreadOK
    <2>3. {q \in Pid : Owed(q)}' = {q \in Pid : Owed(q)}
        BY <2>1 DEF Owed
    <2> QED BY <2>1, <2>2, <2>3 DEF Reports!Next, Reports!Exit
<1>10. ASSUME NEW p \in Pid, Reap(p) PROVE UNCHANGED Reports!vars
    <2>1. /\ proc[p] = "zombie" /\ proc' = [proc EXCEPT ![p] = "reaped"]
          /\ UNCHANGED <<pending, watched, batch, sent, pc>>
        BY <1>10 DEF Reap, thread
    <2>2. {q \in Pid : proc[q] # "live"}' = {q \in Pid : proc[q] # "live"}
        BY <2>1 DEF ThreadOK
    <2> QED BY <2>1, <2>2 DEF Reports!vars, Owed
<1>11. CASE UNCHANGED vars
    BY <1>11 DEF vars, thread, Reports!vars, Owed
<1> QED
    BY <1>1, <1>2, <1>3, <1>4, <1>5, <1>6, <1>7, <1>8, <1>9, <1>10, <1>11
    DEF Next, ThreadStep, Reports!Next

\* What a step may drop: a pid whose exit it reports, or one it could not open.
Accounted == \A p \in Pid : Up' /\ Owed(p) /\ ~Owed(p)' => sent'[p] = sent[p] + 1 \/ Unopened(p)

\* What may stop the thread.
Caused == \/ closed \/ ~receiver
          \/ pc = "poll" /\ "poll" \in Faults
          \/ pc = "register" /\ "nosys" \in Faults

LEMMA NextForgetsNone == ThreadOK /\ [Next]_vars => Accounted
<1> SUFFICES ASSUME ThreadOK, [Next]_vars, NEW p \in Pid, Up', Owed(p), ~Owed(p)'
             PROVE  sent'[p] = sent[p] + 1 \/ Unopened(p)
    BY DEF Accounted
<1>1. CASE \E c \in Caller : (\E q \in Pid : Watch(c, q)) \/ Wake(c)
    BY <1>1 DEF Watch, Wake, thread, Owed
<1>2. ASSUME NEW c \in Caller, Push(c) PROVE FALSE
    <2>1. pending' = [pending EXCEPT ![call[c].pid] = @ + 1] /\ UNCHANGED <<watched, batch>>
        BY <1>2 DEF Push, thread
    <2>2. pending'[p] >= pending[p] /\ pending[p] \in Nat /\ pending'[p] \in Nat
        BY <2>1 DEF ThreadOK
    <2> QED BY <2>1, <2>2 DEF Owed
<1>3. CASE \/ Drop \/ DropWake \/ ReceiverGone \/ UNCHANGED vars
           \/ \E q \in Pid : Exit(q) \/ Reap(q)
    BY <1>3 DEF Drop, DropWake, ReceiverGone, vars, Exit, Reap, thread, Owed
<1>4. CASE Top \/ Poll \/ PollFails \/ Polled \/ DrainPipe \/ Registered \/ Again
    BY <1>4 DEF Top, Poll, PollFails, Polled, DrainPipe, Registered, Again, Owed
<1>5. CASE DrainPending
    <2>1. /\ batch = {} /\ UNCHANGED watched
          /\ batch' = {q \in Pid : pending[q] > 0}
        BY <1>5 DEF DrainPending, Goto, ThreadOK, Running, Labels
    <2> QED BY <2>1 DEF Owed
<1>6. CASE MarkClosed \/ ClearPending
    BY <1>6 DEF MarkClosed, ClearPending, Goto, Up
<1>7. ASSUME NEW q \in Pid, Register(q) PROVE sent'[p] = sent[p] + 1 \/ Unopened(p)
    <2>1. /\ pc = "register" /\ q \in batch /\ batch' = batch \ {q} /\ UNCHANGED pending
          /\ watched \subseteq watched'
        BY <1>7 DEF Register
    <2>2. p = q /\ p \notin watched' /\ p \notin watched
        BY <2>1 DEF Owed
    <2>3. CASE proc[q] = "reaped" /\ Report(q, "register")
        BY <2>2, <2>3 DEF Report, Up, ThreadOK
    <2>4. CASE proc[q] # "reaped" /\ "pidfd" \in Faults
        BY <2>1, <2>2, <2>4 DEF Unopened
    <2>5. CASE pc' = "ending"
        BY <2>5 DEF Up
    <2> QED BY <1>7, <2>2, <2>3, <2>4, <2>5 DEF Register
<1>8. ASSUME NEW q \in Pid, SendExit(q) PROVE sent'[p] = sent[p] + 1
    <2>1. /\ watched' = watched \ {q} /\ Report(q, "send") /\ UNCHANGED <<pending, batch>>
        BY <1>8 DEF SendExit
    <2>2. p = q
        BY <2>1 DEF Owed
    <2> QED BY <2>1, <2>2 DEF Report, Up, ThreadOK
<1> QED
    BY <1>1, <1>2, <1>3, <1>4, <1>5, <1>6, <1>7, <1>8 DEF Next, ThreadStep

LEMMA NextStopsForCause == [Next]_vars => (Up /\ ~Up' => Caused)
<1> SUFFICES ASSUME [Next]_vars, Up, ~Up' PROVE Caused
    OBVIOUS
<1>1. CASE \/ Drop \/ DropWake \/ ReceiverGone \/ UNCHANGED vars
           \/ \E q \in Pid : Exit(q) \/ Reap(q)
           \/ \E c \in Caller : (\E q \in Pid : Watch(c, q)) \/ Push(c) \/ Wake(c)
    BY <1>1 DEF Drop, DropWake, ReceiverGone, vars, Exit, Reap, Watch, Push, Wake, thread, Up
<1>2. CASE Top \/ Poll \/ PollFails \/ Polled \/ DrainPipe \/ DrainPending \/ Registered \/ Again
    BY <1>2 DEF Top, Poll, PollFails, Polled, DrainPipe, DrainPending, Registered, Again, Goto, Up, Caused
<1>3. CASE MarkClosed \/ ClearPending
    BY <1>3 DEF MarkClosed, ClearPending, Goto, Up
<1>4. ASSUME NEW q \in Pid, Register(q) \/ SendExit(q) PROVE Caused
    BY <1>4 DEF Register, SendExit, Report, Up, Caused
<1> QED BY <1>1, <1>2, <1>3, <1>4 DEF Next, ThreadStep

\* exit_watch.rs: whatever the order of pushes, wakes, polls, faults and drops,
\* no live process is reported; while the thread runs no pid handed over is
\* dropped but by its report or for a pidfd that could not be had; and the thread
\* does not stop of itself.
THEOREM ReportsKept == Spec => KeepsReports
<1>1. Init => Reports!Init
    BY DEF Init, Reports!Init, Owed, Up
<1>2. Spec => Reports!Spec
    BY <1>1, InitThread, NextThread, NextSeen, PTL DEF Spec, Reports!Spec
<1>3. ThreadOK /\ [Next]_vars => [Accounted]_vars
    BY NextForgetsNone
<1>4. Spec => NoneForgotten
    BY <1>3, InitThread, NextThread, PTL DEF Spec, NoneForgotten, Accounted
<1>5. [Next]_vars => [Up /\ ~Up' => Caused]_vars
    BY NextStopsForCause
<1>6. Spec => StopsForCause
    BY <1>5, PTL DEF Spec, StopsForCause, Caused
<1> QED BY <1>2, <1>4, <1>6 DEF KeepsReports
-----------------------------------------------------------------------------
(* One exit per watch.  The calls of watch() that may still cost an exit   *)
(* of p are counted ahead of it.                                           *)

Held(b) == IF b THEN 1 ELSE 0

Holds(p) == p \in watched \/ p \in batch

\* The queue is drained before p, if it is watched, can be reported.
DrainFirst(p) ==
    \/ pc \in {"pipe", "pending"} \/ (pc = "polled" /\ woke)
    \/ pipe /\ ~(p \in exited /\ pc \in {"polled", "register", "send"})

\* A caller that found p watched and alive still owes the byte of its push.
Excused(p) == proc[p] = "live" /\ \E c \in Caller : call[c].at = "wake" /\ call[c].pid = p /\ call[c].settled

\* The copies of p in the queue may come out when p is no longer watched.
Threat(p) == pending[p] > 0 /\ ~(p \in watched /\ DrainFirst(p)) /\ ~Excused(p)

Pushing(p) == {c \in Caller : call[c].at = "push" /\ call[c].pid = p /\ (call[c].settled => proc[p] # "live")}

Ahead(p) == Held(Holds(p)) + Held(Threat(p)) + Cardinality(Pushing(p))

Room(p) == sent[p] + (IF pc \in Running THEN Ahead(p) ELSE 0) <= late[p]

SettledOK ==
    pc \in Running => \A c \in Caller :
        call[c].at # "out" /\ call[c].settled /\ proc[call[c].pid] = "live" => call[c].pid \in watched

Budgeted ==
    /\ late \in [Pid -> Nat]
    /\ SettledOK
    /\ \A p \in Pid : Room(p)

LEMMA InitBudgeted == Init => Budgeted
<1> SUFFICES ASSUME Init PROVE Budgeted
    OBVIOUS
<1>1. \A p \in Pid : Pushing(p) = {}
    BY DEF Init, Pushing, Outside
<1>2. \A p \in Pid : ~Holds(p) /\ ~Threat(p)
    BY DEF Init, Holds, Threat
<1>3. \A p \in Pid : Room(p)
    BY <1>1, <1>2, FS_EmptySet DEF Init, Room, Ahead, Held
<1> QED BY <1>3 DEF Init, Budgeted, SettledOK, Outside

LEMMA PushingFinite ==
    ASSUME NEW p \in Pid
    PROVE  IsFiniteSet(Pushing(p)) /\ Cardinality(Pushing(p)) \in Nat
<1>1. Pushing(p) \subseteq Caller
    BY DEF Pushing
<1> QED BY <1>1, FS_Subset, FS_CardinalityType, ExitWatchAssumption

\* A step that adds nothing that could cost an exit of p.
LEMMA Quiet ==
    ASSUME ThreadOK, Budgeted, NEW p \in Pid, sent'[p] = sent[p], late' = late,
           pc' \in Running => pc \in Running,
           pc' \in Running => /\ Pushing(p)' = Pushing(p)
                              /\ Holds(p)' => Holds(p)
                              /\ Threat(p)' => Threat(p)
    PROVE  Room(p)'
<1>1. Cardinality(Pushing(p)) \in Nat /\ sent[p] \in Nat /\ late[p] \in Nat /\ Room(p)
    BY PushingFinite DEF ThreadOK, Budgeted
<1>2. CASE pc' \in Running
    <2>1. Cardinality(Pushing(p)') = Cardinality(Pushing(p))
        BY <1>2
    <2>2. Ahead(p)' <= Ahead(p) /\ Ahead(p) \in Nat /\ Ahead(p)' \in Nat
        BY <1>1, <1>2, <2>1 DEF Ahead, Held
    <2> QED BY <1>1, <1>2, <2>2 DEF Room
<1>3. CASE pc' \notin Running
    <2>1. sent[p] <= late[p]
        <3>1. Ahead(p) \in Nat
            BY <1>1 DEF Ahead, Held
        <3> QED BY <1>1, <3>1 DEF Room
    <2> QED BY <1>1, <1>3, <2>1 DEF Room
<1> QED BY <1>2, <1>3

\* The calls in flight, and one that found p alive and watched the more.
LEMMA WatchBudgeted ==
    ASSUME ThreadOK, Budgeted, NEW c \in Caller, NEW q \in Pid, Watch(c, q)
    PROVE  Budgeted'
<1> DEFINE settled == q \in watched /\ proc[q] = "live"
<1>1. /\ late' = [late EXCEPT ![q] = @ + (IF settled THEN 0 ELSE 1)] /\ call[c] = Outside
      /\ UNCHANGED <<proc, pending, pipe, pc, watched, woke, exited, batch, sent>>
      /\ \/ call' = call
         \/ call' = [call EXCEPT ![c] = [at |-> "push", pid |-> q, settled |-> settled]]
    BY DEF Watch, thread
<1>2. late' \in [Pid -> Nat] /\ \A p \in Pid \ {q} : late'[p] = late[p]
    BY <1>1 DEF Budgeted
<1>3. SettledOK'
    BY <1>1 DEF Budgeted, SettledOK, ThreadOK, Outside
<1>4. ASSUME NEW p \in Pid PROVE Room(p)'
    <2>1. /\ IsFiniteSet(Pushing(p)) /\ Cardinality(Pushing(p)) \in Nat
          /\ sent[p] \in Nat /\ late[p] \in Nat /\ late'[p] \in Nat /\ Room(p) /\ sent'[p] = sent[p]
        BY <1>1, <1>2, PushingFinite DEF ThreadOK, Budgeted
    <2>2. Excused(p)' <=> Excused(p)
        BY <1>1 DEF Excused, Outside, ThreadOK
    <2>3. (Holds(p)' <=> Holds(p)) /\ (Threat(p)' <=> Threat(p))
        BY <1>1, <2>2 DEF Holds, Threat, DrainFirst
    <2>4. Pushing(p)' \in {Pushing(p), Pushing(p) \cup {c}} /\ (Pushing(p)' # Pushing(p) => p = q /\ ~settled)
        <3>1. CASE call' = call
            BY <1>1, <3>1 DEF Pushing
        <3>2. CASE call' = [call EXCEPT ![c] = [at |-> "push", pid |-> q, settled |-> settled]]
            <4>1. /\ \A d \in Caller \ {c} : call'[d] = call[d]
                  /\ call'[c].at = "push" /\ call'[c].pid = q /\ call'[c].settled = settled
                  /\ call[c].at = "out"
                BY <1>1, <3>2 DEF ThreadOK, Outside
            <4>2. CASE p = q /\ ~settled
                <5>1. Pushing(p)' = Pushing(p) \cup {c}
                    BY <1>1, <4>1, <4>2 DEF Pushing
                <5> QED BY <4>2, <5>1
            <4>3. CASE ~(p = q /\ ~settled)
                <5>1. Pushing(p)' = Pushing(p)
                    BY <1>1, <4>1, <4>3, ZenonT(30) DEF Pushing
                <5> QED BY <5>1
            <4> QED BY <4>2, <4>3
        <3> QED BY <1>1, <3>1, <3>2
    <2>5. Cardinality(Pushing(p) \cup {c}) \in {Cardinality(Pushing(p)), Cardinality(Pushing(p)) + 1}
        BY <2>1, FS_AddElement
    <2>6. Cardinality(Pushing(p)') \in Nat /\ Cardinality(Pushing(p)') - Cardinality(Pushing(p)) <= late'[p] - late[p]
        <3>1. CASE Pushing(p)' = Pushing(p)
            <4>1. late'[p] >= late[p]
                BY <1>1, <1>2, <2>1 DEF Budgeted
            <4> QED BY <2>1, <3>1, <4>1
        <3>2. CASE Pushing(p)' # Pushing(p)
            <4>1. late'[p] = late[p] + 1
                BY <1>1, <2>4, <3>2 DEF Budgeted
            <4>2. Cardinality(Pushing(p)') = Cardinality(Pushing(p) \cup {c})
                BY <2>4, <3>2
            <4> QED BY <2>1, <2>5, <4>1, <4>2
        <3> QED BY <3>1, <3>2
    <2> QED BY <1>1, <2>1, <2>3, <2>6 DEF Room, Ahead, Held
<1> QED BY <1>2, <1>3, <1>4 DEF Budgeted

LEMMA PushBudgeted ==
    ASSUME ThreadOK, Budgeted, NEW c \in Caller, Push(c)
    PROVE  Budgeted'
<1>0. PICK q \in Pid : q = call[c].pid
    BY DEF Push, ThreadOK
<1>1. /\ call[c].at = "push" /\ q = call[c].pid /\ call' = [call EXCEPT ![c].at = "wake"]
      /\ pending' = [pending EXCEPT ![q] = @ + 1]
      /\ UNCHANGED <<late, proc, pipe, pc, watched, woke, exited, batch, sent>>
    BY <1>0 DEF Push, thread, ThreadOK
<1>2. \A d \in Caller : /\ d # c => call'[d] = call[d]
                        /\ call'[d].pid = call[d].pid /\ call'[d].settled = call[d].settled
    BY <1>1 DEF ThreadOK
<1>3. call'[c].at = "wake"
    BY <1>1 DEF ThreadOK
<1>4. SettledOK'
    BY <1>1, <1>2, <1>3 DEF Budgeted, SettledOK
<1>5. ASSUME NEW p \in Pid, p # q PROVE Room(p)'
    <2>1. pending'[p] = pending[p]
        BY <1>1, <1>5 DEF ThreadOK
    <2>2. Pushing(p)' = Pushing(p)
        BY <1>1, <1>2, <1>5 DEF Pushing
    <2>3. Excused(p)' <=> Excused(p)
        BY <1>1, <1>2, <1>5 DEF Excused
    <2> QED BY <1>1, <2>1, <2>2, <2>3, Quiet DEF Holds, Threat, DrainFirst
<1>6. Room(q)'
    <2>1. CASE call[c].settled /\ proc[q] = "live"
        <3>1. Excused(q)'
            BY <1>1, <1>2, <1>3, <2>1 DEF Excused
        <3>2. Pushing(q)' = Pushing(q)
            BY <1>1, <1>2, <1>3, <2>1 DEF Pushing
        <3> QED BY <1>1, <3>1, <3>2, Quiet DEF Holds, Threat
    <2>2. CASE ~(call[c].settled /\ proc[q] = "live")
        <3>1. c \in Pushing(q) /\ Pushing(q)' = Pushing(q) \ {c}
            BY <1>1, <1>2, <1>3, <2>2 DEF Pushing, ThreadOK
        <3>2. /\ IsFiniteSet(Pushing(q)) /\ Cardinality(Pushing(q)) \in Nat
              /\ sent[q] \in Nat /\ late[q] \in Nat /\ Room(q)
            BY <1>1, PushingFinite DEF ThreadOK, Budgeted
        <3>3. Cardinality(Pushing(q)') = Cardinality(Pushing(q)) - 1
            BY <3>1, <3>2, FS_RemoveElement
        <3>4. Cardinality(Pushing(q)') \in Nat
            <4>1. IsFiniteSet(Pushing(q) \ {c})
                BY <3>2, FS_RemoveElement
            <4> QED BY <3>1, <4>1, FS_CardinalityType
        <3>5. Holds(q)' <=> Holds(q)
            BY <1>1 DEF Holds
        <3> QED BY <1>1, <3>2, <3>3, <3>4, <3>5 DEF Room, Ahead, Held
    <2> QED BY <2>1, <2>2
<1>7. \A p \in Pid : Room(p)'
    BY <1>5, <1>6
<1> QED BY <1>1, <1>4, <1>7 DEF Budgeted

\* The byte is in the pipe before the excuse is gone.
LEMMA WakeBudgeted ==
    ASSUME ThreadOK, Budgeted, NEW c \in Caller, Wake(c)
    PROVE  Budgeted'
<1>1. /\ call[c].at = "wake" /\ call' = [call EXCEPT ![c] = Outside] /\ pipe' = TRUE
      /\ UNCHANGED <<late, proc, pending, pc, watched, woke, exited, batch, sent>>
    BY DEF Wake, thread
<1>2. call'[c].at = "out" /\ \A d \in Caller \ {c} : call'[d] = call[d]
    BY <1>1 DEF Outside, ThreadOK
<1>3. SettledOK'
    BY <1>1, <1>2 DEF Budgeted, SettledOK
<1>4. ASSUME NEW p \in Pid PROVE Room(p)'
    <2>1. Pushing(p)' = Pushing(p)
        BY <1>1, <1>2 DEF Pushing
    <2>2. ASSUME pc \in Running, Threat(p)' PROVE Threat(p)
        <3>1. CASE Excused(p)
            <4>1. p \in watched /\ proc[p] = "live"
                BY <2>2, <3>1 DEF Excused, Budgeted, SettledOK
            <4> QED BY <1>1, <2>2, <4>1 DEF Threat, DrainFirst, ThreadOK
        <3>2. CASE ~Excused(p)
            BY <1>1, <2>2, <3>2 DEF Threat, DrainFirst
        <3> QED BY <3>1, <3>2
    <2> QED BY <1>1, <2>1, <2>2, Quiet DEF Holds
<1> QED BY <1>1, <1>3, <1>4 DEF Budgeted

\* The exit takes from its callers in flight what it cost them.
LEMMA ExitBudgeted ==
    ASSUME ThreadOK, Budgeted, NEW q \in Pid, Exit(q)
    PROVE  Budgeted'
<1> DEFINE S == {c \in Caller : call[c].pid = q /\ call[c].settled}
           L == {c \in S : call[c].at = "push"}
<1>1. /\ proc[q] = "live" /\ proc' = [proc EXCEPT ![q] = "zombie"]
      /\ late' = [late EXCEPT ![q] = @ + Cardinality(S)]
      /\ UNCHANGED <<call, pending, pipe, pc, watched, woke, exited, batch, sent>>
    BY DEF Exit, thread
<1>2. proc'[q] = "zombie" /\ \A p \in Pid \ {q} : proc'[p] = proc[p]
    BY <1>1 DEF ThreadOK
<1>3. IsFiniteSet(S) /\ Cardinality(S) \in Nat
    <2>1. S \subseteq Caller
        OBVIOUS
    <2> QED BY <2>1, FS_Subset, FS_CardinalityType, ExitWatchAssumption
<1>4. IsFiniteSet(L) /\ Cardinality(L) \in Nat /\ Cardinality(L) <= Cardinality(S)
      /\ (L # S => Cardinality(L) < Cardinality(S))
    <2>1. L \in SUBSET S
        OBVIOUS
    <2> HIDE DEF S, L
    <2>2. IsFiniteSet(L) /\ Cardinality(L) <= Cardinality(S) /\ (Cardinality(S) = Cardinality(L) => S = L)
        BY <1>3, <2>1, FS_Subset
    <2>3. Cardinality(L) \in Nat
        BY <2>2, FS_CardinalityType
    <2> QED BY <1>3, <2>2, <2>3
<1>5. late' \in [Pid -> Nat] /\ late'[q] = late[q] + Cardinality(S) /\ \A p \in Pid \ {q} : late'[p] = late[p]
    BY <1>1, <1>3 DEF Budgeted
<1>6. SettledOK'
    BY <1>1, <1>2 DEF Budgeted, SettledOK, ThreadOK
<1>7. ASSUME NEW p \in Pid, p # q PROVE Room(p)'
    <2>1. Pushing(p)' = Pushing(p)
        BY <1>1, <1>2, <1>7 DEF Pushing
    <2>2. (Holds(p)' <=> Holds(p)) /\ (Threat(p)' <=> Threat(p))
        BY <1>1, <1>2, <1>7 DEF Holds, Threat, DrainFirst, Excused
    <2>3. Cardinality(Pushing(p)') = Cardinality(Pushing(p))
        BY <2>1
    <2>4. Ahead(p)' = Ahead(p)
        BY <2>2, <2>3 DEF Ahead, Held
    <2> QED BY <1>1, <1>5, <1>7, <2>4 DEF Room, Budgeted
<1>8. Room(q)'
    <2>1. /\ IsFiniteSet(Pushing(q)) /\ Cardinality(Pushing(q)) \in Nat
          /\ sent[q] \in Nat /\ late[q] \in Nat /\ Room(q)
        BY PushingFinite DEF ThreadOK, Budgeted
    <2>2. Pushing(q)' = Pushing(q) \cup L
        BY <1>1, <1>2 DEF Pushing
    <2>3. Cardinality(Pushing(q)') \in Nat /\ Cardinality(Pushing(q)') <= Cardinality(Pushing(q)) + Cardinality(L)
        <3> HIDE DEF L
        <3>1. /\ IsFiniteSet(Pushing(q) \cup L)
              /\ Cardinality(Pushing(q) \cup L) = Cardinality(Pushing(q)) + Cardinality(L) - Cardinality(Pushing(q) \cap L)
            BY <1>4, <2>1, FS_Union
        <3>2. Cardinality(Pushing(q) \cup L) \in Nat
            BY <3>1, FS_CardinalityType
        <3>3. Cardinality(Pushing(q) \cap L) \in Nat
            <4>1. IsFiniteSet(Pushing(q) \cap L)
                BY <2>1, FS_Subset
            <4> QED BY <4>1, FS_CardinalityType
        <3> QED BY <1>4, <2>1, <2>2, <3>1, <3>2, <3>3
    <2>4. Holds(q)' <=> Holds(q)
        BY <1>1 DEF Holds
    <2>5. Threat(q)' => Threat(q) \/ Excused(q)
        BY <1>1 DEF Threat, DrainFirst
    <2>6. Excused(q) => L # S
        BY DEF Excused
    <2>7. Held(Threat(q)') + Cardinality(Pushing(q)') <= Held(Threat(q)) + Cardinality(Pushing(q)) + Cardinality(S)
        <3>1. CASE Excused(q)
            BY <1>3, <1>4, <2>1, <2>3, <2>6, <3>1 DEF Held
        <3>2. CASE ~Excused(q)
            BY <1>3, <1>4, <2>1, <2>3, <2>5, <3>2 DEF Held
        <3> QED BY <3>1, <3>2
    <2> HIDE DEF S
    <2>8. Held(Threat(q)) \in Nat /\ Held(Threat(q)') \in Nat /\ Held(Holds(q)) \in Nat
          /\ Held(Holds(q)') = Held(Holds(q))
        BY <2>4 DEF Held
    <2> QED BY <1>1, <1>3, <1>5, <2>1, <2>3, <2>7, <2>8 DEF Room, Ahead
<1>9. \A p \in Pid : Room(p)'
    BY <1>7, <1>8
<1> QED BY <1>5, <1>6, <1>9 DEF Budgeted

\* A report is the one that was held for p.
LEMMA ReportBudgeted ==
    ASSUME ThreadOK, ThreadOK', Budgeted, NEW p \in Pid, NEW next, Report(p, next), next \in Running,
           late' = late, pc \in Running, Holds(p), ~Holds(p)', Threat(p)' => Threat(p),
           Pushing(p)' = Pushing(p)
    PROVE  Room(p)'
<1>1. Cardinality(Pushing(p)) \in Nat /\ sent[p] \in Nat /\ late[p] \in Nat /\ Room(p)
    BY PushingFinite DEF ThreadOK, Budgeted
<1>2. Cardinality(Pushing(p)') = Cardinality(Pushing(p))
    OBVIOUS
<1>3. CASE receiver
    <2>1. sent'[p] = sent[p] + 1 /\ pc' \in Running
        BY <1>3 DEF Report, ThreadOK
    <2>2. Ahead(p)' + 1 <= Ahead(p) /\ Ahead(p) \in Nat /\ Ahead(p)' \in Nat
        BY <1>1, <1>2 DEF Ahead, Held
    <2> QED BY <1>1, <2>1, <2>2 DEF Room
<1>4. CASE ~receiver
    <2>1. sent' = sent /\ pc' \notin Running
        BY <1>4 DEF Report, Running
    <2> QED BY <2>1, Quiet
<1> QED BY <1>3, <1>4

LEMMA ThreadStepBudgeted ==
    ASSUME ThreadOK, ThreadOK', Budgeted, ThreadStep
    PROVE  Budgeted'
<1>1. UNCHANGED <<proc, call, late>> /\ late \in [Pid -> Nat]
    BY DEF ThreadStep, callers, Top, Poll, PollFails, Polled, DrainPipe, DrainPending, Register, SendExit,
           Registered, Again, MarkClosed, ClearPending, Budgeted
<1>2. \A p \in Pid : Pushing(p)' = Pushing(p) /\ (Excused(p)' <=> Excused(p))
    BY <1>1 DEF Pushing, Excused
<1>3. ASSUME pc \in Running, SettledOK, pc' \in Running,
             \A p \in Pid : p \in watched /\ proc[p] = "live" => p \in watched'
      PROVE  SettledOK'
    BY <1>1, <1>3 DEF SettledOK, ThreadOK
<1> USE DEF Labels, Running
<1>4. CASE Top \/ Poll \/ PollFails \/ Polled \/ DrainPipe \/ Registered \/ Again
    <2>1. pc \in Running /\ UNCHANGED <<pending, watched, batch, sent>>
        BY <1>4 DEF Top, Poll, PollFails, Polled, DrainPipe, Registered, Again, Goto
    <2>2. SettledOK'
        BY <1>1, <2>1 DEF Budgeted, SettledOK
    <2>3. ASSUME NEW p \in Pid, pc' \in Running, p \in watched, DrainFirst(p) PROVE DrainFirst(p)'
        BY <1>4, <2>3 DEF Top, Poll, PollFails, Polled, DrainPipe, Registered, Again, Goto, DrainFirst
    <2>4. ASSUME NEW p \in Pid PROVE Room(p)'
        BY <1>1, <1>2, <2>1, <2>3, Quiet DEF Holds, Threat
    <2> QED BY <1>1, <2>2, <2>4 DEF Budgeted
<1>5. CASE DrainPending
    <2>1. /\ pc = "pending" /\ pc' = "register" /\ UNCHANGED <<watched, sent>>
          /\ batch' = {p \in Pid : pending[p] > 0} /\ pending' = [p \in Pid |-> 0]
        BY <1>5 DEF DrainPending, Goto
    <2>2. SettledOK'
        BY <1>1, <2>1 DEF Budgeted, SettledOK
    <2>3. ASSUME NEW p \in Pid PROVE Room(p)'
        <3>1. /\ Cardinality(Pushing(p)) \in Nat /\ sent[p] \in Nat /\ late[p] \in Nat /\ Room(p)
              /\ Cardinality(Pushing(p)') = Cardinality(Pushing(p))
            BY <1>2, PushingFinite DEF ThreadOK, Budgeted
        <3>2. ~Threat(p)' /\ (Holds(p)' <=> p \in watched \/ pending[p] > 0)
            BY <2>1 DEF Threat, Holds
        <3>3. Excused(p) => p \in watched
            BY <2>1 DEF Excused, Budgeted, SettledOK
        <3>4. Holds(p)' => Holds(p) \/ Threat(p)
            BY <3>2, <3>3 DEF Threat, Holds
        <3>5. Ahead(p)' <= Ahead(p) /\ Ahead(p) \in Nat /\ Ahead(p)' \in Nat
            BY <3>1, <3>2, <3>4 DEF Ahead, Held
        <3> QED BY <1>1, <2>1, <3>1, <3>5 DEF Room
    <2> QED BY <1>1, <2>2, <2>3 DEF Budgeted
<1>6. CASE MarkClosed \/ ClearPending
    <2>1. pc' \notin Running /\ sent' = sent
        BY <1>6 DEF MarkClosed, ClearPending, Goto
    <2>2. \A p \in Pid : Room(p)'
        BY <1>1, <2>1, Quiet
    <2> QED BY <1>1, <2>1, <2>2 DEF Budgeted, SettledOK
<1>7. ASSUME NEW q \in Pid, Register(q) PROVE Budgeted'
    <2>1. /\ pc = "register" /\ q \in batch /\ batch' = batch \ {q} /\ UNCHANGED <<pending, pipe, woke, exited>>
          /\ pc' \in {"register", "ending"}
          /\ watched' \in {watched, watched \cup {q}}
        BY <1>7 DEF Register, Report
    <2>2. SettledOK'
        BY <1>3, <2>1 DEF Budgeted, SettledOK
    <2>3. ASSUME NEW p \in Pid PROVE Threat(p)' => Threat(p) \/ pc' \notin Running
        BY <1>2, <2>1 DEF Threat, DrainFirst
    <2>4. ASSUME NEW p \in Pid, Holds(p)' PROVE Holds(p)
        BY <2>1, <2>4 DEF Holds
    <2>5. CASE sent' = sent
        <3>1. ASSUME NEW p \in Pid PROVE Room(p)'
            BY <1>1, <1>2, <2>1, <2>3, <2>4, <2>5, Quiet
        <3> QED BY <1>1, <2>2, <3>1 DEF Budgeted
    <2>6. CASE q \notin watched /\ Report(q, "register") /\ UNCHANGED watched
        <3>1. Room(q)'
            <4>1. Holds(q) /\ ~Holds(q)' /\ (Threat(q)' => Threat(q))
                BY <1>2, <2>1, <2>6 DEF Holds, Threat
            <4> QED BY <1>1, <1>2, <2>1, <2>6, <4>1, ReportBudgeted
        <3>2. ASSUME NEW p \in Pid, p # q PROVE Room(p)'
            <4>1. sent'[p] = sent[p]
                BY <2>6, <3>2 DEF Report, ThreadOK
            <4> QED BY <1>1, <1>2, <2>1, <2>3, <2>4, <4>1, Quiet
        <3>3. \A p \in Pid : Room(p)'
            BY <3>1, <3>2
        <3> QED BY <1>1, <2>2, <3>3 DEF Budgeted
    <2> QED BY <1>7, <2>5, <2>6 DEF Register
<1>8. ASSUME NEW q \in Pid, SendExit(q) PROVE Budgeted'
    <2>1. /\ pc = "send" /\ q \in exited /\ exited' = exited \ {q} /\ watched' = watched \ {q}
          /\ Report(q, "send") /\ UNCHANGED <<pending, pipe, woke, batch>> /\ batch = {}
          /\ proc[q] # "live" /\ q \in watched /\ pc' \in {"send", "ending"}
        BY <1>8 DEF SendExit, ThreadOK, Report
    <2>2. SettledOK'
        BY <1>3, <2>1 DEF Budgeted, SettledOK
    <2>3. Room(q)'
        <3>1. Holds(q) /\ ~Holds(q)'
            BY <2>1 DEF Holds
        <3>2. Threat(q)' => Threat(q)
            BY <1>2, <2>1 DEF Threat, DrainFirst, Excused
        <3> QED BY <1>1, <1>2, <2>1, <3>1, <3>2, ReportBudgeted
    <2>4. ASSUME NEW p \in Pid, p # q PROVE Room(p)'
        <3>1. sent'[p] = sent[p]
            BY <2>1, <2>4 DEF Report, ThreadOK
        <3>2. Holds(p)' => Holds(p)
            BY <2>1 DEF Holds
        <3>3. pc' \in Running /\ Threat(p)' => Threat(p)
            BY <1>2, <2>1, <2>4 DEF Threat, DrainFirst
        <3> QED BY <1>1, <1>2, <2>1, <3>1, <3>2, <3>3, Quiet
    <2>5. \A p \in Pid : Room(p)'
        BY <2>3, <2>4
    <2> QED BY <1>1, <2>2, <2>5 DEF Budgeted
<1> QED BY <1>4, <1>5, <1>6, <1>7, <1>8 DEF ThreadStep

LEMMA NextBudgeted == ThreadOK /\ ThreadOK' /\ Budgeted /\ [Next]_vars => Budgeted'
<1> SUFFICES ASSUME ThreadOK, ThreadOK', Budgeted, [Next]_vars PROVE Budgeted'
    OBVIOUS
<1>1. CASE ThreadStep
    BY <1>1, ThreadStepBudgeted
<1>2. ASSUME NEW c \in Caller, (\E p \in Pid : Watch(c, p)) \/ Push(c) \/ Wake(c) PROVE Budgeted'
    BY <1>2, WatchBudgeted, PushBudgeted, WakeBudgeted
<1>3. ASSUME NEW q \in Pid, Exit(q) PROVE Budgeted'
    BY <1>3, ExitBudgeted
<1>4. CASE Drop \/ DropWake \/ ReceiverGone \/ UNCHANGED vars \/ \E q \in Pid : Reap(q)
    <2>1. UNCHANGED <<call, late, pending, pc, watched, woke, exited, batch, sent>> /\ (pipe' = pipe \/ pipe' = TRUE)
        BY <1>4 DEF Drop, DropWake, ReceiverGone, vars, Reap, thread, callers
    <2>2. \A p \in Pid : proc'[p] = "live" <=> proc[p] = "live"
        BY <1>4 DEF Drop, DropWake, ReceiverGone, vars, Reap, ThreadOK
    <2>3. SettledOK'
        BY <2>1, <2>2 DEF Budgeted, SettledOK, ThreadOK
    <2>4. ASSUME NEW p \in Pid PROVE Room(p)'
        <3>1. Pushing(p)' = Pushing(p) /\ (Excused(p)' <=> Excused(p))
            BY <2>1, <2>2 DEF Pushing, Excused
        <3>2. (Holds(p)' => Holds(p)) /\ (Threat(p)' => Threat(p))
            BY <2>1, <3>1 DEF Holds, Threat, DrainFirst
        <3> QED BY <2>1, <3>1, <3>2, Quiet
    <2> QED BY <2>1, <2>3, <2>4 DEF Budgeted
<1> QED BY <1>1, <1>2, <1>3, <1>4 DEF Next

LEMMA BudgetedSuffices == ThreadOK /\ Budgeted => OneExitPerWatch
<1> SUFFICES ASSUME ThreadOK, Budgeted, NEW p \in Pid PROVE sent[p] <= late[p]
    BY DEF OneExitPerWatch
<1>1. Cardinality(Pushing(p)) \in Nat /\ sent[p] \in Nat /\ late[p] \in Nat /\ Room(p)
    BY PushingFinite DEF ThreadOK, Budgeted
<1>2. Ahead(p) \in Nat
    BY <1>1 DEF Ahead, Held
<1> QED BY <1>1, <1>2 DEF Room

\* exit_watch.rs: however many tasks push, however their pushes, wakes and the
\* deaths interleave with the polls and the drains, a pid that was watched and
\* alive throughout a call of watch() is reported no second time for it.
THEOREM ExitsAreBudgeted == Spec => []OneExitPerWatch
BY InitThread, NextThread, InitBudgeted, NextBudgeted, BudgetedSuffices, PTL DEF Spec
=============================================================================

----------------------------- MODULE ExitWatch -----------------------------
(***************************************************************************)
(* Instant process-exit detection (pixtuoid-core source/exit_watch.rs) on  *)
(* Linux: one detached thread blocked in poll(2) on a self-pipe and one    *)
(* pidfd per watched process, the tasks that hand it pids through a locked *)
(* queue, and Drop.  Every step here is one system call, one critical      *)
(* section, or one load or store of `closed`; between two of them anything *)
(* may happen.  Pids are not reused.                                       *)
(***************************************************************************)
EXTENDS Naturals, FiniteSets

CONSTANTS Pid, NoPid, (* process ids; the pid of a call that is not there  *)
          Caller,     (* the tasks that may be inside watch() at once      *)
          MaxWatches, (* how many calls of watch() this instance makes     *)
          Faults      (* what may go wrong: poll, pidfd_open, the receiver *)

ASSUME ExitWatchAssumption ==
    /\ NoPid \notin Pid /\ IsFiniteSet(Caller)
    /\ MaxWatches \in Nat
    /\ Faults \subseteq {"poll", "intr", "pidfd", "nosys", "receiver"}

VARIABLES
    proc,     (* "live", "zombie" or "reaped"                              *)
    pending,  (* the locked queue: how many copies of each pid it holds    *)
    closed,   (* Shared::closed                                            *)
    pipe,     (* whether the self-pipe holds a byte                        *)
    pc,       (* what the thread does next                                 *)
    watched,  (* the pids whose pidfd the thread holds                     *)
    woke,     (* the poll result: was the pipe readable                    *)
    exited,   (* the poll result: the pidfds that were, not yet reported   *)
    batch,    (* the outcome of drain_pending, not yet registered          *)
    call,     (* each caller's position inside watch()                     *)
    handle,   (* the ExitWatch value: "held", "dropping" or "dropped"      *)
    receiver, (* whether the receiver of the exits still exists            *)
    sent,     (* how many exits of each pid went out                       *)
    calls,    (* how many calls of watch() there have been                 *)
    late      (* history: the calls that began with their pid unwatched or *)
              (* dead, and those that its exit overtook                    *)

thread  == <<pc, watched, woke, exited, batch, sent>>
callers == <<call, calls, late>>
vars    == <<proc, pending, closed, pipe, thread, callers, handle, receiver>>

Labels == {"top", "poll", "polled", "pipe", "pending", "register", "send",
           "ending", "clearing", "ended"}

Outside == [at |-> "out", pid |-> NoPid, settled |-> FALSE]

Init ==
    /\ proc = [p \in Pid |-> "live"]
    /\ pending = [p \in Pid |-> 0]
    /\ closed = FALSE /\ pipe = FALSE
    /\ pc = "top" /\ watched = {} /\ woke = FALSE /\ exited = {} /\ batch = {}
    /\ call = [c \in Caller |-> Outside]
    /\ handle = "held" /\ receiver = TRUE
    /\ sent = [p \in Pid |-> 0] /\ calls = 0
    /\ late = [p \in Pid |-> 0]
-----------------------------------------------------------------------------
(* ExitWatch::watch, in three steps: load `closed`, push, wake.            *)

Watch(c, p) ==
    LET settled == p \in watched /\ proc[p] = "live"
        one     == IF settled THEN 0 ELSE 1
    IN /\ handle = "held" /\ call[c] = Outside /\ calls < MaxWatches
       /\ call'  = IF closed THEN call
                   ELSE [call EXCEPT ![c] = [at |-> "push", pid |-> p, settled |-> settled]]
       /\ calls' = calls + 1
       /\ late'  = [late EXCEPT ![p] = @ + one]
       /\ UNCHANGED <<proc, pending, closed, pipe, thread, handle, receiver>>

Push(c) ==
    /\ call[c].at = "push"
    /\ pending' = [pending EXCEPT ![call[c].pid] = @ + 1]
    /\ call' = [call EXCEPT ![c].at = "wake"]
    /\ UNCHANGED <<proc, closed, pipe, thread, calls, late, handle, receiver>>

\* A full pipe refuses the byte, and is readable all the same.
Wake(c) ==
    /\ call[c].at = "wake"
    /\ pipe' = TRUE
    /\ call' = [call EXCEPT ![c] = Outside]
    /\ UNCHANGED <<proc, pending, closed, thread, calls, late, handle, receiver>>

\* Drop needs the value to itself: nobody is inside watch().
Drop ==
    /\ handle = "held" /\ \A c \in Caller : call[c] = Outside
    /\ handle' = "dropping" /\ closed' = TRUE
    /\ UNCHANGED <<proc, pending, pipe, thread, callers, receiver>>

DropWake ==
    /\ handle = "dropping"
    /\ handle' = "dropped" /\ pipe' = TRUE
    /\ UNCHANGED <<proc, pending, closed, thread, callers, receiver>>
-----------------------------------------------------------------------------
(* The thread.                                                             *)

Goto(from, to) == pc = from /\ pc' = to

\* Mutant: `closed` is looked at only after poll has returned.
TopUnchecked ==
    /\ Goto("top", "poll")
    /\ UNCHANGED <<proc, pending, closed, pipe, watched, woke, exited, batch, sent,
                   callers, handle, receiver>>

\* Drop may have had its byte eaten: `closed` is read again before blocking.
Top ==
    /\ Goto("top", IF closed THEN "ending" ELSE "poll")
    /\ UNCHANGED <<proc, pending, closed, pipe, watched, woke, exited, batch, sent,
                   callers, handle, receiver>>

\* Mutant: the poll slots are read one off, so that a bystander is reported.
PollMisaligned ==
    LET dead == {p \in watched : proc[p] # "live"}
    IN /\ Goto("poll", "polled")
       /\ pipe \/ dead # {}
       /\ woke' = pipe /\ exited' = IF dead = {} THEN {} ELSE {CHOOSE p \in watched : TRUE}
       /\ UNCHANGED <<proc, pending, closed, pipe, watched, batch, sent,
                      callers, handle, receiver>>

\* Blocks until the pipe or some pidfd is readable; a zombie's is.
Poll ==
    LET dead == {p \in watched : proc[p] # "live"}
    IN /\ Goto("poll", "polled")
       /\ pipe \/ dead # {}
       /\ woke' = pipe /\ exited' = dead
       /\ UNCHANGED <<proc, pending, closed, pipe, watched, batch, sent,
                      callers, handle, receiver>>

PollFails ==
    /\ \/ "poll" \in Faults /\ Goto("poll", "ending")
       \/ "intr" \in Faults /\ Goto("poll", "top")
    /\ UNCHANGED <<proc, pending, closed, pipe, watched, woke, exited, batch, sent,
                   callers, handle, receiver>>

Polled ==
    /\ Goto("polled", IF closed THEN "ending" ELSE IF woke THEN "pipe" ELSE "send")
    /\ UNCHANGED <<proc, pending, closed, pipe, watched, woke, exited, batch, sent,
                   callers, handle, receiver>>

\* The pipe first, then the queue: a push in between leaves its byte.
DrainPipe ==
    /\ Goto("pipe", "pending")
    /\ pipe' = FALSE
    /\ UNCHANGED <<proc, pending, closed, watched, woke, exited, batch, sent,
                   callers, handle, receiver>>

\* The whole queue, duplicates merged.
DrainPending ==
    /\ Goto("pending", "register")
    /\ batch' = {p \in Pid : pending[p] > 0}
    /\ pending' = [p \in Pid |-> 0]
    /\ UNCHANGED <<proc, closed, pipe, watched, woke, exited, sent, callers, handle, receiver>>

\* exit_tx.send: without a receiver the thread returns.
Report(p, next) ==
    IF receiver THEN sent' = [sent EXCEPT ![p] = @ + 1] /\ pc' = next
                ELSE sent' = sent /\ pc' = "ending"

\* Mutant: a pid that is watched already is opened again.
RegisterAgain(p) ==
    /\ pc = "register" /\ p \in batch
    /\ batch' = batch \ {p}
    /\ \/ proc[p] # "reaped" /\ watched' = watched \cup {p} /\ UNCHANGED <<pc, sent>>
       \/ proc[p] = "reaped" /\ Report(p, "register") /\ UNCHANGED watched
    /\ UNCHANGED <<proc, pending, closed, pipe, woke, exited, callers, handle, receiver>>

\* Mutant: a process that is reaped already is taken for one that cannot be opened.
RegisterSilently(p) ==
    /\ pc = "register" /\ p \in batch
    /\ batch' = batch \ {p}
    /\ watched' = IF proc[p] = "reaped" THEN watched ELSE watched \cup {p}
    /\ UNCHANGED <<proc, pending, closed, pipe, pc, woke, exited, sent, callers, handle, receiver>>

\* One pid of the batch.  A reaped process cannot be opened: its exit is
\* reported at once.  Opening any other may fail, for want of descriptors.
Register(p) ==
    /\ pc = "register" /\ p \in batch
    /\ batch' = batch \ {p}
    /\ \/ p \in watched /\ UNCHANGED <<pc, watched, sent>>
       \/ p \notin watched /\ proc[p] # "reaped" /\ watched' = watched \cup {p} /\ UNCHANGED <<pc, sent>>
       \/ p \notin watched /\ proc[p] = "reaped" /\ Report(p, "register") /\ UNCHANGED watched
       \/ p \notin watched /\ proc[p] # "reaped" /\ "pidfd" \in Faults /\ UNCHANGED <<pc, watched, sent>>
       \/ p \notin watched /\ "nosys" \in Faults /\ pc' = "ending" /\ UNCHANGED <<watched, sent>>
    /\ UNCHANGED <<proc, pending, closed, pipe, woke, exited, callers, handle, receiver>>

\* Mutant: the pipe is drained once more when the batch is done.
RegisteredEatingTheByte ==
    /\ Goto("register", "send") /\ batch = {}
    /\ pipe' = FALSE
    /\ UNCHANGED <<proc, pending, closed, watched, woke, exited, batch, sent,
                   callers, handle, receiver>>

Registered ==
    /\ Goto("register", "send") /\ batch = {}
    /\ UNCHANGED <<proc, pending, closed, pipe, watched, woke, exited, batch, sent,
                   callers, handle, receiver>>

SendExit(p) ==
    /\ pc = "send" /\ p \in exited
    /\ exited' = exited \ {p} /\ watched' = watched \ {p}
    /\ Report(p, "send")
    /\ UNCHANGED <<proc, pending, closed, pipe, woke, batch, callers, handle, receiver>>

Again ==
    /\ Goto("send", "top") /\ exited = {}
    /\ UNCHANGED <<proc, pending, closed, pipe, watched, woke, exited, batch, sent,
                   callers, handle, receiver>>

\* run has returned, its pidfds are closed; then `closed`, then the queue.
MarkClosed ==
    /\ Goto("ending", "clearing")
    /\ closed' = TRUE /\ watched' = {} /\ exited' = {} /\ batch' = {}
    /\ UNCHANGED <<proc, pending, pipe, woke, sent, callers, handle, receiver>>

ClearPending ==
    /\ Goto("clearing", "ended")
    /\ pending' = [p \in Pid |-> 0]
    /\ UNCHANGED <<proc, closed, pipe, watched, woke, exited, batch, sent,
                   callers, handle, receiver>>
-----------------------------------------------------------------------------
(* The world.                                                              *)

Exit(p) ==
    /\ proc[p] = "live"
    /\ proc' = [proc EXCEPT ![p] = "zombie"]
    /\ late' = [late EXCEPT ![p] = @ + Cardinality({c \in Caller : call[c].pid = p /\ call[c].settled})]
    /\ UNCHANGED <<pending, closed, pipe, thread, call, calls, handle, receiver>>

Reap(p) ==
    /\ proc[p] = "zombie"
    /\ proc' = [proc EXCEPT ![p] = "reaped"]
    /\ UNCHANGED <<pending, closed, pipe, thread, callers, handle, receiver>>

ReceiverGone ==
    /\ "receiver" \in Faults /\ receiver
    /\ receiver' = FALSE
    /\ UNCHANGED <<proc, pending, closed, pipe, thread, callers, handle>>

ThreadStep ==
    \/ Top \/ Poll \/ PollFails \/ Polled \/ DrainPipe \/ DrainPending
    \/ \E p \in Pid : Register(p) \/ SendExit(p)
    \/ Registered \/ Again \/ MarkClosed \/ ClearPending

Next ==
    \/ ThreadStep
    \/ \E c \in Caller : (\E p \in Pid : Watch(c, p)) \/ Push(c) \/ Wake(c)
    \/ Drop \/ DropWake \/ ReceiverGone
    \/ \E p \in Pid : Exit(p) \/ Reap(p)

Spec == Init /\ [][Next]_vars

\* The thread runs when it is not blocked, signals do not interrupt its poll
\* for ever, and a task inside watch() or Drop comes out of it.  Nobody has
\* to die, to be watched or to be dropped.
FairSpec ==
    /\ Spec
    /\ WF_vars(ThreadStep) /\ SF_vars(Poll) /\ WF_vars(DropWake)
    /\ \A c \in Caller : WF_vars(Push(c) \/ Wake(c))
-----------------------------------------------------------------------------
\* drain_pending and the pending-before-exits order: a watch() that began and
\* returned while its pid was watched and alive never costs a second exit.
OneExitPerWatch == \A p \in Pid : sent[p] <= late[p]

\* The thread owes a report of p's exit.
Owed(p) == pending[p] > 0 \/ p \in batch \/ p \in watched

Up == pc \notin {"ending", "clearing", "ended"}

\* What ExitReports allows, with every fault of its own.
Reports == INSTANCE ExitReports WITH
               Faults <- {"refuse", "stop"},
               gone   <- {p \in Pid : proc[p] # "live"},
               owed   <- {p \in Pid : Owed(p)},
               exits  <- sent,
               up     <- Up

\* Where pidfd_open may fail for another reason than that p is dead and reaped.
Unopened(p) ==
    "pidfd" \in Faults /\ pc = "register" /\ p \in batch \ watched /\ proc[p] # "reaped"

\* While the thread runs a pid that was handed over is dropped in two places only:
\* where its exit is reported, and where its pidfd cannot be opened.
NoneForgotten ==
    [][\A p \in Pid : Up' /\ Owed(p) /\ ~Owed(p)' => sent'[p] = sent[p] + 1 \/ Unopened(p)]_vars

\* The thread gives up only when it is told to, when nobody listens, when poll
\* fails or when the kernel has no pidfd_open.
StopsForCause ==
    [][Up /\ ~Up' => \/ closed \/ ~receiver
                     \/ pc = "poll" /\ "poll" \in Faults
                     \/ pc = "register" /\ "nosys" \in Faults]_vars

\* The thread keeps what ExitReports promises its users: no exit is reported of a
\* live process; none that is owed gets lost while the thread runs, a pid whose
\* pidfd cannot be had excepted; and the thread does not stop for nothing.
KeepsReports == Reports!Spec /\ NoneForgotten /\ StopsForCause

\* The self-pipe loses no wakeup: the exit of a pid handed over is reported
\* while the thread lives, however the push, the wake, the drain and the exit
\* interleave.  That it stops being owed by a report is for KeepsReports to say.
ExitsAreReported ==
    \A p \in Pid : proc[p] # "live" /\ Owed(p) ~> ~Owed(p) \/ pc = "ended"

\* Drop: the thread ends although no process does.
DropStopsThread == handle = "dropped" ~> pc = "ended"
=============================================================================

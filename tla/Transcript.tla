----------------------------- MODULE Transcript -----------------------------
(***************************************************************************)
(* One transcript watcher (pixtuoid-core source/jsonl: mod.rs, walk.rs,    *)
(* liveness.rs, unclaim.rs): the cursors and first-sight claims it keeps   *)
(* of the files under its root, the probe ladder, the exit watch, and the  *)
(* side channel on which the hook plane tells it that a child has ended.   *)
(*                                                                         *)
(* The watcher is one task, so its steps never interleave with each other; *)
(* between any two of them the agents write, truncate and delete their     *)
(* transcripts, open and close them, and die.  `todo` is what is left of   *)
(* the arm of the loop that runs.  A file is a sequence of lines; a        *)
(* position counts half lines, so that the middle of an unfinished line is *)
(* a position too.  Of what a line decodes to, only the registration of a  *)
(* session and its end are told apart.                                     *)
(***************************************************************************)
EXTENDS ProbeLadder, Sequences, SequencesExt, FiniteSetsExt

CONSTANTS
    File, IdOf,     (* the transcripts; id_derive                          *)
    Vocabularies,   (* the sets of line kinds that one source writes:      *)
                    (* "end" is the terminator of some, "turn" of Codex    *)
    Reopens,        (* the kinds after which check_ended forgets an "end"  *)
    Reentry,        (* the kinds session_reentry detects                   *)
    Window,         (* lines in the tail that check_ended reads           *)
    Headroom,       (* lines in the head searched for a re-entry          *)
    MaxPending,     (* lines beyond which a backlog is skipped             *)
    MaxLines,       (* bound: the length of a file                         *)
    Written,        (* bound: the lines of it that are there at start-up   *)
    Faults,         (* "probe": a probe may fail; "refuse", "stop": see    *)
                    (* ExitReports                                         *)
    Budget          (* bound: how often the world moves                    *)

ASSUME TranscriptAssumption ==
    /\ IdOf \in [File -> Id]
    /\ "end" \notin Reopens \cup Reentry
    /\ {Window, Headroom, MaxPending, MaxLines, Written, Budget} \subseteq Nat
    /\ MaxPending > 0 /\ Written <= MaxLines
    /\ Faults \subseteq {"probe", "refuse", "stop"}
    /\ Pid \subseteq Nat \ {0}
    /\ IsFiniteSet(Id) /\ IsFiniteSet(Pid) /\ IsFiniteSet(File)

VARIABLES
    text,     (* each file: its lines, and whether an unfinished one follows *)
    recent,   (* the files whose mtime is inside the window                *)
    holds,    (* the <<session, process>> pairs the probe can see          *)
    gone, owed, exits, up,   (* processes that have exited; the exit watch *)
    cursor,   (* file to position, for the files the watcher knows         *)
    seen,     (* file to first-sight claim: "held", "released" or "none"   *)
    live,     (* the admission set                                         *)
    ladder,   (* the probe ladder                                          *)
    unclaims, (* the children whose hook end waits to be drained           *)
    notices,  (* the paths in the notify channel                           *)
    todo,     (* the steps left of the arm that runs                       *)
    started,  (* "no", "seeded" or "rescanned"                             *)
    due,      (* whether the poll interval has ticked                      *)
    sent,     (* what the last step sent to the reducer                    *)
    left,     (* how often the world may still move                        *)
    owner,    (* history: the process that a session was last seen with    *)
    unseen,   (* history: the age of the first of the healthy probes in a  *)
              (* row, up to the last, that found nobody holding it         *)
    cause     (* history: what may bring a file's agent back               *)

world   == <<text, recent, holds>>
watch   == <<gone, owed, exits, up>>
files   == <<cursor, seen>>
probing == <<live, ladder>>
loop    == <<todo, started, due>>
history == <<owner, unseen, cause>>
vars    == <<world, watch, files, probing, unclaims, notices, loop, sent, left, history>>

Watch == INSTANCE ExitReports

Kind    == UNION Vocabularies
Unknown == -1
Nobody  == 0
Seen    == -1
Absent  == [lines |-> <<>>, part |-> FALSE, there |-> FALSE]

Half(n)     == IF n THEN 1 ELSE 0
Complete(f) == 2 * Len(text[f].lines)
Length(f)   == Complete(f) + Half(text[f].part)

\* The processes that keep session i open, and the one a snapshot binds it to.
Holders(i) == {p \in Pid : <<i, p>> \in holds}

Init ==
    /\ text \in [File -> {Absent} \cup [lines : BoundedSeq(Kind, Written), part : {FALSE}, there : {TRUE}]]
    /\ recent \in SUBSET {f \in File : text[f].there}
    /\ holds \in SUBSET (Id \X Pid)
    /\ Watch!Init
    /\ cursor = [f \in File |-> Unknown] /\ seen = [f \in File |-> "none"]
    /\ live = {} /\ ladder = EmptyLadder
    /\ unclaims = {} /\ notices = {}
    /\ todo = <<>> /\ started = "no" /\ due = FALSE
    /\ sent = {} /\ left = Budget
    /\ owner = [i \in Id |-> Nobody] /\ unseen = [i \in Id |-> Seen]
    /\ cause = [f \in File |-> {"bytes"}]
-----------------------------------------------------------------------------
(* The files, as the watcher reads them.                                   *)

\* check_session_ended: the last marker in the tail decides.
Ended(f) ==
    LET lines == text[f].lines
    IN \E n \in DOMAIN lines :
          /\ n > Len(lines) - Window /\ lines[n] = "end"
          /\ \A m \in n..Len(lines) : lines[m] \notin Reopens

\* probe_admits.
Admits(f) == IdOf[f] \in live

At(f) == IF cursor[f] = Unknown THEN 0 ELSE cursor[f]

\* The kinds of the lines from the cursor on, at most `most` of them: what is
\* left of a line that was cut is not JSON.
Fresh(f, most) ==
    LET lines == text[f].lines
        first == (At(f) + 1) \div 2
    IN {lines[n] : n \in {m \in DOMAIN lines : first < m /\ m <= first + most}}

Start(f) == [kind |-> "SessionStart", of |-> f]
End(i)   == [kind |-> "SessionEnd", of |-> i]
Proof(i) == [kind |-> "ProofOfLife", of |-> i]

\* emit_first_sight sends the registration pair unless the claim is held.
FirstSight(f, claim) == IF claim = "held" THEN {} ELSE {Start(f)}

\* What has been taken in brings nobody back a second time.
Leave(f, at, claim, events) ==
    /\ cursor' = [cursor EXCEPT ![f] = at]
    /\ seen' = [seen EXCEPT ![f] = claim]
    /\ cause' = [cause EXCEPT ![f] = {}]
    /\ sent' = events

\* The first-sight gate: historical and unvouched, or over.
Gated(f) == cursor[f] = Unknown /\ ((f \notin recent /\ ~Admits(f)) \/ Ended(f))

Backlog(f) == Length(f) - At(f) > 2 * MaxPending

Vanished(f) == ~text[f].there /\ Leave(f, Unknown, "none", {})

Park(f) == text[f].there /\ Gated(f) /\ Leave(f, Length(f), seen[f], {})

\* Mutant: a file that has shrunk is taken for read.
ResetNever(f) ==
    /\ text[f].there /\ At(f) > Length(f)
    /\ sent' = {}
    /\ UNCHANGED <<files, cause>>

\* Truncated below the cursor: the next walk reads it from the top.
Reset(f) ==
    /\ text[f].there /\ At(f) > Length(f)
    /\ cursor' = [cursor EXCEPT ![f] = 0]
    /\ sent' = {}
    /\ UNCHANGED <<seen, cause>>

\* At the end already, or nothing but an unfinished line.
Wait(f) ==
    /\ text[f].there /\ ~Gated(f) /\ ~Backlog(f)
    /\ Complete(f) <= At(f) /\ At(f) <= Length(f)
    /\ sent' = {}
    /\ UNCHANGED <<files, cause>>

\* More than MaxPending behind: the agent is registered, or ended, and the rest
\* is not read.  A turn that starts in the head of it gives the claim up first.
Skip(f) ==
    LET again == cursor[f] # Unknown /\ Fresh(f, Headroom) \cap Reentry # {}
        claim == IF again THEN "released" ELSE seen[f]
    IN /\ text[f].there /\ ~Gated(f) /\ Backlog(f)
       /\ IF Ended(f) THEN Leave(f, Length(f), "none", {End(IdOf[f])})
                      ELSE Leave(f, Length(f), "held", FirstSight(f, claim))

\* The usual case: the complete lines are decoded, and a terminator among them
\* releases the claim.
Read(f) ==
    LET kinds == Fresh(f, MaxLines)
        claim == IF kinds \cap Reentry # {} THEN "released" ELSE seen[f]
    IN /\ text[f].there /\ ~Gated(f) /\ ~Backlog(f) /\ At(f) < Complete(f)
       /\ Leave(f, Complete(f), IF "end" \in kinds THEN "released" ELSE "held",
                FirstSight(f, claim) \cup {End(IdOf[f]) : k \in kinds \cap {"end"}})

Walk(f) == Vanished(f) \/ Park(f) \/ Reset(f) \/ Wait(f) \/ Skip(f) \/ Read(f)
-----------------------------------------------------------------------------
(* The arms of the loop.  Each plans its steps when nothing else runs.     *)

Idle == todo = <<>>

Plan(steps) == Idle /\ todo' = steps /\ sent' = {}

Now == Head(todo)

\* The step at the head has been taken; `steps` come before the others.
Done(steps) == todo' = steps \o Tail(todo)

Collects(ids) == {[n \in DOMAIN order |-> <<"collect", order[n]>>] : order \in SetToSeqs(ids)}

\* run_scan_pass; `born`: see ProbeLadder.
Pass(born, drain) ==
    <<<<"probe", born>>>> \o drain \o <<<<"revouch">>, <<"scan", File>>>>

Seed ==
    /\ started = "no" /\ started' = "seeded"
    /\ Plan(Pass(0, <<>>))
    /\ UNCHANGED <<world, watch, files, probing, unclaims, notices, due, left, history>>

Rescan ==
    /\ started = "seeded" /\ started' = "rescanned"
    /\ Plan(Pass(-1, <<<<"unclaims">>>>))
    /\ UNCHANGED <<world, watch, files, probing, unclaims, notices, due, left, history>>

Poll ==
    /\ due /\ due' = FALSE
    /\ Plan(Pass(0, <<<<"unclaims">>>>))
    /\ UNCHANGED <<world, watch, files, probing, unclaims, notices, started, left, history>>

Notify(f) ==
    /\ started # "no" /\ f \in notices
    /\ notices' = notices \ {f}
    /\ Plan(<<<<"unclaims">>, <<"walk", f>>>>)
    /\ UNCHANGED <<world, watch, files, probing, unclaims, started, due, left, history>>

\* The exit watch reports a process.
Exited(p) ==
    /\ started # "no" /\ Watch!Receive(p)
    /\ ladder' = PidDied(ladder, p)
    /\ \E steps \in Collects(ladder.bound[p]) : Plan(steps)
    /\ UNCHANGED <<world, files, live, unclaims, notices, started, due, left, history>>
-----------------------------------------------------------------------------
(* Their steps.                                                            *)

\* The processes are listed; an id that two of them hold goes to the larger.
ProbeAnswers ==
    LET ids  == {i \in Id : Holders(i) # {}}
        snap == [i \in ids |-> Max(Holders(i))]
    IN /\ ~Idle /\ Now[1] = "probe"
       /\ todo' = <<<<"fold", snap, Now[2]>>>> \o Tail(todo) \o <<<<"vouch">>>>
       /\ sent' = {}
       /\ owner' = [i \in Id |-> IF i \in ids THEN snap[i] ELSE owner[i]]
       /\ unseen' = [i \in Id |-> IF i \in ids THEN Seen ELSE IF unseen[i] = Seen THEN 0 ELSE unseen[i]]
       /\ UNCHANGED <<world, watch, files, probing, unclaims, notices, started, due, left, cause>>

ProbeFails ==
    /\ "probe" \in Faults /\ ~Idle /\ Now[1] = "probe"
    /\ Done(<<>>) /\ sent' = {}
    /\ UNCHANGED <<world, watch, files, probing, unclaims, notices, started, due, left, history>>

\* The rest of refresh_probe_snapshot.
FoldStep ==
    /\ ~Idle /\ Now[1] = "fold"
    /\ LET snap == Now[2]
       IN /\ live' = DOMAIN snap
          /\ ladder' = Fold(ladder, snap, Now[3])
          /\ cause' = [f \in File |-> cause[f] \cup {"vouch" : i \in {IdOf[f]} \cap DOMAIN snap}]
          /\ \E steps \in Collects(Confirmed(ladder, snap)), pids \in NewlyWatched(ladder, snap) :
                Done(steps \o <<<<"watch", pids>>>>)
    /\ sent' = {}
    /\ UNCHANGED <<world, watch, files, unclaims, notices, started, due, left, owner, unseen>>

\* ExitWatch::watch, for each.
WatchStep ==
    /\ ~Idle /\ Now[1] = "watch"
    /\ \/ owed' = owed \cup Now[2]
       \/ ~up /\ owed' = owed
    /\ Done(<<>>) /\ sent' = {}
    /\ UNCHANGED <<world, gone, exits, up, files, probing, unclaims, notices, started, due, left,
                   history>>

\* Each file is drained: park_if_truncated_below_cursor, walk_jsonl, and then its
\* claim is "kept" for now or "released".
Drains(fs, claim) ==
    {[n \in DOMAIN order |-> <<"park", order[n], claim>>] : order \in SetToSeqs(fs)}

\* Mutant: the claims go without a drain, so that what is pending comes later.
CollectUndrained(i) ==
    LET claimed == {f \in File : IdOf[f] = i /\ seen[f] # "none"}
    IN /\ Done(<<<<"end", i, claimed>>>>)
       /\ cause' = [f \in File |-> IF f \in claimed /\ seen[f] = "held" THEN {} ELSE cause[f]]

\* The claimed paths of the session that ends.  Whatever is in them by now is
\* old, and brings it back no more.
Collect(i) ==
    LET claimed == {f \in File : IdOf[f] = i /\ seen[f] # "none"}
    IN /\ \E steps \in Drains(claimed, "kept") : Done(steps \o <<<<"end", i, claimed>>>>)
       /\ cause' = [f \in File |-> IF f \in claimed /\ seen[f] = "held" THEN {} ELSE cause[f]]

CollectStep ==
    /\ ~Idle /\ Now[1] = "collect"
    /\ Collect(Now[2])
    /\ sent' = {}
    /\ UNCHANGED <<world, watch, files, probing, unclaims, notices, started, due, left, owner, unseen>>

ParkStep ==
    /\ ~Idle /\ Now[1] = "park"
    /\ LET f == Now[2]
       IN cursor' = [cursor EXCEPT ![f] = IF text[f].there /\ @ > Length(f) THEN Length(f) ELSE @]
    /\ Done(IF Now[3] = "released" THEN <<<<"walk", Now[2]>>, <<"release", Now[2]>>>>
                                  ELSE <<<<"walk", Now[2]>>>>)
    /\ sent' = {}
    /\ UNCHANGED <<world, watch, seen, probing, unclaims, notices, started, due, left, history>>

WalkStep ==
    /\ ~Idle /\ Now[1] = "walk"
    /\ Walk(Now[2])
    /\ Done(<<>>)
    /\ UNCHANGED <<world, watch, probing, unclaims, notices, started, due, left, owner, unseen>>

\* The end of emit_session_exit.
EndStep ==
    /\ ~Idle /\ Now[1] = "end"
    /\ sent' = {End(Now[2])}
    /\ seen' = [f \in File |-> IF f \in Now[3] THEN "none" ELSE seen[f]]
    /\ live' = live \ {Now[2]}
    /\ Done(<<>>)
    /\ UNCHANGED <<world, watch, cursor, ladder, unclaims, notices, started, due, left, history>>

\* drain_child_end_unclaims: the ids of known paths are taken; for the held ones
\* the drain comes before the release.
UnclaimStep ==
    LET taken == {i \in unclaims : \E f \in File : IdOf[f] = i /\ seen[f] # "none"}
        held  == {f \in File : IdOf[f] \in taken /\ seen[f] = "held"}
    IN /\ ~Idle /\ Now[1] = "unclaims"
       /\ unclaims' = unclaims \ taken
       /\ \E steps \in Drains(held, "released") : Done(steps)
       /\ cause' = [f \in File |-> IF f \in held THEN {} ELSE cause[f]]
       /\ sent' = {}
       /\ UNCHANGED <<world, watch, files, probing, notices, started, due, left, owner, unseen>>

ReleaseStep ==
    /\ ~Idle /\ Now[1] = "release"
    /\ seen' = [seen EXCEPT ![Now[2]] = IF @ = "none" THEN @ ELSE "released"]
    /\ Done(<<>>) /\ sent' = {}
    /\ UNCHANGED <<world, watch, cursor, probing, unclaims, notices, started, due, left, history>>

\* Mutant: the vouch is not to outweigh the mtime here either.
RevouchedIfRecent(f) ==
    text[f].there /\ Length(f) = cursor[f] /\ Admits(f) /\ f \in recent /\ ~Ended(f)

Revouched(f) == text[f].there /\ Length(f) = cursor[f] /\ Admits(f) /\ ~Ended(f)

\* revouch_gated_files: the files that were parked and never registered.
RevouchStep ==
    LET parked  == {f \in File : cursor[f] # Unknown /\ seen[f] = "none" /\ live # {}}
        revived == {f \in parked : Revouched(f)}
    IN /\ ~Idle /\ Now[1] = "revouch"
       /\ cursor' = [f \in File |-> IF f \in parked /\ ~text[f].there THEN Unknown
                                    ELSE IF f \in revived THEN 0 ELSE cursor[f]]
       /\ Done(<<>>) /\ sent' = {}
       /\ UNCHANGED <<world, watch, seen, probing, unclaims, notices, started, due, left, history>>

\* scan_root visits what it finds, in any order.
ScanStep ==
    /\ ~Idle /\ Now[1] = "scan"
    /\ \/ \E f \in Now[2] : Walk(f) /\ Done(<<<<"scan", Now[2] \ {f}>>>>)
       \/ /\ \A f \in Now[2] : ~text[f].there
          /\ Done(<<>>) /\ sent' = {}
          /\ UNCHANGED <<files, cause>>
    /\ UNCHANGED <<world, watch, probing, unclaims, notices, started, due, left, owner, unseen>>

\* emit_proof_of_life.
VouchStep ==
    /\ ~Idle /\ Now[1] = "vouch"
    /\ sent' = {Proof(i) : i \in live}
    /\ Done(<<>>)
    /\ UNCHANGED <<world, watch, files, probing, unclaims, notices, started, due, left, history>>

Step ==
    \/ ProbeAnswers \/ ProbeFails \/ FoldStep \/ WatchStep \/ CollectStep \/ ParkStep
    \/ WalkStep \/ EndStep \/ UnclaimStep \/ ReleaseStep \/ RevouchStep \/ ScanStep \/ VouchStep
-----------------------------------------------------------------------------
(* The world.                                                              *)

Moves == left > 0 /\ left' = left - 1 /\ sent' = {}

inside == <<files, probing, unclaims, loop>>

\* The file changes; the notice of it may get lost (the channel is full, the
\* backend lost an event).
Changes(f, what, touched) ==
    /\ text' = [text EXCEPT ![f] = what]
    /\ recent' = IF touched THEN recent \cup {f} ELSE recent \ {f}
    /\ notices' \in {notices, notices \cup {f}}
    /\ cause' = [cause EXCEPT ![f] = @ \cup {"bytes"}]
    /\ UNCHANGED <<holds, watch, inside, owner, unseen>>

\* A line is written, or the unfinished one completed.
WriteLine(f, k) ==
    /\ Moves /\ Len(text[f].lines) < MaxLines
    /\ \E kinds \in Vocabularies : {k} \cup Range(text[f].lines) \subseteq kinds
    /\ Changes(f, [lines |-> text[f].lines \o <<k>>, part |-> FALSE, there |-> TRUE], TRUE)

\* Half a line is written.
BeginLine(f) ==
    /\ Moves /\ ~text[f].part /\ Len(text[f].lines) < MaxLines
    /\ Changes(f, [text[f] EXCEPT !.part = TRUE, !.there = TRUE], TRUE)

Truncate(f) ==
    /\ Moves /\ Length(f) > 0
    /\ \E n \in 0..(Len(text[f].lines) - 1) \cup {0} :
          Changes(f, [text[f] EXCEPT !.lines = SubSeq(@, 1, n), !.part = FALSE], TRUE)

Delete(f) == Moves /\ text[f].there /\ Changes(f, Absent, FALSE)

\* The mtime falls out of the window.
Fade(f) ==
    /\ Moves /\ f \in recent
    /\ recent' = recent \ {f}
    /\ UNCHANGED <<text, holds, watch, inside, notices, history>>

\* The processes in `ps` no longer hold the sessions in `is`.
LetGo(is, ps) == holds' = {h \in holds : ~(h[1] \in is /\ h[2] \in ps)}

Open(i, p) ==
    /\ Moves /\ p \notin gone /\ <<i, p>> \notin holds
    /\ holds' = holds \cup {<<i, p>>}
    /\ UNCHANGED <<text, recent, watch, inside, notices, history>>

Close(i, p) ==
    /\ Moves /\ <<i, p>> \in holds
    /\ LetGo({i}, {p})
    /\ UNCHANGED <<text, recent, watch, inside, notices, history>>

Die(p) ==
    /\ Moves /\ Watch!Exit(p)
    /\ LetGo(Id, {p})
    /\ UNCHANGED <<text, recent, inside, notices, history>>

\* The tee of the hook router pushes the child of a SubagentStop.
ChildEnd(i) ==
    /\ Moves /\ unclaims' = unclaims \cup {i}
    /\ UNCHANGED <<world, watch, files, probing, loop, notices, history>>

\* The TTL is several polls, so only what no pass could take lapses.
Lapse(i) ==
    /\ Idle /\ i \in unclaims
    /\ \A f \in File : IdOf[f] = i => seen[f] = "none"
    /\ unclaims' = unclaims \ {i}
    /\ sent' = {}
    /\ UNCHANGED <<world, watch, files, probing, loop, notices, left, history>>

\* A poll interval goes by.
Elapse ==
    /\ started = "rescanned"
    /\ due' = TRUE
    /\ ladder' = Older(ladder)
    /\ unseen' = [i \in Id |-> IF unseen[i] \in 0..(Span - 1) THEN unseen[i] + 1 ELSE unseen[i]]
    /\ sent' = {}
    /\ UNCHANGED <<world, watch, files, live, unclaims, notices, todo, started, left, owner, cause>>

Reported(p) ==
    /\ \/ exits[p] = 0 /\ Watch!Report(p)
       \/ Watch!Refuse(p)
    /\ sent' = {}
    /\ UNCHANGED <<world, inside, notices, left, history>>

WatchStops ==
    /\ up /\ Watch!Stop
    /\ sent' = {}
    /\ UNCHANGED <<world, inside, notices, left, history>>

World ==
    \/ \E f \in File : \/ BeginLine(f) \/ Truncate(f) \/ Delete(f) \/ Fade(f)
                       \/ \E k \in Kind : WriteLine(f, k)
    \/ \E i \in Id : \/ ChildEnd(i) \/ Lapse(i)
                     \/ \E p \in Pid : Open(i, p) \/ Close(i, p)
    \/ \E p \in Pid : Die(p) \/ Reported(p)
    \/ WatchStops \/ Elapse

Arm ==
    \/ Seed \/ Rescan \/ Poll
    \/ \E f \in File : Notify(f)
    \/ \E p \in Pid : Exited(p)

Next == Step \/ Arm \/ World

\* The watcher's task runs, its clock ticks and it gets to poll; a probe that
\* keeps being tried succeeds again and again.
Fairness ==
    /\ WF_vars(Step \/ Seed \/ Rescan)
    /\ WF_vars(Elapse)
    /\ SF_vars(Poll)
    /\ SF_vars(ProbeAnswers)

Spec == Init /\ [][Next]_vars /\ Fairness
-----------------------------------------------------------------------------
(* Properties.                                                             *)

\* What the watcher synthesizes, it has a cause for: it ends a session of its
\* own accord only if the process it was last seen with has exited, or if no
\* healthy probe has found anybody holding it since one, at least a span ago, that
\* found nobody.  The exit of a process that once had it is no reason, nor is a
\* gap in the holding that is shorter than the span.  Two gaps that nobody looks
\* between are not told from one.
EndHasCause ==
    [][\A i \in Id : EndStep /\ Now[2] = i => owner[i] \in gone \/ unseen[i] >= Span]_vars

\* No ghosts: an agent (re)appears because its transcript was written since it
\* was last ended, released or passed over, or because the probe has vouched for
\* it since - but never on the vouch alone once its turn ended or its transcript
\* says that it is over.  The line that starts a turn outranks all this.
NoGhost ==
    [][\A f \in File : Start(f) \in sent' =>
          \/ "bytes" \in cause[f]
          \/ "vouch" \in cause[f] /\ seen[f] = "none" /\ ~Ended(f)
          \/ cursor[f] # Unknown /\ Fresh(f, MaxLines) \cap Reentry # {}]_vars

\* A session that was vouched for and that no process holds is ended, whatever
\* the exit watch makes of its process and however often the probe fails,
\* unless it is taken up again.
DeadIsEnded ==
    \A i \in Id : (i \in ladder.vouched /\ Holders(i) = {}) ~> (End(i) \in sent \/ Holders(i) # {})

\* What a first sight, a missed probe or a wrong end has hidden comes back while
\* its process lives: a session that is held for good is registered for good.
Showable(f) ==
    /\ Holders(IdOf[f]) # {} /\ ~Ended(f)
    /\ Complete(f) > 0 /\ ~text[f].part
    /\ seen[f] # "released"

LiveComesBack == \A f \in File : <>[]Showable(f) => <>[](seen[f] = "held")

\* Nothing stays unread: a file that is longer or shorter than its cursor says
\* is caught up with, whichever notices were lost: it is read, or passed over
\* where the backlog is too large for a read, as the code means it to be.
Behind(f) == text[f].there /\ cursor[f] # Unknown /\ (At(f) < Complete(f) \/ At(f) > Length(f))

EverythingIsRead == \A f \in File : Behind(f) ~> ~Behind(f)
=============================================================================

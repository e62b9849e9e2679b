---------------------------- MODULE ProbeLadder ----------------------------
(***************************************************************************)
(* The failure detector of the transcript watchers (pixtuoid-core          *)
(* source/jsonl/liveness.rs, ProbeLadder): which sessions were vouched,    *)
(* since when one has been missing, and which process each is bound to.    *)
(* A ladder is a record; every operation maps one to the next.             *)
(***************************************************************************)
EXTENDS Integers

CONSTANTS Id,     (* session ids                                           *)
          Pid,    (* processes                                             *)
          Span    (* how long an id must stay missing, in poll intervals   *)

ASSUME LadderAssumption == Span \in Nat

\* miss: how long ago a healthy snapshot first came back without the id.  The
\* pass a fraction of an interval before the first poll counts from -1.
Ladder == [vouched : SUBSET Id,
           miss    : UNION {[D -> -1..Span] : D \in SUBSET Id},
           bound   : [Pid -> SUBSET Id]]

EmptyLadder == [vouched |-> {}, miss |-> [i \in {} |-> 0], bound |-> [p \in Pid |-> {}]]

\* A snapshot: the live sessions and the process that owns each.
Snapshots == UNION {[D -> Pid] : D \in SUBSET Id}

Missing(l, snap) == l.vouched \ DOMAIN snap

\* The window of an id that is back is closed; of those still open, the ones
\* that have lasted.
Lasting(l, snap) == DOMAIN l.miss \ DOMAIN snap

\* Mutant: one healthy snapshot without the id is enough.
ConfirmedAtOnce(l, snap) == Missing(l, snap)

Confirmed(l, snap) == {i \in Missing(l, snap) \cap Lasting(l, snap) : l.miss[i] >= Span}

\* Bindings are additive, but an id seen under a new pid migrates.
Rebound(l, snap, gone) ==
    [p \in Pid |-> (l.bound[p] \ (gone \cup DOMAIN snap)) \cup {i \in DOMAIN snap : snap[i] = p}]

\* Mutant: an id whose window runs is vouched no longer.
StillVouchedOnlySeen(snap, open) == DOMAIN snap

\* An id stays vouched while its window runs.
StillVouched(snap, open) == DOMAIN snap \cup open

\* fold: `born` is the age of a window that opens now.
Fold(l, snap, born) ==
    LET gone == Confirmed(l, snap)
        open == (Lasting(l, snap) \cup Missing(l, snap)) \ gone
    IN [vouched |-> StillVouched(snap, open),
        miss    |-> [i \in open |-> IF i \in DOMAIN l.miss THEN l.miss[i] ELSE born],
        bound   |-> Rebound(l, snap, gone)]

\* The pids handed to the exit watch.  A pid that loses its last id to another
\* and gains a new one in the same fold is handed over again or not, as the
\* order of the map has it.
NewlyWatched(l, snap) ==
    LET owners == {snap[i] : i \in DOMAIN snap}
        kept   == [p \in Pid |-> l.bound[p] \ Confirmed(l, snap)]
        fresh  == {p \in owners : kept[p] = {}}
        reborn == {p \in owners \ fresh : \A i \in kept[p] : i \in DOMAIN snap /\ snap[i] # p}
    IN {fresh \cup some : some \in SUBSET reborn}

\* forget and unbind the whole pid.
PidDied(l, p) ==
    LET ids == l.bound[p]
    IN [vouched |-> l.vouched \ ids,
        miss    |-> [i \in DOMAIN l.miss \ ids |-> l.miss[i]],
        bound   |-> [l.bound EXCEPT ![p] = {}]]

\* The clock: a window that has lasted is as good as an older one.
Older(l) == [l EXCEPT !.miss = [i \in DOMAIN @ |-> IF @[i] < Span THEN @[i] + 1 ELSE @[i]]]

\* What holds between the three parts of a ladder: an id is bound under at most
\* one pid, and only what is vouched is bound or may be missing.
OneOwner(l) == \A p, q \in Pid : p # q => l.bound[p] \cap l.bound[q] = {}

Consistent(l) ==
    /\ OneOwner(l)
    /\ DOMAIN l.miss \subseteq l.vouched
    /\ \A p \in Pid : l.bound[p] \subseteq l.vouched
=============================================================================

------------------------------ MODULE Sources ------------------------------
(***************************************************************************)
(* Connecting and disconnecting sources: the `setup`, `sources set`,       *)
(* `connect` and `disconnect` commands, each a process of its own, over    *)
(* the files they share.                                                   *)
(*                                                                         *)
(* A source is connected by two writes to two files: its flag in the       *)
(* program's own configuration, and the hooks in the configuration of the  *)
(* agent CLI.  Each write is a round under the file's advisory lock: read, *)
(* back up once, write a temporary file, rename.  Nothing holds the two    *)
(* together but the order of the writes and the rollback of the first.     *)
(*                                                                         *)
(* Any step that touches a file may fail, and a process may be killed      *)
(* between any two steps; a killed process drops its locks and leaves its  *)
(* temporary files.                                                        *)
(***************************************************************************)
EXTENDS Naturals

CONSTANTS
  Proc,        \* running commands
  Source,      \* registered sources
  Hooked,      \* the sources with an install target; the others have a flag only
  Own,         \* the program's own configuration file
  HookOf,      \* [Proc -> Cmd]: the hook command a process installs
  Cmd,         \* hook commands; more than one when versions differ
  Command,     \* the combinations of commands users may start, [Proc -> Order]
  MaxFaults,   \* bound: failing file operations and killed processes
  None, Missing, Torn, Plain   \* nobody; no file; half a file; a config without hooks

Act   == {"connect", "disconnect"}
Item  == [src : Source, act : Act]
Order == [exact : BOOLEAN, items : SUBSET Item]
Flag  == {"absent", "on", "off"}
Flags == [Source -> Flag]
File  == Source \cup {Own}

ASSUME SourcesAssumption ==
  /\ Hooked \subseteq Source /\ Own \notin Source
  /\ HookOf \in [Proc -> Cmd] /\ Command \subseteq [Proc -> Order]
  /\ MaxFaults \in Nat
  /\ {None} \cap Proc = {} /\ {Missing, Torn, Plain} \cap (Cmd \cup Flags) = {}
  /\ Missing # Torn /\ Missing # Plain /\ Torn # Plain /\ None \notin Flags \cup Cmd \cup {Plain}

VARIABLES
  main, bak, tmp, baktmp,  \* a file, its backup, and the temporary files of both
  lock,                    \* the holder of a file's advisory lock
  plugin,                  \* wholly owned artifacts of a source
  pc, stage,               \* where a process is in a round, and which round it is in
  todo, job,               \* items still to apply; the item being applied
  prior,                   \* the flag connect_target read before its first save
  text,                    \* what the round will write
  report,                  \* outcomes told to the user
  faults,
  \* History: the files as they were at the beginning; the flag and the hooks as
  \* they were when a process took up its item; sources two processes worked on
  \* at once; sources with a killed command or a failed rollback.
  origin, before, contested, marred

disk   == <<main, bak, tmp, baktmp, lock, plugin>>
procs  == <<pc, stage, todo, job, prior, text, report>>
ghosts == <<origin, before, contested, marred>>
vars   == <<main, bak, tmp, baktmp, lock, plugin, pc, stage, todo, job, prior, text,
            report, faults, origin, before, contested, marred>>

\* load never fails: a file that is not there, or does not parse, has no flags.
FlagsIn(content) ==
  IF content \in {Missing, Torn} THEN [s \in Source |-> "absent"] ELSE content
FlagOf(s)        == FlagsIn(main[Own])[s]
HasHooks(s)      == main[s] \in Cmd

OnOwn(p)   == stage[p] \in {"flag", "restore"}
FileOf(p)  == IF OnOwn(p) THEN Own ELSE job[p].src
InRound    == {"read", "plugin", "backup", "bakfill", "bakmove", "create", "fill", "move",
               "unbak", "release"}
Working(p) == pc[p] = "lock" \/ pc[p] \in InRound

-----------------------------------------------------------------------------
(* A source as some earlier version left it: never connected, with or      *)
(* without a configuration of its CLI, or connected.                       *)
Init ==
  /\ main \in [File -> {Missing, Plain} \cup Cmd \cup Flags]
  /\ main[Own] \in {Missing} \cup [Source -> {"absent", "on"}]
  /\ \A s \in Source :
       /\ main[s] \in {Missing, Plain} \cup Cmd
       /\ s \in Hooked => (FlagOf(s) = "on" <=> HasHooks(s))
       /\ s \notin Hooked => main[s] = Missing
  /\ bak = [f \in File |-> IF f # Own /\ main[f] \in Cmd THEN Plain ELSE Missing]
  /\ tmp = [f \in File |-> Missing] /\ baktmp = [f \in File |-> Missing]
  /\ lock = [f \in File |-> None]
  /\ plugin = [s \in Source |-> IF HasHooks(s) THEN main[s] ELSE Missing]
  /\ \E command \in Command :
       /\ todo = [p \in Proc |-> command[p].items]
       /\ pc = [p \in Proc |-> IF command[p].exact THEN "plan" ELSE "pick"]
  /\ stage = [p \in Proc |-> "flag"] /\ job = [p \in Proc |-> None]
  /\ prior = [p \in Proc |-> "absent"] /\ text = [p \in Proc |-> None]
  /\ report = [p \in Proc |-> [s \in Source |-> None]]
  /\ faults = 0
  /\ origin = main /\ before = [p \in Proc |-> None]
  /\ contested = {} /\ marred = {}

-----------------------------------------------------------------------------
(* The items of a command.                                                 *)

\* plan_reconcile: connect what is wanted and not connected, disconnect what is
\* connected and not wanted.
Planned(current, want) ==
  {[src |-> s, act |-> "connect"] : s \in want \ current}
    \cup {[src |-> s, act |-> "disconnect"] : s \in current \ want}

\* reconcile_to: the connected set is read once, without a lock, and an unreadable
\* file reads as nobody connected.
Plan(p) ==
  LET want == {i.src : i \in todo[p]}
      connected == {s \in Source : FlagOf(s) = "on"} IN
  /\ pc[p] = "plan"
  /\ \/ todo' = [todo EXCEPT ![p] = Planned(connected, want)] /\ UNCHANGED faults
     \/ faults < MaxFaults /\ faults' = faults + 1
        /\ todo' = [todo EXCEPT ![p] = Planned({}, want)]
  /\ pc' = [pc EXCEPT ![p] = "pick"]
  /\ UNCHANGED <<disk, stage, job, prior, text, report, ghosts>>

\* connect_target loads the prior flag before it saves; disconnect_target has no
\* need to.  The order of the items is left open.
TakeUp(p) ==
  /\ pc[p] = "pick"
  /\ \E i \in todo[p] :
       /\ job' = [job EXCEPT ![p] = i] /\ todo' = [todo EXCEPT ![p] = @ \ {i}]
       /\ before' = [before EXCEPT ![p] = [flag |-> FlagOf(i.src), hooks |-> main[i.src]]]
       /\ contested' = IF \E q \in Proc \ {p} : Working(q) /\ job[q].src = i.src
                         THEN contested \cup {i.src} ELSE contested
       /\ \/ prior' = [prior EXCEPT ![p] = FlagOf(i.src)] /\ UNCHANGED <<faults, marred>>
          \/ i.act = "connect" /\ faults < MaxFaults /\ faults' = faults + 1
             /\ prior' = [prior EXCEPT ![p] = "absent"] /\ marred' = marred \cup {i.src}
  /\ stage' = [stage EXCEPT ![p] = "flag"] /\ pc' = [pc EXCEPT ![p] = "lock"]
  /\ UNCHANGED <<disk, text, report, origin>>

AllDone(p) ==
  /\ pc[p] = "pick" /\ todo[p] = {}
  /\ pc' = [pc EXCEPT ![p] = "over"]
  /\ UNCHANGED <<disk, stage, todo, job, prior, text, report, faults, ghosts>>

-----------------------------------------------------------------------------
(* Where a round leads to when it returns.                                 *)

Enter(p, next) ==
  /\ stage' = [stage EXCEPT ![p] = next] /\ pc' = [pc EXCEPT ![p] = "lock"]
  /\ UNCHANGED <<report, marred>>

Tell(p, outcome) ==
  /\ report' = [report EXCEPT ![p][job[p].src] = outcome]
  /\ pc' = [pc EXCEPT ![p] = "pick"]
  /\ UNCHANGED stage

\* Mutant: no rollback of the flag when the hooks could not be installed.
ConnectReturnsNoRollback(p, ok) ==
  \/ stage[p] = "flag" /\ ok /\ job[p].src \in Hooked /\ Enter(p, "install")
  \/ stage[p] = "flag" /\ (~ok \/ job[p].src \notin Hooked) /\ UNCHANGED marred
     /\ Tell(p, IF ok THEN "connected" ELSE "failed")
  \/ stage[p] = "install" /\ UNCHANGED marred
     /\ Tell(p, IF ok THEN "connected" ELSE "failed")

\* connect_target: the flag, the hooks, and the rollback of the flag.
ConnectReturns(p, ok) ==
  \/ /\ stage[p] = "flag" /\ ok /\ job[p].src \in Hooked
     /\ Enter(p, "install")
  \/ /\ stage[p] = "flag" /\ ok /\ job[p].src \notin Hooked
     /\ Tell(p, "connected") /\ UNCHANGED marred
  \/ /\ stage[p] = "flag" /\ ~ok
     /\ Tell(p, "failed") /\ UNCHANGED marred
  \/ /\ stage[p] = "install" /\ ok
     /\ Tell(p, "connected") /\ UNCHANGED marred
  \/ /\ stage[p] = "install" /\ ~ok
     /\ Enter(p, "restore")
  \/ /\ stage[p] = "restore"
     /\ Tell(p, "failed")
     /\ marred' = IF ok THEN marred ELSE marred \cup {job[p].src}

\* Mutant: a failed removal of the hooks is told as "disconnected".
DisconnectReturnsClean(p, ok) ==
  /\ UNCHANGED marred
  /\ \/ stage[p] = "flag" /\ ok /\ job[p].src \in Hooked
        /\ stage' = [stage EXCEPT ![p] = "uninstall"] /\ pc' = [pc EXCEPT ![p] = "lock"]
        /\ UNCHANGED report
     \/ stage[p] = "flag" /\ ~(ok /\ job[p].src \in Hooked)
        /\ Tell(p, IF ok THEN "disconnected" ELSE "failed")
     \/ stage[p] = "uninstall" /\ Tell(p, "disconnected")

\* disconnect_target and map_disconnect_outcome: no rollback, and hooks that could
\* not be removed are never told as a plain "disconnected".
DisconnectReturns(p, ok) ==
  /\ UNCHANGED marred
  /\ \/ /\ stage[p] = "flag" /\ ok /\ job[p].src \in Hooked
        /\ stage' = [stage EXCEPT ![p] = "uninstall"] /\ pc' = [pc EXCEPT ![p] = "lock"]
        /\ UNCHANGED report
     \/ /\ stage[p] = "flag" /\ ok /\ job[p].src \notin Hooked
        /\ Tell(p, "disconnected")
     \/ /\ stage[p] = "flag" /\ ~ok
        /\ Tell(p, "failed")
     \/ /\ stage[p] = "uninstall"
        /\ Tell(p, IF ok THEN "disconnected" ELSE "hooks left")

Return(p, ok) ==
  /\ \/ job[p].act = "connect" /\ ConnectReturns(p, ok)
     \/ job[p].act = "disconnect" /\ DisconnectReturns(p, ok)
  /\ text' = [text EXCEPT ![p] = None]
  /\ UNCHANGED <<todo, job, prior, origin, before, contested>>

-----------------------------------------------------------------------------
(* One round under the lock of a file.                                     *)

\* Dropping the guard unlocks, whichever way the round is left.
Unlock(p) == lock' = [f \in File |-> IF lock[f] = p THEN None ELSE lock[f]]

Goto(p, label) == pc' = [pc EXCEPT ![p] = label]
Step(p, from, to) == pc[p] = from /\ Goto(p, to)
KeepsPlace == UNCHANGED <<stage, todo, job, prior, report, faults, ghosts>>

\* Mutant: the lock excludes nobody.
TryLockOpen(p) ==
  /\ pc[p] = "lock"
  /\ IF stage[p] = "uninstall" /\ main[FileOf(p)] = Missing
       THEN Return(p, TRUE) /\ UNCHANGED lock
       ELSE /\ lock' = [lock EXCEPT ![FileOf(p)] = p] /\ Goto(p, "read")
            /\ KeepsPlace /\ UNCHANGED text
  /\ UNCHANGED <<main, bak, tmp, baktmp, plugin, faults>>

\* lock_config fails on contention rather than wait.  uninstall_target leaves a
\* configuration that does not exist alone, before it would create a lock file.
TryLock(p) ==
  LET f == FileOf(p) IN
  /\ pc[p] = "lock"
  /\ \/ /\ stage[p] = "uninstall" /\ main[f] = Missing
        /\ Return(p, TRUE) /\ UNCHANGED lock
     \/ /\ ~(stage[p] = "uninstall" /\ main[f] = Missing)
        /\ lock[f] = None
        /\ lock' = [lock EXCEPT ![f] = p] /\ Goto(p, "read")
        /\ KeepsPlace /\ UNCHANGED text
     \/ /\ ~(stage[p] = "uninstall" /\ main[f] = Missing)
        /\ lock[f] # None
        /\ Return(p, FALSE) /\ UNCHANGED lock
  /\ UNCHANGED <<main, bak, tmp, baktmp, plugin, faults>>

\* What each round makes of the file it read.
Merged(p) ==
  CASE stage[p] = "flag" ->
         [FlagsIn(main[Own]) EXCEPT ![job[p].src] = IF job[p].act = "connect" THEN "on" ELSE "off"]
    [] stage[p] = "restore"   -> [FlagsIn(main[Own]) EXCEPT ![job[p].src] = prior[p]]
    [] stage[p] = "install"   -> HookOf[p]
    [] stage[p] = "uninstall" -> Plain

\* update_config writes whatever it read; the merges of an installer skip what is
\* already there, an uninstaller without a word to the backup.
Read(p) ==
  /\ pc[p] = "read"
  /\ text' = [text EXCEPT ![p] = Merged(p)]
  /\ Goto(p, CASE OnOwn(p) -> "backup"
               [] stage[p] = "install"   -> "plugin"
               [] stage[p] = "uninstall" ->
                    IF main[job[p].src] = Plain THEN "release" ELSE "create")
  /\ UNCHANGED disk /\ KeepsPlace

\* The artifacts are refreshed even when the configuration needs no change.
WriteArtifacts(p) ==
  /\ pc[p] = "plugin"
  /\ plugin' = [plugin EXCEPT ![job[p].src] = HookOf[p]]
  /\ Goto(p, IF main[job[p].src] = text[p] THEN "release" ELSE "backup")
  /\ UNCHANGED <<main, bak, tmp, baktmp, lock, text>> /\ KeepsPlace

\* Mutant: a fresh backup for every write.
BackupEachTime(p) ==
  LET f == FileOf(p) IN
  /\ pc[p] = "backup"
  /\ IF main[f] = Missing
       THEN Goto(p, "create") /\ UNCHANGED baktmp
       ELSE Goto(p, "bakfill") /\ baktmp' = [baktmp EXCEPT ![f] = Torn]
  /\ UNCHANGED <<main, bak, tmp, lock, plugin, text>> /\ KeepsPlace

\* Mutant: the backup is copied in place.
BackupInPlace(p) ==
  LET f == FileOf(p) IN
  /\ pc[p] = "backup"
  /\ IF main[f] = Missing \/ bak[f] # Missing
       THEN Goto(p, "create") /\ UNCHANGED <<bak, baktmp>>
       ELSE /\ Goto(p, "bakfill") /\ baktmp' = [baktmp EXCEPT ![f] = Torn]
            /\ bak' = [bak EXCEPT ![f] = Torn]
  /\ UNCHANGED <<main, tmp, lock, plugin, text>> /\ KeepsPlace

\* backup_once: nothing to save, or saved already, or a new copy by way of a
\* temporary file.
BackupOnce(p) ==
  LET f == FileOf(p) IN
  /\ pc[p] = "backup"
  /\ \/ (main[f] = Missing \/ bak[f] # Missing) /\ Goto(p, "create") /\ UNCHANGED baktmp
     \/ main[f] # Missing /\ bak[f] = Missing /\ Goto(p, "bakfill")
        /\ baktmp' = [baktmp EXCEPT ![f] = Torn]
  /\ UNCHANGED <<main, bak, tmp, lock, plugin, text>> /\ KeepsPlace

FillBackup(p) ==
  /\ Step(p, "bakfill", "bakmove")
  /\ baktmp' = [baktmp EXCEPT ![FileOf(p)] = main[FileOf(p)]]
  /\ UNCHANGED <<main, bak, tmp, lock, plugin, text>> /\ KeepsPlace

MoveBackup(p) ==
  /\ Step(p, "bakmove", "create")
  /\ bak' = [bak EXCEPT ![FileOf(p)] = baktmp[FileOf(p)]]
  /\ baktmp' = [baktmp EXCEPT ![FileOf(p)] = Missing]
  /\ UNCHANGED <<main, tmp, lock, plugin, text>> /\ KeepsPlace

\* write_atomic: whatever an earlier command left under the temporary name is
\* reclaimed.
CreateTmp(p) ==
  /\ Step(p, "create", "fill")
  /\ tmp' = [tmp EXCEPT ![FileOf(p)] = Torn]
  /\ UNCHANGED <<main, bak, baktmp, lock, plugin, text>> /\ KeepsPlace

FillTmp(p) ==
  /\ Step(p, "fill", "move")
  /\ tmp' = [tmp EXCEPT ![FileOf(p)] = text[p]]
  /\ UNCHANGED <<main, bak, baktmp, lock, plugin, text>> /\ KeepsPlace

MoveTmp(p) ==
  /\ Step(p, "move", IF stage[p] = "uninstall" THEN "unbak" ELSE "release")
  /\ main' = [main EXCEPT ![FileOf(p)] = tmp[FileOf(p)]]
  /\ tmp' = [tmp EXCEPT ![FileOf(p)] = Missing]
  /\ UNCHANGED <<bak, baktmp, lock, plugin, text>> /\ KeepsPlace

\* The backup goes last, and only once the hooks are out.
RemoveBackup(p) ==
  /\ Step(p, "unbak", "release")
  /\ bak' = [bak EXCEPT ![FileOf(p)] = Missing]
  /\ UNCHANGED <<main, tmp, baktmp, lock, plugin, text>> /\ KeepsPlace

Release(p) ==
  /\ pc[p] = "release"
  /\ Unlock(p) /\ Return(p, TRUE)
  /\ UNCHANGED <<main, bak, tmp, baktmp, plugin, faults>>

\* Any step that touches a file may fail, the opening of the lock file included;
\* what the round has done so far stays.
StepFails(p) ==
  /\ faults < MaxFaults /\ faults' = faults + 1
  /\ pc[p] \in (InRound \cup {"lock"}) \ {"release"}
  /\ Unlock(p) /\ Return(p, FALSE)
  /\ UNCHANGED <<main, bak, tmp, baktmp, plugin>>

\* The process is killed: its locks fall, its temporary files stay.
Killed(p) ==
  /\ faults < MaxFaults /\ faults' = faults + 1
  /\ Working(p)
  /\ Unlock(p) /\ Goto(p, "dead")
  /\ text' = [text EXCEPT ![p] = None]
  /\ marred' = marred \cup {job[p].src}
  /\ UNCHANGED <<main, bak, tmp, baktmp, plugin, stage, todo, job, prior, report,
                 origin, before, contested>>

Next ==
  \E p \in Proc :
    \/ Plan(p) \/ TakeUp(p) \/ AllDone(p)
    \/ TryLock(p) \/ Read(p) \/ WriteArtifacts(p)
    \/ BackupOnce(p) \/ FillBackup(p) \/ MoveBackup(p)
    \/ CreateTmp(p) \/ FillTmp(p) \/ MoveTmp(p) \/ RemoveBackup(p)
    \/ Release(p) \/ StepFails(p) \/ Killed(p)

Spec == Init /\ [][Next]_vars

-----------------------------------------------------------------------------
(* Properties.                                                             *)

\* Neither a file nor its backup is ever half written or of the wrong kind, for all
\* that commands are killed or fail at any step (write_atomic, backup_once).
TypeOK ==
  /\ \A s \in Source : {main[s], bak[s]} \subseteq {Missing, Plain} \cup Cmd
  /\ {main[Own], bak[Own]} \subseteq {Missing} \cup Flags
  /\ lock \in [File -> Proc \cup {None}]
  /\ \A p \in Proc : pc[p] \in InRound \cup {"plan", "pick", "lock", "over", "dead"}

\* No save loses another's: a step that changes the flag of a source is a step of a
\* process that works on that very source (update_config holds the lock from before
\* the read until after the rename).
OnlyOwnFlag ==
  [][\A s \in Source :
       FlagOf(s)' # FlagOf(s) =>
         \E p \in Proc : OnOwn(p) /\ Working(p) /\ job[p].src = s]_vars

\* What the user had is recoverable: while a CLI's configuration that was there
\* before us holds hooks, its backup is whole and free of them; and once the own
\* configuration has changed, its backup is the file as it was at first
\* (backup_once before the write, remove_backup after it).
RecoveryPath ==
  /\ \A s \in Source : HasHooks(s) /\ origin[s] # Missing => bak[s] = Plain
  /\ origin[Own] # Missing /\ main[Own] # origin[Own] => bak[Own] = origin[Own]

\* The program does not show what cannot work: a flag that is on without hooks
\* behind it belongs to a command under way, or to one that was killed, whose
\* rollback failed, or that another command on the same source crossed
\* (connect_target's order of writes and its rollback).
NoHollowConnection ==
  \A s \in Hooked :
    FlagOf(s) = "on" /\ ~HasHooks(s) =>
      s \in contested \cup marred \/ \E p \in Proc : Working(p) /\ job[p].src = s

\* What holds of source s when process p is told an outcome for it.
Holds(p, s, outcome) ==
  CASE outcome = "connected"    -> /\ FlagOf(s) = "on"
                                   /\ s \in Hooked => main[s] = HookOf[p] /\ plugin[s] = HookOf[p]
    [] outcome = "disconnected" -> FlagOf(s) = "off" /\ ~HasHooks(s)
    [] outcome = "hooks left"   -> FlagOf(s) = "off"
    [] outcome = "failed"       -> /\ main[s] = before[p].hooks
                                   /\ s \in marred \/ FlagOf(s) = before[p].flag

\* Outcomes are true when told: connected means flag, hooks and artifacts are in
\* place, disconnected that flag and hooks are gone, failed that both are as they
\* were (apply_one and map_disconnect_outcome).
OutcomesAreTrue ==
  [][\A p \in Proc, s \in Source :
       report'[p][s] # report[p][s] /\ s \notin contested' => Holds(p, s, report[p][s])']_vars

=============================================================================

--------------------------- MODULE SourcesProofs ---------------------------
(***************************************************************************)
(* Theorems about connecting and disconnecting, for any number of          *)
(* commands, sources, failures and kills.                                  *)
(*                                                                         *)
(* A round owns its file: that is what the lock gives.  What the file's    *)
(* holder has read, copied and written so far is then as it left it        *)
(* (Local), and the files themselves stay recoverable (DiskOK).  What a    *)
(* command tells is true because it is alone on its source: nobody else    *)
(* has moved the flag and the hooks between its rounds (Sole).             *)
(***************************************************************************)
EXTENDS Sources, TLAPS

Stage   == {"flag", "install", "restore", "uninstall"}
Content == {None, Missing, Torn, Plain} \cup Cmd \cup Flags

Shape ==
  /\ main \in [File -> Content] /\ bak \in [File -> Content]
  /\ tmp \in [File -> Content] /\ baktmp \in [File -> Content]
  /\ lock \in [File -> Proc \cup {None}]
  /\ pc \in [Proc -> InRound \cup {"plan", "pick", "lock", "over", "dead"}]
  /\ stage \in [Proc -> Stage] /\ todo \in [Proc -> SUBSET Item]
  /\ job \in [Proc -> Item \cup {None}] /\ prior \in [Proc -> Flag]
  /\ text \in [Proc -> Content]
  /\ \A p \in Proc : Working(p) => job[p] \in Item

Held(p) == pc[p] \in InRound => lock[FileOf(p)] = p

\* What p is about to write: its own source's flag apart, the flags there are.
Draft(p) ==
  /\ OnOwn(p) => /\ text[p] \in Flags
                 /\ \A s \in Source \ {job[p].src} : text[p][s] = FlagOf(s)
  /\ stage[p] = "install" => text[p] = HookOf[p]
  /\ stage[p] = "uninstall" => text[p] = Plain

Local(p) ==
  /\ pc[p] \in {"plugin", "backup", "bakfill", "bakmove", "create", "fill", "move"} => Draft(p)
  /\ pc[p] = "plugin" => stage[p] = "install"
  /\ pc[p] \in {"backup", "bakfill", "bakmove"} => stage[p] # "uninstall"
  /\ pc[p] \in {"bakfill", "bakmove"} => bak[FileOf(p)] = Missing /\ main[FileOf(p)] # Missing
  /\ pc[p] = "bakmove" => baktmp[FileOf(p)] = main[FileOf(p)]
  /\ pc[p] \in {"create", "fill", "move"} /\ stage[p] # "uninstall" /\ main[FileOf(p)] # Missing
        => bak[FileOf(p)] # Missing
  /\ pc[p] = "move" => tmp[FileOf(p)] = text[p]
  /\ pc[p] = "unbak" => stage[p] = "uninstall" /\ main[FileOf(p)] = Plain

\* The file of a source, and the program's own.
SourceOK(s) ==
  /\ {main[s], bak[s]} \subseteq {Missing, Plain} \cup Cmd
  /\ origin[s] # Missing => /\ main[s] # Missing
                            /\ main[s] = Plain => bak[s] \in {Missing, Plain}
                            /\ HasHooks(s) => bak[s] = Plain

OwnOK ==
  /\ {main[Own], bak[Own]} \subseteq {Missing} \cup Flags
  /\ origin[Own] # Missing => /\ main[Own] # Missing /\ bak[Own] \in {Missing, origin[Own]}
                              /\ main[Own] # origin[Own] => bak[Own] = origin[Own]

DiskOK == OwnOK /\ \A s \in Source : SourceOK(s)

Inv == Shape /\ DiskOK /\ \A p \in Proc : Held(p) /\ Local(p)

-----------------------------------------------------------------------------
(* What a process keeps while another one moves.                           *)

\* A step of p leaves the place of q alone, and the file q works on.
Undisturbed(q) ==
  /\ pc'[q] = pc[q] /\ stage'[q] = stage[q] /\ job'[q] = job[q] /\ text'[q] = text[q]
  /\ \A f \in File : lock[f] = q => lock'[f] = q
  /\ pc[q] \in InRound => /\ main'[FileOf(q)] = main[FileOf(q)] /\ bak'[FileOf(q)] = bak[FileOf(q)]
                         /\ tmp'[FileOf(q)] = tmp[FileOf(q)]
                         /\ baktmp'[FileOf(q)] = baktmp[FileOf(q)]

\* What a round knows of itself is its own business: it survives the others' steps.
LEMMA OthersKeep ==
  ASSUME NEW q \in Proc, Shape, Held(q), Local(q), Undisturbed(q)
  PROVE  Held(q)' /\ Local(q)'
<1>1. FileOf(q)' = FileOf(q) /\ (OnOwn(q)' <=> OnOwn(q))
  BY DEF FileOf, OnOwn, Undisturbed
<1>2. ASSUME pc[q] \in InRound PROVE FileOf(q) \in File
  BY <1>2 DEF Shape, Working, FileOf, File, OnOwn, Item
<1>3. Held(q)'
  BY <1>1, <1>2 DEF Held, Undisturbed
<1>4. ASSUME pc[q] \in InRound, Draft(q) PROVE Draft(q)'
  BY <1>1, <1>4 DEF Draft, Undisturbed, FlagOf, FlagsIn, FileOf
<1>5. Local(q)'
  BY <1>1, <1>4 DEF Local, Undisturbed, InRound
<1> QED BY <1>3, <1>5

\* Two rounds are never on the same file.
LEMMA RoundsApart ==
  ASSUME NEW p \in Proc, NEW q \in Proc, q # p, Held(p), Held(q),
         pc[p] \in InRound, pc[q] \in InRound
  PROVE  FileOf(q) # FileOf(p)
  BY DEF Held

\* A step that leaves a round, or happens outside one, keeps the invariant.
LEMMA Leaving ==
  ASSUME Inv, NEW p \in Proc, Shape', UNCHANGED <<main, bak, tmp, baktmp, origin>>,
         pc'[p] \notin InRound, \A q \in Proc \ {p} : Undisturbed(q)
  PROVE  Inv'
<1>1. DiskOK'
  BY DEF Inv, DiskOK, OwnOK, SourceOK, HasHooks
<1>2. Held(p)' /\ Local(p)'
  BY DEF Held, Local, InRound
<1>3. ASSUME NEW q \in Proc \ {p} PROVE Held(q)' /\ Local(q)'
  BY <1>3, OthersKeep DEF Inv
<1> QED BY <1>1, <1>2, <1>3 DEF Inv

\* A step inside a round keeps the invariant when it does right by its own file.
LEMMA RoundStep ==
  ASSUME Inv, NEW p \in Proc, pc[p] \in InRound, Shape', DiskOK', Local(p)',
         UNCHANGED <<lock, stage, job>>,
         \A q \in Proc \ {p} : pc'[q] = pc[q] /\ text'[q] = text[q],
         \A f \in File \ {FileOf(p)} : /\ main'[f] = main[f] /\ bak'[f] = bak[f]
                                       /\ tmp'[f] = tmp[f] /\ baktmp'[f] = baktmp[f]
  PROVE  Inv'
<1>1. Held(p)'
  BY DEF Inv, Held, FileOf, OnOwn
<1>2. ASSUME NEW q \in Proc \ {p} PROVE Held(q)' /\ Local(q)'
  <2>1. ASSUME pc[q] \in InRound PROVE FileOf(q) \in File \ {FileOf(p)}
    <3>1. FileOf(q) \in File
      BY <2>1 DEF Inv, Shape, Working, FileOf, File, OnOwn, Item
    <3> QED BY <2>1, <3>1, RoundsApart DEF Inv
  <2>2. Undisturbed(q)
    BY <2>1 DEF Undisturbed
  <2> QED BY <2>2, OthersKeep DEF Inv
<1> QED BY <1>1, <1>2 DEF Inv

-----------------------------------------------------------------------------
(* The steps outside a round, and those that leave one.                    *)

\* Where a process goes when a round returns; everybody else stays.
LEMMA Returned ==
  ASSUME Shape, NEW p \in Proc, NEW ok \in BOOLEAN, job[p] \in Item, Return(p, ok)
  PROVE  /\ pc'[p] \in {"lock", "pick"} /\ pc' = [pc EXCEPT ![p] = pc'[p]]
         /\ stage'[p] \in Stage /\ stage' = [stage EXCEPT ![p] = stage'[p]]
         /\ text' = [text EXCEPT ![p] = None]
         /\ UNCHANGED <<todo, job, prior, origin>>
<1>1. CASE job[p].act = "connect" /\ ConnectReturns(p, ok)
  BY <1>1 DEF Shape, Return, ConnectReturns, Enter, Tell, Stage
<1>2. CASE job[p].act = "disconnect" /\ DisconnectReturns(p, ok)
  BY <1>2 DEF Shape, Return, DisconnectReturns, Tell, Stage
<1> QED BY <1>1, <1>2 DEF Return

\* A return keeps the invariant, whether or not it unlocks.
LEMMA ReturnKeeps ==
  ASSUME Inv, NEW p \in Proc, NEW ok \in BOOLEAN, Working(p), Return(p, ok),
         UNCHANGED <<main, bak, tmp, baktmp>>,
         UNCHANGED lock \/ Unlock(p)
  PROVE  Inv'
<1>1. job[p] \in Item /\ Shape
  BY DEF Inv, Shape
<1>2. /\ pc'[p] \in {"lock", "pick"} /\ pc' = [pc EXCEPT ![p] = pc'[p]]
      /\ stage'[p] \in Stage /\ stage' = [stage EXCEPT ![p] = stage'[p]]
      /\ text' = [text EXCEPT ![p] = None]
      /\ UNCHANGED <<todo, job, prior, origin>>
  BY <1>1, Returned
<1>3. lock' \in [File -> Proc \cup {None}] /\ \A q \in Proc \ {p}, f \in File : lock[f] = q => lock'[f] = q
  BY <1>1 DEF Shape, Unlock
<1>4. \A q \in Proc : job'[q] = job[q] /\ (q # p => pc'[q] = pc[q])
  BY <1>1, <1>2 DEF Shape
<1>5. Shape'
  <2>1. \A q \in Proc : Working(q)' => job'[q] \in Item
    BY <1>1, <1>4 DEF Shape, Working
  <2>2. text' \in [Proc -> Content] /\ stage' \in [Proc -> Stage]
    BY <1>1, <1>2 DEF Shape, Content
  <2>3. pc' \in [Proc -> InRound \cup {"plan", "pick", "lock", "over", "dead"}]
    BY <1>1, <1>2 DEF Shape
  <2> QED BY <1>1, <1>2, <1>3, <2>1, <2>2, <2>3 DEF Shape
<1>6. \A q \in Proc \ {p} : Undisturbed(q)
  BY <1>1, <1>2, <1>3, <1>4 DEF Undisturbed, Shape
<1>7. pc'[p] \notin InRound
  BY <1>2 DEF InRound
<1> QED BY <1>2, <1>5, <1>6, <1>7, Leaving

LEMMA PlanKeeps ==
  ASSUME Inv, NEW p \in Proc, Plan(p) PROVE Inv'
<1>1. PICK want \in SUBSET Source, connected \in SUBSET Source :
        todo' = [todo EXCEPT ![p] = Planned(connected, want)]
  <2>1. todo[p] \in SUBSET Item
    BY DEF Inv, Shape
  <2>2. {i.src : i \in todo[p]} \in SUBSET Source
    BY <2>1 DEF Item
  <2> QED BY <2>2 DEF Plan
<1>2. Planned(connected, want) \in SUBSET Item
  BY <1>1 DEF Planned, Item, Act
<1>3. Shape'
  <2>1. pc' \in [Proc -> InRound \cup {"plan", "pick", "lock", "over", "dead"}]
    BY DEF Plan, Inv, Shape
  <2>2. \A q \in Proc : Working(q)' => job'[q] \in Item
    BY DEF Plan, Inv, Shape, Working, InRound
  <2> QED BY <1>1, <1>2, <2>1, <2>2 DEF Plan, Inv, Shape, disk
<1>4. \A q \in Proc \ {p} : Undisturbed(q)
  BY DEF Undisturbed, Plan, Inv, Shape, disk
<1>5. pc'[p] \notin InRound
  BY DEF Plan, Inv, Shape, InRound
<1> QED BY <1>3, <1>4, <1>5, Leaving DEF Plan, disk, ghosts

LEMMA TakeUpKeeps ==
  ASSUME Inv, NEW p \in Proc, TakeUp(p) PROVE Inv'
<1>1. PICK i \in todo[p] : /\ job' = [job EXCEPT ![p] = i]
                          /\ todo' = [todo EXCEPT ![p] = @ \ {i}]
                          /\ \/ prior' = [prior EXCEPT ![p] = FlagOf(i.src)]
                             \/ prior' = [prior EXCEPT ![p] = "absent"]
  BY DEF TakeUp
<1>2. i \in Item /\ i.src \in Source
  BY DEF Inv, Shape, Item
<1>3. FlagOf(i.src) \in Flag
  BY <1>2, SourcesAssumption DEF Inv, DiskOK, OwnOK, FlagOf, FlagsIn, Flags, Flag
<1>4. Shape'
  <2>1. pc' \in [Proc -> InRound \cup {"plan", "pick", "lock", "over", "dead"}]
    BY DEF TakeUp, Inv, Shape
  <2>2. \A q \in Proc : Working(q)' => job'[q] \in Item
    BY <1>1, <1>2 DEF TakeUp, Inv, Shape, Working, InRound
  <2>3. prior' \in [Proc -> Flag]
    BY <1>1, <1>3 DEF Inv, Shape, Flag
  <2>4. job' \in [Proc -> Item \cup {None}] /\ todo' \in [Proc -> SUBSET Item]
    BY <1>1, <1>2 DEF Inv, Shape
  <2>5. stage' \in [Proc -> Stage]
    BY DEF TakeUp, Inv, Shape, Stage
  <2> QED BY <2>1, <2>2, <2>3, <2>4, <2>5 DEF TakeUp, Inv, Shape, disk
<1>5. \A q \in Proc \ {p} : Undisturbed(q)
  BY <1>1 DEF Undisturbed, TakeUp, Inv, Shape, disk
<1>6. pc'[p] \notin InRound
  BY DEF TakeUp, Inv, Shape, InRound
<1> QED BY <1>4, <1>5, <1>6, Leaving DEF TakeUp, disk

LEMMA AllDoneKeeps ==
  ASSUME Inv, NEW p \in Proc, AllDone(p) PROVE Inv'
<1>1. Shape'
  <2>1. pc' \in [Proc -> InRound \cup {"plan", "pick", "lock", "over", "dead"}]
    BY DEF AllDone, Inv, Shape
  <2>2. \A q \in Proc : Working(q)' => job'[q] \in Item
    BY DEF AllDone, Inv, Shape, Working, InRound
  <2> QED BY <2>1, <2>2 DEF AllDone, Inv, Shape, disk
<1>2. \A q \in Proc \ {p} : Undisturbed(q)
  BY DEF Undisturbed, AllDone, Inv, Shape, disk
<1>3. pc'[p] \notin InRound
  BY DEF AllDone, Inv, Shape, InRound
<1> QED BY <1>1, <1>2, <1>3, Leaving DEF AllDone, disk, ghosts

LEMMA ReleaseKeeps ==
  ASSUME Inv, NEW p \in Proc, Release(p) PROVE Inv'
  BY ReturnKeeps DEF Release, Working, InRound

LEMMA StepFailsKeeps ==
  ASSUME Inv, NEW p \in Proc, StepFails(p) PROVE Inv'
  BY ReturnKeeps DEF StepFails, Working

LEMMA KilledKeeps ==
  ASSUME Inv, NEW p \in Proc, Killed(p) PROVE Inv'
<1>1. Shape'
  <2>1. pc' \in [Proc -> InRound \cup {"plan", "pick", "lock", "over", "dead"}]
    BY DEF Killed, Goto, Inv, Shape
  <2>2. \A q \in Proc : Working(q)' => job'[q] \in Item
    BY DEF Killed, Goto, Inv, Shape, Working, InRound
  <2>3. lock' \in [File -> Proc \cup {None}] /\ text' \in [Proc -> Content]
    BY DEF Killed, Unlock, Inv, Shape, Content
  <2> QED BY <2>1, <2>2, <2>3 DEF Killed, Inv, Shape
<1>2. \A q \in Proc \ {p} : Undisturbed(q)
  BY DEF Undisturbed, Killed, Goto, Unlock, Inv, Shape
<1>3. pc'[p] \notin InRound
  BY DEF Killed, Goto, Inv, Shape, InRound
<1> QED BY <1>1, <1>2, <1>3, Leaving DEF Killed

\* The lock is taken from nobody, so nobody loses it.
LEMMA TryLockKeeps ==
  ASSUME Inv, NEW p \in Proc, TryLock(p) PROVE Inv'
<1>1. ASSUME NEW ok \in BOOLEAN, Return(p, ok), UNCHANGED lock PROVE Inv'
  BY <1>1, ReturnKeeps DEF TryLock, Working
<1>2. ASSUME lock[FileOf(p)] = None, lock' = [lock EXCEPT ![FileOf(p)] = p],
             Goto(p, "read"), KeepsPlace, UNCHANGED text
      PROVE  Inv'
  <2>0. Working(p) /\ FileOf(p) \in File /\ UNCHANGED <<main, bak, tmp, baktmp>>
    BY DEF TryLock, Working, Inv, Shape, FileOf, File, Item
  <2>1. Shape'
    <3>1. pc' \in [Proc -> InRound \cup {"plan", "pick", "lock", "over", "dead"}]
      BY <1>2 DEF Goto, Inv, Shape, InRound
    <3>2. \A q \in Proc : Working(q)' => job'[q] \in Item
      BY <1>2, <2>0 DEF Goto, Inv, Shape, Working, KeepsPlace
    <3>3. lock' \in [File -> Proc \cup {None}]
      BY <1>2 DEF Inv, Shape
    <3> QED BY <1>2, <2>0, <3>1, <3>2, <3>3 DEF Inv, Shape, KeepsPlace
  <2>2. DiskOK'
    BY <1>2, <2>0 DEF Inv, DiskOK, OwnOK, SourceOK, HasHooks, KeepsPlace, ghosts
  <2>3. Held(p)' /\ Local(p)'
    BY <1>2, <2>0 DEF Inv, Shape, Held, Local, FileOf, OnOwn, Goto, KeepsPlace
  <2>4. ASSUME NEW q \in Proc \ {p} PROVE Held(q)' /\ Local(q)'
    <3>1. Undisturbed(q)
      BY <1>2, <2>0, SourcesAssumption DEF Undisturbed, Goto, KeepsPlace, Inv, Shape
    <3> QED BY <3>1, OthersKeep DEF Inv
  <2> QED BY <2>1, <2>2, <2>3, <2>4 DEF Inv
<1> QED BY <1>1, <1>2 DEF TryLock

-----------------------------------------------------------------------------
(* The steps of a round.                                                   *)

\* What a round works on.
LEMMA InRoundFacts ==
  ASSUME Inv, NEW p \in Proc, pc[p] \in InRound
  PROVE  /\ job[p] \in Item /\ job[p].src \in Source /\ FileOf(p) \in File
         /\ OnOwn(p) => FileOf(p) = Own
         /\ ~OnOwn(p) => FileOf(p) \in Source /\ FileOf(p) = job[p].src
                        /\ stage[p] \in {"install", "uninstall"}
  BY DEF Inv, Shape, Working, Item, FileOf, File, OnOwn, Stage

\* A step that goes on inside a round keeps the shape of everything it does not write.
LEMMA RoundShape ==
  ASSUME Inv, NEW p \in Proc, pc[p] \in InRound, NEW label \in InRound, Goto(p, label), KeepsPlace,
         main' \in [File -> Content], bak' \in [File -> Content],
         tmp' \in [File -> Content], baktmp' \in [File -> Content],
         lock' = lock, text' \in [Proc -> Content]
  PROVE  /\ Shape' /\ pc'[p] = label
         /\ \A q \in Proc \ {p} : pc'[q] = pc[q]
         /\ FileOf(p)' = FileOf(p) /\ (OnOwn(p)' <=> OnOwn(p))
<1>1. pc' \in [Proc -> InRound \cup {"plan", "pick", "lock", "over", "dead"}]
  BY DEF Goto, Inv, Shape
<1>2. \A q \in Proc : Working(q)' => job'[q] \in Item
  BY DEF Goto, KeepsPlace, Inv, Shape, Working
<1>3. Shape'
  BY <1>1, <1>2 DEF KeepsPlace, Inv, Shape
<1>4. FileOf(p)' = FileOf(p) /\ (OnOwn(p)' <=> OnOwn(p))
  BY DEF KeepsPlace, FileOf, OnOwn
<1> QED BY <1>3, <1>4 DEF Goto, Inv, Shape

\* What a round makes of its file: its own source's flag apart, the flags as they are.
LEMMA MergedDraft ==
  ASSUME Inv, NEW p \in Proc, pc[p] \in InRound
  PROVE  /\ Merged(p) \in Content
         /\ OnOwn(p) => /\ Merged(p) \in Flags
                        /\ \A s \in Source \ {job[p].src} : Merged(p)[s] = FlagOf(s)
         /\ stage[p] = "install" => Merged(p) = HookOf[p]
         /\ stage[p] = "uninstall" => Merged(p) = Plain
<1>1. job[p].src \in Source /\ prior[p] \in Flag /\ stage[p] \in Stage
  BY InRoundFacts DEF Inv, Shape
<1>2. FlagsIn(main[Own]) \in Flags
  BY SourcesAssumption DEF Inv, DiskOK, OwnOK, FlagsIn, Flags, Flag
<1>3. CASE OnOwn(p)
  BY <1>1, <1>2, <1>3 DEF OnOwn, Merged, Flags, Flag, FlagOf, Content
<1>4. CASE stage[p] = "install"
  BY <1>4, SourcesAssumption DEF OnOwn, Merged, Content
<1>5. CASE stage[p] = "uninstall"
  BY <1>5 DEF OnOwn, Merged, Content
<1> QED BY <1>1, <1>3, <1>4, <1>5 DEF Stage, OnOwn

\* A step that leaves the files leaves them recoverable.
LEMMA DiskStays ==
  ASSUME Inv, UNCHANGED <<main, bak, origin>> PROVE DiskOK'
  BY DEF Inv, DiskOK, OwnOK, SourceOK, HasHooks

LEMMA ReadKeeps ==
  ASSUME Inv, NEW p \in Proc, Read(p) PROVE Inv'
<1> DEFINE label == CASE OnOwn(p) -> "backup"
                      [] stage[p] = "install"   -> "plugin"
                      [] stage[p] = "uninstall" ->
                           IF main[job[p].src] = Plain THEN "release" ELSE "create"
<1>1. pc[p] \in InRound /\ Goto(p, label)
  BY DEF Read, InRound
<1>2. /\ OnOwn(p) => label = "backup"
      /\ stage[p] = "install" => label = "plugin"
      /\ stage[p] = "uninstall" => label \in {"release", "create"}
      /\ label \in InRound
  BY <1>1, InRoundFacts DEF OnOwn, InRound
<1>3. text'[p] = Merged(p) /\ text' \in [Proc -> Content] /\ \A q \in Proc \ {p} : text'[q] = text[q]
  BY <1>1, MergedDraft DEF Read, Inv, Shape
<1>4. /\ Shape' /\ pc'[p] = label /\ \A q \in Proc \ {p} : pc'[q] = pc[q]
      /\ FileOf(p)' = FileOf(p) /\ (OnOwn(p)' <=> OnOwn(p))
  BY <1>1, <1>2, <1>3, RoundShape DEF Read, disk, Inv, Shape
<1>5. Draft(p)'
  BY <1>1, <1>3, <1>4, MergedDraft DEF Draft, Read, disk, KeepsPlace, FlagOf, FlagsIn
<1>6. Local(p)'
  BY <1>1, <1>2, <1>4, <1>5, InRoundFacts DEF Local, Read, KeepsPlace, OnOwn
<1>7. DiskOK'
  BY DiskStays DEF Read, disk, KeepsPlace, ghosts
<1> QED BY <1>1, <1>3, <1>4, <1>6, <1>7, RoundStep DEF Read, disk, KeepsPlace

LEMMA WriteArtifactsKeeps ==
  ASSUME Inv, NEW p \in Proc, WriteArtifacts(p) PROVE Inv'
<1> DEFINE label == IF main[job[p].src] = text[p] THEN "release" ELSE "backup"
<1>1. pc[p] = "plugin" /\ pc[p] \in InRound /\ label \in InRound /\ Goto(p, label)
  BY DEF WriteArtifacts, InRound
<1>2. /\ Shape' /\ pc'[p] = label /\ \A q \in Proc \ {p} : pc'[q] = pc[q]
      /\ FileOf(p)' = FileOf(p) /\ (OnOwn(p)' <=> OnOwn(p))
  BY <1>1, RoundShape DEF WriteArtifacts, Inv, Shape
<1>3. Draft(p)' /\ stage[p] = "install"
  BY <1>1, <1>2 DEF Inv, Local, Draft, WriteArtifacts, KeepsPlace, FlagOf, FlagsIn
<1>4. Local(p)'
  BY <1>2, <1>3 DEF Local, WriteArtifacts, KeepsPlace
<1>5. DiskOK'
  BY DiskStays DEF WriteArtifacts, KeepsPlace, ghosts
<1> QED BY <1>1, <1>2, <1>4, <1>5, RoundStep DEF WriteArtifacts, KeepsPlace

LEMMA BackupOnceKeeps ==
  ASSUME Inv, NEW p \in Proc, BackupOnce(p) PROVE Inv'
<1>1. PICK label \in {"create", "bakfill"} :
        /\ Goto(p, label)
        /\ label = "create" => (main[FileOf(p)] = Missing \/ bak[FileOf(p)] # Missing) /\ baktmp' = baktmp
        /\ label = "bakfill" => /\ main[FileOf(p)] # Missing /\ bak[FileOf(p)] = Missing
                               /\ baktmp' = [baktmp EXCEPT ![FileOf(p)] = Torn]
  BY DEF BackupOnce
<1>2. pc[p] = "backup" /\ pc[p] \in InRound /\ label \in InRound
  BY DEF BackupOnce, InRound
<1>3. baktmp' \in [File -> Content]
  BY <1>1 DEF Inv, Shape, Content
<1>4. /\ Shape' /\ pc'[p] = label /\ \A q \in Proc \ {p} : pc'[q] = pc[q]
      /\ FileOf(p)' = FileOf(p) /\ (OnOwn(p)' <=> OnOwn(p))
  BY <1>1, <1>2, <1>3, RoundShape DEF BackupOnce, Inv, Shape
<1>5. Draft(p)' /\ stage[p] # "uninstall"
  BY <1>2, <1>4 DEF Inv, Local, Draft, BackupOnce, KeepsPlace, FlagOf, FlagsIn
<1>6. Local(p)'
  BY <1>1, <1>4, <1>5 DEF Local, BackupOnce, KeepsPlace
<1>7. DiskOK'
  BY DiskStays DEF BackupOnce, KeepsPlace, ghosts
<1>8. \A f \in File \ {FileOf(p)} : baktmp'[f] = baktmp[f]
  BY <1>1 DEF Inv, Shape
<1> QED BY <1>2, <1>4, <1>6, <1>7, <1>8, RoundStep DEF BackupOnce, KeepsPlace

LEMMA FillBackupKeeps ==
  ASSUME Inv, NEW p \in Proc, FillBackup(p) PROVE Inv'
<1>1. pc[p] = "bakfill" /\ pc[p] \in InRound /\ "bakmove" \in InRound /\ Goto(p, "bakmove")
  BY DEF FillBackup, Step, InRound
<1>2. baktmp' \in [File -> Content] /\ baktmp'[FileOf(p)] = main[FileOf(p)]
  BY <1>1, InRoundFacts DEF FillBackup, Inv, Shape
<1>3. /\ Shape' /\ pc'[p] = "bakmove" /\ \A q \in Proc \ {p} : pc'[q] = pc[q]
      /\ FileOf(p)' = FileOf(p) /\ (OnOwn(p)' <=> OnOwn(p))
  BY <1>1, <1>2, RoundShape DEF FillBackup, Inv, Shape
<1>4. Draft(p)' /\ stage[p] # "uninstall" /\ bak[FileOf(p)] = Missing /\ main[FileOf(p)] # Missing
  BY <1>1, <1>3 DEF Inv, Local, Draft, FillBackup, KeepsPlace, FlagOf, FlagsIn
<1>5. Local(p)'
  BY <1>2, <1>3, <1>4 DEF Local, FillBackup, KeepsPlace
<1>6. DiskOK'
  BY DiskStays DEF FillBackup, KeepsPlace, ghosts
<1>7. \A f \in File \ {FileOf(p)} : baktmp'[f] = baktmp[f]
  BY DEF FillBackup, Inv, Shape
<1> QED BY <1>1, <1>3, <1>5, <1>6, <1>7, RoundStep DEF FillBackup, KeepsPlace

\* The backup is taken of a file that nobody of ours has written yet, or that was not
\* there at first.
LEMMA MoveBackupKeeps ==
  ASSUME Inv, NEW p \in Proc, MoveBackup(p) PROVE Inv'
<1>1. pc[p] = "bakmove" /\ pc[p] \in InRound /\ "create" \in InRound /\ Goto(p, "create")
  BY DEF MoveBackup, Step, InRound
<1>2. /\ Draft(p) /\ stage[p] # "uninstall" /\ baktmp[FileOf(p)] = main[FileOf(p)]
      /\ bak[FileOf(p)] = Missing /\ main[FileOf(p)] # Missing
  BY <1>1 DEF Inv, Local
<1>3. /\ bak' \in [File -> Content] /\ baktmp' \in [File -> Content]
      /\ bak' = [bak EXCEPT ![FileOf(p)] = main[FileOf(p)]]
  BY <1>1, <1>2, InRoundFacts DEF MoveBackup, Inv, Shape, Content
<1>4. /\ Shape' /\ pc'[p] = "create" /\ \A q \in Proc \ {p} : pc'[q] = pc[q]
      /\ FileOf(p)' = FileOf(p) /\ (OnOwn(p)' <=> OnOwn(p))
  BY <1>1, <1>3, RoundShape DEF MoveBackup, Inv, Shape
<1>5. Draft(p)'
  BY <1>2, <1>4 DEF Draft, MoveBackup, KeepsPlace, FlagOf, FlagsIn
<1>6. Local(p)'
  BY <1>1, <1>2, <1>3, <1>4, <1>5, InRoundFacts DEF Local, MoveBackup, KeepsPlace, Inv, Shape
<1>7. DiskOK'
  <2>1. origin' = origin /\ main' = main /\ bak \in [File -> Content]
    BY DEF MoveBackup, KeepsPlace, ghosts, Inv, Shape
  <2>2. OwnOK'
    BY <1>2, <1>3, <2>1 DEF Inv, DiskOK, OwnOK, File
  <2>3. ASSUME NEW s \in Source PROVE SourceOK(s)'
    <3>1. s # Own /\ s \in File /\ SourceOK(s)
      BY SourcesAssumption DEF File, Inv, DiskOK
    <3> QED BY <1>2, <1>3, <2>1, <3>1, SourcesAssumption DEF SourceOK, HasHooks
  <2> QED BY <2>2, <2>3 DEF DiskOK
<1>8. \A f \in File \ {FileOf(p)} : bak'[f] = bak[f] /\ baktmp'[f] = baktmp[f]
  BY DEF MoveBackup, Inv, Shape
<1> QED BY <1>1, <1>4, <1>6, <1>7, <1>8, RoundStep DEF MoveBackup, KeepsPlace

LEMMA CreateTmpKeeps ==
  ASSUME Inv, NEW p \in Proc, CreateTmp(p) PROVE Inv'
<1>1. pc[p] = "create" /\ pc[p] \in InRound /\ "fill" \in InRound /\ Goto(p, "fill")
  BY DEF CreateTmp, Step, InRound
<1>2. tmp' \in [File -> Content]
  BY DEF CreateTmp, Inv, Shape, Content
<1>3. /\ Shape' /\ pc'[p] = "fill" /\ \A q \in Proc \ {p} : pc'[q] = pc[q]
      /\ FileOf(p)' = FileOf(p) /\ (OnOwn(p)' <=> OnOwn(p))
  BY <1>1, <1>2, RoundShape DEF CreateTmp, Inv, Shape
<1>4. /\ Draft(p)'
      /\ stage[p] # "uninstall" /\ main[FileOf(p)] # Missing => bak[FileOf(p)] # Missing
  BY <1>1, <1>3 DEF Inv, Local, Draft, CreateTmp, KeepsPlace, FlagOf, FlagsIn
<1>5. Local(p)'
  BY <1>3, <1>4 DEF Local, CreateTmp, KeepsPlace
<1>6. DiskOK'
  BY DiskStays DEF CreateTmp, KeepsPlace, ghosts
<1>7. \A f \in File \ {FileOf(p)} : tmp'[f] = tmp[f]
  BY DEF CreateTmp, Inv, Shape
<1> QED BY <1>1, <1>3, <1>5, <1>6, <1>7, RoundStep DEF CreateTmp, KeepsPlace

LEMMA FillTmpKeeps ==
  ASSUME Inv, NEW p \in Proc, FillTmp(p) PROVE Inv'
<1>1. pc[p] = "fill" /\ pc[p] \in InRound /\ "move" \in InRound /\ Goto(p, "move")
  BY DEF FillTmp, Step, InRound
<1>2. tmp' \in [File -> Content] /\ tmp'[FileOf(p)] = text[p]
  BY <1>1, InRoundFacts DEF FillTmp, Inv, Shape
<1>3. /\ Shape' /\ pc'[p] = "move" /\ \A q \in Proc \ {p} : pc'[q] = pc[q]
      /\ FileOf(p)' = FileOf(p) /\ (OnOwn(p)' <=> OnOwn(p))
  BY <1>1, <1>2, RoundShape DEF FillTmp, Inv, Shape
<1>4. /\ Draft(p)'
      /\ stage[p] # "uninstall" /\ main[FileOf(p)] # Missing => bak[FileOf(p)] # Missing
  BY <1>1, <1>3 DEF Inv, Local, Draft, FillTmp, KeepsPlace, FlagOf, FlagsIn
<1>5. Local(p)'
  BY <1>2, <1>3, <1>4 DEF Local, FillTmp, KeepsPlace
<1>6. DiskOK'
  BY DiskStays DEF FillTmp, KeepsPlace, ghosts
<1>7. \A f \in File \ {FileOf(p)} : tmp'[f] = tmp[f]
  BY DEF FillTmp, Inv, Shape
<1> QED BY <1>1, <1>3, <1>5, <1>6, <1>7, RoundStep DEF FillTmp, KeepsPlace

\* The rename puts the draft in place of the file, which has its backup by now.
LEMMA Moved ==
  ASSUME Inv, NEW p \in Proc, MoveTmp(p)
  PROVE  /\ pc[p] = "move" /\ pc[p] \in InRound /\ Draft(p)
         /\ main' = [main EXCEPT ![FileOf(p)] = text[p]] /\ main' \in [File -> Content]
         /\ stage[p] # "uninstall" /\ main[FileOf(p)] # Missing => bak[FileOf(p)] # Missing
<1>1. pc[p] = "move" /\ pc[p] \in InRound
  BY DEF MoveTmp, Step, InRound
<1>2. /\ Draft(p) /\ tmp[FileOf(p)] = text[p]
      /\ stage[p] # "uninstall" /\ main[FileOf(p)] # Missing => bak[FileOf(p)] # Missing
  BY <1>1 DEF Inv, Local
<1> QED BY <1>1, <1>2 DEF MoveTmp, Inv, Shape

LEMMA MoveTmpKeeps ==
  ASSUME Inv, NEW p \in Proc, MoveTmp(p) PROVE Inv'
<1> DEFINE label == IF stage[p] = "uninstall" THEN "unbak" ELSE "release"
<1>1. label \in InRound /\ Goto(p, label)
  BY DEF MoveTmp, Step, InRound
<1>2. tmp' \in [File -> Content]
  BY DEF MoveTmp, Inv, Shape, Content
<1>3. /\ Shape' /\ pc'[p] = label /\ \A q \in Proc \ {p} : pc'[q] = pc[q]
      /\ FileOf(p)' = FileOf(p) /\ (OnOwn(p)' <=> OnOwn(p))
  BY <1>1, <1>2, Moved, RoundShape DEF MoveTmp, Inv, Shape
<1>4. Local(p)'
  <2>1. stage' = stage /\ main'[FileOf(p)] = text[p]
    BY Moved, InRoundFacts DEF MoveTmp, KeepsPlace, Inv, Shape
  <2>2. stage[p] = "uninstall" => text[p] = Plain
    BY Moved DEF Draft
  <2> QED BY <1>3, <2>1, <2>2 DEF Local
<1>5. DiskOK'
  <2>1. origin' = origin /\ bak' = bak /\ main \in [File -> Content]
    BY DEF MoveTmp, KeepsPlace, ghosts, Inv, Shape
  <2>2. OwnOK'
    <3>1. CASE OnOwn(p)
      <4>1. /\ main'[Own] = text[p] /\ text[p] \in Flags
            /\ main[Own] # Missing => bak[Own] # Missing
        BY <2>1, <3>1, Moved, InRoundFacts DEF Draft, OnOwn, File
      <4>2. text[p] # Missing
        BY <4>1, SourcesAssumption
      <4> QED BY <2>1, <4>1, <4>2, Moved, <3>1, InRoundFacts DEF Inv, DiskOK, OwnOK, OnOwn, Draft
    <3>2. CASE ~OnOwn(p)
      <4>1. main'[Own] = main[Own]
        BY <2>1, <3>2, Moved, InRoundFacts, SourcesAssumption DEF File
      <4> QED BY <2>1, <4>1 DEF Inv, DiskOK, OwnOK
    <3> QED BY <3>1, <3>2
  <2>3. ASSUME NEW s \in Source PROVE SourceOK(s)'
    <3>1. s # Own /\ s \in File /\ SourceOK(s)
      BY SourcesAssumption DEF File, Inv, DiskOK
    <3>2. CASE s # FileOf(p)
      <4>1. main'[s] = main[s]
        BY <2>1, <3>1, <3>2, Moved
      <4> QED BY <2>1, <3>1, <4>1 DEF SourceOK, HasHooks
    <3>3. CASE s = FileOf(p)
      <4>1. main'[s] = text[p] /\ ~OnOwn(p) /\ stage[p] \in {"install", "uninstall"}
        BY <2>1, <3>1, <3>3, Moved, InRoundFacts
      <4>2. CASE stage[p] = "install"
        <5>1. main'[s] \in Cmd /\ (main[s] # Missing => bak[s] # Missing)
          BY <3>3, <4>1, <4>2, Moved, SourcesAssumption DEF Draft
        <5> QED BY <2>1, <3>1, <5>1, SourcesAssumption DEF SourceOK, HasHooks
      <4>3. CASE stage[p] = "uninstall"
        <5>1. main'[s] = Plain
          BY <4>1, <4>3, Moved DEF Draft
        <5> QED BY <2>1, <3>1, <5>1, SourcesAssumption DEF SourceOK, HasHooks
      <4> QED BY <4>1, <4>2, <4>3
    <3> QED BY <3>2, <3>3
  <2> QED BY <2>2, <2>3 DEF DiskOK
<1>6. \A f \in File \ {FileOf(p)} : main'[f] = main[f] /\ tmp'[f] = tmp[f]
  BY DEF MoveTmp, Inv, Shape
<1> QED BY <1>3, <1>4, <1>5, <1>6, Moved, RoundStep DEF MoveTmp, KeepsPlace

\* The backup goes once the file holds no hooks.
LEMMA RemoveBackupKeeps ==
  ASSUME Inv, NEW p \in Proc, RemoveBackup(p) PROVE Inv'
<1>1. pc[p] = "unbak" /\ pc[p] \in InRound /\ "release" \in InRound /\ Goto(p, "release")
  BY DEF RemoveBackup, Step, InRound
<1>2. stage[p] = "uninstall" /\ main[FileOf(p)] = Plain /\ FileOf(p) \in Source
  BY <1>1, InRoundFacts DEF Inv, Local, OnOwn
<1>3. bak' \in [File -> Content]
  BY DEF RemoveBackup, Inv, Shape, Content
<1>4. /\ Shape' /\ pc'[p] = "release" /\ \A q \in Proc \ {p} : pc'[q] = pc[q]
      /\ FileOf(p)' = FileOf(p) /\ (OnOwn(p)' <=> OnOwn(p))
  BY <1>1, <1>3, RoundShape DEF RemoveBackup, Inv, Shape
<1>5. Local(p)'
  BY <1>4 DEF Local
<1>6. \A f \in File \ {FileOf(p)} : bak'[f] = bak[f]
  BY DEF RemoveBackup, Inv, Shape
<1>7. DiskOK'
  <2>1. origin' = origin /\ main' = main /\ bak'[FileOf(p)] = Missing
    BY <1>1, InRoundFacts DEF RemoveBackup, KeepsPlace, ghosts, Inv, Shape
  <2>2. OwnOK'
    BY <1>2, <1>6, <2>1, SourcesAssumption DEF Inv, DiskOK, OwnOK, File
  <2>3. ASSUME NEW s \in Source PROVE SourceOK(s)'
    BY <1>2, <1>6, <2>1, SourcesAssumption DEF Inv, DiskOK, SourceOK, HasHooks, File
  <2> QED BY <2>2, <2>3 DEF DiskOK
<1> QED BY <1>1, <1>4, <1>5, <1>6, <1>7, RoundStep DEF RemoveBackup, KeepsPlace

-----------------------------------------------------------------------------
(* The theorems.                                                           *)

LEMMA InvInit == Init => Inv
<1> SUFFICES ASSUME Init PROVE Inv
  OBVIOUS
<1>1. PICK command \in Command :
        /\ todo = [p \in Proc |-> command[p].items]
        /\ pc = [p \in Proc |-> IF command[p].exact THEN "plan" ELSE "pick"]
  BY DEF Init
<1>2. \A p \in Proc : pc[p] \in {"plan", "pick"} /\ command[p] \in Order
  BY <1>1, SourcesAssumption
<1>3. \A p \in Proc : ~Working(p) /\ pc[p] \notin InRound
  BY <1>2 DEF Working, InRound
<1>4. main \in [File -> Content] /\ bak \in [File -> Content]
  <2>1. main \in [File -> Content]
    BY DEF Init, Content
  <2>2. bak \in [File -> Content]
    BY <2>1 DEF Init, Content
  <2> QED BY <2>1, <2>2
<1>5. todo \in [Proc -> SUBSET Item]
  BY <1>1, <1>2 DEF Order
<1>6. Shape
  BY <1>1, <1>2, <1>3, <1>4, <1>5 DEF Init, Shape, Content, Stage, Flag
<1>7. OwnOK
  BY SourcesAssumption DEF Init, OwnOK, Flags, Flag, File
<1>8. ASSUME NEW s \in Source PROVE SourceOK(s)
  BY SourcesAssumption DEF Init, SourceOK, HasHooks, File
<1> QED BY <1>3, <1>6, <1>7, <1>8 DEF Inv, DiskOK, Held, Local, InRound

LEMMA InvStep == Inv /\ [Next]_vars => Inv'
<1> SUFFICES ASSUME Inv, [Next]_vars PROVE Inv'
  OBVIOUS
<1>1. CASE UNCHANGED vars
  <2>1. Shape'
    BY <1>1 DEF vars, Inv, Shape, Working
  <2>2. DiskOK'
    BY <1>1, DiskStays DEF vars
  <2>3. \A q \in Proc : Undisturbed(q)
    BY <1>1 DEF vars, Undisturbed
  <2>4. \A q \in Proc : Held(q)' /\ Local(q)'
    BY <2>3, OthersKeep DEF Inv
  <2> QED BY <2>1, <2>2, <2>4 DEF Inv
<1>2. ASSUME NEW p \in Proc, Plan(p) \/ TakeUp(p) \/ AllDone(p) \/ TryLock(p)
      PROVE  Inv'
  BY <1>2, PlanKeeps, TakeUpKeeps, AllDoneKeeps, TryLockKeeps
<1>3. ASSUME NEW p \in Proc, Read(p) \/ WriteArtifacts(p) \/ BackupOnce(p) \/ FillBackup(p) \/ MoveBackup(p)
      PROVE  Inv'
  BY <1>3, ReadKeeps, WriteArtifactsKeeps, BackupOnceKeeps, FillBackupKeeps, MoveBackupKeeps
<1>4. ASSUME NEW p \in Proc, CreateTmp(p) \/ FillTmp(p) \/ MoveTmp(p) \/ RemoveBackup(p)
      PROVE  Inv'
  BY <1>4, CreateTmpKeeps, FillTmpKeeps, MoveTmpKeeps, RemoveBackupKeeps
<1>5. ASSUME NEW p \in Proc, Release(p) \/ StepFails(p) \/ Killed(p)
      PROVE  Inv'
  BY <1>5, ReleaseKeeps, StepFailsKeeps, KilledKeeps
<1> QED BY <1>1, <1>2, <1>3, <1>4, <1>5 DEF Next

LEMMA InvAlways == Spec => []Inv
  BY InvInit, InvStep, PTL DEF Spec

\* Files and backups are whole and of the right kind at any time, whatever fails and
\* whoever is killed: write_atomic and backup_once write under another name and rename.
THEOREM WholeFiles == Spec => []TypeOK
<1>1. Inv => TypeOK
  BY DEF Inv, Shape, DiskOK, OwnOK, SourceOK, TypeOK
<1> QED BY <1>1, InvAlways, PTL

\* The user's own configuration is recoverable for as long as ours is in its place.
THEOREM Recoverable == Spec => []RecoveryPath
<1>1. Inv => RecoveryPath
  BY DEF Inv, DiskOK, OwnOK, SourceOK, RecoveryPath
<1> QED BY <1>1, InvAlways, PTL

\* A save touches the flag of its own source and no other: what was read under the lock
\* is what is there when the rename happens.
THEOREM NoLostSave == Spec => OnlyOwnFlag
<1> DEFINE Ours == \A s \in Source :
                     FlagOf(s)' # FlagOf(s) =>
                       \E p \in Proc : OnOwn(p) /\ Working(p) /\ job[p].src = s
<1>1. ASSUME Inv, NEW s \in Source, NEW p \in Proc, MoveTmp(p), FlagOf(s)' # FlagOf(s)
      PROVE  OnOwn(p) /\ Working(p) /\ job[p].src = s
  <2>1. pc[p] \in InRound /\ Draft(p) /\ main' = [main EXCEPT ![FileOf(p)] = text[p]]
    BY <1>1, Moved
  <2>2. OnOwn(p)
    BY <1>1, <2>1, InRoundFacts, SourcesAssumption DEF FlagOf, FlagsIn, Inv, Shape, File
  <2>3. main'[Own] = text[p] /\ text[p] \in Flags
    BY <1>1, <2>1, <2>2, InRoundFacts DEF Draft, Inv, Shape, File
  <2>4. FlagOf(s)' = text[p][s]
    BY <2>3, SourcesAssumption DEF FlagOf, FlagsIn
  <2> QED BY <1>1, <2>1, <2>2, <2>4 DEF Draft, Working
<1>2. ASSUME NEW p \in Proc, main' # main, Next PROVE \E q \in Proc : MoveTmp(q)
  BY <1>2 DEF Next, Plan, TakeUp, AllDone, TryLock, Read, WriteArtifacts, BackupOnce, FillBackup,
              MoveBackup, CreateTmp, FillTmp, RemoveBackup, Release, StepFails, Killed, disk
<1>3. Inv /\ Next => Ours
  BY <1>1, <1>2 DEF FlagOf, FlagsIn, Next
<1>4. UNCHANGED vars => Ours
  BY DEF vars, FlagOf, FlagsIn
<1>5. Inv /\ [Next]_vars => [Ours]_vars
  BY <1>3, <1>4
<1> QED BY <1>5, InvAlways, PTL DEF Spec, OnlyOwnFlag

-----------------------------------------------------------------------------
(* What a command leaves behind, when no other one works on its source.    *)

\* The flag a round on the own configuration is to write.
Goal(p) == IF stage[p] = "restore" THEN prior[p]
           ELSE IF job[p].act = "connect" THEN "on" ELSE "off"

\* The rounds a command goes through, and what it is about to write of its own source.
Course(p) ==
  /\ stage[p] \in {"install", "restore"} => job[p].act = "connect"
  /\ stage[p] = "uninstall" => job[p].act = "disconnect"
  /\ stage[p] # "flag" => job[p].src \in Hooked
  /\ OnOwn(p) /\ pc[p] \in {"backup", "bakfill", "bakmove", "create", "fill", "move"} =>
       text[p][job[p].src] = Goal(p)

\* The flag and the hooks of source s as the rounds of p have left them.
Flagged(p, s) ==
  /\ stage[p] = "flag" => FlagOf(s) = IF pc[p] = "release" THEN Goal(p) ELSE before[p].flag
  /\ stage[p] = "install" => FlagOf(s) = "on"
  /\ stage[p] = "uninstall" => FlagOf(s) = "off"
  /\ stage[p] = "restore" /\ pc[p] = "release" => FlagOf(s) = prior[p]
  /\ prior[p] = before[p].flag \/ job[p].act = "disconnect" \/ s \in marred

Fitted(p, s) ==
  /\ OnOwn(p) => main[s] = before[p].hooks
  /\ stage[p] = "install" => main[s] = IF pc[p] = "release" THEN HookOf[p] ELSE before[p].hooks
  /\ stage[p] = "install" /\ pc[p] \in {"backup", "bakfill", "bakmove", "create", "fill", "move", "release"}
       => plugin[s] = HookOf[p]
  /\ stage[p] = "uninstall" /\ pc[p] = "release" => ~HasHooks(s)
  /\ s \in Hooked \ marred /\ before[p].flag = "on" => before[p].hooks \in Cmd

\* A command under way: alone on its source and on its course, or contested.
Mine(p) ==
  Working(p) =>
    /\ Course(p)
    /\ job[p].src \notin contested =>
         /\ Flagged(p, job[p].src) /\ Fitted(p, job[p].src)
         /\ \A q \in Proc \ {p} : Working(q) => job[q].src # job[p].src

\* A source that nobody works on, and nobody marred.
Settled(s) ==
  s \in Hooked \ (contested \cup marred) /\ (\A p \in Proc : Working(p) => job[p].src # s)
    => (FlagOf(s) = "on" => HasHooks(s))

Outcome == {"connected", "disconnected", "hooks left", "failed"}

\* Every command and every source; and nobody writes hooks for a source without any.
Sole ==
  /\ plugin \in [Source -> Content]
  /\ before \in [Proc -> [flag : Flag, hooks : Content] \cup {None}]
  /\ report \in [Proc -> [Source -> Outcome \cup {None}]]
  /\ \A p \in Proc : Mine(p)
  /\ \A s \in Source : Settled(s)
  /\ \A s \in Source \ Hooked : main[s] = Missing

\* Between the backup and the rename.
Drafting == {"backup", "bakfill", "bakmove", "create", "fill", "move"}

\* A step of p that keeps to its own source: files and places of the others stay.
Aside(p) ==
  /\ \A t \in Source : ~(Working(p) /\ job[p].src = t) =>
       FlagOf(t)' = FlagOf(t) /\ main'[t] = main[t] /\ plugin'[t] = plugin[t]
  /\ \A q \in Proc \ {p} : /\ pc'[q] = pc[q] /\ stage'[q] = stage[q] /\ job'[q] = job[q]
                           /\ prior'[q] = prior[q] /\ text'[q] = text[q] /\ before'[q] = before[q]
  /\ contested \subseteq contested' /\ marred \subseteq marred'

\* A process that starts on a source finds it free, or it is contested from now on.
Enters(p) ==
  Working(p)' => \/ Working(p) /\ job'[p] = job[p]
                 \/ \A q \in Proc \ {p} :
                      Working(q) /\ job[q].src = job'[p].src => job[q].src \in contested'

\* The kinds of what it writes.
Kinds ==
  /\ plugin' \in [Source -> Content]
  /\ before' \in [Proc -> [flag : Flag, hooks : Content] \cup {None}]
  /\ report' \in [Proc -> [Source -> Outcome \cup {None}]]
  /\ \A s \in Source \ Hooked : main'[s] = Missing

\* What the others know of their sources survives a step beside them.
LEMMA OthersStay ==
  ASSUME NEW p \in Proc, NEW q \in Proc \ {p}, Shape, Mine(q), Aside(p), Enters(p)
  PROVE  Mine(q)'
<1> SUFFICES ASSUME Working(q)' PROVE Course(q)' /\ (job[q].src \notin contested' =>
       /\ Flagged(q, job[q].src)' /\ Fitted(q, job[q].src)'
       /\ \A r \in Proc \ {q} : Working(r)' => job'[r].src # job[q].src)
  BY DEF Mine, Aside
<1>1. Working(q) /\ job[q].src \in Source
  BY DEF Aside, Working, Shape, Item
<1>2. Course(q)'
  BY <1>1 DEF Mine, Course, Aside, Goal, OnOwn
<1>3. ASSUME job[q].src \notin contested'
      PROVE  /\ Flagged(q, job[q].src)' /\ Fitted(q, job[q].src)'
             /\ \A r \in Proc \ {q} : Working(r)' => job'[r].src # job[q].src
  <2>1. /\ job[q].src \notin contested /\ Flagged(q, job[q].src) /\ Fitted(q, job[q].src)
        /\ \A r \in Proc \ {q} : Working(r) => job[r].src # job[q].src
    BY <1>1, <1>3 DEF Mine, Aside
  <2>2. /\ FlagOf(job[q].src)' = FlagOf(job[q].src) /\ main'[job[q].src] = main[job[q].src]
        /\ plugin'[job[q].src] = plugin[job[q].src]
    BY <1>1, <2>1 DEF Aside
  <2>3. Flagged(q, job[q].src)'
    BY <2>1, <2>2 DEF Flagged, Aside, Goal
  <2>4. Fitted(q, job[q].src)'
    BY <2>1, <2>2 DEF Fitted, Aside, HasHooks, OnOwn
  <2>5. ASSUME NEW r \in Proc \ {q}, Working(r)' PROVE job'[r].src # job[q].src
    <3>1. CASE r = p
      BY <1>1, <1>3, <2>1, <2>5, <3>1 DEF Enters
    <3>2. CASE r # p
      BY <2>1, <2>5, <3>2 DEF Aside, Working
    <3> QED BY <3>1, <3>2
  <2> QED BY <2>3, <2>4, <2>5
<1> QED BY <1>2, <1>3

\* So a step keeps everything when its process keeps to its own source and its course.
LEMMA Keeping ==
  ASSUME NEW p \in Proc, Shape, Sole, Aside(p), Enters(p), Kinds, Mine(p)',
         \A s \in Source : Working(p) /\ job[p].src = s =>
            (Working(p)' /\ job'[p] = job[p]) \/ Settled(s)'
  PROVE  Sole'
<1>1. \A q \in Proc : Mine(q)'
  BY OthersStay DEF Sole
<1>2. ASSUME NEW s \in Source PROVE Settled(s)'
  <2> SUFFICES ASSUME s \in Hooked \ (contested' \cup marred'),
                      \A q \in Proc : Working(q)' => job'[q].src # s
               PROVE  FlagOf(s)' = "on" => HasHooks(s)'
    BY DEF Settled
  <2>1. \A q \in Proc \ {p} : Working(q) => job[q].src # s
    BY DEF Aside, Working
  <2>2. CASE Working(p) /\ job[p].src = s
    BY <2>2 DEF Settled
  <2>3. CASE ~(Working(p) /\ job[p].src = s)
    <3>1. Settled(s) /\ s \in Hooked \ (contested \cup marred)
      BY DEF Sole, Aside
    <3>2. FlagOf(s) = "on" => HasHooks(s)
      BY <2>1, <2>3, <3>1 DEF Settled
    <3> QED BY <2>3, <3>2 DEF Aside, HasHooks
  <2> QED BY <2>2, <2>3
<1> QED BY <1>1, <1>2 DEF Sole, Kinds

-----------------------------------------------------------------------------
(* Inside a round.                                                         *)

\* A step inside a round that writes neither the files nor the artifacts.
LEMMA InnerQuiet ==
  ASSUME Inv, Sole, NEW p \in Proc, Working(p), NEW label \in InRound \ {"release"}, Goto(p, label),
         KeepsPlace, Kinds,
         \A f \in File : main'[f] = main[f] \/ (stage[p] = "uninstall" /\ f = job[p].src),
         \A t \in Source \ {job[p].src} : plugin'[t] = plugin[t],
         \A q \in Proc \ {p} : text'[q] = text[q],
         pc[p] # "release",
         stage[p] = "install" /\ label \in Drafting =>
            plugin'[job[p].src] = HookOf[p] \/ (pc[p] \in Drafting /\ plugin' = plugin),
         OnOwn(p) /\ label \in Drafting =>
            text'[p][job[p].src] = Goal(p) \/ (pc[p] \in Drafting /\ text'[p] = text[p])
  PROVE  Sole'
<1>1. /\ pc'[p] = label /\ \A q \in Proc \ {p} : pc'[q] = pc[q]
      /\ Working(p)' /\ UNCHANGED <<stage, todo, job, prior, before, contested, marred>>
  BY DEF Goto, KeepsPlace, ghosts, Working, Inv, Shape
<1>2. \A s \in Source : FlagOf(s)' = FlagOf(s)
  <2>1. Working(p) => job[p].src \in Source
    BY DEF Inv, Shape, Item
  <2>2. main'[Own] = main[Own]
    BY <2>1, SourcesAssumption DEF File
  <2> QED BY <2>2 DEF FlagOf, FlagsIn
<1>3. Aside(p)
  BY <1>1, <1>2 DEF Aside, File
<1>4. Mine(p)'
  <2>1. job[p].src \in Source /\ Mine(p) /\ Course(p)
    BY DEF Inv, Shape, Item, Sole, Mine
  <2>2. Course(p)'
    BY <1>1, <2>1 DEF Course, OnOwn, Goal, Drafting
  <2>3. ASSUME job[p].src \notin contested PROVE Flagged(p, job[p].src)' /\ Fitted(p, job[p].src)'
    <3>1. Flagged(p, job[p].src) /\ Fitted(p, job[p].src)
      BY <2>1, <2>3 DEF Mine
    <3>2. Flagged(p, job[p].src)'
      BY <1>1, <1>2, <2>1, <3>1 DEF Flagged, Goal
    <3>3. Fitted(p, job[p].src)'
      BY <1>1, <1>2, <2>1, <3>1 DEF Fitted, Drafting, OnOwn, File, HasHooks
    <3> QED BY <3>2, <3>3
  <2>4. job[p].src \notin contested => \A q \in Proc \ {p} : Working(q)' => job'[q].src # job[p].src
    BY <1>1, <2>1 DEF Mine, Working
  <2> QED BY <1>1, <2>2, <2>3, <2>4 DEF Mine
<1> QED BY <1>1, <1>3, <1>4, Keeping DEF Inv, Enters

\* A step that ends its round, on its course or with its file done.
LEMMA InnerDone ==
  ASSUME Inv, Sole, NEW p \in Proc, NEW s \in Source, s = job[p].src,
         pc[p] \in InRound \ {"release"}, KeepsPlace,
         \A q \in Proc \ {p} : text'[q] = text[q],
         Goto(p, "release"), Kinds,
         \A t \in Source \ {s} :
            FlagOf(t)' = FlagOf(t) /\ main'[t] = main[t] /\ plugin'[t] = plugin[t],
         OnOwn(p) => FlagOf(s)' = Goal(p) /\ main'[s] = main[s],
         ~OnOwn(p) => FlagOf(s)' = FlagOf(s),
         stage[p] = "install" =>
            main'[s] = HookOf[p] /\ (plugin'[s] = HookOf[p] \/ (pc[p] \in Drafting /\ plugin' = plugin)),
         stage[p] = "uninstall" => main'[s] \notin Cmd
  PROVE  Sole'
<1>1. /\ pc'[p] = "release" /\ \A q \in Proc \ {p} : pc'[q] = pc[q]
      /\ Working(p) /\ Working(p)' /\ UNCHANGED <<stage, todo, job, prior, before, contested, marred>>
  BY DEF Goto, KeepsPlace, ghosts, Working, InRound, Inv, Shape
<1>2. Aside(p)
  BY <1>1 DEF Aside
<1>3. Mine(p)'
  <2>1. job[p].src \in Source /\ Mine(p) /\ Course(p)
    BY <1>1 DEF Inv, Shape, Item, Sole, Mine
  <2>2. Course(p)'
    BY <1>1, <2>1 DEF Course
  <2>3. ASSUME job[p].src \notin contested PROVE Flagged(p, job[p].src)' /\ Fitted(p, job[p].src)'
    <3>1. Flagged(p, job[p].src) /\ Fitted(p, job[p].src)
      BY <1>1, <2>1, <2>3 DEF Mine
    <3>2. Flagged(p, job[p].src)'
      BY <1>1, <2>1, <3>1 DEF Flagged, Goal, OnOwn
    <3>3. Fitted(p, job[p].src)'
      BY <1>1, <2>1, <3>1 DEF Fitted, OnOwn, HasHooks, Drafting
    <3> QED BY <3>2, <3>3
  <2>4. job[p].src \notin contested => \A q \in Proc \ {p} : Working(q)' => job'[q].src # job[p].src
    BY <1>1, <2>1 DEF Mine, Working
  <2> QED BY <1>1, <2>2, <2>3, <2>4 DEF Mine
<1> QED BY <1>1, <1>2, <1>3, Keeping DEF Inv, Enters

LEMMA ReadSole ==
  ASSUME Inv, Sole, NEW p \in Proc, Read(p) PROVE Sole'
<1> DEFINE label == CASE OnOwn(p) -> "backup"
                      [] stage[p] = "install"   -> "plugin"
                      [] stage[p] = "uninstall" ->
                           IF main[job[p].src] = Plain THEN "release" ELSE "create"
<1>1. pc[p] \in InRound /\ pc[p] = "read" /\ Working(p) /\ Goto(p, label) /\ KeepsPlace
      /\ UNCHANGED <<main, plugin>>
  BY DEF Read, InRound, Working, disk
<1>2. /\ OnOwn(p) => label = "backup"
      /\ stage[p] = "install" => label = "plugin"
      /\ stage[p] = "uninstall" => label \in {"release", "create"} /\ (label = "release" => main[job[p].src] = Plain)
      /\ label \in InRound /\ job[p].src \in Source /\ prior[p] \in Flag
  BY <1>1, InRoundFacts DEF OnOwn, InRound, Inv, Shape
<1>3. /\ \A q \in Proc \ {p} : text'[q] = text[q]
      /\ OnOwn(p) => text'[p][job[p].src] = Goal(p)
  <2>1. text' = [text EXCEPT ![p] = Merged(p)]
    BY DEF Read
  <2>2. FlagsIn(main[Own]) \in Flags
    BY SourcesAssumption DEF Inv, DiskOK, OwnOK, FlagsIn, Flags, Flag
  <2>3. OnOwn(p) => Merged(p)[job[p].src] = Goal(p)
    BY <1>2, <2>2 DEF Merged, Goal, OnOwn, Flags
  <2> QED BY <2>1, <2>3 DEF Inv, Shape
<1>4. \A s \in Source : FlagOf(s)' = FlagOf(s)
  BY <1>1 DEF FlagOf, FlagsIn
<1>5. CASE label = "release"
  <2>1. stage[p] = "uninstall" /\ main[job[p].src] = Plain /\ ~OnOwn(p)
    BY <1>1, <1>2, <1>5, InRoundFacts DEF OnOwn
  <2>2. Plain \notin Cmd /\ Kinds
    BY <1>1, SourcesAssumption DEF Kinds, Sole, KeepsPlace, ghosts
  <2>3. Goto(p, "release") /\ pc[p] \in InRound \ {"release"} /\ job[p].src \in Source
    BY <1>1, <1>2, <1>5
  <2> HIDE DEF label
  <2> QED BY <1>1, <1>3, <1>4, <2>1, <2>2, <2>3, InnerDone
<1>6. CASE label # "release"
  <2> HIDE DEF label
  <2>1. stage[p] = "install" => label \notin Drafting
    BY <1>2 DEF Drafting
  <2>2. Kinds
    BY <1>1 DEF Kinds, Sole, KeepsPlace, ghosts
  <2> QED BY <1>1, <1>2, <1>3, <1>6, <2>1, <2>2, InnerQuiet
<1> QED BY <1>5, <1>6

LEMMA WriteArtifactsSole ==
  ASSUME Inv, Sole, NEW p \in Proc, WriteArtifacts(p) PROVE Sole'
<1>1. /\ pc[p] = "plugin" /\ pc[p] \in InRound \ {"release"} /\ Working(p) /\ KeepsPlace
      /\ UNCHANGED <<main, text>> /\ plugin' = [plugin EXCEPT ![job[p].src] = HookOf[p]]
  BY DEF WriteArtifacts, InRound, Working
<1>2. job[p].src \in Source /\ stage[p] = "install" /\ text[p] = HookOf[p] /\ ~OnOwn(p)
  BY <1>1, InRoundFacts DEF Inv, Local, Draft, OnOwn
<1>3. /\ Kinds /\ \A t \in Source \ {job[p].src} : plugin'[t] = plugin[t]
      /\ plugin'[job[p].src] = HookOf[p] /\ \A s \in Source : FlagOf(s)' = FlagOf(s)
  BY <1>1, <1>2, SourcesAssumption DEF Kinds, Sole, KeepsPlace, ghosts, Content, FlagOf, FlagsIn
<1>4. CASE main[job[p].src] = text[p]
  <2>1. Goto(p, "release")
    BY <1>4 DEF WriteArtifacts
  <2> QED BY <1>1, <1>2, <1>3, <1>4, <2>1, InnerDone
<1>5. CASE main[job[p].src] # text[p]
  <2>1. Goto(p, "backup") /\ "backup" \in InRound \ {"release"}
    BY <1>5 DEF WriteArtifacts, InRound
  <2> QED BY <1>1, <1>2, <1>3, <2>1, InnerQuiet
<1> QED BY <1>4, <1>5

\* The steps that only write the backup and the temporary files.
LEMMA AsideSole ==
  ASSUME Inv, Sole, NEW p \in Proc,
         BackupOnce(p) \/ FillBackup(p) \/ MoveBackup(p) \/ CreateTmp(p) \/ FillTmp(p)
  PROVE  Sole'
<1>1. /\ pc[p] \in Drafting /\ pc[p] # "release" /\ Working(p) /\ KeepsPlace
      /\ UNCHANGED <<main, text, plugin>>
  BY DEF BackupOnce, FillBackup, MoveBackup, CreateTmp, FillTmp, Step, Drafting, Working, InRound
<1>2. PICK label \in Drafting : Goto(p, label)
  BY DEF BackupOnce, FillBackup, MoveBackup, CreateTmp, FillTmp, Step, Drafting
<1>3. label \in InRound \ {"release"} /\ Kinds
  BY <1>1 DEF Drafting, InRound, Kinds, Sole, KeepsPlace, ghosts
<1> QED BY <1>1, <1>2, <1>3, InnerQuiet

LEMMA MoveTmpSole ==
  ASSUME Inv, Sole, NEW p \in Proc, MoveTmp(p) PROVE Sole'
<1>1. /\ pc[p] = "move" /\ pc[p] \in InRound \ {"release"} /\ Working(p) /\ KeepsPlace /\ Draft(p)
      /\ main' = [main EXCEPT ![FileOf(p)] = text[p]] /\ UNCHANGED <<text, plugin>>
  BY Moved DEF MoveTmp, Working
<1>2. /\ job[p].src \in Source /\ FileOf(p) \in File /\ main \in [File -> Content]
      /\ OnOwn(p) => FileOf(p) = Own
      /\ ~OnOwn(p) => FileOf(p) = job[p].src /\ stage[p] \in {"install", "uninstall"}
      /\ Own \notin Source /\ Own \in File /\ Source \subseteq File
  BY <1>1, InRoundFacts, SourcesAssumption DEF Inv, Shape, File
<1>3. Course(p) /\ text[p] \in Content
  BY <1>1 DEF Sole, Mine, Inv, Shape
<1>4. /\ OnOwn(p) => \A s \in Source : main'[s] = main[s]
      /\ ~OnOwn(p) => main'[Own] = main[Own] /\ main'[job[p].src] = text[p]
      /\ \A s \in Source \ {job[p].src} : main'[s] = main[s]
  BY <1>1, <1>2
<1>5. Kinds
  <2>1. \A s \in Source \ Hooked : main'[s] = main[s]
    BY <1>2, <1>3, <1>4 DEF Course
  <2> QED BY <1>1, <2>1 DEF Kinds, Sole, KeepsPlace, ghosts
<1>6. \A s \in Source \ {job[p].src} : FlagOf(s)' = FlagOf(s)
  <2>1. CASE OnOwn(p)
    <3>1. main'[Own] = text[p] /\ text[p] \in Flags
      BY <1>1, <1>2, <2>1 DEF Draft
    <3> QED BY <1>1, <2>1, <3>1, SourcesAssumption DEF FlagOf, FlagsIn, Draft
  <2>2. CASE ~OnOwn(p)
    BY <1>4, <2>2 DEF FlagOf, FlagsIn
  <2> QED BY <2>1, <2>2
<1>7. OnOwn(p) => FlagOf(job[p].src)' = Goal(p)
  <2> SUFFICES ASSUME OnOwn(p) PROVE FlagOf(job[p].src)' = Goal(p)
    OBVIOUS
  <2>1. main'[Own] = text[p] /\ text[p] \in Flags /\ job' = job
    BY <1>1, <1>2 DEF Draft, KeepsPlace
  <2>2. text[p][job[p].src] = Goal(p)
    BY <1>1, <1>3 DEF Course
  <2> QED BY <2>1, <2>2, SourcesAssumption DEF FlagOf, FlagsIn
<1>8. ~OnOwn(p) => FlagOf(job[p].src)' = FlagOf(job[p].src)
  BY <1>1, <1>4 DEF FlagOf, FlagsIn, KeepsPlace
<1>9. CASE stage[p] = "uninstall"
  <2>1. Goto(p, "unbak") /\ "unbak" \in InRound \ {"release"} /\ ~OnOwn(p) /\ "unbak" \notin Drafting
    BY <1>9 DEF MoveTmp, Step, InRound, OnOwn, Drafting
  <2>2. \A f \in File : main'[f] = main[f] \/ (stage[p] = "uninstall" /\ f = job[p].src)
    BY <1>4, <1>9, <2>1 DEF File
  <2> QED BY <1>1, <1>5, <1>9, <2>1, <2>2, InnerQuiet
<1>10. CASE stage[p] # "uninstall"
  <2>1. Goto(p, "release") /\ job' = job
    BY <1>1, <1>10 DEF MoveTmp, Step, KeepsPlace
  <2>2. stage[p] = "install" => /\ ~OnOwn(p) /\ main'[job[p].src] = HookOf[p]
    BY <1>1, <1>4 DEF OnOwn, Draft
  <2>3. pc[p] \in Drafting /\ plugin' = plugin
    BY <1>1 DEF Drafting
  <2> QED BY <1>1, <1>2, <1>4, <1>5, <1>6, <1>7, <1>8, <1>10, <2>1, <2>2, <2>3, InnerDone
<1> QED BY <1>9, <1>10

LEMMA RemoveBackupSole ==
  ASSUME Inv, Sole, NEW p \in Proc, RemoveBackup(p) PROVE Sole'
<1>1. /\ pc[p] = "unbak" /\ pc[p] \in InRound \ {"release"} /\ Goto(p, "release") /\ KeepsPlace
      /\ UNCHANGED <<main, plugin, text>>
  BY DEF RemoveBackup, Step, InRound
<1>2. /\ stage[p] = "uninstall" /\ ~OnOwn(p) /\ job[p].src \in Source
      /\ main[job[p].src] = Plain /\ Plain \notin Cmd
  BY <1>1, InRoundFacts, SourcesAssumption DEF Inv, Local, OnOwn
<1>3. Kinds /\ \A s \in Source : FlagOf(s)' = FlagOf(s)
  BY <1>1 DEF Kinds, Sole, KeepsPlace, ghosts, FlagOf, FlagsIn
<1> QED BY <1>1, <1>2, <1>3, InnerDone

-----------------------------------------------------------------------------
(* Where a round is left.                                                  *)

\* What a return leaves alone; whom a lock is taken from does not matter here.
Parting(p) ==
  /\ UNCHANGED <<main, plugin, job, prior, before, contested>> /\ marred \subseteq marred'
  /\ text' = [text EXCEPT ![p] = None]

LEMMA PartingAside ==
  ASSUME Inv, Sole, NEW p \in Proc, Parting(p), NEW label, NEW next,
         pc' = [pc EXCEPT ![p] = label], stage' = [stage EXCEPT ![p] = next]
  PROVE  /\ Aside(p) /\ pc'[p] = label /\ stage'[p] = next
         /\ \A s \in Source : FlagOf(s)' = FlagOf(s) /\ (HasHooks(s)' <=> HasHooks(s))
<1>1. \A s \in Source : FlagOf(s)' = FlagOf(s) /\ (HasHooks(s)' <=> HasHooks(s))
  BY DEF Parting, FlagOf, FlagsIn, HasHooks
<1> QED BY <1>1 DEF Aside, Parting, Inv, Shape

\* On to the next round, with the flag and the hooks as that round expects them.
LEMMA EnterSole ==
  ASSUME Inv, Sole, NEW p \in Proc, NEW s \in Source, s = job[p].src, Working(p), Parting(p),
         NEW next \in {"install", "restore", "uninstall"}, s \in Hooked,
         stage' = [stage EXCEPT ![p] = next], pc' = [pc EXCEPT ![p] = "lock"], UNCHANGED report,
         next \in {"install", "restore"} => job[p].act = "connect",
         next = "uninstall" => job[p].act = "disconnect",
         s \notin contested =>
            /\ next = "install" => FlagOf(s) = "on"
            /\ next = "uninstall" => FlagOf(s) = "off"
            /\ next \in {"install", "restore"} => main[s] = before[p].hooks
  PROVE  Sole'
<1>1. /\ Aside(p) /\ pc'[p] = "lock" /\ stage'[p] = next
      /\ \A t \in Source : FlagOf(t)' = FlagOf(t) /\ (HasHooks(t)' <=> HasHooks(t))
  BY PartingAside
<1>2. Mine(p)'
  <2>1. Course(p)'
    BY <1>1 DEF Parting, Course, OnOwn
  <2>2. ASSUME s \notin contested
        PROVE  /\ Flagged(p, s)' /\ Fitted(p, s)'
               /\ \A q \in Proc \ {p} : Working(q)' => job'[q].src # s
    <3>1. /\ Flagged(p, s) /\ Fitted(p, s)
          /\ \A q \in Proc \ {p} : Working(q) => job[q].src # s
      BY <2>2 DEF Sole, Mine
    <3>2. Flagged(p, s)'
      BY <1>1, <2>2, <3>1 DEF Flagged, Parting
    <3>3. Fitted(p, s)'
      BY <1>1, <2>2, <3>1 DEF Fitted, Parting, OnOwn
    <3>4. \A q \in Proc \ {p} : Working(q)' => job'[q].src # s
      BY <1>1, <3>1 DEF Aside, Working
    <3> QED BY <3>2, <3>3, <3>4
  <2> QED BY <2>1, <2>2 DEF Mine, Parting
<1>3. Kinds /\ Working(p)' /\ job' = job
  BY <1>1 DEF Kinds, Sole, Parting, Working
<1> QED BY <1>1, <1>2, <1>3, Keeping DEF Inv, Enters

\* The user is told the truth, and what holds then holds on.
Told(p) == \A s \in Source :
  report'[p][s] # report[p][s] /\ s \notin contested' => Holds(p, s, report[p][s])'

LEMMA TellSole ==
  ASSUME Inv, Sole, NEW p \in Proc, NEW s \in Source, s = job[p].src, Working(p), Parting(p),
         NEW outcome \in Outcome, Tell(p, outcome),
         s \notin contested => Holds(p, s, outcome)'
  PROVE  Sole' /\ Told(p) /\ \A q \in Proc \ {p} : report'[q] = report[q]
<1>1. /\ pc' = [pc EXCEPT ![p] = "pick"] /\ stage' = stage
      /\ report' = [report EXCEPT ![p] = [report[p] EXCEPT ![s] = outcome]]
  BY DEF Tell
<1>2. /\ Aside(p) /\ pc'[p] = "pick"
      /\ \A t \in Source : FlagOf(t)' = FlagOf(t) /\ (HasHooks(t)' <=> HasHooks(t))
  <2>1. stage' = [stage EXCEPT ![p] = stage[p]]
    BY <1>1 DEF Inv, Shape
  <2> QED BY <1>1, <2>1, PartingAside
<1>3. ~Working(p)'
  BY <1>2 DEF Working, InRound
<1>4. Mine(p)' /\ Enters(p)
  BY <1>3 DEF Mine, Enters
<1>5. /\ report' \in [Proc -> [Source -> Outcome \cup {None}]] /\ \A q \in Proc \ {p} : report'[q] = report[q]
      /\ report'[p][s] = outcome /\ \A t \in Source \ {s} : report'[p][t] = report[p][t]
  BY <1>1 DEF Sole
<1>6. Kinds
  BY <1>5 DEF Kinds, Sole, Parting
<1>7. Settled(s)'
  <2> SUFFICES ASSUME s \in Hooked \ (contested' \cup marred'), FlagOf(s)' = "on"
               PROVE  HasHooks(s)'
    BY DEF Settled
  <2>1. Holds(p, s, outcome)' /\ s \notin contested /\ s \notin marred
    BY DEF Parting
  <2>2. CASE outcome = "connected"
    BY <2>1, <2>2, SourcesAssumption DEF Holds, HasHooks
  <2>3. CASE outcome \in {"disconnected", "hooks left"}
    BY <2>1, <2>3 DEF Holds
  <2>4. CASE outcome = "failed"
    <3>1. main'[s] = before[p].hooks /\ before[p].flag = "on"
      BY <2>1, <2>4 DEF Holds, Parting
    <3> QED BY <2>1, <3>1 DEF Sole, Mine, Fitted, HasHooks
  <2> QED BY <2>2, <2>3, <2>4 DEF Outcome
<1>8. Sole'
  BY <1>2, <1>4, <1>6, <1>7, Keeping DEF Inv
<1>9. Told(p)
  BY <1>5 DEF Told, Parting
<1> QED BY <1>5, <1>8, <1>9

\* A round that succeeded has come to its end, or had nothing to remove; one that failed
\* had not.
LEMMA ReturnSole ==
  ASSUME Inv, Sole, NEW p \in Proc, NEW ok \in BOOLEAN, Working(p), Return(p, ok),
         UNCHANGED <<main, plugin>>,
         ok => pc[p] = "release" \/ (stage[p] = "uninstall" /\ main[job[p].src] = Missing),
         ~ok => pc[p] # "release"
  PROVE  Sole' /\ Told(p) /\ \A q \in Proc \ {p} : report'[q] = report[q]
<1>1. PICK s \in Source : s = job[p].src /\ Course(p)
  BY DEF Inv, Shape, Item, Sole, Mine
<1>2. ASSUME s \notin contested PROVE Flagged(p, s) /\ Fitted(p, s)
  BY <1>1, <1>2 DEF Sole, Mine
<1>3. Parting(p)
  BY DEF Return, ConnectReturns, DisconnectReturns, Enter, Parting
<1>4. \A t \in Source : FlagOf(t)' = FlagOf(t) /\ (HasHooks(t)' <=> HasHooks(t))
  BY DEF FlagOf, FlagsIn, HasHooks
<1>5. ASSUME UNCHANGED report, Sole' PROVE Told(p)
  BY <1>5 DEF Told
<1>6. CASE job[p].act = "connect" /\ ConnectReturns(p, ok)
  <2>1. CASE stage[p] = "flag" /\ ok /\ s \in Hooked /\ Enter(p, "install")
    <3>1. s \notin contested => FlagOf(s) = "on" /\ main[s] = before[p].hooks
      BY <1>1, <1>2, <1>6, <2>1 DEF Flagged, Fitted, Goal, OnOwn
    <3>2. Sole'
      BY <1>1, <1>3, <1>6, <2>1, <3>1, EnterSole DEF Enter
    <3> QED BY <1>5, <2>1, <3>2 DEF Enter
  <2>2. CASE stage[p] = "flag" /\ ok /\ s \notin Hooked /\ Tell(p, "connected")
    <3>1. s \notin contested => FlagOf(s) = "on"
      BY <1>1, <1>2, <1>6, <2>2 DEF Flagged, Goal
    <3>2. s \notin contested => Holds(p, s, "connected")'
      BY <1>1, <1>4, <2>2, <3>1 DEF Holds
    <3> QED BY <1>1, <1>3, <2>2, <3>2, TellSole DEF Outcome
  <2>3. CASE stage[p] = "flag" /\ ~ok /\ Tell(p, "failed")
    <3>1. s \notin contested => FlagOf(s) = before[p].flag /\ main[s] = before[p].hooks
      BY <1>1, <1>2, <2>3 DEF Flagged, Fitted, OnOwn
    <3>2. s \notin contested => Holds(p, s, "failed")'
      BY <1>1, <1>3, <1>4, <2>3, <3>1 DEF Holds, Parting
    <3> QED BY <1>1, <1>3, <2>3, <3>2, TellSole DEF Outcome
  <2>4. CASE stage[p] = "install" /\ ok /\ Tell(p, "connected")
    <3>1. s \notin contested => FlagOf(s) = "on" /\ main[s] = HookOf[p] /\ plugin[s] = HookOf[p]
      BY <1>1, <1>2, <2>4 DEF Flagged, Fitted
    <3>2. s \notin contested => Holds(p, s, "connected")'
      BY <1>1, <1>3, <1>4, <3>1 DEF Holds, Parting
    <3> QED BY <1>1, <1>3, <2>4, <3>2, TellSole DEF Outcome
  <2>5. CASE stage[p] = "install" /\ ~ok /\ Enter(p, "restore")
    <3>1. s \notin contested => main[s] = before[p].hooks
      BY <1>1, <1>2, <2>5 DEF Fitted
    <3>2. Sole' 
      BY <1>1, <1>3, <1>6, <2>5, <3>1, EnterSole DEF Enter, Course
    <3> QED BY <1>5, <2>5, <3>2 DEF Enter
  <2>6. CASE /\ stage[p] = "restore" /\ Tell(p, "failed")
             /\ marred' = IF ok THEN marred ELSE marred \cup {s}
    <3>1. s \notin contested => /\ main[s] = before[p].hooks
                               /\ (s \in marred' \/ FlagOf(s) = before[p].flag)
      BY <1>1, <1>2, <1>6, <2>6 DEF Flagged, Fitted, OnOwn
    <3>2. s \notin contested => Holds(p, s, "failed")'
      BY <1>1, <1>3, <1>4, <3>1 DEF Holds, Parting
    <3> QED BY <1>1, <1>3, <2>6, <3>2, TellSole DEF Outcome
  <2> QED BY <1>1, <1>6, <2>1, <2>2, <2>3, <2>4, <2>5, <2>6 DEF ConnectReturns
<1>7. CASE job[p].act = "disconnect" /\ DisconnectReturns(p, ok)
  <2>1. CASE /\ stage[p] = "flag" /\ ok /\ s \in Hooked /\ stage' = [stage EXCEPT ![p] = "uninstall"]
             /\ pc' = [pc EXCEPT ![p] = "lock"] /\ UNCHANGED report
    <3>1. s \notin contested => FlagOf(s) = "off"
      BY <1>1, <1>2, <1>7, <2>1 DEF Flagged, Goal
    <3>2. Sole'
      BY <1>1, <1>3, <1>7, <2>1, <3>1, EnterSole
    <3> QED BY <1>5, <2>1, <3>2
  <2>2. CASE stage[p] = "flag" /\ ok /\ s \notin Hooked /\ Tell(p, "disconnected")
    <3>1. s \notin contested => FlagOf(s) = "off"
      BY <1>1, <1>2, <1>7, <2>2 DEF Flagged, Goal
    <3>2. ~HasHooks(s)
      BY <1>1, <2>2, SourcesAssumption DEF Sole, HasHooks
    <3>3. s \notin contested => Holds(p, s, "disconnected")'
      BY <1>1, <1>4, <3>1, <3>2 DEF Holds
    <3> QED BY <1>1, <1>3, <2>2, <3>3, TellSole DEF Outcome
  <2>3. CASE stage[p] = "flag" /\ ~ok /\ Tell(p, "failed")
    <3>1. s \notin contested => FlagOf(s) = before[p].flag /\ main[s] = before[p].hooks
      BY <1>1, <1>2, <2>3 DEF Flagged, Fitted, OnOwn
    <3>2. s \notin contested => Holds(p, s, "failed")'
      BY <1>1, <1>3, <1>4, <2>3, <3>1 DEF Holds, Parting
    <3> QED BY <1>1, <1>3, <2>3, <3>2, TellSole DEF Outcome
  <2>4. CASE stage[p] = "uninstall" /\ ok /\ Tell(p, "disconnected")
    <3>1. s \notin contested => FlagOf(s) = "off" /\ ~HasHooks(s)
      BY <1>1, <1>2, <2>4, SourcesAssumption DEF Flagged, Fitted, HasHooks
    <3>2. s \notin contested => Holds(p, s, "disconnected")'
      BY <1>1, <1>4, <3>1 DEF Holds
    <3> QED BY <1>1, <1>3, <2>4, <3>2, TellSole DEF Outcome
  <2>5. CASE stage[p] = "uninstall" /\ ~ok /\ Tell(p, "hooks left")
    <3>1. s \notin contested => FlagOf(s) = "off"
      BY <1>1, <1>2, <2>5 DEF Flagged
    <3>2. s \notin contested => Holds(p, s, "hooks left")'
      BY <1>1, <1>4, <3>1 DEF Holds
    <3> QED BY <1>1, <1>3, <2>5, <3>2, TellSole DEF Outcome
  <2> QED BY <1>1, <1>7, <2>1, <2>2, <2>3, <2>4, <2>5 DEF DisconnectReturns
<1> QED BY <1>6, <1>7 DEF Return

LEMMA LeavingSole ==
  ASSUME Inv, Sole, NEW p \in Proc, Release(p) \/ StepFails(p)
  PROVE  Sole' /\ Told(p) /\ \A q \in Proc \ {p} : report'[q] = report[q]
<1>1. CASE Release(p)
  <2>1. /\ pc[p] = "release" /\ Working(p) /\ Return(p, TRUE) /\ UNCHANGED <<main, plugin>>
        /\ TRUE \in BOOLEAN
    BY <1>1 DEF Release, Working, InRound
  <2> QED BY <2>1, ReturnSole
<1>2. CASE StepFails(p)
  <2>1. /\ pc[p] # "release" /\ Working(p) /\ Return(p, FALSE) /\ UNCHANGED <<main, plugin>>
        /\ FALSE \in BOOLEAN
    BY <1>2 DEF StepFails, Working
  <2> QED BY <2>1, ReturnSole
<1> QED BY <1>1, <1>2

LEMMA TryLockSole ==
  ASSUME Inv, Sole, NEW p \in Proc, TryLock(p)
  PROVE  Sole' /\ Told(p) /\ \A q \in Proc \ {p} : report'[q] = report[q]
<1>1. pc[p] = "lock" /\ Working(p) /\ UNCHANGED <<main, plugin>> /\ TRUE \in BOOLEAN /\ FALSE \in BOOLEAN
  BY DEF TryLock, Working
<1>2. CASE stage[p] = "uninstall" /\ main[FileOf(p)] = Missing /\ Return(p, TRUE)
  <2>1. main[job[p].src] = Missing
    BY <1>2 DEF FileOf, OnOwn
  <2> QED BY <1>1, <1>2, <2>1, ReturnSole
<1>3. CASE Return(p, FALSE)
  BY <1>1, <1>3, ReturnSole
<1>4. CASE Goto(p, "read") /\ KeepsPlace /\ UNCHANGED text
  <2>1. "read" \in InRound \ {"release"} /\ "read" \notin Drafting /\ Kinds
    BY <1>1, <1>4 DEF InRound, Drafting, Kinds, Sole, KeepsPlace, ghosts
  <2>2. Sole'
    BY <1>1, <1>4, <2>1, InnerQuiet
  <2> QED BY <1>4, <2>2 DEF KeepsPlace, Told
<1> QED BY <1>2, <1>3, <1>4 DEF TryLock

\* Between items, and when a process is killed: it works on nothing any more.
LEMMA IdleSole ==
  ASSUME Inv, Sole, NEW p \in Proc, Plan(p) \/ AllDone(p) \/ Killed(p)
  PROVE  Sole' /\ report' = report
<1>1. /\ ~Working(p)' /\ UNCHANGED <<main, plugin, stage, job, prior, before, contested, report>>
      /\ \A q \in Proc \ {p} : pc'[q] = pc[q] /\ text'[q] = text[q]
      /\ marred \subseteq marred' /\ (Working(p) => job[p].src \in marred')
  <2>1. CASE Plan(p)
    BY <2>1 DEF Plan, Working, InRound, disk, ghosts, Inv, Shape
  <2>2. CASE AllDone(p)
    BY <2>2 DEF AllDone, Working, InRound, disk, ghosts, Inv, Shape
  <2>3. CASE Killed(p)
    BY <2>3 DEF Killed, Goto, Working, InRound, Inv, Shape
  <2> QED BY <2>1, <2>2, <2>3
<1>2. Aside(p) /\ Kinds
  BY <1>1 DEF Aside, Kinds, Sole, FlagOf, FlagsIn
<1>3. Mine(p)' /\ Enters(p)
  BY <1>1 DEF Mine, Enters
<1>4. \A s \in Source : Working(p) /\ job[p].src = s => Settled(s)'
  BY <1>1 DEF Settled
<1> QED BY <1>1, <1>2, <1>3, <1>4, Keeping DEF Inv

LEMMA TakeUpSole ==
  ASSUME Inv, Sole, NEW p \in Proc, TakeUp(p) PROVE Sole' /\ report' = report
<1>1. PICK i \in todo[p] :
        /\ job' = [job EXCEPT ![p] = i]
        /\ before' = [before EXCEPT ![p] = [flag |-> FlagOf(i.src), hooks |-> main[i.src]]]
        /\ contested' = IF \E q \in Proc \ {p} : Working(q) /\ job[q].src = i.src
                          THEN contested \cup {i.src} ELSE contested
        /\ \/ prior' = [prior EXCEPT ![p] = FlagOf(i.src)] /\ marred' = marred
           \/ prior' = [prior EXCEPT ![p] = "absent"] /\ marred' = marred \cup {i.src}
  BY DEF TakeUp
<1>2. i \in Item /\ i.src \in Source /\ i.src \in File
  BY DEF Inv, Shape, Item, File
<1>3. FlagOf(i.src) \in Flag /\ main[i.src] \in Content
  BY <1>2, SourcesAssumption DEF Inv, DiskOK, OwnOK, FlagOf, FlagsIn, Flags, Flag, Shape
<1>4. /\ ~Working(p) /\ UNCHANGED <<main, plugin, report, text>>
      /\ pc' = [pc EXCEPT ![p] = "lock"] /\ stage' = [stage EXCEPT ![p] = "flag"]
  BY DEF TakeUp, Working, InRound, disk
<1>5. /\ pc'[p] = "lock" /\ stage'[p] = "flag" /\ job'[p] = i
      /\ before'[p].flag = FlagOf(i.src) /\ before'[p].hooks = main[i.src]
      /\ prior'[p] = FlagOf(i.src) \/ i.src \in marred'
      /\ contested \subseteq contested' /\ marred \subseteq marred'
  BY <1>1, <1>4 DEF Inv, Shape, Sole
<1>6. \A s \in Source : FlagOf(s)' = FlagOf(s)
  BY <1>4 DEF FlagOf, FlagsIn
<1>7. Kinds
  BY <1>1, <1>3, <1>4 DEF Kinds, Sole
<1>8. \A q \in Proc \ {p} : /\ pc'[q] = pc[q] /\ stage'[q] = stage[q] /\ job'[q] = job[q]
                             /\ prior'[q] = prior[q] /\ before'[q] = before[q]
  BY <1>1, <1>4 DEF Inv, Shape, Sole
<1>9. Aside(p)
  BY <1>4, <1>5, <1>6, <1>8 DEF Aside
<1>10. Enters(p)
  BY <1>1, <1>5 DEF Enters
<1>11. Mine(p)'
  <2>1. Course(p)'
    BY <1>5 DEF Course, OnOwn
  <2>2. ASSUME i.src \notin contested'
        PROVE  /\ Flagged(p, i.src)' /\ Fitted(p, i.src)'
               /\ \A q \in Proc \ {p} : Working(q)' => job'[q].src # i.src
    <3>1. \A q \in Proc \ {p} : Working(q) => job[q].src # i.src
      BY <1>1, <2>2
    <3>2. i.src \in Hooked \ marred => (FlagOf(i.src) = "on" => main[i.src] \in Cmd)
      BY <1>2, <1>4, <1>5, <2>2, <3>1 DEF Sole, Settled, HasHooks
    <3>3. Flagged(p, i.src)'
      BY <1>1, <1>2, <1>5, <1>6 DEF Flagged
    <3>4. Fitted(p, i.src)'
      BY <1>2, <1>4, <1>5, <3>2 DEF Fitted, OnOwn
    <3>5. \A q \in Proc \ {p} : Working(q)' => job'[q].src # i.src
      BY <1>8, <3>1 DEF Working
    <3> QED BY <3>3, <3>4, <3>5
  <2> QED BY <1>5, <2>1, <2>2 DEF Mine
<1> QED BY <1>4, <1>7, <1>9, <1>10, <1>11, Keeping DEF Inv

-----------------------------------------------------------------------------
(* The theorems about outcomes.                                            *)

LEMMA SoleInit == Init => Sole
<1> SUFFICES ASSUME Init PROVE Sole
  OBVIOUS
<1>1. \A p \in Proc : ~Working(p)
  <2>1. PICK command \in Command : pc = [p \in Proc |-> IF command[p].exact THEN "plan" ELSE "pick"]
    BY DEF Init
  <2> QED BY <2>1 DEF Working, InRound
<1>2. \A s \in Source : s \in File /\ main[s] \in Content
  BY InvInit DEF Inv, Shape, File
<1>3. plugin \in [Source -> Content]
  BY <1>2 DEF Init, Content
<1>4. /\ before \in [Proc -> [flag : Flag, hooks : Content] \cup {None}]
      /\ report \in [Proc -> [Source -> Outcome \cup {None}]]
  BY DEF Init
<1>5. \A s \in Source : Settled(s)
  BY DEF Init, Settled
<1>6. \A s \in Source \ Hooked : main[s] = Missing
  BY DEF Init
<1> QED BY <1>1, <1>3, <1>4, <1>5, <1>6 DEF Sole, Mine

LEMMA SoleStep == Inv /\ Sole /\ [Next]_vars => Sole' /\ \A p \in Proc : Told(p)
<1> SUFFICES ASSUME Inv, Sole, [Next]_vars PROVE Sole' /\ \A p \in Proc : Told(p)
  OBVIOUS
<1>1. ASSUME report' = report, Sole' PROVE Sole' /\ \A p \in Proc : Told(p)
  BY <1>1 DEF Told
<1>2. ASSUME NEW p \in Proc, Sole' /\ Told(p) /\ \A q \in Proc \ {p} : report'[q] = report[q]
      PROVE  Sole' /\ \A q \in Proc : Told(q)
  BY <1>2 DEF Told
<1>3. CASE UNCHANGED vars
  <2>1. \A p \in Proc : Mine(p)'
    BY <1>3 DEF vars, Sole, Mine, Course, Goal, OnOwn, Flagged, Fitted, Working, FlagOf, FlagsIn, HasHooks
  <2>2. \A s \in Source : Settled(s)'
    BY <1>3 DEF vars, Sole, Settled, Working, FlagOf, FlagsIn, HasHooks
  <2>3. Sole'
    BY <1>3, <2>1, <2>2 DEF vars, Sole
  <2> QED BY <1>1, <1>3, <2>3 DEF vars
<1>4. ASSUME NEW p \in Proc, Plan(p) \/ AllDone(p) \/ Killed(p) \/ TakeUp(p)
      PROVE  Sole' /\ \A q \in Proc : Told(q)
  BY <1>1, <1>4, IdleSole, TakeUpSole
<1>5. ASSUME NEW p \in Proc, TryLock(p) \/ Release(p) \/ StepFails(p)
      PROVE  Sole' /\ \A q \in Proc : Told(q)
  BY <1>2, <1>5, TryLockSole, LeavingSole
<1>6. ASSUME NEW p \in Proc,
             \/ Read(p) \/ WriteArtifacts(p) \/ BackupOnce(p) \/ FillBackup(p) \/ MoveBackup(p)
             \/ CreateTmp(p) \/ FillTmp(p) \/ MoveTmp(p) \/ RemoveBackup(p)
      PROVE  Sole' /\ \A q \in Proc : Told(q)
  <2>1. report' = report
    BY <1>6 DEF Read, WriteArtifacts, BackupOnce, FillBackup, MoveBackup, CreateTmp, FillTmp, MoveTmp,
                RemoveBackup, KeepsPlace
  <2>2. Sole'
    BY <1>6, ReadSole, WriteArtifactsSole, AsideSole, MoveTmpSole, RemoveBackupSole
  <2> QED BY <1>1, <2>1, <2>2
<1> QED BY <1>3, <1>4, <1>5, <1>6 DEF Next

\* What the user is told is so: connect_target and disconnect_target report the flag and
\* the hooks as they are, whatever failed on the way, unless another command works on the
\* same source.
THEOREM TruthTold == Spec => OutcomesAreTrue
<1> DEFINE True == \A p \in Proc, s \in Source :
       report'[p][s] # report[p][s] /\ s \notin contested' => Holds(p, s, report[p][s])'
<1>1. Inv /\ Sole /\ [Next]_vars => [True]_vars
  BY SoleStep DEF Told
<1>2. Inv /\ Sole /\ [Next]_vars => Inv' /\ Sole'
  BY InvStep, SoleStep
<1> QED BY <1>1, <1>2, InvInit, SoleInit, PTL DEF Spec, OutcomesAreTrue

\* A flag without hooks behind it is a trace of a command under way, of a killed one, of a
\* rollback that failed, or of two commands that crossed.
THEOREM FlagsAreBacked == Spec => []NoHollowConnection
<1>1. Sole => NoHollowConnection
  BY SourcesAssumption DEF Sole, Settled, NoHollowConnection
<1>2. Inv /\ Sole /\ [Next]_vars => Inv' /\ Sole'
  BY InvStep, SoleStep
<1> QED BY <1>1, <1>2, InvInit, SoleInit, PTL DEF Spec

=============================================================================

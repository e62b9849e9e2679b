------------------------------ MODULE Catalog ------------------------------
(***************************************************************************)
(* The catalogue of characters a user imports and removes from the panel   *)
(* of the floating window (pixtuoid/src/floating/window.rs), the helper    *)
(* process that rewrites it (tools/Import-MapleAtelierCharacter.ps1) and   *)
(* the choices that point into it (config/mod.rs, characters.rs).          *)
(*                                                                         *)
(* A character is known by its slot: the panel, the choices in memory, the *)
(* choices in config.toml and the helper's argument are all positions in a *)
(* list.  There are four copies of that list that may disagree: the        *)
(* catalogue file, the pack built from it, the pack the window has loaded, *)
(* and what the user saw when they clicked.                                *)
(*                                                                         *)
(* The helper outlives the window that started it; steps of it may fail,   *)
(* and it may be killed between any two.                                 *)
(***************************************************************************)
EXTENDS Naturals, SequencesExt

CONSTANTS
  Character,    \* what may be imported
  Helper,       \* helper processes; a second one can only start beside one that
                \* was left behind by a closed window
  Stage,        \* the maps with a showcase of their own
  Builtin,      \* CHARACTER_SLOT_COUNT: slots no one can remove
  Lists,        \* the catalogues the program may find
  MaxFaults,    \* bound: failing steps and killed helpers
  MaxQuits,     \* bound: how often the window is closed
  MaxSaves,     \* bound: how often a choice is toggled
  Gone, Nobody  \* no directory there; no slot, no character

ASSUME CatalogAssumption ==
  /\ Builtin \in Nat \ {0} /\ Stage # {}
  /\ Lists \subseteq Seq(Character) /\ Character \cap Nat = {}
  /\ \A l \in Lists : IsInjective(l)  \* the importer adds no key twice
  /\ {MaxFaults, MaxQuits, MaxSaves} \subseteq Nat
  /\ Gone \notin Seq(Character) /\ Nobody \notin Nat \cup Character

VARIABLES
  list,     \* maple-atelier-catalog.json
  folders,  \* skins under imports/
  pack,     \* catalog-pack, and
  rollback, \* the one before it
  helper,   \* the helper processes
  config,   \* the [characters] table of config.toml
  app,      \* the window
  faults, quits, saves,
  \* History: the characters the user has chosen; whether any step failed;
  \* whether a helper was killed, or could not put back what it had moved aside;
  \* whether the window was closed under a helper.
  chosen, failed, spoilt, orphaned

files   == <<list, folders, pack, rollback>>
history == <<chosen, failed, spoilt, orphaned>>
budget  == <<faults, quits, saves>>
vars    == <<files, helper, config, app, budget, history>>

Slot   == Nat
Face   == Nat \cup Character                 \* a built-in one, or an imported one
Packs  == Seq(Character)
Choice == [roster : SUBSET Slot, guests : [Stage -> SUBSET Slot]]

Count(p)   == Builtin + Len(p)
FaceAt(p, s) == IF s < Builtin THEN s ELSE p[s - Builtin + 1]
Slots(p)   == 0 .. Count(p) - 1

Chosen(p, c) == [roster |-> {FaceAt(p, s) : s \in c.roster},
                 guests |-> [g \in Stage |-> {FaceAt(p, s) : s \in c.guests[g]}]]

\* A table that was never written has no roster, which reads as all slots.
Unset == [roster |-> {}, guests |-> [g \in Stage |-> {}]]

\* resolve_characters_for_count
Resolve(c, p) ==
  LET known == c.roster \cap Slots(p) IN
  [roster |-> IF known = {} THEN Slots(p) ELSE known,
   guests |-> [g \in Stage |-> c.guests[g] \cap Slots(p)]]
-----------------------------------------------------------------------------
(* The window.                                                             *)

Idle == [pc |-> "idle", job |-> "import", slot |-> 0, who |-> Nobody,
         seen |-> <<>>, staged |-> <<>>, moved |-> FALSE, mine |-> FALSE, ok |-> FALSE]

\* meant is history: who stood on the row when it was armed.
Closed == [up |-> FALSE, pack |-> <<>>, choice |-> Resolve(Unset, <<>>), armed |-> Nobody, meant |-> Nobody, busy |-> FALSE]

Opened == [up |-> TRUE, pack |-> pack, choice |-> Resolve(config, pack), armed |-> Nobody, meant |-> Nobody, busy |-> FALSE]

Init ==
  /\ list \in Lists /\ folders = ToSet(list) /\ pack = list /\ rollback = Gone
  /\ helper = [h \in Helper |-> Idle]
  /\ config = Unset /\ app = Opened
  /\ faults = MaxFaults /\ quits = MaxQuits /\ saves = MaxSaves
  /\ chosen = Chosen(pack, app.choice)
  /\ failed = FALSE /\ spoilt = FALSE /\ orphaned = FALSE

\* The mark of a first click is taken off.
Disarmed(a) == [a EXCEPT !.armed = Nobody, !.meant = Nobody]

Fault == faults > 0 /\ faults' = faults - 1 /\ failed' = TRUE
NoFault == UNCHANGED <<faults, failed>>

\* persist_character_choices: a failed save is only logged.
Persist(choice) ==
  \/ config' = choice /\ NoFault
  \/ UNCHANGED config /\ Fault

\* Toggling a look, and letting the last one be, or sending a guest out or home.
\* A guest may also be turned away: the map is full, or they are still walking out.
Toggled(c) ==
  {[c EXCEPT !.roster = IF s \in @ THEN @ \ {s} ELSE @ \cup {s}] : s \in Slots(app.pack)}
  \cup {[c EXCEPT !.guests[g] = IF s \in @ THEN @ \ {s} ELSE @ \cup {s}] :
           g \in Stage, s \in Slots(app.pack)}

Toggle ==
  /\ app.up /\ saves > 0 /\ saves' = saves - 1
  /\ \E choice \in {c \in Toggled(app.choice) : c.roster # {}} :
       /\ app' = [(IF choice.roster # app.choice.roster THEN Disarmed(app) ELSE app) EXCEPT !.choice = choice]
       /\ chosen' = Chosen(app.pack, choice)
       /\ Persist(choice)
  /\ UNCHANGED <<files, helper, quits, spoilt, orphaned>>

\* The panel is closed or paged, or a last look toggled: the row is disarmed.
Disarm ==
  /\ app.up /\ app.armed # Nobody
  /\ app' = Disarmed(app)
  /\ UNCHANGED <<files, helper, config, budget, history>>

Launch(job, slot, who) ==
  \E h \in Helper :
    /\ helper[h] = Idle
    /\ helper' = [helper EXCEPT ![h] = [Idle EXCEPT !.pc = "read", !.job = job, !.slot = slot,
                                                     !.who = who, !.mine = TRUE]]

\* request_character_removal, for a row without the armed mark, and with it.
Arm(slot) ==
  /\ app.up /\ ~app.busy /\ slot \in Slots(app.pack) /\ slot >= Builtin /\ app.armed # slot
  /\ app' = [app EXCEPT !.armed = slot, !.meant = FaceAt(app.pack, slot)]
  /\ UNCHANGED <<files, helper, config, budget, history>>

RemoveRow(slot) ==
  /\ app.up /\ ~app.busy /\ slot = app.armed
  /\ IF pack = Gone
     THEN app' = Disarmed(app) /\ UNCHANGED helper
     ELSE Launch("remove", slot, app.meant) /\ app' = [app EXCEPT !.busy = TRUE]
  /\ UNCHANGED <<files, config, budget, history>>

\* The importer takes whatever the clipboard holds.
Import(who) ==
  /\ app.up /\ ~app.busy
  /\ IF pack = Gone
     THEN app.armed # Nobody /\ UNCHANGED helper /\ app' = Disarmed(app)
     ELSE Launch("import", 0, who) /\ app' = [Disarmed(app) EXCEPT !.busy = TRUE]
  /\ UNCHANGED <<files, config, budget, history>>

\* Closing the window leaves the helper running, with nobody to report to.
Quit ==
  /\ app.up /\ quits > 0 /\ quits' = quits - 1
  /\ app' = Closed
  /\ helper' = [h \in Helper |-> IF helper[h] = Idle THEN Idle ELSE [helper[h] EXCEPT !.mine = FALSE]]
  /\ orphaned' = (orphaned \/ \E h \in Helper : helper[h] # Idle)
  /\ UNCHANGED <<files, config, faults, saves, chosen, failed, spoilt>>

\* A roster nobody saved is everybody, also those who came since.
Everybody(c, p) == IF config.roster = {} THEN [c EXCEPT !.roster = {FaceAt(p, s) : s \in Slots(p)}] ELSE c

\* floating::run gives up when there is no pack to load.
Open ==
  /\ ~app.up /\ pack # Gone
  /\ app' = Opened /\ chosen' = Everybody(chosen, pack)
  /\ UNCHANGED <<files, helper, config, budget, failed, spoilt, orphaned>>

\* finish_imported_character: the choices are read again from the file.
Reload ==
  /\ app' = [Disarmed(app) EXCEPT !.busy = FALSE, !.pack = pack, !.choice = Resolve(config, pack)]
  /\ chosen' = Everybody(chosen, pack)
  /\ UNCHANGED config /\ NoFault

\* Mutant for ChoicesFollowCharacters: the slot is dropped and none moves up.
ShiftedNot(S, slot) == S \ {slot}

\* remap_slots_after_removal
Shifted(S, slot) == {s \in S : s < slot} \cup {s - 1 : s \in {x \in S : x > slot}}

\* character_config_after_removal; a roster left empty takes the nearest look.
AfterRemoval(c, slot, n) ==
  LET roster == Shifted(c.roster, slot) IN
  [roster |-> IF roster = {} THEN {IF slot < n THEN slot ELSE n - 1} ELSE roster,
   guests |-> [g \in Stage |-> Shifted(c.guests[g], slot)]]

\* Mutant for RemovesTheConfirmed: the mark outlives the list it was set in.
ShiftStillArmed(slot) ==
  LET choice == AfterRemoval(app.choice, slot, Count(pack)) IN
  /\ app' = [app EXCEPT !.busy = FALSE, !.pack = pack, !.choice = choice]
  /\ chosen' = Chosen(pack, choice)
  /\ Persist(choice)

\* finish_removed_character, when the new pack has one character less.
Shift(slot) ==
  LET choice == AfterRemoval(app.choice, slot, Count(pack)) IN
  /\ app' = [Disarmed(app) EXCEPT !.busy = FALSE, !.pack = pack, !.choice = choice]
  /\ chosen' = [roster |-> IF chosen.roster \ {FaceAt(app.pack, slot)} = {}
                           THEN Chosen(pack, choice).roster
                           ELSE chosen.roster \ {FaceAt(app.pack, slot)},
                guests |-> [g \in Stage |-> chosen.guests[g] \ {FaceAt(app.pack, slot)}]]
  /\ Persist(choice)

CountMatches(slot) == slot < Count(app.pack) /\ Count(pack) + 1 = Count(app.pack)

\* The window keeps what it has: the helper reports a failure, the pack does not
\* load, or its size is not the one expected.
KeepShowing == app' = [Disarmed(app) EXCEPT !.busy = FALSE] /\ UNCHANGED <<config, chosen>>

\* finish_character_catalog_mutation
Finish(h) ==
  /\ helper[h].pc = "report" /\ helper' = [helper EXCEPT ![h] = Idle]
  /\ \/ ~helper[h].mine /\ UNCHANGED <<app, config, chosen>> /\ NoFault
     \/ helper[h].mine /\ KeepShowing
        /\ IF helper[h].ok /\ pack # Gone /\ (helper[h].job = "remove" => CountMatches(helper[h].slot))
           THEN Fault ELSE NoFault
     \/ /\ helper[h].mine /\ helper[h].ok /\ pack # Gone
        /\ \/ helper[h].job = "import" /\ Reload
           \/ helper[h].job = "remove" /\ CountMatches(helper[h].slot) /\ Shift(helper[h].slot)
  /\ UNCHANGED <<files, quits, saves, spoilt, orphaned>>
-----------------------------------------------------------------------------
(* The helper, one step per change of the disk.                            *)

Goto(h, pc) == helper' = [helper EXCEPT ![h].pc = pc]

\* Of the outcome, the window is only told whether it went well.
Tell(h, ok) ==
  helper' = [helper EXCEPT ![h] = [Idle EXCEPT !.pc = "report", !.ok = ok, !.mine = helper[h].mine,
                                               !.job = helper[h].job, !.slot = helper[h].slot]]

\* Mutant for SafeToRetry: the source stays in the recovery folder.
GiveUpAtOnce(h) == Tell(h, FALSE)

\* Where a throw leads: a removal under way is undone, everything else is told.
GiveUp(h) == IF helper[h].moved THEN Goto(h, "restore") ELSE Tell(h, FALSE)

OnDisk(h, pc) == /\ helper[h].pc = pc
                 /\ UNCHANGED <<config, app, quits, saves, chosen, orphaned>>

Position(h) == helper[h].slot - Builtin + 1

\* The catalogue is read: by Invoke-CatalogRemoval first of all, by Invoke-Import
\* when the skin has its folder, after downloads that may fail or be cancelled.
Read(h) ==
  /\ OnDisk(h, "read")
  /\ \/ /\ helper[h].job = "import"
        /\ folders' = folders \cup {helper[h].who}
        /\ helper' = [helper EXCEPT ![h].pc = "save", ![h].seen = list] /\ NoFault
     \/ /\ helper[h].job = "remove" /\ UNCHANGED folders /\ NoFault
        /\ IF Position(h) \in DOMAIN list
           THEN helper' = [helper EXCEPT ![h].pc = "move", ![h].seen = list]
           ELSE Tell(h, FALSE)
     \/ GiveUp(h) /\ Fault /\ UNCHANGED folders
  /\ UNCHANGED <<list, pack, rollback, spoilt>>

\* The source goes to the recovery folder before the catalogue changes.
Move(h) ==
  /\ OnDisk(h, "move")
  /\ LET who == helper[h].seen[Position(h)] IN
     \/ /\ who \in folders /\ folders' = folders \ {who} /\ NoFault
        /\ helper' = [helper EXCEPT ![h].pc = "save", ![h].moved = TRUE]
     \/ who \notin folders /\ GiveUp(h) /\ NoFault /\ UNCHANGED folders
     \/ GiveUp(h) /\ Fault /\ UNCHANGED folders
  /\ UNCHANGED <<list, pack, rollback, spoilt>>

Rewritten(h) ==
  IF helper[h].job = "remove" THEN RemoveAt(helper[h].seen, Position(h))
  ELSE IF helper[h].who \in ToSet(helper[h].seen) THEN list
  ELSE Append(helper[h].seen, helper[h].who)

Save(h) ==
  /\ OnDisk(h, "save")
  /\ \/ list' = Rewritten(h) /\ Goto(h, "build") /\ NoFault
     \/ GiveUp(h) /\ Fault /\ UNCHANGED list
  /\ UNCHANGED <<folders, pack, rollback, spoilt>>

\* New-MapleCatalogSkinPack reads the catalogue again, and needs every skin.
Build(h) ==
  /\ OnDisk(h, "build")
  /\ \/ /\ ToSet(list) \subseteq folders /\ NoFault
        /\ helper' = [helper EXCEPT ![h].pc = "swap", ![h].staged = list]
     \/ ~(ToSet(list) \subseteq folders) /\ GiveUp(h) /\ NoFault
     \/ GiveUp(h) /\ Fault
  /\ UNCHANGED <<files, spoilt>>

SwapOut(h) ==
  /\ OnDisk(h, "swap")
  /\ \/ rollback' = pack /\ pack' = Gone /\ Goto(h, "publish") /\ NoFault
     \/ rollback' = Gone /\ UNCHANGED pack /\ GiveUp(h) /\ Fault
  /\ UNCHANGED <<list, folders, spoilt>>

\* The old pack is put back when the new one cannot be moved into its place.
SwapIn(h) ==
  /\ OnDisk(h, "publish")
  /\ \/ /\ pack = Gone /\ pack' = helper[h].staged /\ UNCHANGED <<rollback, spoilt>> /\ NoFault
        /\ Tell(h, TRUE)
     \/ pack # Gone /\ UNCHANGED <<pack, rollback, spoilt>> /\ GiveUp(h) /\ NoFault
     \/ pack = Gone /\ pack' = rollback /\ rollback' = Gone /\ UNCHANGED spoilt /\ GiveUp(h) /\ Fault
     \/ pack = Gone /\ spoilt' = TRUE /\ UNCHANGED <<pack, rollback>> /\ GiveUp(h) /\ Fault
  /\ UNCHANGED <<list, folders>>

\* The catch of Invoke-CatalogRemoval: its finally brings the source back also
\* when the catalogue cannot be written.
Restore(h) ==
  /\ OnDisk(h, "restore") /\ Tell(h, FALSE)
  /\ \/ list' = helper[h].seen /\ folders' = folders \cup {helper[h].seen[Position(h)]}
        /\ NoFault /\ UNCHANGED spoilt
     \/ UNCHANGED list /\ folders' = folders \cup {helper[h].seen[Position(h)]}
        /\ Fault /\ UNCHANGED spoilt
     \/ list' \in {list, helper[h].seen} /\ UNCHANGED folders /\ Fault /\ spoilt' = TRUE
  /\ UNCHANGED <<pack, rollback>>

\* The worker thread reports a killed helper as a failed one.
Kill(h) ==
  /\ helper[h].pc \notin {"idle", "report"} /\ Fault /\ spoilt' = TRUE
  /\ Tell(h, FALSE)
  /\ UNCHANGED <<files, config, app, quits, saves, chosen, orphaned>>

Work(h) == Read(h) \/ Move(h) \/ Save(h) \/ Build(h) \/ SwapOut(h) \/ SwapIn(h) \/ Restore(h) \/ Finish(h)

Next ==
  \/ Toggle \/ Disarm \/ Quit \/ Open
  \/ \E s \in Slots(app.pack) : Arm(s) \/ RemoveRow(s)
  \/ \E c \in Character : Import(c)
  \/ \E h \in Helper : Work(h) \/ Kill(h)

Spec == Init /\ [][Next]_vars
-----------------------------------------------------------------------------
(* Properties.                                                             *)

AtWork == {h \in Helper : helper[h] # Idle}
Calm   == ~failed /\ ~orphaned

\* While nothing has failed, what the helper takes is the character that stood on
\* the row at the first of the two clicks: the mark does not survive a change of
\* the list under it, nothing is removed while the list is being rewritten, and
\* the list shown is the one the helper counts in (advance_delete_confirmation,
\* finish_character_catalog_mutation, Invoke-CatalogRemoval).
RemovesTheConfirmed ==
  Calm => \A h \in Helper :
            helper[h].job = "remove" /\ helper[h].pc = "save" => helper[h].seen[Position(h)] = helper[h].who

\* A choice is of a character, not of a number: whatever was imported or removed
\* since, and however often the program was started again, the looks and guests
\* shown are those the user chose, and so is what the file will show next time.
\* Also when steps failed, no choice points past the pack that is loaded, and one
\* look is left for the agents (remap_slots_after_removal, CharacterRoster,
\* persist_character_choices, resolve_characters_for_count).
ChoicesFollowCharacters ==
  /\ app.choice.roster # {} /\ app.choice.roster \subseteq Slots(app.pack)
  /\ \A g \in Stage : app.choice.guests[g] \subseteq Slots(app.pack)
  /\ Calm /\ AtWork = {} =>
       /\ app.up => Chosen(app.pack, app.choice) = chosen
       /\ Chosen(pack, Resolve(config, pack)) = chosen

\* However a step fails, the user can safely try again: no character is left in
\* the catalogue without its source, which every later rebuild would fail for, and
\* no pack is missing that the program needs to start, but while a helper is about
\* to put one there (the catches of Invoke-CatalogRemoval and
\* New-MapleCatalogSkinPack).  Not so when a helper is killed, or cannot move back
\* what it had moved: see the README.
SafeToRetry ==
  ~spoilt =>
    /\ AtWork = {} => ToSet(list) \subseteq folders
    /\ pack = Gone => \E h \in Helper : helper[h].pc = "publish"
=============================================================================

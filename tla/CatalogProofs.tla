--------------------------- MODULE CatalogProofs ---------------------------
(***************************************************************************)
(* Removals take what was confirmed, choices follow their characters, and  *)
(* a failure can be retried: for any catalogues, helpers, maps, faults.    *)
(***************************************************************************)
EXTENDS Catalog, SequenceTheorems, TLAPS

-----------------------------------------------------------------------------
(* The inductive invariant.                                                *)

Catalogue == {s \in Seq(Character) : IsInjective(s)}

HelperState ==
  [pc : {"idle", "read", "move", "save", "build", "swap", "publish", "restore", "report"},
   job : {"import", "remove"}, slot : Nat, who : Face \cup {Nobody},
   seen : Catalogue, staged : Catalogue, moved : BOOLEAN, mine : BOOLEAN, ok : BOOLEAN]

AppState == [up : BOOLEAN, pack : Catalogue, choice : Choice, armed : Slot \cup {Nobody},
             meant : Face \cup {Nobody}, busy : BOOLEAN]

\* Where a removal has found its character, and where an import has one to add.
InPlace(h) ==
  /\ helper[h].pc = "idle" => helper[h] = Idle
  /\ helper[h].pc \in {"read", "save"} /\ helper[h].job = "import" => helper[h].who \in Character
  /\ helper[h].pc \in {"move", "save", "build", "swap", "publish", "restore"} /\ helper[h].job = "remove" =>
       Position(h) \in DOMAIN helper[h].seen
  /\ helper[h].pc \in {"move", "restore"} => helper[h].job = "remove"
  /\ helper[h].moved <=> /\ helper[h].job = "remove"
                         /\ helper[h].pc \in {"save", "build", "swap", "publish", "restore"}

\* Every choice the program keeps is of slots that the loaded pack has.
Fits(c, p) ==
  /\ c.roster # {} /\ c.roster \subseteq Slots(p)
  /\ \A g \in Stage : c.guests[g] \subseteq Slots(p)

TypeOK ==
  /\ list \in Catalogue /\ folders \subseteq Character
  /\ pack \in Catalogue \cup {Gone} /\ rollback \in Catalogue \cup {Gone}
  /\ helper \in [Helper -> HelperState]
  /\ config \in Choice /\ app \in AppState
  /\ failed \in BOOLEAN /\ spoilt \in BOOLEAN /\ orphaned \in BOOLEAN

Shape ==
  /\ TypeOK
  /\ \A h \in Helper : InPlace(h)
  /\ Fits(app.choice, app.pack)
  /\ spoilt => failed

\* No window was closed under its helper, or there is no other to start beside it.
Single == orphaned => \A g, h \in Helper : g = h

\* A window that was not closed under its helper waits for it.
Awaited ==
  ~orphaned => \A h \in AtWork :
                 /\ app.up /\ app.busy /\ helper[h].mine
                 /\ \A g \in AtWork : g = h

Source(h) == helper[h].seen[Position(h)]

\* Every listed character has its source, but for the one a removal has moved
\* aside; the list that goes back with it is covered too.
Sourced(h) ==
  LET pc == helper[h].pc IN
  /\ ~helper[h].moved => ToSet(list) \subseteq folders
  /\ helper[h].moved => ToSet(list) \cup ToSet(helper[h].seen) \subseteq folders \cup {Source(h)}
  /\ pc \in {"move", "save"} => helper[h].seen = list
  /\ pc = "save" /\ helper[h].job = "import" => helper[h].who \in folders
  /\ pc \in {"swap", "publish"} => ToSet(list) \subseteq folders
  /\ IF pc = "publish" THEN pack = Gone /\ rollback # Gone ELSE pack # Gone

\* What a retry needs, while nothing was left where it should not be.
Stocked ==
  ~spoilt => /\ \A h \in AtWork : Sourced(h)
             /\ AtWork = {} => ToSet(list) \subseteq folders /\ pack # Gone

\* The field that the window keeps is as good as a lock on the files.
OneHelper == \A g, h \in AtWork : g = h

Sound == Single => Stocked

\* What the helper is to make of the list the window shows.
Made(h, p) ==
  IF helper[h].job = "remove"
  THEN p = RemoveAt(app.pack, Position(h))
  ELSE Len(app.pack) <= Len(p) /\ \A n \in DOMAIN app.pack : p[n] = app.pack[n]

\* While nothing fails, the copies of the list differ by what the helper has done.
InStep(h) ==
  LET pc == helper[h].pc IN
  /\ helper[h].job = "remove" =>
       /\ helper[h].slot \in Slots(app.pack) /\ helper[h].slot >= Builtin
       /\ pc \in {"read", "move", "save"} => helper[h].who = FaceAt(app.pack, helper[h].slot)
  /\ pc # "restore"
  /\ pc \in {"read", "move", "save"} => list = app.pack
  /\ pc \in {"move", "save", "build"} => helper[h].seen = app.pack
  /\ pc \in {"build", "swap", "publish"} => Made(h, list)
  /\ pc \in {"read", "move", "save", "build", "swap"} => pack = app.pack
  /\ pc \in {"swap", "publish"} => helper[h].staged = list
  /\ pc = "report" => /\ pack = list
                      /\ IF helper[h].ok THEN Made(h, list) ELSE list = app.pack

Shown == IF app.up THEN app.pack ELSE pack

\* The choices of the user, by the list they were made in.
Linked ==
  LET c == Resolve(config, Shown) IN
  /\ chosen = Chosen(Shown, c)
  /\ config \in {Unset, c}
  /\ app.up => app.choice = c

Armed ==
  app.armed # Nobody => /\ app.up /\ app.armed \in Slots(app.pack) /\ app.armed >= Builtin
                        /\ app.meant = FaceAt(app.pack, app.armed)

Settled ==
  Calm =>
    /\ \A h \in AtWork : InStep(h)
    /\ AtWork = {} => pack = list /\ (app.up => app.pack = list)
    /\ Linked /\ Armed

IInv == Shape /\ Awaited /\ Sound /\ Settled
-----------------------------------------------------------------------------
(* Lists, slots and choices.                                               *)

\* RemoveAt closes the gap.
LEMMA RemoveAtFacts ==
  ASSUME NEW s \in Seq(Character), NEW i \in 1 .. Len(s)
  PROVE  /\ RemoveAt(s, i) \in Seq(Character)
         /\ Len(RemoveAt(s, i)) = Len(s) - 1
         /\ \A n \in 1 .. Len(s) - 1 : RemoveAt(s, i)[n] = IF n < i THEN s[n] ELSE s[n + 1]
<1> DEFINE before == SubSeq(s, 1, i - 1)
           after  == SubSeq(s, i + 1, Len(s))
<1>1. /\ before \in Seq(Character) /\ Len(before) = i - 1
      /\ \A n \in 1 .. i - 1 : before[n] = s[n]
  OBVIOUS
<1>2. /\ after \in Seq(Character) /\ Len(after) = Len(s) - i
      /\ \A n \in 1 .. Len(s) - i : after[n] = s[n + i]
  OBVIOUS
<1> HIDE DEF before, after
<1>3. /\ before \o after \in Seq(Character) /\ Len(before \o after) = Len(before) + Len(after)
      /\ \A n \in 1 .. Len(before) + Len(after) :
            (before \o after)[n] = IF n <= Len(before) THEN before[n] ELSE after[n - Len(before)]
  BY <1>1, <1>2, ConcatProperties
<1>4. \A n \in 1 .. Len(s) - 1 : (before \o after)[n] = IF n < i THEN s[n] ELSE s[n + 1]
  <2>1. ASSUME NEW n \in 1 .. Len(s) - 1, n < i  PROVE (before \o after)[n] = s[n]
    BY <1>1, <1>2, <1>3, <2>1
  <2>2. ASSUME NEW n \in 1 .. Len(s) - 1, ~(n < i)  PROVE (before \o after)[n] = s[n + 1]
    <3>1. n - (i - 1) \in 1 .. Len(s) - i /\ (n - (i - 1)) + i = n + 1 /\ ~(n <= i - 1)
      BY <2>2
    <3>2. (before \o after)[n] = after[n - (i - 1)]
      BY <1>1, <1>2, <1>3, <3>1
    <3>3. after[n - (i - 1)] = s[(n - (i - 1)) + i]
      BY <1>2, <3>1
    <3> QED
      BY <3>1, <3>2, <3>3
  <2> QED
    BY <2>1, <2>2
<1>5. RemoveAt(s, i) = before \o after
  BY DEF RemoveAt, before, after
<1> QED
  BY <1>1, <1>2, <1>3, <1>4, <1>5

\* A catalogue stays one: nothing in it is listed twice.
LEMMA RemoveAtIsCatalogue ==
  ASSUME NEW s \in Catalogue, NEW i \in DOMAIN s
  PROVE  /\ RemoveAt(s, i) \in Catalogue
         /\ ToSet(RemoveAt(s, i)) = ToSet(s) \ {s[i]}
<1> DEFINE t == RemoveAt(s, i)
<1>1. s \in Seq(Character) /\ i \in 1 .. Len(s) /\ \A m, n \in 1 .. Len(s) : s[m] = s[n] => m = n
  BY DEF Catalogue, IsInjective
<1> HIDE DEF t
<1>2. /\ t \in Seq(Character) /\ Len(t) = Len(s) - 1 /\ DOMAIN t = 1 .. Len(s) - 1
      /\ \A n \in 1 .. Len(s) - 1 : t[n] = IF n < i THEN s[n] ELSE s[n + 1]
  <2>1. /\ t \in Seq(Character) /\ Len(t) = Len(s) - 1
        /\ \A n \in 1 .. Len(s) - 1 : t[n] = IF n < i THEN s[n] ELSE s[n + 1]
    BY <1>1, RemoveAtFacts DEF t
  <2> QED
    BY <2>1
<1>3. \A m, n \in 1 .. Len(s) - 1 : t[m] = t[n] => m = n
  BY <1>1, <1>2
<1>4. ASSUME NEW x \in ToSet(s) \ {s[i]}  PROVE  x \in ToSet(t)
  <2>1. PICK n \in 1 .. Len(s) : x = s[n]
    BY <1>1 DEF ToSet
  <2>2. CASE n < i
    BY <1>1, <1>2, <2>1, <2>2 DEF ToSet
  <2>3. CASE n > i
    <3>1. n - 1 \in 1 .. Len(s) - 1 /\ t[n - 1] = s[n]
      BY <1>1, <1>2, <2>3
    <3> QED
      BY <1>2, <2>1, <3>1 DEF ToSet
  <2> QED
    BY <1>1, <2>1, <2>2, <2>3
<1>5. ASSUME NEW x \in ToSet(t)  PROVE  x \in ToSet(s) \ {s[i]}
  <2>1. PICK n \in 1 .. Len(s) - 1 : x = t[n]
    BY <1>2 DEF ToSet
  <2> QED
    BY <1>1, <1>2, <2>1 DEF ToSet
<1> QED
  BY <1>2, <1>3, <1>4, <1>5 DEF Catalogue, IsInjective, t

LEMMA AppendIsCatalogue ==
  ASSUME NEW s \in Catalogue, NEW c \in Character, c \notin ToSet(s)
  PROVE  /\ Append(s, c) \in Catalogue /\ ToSet(Append(s, c)) = ToSet(s) \cup {c}
         /\ Len(s) <= Len(Append(s, c)) /\ \A n \in DOMAIN s : Append(s, c)[n] = s[n]
<1> DEFINE t == Append(s, c)
<1>1. s \in Seq(Character) /\ \A m, n \in 1 .. Len(s) : s[m] = s[n] => m = n
  BY DEF Catalogue, IsInjective
<1>2. /\ t \in Seq(Character) /\ Len(t) = Len(s) + 1 /\ DOMAIN t = 1 .. Len(s) + 1
      /\ \A n \in 1 .. Len(s) : t[n] = s[n]
      /\ t[Len(s) + 1] = c
  BY <1>1
<1>3. \A n \in 1 .. Len(s) : s[n] # c
  BY <1>1 DEF ToSet
<1> HIDE DEF t
<1>4. \A m, n \in 1 .. Len(s) + 1 : t[m] = t[n] => m = n
  BY <1>1, <1>2, <1>3
<1>5. ToSet(t) = ToSet(s) \cup {c}
  BY <1>1, <1>2 DEF ToSet
<1>6. t \in Catalogue
  BY <1>2, <1>4 DEF Catalogue, IsInjective
<1>7. Len(s) <= Len(t) /\ \A n \in DOMAIN s : t[n] = s[n]
  BY <1>1, <1>2
<1> QED
  BY <1>5, <1>6, <1>7 DEF t

LEMMA SlotsOf ==
  ASSUME NEW p \in Seq(Character)
  PROVE  /\ Count(p) \in Nat \ {0} /\ Slots(p) \subseteq Nat /\ Slots(p) # {}
         /\ \A s \in Slots(p) : FaceAt(p, s) \in Face
  BY CatalogAssumption DEF Count, Slots, FaceAt, Face

\* resolve_characters_for_count always leaves a look, and keeps what fits.
LEMMA ResolveFits ==
  ASSUME NEW c \in Choice, NEW p \in Seq(Character)
  PROVE  /\ Resolve(c, p) \in Choice /\ Fits(Resolve(c, p), p)
         /\ Fits(c, p) => Resolve(c, p) = c
  BY SlotsOf DEF Resolve, Fits, Choice, Slot

\* Every slot after the one that goes moves up by one.
LEMMA ShiftedFits ==
  ASSUME NEW n \in Nat, NEW slot \in 0 .. n, NEW S \in SUBSET (0 .. n)
  PROVE  Shifted(S, slot) \subseteq 0 .. n - 1 /\ Shifted(S, slot) \subseteq Nat
<1>1. ASSUME NEW x \in Shifted(S, slot)  PROVE x \in 0 .. n - 1
  <2>1. (x \in S /\ x < slot) \/ \E s \in S : s > slot /\ x = s - 1
    BY DEF Shifted
  <2>2. CASE x \in S /\ x < slot
    BY <2>2
  <2>3. ASSUME NEW s \in S, s > slot, x = s - 1  PROVE x \in 0 .. n - 1
    <3>1. s \in 0 .. n
      OBVIOUS
    <3> QED
      BY <2>3, <3>1
  <2> QED
    BY <2>1, <2>2, <2>3
<1> QED
  BY <1>1

Faces(p, S) == {FaceAt(p, s) : s \in S}

\* remap_slots_after_removal: the slots that are left are of the same characters.
LEMMA ShiftedFaces ==
  ASSUME NEW old \in Catalogue, NEW slot \in Slots(old), slot >= Builtin,
         NEW S \in SUBSET Slots(old),
         NEW new, new = RemoveAt(old, slot - Builtin + 1)
  PROVE  Faces(new, Shifted(S, slot)) = Faces(old, S) \ {FaceAt(old, slot)}
<1> DEFINE i == slot - Builtin + 1
<1>1. /\ old \in Seq(Character) /\ \A m, n \in 1 .. Len(old) : old[m] = old[n] => m = n
      /\ Builtin \in Nat \ {0} /\ Character \cap Nat = {}
      /\ slot \in Nat /\ Slots(old) = 0 .. Builtin + Len(old) - 1 /\ i \in 1 .. Len(old)
  BY CatalogAssumption DEF Catalogue, IsInjective, Slots, Count
<1>2. \A n \in 1 .. Len(old) - 1 : new[n] = IF n < i THEN old[n] ELSE old[n + 1]
  BY <1>1, RemoveAtFacts
<1> HIDE DEF i
<1>3. i = slot - Builtin + 1
  BY DEF i
<1>4. ASSUME NEW s \in S, s < slot  PROVE FaceAt(new, s) = FaceAt(old, s) /\ FaceAt(old, s) # FaceAt(old, slot)
  <2>1. CASE s < Builtin
    BY <1>1, <1>3, <2>1 DEF FaceAt
  <2>2. CASE s >= Builtin
    <3>1. s - Builtin + 1 \in 1 .. Len(old) - 1 /\ s - Builtin + 1 < i
      BY <1>1, <1>3, <1>4, <2>2
    <3>2. PICK n \in 1 .. Len(old) - 1 : n = s - Builtin + 1
      BY <3>1
    <3>3. n < i /\ n # i /\ n \in 1 .. Len(old) /\ i \in 1 .. Len(old)
      BY <1>1, <3>1, <3>2
    <3>4. new[n] = old[n]
      BY <1>2, <3>3
    <3>5. old[n] # old[i]
      BY <1>1, <3>3
    <3> QED
      BY <1>1, <1>3, <2>2, <3>2, <3>4, <3>5 DEF FaceAt
  <2> QED
    BY <1>1, <2>1, <2>2
<1>5. ASSUME NEW s \in S, s > slot
      PROVE  FaceAt(new, s - 1) = FaceAt(old, s) /\ FaceAt(old, s) # FaceAt(old, slot)
  <2>1. /\ s - 1 >= Builtin /\ s >= Builtin
        /\ (s - 1) - Builtin + 1 = s - Builtin /\ s - Builtin \in 1 .. Len(old) - 1 /\ ~(s - Builtin < i)
        /\ (s - Builtin) + 1 \in 1 .. Len(old) /\ (s - Builtin) + 1 # i
    BY <1>1, <1>3, <1>5
  <2>2. new[s - Builtin] = old[(s - Builtin) + 1] /\ old[(s - Builtin) + 1] # old[i]
    BY <1>1, <1>2, <2>1
  <2>3. /\ FaceAt(new, s - 1) = new[s - Builtin]
        /\ FaceAt(old, s) = old[(s - Builtin) + 1] /\ FaceAt(old, slot) = old[i]
    BY <1>1, <1>3, <2>1 DEF FaceAt
  <2> QED
    BY <2>2, <2>3
<1>6. ASSUME NEW x, x \in {FaceAt(new, s) : s \in Shifted(S, slot)}
      PROVE  x \in {FaceAt(old, s) : s \in S} \ {FaceAt(old, slot)}
  <2>1. \/ \E s \in S : s < slot /\ x = FaceAt(new, s)
        \/ \E s \in S : s > slot /\ x = FaceAt(new, s - 1)
    BY <1>6 DEF Shifted
  <2> QED
    BY <1>4, <1>5, <2>1
<1>7. ASSUME NEW x, x \in {FaceAt(old, s) : s \in S} \ {FaceAt(old, slot)}
      PROVE  x \in {FaceAt(new, s) : s \in Shifted(S, slot)}
  <2>1. PICK s \in S : x = FaceAt(old, s) /\ s # slot
    BY <1>7
  <2>2. CASE s < slot
    BY <1>4, <2>1, <2>2 DEF Shifted
  <2>3. CASE s > slot
    BY <1>5, <2>1, <2>3 DEF Shifted
  <2> QED
    BY <1>1, <2>1, <2>2, <2>3
<1> QED
  BY <1>6, <1>7 DEF Faces

\* A list that only grew has the same characters in its old slots.
LEMMA GrownFaces ==
  ASSUME NEW old \in Seq(Character), NEW new \in Seq(Character),
         Len(old) <= Len(new), \A n \in DOMAIN old : new[n] = old[n]
  PROVE  /\ Slots(old) \subseteq Slots(new)
         /\ \A S \in SUBSET Slots(old) : Faces(new, S) = Faces(old, S)
<1>1. \A s \in Slots(old) : s < Builtin \/ (s >= Builtin /\ s - Builtin + 1 \in DOMAIN old)
  BY CatalogAssumption DEF Slots, Count
<1>2. Slots(old) \subseteq Slots(new) /\ \A s \in Slots(old) : FaceAt(new, s) = FaceAt(old, s)
  BY <1>1, CatalogAssumption DEF Slots, Count, FaceAt
<1> QED
  BY <1>2 DEF Faces
-----------------------------------------------------------------------------
(* Shape.                                                                  *)

LEMMA Starts ==
  /\ <<>> \in Catalogue /\ ToSet(<<>>) = {} /\ Idle \in HelperState
  /\ Unset \in Choice /\ Closed \in AppState /\ Fits(Closed.choice, Closed.pack)
<1>1. <<>> \in Catalogue /\ ToSet(<<>>) = {}
  BY DEF Catalogue, IsInjective, ToSet
<1>2. Unset \in Choice
  BY DEF Unset, Choice
<1>3. <<>> \in Seq(Character)
  OBVIOUS
<1>4. Resolve(Unset, <<>>) \in Choice /\ Fits(Resolve(Unset, <<>>), <<>>)
  BY <1>2, <1>3, ResolveFits
<1> QED
  BY <1>1, <1>2, <1>4 DEF Idle, HelperState, Closed, AppState, Face

\* A look toggled or a guest sent out is a slot of the list that is shown.
LEMMA ToggledFits ==
  ASSUME app \in AppState, NEW c \in Choice, Fits(c, app.pack), NEW d \in Toggled(c), d.roster # {}
  PROVE  d \in Choice /\ Fits(d, app.pack)
<1>1. Slots(app.pack) \subseteq Nat
  BY SlotsOf DEF AppState, Catalogue
<1>2. CASE \E s \in Slots(app.pack) :
             d = [c EXCEPT !.roster = IF s \in c.roster THEN c.roster \ {s} ELSE c.roster \cup {s}]
  BY <1>1, <1>2 DEF Choice, Fits, Slot
<1>3. CASE \E g \in Stage, s \in Slots(app.pack) :
             d = [c EXCEPT !.guests[g] = IF s \in c.guests[g] THEN c.guests[g] \ {s} ELSE c.guests[g] \cup {s}]
  BY <1>1, <1>3 DEF Choice, Fits, Slot
<1> QED
  BY <1>2, <1>3 DEF Toggled

\* character_config_after_removal: it fits a list with one slot less.
LEMMA AfterRemovalFits ==
  ASSUME NEW old \in Seq(Character), NEW new \in Seq(Character), Count(new) + 1 = Count(old),
         NEW c \in Choice, Fits(c, old), NEW slot \in Nat, slot < Count(old)
  PROVE  AfterRemoval(c, slot, Count(new)) \in Choice /\ Fits(AfterRemoval(c, slot, Count(new)), new)
<1> DEFINE n == Count(new)
           d == AfterRemoval(c, slot, n)
<1>1. n \in Nat \ {0} /\ Slots(old) = 0 .. n /\ Slots(new) = 0 .. n - 1 /\ slot \in 0 .. n
  BY SlotsOf DEF Slots
<1> HIDE DEF n
<1>2. \A S \in SUBSET Slots(old) : Shifted(S, slot) \subseteq 0 .. n - 1 /\ Shifted(S, slot) \subseteq Nat
  BY <1>1, ShiftedFits
<1>3. /\ c.roster \in SUBSET Slots(old) /\ \A g \in Stage : c.guests[g] \in SUBSET Slots(old)
  BY DEF Fits
<1>4. d.roster \subseteq Nat /\ d.roster \subseteq 0 .. n - 1 /\ d.roster # {}
  <2>1. CASE Shifted(c.roster, slot) = {}
    <3>1. d.roster = {IF slot < n THEN slot ELSE n - 1}
      BY <2>1 DEF AfterRemoval
    <3> QED
      BY <1>1, <3>1
  <2>2. CASE Shifted(c.roster, slot) # {}
    <3>1. d.roster = Shifted(c.roster, slot)
      BY <2>2 DEF AfterRemoval
    <3> QED
      BY <1>2, <1>3, <2>2, <3>1
  <2> QED
    BY <2>1, <2>2
<1>5. \A g \in Stage : d.guests[g] \subseteq Nat /\ d.guests[g] \subseteq 0 .. n - 1
  BY <1>2, <1>3 DEF AfterRemoval
<1>6. d = [roster |-> d.roster, guests |-> d.guests] /\ d.guests = [g \in Stage |-> d.guests[g]]
  BY DEF AfterRemoval
<1>7. d \in Choice
  BY <1>4, <1>5, <1>6 DEF Choice, Slot
<1>8. Fits(d, new)
  BY <1>1, <1>4, <1>5 DEF Fits
<1> QED
  BY <1>7, <1>8 DEF n

HelpersOK == helper \in [Helper -> HelperState] /\ \A h \in Helper : InPlace(h)

LEMMA TellInPlace ==
  ASSUME HelpersOK, NEW h \in Helper, NEW ok \in BOOLEAN, Tell(h, ok)
  PROVE  HelpersOK'
<1> DEFINE r == [Idle EXCEPT !.pc = "report", !.ok = ok, !.mine = helper[h].mine,
                             !.job = helper[h].job, !.slot = helper[h].slot]
<1>1. /\ r.pc = "report" /\ r.moved = FALSE /\ r \in HelperState
  BY Starts DEF HelpersOK, HelperState, Idle
<1>2. helper' = [helper EXCEPT ![h] = r]
  BY DEF Tell
<1> HIDE DEF r
<1> QED
  BY <1>1, <1>2 DEF HelpersOK, InPlace, Position

LEMMA GiveUpInPlace ==
  ASSUME HelpersOK, NEW h \in Helper, GiveUp(h)
  PROVE  HelpersOK'
<1>1. CASE helper[h].moved
  <2>1. helper' = [helper EXCEPT ![h].pc = "restore"]
    BY <1>1 DEF GiveUp, Goto
  <2>2. helper[h].job = "remove" /\ Position(h) \in DOMAIN helper[h].seen
    BY <1>1 DEF HelpersOK, InPlace
  <2> QED
    BY <1>1, <2>1, <2>2 DEF HelpersOK, InPlace, Position, HelperState
<1>2. CASE ~helper[h].moved
  BY <1>2, TellInPlace DEF GiveUp
<1> QED
  BY <1>1, <1>2

LEMMA LaunchInPlace ==
  ASSUME HelpersOK, NEW job \in {"import", "remove"}, NEW slot \in Nat, NEW who \in Face \cup {Nobody},
         job = "import" => who \in Character, Launch(job, slot, who)
  PROVE  HelpersOK'
<1> DEFINE r == [Idle EXCEPT !.pc = "read", !.job = job, !.slot = slot, !.who = who, !.mine = TRUE]
<1>1. r.pc = "read" /\ r.moved = FALSE /\ r.job = job /\ r.who = who /\ r \in HelperState
  BY Starts DEF HelperState, Idle
<1>2. PICK h \in Helper : helper' = [helper EXCEPT ![h] = r]
  BY DEF Launch
<1> HIDE DEF r
<1> QED
  BY <1>1, <1>2 DEF HelpersOK, InPlace, Position

\* What the pack and the choices of a new window are.
LEMMA OpenedFits ==
  ASSUME TypeOK, pack # Gone
  PROVE  Opened \in AppState /\ Fits(Opened.choice, Opened.pack)
<1>1. pack \in Catalogue /\ pack \in Seq(Character) /\ config \in Choice
  BY DEF TypeOK, Catalogue
<1> QED
  BY <1>1, ResolveFits DEF Opened, AppState

LEMMA InitShape == Init => Shape
<1> SUFFICES ASSUME Init PROVE Shape
  OBVIOUS
<1>1. list \in Catalogue /\ pack = list /\ list # Gone /\ folders \subseteq Character
  BY CatalogAssumption DEF Init, Catalogue, ToSet
<1>2. config \in Choice /\ helper \in [Helper -> HelperState]
  BY Starts DEF Init
<1>3. \A h \in Helper : helper[h] = Idle /\ InPlace(h)
  BY DEF Init, InPlace, Idle
<1>4. app \in AppState /\ Fits(app.choice, app.pack)
  BY <1>1, <1>2, ResolveFits DEF Init, Opened, AppState, Catalogue
<1> QED
  BY <1>1, <1>2, <1>3, <1>4 DEF Init, Shape, TypeOK

FilesOK == /\ list \in Catalogue /\ folders \subseteq Character
           /\ pack \in Catalogue \cup {Gone} /\ rollback \in Catalogue \cup {Gone}

WindowOK == config \in Choice /\ app \in AppState /\ Fits(app.choice, app.pack)

FlagsOK == failed \in BOOLEAN /\ spoilt \in BOOLEAN /\ orphaned \in BOOLEAN /\ (spoilt => failed)

LEMMA ShapeParts == Shape <=> FilesOK /\ HelpersOK /\ WindowOK /\ FlagsOK
  BY DEF Shape, TypeOK, FilesOK, HelpersOK, WindowOK, FlagsOK

\* The steps of the helper change neither the window nor the choices.
DiskStep(h) ==
  Read(h) \/ Move(h) \/ Save(h) \/ Build(h) \/ SwapOut(h) \/ SwapIn(h) \/ Restore(h) \/ Kill(h)

LEMMA WorkShape ==
  ASSUME Shape, NEW h \in Helper, DiskStep(h)
  PROVE  Shape'
<1> USE DEF DiskStep
<1>1. FilesOK /\ HelpersOK /\ WindowOK /\ FlagsOK /\ helper[h] \in HelperState /\ InPlace(h)
  BY ShapeParts DEF HelpersOK
<1>2. WindowOK' /\ UNCHANGED orphaned
  BY <1>1 DEF WindowOK, Read, Move, Save, Build, SwapOut, SwapIn, Restore, Kill, OnDisk
<1>3. FlagsOK'
  <2>1. (NoFault /\ UNCHANGED spoilt) \/ (Fault /\ (UNCHANGED spoilt \/ spoilt' = TRUE))
    <3>1. CASE Read(h)
      BY <3>1 DEF Read
    <3>2. CASE Move(h)
      BY <3>2 DEF Move
    <3>3. CASE Save(h) \/ Build(h) \/ SwapOut(h)
      BY <3>3 DEF Save, Build, SwapOut
    <3>4. CASE SwapIn(h)
      BY <3>4 DEF SwapIn
    <3>5. CASE Restore(h) \/ Kill(h)
      BY <3>5 DEF Restore, Kill
    <3> QED
      BY <3>1, <3>2, <3>3, <3>4, <3>5
  <2>2. CASE NoFault /\ UNCHANGED spoilt
    BY <1>1, <1>2, <2>2 DEF FlagsOK, NoFault
  <2>3. CASE failed' = TRUE /\ UNCHANGED spoilt
    BY <1>1, <1>2, <2>3 DEF FlagsOK
  <2>4. CASE failed' = TRUE /\ spoilt' = TRUE
    BY <1>1, <1>2, <2>4 DEF FlagsOK
  <2> QED
    BY <2>1, <2>2, <2>3, <2>4 DEF Fault
<1> DEFINE Rest == helper[h].seen \in Catalogue /\ Position(h) \in DOMAIN helper[h].seen
                   => helper[h].seen[Position(h)] \in Character
<1>4. Rest
  BY DEF Catalogue
<1>5. CASE Read(h)
  <2>1. FilesOK'
    <3>1. helper[h].pc = "read"
      BY <1>5 DEF Read, OnDisk
    <3>2. helper[h].job = "import" => helper[h].who \in Character
      BY <1>1, <3>1 DEF InPlace
    <3>3. /\ UNCHANGED <<list, pack, rollback>>
          /\ \/ UNCHANGED folders
             \/ helper[h].job = "import" /\ folders' = folders \cup {helper[h].who}
      BY <1>5 DEF Read
    <3> QED
      BY <1>1, <3>2, <3>3 DEF FilesOK
  <2>2. HelpersOK'
    <3>1. CASE helper[h].job = "import" /\ helper' = [helper EXCEPT ![h].pc = "save", ![h].seen = list]
      BY <1>1, <1>5, <3>1 DEF HelpersOK, InPlace, Position, HelperState, FilesOK, Read, OnDisk
    <3>2. CASE /\ helper[h].job = "remove" /\ Position(h) \in DOMAIN list
               /\ helper' = [helper EXCEPT ![h].pc = "move", ![h].seen = list]
      BY <1>1, <1>5, <3>2 DEF HelpersOK, InPlace, Position, HelperState, FilesOK, Read, OnDisk
    <3>3. CASE Tell(h, FALSE) \/ GiveUp(h)
      BY <1>1, <3>3, TellInPlace, GiveUpInPlace
    <3> QED
      BY <1>5, <3>1, <3>2, <3>3 DEF Read
  <2> QED
    BY <1>2, <1>3, <2>1, <2>2 DEF Shape, TypeOK, FilesOK, HelpersOK, WindowOK, FlagsOK
<1>6. CASE Move(h)
  <2>1. FilesOK'
    BY <1>1, <1>6 DEF FilesOK, Move
  <2>2. HelpersOK'
    <3>1. CASE helper' = [helper EXCEPT ![h].pc = "save", ![h].moved = TRUE]
      BY <1>1, <1>6, <3>1 DEF HelpersOK, InPlace, Position, HelperState, Move, OnDisk
    <3>2. CASE GiveUp(h)
      BY <1>1, <3>2, GiveUpInPlace
    <3> QED
      BY <1>6, <3>1, <3>2 DEF Move
  <2> QED
    BY <1>2, <1>3, <2>1, <2>2 DEF Shape, TypeOK, FilesOK, HelpersOK, WindowOK, FlagsOK
<1>7. CASE Save(h)
  <2>1. Rewritten(h) \in Catalogue
    <3>1. CASE helper[h].job = "remove"
      <4>1. helper[h].seen \in Catalogue /\ Position(h) \in DOMAIN helper[h].seen
        BY <1>1, <1>7, <3>1 DEF HelperState, InPlace, Save, OnDisk
      <4>2. Rewritten(h) = RemoveAt(helper[h].seen, Position(h))
        BY <3>1 DEF Rewritten
      <4> QED
        BY <4>1, <4>2, RemoveAtIsCatalogue
    <3>2. CASE helper[h].job = "import" /\ helper[h].who \in ToSet(helper[h].seen)
      BY <1>1, <3>2 DEF Rewritten, FilesOK
    <3>3. CASE helper[h].job = "import" /\ helper[h].who \notin ToSet(helper[h].seen)
      BY <1>1, <1>7, <3>3, AppendIsCatalogue DEF Rewritten, HelperState, InPlace, Save, OnDisk
    <3> QED
      BY <1>1, <3>1, <3>2, <3>3 DEF HelperState
  <2>2. FilesOK'
    BY <1>1, <1>7, <2>1 DEF FilesOK, Save
  <2>3. HelpersOK'
    <3>1. CASE Goto(h, "build")
      BY <1>1, <1>7, <3>1 DEF HelpersOK, InPlace, Position, HelperState, Save, OnDisk, Goto
    <3>2. CASE GiveUp(h)
      BY <1>1, <3>2, GiveUpInPlace
    <3> QED
      BY <1>7, <3>1, <3>2 DEF Save
  <2> QED
    BY <1>2, <1>3, <2>2, <2>3 DEF Shape, TypeOK, FilesOK, HelpersOK, WindowOK, FlagsOK
<1>8. CASE Build(h)
  <2>1. FilesOK'
    BY <1>1, <1>8 DEF FilesOK, Build, files
  <2>2. HelpersOK'
    <3>1. CASE helper' = [helper EXCEPT ![h].pc = "swap", ![h].staged = list]
      BY <1>1, <1>8, <3>1 DEF HelpersOK, InPlace, Position, HelperState, FilesOK, Build, OnDisk
    <3>2. CASE GiveUp(h)
      BY <1>1, <3>2, GiveUpInPlace
    <3> QED
      BY <1>8, <3>1, <3>2 DEF Build
  <2> QED
    BY <1>2, <1>3, <2>1, <2>2 DEF Shape, TypeOK, FilesOK, HelpersOK, WindowOK, FlagsOK
<1>9. CASE SwapOut(h)
  <2>1. FilesOK'
    BY <1>1, <1>9 DEF FilesOK, SwapOut
  <2>2. HelpersOK'
    <3>1. CASE Goto(h, "publish")
      BY <1>1, <1>9, <3>1 DEF HelpersOK, InPlace, Position, HelperState, SwapOut, OnDisk, Goto
    <3>2. CASE GiveUp(h)
      BY <1>1, <3>2, GiveUpInPlace
    <3> QED
      BY <1>9, <3>1, <3>2 DEF SwapOut
  <2> QED
    BY <1>2, <1>3, <2>1, <2>2 DEF Shape, TypeOK, FilesOK, HelpersOK, WindowOK, FlagsOK
<1>10. CASE SwapIn(h)
  <2>1. FilesOK'
    BY <1>1, <1>10 DEF FilesOK, SwapIn, HelperState
  <2>2. HelpersOK'
    BY <1>1, <1>10, TellInPlace, GiveUpInPlace DEF SwapIn
  <2> QED
    BY <1>2, <1>3, <2>1, <2>2 DEF Shape, TypeOK, FilesOK, HelpersOK, WindowOK, FlagsOK
<1>11. CASE Restore(h)
  <2>1. helper[h].seen \in Catalogue /\ helper[h].seen[Position(h)] \in Character
    BY <1>1, <1>4, <1>11 DEF HelperState, InPlace, Restore, OnDisk
  <2>2. FilesOK'
    BY <1>1, <1>11, <2>1 DEF FilesOK, Restore
  <2>3. HelpersOK'
    BY <1>1, <1>11, TellInPlace DEF Restore
  <2> QED
    BY <1>2, <1>3, <2>2, <2>3 DEF Shape, TypeOK, FilesOK, HelpersOK, WindowOK, FlagsOK
<1>12. CASE Kill(h)
  <2>1. FilesOK'
    BY <1>1, <1>12 DEF FilesOK, Kill, files
  <2>2. HelpersOK'
    BY <1>1, <1>12, TellInPlace DEF Kill
  <2> QED
    BY <1>2, <1>3, <2>1, <2>2 DEF Shape, TypeOK, FilesOK, HelpersOK, WindowOK, FlagsOK
<1> QED
  BY <1>5, <1>6, <1>7, <1>8, <1>9, <1>10, <1>11, <1>12

\* Nothing of the window is ever out of its list.
LEMMA ToggleShape == ASSUME Shape, Toggle PROVE Shape'
<1>1. FilesOK /\ HelpersOK /\ WindowOK /\ FlagsOK
  BY ShapeParts
<1>2. PICK choice \in {c \in Toggled(app.choice) : c.roster # {}} :
        /\ app' = [(IF choice.roster # app.choice.roster THEN Disarmed(app) ELSE app) EXCEPT !.choice = choice]
        /\ Persist(choice)
  BY DEF Toggle
<1>3. choice \in Choice /\ Fits(choice, app.pack)
  BY <1>1, <1>2, ToggledFits DEF WindowOK, AppState
<1>4. app' \in AppState /\ app'.choice = choice /\ app'.pack = app.pack
  BY <1>1, <1>2, <1>3 DEF WindowOK, AppState, Disarmed
<1>5. config' \in Choice
  BY <1>1, <1>2, <1>3 DEF WindowOK, Persist
<1>6. WindowOK'
  BY <1>3, <1>4, <1>5 DEF WindowOK, Fits
<1>7. FilesOK' /\ HelpersOK'
  BY <1>1 DEF Toggle, files, FilesOK, HelpersOK, InPlace, Position
<1>8. FlagsOK'
  <2>1. UNCHANGED <<spoilt, orphaned>> /\ (UNCHANGED failed \/ failed' = TRUE)
    BY <1>2 DEF Toggle, Persist, Fault, NoFault
  <2>2. CASE UNCHANGED failed
    BY <1>1, <2>1, <2>2 DEF FlagsOK
  <2>3. CASE failed' = TRUE
    BY <1>1, <2>1, <2>3 DEF FlagsOK
  <2> QED
    BY <2>1, <2>2, <2>3
<1> QED
  BY <1>6, <1>7, <1>8 DEF Shape, TypeOK, FilesOK, HelpersOK, WindowOK, FlagsOK

LEMMA ClickShape ==
  ASSUME Shape,
         Disarm \/ (\E s \in Slots(app.pack) : Arm(s) \/ RemoveRow(s)) \/ (\E c \in Character : Import(c))
  PROVE  Shape'
<1>1. FilesOK /\ HelpersOK /\ WindowOK /\ FlagsOK
  BY ShapeParts
<1>2. FilesOK' /\ UNCHANGED <<config, failed, spoilt, orphaned>>
  BY <1>1 DEF Disarm, Arm, RemoveRow, Import, files, history, FilesOK
<1>3. FlagsOK'
  BY <1>1, <1>2 DEF FlagsOK
<1>4. app' \in AppState /\ app'.choice = app.choice /\ app'.pack = app.pack
  <2>1. CASE Disarm
    BY <1>1, <2>1 DEF Disarm, Disarmed, WindowOK, AppState
  <2>2. ASSUME NEW s \in Slots(app.pack), Arm(s)
        PROVE  app' \in AppState /\ app'.choice = app.choice /\ app'.pack = app.pack
    <3>1. FaceAt(app.pack, s) \in Face /\ s \in Slot
      BY <1>1, <2>2, SlotsOf DEF Arm, WindowOK, AppState, Catalogue, Slot
    <3> QED
      BY <1>1, <2>2, <3>1 DEF Arm, WindowOK, AppState
  <2>3. CASE (\E s \in Slots(app.pack) : RemoveRow(s)) \/ (\E c \in Character : Import(c))
    BY <1>1, <2>3 DEF RemoveRow, Import, Disarmed, WindowOK, AppState
  <2> QED
    BY <2>1, <2>2, <2>3
<1>5. WindowOK'
  BY <1>1, <1>2, <1>4 DEF WindowOK, Fits
<1>6. HelpersOK'
  <2>1. CASE UNCHANGED helper
    BY <1>1, <2>1 DEF HelpersOK, InPlace, Position
  <2>2. ASSUME NEW s \in Slots(app.pack), Launch("remove", s, app.meant)  PROVE HelpersOK'
    <3>1. s \in Nat
      BY <1>1, SlotsOf DEF WindowOK, AppState, Catalogue
    <3> QED
      BY <1>1, <2>2, <3>1, LaunchInPlace DEF WindowOK, AppState
  <2>3. ASSUME NEW c \in Character, Launch("import", 0, c)  PROVE HelpersOK'
    BY <1>1, <2>3, LaunchInPlace DEF Face
  <2> QED
    BY <2>1, <2>2, <2>3 DEF Disarm, Arm, RemoveRow, Import
<1> QED
  BY <1>2, <1>3, <1>5, <1>6 DEF Shape, TypeOK, FilesOK, HelpersOK, WindowOK, FlagsOK

LEMMA QuitShape == ASSUME Shape, Quit PROVE Shape'
<1>1. FilesOK /\ HelpersOK /\ WindowOK /\ FlagsOK
  BY ShapeParts
<1>2. FilesOK' /\ WindowOK'
  BY <1>1, Starts DEF Quit, files, FilesOK, WindowOK
<1>3. HelpersOK'
  <2>1. helper' = [h \in Helper |-> IF helper[h] = Idle THEN Idle ELSE [helper[h] EXCEPT !.mine = FALSE]]
    BY DEF Quit
  <2>2. ASSUME NEW h \in Helper  PROVE helper'[h] \in HelperState /\ InPlace(h)'
    <3>1. CASE helper[h] = Idle
      BY <2>1, <3>1, Starts DEF InPlace, Idle
    <3>2. CASE helper[h] # Idle
      BY <1>1, <2>1, <3>2, ZenonT(30) DEF HelpersOK, HelperState, InPlace, Position
    <3> QED
      BY <3>1, <3>2
  <2> QED
    BY <2>1, <2>2 DEF HelpersOK
<1>4. FlagsOK'
  <2>1. UNCHANGED <<failed, spoilt>> /\ orphaned' \in BOOLEAN
    BY <1>1 DEF Quit, FlagsOK
  <2> QED
    BY <1>1, <2>1 DEF FlagsOK
<1> QED
  BY <1>2, <1>3, <1>4 DEF Shape, TypeOK, FilesOK, HelpersOK, WindowOK, FlagsOK

LEMMA OpenShape == ASSUME Shape, Open PROVE Shape'
<1>1. FilesOK /\ HelpersOK /\ WindowOK /\ FlagsOK
  BY ShapeParts
<1>2. WindowOK'
  BY <1>1, OpenedFits DEF Open, WindowOK, Shape
<1>3. FilesOK' /\ HelpersOK' /\ FlagsOK'
  BY <1>1 DEF Open, files, FilesOK, HelpersOK, FlagsOK, InPlace, Position
<1> QED
  BY <1>2, <1>3 DEF Shape, TypeOK, FilesOK, HelpersOK, WindowOK, FlagsOK

LEMMA FinishShape == ASSUME Shape, NEW h \in Helper, Finish(h) PROVE Shape'
<1>1. FilesOK /\ HelpersOK /\ WindowOK /\ FlagsOK
  BY ShapeParts
<1>2. FilesOK'
  BY <1>1 DEF Finish, files, FilesOK
<1>3. HelpersOK'
  <2>1. Idle.pc = "idle" /\ Idle.moved = FALSE /\ Idle.job = "import" /\ Idle \in HelperState
    BY Starts DEF Idle
  <2>2. helper' = [helper EXCEPT ![h] = Idle]
    BY DEF Finish
  <2> QED
    BY <1>1, <2>1, <2>2 DEF HelpersOK, InPlace, Position
<1>4. CASE UNCHANGED <<app, config, chosen>> /\ NoFault
  <2>1. WindowOK'
    BY <1>1, <1>4 DEF WindowOK
  <2>2. FlagsOK'
    BY <1>1, <1>4 DEF Finish, FlagsOK, NoFault
  <2> QED
    BY <1>2, <1>3, <2>1, <2>2 DEF Shape, TypeOK, FilesOK, HelpersOK, WindowOK, FlagsOK
<1>5. CASE KeepShowing /\ (Fault \/ NoFault)
  <2>1. WindowOK'
    BY <1>1, <1>5 DEF WindowOK, KeepShowing, Disarmed, AppState, Fits
  <2>2. FlagsOK'
    <3>1. UNCHANGED <<spoilt, orphaned>>
      BY DEF Finish
    <3>2. CASE NoFault
      BY <1>1, <3>1, <3>2 DEF FlagsOK, NoFault
    <3>3. CASE Fault
      BY <1>1, <3>1, <3>3 DEF FlagsOK, Fault
    <3> QED
      BY <1>5, <3>2, <3>3
  <2> QED
    BY <1>2, <1>3, <2>1, <2>2 DEF Shape, TypeOK, FilesOK, HelpersOK, WindowOK, FlagsOK
<1>6. CASE pack # Gone /\ Reload
  <2>1. pack \in Catalogue /\ pack \in Seq(Character)
    BY <1>1, <1>6 DEF FilesOK, Catalogue
  <2>2. WindowOK'
    BY <1>1, <1>6, <2>1, ResolveFits DEF WindowOK, Reload, Disarmed, AppState
  <2>3. FlagsOK'
    BY <1>1, <1>6 DEF Finish, Reload, FlagsOK, NoFault
  <2> QED
    BY <1>2, <1>3, <2>2, <2>3 DEF Shape, TypeOK, FilesOK, HelpersOK, WindowOK, FlagsOK
<1>7. CASE pack # Gone /\ CountMatches(helper[h].slot) /\ Shift(helper[h].slot)
  <2> DEFINE choice == AfterRemoval(app.choice, helper[h].slot, Count(pack))
  <2>1. /\ pack \in Catalogue /\ pack \in Seq(Character)
        /\ app.pack \in Seq(Character) /\ app.choice \in Choice /\ Fits(app.choice, app.pack)
        /\ helper[h].slot \in Nat
    BY <1>1, <1>7 DEF FilesOK, Catalogue, WindowOK, AppState, HelpersOK, HelperState
  <2>2. choice \in Choice /\ Fits(choice, pack)
    BY <1>7, <2>1, AfterRemovalFits DEF CountMatches
  <2>3. /\ app' = [Disarmed(app) EXCEPT !.busy = FALSE, !.pack = pack, !.choice = choice]
        /\ Persist(choice)
    BY <1>7 DEF Shift
  <2> HIDE DEF choice
  <2>4. WindowOK'
    <3>1. app' \in AppState /\ app'.pack = pack /\ app'.choice = choice
      BY <1>1, <2>1, <2>2, <2>3 DEF WindowOK, Disarmed, AppState
    <3>2. config' \in Choice
      BY <1>1, <2>2, <2>3 DEF Persist, WindowOK
    <3> QED
      BY <2>2, <3>1, <3>2 DEF WindowOK, Fits
  <2>5. FlagsOK'
    <3>1. UNCHANGED <<spoilt, orphaned>>
      BY DEF Finish
    <3>2. CASE NoFault
      BY <1>1, <3>1, <3>2 DEF FlagsOK, NoFault
    <3>3. CASE Fault
      BY <1>1, <3>1, <3>3 DEF FlagsOK, Fault
    <3> QED
      BY <2>3, <3>2, <3>3 DEF Persist
  <2> QED
    BY <1>2, <1>3, <2>4, <2>5 DEF Shape, TypeOK, FilesOK, HelpersOK, WindowOK, FlagsOK
<1> QED
  BY <1>4, <1>5, <1>6, <1>7 DEF Finish

LEMMA ShapeKept == ASSUME Shape, [Next]_vars PROVE Shape'
<1>1. CASE Toggle \/ Disarm \/ Quit \/ Open
  BY <1>1, ToggleShape, QuitShape, OpenShape, ClickShape
<1>2. CASE \E s \in Slots(app.pack) : Arm(s) \/ RemoveRow(s)
  BY <1>2, ClickShape
<1>3. CASE \E c \in Character : Import(c)
  BY <1>3, ClickShape
<1>4. CASE \E h \in Helper : Work(h) \/ Kill(h)
  BY <1>4, WorkShape, FinishShape DEF Work, DiskStep
<1>5. CASE UNCHANGED vars
  BY <1>5 DEF Shape, TypeOK, InPlace, Position, vars, files, history
<1> QED
  BY <1>1, <1>2, <1>3, <1>4, <1>5 DEF Next
-----------------------------------------------------------------------------
(* Who is at work.                                                         *)

\* A step on the disk is of a helper that was started, and of no other; it keeps
\* whom it works for and what it was told to do.
LEMMA StepOfOne ==
  ASSUME Shape, NEW h \in Helper, DiskStep(h)
  PROVE  /\ h \in AtWork /\ AtWork' = AtWork
         /\ \A g \in Helper \ {h} : helper'[g] = helper[g]
         /\ helper'[h].mine = helper[h].mine /\ helper'[h].job = helper[h].job
         /\ helper'[h].slot = helper[h].slot
         /\ UNCHANGED <<config, app, quits, saves, chosen, orphaned>>
<1>1. /\ helper[h] \in HelperState /\ helper \in [Helper -> HelperState]
  BY DEF Shape, TypeOK
<1>2. Idle.pc = "idle"
  BY DEF Idle
<1>3. helper[h].pc # "idle" /\ UNCHANGED <<config, app, quits, saves, chosen, orphaned>>
  BY DEF DiskStep, Read, Move, Save, Build, SwapOut, SwapIn, Restore, Kill, OnDisk
<1> DEFINE Kept == /\ \A g \in Helper \ {h} : helper'[g] = helper[g]
                   /\ helper'[h].mine = helper[h].mine /\ helper'[h].job = helper[h].job
                   /\ helper'[h].slot = helper[h].slot /\ helper'[h].pc # "idle"
<1>4. ASSUME NEW ok, Tell(h, ok)  PROVE Kept
  BY <1>1, <1>4 DEF Tell, Idle
<1>5. ASSUME NEW pc, pc # "idle", Goto(h, pc)  PROVE Kept
  BY <1>1, <1>5 DEF Goto, HelperState
<1>6. GiveUp(h) => Kept
  BY <1>4, <1>5 DEF GiveUp
<1>7. CASE Read(h)
  <2>1. helper' = [helper EXCEPT ![h].pc = "save", ![h].seen = list] => Kept
    BY <1>1 DEF HelperState
  <2>2. helper' = [helper EXCEPT ![h].pc = "move", ![h].seen = list] => Kept
    BY <1>1 DEF HelperState
  <2>3. Kept
    BY <1>4, <1>6, <1>7, <2>1, <2>2 DEF Read
  <2> QED
    BY <1>1, <1>2, <1>3, <2>3 DEF AtWork
<1>8. CASE Move(h)
  <2>1. helper' = [helper EXCEPT ![h].pc = "save", ![h].moved = TRUE] => Kept
    BY <1>1 DEF HelperState
  <2>2. Kept
    BY <1>6, <1>8, <2>1 DEF Move
  <2> QED
    BY <1>1, <1>2, <1>3, <2>2 DEF AtWork
<1>9. CASE Build(h)
  <2>1. helper' = [helper EXCEPT ![h].pc = "swap", ![h].staged = list] => Kept
    BY <1>1 DEF HelperState
  <2>2. Kept
    BY <1>6, <1>9, <2>1 DEF Build
  <2> QED
    BY <1>1, <1>2, <1>3, <2>2 DEF AtWork
<1>10. CASE Save(h) \/ SwapOut(h) \/ SwapIn(h) \/ Restore(h) \/ Kill(h)
  <2>1. Kept
    BY <1>4, <1>5, <1>6, <1>10 DEF Save, SwapOut, SwapIn, Restore, Kill
  <2> QED
    BY <1>1, <1>2, <1>3, <2>1 DEF AtWork
<1> QED
  BY <1>7, <1>8, <1>9, <1>10 DEF DiskStep

\* Nor is there more than one, where none was left behind.
LEMMA OneAtWork == Shape /\ Awaited /\ Single => OneHelper
  BY DEF Awaited, Single, AtWork, OneHelper

LEMMA AwaitedKept == ASSUME Shape, Awaited, [Next]_vars PROVE Awaited'
<1> SUFFICES ASSUME orphaned' = FALSE PROVE Awaited'
  BY ShapeKept DEF Awaited, Shape, TypeOK
<1>1. CASE Toggle \/ Disarm \/ Open \/ (\E s \in Slots(app.pack) : Arm(s)) \/ UNCHANGED vars
  <2>1. UNCHANGED <<helper, orphaned>> /\ (app.up => app'.up /\ app'.busy = app.busy)
    BY <1>1 DEF Toggle, Disarm, Open, Arm, Disarmed, vars, history, Shape, TypeOK, AppState
  <2> QED
    BY <2>1 DEF Awaited, AtWork
<1>2. CASE Quit
  <2>1. ~orphaned /\ AtWork = {}
    BY <1>2 DEF Quit, AtWork, Shape, TypeOK
  <2>2. AtWork' = {}
    BY <1>2, <2>1 DEF Quit, AtWork
  <2> QED
    BY <2>2 DEF Awaited
<1>3. ASSUME app.up, ~app.busy, NEW job, NEW slot, NEW who, Launch(job, slot, who),
             app'.up, app'.busy, UNCHANGED orphaned
      PROVE  Awaited'
  <2>1. ~orphaned /\ AtWork = {}
    BY <1>3 DEF Awaited
  <2>2. PICK h \in Helper : helper' = [helper EXCEPT ![h] = [Idle EXCEPT !.pc = "read", !.job = job, !.slot = slot,
                                                                         !.who = who, !.mine = TRUE]]
    BY <1>3 DEF Launch
  <2>3. AtWork' \subseteq {h} /\ helper'[h].mine
    BY <2>1, <2>2 DEF AtWork, Idle, Shape, TypeOK
  <2> QED
    BY <1>3, <2>3 DEF Awaited
<1>4. CASE (\E s \in Slots(app.pack) : RemoveRow(s)) \/ (\E c \in Character : Import(c))
  <2>1. app.up /\ ~app.busy /\ UNCHANGED orphaned
    BY <1>4 DEF RemoveRow, Import, history
  <2>2. CASE UNCHANGED helper
    BY <2>1, <2>2 DEF Awaited, AtWork
  <2>3. CASE helper' # helper
    <3>1. app' = [app EXCEPT !.busy = TRUE] \/ app' = [Disarmed(app) EXCEPT !.busy = TRUE]
      BY <1>4, <2>3 DEF RemoveRow, Import
    <3>2. app'.up /\ app'.busy
      BY <2>1, <3>1 DEF Disarmed, Shape, TypeOK, AppState
    <3>3. \E job, slot, who : Launch(job, slot, who)
      BY <1>4, <2>3 DEF RemoveRow, Import
    <3> QED
      BY <1>3, <2>1, <3>2, <3>3
  <2> QED
    BY <2>2, <2>3
<1>5. ASSUME NEW h \in Helper, DiskStep(h)  PROVE Awaited'
  <2>1. h \in AtWork /\ AtWork' = AtWork /\ UNCHANGED <<app, orphaned>>
        /\ \A g \in Helper \ {h} : helper'[g] = helper[g]
        /\ helper'[h].mine = helper[h].mine
    BY <1>5, StepOfOne
  <2>2. ~orphaned
    BY <2>1
  <2>3. \A g \in AtWork' : app'.up /\ app'.busy /\ helper'[g].mine /\ \A k \in AtWork' : k = g
    <3>1. (\A g \in AtWork : g = h) /\ app.up /\ app.busy /\ helper[h].mine
      BY <2>1, <2>2 DEF Awaited
    <3>2. app'.up /\ app'.busy
      BY <2>1, <3>1
    <3>3. helper'[h].mine
      <4>1. helper'[h].mine = helper[h].mine /\ helper[h].mine
        BY <1>5, <3>1, StepOfOne
      <4> QED
        BY <4>1, Zenon
    <3> QED
      BY <2>1, <3>1, <3>2, <3>3
  <2> QED
    BY <2>3 DEF Awaited
<1>6. ASSUME NEW h \in Helper, Finish(h)  PROVE Awaited'
  <2>1. h \in AtWork /\ helper' = [helper EXCEPT ![h] = Idle] /\ UNCHANGED orphaned
    BY <1>6 DEF Finish, AtWork, Idle
  <2>2. \A g \in AtWork : g = h
    BY <2>1 DEF Awaited
  <2>3. AtWork' = {}
    BY <2>1, <2>2 DEF AtWork, Shape, TypeOK
  <2> QED
    BY <2>3 DEF Awaited
<1> QED
  BY <1>1, <1>2, <1>4, <1>5, <1>6 DEF Next, Work, DiskStep
-----------------------------------------------------------------------------
(* Every character has its source, and there is a pack.                    *)

\* What a throw leaves behind, when nothing could not be put back.
LEMMA GiveUpSourced ==
  ASSUME Shape, NEW h \in Helper, h \in AtWork, GiveUp(h), helper[h].pc # "restore",
         ~helper[h].moved => ToSet(list') \subseteq folders',
         helper[h].moved => ToSet(list') \cup ToSet(helper[h].seen) \subseteq folders' \cup {Source(h)},
         pack' # Gone
  PROVE  Sourced(h)'
<1>1. helper[h] \in HelperState /\ helper \in [Helper -> HelperState]
  BY DEF Shape, TypeOK
<1>2. CASE helper[h].moved
  <2>1. helper' = [helper EXCEPT ![h].pc = "restore"]
    BY <1>2 DEF GiveUp, Goto
  <2>2. /\ helper'[h].pc = "restore" /\ helper'[h].moved /\ helper'[h].seen = helper[h].seen
        /\ helper'[h].slot = helper[h].slot
    BY <1>1, <1>2, <2>1 DEF HelperState
  <2>3. Source(h)' = Source(h)
    BY <2>2 DEF Source, Position
  <2> QED
    BY <1>2, <2>2, <2>3 DEF Sourced
<1>3. CASE ~helper[h].moved
  <2>1. helper'[h].pc = "report" /\ ~helper'[h].moved
    BY <1>1, <1>3 DEF GiveUp, Tell, Idle
  <2> QED
    BY <1>3, <2>1 DEF Sourced
<1> QED
  BY <1>2, <1>3

\* One step of the helper on the disk.
LEMMA DiskStepSourced ==
  ASSUME Shape, NEW h \in Helper, DiskStep(h), Sourced(h), spoilt' = FALSE
  PROVE  Sourced(h)'
<1>1. /\ h \in AtWork /\ helper[h] \in HelperState /\ helper \in [Helper -> HelperState] /\ InPlace(h)
      /\ list \in Catalogue /\ pack \in Catalogue \cup {Gone} /\ Gone \notin Catalogue
  BY StepOfOne, CatalogAssumption DEF Shape, TypeOK, Catalogue
<1>2. CASE Read(h)
  <2>1. /\ helper[h].pc = "read" /\ ~helper[h].moved /\ ToSet(list) \subseteq folders
        /\ UNCHANGED <<list, pack>> /\ pack # Gone
    BY <1>1, <1>2 DEF Read, OnDisk, Sourced, InPlace
  <2>2. CASE /\ helper[h].job = "import" /\ folders' = folders \cup {helper[h].who}
             /\ helper' = [helper EXCEPT ![h].pc = "save", ![h].seen = list]
    BY <1>1, <2>1, <2>2 DEF Sourced, HelperState
  <2>3. CASE /\ helper[h].job = "remove" /\ UNCHANGED folders
             /\ helper' = [helper EXCEPT ![h].pc = "move", ![h].seen = list]
    BY <1>1, <2>1, <2>3 DEF Sourced, HelperState
  <2>4. CASE (Tell(h, FALSE) \/ GiveUp(h)) /\ UNCHANGED folders
    <3>1. GiveUp(h)
      BY <2>1, <2>4 DEF GiveUp
    <3> QED
      BY <1>1, <2>1, <2>4, <3>1, GiveUpSourced
  <2> QED
    BY <1>2, <2>2, <2>3, <2>4 DEF Read
<1>3. CASE Move(h)
  <2>1. /\ helper[h].pc = "move" /\ ~helper[h].moved /\ ToSet(list) \subseteq folders
        /\ UNCHANGED <<list, pack>> /\ pack # Gone
        /\ helper[h].seen = list /\ helper[h].job = "remove"
    BY <1>1, <1>3 DEF Move, OnDisk, Sourced, InPlace
  <2>2. CASE /\ folders' = folders \ {Source(h)}
             /\ helper' = [helper EXCEPT ![h].pc = "save", ![h].moved = TRUE]
    <3>1. /\ helper'[h].pc = "save" /\ helper'[h].moved /\ helper'[h].seen = list
          /\ helper'[h].slot = helper[h].slot /\ helper'[h].job = "remove"
      BY <1>1, <2>1, <2>2 DEF HelperState
    <3>2. Source(h)' = Source(h)
      BY <2>1, <3>1 DEF Source, Position
    <3> QED
      BY <2>1, <2>2, <3>1, <3>2 DEF Sourced
  <2>3. CASE GiveUp(h) /\ UNCHANGED folders
    BY <1>1, <2>1, <2>3, GiveUpSourced
  <2> QED
    BY <1>3, <2>2, <2>3 DEF Move, Source
<1>4. CASE Save(h)
  <2>1. helper[h].pc = "save" /\ UNCHANGED <<folders, pack>> /\ pack # Gone /\ helper[h].seen = list
    BY <1>1, <1>4 DEF Save, OnDisk, Sourced
  <2>2. CASE GiveUp(h) /\ UNCHANGED list
    <3>1. /\ ~helper[h].moved => ToSet(list) \subseteq folders
          /\ helper[h].moved => ToSet(list) \cup ToSet(helper[h].seen) \subseteq folders \cup {Source(h)}
      BY DEF Sourced
    <3> QED
      BY <1>1, <2>1, <2>2, <3>1, GiveUpSourced
  <2>3. CASE list' = Rewritten(h) /\ Goto(h, "build")
    <3>1. /\ helper'[h].pc = "build" /\ helper'[h].moved = helper[h].moved /\ helper'[h].seen = list
          /\ helper'[h].slot = helper[h].slot /\ helper'[h].job = helper[h].job
      BY <1>1, <2>1, <2>3 DEF Goto, HelperState
    <3>2. Source(h)' = Source(h)
      BY <2>1, <3>1 DEF Source, Position
    <3>3. CASE helper[h].job = "remove"
      <4>1. helper[h].moved /\ Position(h) \in DOMAIN list
        BY <1>1, <2>1, <3>3 DEF InPlace
      <4>2. ToSet(list') \subseteq ToSet(list)
        BY <1>1, <2>1, <2>3, <3>3, <4>1, RemoveAtIsCatalogue DEF Rewritten
      <4> QED
        BY <2>1, <3>1, <3>2, <4>1, <4>2 DEF Sourced
    <3>4. CASE helper[h].job = "import"
      <4>1. /\ ~helper[h].moved /\ ToSet(list) \subseteq folders
            /\ helper[h].who \in folders /\ helper[h].who \in Character
        BY <1>1, <2>1, <3>4 DEF InPlace, Sourced
      <4>2. ToSet(list') \subseteq ToSet(list) \cup {helper[h].who}
        BY <1>1, <2>1, <2>3, <3>4, <4>1, AppendIsCatalogue DEF Rewritten
      <4> QED
        BY <2>1, <3>1, <4>1, <4>2 DEF Sourced
    <3> QED
      BY <1>1, <3>3, <3>4 DEF HelperState
  <2> QED
    BY <1>4, <2>2, <2>3 DEF Save
<1>5. CASE Build(h)
  <2>1. helper[h].pc = "build" /\ UNCHANGED <<list, folders, pack>> /\ pack # Gone
    BY <1>5 DEF Build, OnDisk, Sourced, files
  <2>2. /\ ~helper[h].moved => ToSet(list) \subseteq folders
        /\ helper[h].moved => ToSet(list) \cup ToSet(helper[h].seen) \subseteq folders \cup {Source(h)}
    BY DEF Sourced
  <2>3. CASE GiveUp(h)
    BY <1>1, <2>1, <2>2, <2>3, GiveUpSourced
  <2>4. CASE ToSet(list) \subseteq folders /\ helper' = [helper EXCEPT ![h].pc = "swap", ![h].staged = list]
    <3>1. /\ helper'[h].pc = "swap" /\ helper'[h].moved = helper[h].moved /\ helper'[h].seen = helper[h].seen
          /\ helper'[h].slot = helper[h].slot
      BY <1>1, <2>4 DEF HelperState
    <3>2. Source(h)' = Source(h)
      BY <3>1 DEF Source, Position
    <3> QED
      BY <2>1, <2>2, <2>4, <3>1, <3>2 DEF Sourced
  <2> QED
    BY <1>5, <2>3, <2>4 DEF Build
<1>6. CASE SwapOut(h)
  <2>1. helper[h].pc = "swap" /\ UNCHANGED <<list, folders>> /\ pack # Gone /\ ToSet(list) \subseteq folders
    BY <1>6 DEF SwapOut, OnDisk, Sourced
  <2>2. helper[h].moved => ToSet(list) \cup ToSet(helper[h].seen) \subseteq folders \cup {Source(h)}
    BY DEF Sourced
  <2>3. CASE GiveUp(h) /\ UNCHANGED pack
    BY <1>1, <2>1, <2>2, <2>3, GiveUpSourced
  <2>4. CASE rollback' = pack /\ pack' = Gone /\ Goto(h, "publish")
    <3>1. /\ helper'[h].pc = "publish" /\ helper'[h].moved = helper[h].moved /\ helper'[h].seen = helper[h].seen
          /\ helper'[h].slot = helper[h].slot
      BY <1>1, <2>4 DEF Goto, HelperState
    <3>2. Source(h)' = Source(h)
      BY <3>1 DEF Source, Position
    <3> QED
      BY <2>1, <2>2, <2>4, <3>1, <3>2 DEF Sourced
  <2> QED
    BY <1>6, <2>3, <2>4 DEF SwapOut
<1>7. CASE SwapIn(h)
  <2>1. /\ helper[h].pc = "publish" /\ UNCHANGED <<list, folders>> /\ pack = Gone /\ rollback # Gone
        /\ ToSet(list) \subseteq folders
    BY <1>7 DEF SwapIn, OnDisk, Sourced
  <2>2. helper[h].moved => ToSet(list) \cup ToSet(helper[h].seen) \subseteq folders \cup {Source(h)}
    BY DEF Sourced
  <2>3. CASE pack' = rollback /\ GiveUp(h)
    BY <1>1, <2>1, <2>2, <2>3, GiveUpSourced
  <2>4. CASE pack' = helper[h].staged /\ Tell(h, TRUE)
    <3>1. helper'[h].pc = "report" /\ ~helper'[h].moved
      BY <1>1, <2>4 DEF Tell, Idle
    <3> QED
      BY <1>1, <2>1, <2>4, <3>1 DEF Sourced, HelperState
  <2> QED
    BY <1>7, <2>1, <2>3, <2>4 DEF SwapIn
<1>8. CASE Restore(h)
  <2>1. /\ helper[h].pc = "restore" /\ helper[h].moved /\ UNCHANGED pack /\ pack # Gone /\ Tell(h, FALSE)
        /\ list' \in {list, helper[h].seen} /\ folders' = folders \cup {Source(h)}
    BY <1>1, <1>8 DEF Restore, OnDisk, Sourced, InPlace, Source
  <2>2. ToSet(list) \cup ToSet(helper[h].seen) \subseteq folders \cup {Source(h)}
    BY <2>1 DEF Sourced
  <2>3. ToSet(list') \subseteq folders'
    BY <2>1, <2>2
  <2>4. helper'[h].pc = "report" /\ ~helper'[h].moved
    BY <1>1, <2>1 DEF Tell, Idle
  <2> QED
    BY <2>1, <2>3, <2>4 DEF Sourced
<1>9. CASE Kill(h)
  BY <1>9 DEF Kill
<1> QED
  BY <1>2, <1>3, <1>4, <1>5, <1>6, <1>7, <1>8, <1>9 DEF DiskStep

\* The window starts a helper on a sound disk, and gets one back.
LEMMA StockedKept ==
  ASSUME Shape, Stocked, OneHelper, OneHelper', [Next]_vars
  PROVE  Stocked'
<1> SUFFICES ASSUME spoilt' = FALSE PROVE Stocked'
  BY ShapeKept DEF Stocked, Shape, TypeOK
<1>1. ~spoilt
  BY DEF Next, Toggle, Disarm, Quit, Open, Arm, RemoveRow, Import, Work, Read, Move, Save, Build, SwapOut,
         SwapIn, Restore, Finish, Kill, vars, history
<1>2. /\ \A h \in AtWork : Sourced(h)
      /\ AtWork = {} => ToSet(list) \subseteq folders /\ pack # Gone
  BY <1>1 DEF Stocked
<1>3. \A g, h \in AtWork : g = h
  BY DEF OneHelper
<1>4. CASE Toggle \/ Disarm \/ Open \/ (\E s \in Slots(app.pack) : Arm(s)) \/ UNCHANGED vars
  <2>1. UNCHANGED <<helper, list, folders, pack, rollback>>
    BY <1>4 DEF Toggle, Disarm, Open, Arm, vars, files
  <2> QED
    BY <1>2, <2>1 DEF Stocked, AtWork, Sourced, Source, Position
<1>5. CASE Quit
  <2>1. UNCHANGED <<list, folders, pack, rollback>>
    BY <1>5 DEF Quit, files
  <2>2. ASSUME NEW h \in Helper
        PROVE  /\ h \in AtWork' <=> h \in AtWork
               /\ h \in AtWork => /\ helper'[h].pc = helper[h].pc /\ helper'[h].moved = helper[h].moved
                                  /\ helper'[h].seen = helper[h].seen /\ helper'[h].job = helper[h].job
                                  /\ helper'[h].who = helper[h].who /\ helper'[h].slot = helper[h].slot
    <3>1. CASE helper[h] = Idle
      BY <1>5, <3>1 DEF Quit, AtWork
    <3>2. CASE helper[h] # Idle
      <4>1. helper'[h] = [helper[h] EXCEPT !.mine = FALSE] /\ helper[h] \in HelperState
        BY <1>5, <3>2 DEF Quit, Shape, TypeOK
      <4>2. helper[h].pc # "idle"
        BY <3>2 DEF Shape, InPlace
      <4>3. helper'[h] # Idle
        BY <4>1, <4>2 DEF HelperState, Idle
      <4> QED
        BY <3>2, <4>1, <4>3 DEF AtWork, HelperState
    <3> QED
      BY <3>1, <3>2
  <2>3. \A h \in AtWork' : Sourced(h)'
    BY <1>2, <2>1, <2>2 DEF Sourced, Source, Position, AtWork
  <2>4. AtWork' = {} => AtWork = {}
    BY <2>2 DEF AtWork
  <2> QED
    BY <1>2, <2>1, <2>3, <2>4 DEF Stocked
<1>6. CASE (\E s \in Slots(app.pack) : RemoveRow(s)) \/ (\E c \in Character : Import(c))
  <2>1. app.up /\ ~app.busy /\ UNCHANGED <<list, folders, pack, rollback, orphaned>>
    BY <1>6 DEF RemoveRow, Import, files, history
  <2>2. CASE UNCHANGED helper
    BY <1>2, <2>1, <2>2 DEF Stocked, AtWork, Sourced, Source, Position
  <2>3. CASE helper' # helper
    <3>1. pack # Gone /\ \E job, slot, who : Launch(job, slot, who)
      BY <1>6, <2>3 DEF RemoveRow, Import
    <3>0. PICK job, slot, who : Launch(job, slot, who)
      BY <3>1
    <3>2. PICK h \in Helper :
            /\ helper[h] = Idle
            /\ helper' = [helper EXCEPT ![h] = [Idle EXCEPT !.pc = "read", !.job = job, !.slot = slot,
                                                            !.who = who, !.mine = TRUE]]
      BY <3>0 DEF Launch
    <3>3. /\ helper'[h].pc = "read" /\ ~helper'[h].moved /\ \A g \in Helper \ {h} : helper'[g] = helper[g]
          /\ helper'[h] # Idle
      BY <3>2 DEF Shape, TypeOK, Idle
    <3>4. AtWork = {} /\ ToSet(list) \subseteq folders
      <4>1. h \in AtWork' /\ h \notin AtWork /\ \A g \in AtWork : g \in AtWork'
        BY <3>2, <3>3 DEF AtWork
      <4> QED
        BY <1>2, <4>1 DEF OneHelper
    <3>5. AtWork' = {h}
      BY <3>3, <3>4 DEF AtWork
    <3>6. Sourced(h)'
      BY <2>1, <3>1, <3>3, <3>4 DEF Sourced
    <3> QED
      BY <3>5, <3>6 DEF Stocked
  <2> QED
    BY <2>2, <2>3
<1>7. ASSUME NEW h \in Helper, DiskStep(h)  PROVE Stocked'
  <2>1. h \in AtWork /\ AtWork' = AtWork
    BY <1>7, StepOfOne
  <2>2. Sourced(h)'
    BY <1>2, <1>7, <2>1, DiskStepSourced
  <2> QED
    BY <1>3, <2>1, <2>2 DEF Stocked
<1>8. ASSUME NEW h \in Helper, Finish(h)  PROVE Stocked'
  <2>1. /\ h \in AtWork /\ helper[h].pc = "report" /\ helper' = [helper EXCEPT ![h] = Idle]
        /\ UNCHANGED <<list, folders, pack, rollback>>
    BY <1>8 DEF Finish, AtWork, Idle, files
  <2>2. AtWork' = {}
    BY <1>3, <2>1 DEF AtWork, Shape, TypeOK
  <2>3. ToSet(list) \subseteq folders /\ pack # Gone
    BY <1>2, <2>1 DEF Sourced, Shape, InPlace
  <2> QED
    BY <2>1, <2>2, <2>3 DEF Stocked
<1> QED
  BY <1>4, <1>5, <1>6, <1>7, <1>8 DEF Next, Work, DiskStep

LEMMA SingleBefore == ASSUME Shape, Single', [Next]_vars PROVE Single
<1>1. orphaned => orphaned'
  <2>1. CASE \E h \in Helper : DiskStep(h)
    BY <2>1, StepOfOne
  <2>2. CASE ~\E h \in Helper : DiskStep(h)
    BY <2>2 DEF Next, Toggle, Disarm, Quit, Open, Arm, RemoveRow, Import, Work, DiskStep, Finish, vars, history
  <2> QED
    BY <2>1, <2>2
<1> QED
  BY <1>1 DEF Single

LEMMA SoundKept == ASSUME Shape, Awaited, Sound, [Next]_vars PROVE Sound'
<1> SUFFICES ASSUME Single' PROVE Stocked'
  BY DEF Sound
<1>1. Single /\ OneHelper /\ Stocked
  BY SingleBefore, OneAtWork DEF Sound
<1>2. OneHelper'
  BY ShapeKept, AwaitedKept, OneAtWork DEF OneHelper, Single, Awaited, AtWork
<1> QED
  BY <1>1, <1>2, StockedKept

-----------------------------------------------------------------------------
(* While nothing fails, the copies of the list agree and choices follow.   *)

\* What the helper does to its copy of the list is what was asked of it.
LEMMA DiskStepInStep ==
  ASSUME Shape, NEW h \in Helper, DiskStep(h), Sourced(h), InStep(h), failed' = FALSE
  PROVE  InStep(h)'
<1>1. /\ helper[h] \in HelperState /\ helper \in [Helper -> HelperState] /\ InPlace(h)
      /\ app.pack \in Catalogue /\ app.pack \in Seq(Character)
      /\ list \in Catalogue /\ Gone \notin Catalogue
  BY CatalogAssumption DEF Shape, TypeOK, Catalogue, AppState
<1>2. /\ app' = app /\ helper'[h].job = helper[h].job /\ helper'[h].slot = helper[h].slot
      /\ Position(h)' = Position(h)
  BY StepOfOne DEF Position
<1>3. ASSUME NEW p, Made(h, p)
      PROVE  IF helper'[h].job = "remove" THEN p = RemoveAt(app'.pack, Position(h)')
             ELSE Len(app'.pack) <= Len(p) /\ \A n \in DOMAIN app'.pack : p[n] = app'.pack[n]
  BY <1>2, <1>3 DEF Made
<1>4. ~Fault
  BY DEF Fault
<1>5. ASSUME NEW ok \in BOOLEAN, Tell(h, ok), pack' = list', IF ok THEN Made(h, list') ELSE list' = app.pack
      PROVE  InStep(h)'
  <2>1. helper'[h].pc = "report" /\ helper'[h].ok = ok
    BY <1>1, <1>5 DEF Tell, Idle
  <2>2. helper'[h].job = "remove" => helper'[h].slot \in Slots(app'.pack) /\ helper'[h].slot >= Builtin
    BY <1>2 DEF InStep
  <2>3. ok => Made(h, list')
    BY <1>5
  <2>4. ok => IF helper'[h].job = "remove" THEN list' = RemoveAt(app'.pack, Position(h)')
              ELSE Len(app'.pack) <= Len(list') /\ \A n \in DOMAIN app'.pack : list'[n] = app'.pack[n]
    BY <1>3, <2>3
  <2>5. IF helper'[h].ok THEN Made(h, list)' ELSE list' = app'.pack
    BY <1>2, <1>5, <2>1, <2>4 DEF Made
  <2> QED
    BY <1>5, <2>1, <2>2, <2>5 DEF InStep
<1>6. CASE Read(h)
  <2>1. /\ helper[h].pc = "read" /\ list = app.pack /\ pack = app.pack
        /\ UNCHANGED <<list, pack>> /\ ~helper[h].moved
    BY <1>1, <1>6 DEF Read, OnDisk, InStep, InPlace
  <2>2. CASE helper' = [helper EXCEPT ![h].pc = "save", ![h].seen = list]
    BY <1>1, <1>2, <2>1, <2>2 DEF InStep, HelperState
  <2>3. CASE helper' = [helper EXCEPT ![h].pc = "move", ![h].seen = list]
    BY <1>1, <1>2, <2>1, <2>3 DEF InStep, HelperState
  <2>4. CASE Tell(h, FALSE)
    BY <1>5, <2>1, <2>4
  <2> QED
    BY <1>4, <1>6, <2>2, <2>3, <2>4 DEF Read
<1>7. CASE Move(h)
  <2>1. /\ helper[h].pc = "move" /\ list = app.pack /\ pack = app.pack
        /\ UNCHANGED <<list, pack>> /\ ~helper[h].moved
        /\ helper[h].seen = app.pack
    BY <1>1, <1>7 DEF Move, OnDisk, InStep, InPlace
  <2>2. CASE helper' = [helper EXCEPT ![h].pc = "save", ![h].moved = TRUE]
    BY <1>1, <1>2, <2>1, <2>2 DEF InStep, HelperState
  <2>3. CASE Tell(h, FALSE)
    BY <1>5, <2>1, <2>3
  <2> QED
    BY <1>4, <1>7, <2>1, <2>2, <2>3 DEF Move, GiveUp
<1>8. CASE Save(h)
  <2>1. /\ helper[h].pc = "save" /\ list = app.pack /\ pack = app.pack /\ UNCHANGED pack
        /\ helper[h].seen = app.pack /\ list' = Rewritten(h) /\ Goto(h, "build")
    BY <1>1, <1>4, <1>8 DEF Save, OnDisk, InStep
  <2>2. helper'[h].pc = "build" /\ helper'[h].seen = app.pack
    BY <1>1, <2>1 DEF Goto, HelperState
  <2>3. Made(h, list')
    <3>1. CASE helper[h].job = "remove"
      BY <2>1, <3>1 DEF Made, Rewritten
    <3>2. CASE helper[h].job = "import" /\ helper[h].who \in ToSet(app.pack)
      BY <1>1, <2>1, <3>2 DEF Made, Rewritten
    <3>3. CASE helper[h].job = "import" /\ helper[h].who \notin ToSet(app.pack)
      <4>1. helper[h].who \in Character
        BY <1>1, <2>1, <3>3 DEF InPlace
      <4> QED
        BY <1>1, <2>1, <3>3, <4>1, AppendIsCatalogue DEF Made, Rewritten
    <3> QED
      BY <1>1, <3>1, <3>2, <3>3 DEF HelperState
  <2>4. Made(h, list)'
    BY <1>2, <1>3, <2>3 DEF Made
  <2>5. helper'[h].job = "remove" => helper'[h].slot \in Slots(app'.pack) /\ helper'[h].slot >= Builtin
    BY <1>2 DEF InStep
  <2> QED
    BY <1>2, <2>1, <2>2, <2>4, <2>5 DEF InStep
<1>9. CASE Build(h)
  <2>1. /\ helper[h].pc = "build" /\ pack = app.pack /\ UNCHANGED <<list, pack>> /\ helper[h].seen = app.pack
        /\ Made(h, list)
    BY <1>1, <1>9 DEF Build, OnDisk, InStep, files
  <2>2. ToSet(list) \subseteq folders
    <3>1. CASE helper[h].job = "remove"
      <4>1. helper[h].moved /\ Position(h) \in DOMAIN app.pack
        BY <1>1, <2>1, <3>1 DEF InPlace
      <4>2. ToSet(app.pack) \subseteq folders \cup {app.pack[Position(h)]}
        BY <2>1, <4>1 DEF Sourced, Source
      <4>3. ToSet(list) = ToSet(app.pack) \ {app.pack[Position(h)]}
        BY <1>1, <2>1, <3>1, <4>1, RemoveAtIsCatalogue DEF Made
      <4> QED
        BY <4>2, <4>3
    <3>2. CASE helper[h].job # "remove"
      BY <1>1, <3>2 DEF InPlace, Sourced
    <3> QED
      BY <3>1, <3>2
  <2>3. helper' = [helper EXCEPT ![h].pc = "swap", ![h].staged = list]
    BY <1>4, <1>9, <2>2 DEF Build
  <2>4. helper'[h].pc = "swap" /\ helper'[h].staged = list
    BY <1>1, <2>3 DEF HelperState
  <2>5. Made(h, list)'
    BY <1>2, <1>3, <2>1 DEF Made
  <2>6. helper'[h].job = "remove" => helper'[h].slot \in Slots(app'.pack) /\ helper'[h].slot >= Builtin
    BY <1>2 DEF InStep
  <2> QED
    BY <1>2, <2>1, <2>4, <2>5, <2>6 DEF InStep
<1>10. CASE SwapOut(h)
  <2>1. /\ helper[h].pc = "swap" /\ UNCHANGED list /\ helper[h].staged = list
        /\ Made(h, list) /\ Goto(h, "publish")
    BY <1>1, <1>4, <1>10 DEF SwapOut, OnDisk, InStep
  <2>2. helper'[h].pc = "publish" /\ helper'[h].staged = list
    BY <1>1, <2>1 DEF Goto, HelperState
  <2>3. Made(h, list)'
    BY <1>2, <1>3, <2>1 DEF Made
  <2>4. helper'[h].job = "remove" => helper'[h].slot \in Slots(app'.pack) /\ helper'[h].slot >= Builtin
    BY <1>2 DEF InStep
  <2> QED
    BY <2>1, <2>2, <2>3, <2>4 DEF InStep
<1>11. CASE SwapIn(h)
  <2>1. helper[h].pc = "publish" /\ UNCHANGED list /\ helper[h].staged = list /\ Made(h, list) /\ pack = Gone
    BY <1>1, <1>11 DEF SwapIn, OnDisk, InStep, Sourced
  <2>2. pack' = list' /\ Tell(h, TRUE)
    BY <1>4, <1>11, <2>1 DEF SwapIn
  <2> QED
    BY <1>5, <2>1, <2>2
<1>12. CASE Restore(h)
  BY <1>12 DEF Restore, OnDisk, InStep
<1>13. CASE Kill(h)
  BY <1>4, <1>13 DEF Kill
<1> QED
  BY <1>6, <1>7, <1>8, <1>9, <1>10, <1>11, <1>12, <1>13 DEF DiskStep

LEMMA ChosenFaces ==
  ASSUME NEW p, NEW c
  PROVE  Chosen(p, c) = [roster |-> Faces(p, c.roster), guests |-> [g \in Stage |-> Faces(p, c.guests[g])]]
  BY DEF Chosen, Faces

\* A new character joins a roster nobody saved, and disturbs no other.
LEMMA GrownChoices ==
  ASSUME config \in Choice, NEW old \in Seq(Character), NEW new \in Seq(Character),
         Len(old) <= Len(new), \A n \in DOMAIN old : new[n] = old[n],
         config \in {Unset, Resolve(config, old)}
  PROVE  /\ Everybody(Chosen(old, Resolve(config, old)), new) = Chosen(new, Resolve(config, new))
         /\ config \in {Unset, Resolve(config, new)}
<1>1. Fits(Resolve(config, old), old) /\ Fits(Resolve(config, new), new)
  BY ResolveFits
<1>2. Slots(old) \subseteq Slots(new) /\ \A S \in SUBSET Slots(old) : Faces(new, S) = Faces(old, S)
  BY GrownFaces
<1>3. CASE config = Unset
  <2>1. config.roster = {} /\ \A g \in Stage : config.guests[g] = {}
    BY <1>3 DEF Unset
  <2>2. \A p : Resolve(config, p) = [roster |-> Slots(p), guests |-> [g \in Stage |-> {}]]
    BY <2>1 DEF Resolve
  <2>3. \A p : Chosen(p, Resolve(config, p)) = [roster |-> Faces(p, Slots(p)), guests |-> [g \in Stage |-> {}]]
    <3> SUFFICES ASSUME NEW p, NEW c, c = Resolve(config, p)
                 PROVE  Chosen(p, c) = [roster |-> Faces(p, Slots(p)), guests |-> [g \in Stage |-> {}]]
      OBVIOUS
    <3>1. Faces(p, {}) = {}
      BY DEF Faces
    <3>2. c.roster = Slots(p) /\ \A g \in Stage : c.guests[g] = {}
      BY <2>2
    <3>3. [g \in Stage |-> Faces(p, c.guests[g])] = [g \in Stage |-> {}]
      BY <3>1, <3>2
    <3> QED
      BY <3>2, <3>3, ChosenFaces
  <2>4. Everybody(Chosen(old, Resolve(config, old)), new)
          = [roster |-> Faces(new, Slots(new)), guests |-> [g \in Stage |-> {}]]
    <3>1. PICK ch : ch = Chosen(old, Resolve(config, old))
      OBVIOUS
    <3>2. PICK none : none = [g \in Stage |-> {}]
      OBVIOUS
    <3>3. ch = [roster |-> Faces(old, Slots(old)), guests |-> none]
      BY <2>3, <3>1, <3>2
    <3>4. Everybody(ch, new) = [ch EXCEPT !.roster = Faces(new, Slots(new))]
      BY <2>1 DEF Everybody, Faces
    <3>5. Everybody(ch, new) = [roster |-> Faces(new, Slots(new)), guests |-> none]
      BY <3>3, <3>4
    <3> QED
      BY <3>1, <3>2, <3>5
  <2> QED
    BY <1>3, <2>3, <2>4
<1>4. CASE config = Resolve(config, old) /\ config # Unset
  <2>1. config.roster # {} /\ Fits(config, old) /\ Fits(config, new)
    BY <1>1, <1>2, <1>4 DEF Fits
  <2>2. Resolve(config, new) = config
    BY <2>1, ResolveFits
  <2>3. Faces(new, config.roster) = Faces(old, config.roster)
    BY <1>2, <2>1 DEF Fits
  <2>4. \A g \in Stage : Faces(new, config.guests[g]) = Faces(old, config.guests[g])
    BY <1>2, <2>1 DEF Fits
  <2>5. Chosen(new, config) = Chosen(old, config)
    BY <2>3, <2>4, ChosenFaces
  <2> QED
    BY <1>4, <2>1, <2>2, <2>5 DEF Everybody
<1> QED
  BY <1>3, <1>4

\* The choices less one character; a roster of that one alone becomes `last`.
Without(ch, face, last) ==
  [roster |-> IF ch.roster \ {face} = {} THEN last ELSE ch.roster \ {face},
   guests |-> [g \in Stage |-> ch.guests[g] \ {face}]]

\* A removed character leaves the choices, and takes nobody along.
LEMMA ShrunkChoices ==
  ASSUME NEW old \in Catalogue, NEW slot \in Slots(old), slot >= Builtin,
         NEW new \in Seq(Character), new = RemoveAt(old, slot - Builtin + 1),
         NEW c \in Choice, Fits(c, old), NEW ch, ch = Chosen(old, c),
         NEW d, d = AfterRemoval(c, slot, Count(new))
  PROVE  Chosen(new, d) = Without(ch, FaceAt(old, slot), Chosen(new, d).roster)
<1>1. /\ ch.roster = Faces(old, c.roster)
      /\ \A g \in Stage : ch.guests[g] = Faces(old, c.guests[g])
  BY ChosenFaces
<1>2. \A S \in SUBSET Slots(old) : Faces(new, Shifted(S, slot)) = Faces(old, S) \ {FaceAt(old, slot)}
  BY ShiftedFaces
<1>3. c.roster \in SUBSET Slots(old) /\ \A g \in Stage : c.guests[g] \in SUBSET Slots(old)
  BY DEF Fits
<1>4. d.guests = [g \in Stage |-> Shifted(c.guests[g], slot)]
  BY DEF AfterRemoval
<1>5. Chosen(new, d).guests = [g \in Stage |-> ch.guests[g] \ {FaceAt(old, slot)}]
  BY <1>1, <1>2, <1>3, <1>4, ChosenFaces
<1>6. Faces(new, Shifted(c.roster, slot)) = ch.roster \ {FaceAt(old, slot)}
  BY <1>1, <1>2, <1>3
<1>7. ASSUME ch.roster \ {FaceAt(old, slot)} # {}
      PROVE  Chosen(new, d).roster = ch.roster \ {FaceAt(old, slot)}
  <2>1. Shifted(c.roster, slot) # {}
    BY <1>6, <1>7 DEF Faces
  <2>2. d.roster = Shifted(c.roster, slot)
    BY <2>1 DEF AfterRemoval
  <2> QED
    BY <1>6, <2>2, ChosenFaces
<1>8. Chosen(new, d) = [roster |-> Chosen(new, d).roster, guests |-> Chosen(new, d).guests]
  BY DEF Chosen
<1> QED
  BY <1>5, <1>7, <1>8 DEF Without

\* The window takes over the list that a helper has made.
LEMMA FinishSettled ==
  ASSUME Shape, Awaited, Sound, Settled, NEW h \in Helper, Finish(h), ~failed', ~orphaned'
  PROVE  Settled'
<1>1. /\ Calm /\ ~spoilt /\ Single /\ UNCHANGED <<list, pack>> /\ ~Fault
      /\ h \in AtWork /\ helper[h].pc = "report" /\ helper' = [helper EXCEPT ![h] = Idle]
  <2>1. UNCHANGED orphaned /\ ~Fault
    BY DEF Finish, Fault
  <2>2. UNCHANGED failed
    BY <2>1 DEF Finish, KeepShowing, Reload, Shift, Persist, NoFault
  <2>3. Calm
    BY <2>1, <2>2 DEF Calm
  <2> QED
    BY <2>1, <2>3 DEF Calm, Shape, Single, Finish, AtWork, Idle, files
<1>2. /\ app.up /\ helper[h].mine /\ \A g \in AtWork : g = h
  BY <1>1 DEF Awaited, Calm
<1>3. AtWork' = {}
  BY <1>1, <1>2 DEF AtWork, Shape, TypeOK
<1>4. /\ pack # Gone /\ pack = list /\ list \in Catalogue /\ app.pack \in Catalogue
      /\ list \in Seq(Character) /\ app.pack \in Seq(Character) /\ app \in AppState /\ config \in Choice
      /\ helper[h] \in HelperState
  BY <1>1 DEF Sound, Stocked, Sourced, Settled, InStep, Shape, TypeOK, AppState, Catalogue
<1>5. /\ IF helper[h].ok THEN Made(h, list) ELSE list = app.pack
      /\ helper[h].job = "remove" => helper[h].slot \in Slots(app.pack) /\ helper[h].slot >= Builtin
      /\ Linked
  BY <1>1 DEF Settled, InStep
<1>6. /\ app.choice = Resolve(config, app.pack) /\ config \in {Unset, app.choice}
      /\ chosen = Chosen(app.pack, app.choice) /\ Fits(app.choice, app.pack) /\ app.choice \in Choice
  BY <1>2, <1>5 DEF Linked, Shown, Shape, TypeOK, AppState
<1>7. CASE /\ KeepShowing
           /\ ~(/\ helper[h].ok /\ pack # Gone
                /\ helper[h].job = "remove" => CountMatches(helper[h].slot))
  <2>1. ~helper[h].ok
    <3>1. CASE helper[h].ok /\ helper[h].job = "remove"
      <4>1. pack = RemoveAt(app.pack, Position(h)) /\ Position(h) \in 1 .. Len(app.pack)
        BY <1>4, <1>5, <3>1, CatalogAssumption DEF Made, Position, Slots, Count, HelperState
      <4>2. Len(pack) + 1 = Len(app.pack)
        BY <1>4, <4>1, RemoveAtFacts
      <4> QED
        BY <1>4, <1>5, <1>7, <3>1, <4>2, CatalogAssumption DEF CountMatches, Slots, Count
    <3> QED
      BY <1>4, <1>7, <3>1
  <2>2. list = app.pack
    BY <1>5, <2>1
  <2>3. /\ app'.up = app.up /\ app'.pack = app.pack /\ app'.choice = app.choice /\ app'.armed = Nobody
        /\ UNCHANGED <<config, chosen>>
    BY <1>4, <1>7 DEF KeepShowing, Disarmed, AppState
  <2>4. Linked'
    BY <1>1, <1>2, <1>6, <2>3 DEF Linked, Shown
  <2> QED
    BY <1>1, <1>3, <1>4, <2>2, <2>3, <2>4 DEF Settled, Armed
<1>8. CASE helper[h].ok /\ helper[h].job = "import" /\ Reload
  <2>1. Len(app.pack) <= Len(pack) /\ \A n \in DOMAIN app.pack : pack[n] = app.pack[n]
    BY <1>4, <1>5, <1>8 DEF Made
  <2>2. /\ app'.up = app.up /\ app'.pack = pack /\ app'.choice = Resolve(config, pack) /\ app'.armed = Nobody
        /\ UNCHANGED config /\ chosen' = Everybody(chosen, pack)
    BY <1>4, <1>8 DEF Reload, Disarmed, AppState
  <2>3. /\ Everybody(chosen, pack) = Chosen(pack, Resolve(config, pack))
        /\ config \in {Unset, Resolve(config, pack)}
    BY <1>4, <1>6, <2>1, GrownChoices
  <2>4. Linked'
    BY <1>1, <1>2, <2>2, <2>3 DEF Linked, Shown
  <2> QED
    BY <1>1, <1>3, <1>4, <2>2, <2>4 DEF Settled, Armed
<1>9. CASE helper[h].ok /\ helper[h].job = "remove" /\ CountMatches(helper[h].slot) /\ Shift(helper[h].slot)
  <2>1. PICK slot \in Nat : slot = helper[h].slot
    BY <1>4 DEF HelperState
  <2>2. /\ slot \in Slots(app.pack) /\ slot >= Builtin /\ pack = RemoveAt(app.pack, slot - Builtin + 1)
    BY <1>4, <1>5, <1>9, <2>1 DEF Made, Position
  <2>3. PICK choice : choice = AfterRemoval(app.choice, slot, Count(pack))
    OBVIOUS
  <2>4. choice \in Choice /\ Fits(choice, pack)
    BY <1>4, <1>6, <1>9, <2>1, <2>3, AfterRemovalFits DEF CountMatches
  <2>5. /\ app' = [Disarmed(app) EXCEPT !.busy = FALSE, !.pack = pack, !.choice = choice]
        /\ chosen' = Without(chosen, FaceAt(app.pack, slot), Chosen(pack, choice).roster)
        /\ config' = choice
    BY <1>1, <1>9, <2>1, <2>3 DEF Shift, Persist, Without
  <2>6. chosen' = Chosen(pack, choice)
    <3>1. /\ pack \in Seq(Character) /\ app.pack \in Catalogue
          /\ app.choice \in Choice /\ Fits(app.choice, app.pack)
      BY <1>4, <1>6
    <3>2. Chosen(pack, choice) = Without(chosen, FaceAt(app.pack, slot), Chosen(pack, choice).roster)
      BY <1>6, <2>2, <2>3, <3>1, ShrunkChoices
    <3> QED
      BY <2>5, <3>2
  <2>7. app'.up = app.up /\ app'.pack = pack /\ app'.choice = choice /\ app'.armed = Nobody
    BY <1>4, <2>5 DEF Disarmed, AppState
  <2>8. Resolve(choice, pack) = choice
    BY <1>4, <2>4, ResolveFits
  <2>9. Linked'
    BY <1>1, <1>2, <2>5, <2>6, <2>7, <2>8 DEF Linked, Shown
  <2> QED
    BY <1>1, <1>3, <1>4, <2>7, <2>9 DEF Settled, Armed
<1> QED
  BY <1>1, <1>2, <1>7, <1>8, <1>9 DEF Finish

LEMMA SettledKept == ASSUME Shape, Awaited, Sound, Settled, [Next]_vars PROVE Settled'
<1> SUFFICES ASSUME ~failed', ~orphaned' PROVE Settled'
  BY DEF Settled, Calm
<1>1. ASSUME NEW h \in Helper, DiskStep(h)  PROVE Settled'
  <2>1. /\ h \in AtWork /\ AtWork' = AtWork /\ app' = app /\ UNCHANGED <<config, chosen, orphaned>>
    BY <1>1, StepOfOne
  <2>2. failed' = FALSE
    BY ShapeKept DEF Shape, TypeOK
  <2>3. ~failed
    BY <1>1, <2>2 DEF DiskStep, Read, Move, Save, Build, SwapOut, SwapIn, Restore, Kill, Fault, NoFault
  <2>4. Calm /\ ~spoilt /\ Single
    BY <2>1, <2>3 DEF Calm, Shape, Single
  <2>5. InStep(h) /\ Sourced(h) /\ app.up /\ \A g \in AtWork : g = h
    BY <2>1, <2>4 DEF Settled, Sound, Stocked, Awaited, Calm
  <2>6. InStep(h)'
    BY <1>1, <2>2, <2>5, DiskStepInStep
  <2>7. Linked' /\ Armed'
    BY <2>1, <2>4, <2>5 DEF Settled, Linked, Shown, Armed
  <2> QED
    BY <2>1, <2>5, <2>6, <2>7 DEF Settled
<1>2. ASSUME NEW h \in Helper, Finish(h)  PROVE Settled'
  BY <1>2, FinishSettled
<1>3. app \in AppState /\ app.pack \in Catalogue /\ app.pack \in Seq(Character) /\ config \in Choice
  BY DEF Shape, TypeOK, AppState, Catalogue
<1>4. CASE Toggle
  <2>1. PICK choice \in {c \in Toggled(app.choice) : c.roster # {}} :
          /\ app' = [(IF choice.roster # app.choice.roster THEN Disarmed(app) ELSE app) EXCEPT !.choice = choice]
          /\ chosen' = Chosen(app.pack, choice)
          /\ Persist(choice)
    BY <1>4 DEF Toggle
  <2>2. /\ config' = choice /\ UNCHANGED failed /\ UNCHANGED <<files, helper, orphaned>> /\ app.up
    BY <1>4, <2>1 DEF Toggle, Persist, Fault, NoFault
  <2>3. Calm
    BY <2>2 DEF Calm
  <2>4. /\ app'.up = app.up /\ app'.pack = app.pack /\ app'.choice = choice
        /\ (app'.armed = app.armed /\ app'.meant = app.meant) \/ app'.armed = Nobody
    BY <1>3, <2>1 DEF Disarmed, AppState
  <2>5. choice \in Choice /\ Fits(choice, app.pack)
    BY <2>1, ToggledFits DEF Shape, TypeOK, AppState
  <2>6. Resolve(choice, app.pack) = choice
    BY <1>3, <2>5, ResolveFits
  <2>7. Linked'
    BY <2>1, <2>2, <2>4, <2>6 DEF Linked, Shown
  <2>8. Armed'
    BY <2>2, <2>3, <2>4 DEF Settled, Armed
  <2>9. \A h \in AtWork' : InStep(h)'
    BY <2>2, <2>3, <2>4 DEF Settled, AtWork, InStep, Made, Position, files
  <2> QED
    BY <2>2, <2>3, <2>4, <2>7, <2>8, <2>9 DEF Settled, AtWork, files
<1>5. CASE Disarm \/ \E s \in Slots(app.pack) : Arm(s)
  <2>1. UNCHANGED <<files, helper, config, chosen, failed, orphaned>> /\ app.up
    BY <1>5 DEF Disarm, Arm, history
  <2>2. Calm
    BY <2>1 DEF Calm
  <2>3. /\ app'.up = app.up /\ app'.pack = app.pack /\ app'.choice = app.choice
        /\ \/ app'.armed = Nobody
           \/ /\ app'.armed \in Slots(app.pack) /\ app'.armed >= Builtin
              /\ app'.meant = FaceAt(app.pack, app'.armed)
    BY <1>3, <1>5 DEF Disarm, Arm, Disarmed, AppState
  <2>4. Linked' /\ Armed'
    BY <2>1, <2>2, <2>3 DEF Settled, Linked, Shown, Armed, files
  <2>5. \A h \in AtWork' : InStep(h)'
    BY <2>1, <2>2, <2>3 DEF Settled, AtWork, InStep, Made, Position, files
  <2> QED
    BY <2>1, <2>2, <2>3, <2>4, <2>5 DEF Settled, AtWork, files
<1>6. CASE Quit
  <2>1. ~orphaned /\ AtWork = {} /\ UNCHANGED <<list, pack, config, chosen, failed>> /\ app' = Closed /\ app.up
    BY <1>6 DEF Quit, AtWork, files
  <2>2. Calm /\ AtWork' = {}
    BY <1>6, <2>1 DEF Quit, Calm, AtWork
  <2>3. pack = list /\ app.pack = list /\ Linked
    BY <2>1, <2>2 DEF Settled
  <2>4. Closed.up = FALSE /\ Closed.armed = Nobody
    BY DEF Closed
  <2>5. Linked' /\ Armed'
    BY <2>1, <2>3, <2>4 DEF Linked, Shown, Armed
  <2> QED
    BY <2>1, <2>2, <2>3, <2>4, <2>5 DEF Settled
<1>7. CASE Open
  <2>1. ~app.up /\ pack # Gone /\ app' = Opened /\ chosen' = Everybody(chosen, pack)
        /\ UNCHANGED <<list, pack, helper, config, failed, orphaned>>
    BY <1>7 DEF Open, files
  <2>2. Calm /\ AtWork = {} /\ AtWork' = {}
    BY <2>1 DEF Calm, Awaited, AtWork
  <2>3. pack = list /\ pack \in Seq(Character) /\ Linked
    BY <2>1, <2>2 DEF Settled, Shape, TypeOK, Catalogue
  <2>4. chosen = Chosen(pack, Resolve(config, pack)) /\ config \in {Unset, Resolve(config, pack)}
    BY <2>1, <2>3 DEF Linked, Shown
  <2>5. Everybody(chosen, pack) = Chosen(pack, Resolve(config, pack))
    BY <1>3, <2>3, <2>4, GrownChoices
  <2>6. /\ Opened.up = TRUE /\ Opened.pack = pack /\ Opened.choice = Resolve(config, pack)
        /\ Opened.armed = Nobody
    BY DEF Opened
  <2>7. Linked' /\ Armed'
    BY <2>1, <2>4, <2>5, <2>6 DEF Linked, Shown, Armed
  <2> QED
    BY <2>1, <2>2, <2>3, <2>6, <2>7 DEF Settled
<1>8. CASE (\E s \in Slots(app.pack) : RemoveRow(s)) \/ (\E c \in Character : Import(c))
  <2>1. app.up /\ ~app.busy /\ UNCHANGED <<list, pack, config, chosen, failed, orphaned>>
    BY <1>8 DEF RemoveRow, Import, files, history
  <2>2. Calm /\ AtWork = {}
    BY <2>1 DEF Calm, Awaited
  <2>3. pack = list /\ app.pack = list /\ Linked /\ Armed
    BY <2>1, <2>2 DEF Settled
  <2>4. /\ app'.up = app.up /\ app'.pack = app.pack /\ app'.choice = app.choice
        /\ (app'.armed = app.armed /\ app'.meant = app.meant) \/ app'.armed = Nobody
    BY <1>3, <1>8 DEF RemoveRow, Import, Disarmed, AppState
  <2>5. Linked' /\ Armed'
    BY <2>1, <2>3, <2>4 DEF Linked, Shown, Armed
  <2>6. CASE UNCHANGED helper
    BY <2>1, <2>2, <2>3, <2>4, <2>5, <2>6 DEF Settled, AtWork
  <2>7. ASSUME NEW job, NEW slot, NEW who, Launch(job, slot, who),
               job = "remove" => slot \in Slots(app.pack) /\ slot >= Builtin /\ who = FaceAt(app.pack, slot)
        PROVE  Settled'
    <3>1. PICK h \in Helper :
            helper' = [helper EXCEPT ![h] = [Idle EXCEPT !.pc = "read", !.job = job, !.slot = slot,
                                                         !.who = who, !.mine = TRUE]]
      BY <2>7 DEF Launch
    <3>2. /\ helper'[h].pc = "read" /\ helper'[h].job = job /\ helper'[h].slot = slot /\ helper'[h].who = who
          /\ \A g \in Helper \ {h} : helper'[g] = helper[g]
      BY <3>1 DEF Shape, TypeOK, Idle
    <3>3. AtWork' = {h}
      <4>1. helper'[h] # Idle
        BY <3>2 DEF Idle
      <4> QED
        BY <2>2, <3>2, <4>1 DEF AtWork
    <3>4. InStep(h)'
      BY <2>1, <2>3, <2>4, <2>7, <3>2 DEF InStep
    <3> QED
      BY <2>5, <3>3, <3>4 DEF Settled
  <2>8. ASSUME NEW s \in Slots(app.pack), RemoveRow(s)  PROVE Settled'
    <3>1. s = app.armed /\ s # Nobody
      BY <1>3, <2>8, SlotsOf, CatalogAssumption DEF RemoveRow
    <3>2. s >= Builtin /\ app.meant = FaceAt(app.pack, s)
      BY <2>3, <3>1 DEF Armed
    <3> QED
      BY <2>6, <2>7, <2>8, <3>2 DEF RemoveRow
  <2> QED
    BY <1>8, <2>6, <2>7, <2>8 DEF Import
<1>9. CASE UNCHANGED vars
  BY <1>9 DEF Settled, Calm, AtWork, InStep, Made, Position, Linked, Shown, Armed, vars, files, history
<1> QED
  BY <1>1, <1>2, <1>4, <1>5, <1>6, <1>7, <1>8, <1>9 DEF Next, Work, DiskStep
-----------------------------------------------------------------------------
(* The theorems.                                                           *)

LEMMA InitIInv == Init => IInv
<1> SUFFICES ASSUME Init PROVE IInv
  OBVIOUS
<1>1. Shape
  BY InitShape
<1>2. AtWork = {}
  BY DEF Init, AtWork
<1>3. Awaited
  BY <1>2 DEF Awaited
<1>4. pack # Gone /\ pack = list /\ folders = ToSet(list)
  BY CatalogAssumption DEF Init
<1>5. Sound
  BY <1>2, <1>4 DEF Sound, Stocked
<1>6. app.up /\ app.pack = pack /\ app.choice = Resolve(config, pack) /\ app.armed = Nobody /\ config = Unset
      /\ chosen = Chosen(pack, app.choice)
  BY DEF Init, Opened
<1>7. Settled
  BY <1>2, <1>4, <1>6 DEF Settled, Linked, Shown, Armed
<1> QED
  BY <1>1, <1>3, <1>5, <1>7 DEF IInv

LEMMA InvariantHolds == Spec => []IInv
<1>1. IInv /\ [Next]_vars => IInv'
  BY ShapeKept, AwaitedKept, SoundKept, SettledKept DEF IInv
<1> QED
  BY InitIInv, <1>1, PTL DEF Spec

\* The variables have their types: no list names a character twice, and every
\* choice in memory and on disk is a set of slots.
THEOREM CatalogTypes == Spec => []TypeOK
<1>1. IInv => TypeOK
  BY DEF IInv, Shape
<1> QED
  BY InvariantHolds, <1>1, PTL

\* While nothing has failed and no window was closed under a helper, what the
\* helper takes is what stood on the row at the first click, for any number of
\* characters and however imports, removals, toggles and restarts interleave.
THEOREM RemovalTakesTheConfirmed == Spec => []RemovesTheConfirmed
<1>1. IInv => RemovesTheConfirmed
  <2> SUFFICES ASSUME IInv, Calm, NEW h \in Helper, helper[h].job = "remove", helper[h].pc = "save"
               PROVE  helper[h].seen[Position(h)] = helper[h].who
    BY DEF RemovesTheConfirmed
  <2>1. h \in AtWork
    BY DEF AtWork, Idle
  <2>2. /\ helper[h].who = FaceAt(app.pack, helper[h].slot) /\ helper[h].seen = app.pack
        /\ helper[h].slot >= Builtin /\ helper[h].slot \in Nat
    BY <2>1 DEF IInv, Settled, InStep, Shape, TypeOK, HelperState
  <2> QED
    BY <2>2, CatalogAssumption DEF FaceAt, Position
<1> QED
  BY InvariantHolds, <1>1, PTL

\* Whatever was imported, removed, chosen or restarted, the choices shown and
\* those written are of the characters the user chose; and whatever failed, they
\* are of slots that exist, with a look left for the agents.
THEOREM ChoicesStayWithCharacters == Spec => []ChoicesFollowCharacters
<1>1. IInv => ChoicesFollowCharacters
  <2> SUFFICES ASSUME IInv PROVE ChoicesFollowCharacters
    OBVIOUS
  <2>1. Fits(app.choice, app.pack)
    BY DEF IInv, Shape
  <2>2. ASSUME Calm, AtWork = {}
        PROVE  /\ app.up => Chosen(app.pack, app.choice) = chosen
               /\ Chosen(pack, Resolve(config, pack)) = chosen
    BY <2>2 DEF IInv, Settled, Linked, Shown
  <2> QED
    BY <2>1, <2>2 DEF ChoicesFollowCharacters, Fits
<1> QED
  BY InvariantHolds, <1>1, PTL

\* However steps fail, and whichever windows come and go, a failure can be tried
\* again - as long as there is never more than one helper at work.
THEOREM FailuresCanBeRetried == Spec /\ []OneHelper => []SafeToRetry
<1>1. Init => Stocked
  <2>1. Init => AtWork = {} /\ pack # Gone /\ folders = ToSet(list)
    BY CatalogAssumption DEF Init, AtWork
  <2> QED
    BY <2>1 DEF Stocked
<1>2. IInv /\ Stocked /\ OneHelper /\ OneHelper' /\ [Next]_vars => Stocked'
  BY StockedKept DEF IInv
<1>3. Stocked => SafeToRetry
  <2> SUFFICES ASSUME Stocked, ~spoilt
               PROVE  /\ AtWork = {} => ToSet(list) \subseteq folders
                      /\ pack = Gone => \E h \in Helper : helper[h].pc = "publish"
    BY DEF SafeToRetry
  <2>1. ASSUME pack = Gone  PROVE \E h \in Helper : helper[h].pc = "publish"
    <3>1. PICK h \in AtWork : Sourced(h)
      BY <2>1 DEF Stocked
    <3> QED
      BY <2>1, <3>1 DEF Sourced, AtWork
  <2> QED
    BY <2>1 DEF Stocked
<1> QED
  BY InvariantHolds, <1>1, <1>2, <1>3, PTL DEF Spec
=============================================================================

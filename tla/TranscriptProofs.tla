-------------------------- MODULE TranscriptProofs --------------------------
(***************************************************************************)
(* What the watcher does on its own account has a cause: it ends a session *)
(* only when its process is gone or has long been without it, and brings   *)
(* an agent in only for what was written or vouched for since it was last  *)
(* passed over.  All of it for any sessions, files, processes and windows. *)
(***************************************************************************)
EXTENDS Transcript, FiniteSetTheorems, WellFoundedInduction, TLAPS

-----------------------------------------------------------------------------
(* Sets of numbers, orders of a finite set, sequences of steps.            *)

\* Every nonempty set of naturals has a least member.
LEMMA LeastExists ==
  ASSUME NEW S \in SUBSET Nat, S # {}
  PROVE  \E x \in S : \A y \in S : x <= y
<1> DEFINE Less == {ss \in Nat \X Nat : ss[1] < ss[2]}
<1>1. IsWellFoundedOn(Less, Nat)
  BY NatLessThanWellFounded DEF OpToRel
<1> HIDE DEF Less
<1>2. PICK x \in S : \A y \in S : ~(<<y, x>> \in Less)
  BY <1>1, WFMin
<1>3. ASSUME NEW y \in S PROVE x <= y
  <2>1. ~(<<y, x>> \in Less)
    BY <1>2
  <2>2. ~(y < x)
    BY <2>1, SMT DEF Less
  <2> QED
    BY <2>2
<1> QED
  BY <1>3

\* A finite set of naturals has a greatest member: of the subsets without one,
\* none could be the smallest.
LEMMA GreatestExists ==
  ASSUME NEW S \in SUBSET Nat, S # {}, IsFiniteSet(S)
  PROVE  \E x \in S : \A y \in S : x >= y
<1> DEFINE Topped(T) == \E x \in T : \A y \in T : x >= y
           sizes == {Cardinality(T) : T \in {U \in SUBSET S : U # {} /\ ~Topped(U)}}
<1>1. \A T \in SUBSET S : IsFiniteSet(T) /\ Cardinality(T) \in Nat
  BY FS_Subset, FS_CardinalityType
<1>2. SUFFICES ASSUME ~Topped(S) PROVE FALSE
  OBVIOUS
<1>3. sizes \in SUBSET Nat /\ sizes # {}
  BY <1>1, <1>2
<1>4. PICK n \in sizes : \A m \in sizes : n <= m
  BY <1>3, LeastExists
<1>5. PICK T \in SUBSET S : T # {} /\ ~Topped(T) /\ n = Cardinality(T)
  BY <1>4
<1>6. PICK t \in T : TRUE
  BY <1>5
<1>7. Cardinality(T \ {t}) = n - 1 /\ n \in Nat
  BY <1>1, <1>5, <1>6, FS_RemoveElement
<1>8. T \ {t} # {}
  <2>1. ASSUME T \ {t} = {} PROVE Topped(T)
    BY <1>6, <2>1
  <2> QED
    BY <1>5, <2>1
<1>9. Topped(T \ {t})
  <2>1. ASSUME ~Topped(T \ {t}) PROVE n - 1 \in sizes
    BY <1>5, <1>7, <1>8, <2>1
  <2> QED
    BY <1>4, <1>7, <2>1
<1>10. PICK x \in T \ {t} : \A y \in T \ {t} : x >= y
  BY <1>9
<1>11. Topped(T)
  <2>1. CASE x >= t
    BY <1>10, <2>1
  <2>2. CASE ~(x >= t)
    BY <1>6, <1>10, <2>2
  <2> QED
    BY <2>1, <2>2
<1> QED
  BY <1>5, <1>11

\* An order of a finite set is a sequence that names every member of it.
LEMMA OrdersName ==
  ASSUME NEW S, IsFiniteSet(S), NEW order \in SetToSeqs(S)
  PROVE  /\ order \in Seq(S)
         /\ \A x \in S : \E n \in DOMAIN order : order[n] = x
<1>1. Cardinality(S) \in Nat
  BY FS_CardinalityType
<1>2. /\ order \in [1..Cardinality(S) -> S]
      /\ \A i, j \in 1..Cardinality(S) : i # j => order[i] # order[j]
  BY DEF SetToSeqs
<1>3. order \in Injection(1..Cardinality(S), S)
  BY <1>2 DEF Injection, IsInjective
<1>4. Cardinality(1..Cardinality(S)) = Cardinality(S)
  BY <1>1, FS_Interval
<1>5. order \in Surjection(1..Cardinality(S), S)
  BY <1>3, <1>4, FS_Injection
<1> QED
  BY <1>1, <1>2, <1>5 DEF Surjection
-----------------------------------------------------------------------------
(* The steps that an arm of the loop may have left.                        *)

Probes == {"probe", "fold"}
Ends   == {"collect", "end"}

Steps ==
  {<<"probe", born>> : born \in {-1, 0}} \cup {<<"fold", snap, born>> : snap \in Snapshots, born \in {-1, 0}}
  \cup {<<"collect", i>> : i \in Id} \cup {<<"watch", pids>> : pids \in SUBSET Pid}
  \cup {s \in {<<"end", i, fs>> : i \in Id, fs \in SUBSET File} : \A f \in s[3] : IdOf[f] = s[2]}
  \cup {<<"park", f, claim>> : f \in File, claim \in {"kept", "released"}}
  \cup {<<"walk", f>> : f \in File} \cup {<<"release", f>> : f \in File}
  \cup {<<"unclaims">>, <<"revouch">>, <<"vouch">>} \cup {<<"scan", fs>> : fs \in SUBSET File}

\* What a step carries.
LEMMA StepFacts ==
  ASSUME NEW s \in Steps
  PROVE  /\ s[1] = "probe" => s[2] \in {-1, 0}
         /\ s[1] = "fold" => s[2] \in Snapshots /\ s[3] \in {-1, 0}
         /\ s[1] = "collect" => s[2] \in Id
         /\ s[1] = "watch" => s[2] \in SUBSET Pid
         /\ s[1] = "end" => s[2] \in Id /\ s[3] \in SUBSET File /\ \A f \in s[3] : IdOf[f] = s[2]
         /\ s[1] = "park" => s[2] \in File /\ s[3] \in {"kept", "released"} /\ s = <<"park", s[2], s[3]>>
         /\ s[1] = "walk" => s[2] \in File /\ s = <<"walk", s[2]>>
         /\ s[1] = "release" => s[2] \in File /\ s = <<"release", s[2]>>
         /\ s[1] = "scan" => s[2] \in SUBSET File
  BY DEF Steps

\* The steps of one arm are a list.
LEMMA PlansAreSteps ==
  /\ \A born \in {-1, 0} : <<"probe", born>> \in Steps
  /\ \A snap \in Snapshots, born \in {-1, 0} : <<"fold", snap, born>> \in Steps
  /\ \A i \in Id : <<"collect", i>> \in Steps
  /\ \A pids \in SUBSET Pid : <<"watch", pids>> \in Steps
  /\ \A i \in Id, fs \in SUBSET File : (\A f \in fs : IdOf[f] = i) => <<"end", i, fs>> \in Steps
  /\ \A f \in File, claim \in {"kept", "released"} : <<"park", f, claim>> \in Steps
  /\ \A f \in File : <<"walk", f>> \in Steps /\ <<"release", f>> \in Steps
  /\ <<"unclaims">> \in Steps /\ <<"revouch">> \in Steps /\ <<"vouch">> \in Steps
  /\ \A fs \in SUBSET File : <<"scan", fs>> \in Steps
  BY DEF Steps

\* The head of a plan is taken and others come before the rest.
Follows(old, s, new) ==
  /\ new \in Seq(Steps) /\ Len(new) = Len(s) + Len(old) - 1
  /\ Head(old) = old[1] /\ old[1] \in Steps
  /\ \A n \in 1..Len(s) : new[n] = s[n]
  /\ \A n \in 2..Len(old) : new[Len(s) + n - 1] = old[n]
  /\ \A n \in 1..Len(new) : n <= Len(s) \/ \E k \in 2..Len(old) : n = Len(s) + k - 1

LEMMA After ==
  ASSUME NEW old \in Seq(Steps), old # <<>>, NEW s \in Seq(Steps)
  PROVE  Follows(old, s, s \o Tail(old))
<1> DEFINE new == s \o Tail(old)
<1>1. /\ Tail(old) \in Seq(Steps) /\ Len(Tail(old)) = Len(old) - 1 /\ Len(old) \in Nat \ {0}
      /\ \A n \in 1..Len(old) - 1 : Tail(old)[n] = old[n + 1]
  OBVIOUS
<1>2. /\ new \in Seq(Steps) /\ Len(new) = Len(s) + Len(Tail(old))
      /\ \A n \in 1..Len(new) : new[n] = IF n <= Len(s) THEN s[n] ELSE Tail(old)[n - Len(s)]
  BY <1>1
<1>3. \A n \in 2..Len(old) : new[Len(s) + n - 1] = old[n]
  <2>1. TAKE n \in 2..Len(old)
  <2>2. Len(s) + n - 1 \in 1..Len(new) /\ ~(Len(s) + n - 1 <= Len(s)) /\ (Len(s) + n - 1) - Len(s) = n - 1
    BY <1>1, <1>2
  <2>3. Tail(old)[n - 1] = old[n]
    BY <1>1
  <2> QED
    BY <1>2, <2>2, <2>3
<1>4. ASSUME NEW n \in 1..Len(new), ~(n <= Len(s))
      PROVE  \E k \in 2..Len(old) : n = Len(s) + k - 1
  <2>1. n - Len(s) + 1 \in 2..Len(old) /\ n = Len(s) + (n - Len(s) + 1) - 1
    BY <1>1, <1>2, <1>4
  <2> QED
    BY <2>1
<1>5. Len(new) = Len(s) + Len(old) - 1
  BY <1>1, <1>2
<1>6. \A n \in 1..Len(s) : new[n] = s[n]
  BY <1>2, <1>1
<1>7. Head(old) = old[1] /\ old[1] \in Steps
  OBVIOUS
<1> QED
  BY <1>2, <1>3, <1>4, <1>5, <1>6, <1>7 DEF Follows

-----------------------------------------------------------------------------
(* What is left of an arm.  The operators speak of a plan q, so that they  *)
(* can be used of todo and of what comes after it.                         *)

\* A probe is the first step of its arm, and what it finds is folded at once:
\* no end of a session, and no release of a claim, is decided before.
Planned(q) ==
  \A n \in DOMAIN q :
    /\ n > 1 => q[n][1] \notin Probes
    /\ q[n][1] \in Ends \cup {"release"} => q[1][1] \notin Probes

\* The sessions that will be ended.
Doomed(q) == {i \in Id : \E n \in DOMAIN q : q[n][1] \in Ends /\ q[n][2] = i}

\* What a probe has found and nobody has folded yet.
Pending(q) == q # <<>> /\ q[1][1] = "fold"
Shown(q)   == IF Pending(q) THEN DOMAIN q[1][2] ELSE {}

\* The steps that take the claim of f away, and those that read it to its end
\* before: the file is parked if it is over-read, and then walked.
Unclaims(step, f) == (step[1] = "end" /\ f \in step[3]) \/ (step[1] = "release" /\ step[2] = f)
Parks(step, f)    == step[1] = "park" /\ step[2] = f

Awaited(q, f, n, over) ==
  \/ \E m \in 1..n - 1 : m \in DOMAIN q /\ Parks(q[m], f)
  \/ n > 1 /\ q # <<>> /\ q[1][1] = "walk" /\ q[1][2] = f /\ f \notin over

\* No claim of a file of `stale` goes before the file is read.
Drained(q, stale, over) ==
  \A n \in DOMAIN q, f \in stale : Unclaims(q[n], f) => Awaited(q, f, n, over)

\* The next plan has steps of the old one, and the new ones.
LEMMA PlannedAfter ==
  ASSUME NEW old \in Seq(Steps), old # <<>>, NEW s \in Seq(Steps), NEW new, new = s \o Tail(old), Planned(old),
         \A n \in 1..Len(s) : s[n][1] \notin Probes
  PROVE  /\ Planned(new) /\ ~Pending(new) /\ Shown(new) = {}
         /\ Doomed(new) \subseteq Doomed(old) \cup Doomed(s)
<1>1. /\ new \in Seq(Steps) /\ Len(new) = Len(s) + Len(old) - 1
      /\ \A n \in 1..Len(s) : new[n] = s[n]
      /\ \A n \in 2..Len(old) : new[Len(s) + n - 1] = old[n]
      /\ \A n \in 1..Len(new) : n <= Len(s) \/ \E k \in 2..Len(old) : n = Len(s) + k - 1
  BY After DEF Follows
<1>2. DOMAIN new = 1..Len(new) /\ DOMAIN old = 1..Len(old) /\ DOMAIN s = 1..Len(s) /\ Len(s) \in Nat
  BY <1>1
<1>3. ASSUME NEW n \in DOMAIN new
      PROVE  (\E k \in DOMAIN s : new[n] = s[k]) \/ (\E k \in DOMAIN old : k > 1 /\ new[n] = old[k])
  <2>1. CASE n <= Len(s)
    BY <1>1, <1>2, <2>1
  <2>2. CASE ~(n <= Len(s))
    <3>1. PICK k \in 2..Len(old) : n = Len(s) + k - 1
      BY <1>1, <1>2, <2>2
    <3>2. k \in DOMAIN old /\ k > 1 /\ new[n] = old[k]
      BY <1>1, <1>2, <3>1
    <3> QED
      BY <3>2
  <2> QED
    BY <2>1, <2>2
<1>4. \A n \in DOMAIN new : new[n][1] \notin Probes
  BY <1>2, <1>3 DEF Planned
<1>5. Planned(new)
  <2>1. DOMAIN new # {} => 1 \in DOMAIN new
    BY <1>1, <1>2
  <2>2. \A n \in DOMAIN new : new[n][1] \notin Probes /\ new[1][1] \notin Probes
    BY <1>4, <2>1
  <2> QED
    BY <2>2 DEF Planned
<1>6. ~Pending(new)
  <2>1. new # <<>> => 1 \in DOMAIN new
    BY <1>1
  <2> QED
    BY <1>4, <2>1 DEF Pending, Probes
<1> QED
  BY <1>3, <1>5, <1>6 DEF Shown, Doomed

\* A file that may not lose its claim before it is read waits for its drain still,
\* or the new steps bring one along.
Waits(old, s, stale, over, stale2, over2) ==
  \A f \in stale2 :
    \/ /\ f \in stale /\ ~Parks(old[1], f)
       /\ old[1][1] = "walk" /\ old[1][2] = f => f \in over
    \/ Awaited(s, f, Len(s) + 1, over2)

LEMMA DrainedAfter ==
  ASSUME NEW old \in Seq(Steps), old # <<>>, NEW s \in Seq(Steps), NEW new, new = s \o Tail(old),
         NEW stale, NEW over, NEW stale2, NEW over2, Drained(old, stale, over),
         Waits(old, s, stale, over, stale2, over2), Drained(s, stale2, over2)
  PROVE  Drained(new, stale2, over2)
<1> USE DEF Waits
<1>0. \A n \in 1..Len(s), f \in stale2 : Unclaims(s[n], f) => Awaited(s, f, n, over2)
  BY DEF Drained
<1>1. /\ new \in Seq(Steps) /\ Len(new) = Len(s) + Len(old) - 1
      /\ \A n \in 1..Len(s) : new[n] = s[n]
      /\ \A n \in 2..Len(old) : new[Len(s) + n - 1] = old[n]
      /\ \A n \in 1..Len(new) : n <= Len(s) \/ \E k \in 2..Len(old) : n = Len(s) + k - 1
  BY After DEF Follows
<1>2. DOMAIN new = 1..Len(new) /\ DOMAIN old = 1..Len(old) /\ DOMAIN s = 1..Len(s)
      /\ Len(s) \in Nat /\ Len(old) \in Nat \ {0}
  BY <1>1
\* What awaits f among the new steps awaits it in the new plan.
<1>3. ASSUME NEW f, NEW n \in 1..Len(s) + 1, NEW k \in DOMAIN new, n <= k, Awaited(s, f, n, over2)
      PROVE  Awaited(new, f, k, over2)
  <2>1. CASE \E m \in 1..n - 1 : m \in DOMAIN s /\ Parks(s[m], f)
    <3>1. PICK m \in 1..n - 1 : m \in DOMAIN s /\ Parks(s[m], f)
      BY <2>1
    <3>2. m \in 1..k - 1 /\ m \in DOMAIN new /\ new[m] = s[m]
      BY <1>1, <1>2, <1>3, <3>1
    <3> QED
      BY <3>1, <3>2 DEF Awaited
  <2>2. CASE n > 1 /\ s # <<>> /\ s[1][1] = "walk" /\ s[1][2] = f /\ f \notin over2
    <3>1. 1 \in 1..Len(s) /\ k > 1 /\ new[1] = s[1] /\ new # <<>>
      BY <1>1, <1>2, <1>3, <2>2
    <3> QED
      BY <2>2, <3>1 DEF Awaited
  <2> QED
    BY <1>3, <2>1, <2>2 DEF Awaited
<1>4. ASSUME NEW n \in DOMAIN new, NEW f \in stale2, Unclaims(new[n], f)
      PROVE  Awaited(new, f, n, over2)
  <2>1. CASE n <= Len(s)
    <3>1. n \in 1..Len(s) /\ new[n] = s[n]
      BY <1>1, <1>2, <2>1
    <3>2. Awaited(s, f, n, over2)
      BY <1>0, <1>4, <3>1
    <3> QED
      BY <1>2, <1>3, <3>1, <3>2
  <2>2. CASE ~(n <= Len(s)) /\ Awaited(s, f, Len(s) + 1, over2)
    <3>1. Len(s) + 1 \in 1..Len(s) + 1 /\ Len(s) + 1 <= n
      BY <1>2, <2>2
    <3> QED
      BY <1>3, <2>2, <3>1
  <2>3. CASE /\ ~(n <= Len(s)) /\ f \in stale /\ ~Parks(old[1], f)
             /\ old[1][1] = "walk" /\ old[1][2] = f => f \in over
    <3>1. PICK k \in 2..Len(old) : n = Len(s) + k - 1
      BY <1>1, <1>2, <2>3
    <3>2. new[n] = old[k] /\ k \in DOMAIN old
      BY <1>1, <1>2, <3>1
    <3>3. Awaited(old, f, k, over)
      BY <1>4, <2>3, <3>2 DEF Drained
    <3>4. PICK m \in 1..k - 1 : m \in DOMAIN old /\ Parks(old[m], f)
      BY <2>3, <3>3 DEF Awaited
    <3>5. m # 1
      BY <2>3, <3>4
    <3>6. m \in 2..Len(old) /\ Len(s) + m - 1 \in 1..n - 1 /\ Len(s) + m - 1 \in DOMAIN new
      BY <1>2, <3>1, <3>4, <3>5
    <3>7. Parks(new[Len(s) + m - 1], f)
      BY <1>1, <3>4, <3>6
    <3> QED
      BY <3>6, <3>7 DEF Awaited
  <2> QED
    BY <2>1, <2>2, <2>3
<1> QED
  BY <1>4 DEF Drained
-----------------------------------------------------------------------------
(* What each step leaves to be done.                                       *)

PlanOK == todo \in Seq(Steps) /\ Planned(todo)

\* The step at the head is replaced by those of s.
Turns(s) == s \in Seq(Steps) /\ todo # <<>> /\ todo' = s \o Tail(todo)

LEMMA NowIsFirst ==
  ASSUME PlanOK, ~Idle
  PROVE  todo # <<>> /\ 1 \in DOMAIN todo /\ Now = todo[1] /\ Now \in Steps
  BY DEF PlanOK, Idle, Now

\* The sessions to end, one after the other.
LEMMA CollectsAreSteps ==
  ASSUME NEW ids \in SUBSET Id, NEW s \in Collects(ids)
  PROVE  /\ s \in Seq(Steps) /\ Doomed(s) \subseteq ids
         /\ \A n \in 1..Len(s) : s[n][1] = "collect"
<1>1. PICK order \in SetToSeqs(ids) : s = [n \in DOMAIN order |-> <<"collect", order[n]>>]
  BY DEF Collects
<1>2. IsFiniteSet(ids)
  BY TranscriptAssumption, FS_Subset
<1>3. order \in Seq(ids)
  BY <1>2, OrdersName
<1>4. \A n \in DOMAIN order : order[n] \in ids /\ <<"collect", order[n]>> \in Steps
  BY <1>3, PlansAreSteps
<1>5. s \in Seq(Steps) /\ Len(s) = Len(order) /\ DOMAIN s = DOMAIN order
  BY <1>1, <1>3, <1>4
<1>6. \A n \in DOMAIN s : s[n][1] = "collect" /\ s[n][2] \in ids
  BY <1>1, <1>4, <1>5
<1> QED
  BY <1>5, <1>6 DEF Doomed

\* The files to drain, one after the other, and each of them.
LEMMA DrainsAreSteps ==
  ASSUME NEW fs \in SUBSET File, NEW claim \in {"kept", "released"}, NEW s \in Drains(fs, claim)
  PROVE  /\ s \in Seq(Steps) /\ Doomed(s) = {}
         /\ \A n \in 1..Len(s) : s[n][1] = "park"
         /\ \A f \in fs : \E n \in 1..Len(s) : Parks(s[n], f)
<1>1. PICK order \in SetToSeqs(fs) : s = [n \in DOMAIN order |-> <<"park", order[n], claim>>]
  BY DEF Drains
<1>2. IsFiniteSet(fs)
  BY TranscriptAssumption, FS_Subset
<1>3. order \in Seq(fs) /\ \A f \in fs : \E n \in DOMAIN order : order[n] = f
  BY <1>2, OrdersName
<1>4. ASSUME NEW n \in DOMAIN order  PROVE order[n] \in fs /\ <<"park", order[n], claim>> \in Steps
  <2>1. order[n] \in fs /\ order[n] \in File
    BY <1>3
  <2> QED
    BY <2>1, PlansAreSteps
<1>5. s \in Seq(Steps) /\ Len(s) = Len(order) /\ DOMAIN s = DOMAIN order
  BY <1>1, <1>3, <1>4
<1>6. \A n \in DOMAIN s : s[n][1] = "park" /\ s[n][2] = order[n]
  BY <1>1, <1>4, <1>5
<1>7. \A f \in fs : \E n \in 1..Len(s) : Parks(s[n], f)
  BY <1>3, <1>5, <1>6 DEF Parks
<1> QED
  BY <1>5, <1>6, <1>7 DEF Doomed, Ends

\* One list of steps after another.
Joins(s, t, new) ==
  /\ new \in Seq(Steps) /\ Len(new) = Len(s) + Len(t)
  /\ \A n \in 1..Len(s) : new[n] = s[n]
  /\ \A n \in 1..Len(new) : n > Len(s) => n - Len(s) \in 1..Len(t) /\ new[n] = t[n - Len(s)]

LEMMA Joined ==
  ASSUME NEW s \in Seq(Steps), NEW t \in Seq(Steps)
  PROVE  Joins(s, t, s \o t)
  BY DEF Joins

\* run_scan_pass starts with its probe.
LEMMA PassIsPlanned ==
  ASSUME NEW born \in {-1, 0}, NEW drain \in {<<>>, <<<<"unclaims">>>>}
  PROVE  /\ Pass(born, drain) \in Seq(Steps) /\ Planned(Pass(born, drain))
         /\ ~Pending(Pass(born, drain)) /\ Doomed(Pass(born, drain)) = {}
         /\ \A n \in DOMAIN Pass(born, drain) : Pass(born, drain)[n][1] \notin {"end", "release"}
<1> DEFINE probe == <<<<"probe", born>>>>
           rest  == <<<<"revouch">>, <<"scan", File>>>>
           q     == (probe \o drain) \o rest
           Meek(s) == \A n \in 1..Len(s) : s[n][1] \notin Probes \cup Ends \cup {"release"}
<1>1. /\ <<"probe", born>> \in Steps /\ <<"unclaims">> \in Steps
      /\ <<"revouch">> \in Steps /\ <<"scan", File>> \in Steps
  BY PlansAreSteps
<1>2. probe \in Seq(Steps) /\ Len(probe) = 1 /\ probe[1] = <<"probe", born>>
  BY <1>1
<1>3. drain \in Seq(Steps) /\ Meek(drain)
  <2>1. CASE drain = <<>>
    BY <2>1
  <2>2. CASE drain = <<<<"unclaims">>>>
    BY <1>1, <2>2 DEF Probes, Ends
  <2> QED
    BY <2>1, <2>2
<1>4. rest \in Seq(Steps) /\ Meek(rest)
  BY <1>1 DEF Probes, Ends
<1> HIDE DEF probe, rest
<1>5. /\ probe \o drain \in Seq(Steps) /\ (probe \o drain)[1] = <<"probe", born>>
      /\ Len(probe \o drain) = Len(drain) + 1
      /\ \A n \in 2..Len(probe \o drain) : (probe \o drain)[n][1] \notin Probes \cup Ends \cup {"release"}
  <2>1. \A n \in 2..Len(drain) + 1 : n > 1 /\ n - 1 \in 1..Len(drain) /\ n \in 1..Len(drain) + 1
    BY <1>3
  <2> QED
    BY <1>2, <1>3, <2>1, Joined DEF Joins
<1>6. /\ q \in Seq(Steps) /\ q[1] = <<"probe", born>> /\ 1 \in DOMAIN q
      /\ \A n \in DOMAIN q : n > 1 => q[n][1] \notin Probes \cup Ends \cup {"release"}
  <2>1. /\ q \in Seq(Steps) /\ Len(q) = Len(drain) + 1 + Len(rest)
        /\ \A n \in 1..Len(drain) + 1 : q[n] = (probe \o drain)[n]
        /\ \A n \in 1..Len(q) : n > Len(drain) + 1
              => n - (Len(drain) + 1) \in 1..Len(rest) /\ q[n] = rest[n - (Len(drain) + 1)]
    BY <1>4, <1>5, Joined DEF Joins
  <2>2. ASSUME NEW n \in DOMAIN q, n > 1  PROVE q[n][1] \notin Probes \cup Ends \cup {"release"}
    <3>1. CASE n > Len(drain) + 1
      BY <1>4, <2>1, <2>2, <3>1
    <3>2. CASE ~(n > Len(drain) + 1)
      <4>1. n \in 2..Len(probe \o drain)
        BY <1>3, <1>5, <2>1, <2>2, <3>2
      <4> QED
        BY <1>3, <1>5, <2>1, <4>1
    <3> QED
      BY <3>1, <3>2
  <2>3. 1 \in 1..Len(drain) + 1 /\ 1 \in DOMAIN q
    BY <1>3, <1>4, <2>1
  <2> QED
    BY <1>5, <2>1, <2>2, <2>3
<1>7. q = Pass(born, drain)
  BY DEF Pass, probe, rest
<1> HIDE DEF q
<1>8. \A n \in DOMAIN q : q[n][1] \notin Ends \cup {"release"}
  <2>1. q[1][1] = "probe"
    BY <1>6
  <2>2. \A n \in DOMAIN q : n = 1 \/ n > 1
    BY <1>6
  <2> QED
    BY <1>6, <2>1, <2>2 DEF Ends
<1> QED
  BY <1>6, <1>7, <1>8 DEF Planned, Pending, Doomed, Ends

\* A step that leaves nothing behind, or what is left of a scan.
Brief ==
  \/ ProbeFails \/ WatchStep \/ WalkStep \/ EndStep \/ ReleaseStep \/ RevouchStep \/ ScanStep \/ VouchStep

Briefly(s) == Turns(s) /\ Doomed(s) = {} /\ \A n \in 1..Len(s) : s[n][1] = "scan"

LEMMA BriefTurns ==
  ASSUME PlanOK, Brief
  PROVE  \E s \in Seq(Steps) : Briefly(s)
<1>1. ASSUME ~Idle, Done(<<>>)
      PROVE  \E s \in Seq(Steps) : Briefly(s)
  <2>1. <<>> \in Seq(Steps) /\ Briefly(<<>>)
    BY <1>1 DEF Briefly, Turns, Doomed, Done, Idle
  <2> QED
    BY <2>1
<1>2. ASSUME ScanStep, NEW f \in Now[2], Done(<<<<"scan", Now[2] \ {f}>>>>)
      PROVE  \E s \in Seq(Steps) : Briefly(s)
  <2> DEFINE s == <<<<"scan", Now[2] \ {f}>>>>
  <2>1. todo # <<>> /\ Now \in Steps /\ Now[1] = "scan"
    BY <1>2, NowIsFirst DEF ScanStep
  <2>2. <<"scan", Now[2] \ {f}>> \in Steps
    BY <2>1, StepFacts, PlansAreSteps
  <2>3. s \in Seq(Steps) /\ Len(s) = 1 /\ s[1][1] = "scan"
    BY <2>2
  <2>4. todo' = s \o Tail(todo)
    BY <1>2 DEF Done
  <2> HIDE DEF s
  <2>5. Briefly(s)
    BY <2>1, <2>3, <2>4 DEF Briefly, Turns, Doomed, Ends
  <2> QED
    BY <2>3, <2>5
<1> QED
  BY <1>1, <1>2
     DEF Brief, ProbeFails, WatchStep, WalkStep, EndStep, ReleaseStep, RevouchStep, ScanStep, VouchStep

\* The probe answers, and what it found is folded next.
LEMMA ProbePlans ==
  ASSUME PlanOK, ProbeAnswers,
         \A i \in Id : Holders(i) # {} => Max(Holders(i)) \in Pid
  PROVE  /\ PlanOK' /\ Pending(todo') /\ Doomed(todo) = {} /\ Doomed(todo') = {}
         /\ todo'[1][2] = [i \in {j \in Id : Holders(j) # {}} |-> Max(Holders(i))]
         /\ \A n \in DOMAIN todo' : todo'[n][1] \notin {"end", "release"}
<1> DEFINE snap == [i \in {j \in Id : Holders(j) # {}} |-> Max(Holders(i))]
           fold == <<"fold", snap, Now[2]>>
           mid  == <<fold>> \o Tail(todo)
<1>1. todo \in Seq(Steps) /\ todo # <<>> /\ Now = todo[1] /\ Now \in Steps /\ Now[1] = "probe"
  BY NowIsFirst DEF ProbeAnswers, PlanOK
<1>2. /\ \A n \in DOMAIN todo : n > 1 => todo[n][1] \notin Probes
      /\ \A n \in DOMAIN todo : todo[n][1] \notin Ends \cup {"release"}
  BY <1>1 DEF PlanOK, Planned, Probes
<1>3. snap \in Snapshots
  <2>1. {j \in Id : Holders(j) # {}} \in SUBSET Id /\ snap \in [{j \in Id : Holders(j) # {}} -> Pid]
    OBVIOUS
  <2> QED
    BY <2>1 DEF Snapshots
<1>4. fold \in Steps /\ fold[1] = "fold" /\ fold[2] = snap
  BY <1>1, <1>3, StepFacts, PlansAreSteps
<1>5. todo' = mid \o <<<<"vouch">>>>
  BY DEF ProbeAnswers
<1> HIDE DEF fold
<1>6. <<fold>> \in Seq(Steps) /\ Len(<<fold>>) = 1 /\ <<fold>>[1] = fold
  BY <1>4
<1>7. Follows(todo, <<fold>>, mid)
  BY <1>1, <1>6, After
<1>8. /\ mid \in Seq(Steps) /\ Len(mid) = Len(todo) /\ Len(todo) \in Nat \ {0} /\ mid[1] = fold
      /\ \A n \in 2..Len(todo) : mid[n] = todo[n]
  BY <1>1, <1>6, <1>7 DEF Follows
<1> HIDE DEF mid
<1> DEFINE last == <<<<"vouch">>>>
<1>9. last \in Seq(Steps) /\ Len(last) = 1 /\ last[1] = <<"vouch">>
  BY PlansAreSteps
<1>14. todo' = mid \o last
  BY <1>5
<1> HIDE DEF last
<1>10. /\ todo' \in Seq(Steps) /\ Len(todo') = Len(todo) + 1
       /\ todo'[1] = fold
       /\ \A n \in 2..Len(todo) : todo'[n] = todo[n]
       /\ todo'[Len(todo) + 1] = <<"vouch">>
  <2>1. /\ todo' \in Seq(Steps) /\ Len(todo') = Len(todo) + 1
        /\ \A n \in 1..Len(todo) : todo'[n] = mid[n]
        /\ \A n \in 1..Len(todo) + 1 : n > Len(todo) => todo'[n] = last[n - Len(todo)]
    <3>1. Joins(mid, last, todo')
      BY <1>8, <1>9, <1>14, Joined
    <3> QED
      BY <1>8, <1>9, <3>1 DEF Joins
  <2>2. /\ 1 \in 1..Len(todo) /\ \A n \in 2..Len(todo) : n \in 1..Len(todo)
        /\ Len(todo) + 1 \in 1..Len(todo) + 1 /\ Len(todo) + 1 > Len(todo) /\ (Len(todo) + 1) - Len(todo) = 1
    BY <1>8
  <2> QED
    BY <1>8, <1>9, <2>1, <2>2
<1>11. \A n \in DOMAIN todo' : n > 1 => todo'[n][1] \notin Probes \cup Ends \cup {"release"}
  <2>1. ASSUME NEW n \in DOMAIN todo', n > 1  PROVE todo'[n][1] \notin Probes \cup Ends \cup {"release"}
    <3>1. n \in 2..Len(todo) \/ n = Len(todo) + 1
      BY <1>8, <1>10, <2>1
    <3>2. CASE n \in 2..Len(todo)
      <4>1. n \in DOMAIN todo
        BY <1>1, <3>2
      <4> QED
        BY <1>2, <1>10, <2>1, <3>2, <4>1
    <3>3. CASE n = Len(todo) + 1
      BY <1>10, <3>3 DEF Probes, Ends
    <3> QED
      BY <3>1, <3>2, <3>3
  <2> QED
    BY <2>1
<1>12. \A n \in DOMAIN todo' : todo'[n][1] \notin Ends \cup {"release"}
  <2>1. \A n \in DOMAIN todo' : n = 1 \/ n > 1
    BY <1>10
  <2> QED
    BY <1>4, <1>10, <1>11, <2>1 DEF Ends
<1>13. Pending(todo')
  BY <1>4, <1>8, <1>10 DEF Pending
<1> QED
  BY <1>2, <1>4, <1>10, <1>11, <1>12, <1>13 DEF PlanOK, Planned, Doomed, Ends
-----------------------------------------------------------------------------
(* The ladder.                                                             *)

\* A new ladder is consistent (ProbeLadder::new).
THEOREM EmptyIsConsistent == EmptyLadder \in Ladder /\ Consistent(EmptyLadder)
<1>1. [i \in {} |-> 0] \in [{} -> -1..Span]
  OBVIOUS
<1> QED
  BY <1>1 DEF Ladder, Consistent, OneOwner, EmptyLadder

\* fold, part by part: what is bound is in the snapshot or was bound before and
\* is not in it; a window is an older one or opens now.
LEMMA FoldFacts ==
  ASSUME NEW l \in Ladder, NEW snap \in Snapshots, NEW born \in {-1, 0}, NEW m, m = Fold(l, snap, born)
  PROVE  /\ m \in Ladder
         /\ m.vouched \subseteq DOMAIN snap \cup DOMAIN l.miss \cup l.vouched
         /\ DOMAIN m.miss \subseteq m.vouched
         /\ \A i \in DOMAIN m.miss :
              /\ i \notin DOMAIN snap
              /\ \/ i \in DOMAIN l.miss /\ m.miss[i] = l.miss[i]
                 \/ i \in l.vouched /\ m.miss[i] = born
         /\ \A p \in Pid : \A i \in m.bound[p] :
              \/ i \in DOMAIN snap /\ snap[i] = p
              \/ i \in l.bound[p] /\ i \notin DOMAIN snap
<1> DEFINE lapsed == Confirmed(l, snap)
           open == (Lasting(l, snap) \cup Missing(l, snap)) \ lapsed
<1>1. /\ m.vouched = DOMAIN snap \cup open
      /\ m.miss = [i \in open |-> IF i \in DOMAIN l.miss THEN l.miss[i] ELSE born]
      /\ m.bound = Rebound(l, snap, lapsed)
      /\ m = [vouched |-> m.vouched, miss |-> m.miss, bound |-> m.bound]
  BY DEF Fold, StillVouched
<1>2. /\ DOMAIN snap \in SUBSET Id /\ \A i \in DOMAIN snap : snap[i] \in Pid
      /\ l.vouched \in SUBSET Id /\ l.bound \in [Pid -> SUBSET Id]
      /\ DOMAIN l.miss \in SUBSET Id /\ l.miss \in [DOMAIN l.miss -> -1..Span]
  BY DEF Snapshots, Ladder
<1>3. open \subseteq (DOMAIN l.miss \cup l.vouched) \ DOMAIN snap
  BY DEF Lasting, Missing
<1> HIDE DEF lapsed, open
<1>4. m.miss \in [open -> -1..Span] /\ open \in SUBSET Id
  BY <1>1, <1>2, <1>3, LadderAssumption
<1>5. m.bound \in [Pid -> SUBSET Id]
  BY <1>1, <1>2 DEF Rebound
<1>6. m.vouched \in SUBSET Id
  BY <1>1, <1>2, <1>4
<1>7. m \in Ladder
  BY <1>1, <1>4, <1>5, <1>6 DEF Ladder
<1>8. \A p \in Pid : m.bound[p] = (l.bound[p] \ (lapsed \cup DOMAIN snap)) \cup {i \in DOMAIN snap : snap[i] = p}
  BY <1>1 DEF Rebound
<1> QED
  BY <1>1, <1>3, <1>7, <1>8

\* What a healthy snapshot keeps bound is still vouched: an old binding is either
\* in the snapshot, or its window runs on.
LEMMA KeptIsVouched ==
  ASSUME NEW l \in Ladder, Consistent(l), NEW snap \in Snapshots, NEW p \in Pid
  PROVE  Rebound(l, snap, Confirmed(l, snap))[p]
           \subseteq DOMAIN snap \cup ((Lasting(l, snap) \cup Missing(l, snap)) \ Confirmed(l, snap))
  BY DEF Consistent, Ladder, Snapshots, Rebound, Missing

\* fold: a snapshot binds every session it shows to its one process, and takes it
\* from any other.  Without that a process would be blamed for a session that has
\* long moved on, and end it with its own exit.
THEOREM FoldIsConsistent ==
  ASSUME NEW l \in Ladder, Consistent(l), NEW snap \in Snapshots, NEW born \in -1..Span
  PROVE  Consistent(Fold(l, snap, born))
<1> DEFINE lapsed == Confirmed(l, snap)
           open == (Lasting(l, snap) \cup Missing(l, snap)) \ lapsed
           m    == Fold(l, snap, born)
<1>1. /\ m.vouched = DOMAIN snap \cup open
      /\ DOMAIN m.miss = open
      /\ m.bound = Rebound(l, snap, lapsed)
  BY DEF Fold, StillVouched
<1>2. ASSUME NEW p \in Pid, NEW q \in Pid, p # q
      PROVE  m.bound[p] \cap m.bound[q] = {}
  <2>1. \A r \in Pid : m.bound[r] = (l.bound[r] \ (lapsed \cup DOMAIN snap)) \cup {i \in DOMAIN snap : snap[i] = r}
    BY <1>1 DEF Rebound
  <2>2. l.bound[p] \cap l.bound[q] = {}
    BY <1>2 DEF Consistent, OneOwner
  <2> QED
    BY <1>2, <2>1, <2>2
<1>3. \A p \in Pid : m.bound[p] \subseteq m.vouched
  BY <1>1, KeptIsVouched
<1> QED
  BY <1>1, <1>2, <1>3 DEF Consistent, OneOwner

\* pid_died: the sessions of the dead leave all three parts at once, and nobody
\* else's session leaves any.
THEOREM ExitIsConsistent ==
  ASSUME NEW l \in Ladder, Consistent(l), NEW p \in Pid
  PROVE  /\ Consistent(PidDied(l, p))
         /\ \A q \in Pid \ {p} : PidDied(l, p).bound[q] = l.bound[q]
<1> DEFINE m == PidDied(l, p)
<1>1. /\ m.vouched = l.vouched \ l.bound[p]
      /\ DOMAIN m.miss = DOMAIN l.miss \ l.bound[p]
      /\ m.bound = [l.bound EXCEPT ![p] = {}]
  BY DEF PidDied
<1>2. \A q \in Pid : m.bound[q] = IF q = p THEN {} ELSE l.bound[q]
  BY <1>1 DEF Ladder
<1>3. OneOwner(m)
  BY <1>2 DEF Consistent, OneOwner
<1>4. \A q \in Pid : m.bound[q] \subseteq m.vouched
  BY <1>1, <1>2 DEF Consistent, OneOwner
<1>5. DOMAIN m.miss \subseteq m.vouched
  BY <1>1 DEF Consistent
<1> QED
  BY <1>2, <1>3, <1>4, <1>5 DEF Consistent

\* The passing of time opens and closes no window.
THEOREM TickIsConsistent ==
  ASSUME NEW l \in Ladder, Consistent(l)
  PROVE  Consistent(Older(l))
<1>1. /\ Older(l).vouched = l.vouched
      /\ Older(l).bound = l.bound
      /\ DOMAIN Older(l).miss = DOMAIN l.miss
  BY DEF Older, Ladder
<1> QED
  BY <1>1 DEF Consistent, OneOwner

\* pid_died and the clock, part by part.
LEMMA ExitFacts ==
  ASSUME NEW l \in Ladder, NEW p \in Pid, NEW m, m = PidDied(l, p)
  PROVE  /\ m \in Ladder
         /\ m.vouched = l.vouched \ l.bound[p]
         /\ DOMAIN m.miss = DOMAIN l.miss \ l.bound[p]
         /\ \A i \in DOMAIN m.miss : m.miss[i] = l.miss[i]
         /\ \A q \in Pid : m.bound[q] \subseteq l.bound[q]
<1>1. /\ m.vouched = l.vouched \ l.bound[p]
      /\ m.miss = [i \in DOMAIN l.miss \ l.bound[p] |-> l.miss[i]]
      /\ m.bound = [l.bound EXCEPT ![p] = {}]
      /\ m = [vouched |-> m.vouched, miss |-> m.miss, bound |-> m.bound]
  BY DEF PidDied
<1>2. /\ l.vouched \in SUBSET Id /\ l.bound \in [Pid -> SUBSET Id]
      /\ DOMAIN l.miss \in SUBSET Id /\ l.miss \in [DOMAIN l.miss -> -1..Span]
  BY DEF Ladder
<1>3. /\ m.vouched \in SUBSET Id /\ m.bound \in [Pid -> SUBSET Id]
      /\ DOMAIN m.miss \in SUBSET Id /\ m.miss \in [DOMAIN m.miss -> -1..Span]
  BY <1>1, <1>2
<1>4. m \in Ladder
  BY <1>1, <1>3 DEF Ladder
<1> QED
  BY <1>1, <1>2, <1>4

LEMMA TickFacts ==
  ASSUME NEW l \in Ladder, NEW m, m = Older(l)
  PROVE  /\ m \in Ladder
         /\ m.vouched = l.vouched /\ m.bound = l.bound /\ DOMAIN m.miss = DOMAIN l.miss
         /\ \A i \in DOMAIN m.miss :
              m.miss[i] = IF l.miss[i] < Span THEN l.miss[i] + 1 ELSE l.miss[i]
<1>1. /\ m.vouched = l.vouched /\ m.bound = l.bound
      /\ m.miss = [i \in DOMAIN l.miss |-> IF l.miss[i] < Span THEN l.miss[i] + 1 ELSE l.miss[i]]
      /\ m = [vouched |-> m.vouched, miss |-> m.miss, bound |-> m.bound]
  BY DEF Older, Ladder
<1>2. /\ l.vouched \in SUBSET Id /\ l.bound \in [Pid -> SUBSET Id]
      /\ DOMAIN l.miss \in SUBSET Id /\ l.miss \in [DOMAIN l.miss -> -1..Span]
  BY DEF Ladder
<1>3. m.miss \in [DOMAIN l.miss -> -1..Span]
  BY <1>1, <1>2, LadderAssumption
<1>4. m \in Ladder
  BY <1>1, <1>2, <1>3 DEF Ladder
<1> QED
  BY <1>1, <1>4
-----------------------------------------------------------------------------
(* Every session that will be ended has a cause to end.                    *)

\* Who exited was alive before, and a report is of one who did.
WatchOK ==
  /\ exits \in [Pid -> Nat]
  /\ \A p \in Pid : exits[p] > 0 => p \in gone

LadderOK ==
  /\ holds \in SUBSET (Id \X Pid)
  /\ ladder \in Ladder
  /\ owner \in [Id -> Pid \cup {Nobody}] /\ unseen \in [Id -> -1..Span]

\* What the ladder says of a session agrees with what was seen of it, but for a
\* snapshot that has yet to be folded: it is bound to the process it was last seen
\* with, and its window is not older than the probes that found nobody.
Faithful ==
  /\ \A i \in ladder.vouched : owner[i] # Nobody
  /\ DOMAIN ladder.miss \subseteq ladder.vouched
  /\ \A p \in Pid : \A i \in ladder.bound[p] \ Shown(todo) : owner[i] = p
  /\ \A i \in DOMAIN ladder.miss \ Shown(todo) : unseen[i] # Seen /\ ladder.miss[i] <= unseen[i]
  /\ Pending(todo) => /\ \A i \in Shown(todo) : owner[i] = todo[1][2][i]
                      /\ \A i \in ladder.vouched \ Shown(todo) : unseen[i] # Seen

\* The sessions whose process is gone, or that no probe has seen for long.
Blamed == {i \in Id : owner[i] \in gone \/ unseen[i] >= Span}

Justified == WatchOK /\ PlanOK /\ LadderOK /\ Faithful /\ Doomed(todo) \subseteq Blamed

\* Who holds what matters to the next probe only, and the dead stay dead.
LEMMA HoldersChange ==
  ASSUME Justified, holds' \in SUBSET (Id \X Pid), gone \subseteq gone',
         UNCHANGED <<exits, ladder, owner, unseen, todo>>
  PROVE  Justified'
<1>1. exits' = exits /\ ladder' = ladder /\ owner' = owner /\ unseen' = unseen /\ todo' = todo
  OBVIOUS
<1>2. WatchOK' /\ PlanOK' /\ LadderOK'
  BY <1>1 DEF Justified, WatchOK, PlanOK, LadderOK
<1>3. Faithful'
  BY <1>1 DEF Justified, Faithful
<1>4. Blamed \subseteq Blamed'
  BY <1>1 DEF Blamed
<1> QED
  BY <1>1, <1>2, <1>3, <1>4 DEF Justified

\* The processes that hold a session are Pids, and so is the largest of them.
LEMMA HoldersArePids ==
  ASSUME LadderOK, NEW i \in Id, Holders(i) # {}
  PROVE  Max(Holders(i)) \in Pid /\ <<i, Max(Holders(i))>> \in holds
<1>1. Holders(i) \in SUBSET Pid /\ Holders(i) \in SUBSET Nat /\ IsFiniteSet(Holders(i))
  BY TranscriptAssumption, FS_Subset DEF Holders
<1>2. \E p \in Holders(i) : \A q \in Holders(i) : p >= q
  BY <1>1, GreatestExists
<1>3. Max(Holders(i)) \in Holders(i)
  BY <1>2 DEF Max
<1> QED
  BY <1>3 DEF Holders

\* ProbeAnswers: who is seen has an owner, and the clock of the others runs.
LEMMA ProbeKeepsFaith ==
  ASSUME Justified, ProbeAnswers
  PROVE  Justified'
<1> DEFINE ids  == {i \in Id : Holders(i) # {}}
           snap == [i \in ids |-> Max(Holders(i))]
<1>1. WatchOK /\ PlanOK /\ LadderOK /\ Faithful
  BY DEF Justified
<1>2. \A i \in Id : Holders(i) # {} => Max(Holders(i)) \in Pid /\ <<i, Max(Holders(i))>> \in holds
  BY <1>1, HoldersArePids
<1>3. /\ PlanOK' /\ Pending(todo') /\ Doomed(todo') = {} /\ todo'[1][2] = snap
  BY <1>1, <1>2, ProbePlans
<1>4. ~Pending(todo) /\ Shown(todo) = {}
  BY DEF ProbeAnswers, Pending, Shown, Now
<1>5. /\ owner' = [i \in Id |-> IF i \in ids THEN snap[i] ELSE owner[i]]
      /\ unseen' = [i \in Id |-> IF i \in ids THEN Seen ELSE IF unseen[i] = Seen THEN 0 ELSE unseen[i]]
      /\ UNCHANGED <<holds, ladder, gone, exits>>
  BY DEF ProbeAnswers, world, watch, probing
<1>6. Shown(todo') = ids
  BY <1>3 DEF Shown
<1>7. \A i \in ids : i \in Id /\ snap[i] \in Pid
  BY <1>2
<1> HIDE DEF snap, ids
<1>8. /\ ladder \in Ladder /\ DOMAIN ladder.miss \subseteq Id /\ ladder.vouched \subseteq Id
      /\ \A p \in Pid : ladder.bound[p] \subseteq Id
  BY <1>1 DEF LadderOK, Ladder
<1>9. Nobody \notin Pid /\ ids \subseteq Id
  BY <1>7, TranscriptAssumption DEF Nobody
<1>10. LadderOK'
  <2>1. owner' \in [Id -> Pid \cup {Nobody}]
    BY <1>1, <1>5, <1>7 DEF LadderOK
  <2>2. unseen' \in [Id -> -1..Span]
    BY <1>1, <1>5, LadderAssumption DEF LadderOK, Seen
  <2> QED
    BY <1>1, <1>5, <2>1, <2>2 DEF LadderOK
<1>11. /\ \A i \in ids : owner'[i] = snap[i]
       /\ \A i \in Id \ ids : /\ owner'[i] = owner[i] /\ unseen'[i] # Seen
                              /\ unseen[i] # Seen => unseen'[i] = unseen[i]
  <2>1. \A i \in ids : i \in Id /\ owner'[i] = snap[i]
    BY <1>5, <1>9
  <2>2. ASSUME NEW i \in Id \ ids
        PROVE  owner'[i] = owner[i] /\ unseen'[i] = IF unseen[i] = Seen THEN 0 ELSE unseen[i]
    BY <1>5, <2>2
  <2> QED
    BY <2>1, <2>2 DEF Seen
<1>12. Faithful'
  <2>1. \A i \in ladder'.vouched : owner'[i] # Nobody
    BY <1>1, <1>5, <1>7, <1>8, <1>11, <1>9 DEF Faithful
  <2>2. \A p \in Pid : \A i \in ladder'.bound[p] \ Shown(todo') : owner'[i] = p
    BY <1>1, <1>4, <1>5, <1>6, <1>8, <1>11 DEF Faithful
  <2>3. \A i \in DOMAIN ladder'.miss \ Shown(todo') : unseen'[i] # Seen /\ ladder'.miss[i] <= unseen'[i]
    BY <1>1, <1>4, <1>5, <1>6, <1>8, <1>11 DEF Faithful
  <2>4. \A i \in ladder'.vouched \ Shown(todo') : unseen'[i] # Seen
    BY <1>5, <1>6, <1>8, <1>11
  <2> QED
    BY <1>1, <1>3, <1>5, <1>6, <1>11, <2>1, <2>2, <2>3, <2>4 DEF Faithful
<1> QED
  BY <1>1, <1>3, <1>5, <1>10, <1>12 DEF Justified, WatchOK

\* FoldStep: the list of what it leaves to be done.
LEMMA FoldPlans ==
  ASSUME PlanOK, LadderOK, FoldStep, NEW snap, snap = Now[2]
  PROVE  /\ snap \in Snapshots /\ Pending(todo) /\ todo[1][2] = snap /\ Shown(todo) = DOMAIN snap
         /\ Now[3] \in {-1, 0}
         /\ \E s \in Seq(Steps) : /\ Turns(s) /\ Doomed(s) \subseteq Confirmed(ladder, snap)
                                /\ \A n \in 1..Len(s) : s[n][1] \in {"collect", "watch"}
<1>1. todo # <<>> /\ Now = todo[1] /\ Now \in Steps /\ Now[1] = "fold"
  BY NowIsFirst DEF FoldStep
<1>2. /\ snap \in Snapshots /\ Pending(todo) /\ todo[1][2] = snap /\ Shown(todo) = DOMAIN snap
      /\ Now[3] \in {-1, 0}
  BY <1>1, StepFacts DEF Pending, Shown
<1>3. PICK steps \in Collects(Confirmed(ladder, snap)), pids \in NewlyWatched(ladder, snap) :
        Done(steps \o <<<<"watch", pids>>>>)
  BY DEF FoldStep
<1>4. pids \in SUBSET Pid
  <2>1. {snap[i] : i \in DOMAIN snap} \subseteq Pid
    BY <1>2 DEF Snapshots
  <2> QED
    BY <1>3, <2>1 DEF NewlyWatched
<1>5. Confirmed(ladder, snap) \in SUBSET Id
  BY DEF Confirmed, Missing, LadderOK, Ladder
<1>6. /\ steps \in Seq(Steps) /\ Doomed(steps) \subseteq Confirmed(ladder, snap)
      /\ \A n \in 1..Len(steps) : steps[n][1] = "collect"
  BY <1>5, CollectsAreSteps
<1> DEFINE last == <<<<"watch", pids>>>>
           s    == steps \o last
<1>7. last \in Seq(Steps) /\ Len(last) = 1 /\ last[1] = <<"watch", pids>>
  BY <1>4, PlansAreSteps
<1>8. todo' = s \o Tail(todo)
  BY <1>3 DEF Done
<1> HIDE DEF last
<1>9. Joins(steps, last, s)
  BY <1>6, <1>7, Joined
<1> HIDE DEF s
<1>10. /\ s \in Seq(Steps) /\ Len(s) = Len(steps) + 1
       /\ \A n \in 1..Len(steps) : s[n] = steps[n]
       /\ s[Len(steps) + 1] = <<"watch", pids>>
  <2>1. Len(steps) + 1 \in 1..Len(steps) + 1 /\ Len(steps) + 1 > Len(steps) /\ (Len(steps) + 1) - Len(steps) = 1
    BY <1>6
  <2> QED
    BY <1>6, <1>7, <1>9, <2>1 DEF Joins
<1>11. \A n \in 1..Len(s) : n \in 1..Len(steps) \/ n = Len(steps) + 1
  BY <1>6, <1>10
<1>12. \A n \in 1..Len(s) : s[n][1] \in {"collect", "watch"}
  BY <1>6, <1>10, <1>11
<1>13. Doomed(s) \subseteq Doomed(steps)
  BY <1>6, <1>10, <1>11 DEF Doomed, Ends
<1> QED
  BY <1>1, <1>2, <1>6, <1>8, <1>10, <1>12, <1>13 DEF Turns

\* FoldStep: a binding is the snapshot's own, a window is not older than the
\* run of probes it measures, and whom it confirms nobody has seen for as long.
LEMMA FoldKeepsFaith ==
  ASSUME Justified, FoldStep
  PROVE  Justified'
<1>1. WatchOK /\ PlanOK /\ LadderOK /\ Faithful /\ Doomed(todo) \subseteq Blamed
  BY DEF Justified
<1>2. PICK snap : snap = Now[2]
  OBVIOUS
<1>3. /\ snap \in Snapshots /\ Pending(todo) /\ todo[1][2] = snap /\ Shown(todo) = DOMAIN snap
      /\ Now[3] \in {-1, 0}
  BY <1>1, <1>2, FoldPlans
<1>4. PICK s \in Seq(Steps) : /\ Turns(s) /\ Doomed(s) \subseteq Confirmed(ladder, snap)
                             /\ \A n \in 1..Len(s) : s[n][1] \in {"collect", "watch"}
  BY <1>1, <1>2, FoldPlans
<1>5. todo \in Seq(Steps) /\ todo # <<>> /\ todo' = s \o Tail(todo) /\ Planned(todo)
  BY <1>1, <1>4 DEF Turns, PlanOK
<1>6. /\ Planned(todo') /\ ~Pending(todo') /\ Shown(todo') = {}
      /\ Doomed(todo') \subseteq Doomed(todo) \cup Doomed(s)
  BY <1>4, <1>5, PlannedAfter DEF Probes
<1>7. PlanOK'
  BY <1>4, <1>5, <1>6, After DEF PlanOK, Follows
<1>8. /\ ladder' = Fold(ladder, snap, Now[3])
      /\ UNCHANGED <<holds, gone, exits, owner, unseen>>
  BY <1>2 DEF FoldStep, world, watch
<1>9. ladder \in Ladder /\ DOMAIN ladder.miss \subseteq Id /\ ladder.vouched \subseteq Id
  BY <1>1 DEF LadderOK, Ladder
<1>10. /\ ladder' \in Ladder
       /\ ladder'.vouched \subseteq DOMAIN snap \cup DOMAIN ladder.miss \cup ladder.vouched
       /\ DOMAIN ladder'.miss \subseteq ladder'.vouched
       /\ \A i \in DOMAIN ladder'.miss :
            /\ i \notin DOMAIN snap
            /\ \/ i \in DOMAIN ladder.miss /\ ladder'.miss[i] = ladder.miss[i]
               \/ i \in ladder.vouched /\ ladder'.miss[i] = Now[3]
       /\ \A p \in Pid : \A i \in ladder'.bound[p] :
            \/ i \in DOMAIN snap /\ snap[i] = p
            \/ i \in ladder.bound[p] /\ i \notin DOMAIN snap
  BY <1>3, <1>8, <1>9, FoldFacts
<1>11. DOMAIN snap \subseteq Id /\ \A i \in DOMAIN snap : snap[i] \in Pid /\ owner[i] = snap[i]
  BY <1>1, <1>3 DEF Faithful, Snapshots
<1>12. Nobody \notin Pid
  BY TranscriptAssumption DEF Nobody
<1>13. \A i \in Id : unseen[i] # Seen => unseen[i] \in Nat
  BY <1>1, LadderAssumption DEF LadderOK, Seen
<1>14. Faithful'
  <2>1. \A i \in ladder'.vouched : owner'[i] # Nobody
    BY <1>1, <1>8, <1>10, <1>11, <1>12 DEF Faithful
  <2>2. \A p \in Pid : \A i \in ladder'.bound[p] \ Shown(todo') : owner'[i] = p
    BY <1>1, <1>3, <1>8, <1>10, <1>11 DEF Faithful
  <2>3. ASSUME NEW i \in DOMAIN ladder'.miss  PROVE unseen'[i] # Seen /\ ladder'.miss[i] <= unseen'[i]
    <3>1. CASE i \in DOMAIN ladder.miss /\ ladder'.miss[i] = ladder.miss[i]
      BY <1>1, <1>3, <1>8, <1>10, <2>3, <3>1 DEF Faithful
    <3>2. CASE i \in ladder.vouched /\ ladder'.miss[i] = Now[3]
      <4>1. unseen[i] # Seen /\ i \in Id
        BY <1>1, <1>3, <1>9, <1>10, <2>3, <3>2 DEF Faithful
      <4>2. unseen[i] \in Nat
        BY <1>13, <4>1
      <4> QED
        BY <1>3, <1>8, <3>2, <4>1, <4>2
    <3> QED
      BY <1>10, <2>3, <3>1, <3>2
  <2> QED
    BY <1>6, <1>10, <2>1, <2>2, <2>3 DEF Faithful
<1>15. Confirmed(ladder, snap) \subseteq Blamed
  <2>1. ASSUME NEW i \in Confirmed(ladder, snap)  PROVE i \in Blamed
    <3>1. i \in Id /\ i \in DOMAIN ladder.miss \ Shown(todo) /\ ladder.miss[i] >= Span
      BY <1>3, <1>9 DEF Confirmed, Missing, Lasting
    <3>2. unseen[i] # Seen /\ ladder.miss[i] <= unseen[i] /\ ladder.miss[i] \in Int
      BY <1>1, <1>9, <3>1 DEF Faithful, Ladder
    <3>3. unseen[i] \in Nat
      BY <1>13, <3>1, <3>2
    <3> QED
      BY <3>1, <3>2, <3>3, LadderAssumption DEF Blamed
  <2> QED
    BY <2>1
<1>16. Blamed' = Blamed
  BY <1>8 DEF Blamed
<1>17. Doomed(todo') \subseteq Blamed'
  BY <1>1, <1>4, <1>6, <1>15, <1>16
<1>18. LadderOK' /\ WatchOK'
  BY <1>1, <1>8, <1>10 DEF LadderOK, WatchOK
<1> QED
  BY <1>7, <1>14, <1>17, <1>18 DEF Justified

\* A step that only replaces what is to be done.
LEMMA SameKeepsFaith ==
  ASSUME Justified, UNCHANGED <<gone, exits, holds, ladder, owner, unseen>>,
         PlanOK', ~Pending(todo), ~Pending(todo'), Doomed(todo') \subseteq Blamed
  PROVE  Justified'
<1>1. Shown(todo) = {} /\ Shown(todo') = {} /\ Blamed' = Blamed
  BY DEF Shown, Blamed
<1>2. gone' = gone /\ exits' = exits /\ holds' = holds /\ ladder' = ladder /\ owner' = owner /\ unseen' = unseen
  OBVIOUS
<1>3. Faithful'
  BY <1>1, <1>2 DEF Justified, Faithful
<1>4. WatchOK' /\ LadderOK'
  BY <1>2 DEF Justified, WatchOK, LadderOK
<1> QED
  BY <1>1, <1>3, <1>4 DEF Justified

\* The steps behind one that is no probe.
LEMMA TurnKeepsPlan ==
  ASSUME PlanOK, NEW s, Turns(s), \A n \in 1..Len(s) : s[n][1] \notin Probes
  PROVE  PlanOK' /\ ~Pending(todo') /\ Doomed(todo') \subseteq Doomed(todo) \cup Doomed(s)
<1>1. /\ s \in Seq(Steps) /\ todo \in Seq(Steps) /\ todo # <<>> /\ todo' = s \o Tail(todo) /\ Planned(todo)
  BY DEF Turns, PlanOK
<1>2. Planned(todo') /\ ~Pending(todo') /\ Doomed(todo') \subseteq Doomed(todo) \cup Doomed(s)
  BY <1>1, PlannedAfter
<1>3. Follows(todo, s, todo')
  BY <1>1, After
<1> QED
  BY <1>2, <1>3 DEF PlanOK, Follows

\* CollectStep: the files of the session, and then its end.
Claimed(i) == {f \in File : IdOf[f] = i /\ seen[f] # "none"}

DrainsAndEnds(s, i) ==
  /\ Turns(s) /\ Doomed(s) \subseteq {i} /\ Len(s) \in Nat \ {0}
  /\ \A n \in 1..Len(s) - 1 : s[n][1] = "park"
  /\ s[Len(s)] = <<"end", i, Claimed(i)>>
  /\ \A f \in Claimed(i) : \E n \in 1..Len(s) - 1 : Parks(s[n], f)

LEMMA CollectPlans ==
  ASSUME PlanOK, CollectStep, NEW i, i = Now[2]
  PROVE  /\ i \in Id /\ i \in Doomed(todo) /\ todo[1][1] = "collect"
         /\ \E s \in Seq(Steps) : DrainsAndEnds(s, i)
<1>1. todo # <<>> /\ 1 \in DOMAIN todo /\ Now = todo[1] /\ Now \in Steps /\ Now[1] = "collect"
  BY NowIsFirst DEF CollectStep
<1>2. i \in Id /\ i \in Doomed(todo)
  BY <1>1, StepFacts DEF Doomed, Ends
<1>3. Claimed(i) \in SUBSET File /\ \A f \in Claimed(i) : IdOf[f] = i
  BY DEF Claimed
<1>4. PICK steps \in Drains(Claimed(i), "kept") : Done(steps \o <<<<"end", i, Claimed(i)>>>>)
  BY DEF CollectStep, Collect, Claimed
<1>5. /\ steps \in Seq(Steps) /\ Doomed(steps) = {}
      /\ \A n \in 1..Len(steps) : steps[n][1] = "park"
      /\ \A f \in Claimed(i) : \E n \in 1..Len(steps) : Parks(steps[n], f)
  BY <1>3, <1>4, DrainsAreSteps
<1> DEFINE last == <<<<"end", i, Claimed(i)>>>>
           s    == steps \o last
<1>6. last \in Seq(Steps) /\ Len(last) = 1 /\ last[1] = <<"end", i, Claimed(i)>>
  BY <1>2, <1>3, PlansAreSteps
<1>7. todo' = s \o Tail(todo)
  BY <1>4 DEF Done
<1> HIDE DEF last
<1>8. Joins(steps, last, s)
  BY <1>5, <1>6, Joined
<1> HIDE DEF s
<1>9. /\ s \in Seq(Steps) /\ Len(s) = Len(steps) + 1 /\ Len(steps) \in Nat
      /\ \A n \in 1..Len(steps) : s[n] = steps[n]
      /\ s[Len(steps) + 1] = <<"end", i, Claimed(i)>>
  <2>1. Len(steps) + 1 \in 1..Len(steps) + 1 /\ Len(steps) + 1 > Len(steps) /\ (Len(steps) + 1) - Len(steps) = 1
    BY <1>5
  <2> QED
    BY <1>5, <1>6, <1>8, <2>1 DEF Joins
<1>10. \A n \in 1..Len(s) : n \in 1..Len(steps) \/ n = Len(steps) + 1
  BY <1>9
<1>11. Len(s) - 1 = Len(steps)
  BY <1>9
<1>12. Doomed(s) \subseteq {i}
  <2>1. ASSUME NEW j \in Doomed(s)  PROVE j = i
    <3>1. PICK n \in DOMAIN s : s[n][1] \in Ends /\ s[n][2] = j
      BY DEF Doomed
    <3>2. n \in 1..Len(steps) \/ n = Len(steps) + 1
      BY <1>9, <1>10
    <3>3. ~(n \in 1..Len(steps))
      BY <1>5, <1>9, <3>1 DEF Ends
    <3> QED
      BY <1>9, <3>1, <3>2, <3>3
  <2> QED
    BY <2>1
<1>13. Turns(s)
  BY <1>1, <1>7, <1>9 DEF Turns
<1>14. \A n \in 1..Len(s) - 1 : s[n][1] = "park"
  BY <1>5, <1>9, <1>11
<1>15. \A f \in Claimed(i) : \E n \in 1..Len(s) - 1 : Parks(s[n], f)
  BY <1>5, <1>9, <1>11
<1>16. Len(s) \in Nat \ {0} /\ s[Len(s)] = <<"end", i, Claimed(i)>>
  BY <1>9
<1>17. DrainsAndEnds(s, i)
  BY <1>12, <1>13, <1>14, <1>15, <1>16 DEF DrainsAndEnds
<1> QED
  BY <1>1, <1>2, <1>9, <1>17

\* ParkStep: the file is walked next, and its claim released if asked for.
LEMMA ParkPlans ==
  ASSUME PlanOK, ParkStep, NEW f, f = Now[2]
  PROVE  /\ f \in File /\ todo[1][1] = "park" /\ todo[1][2] = f
         /\ \E s \in Seq(Steps) :
              /\ Turns(s) /\ Doomed(s) = {} /\ Len(s) \in {1, 2}
              /\ s[1] = <<"walk", f>> /\ (Len(s) = 2 => s[2] = <<"release", f>>)
<1>1. todo # <<>> /\ Now = todo[1] /\ Now \in Steps /\ Now[1] = "park"
  BY NowIsFirst DEF ParkStep
<1>2. f \in File /\ <<"walk", f>> \in Steps /\ <<"release", f>> \in Steps
  BY <1>1, StepFacts, PlansAreSteps
<1>3. CASE Now[3] = "released"
  <2> DEFINE s == <<<<"walk", f>>, <<"release", f>>>>
  <2>1. s \in Seq(Steps) /\ Len(s) = 2 /\ s[1] = <<"walk", f>> /\ s[2] = <<"release", f>>
    BY <1>2
  <2>2. todo' = s \o Tail(todo)
    BY <1>3 DEF ParkStep, Done
  <2> HIDE DEF s
  <2>3. Doomed(s) = {}
    <3>1. \A n \in DOMAIN s : n = 1 \/ n = 2
      BY <2>1
    <3> QED
      BY <2>1, <3>1 DEF Doomed, Ends
  <2> QED
    BY <1>1, <1>2, <2>1, <2>2, <2>3 DEF Turns
<1>4. CASE Now[3] # "released"
  <2> DEFINE s == <<<<"walk", f>>>>
  <2>1. s \in Seq(Steps) /\ Len(s) = 1 /\ s[1] = <<"walk", f>>
    BY <1>2
  <2>2. todo' = s \o Tail(todo)
    BY <1>4 DEF ParkStep, Done
  <2> HIDE DEF s
  <2>3. Doomed(s) = {}
    <3>1. \A n \in DOMAIN s : n = 1
      BY <2>1
    <3> QED
      BY <2>1, <3>1 DEF Doomed, Ends
  <2> QED
    BY <1>1, <1>2, <2>1, <2>2, <2>3 DEF Turns
<1> QED
  BY <1>3, <1>4

\* UnclaimStep: the held files of the children that ended.
Unclaimed == {f \in File : /\ IdOf[f] \in {i \in unclaims : \E g \in File : IdOf[g] = i /\ seen[g] # "none"}
                          /\ seen[f] = "held"}

LEMMA UnclaimPlans ==
  ASSUME PlanOK, UnclaimStep
  PROVE  /\ todo[1][1] = "unclaims"
         /\ \E s \in Seq(Steps) :
              /\ Turns(s) /\ Doomed(s) = {}
              /\ \A n \in 1..Len(s) : s[n][1] = "park"
              /\ \A f \in Unclaimed : \E n \in 1..Len(s) : Parks(s[n], f)
<1>1. todo # <<>> /\ Now = todo[1] /\ Now[1] = "unclaims"
  BY NowIsFirst DEF UnclaimStep
<1>2. PICK s \in Drains(Unclaimed, "released") : Done(s)
  BY DEF UnclaimStep, Unclaimed
<1>3. Unclaimed \in SUBSET File
  BY DEF Unclaimed
<1>4. /\ s \in Seq(Steps) /\ Doomed(s) = {}
      /\ \A n \in 1..Len(s) : s[n][1] = "park"
      /\ \A f \in Unclaimed : \E n \in 1..Len(s) : Parks(s[n], f)
  BY <1>2, <1>3, DrainsAreSteps
<1>5. Turns(s)
  BY <1>1, <1>2, <1>4 DEF Turns, Done
<1> QED
  BY <1>1, <1>4, <1>5

\* Every step but the probe and its fold leaves what the ladder says alone, and
\* ends nobody who was not to be ended.
LEMMA StepKeepsJustified ==
  ASSUME Justified, Step
  PROVE  Justified'
<1>1. PlanOK /\ Doomed(todo) \subseteq Blamed
  BY DEF Justified
<1>2. CASE ProbeAnswers
  BY <1>2, ProbeKeepsFaith
<1>3. CASE FoldStep
  BY <1>3, FoldKeepsFaith
<1>4. ASSUME NEW s, Turns(s), \A n \in 1..Len(s) : s[n][1] \notin Probes, Doomed(s) \subseteq Doomed(todo),
             UNCHANGED <<gone, exits, holds, ladder, owner, unseen>>, ~Pending(todo)
      PROVE  Justified'
  <2>1. PlanOK' /\ ~Pending(todo') /\ Doomed(todo') \subseteq Blamed
    BY <1>1, <1>4, TurnKeepsPlan
  <2> QED
    BY <1>4, <2>1, SameKeepsFaith
<1>5. CASE Brief
  <2>1. PICK s \in Seq(Steps) : Briefly(s)
    BY <1>1, <1>5, BriefTurns
  <2>2. UNCHANGED <<gone, exits, holds, ladder, owner, unseen>>
    BY <1>5 DEF Brief, ProbeFails, WatchStep, WalkStep, EndStep, ReleaseStep, RevouchStep, ScanStep, VouchStep,
                world, watch, probing, history
  <2>3. ~Pending(todo)
    BY <1>5 DEF Brief, ProbeFails, WatchStep, WalkStep, EndStep, ReleaseStep, RevouchStep, ScanStep, VouchStep,
                Pending, Now
  <2> QED
    BY <1>4, <2>1, <2>2, <2>3 DEF Briefly, Probes
<1>6. CASE CollectStep
  <2>1. PICK i : i = Now[2]
    OBVIOUS
  <2>2. i \in Doomed(todo) /\ todo[1][1] = "collect"
    BY <1>1, <1>6, <2>1, CollectPlans
  <2>3. PICK s \in Seq(Steps) : DrainsAndEnds(s, i)
    BY <1>1, <1>6, <2>1, CollectPlans
  <2>4. UNCHANGED <<gone, exits, holds, ladder, owner, unseen>>
    BY <1>6 DEF CollectStep, world, watch, probing
  <2>5. \A n \in 1..Len(s) : s[n][1] \notin Probes
    <3>1. \A n \in 1..Len(s) : n \in 1..Len(s) - 1 \/ n = Len(s)
      BY <2>3 DEF DrainsAndEnds
    <3> QED
      BY <2>3, <3>1 DEF DrainsAndEnds, Probes
  <2> QED
    BY <1>4, <2>2, <2>3, <2>4, <2>5 DEF DrainsAndEnds, Pending
<1>7. CASE ParkStep
  <2>1. PICK f : f = Now[2]
    OBVIOUS
  <2>2. PICK s \in Seq(Steps) :
          /\ Turns(s) /\ Doomed(s) = {} /\ Len(s) \in {1, 2}
          /\ s[1] = <<"walk", f>> /\ (Len(s) = 2 => s[2] = <<"release", f>>)
    BY <1>1, <1>7, <2>1, ParkPlans
  <2>3. UNCHANGED <<gone, exits, holds, ladder, owner, unseen>> /\ ~Pending(todo)
    BY <1>7 DEF ParkStep, world, watch, probing, history, Pending, Now
  <2>4. \A n \in 1..Len(s) : s[n][1] \notin Probes
    <3>1. CASE Len(s) = 1
      <4>1. \A n \in 1..Len(s) : n = 1
        BY <3>1
      <4> QED
        BY <2>2, <4>1 DEF Probes
    <3>2. CASE Len(s) = 2
      <4>1. \A n \in 1..Len(s) : n = 1 \/ n = 2
        BY <3>2
      <4> QED
        BY <2>2, <3>2, <4>1 DEF Probes
    <3> QED
      BY <2>2, <3>1, <3>2
  <2> QED
    BY <1>4, <2>2, <2>3, <2>4
<1>8. CASE UnclaimStep
  <2>1. PICK s \in Seq(Steps) : Turns(s) /\ Doomed(s) = {} /\ \A n \in 1..Len(s) : s[n][1] = "park"
    BY <1>1, <1>8, UnclaimPlans
  <2>2. UNCHANGED <<gone, exits, holds, ladder, owner, unseen>> /\ ~Pending(todo)
    BY <1>8 DEF UnclaimStep, world, watch, probing, Pending, Now
  <2> QED
    BY <1>4, <2>1, <2>2 DEF Probes
<1> QED
  BY <1>2, <1>3, <1>5, <1>6, <1>7, <1>8 DEF Step, Brief

\* An arm starts with nothing to be done; an exit blames the process that every
\* session bound to it was last seen with.
LEMMA ArmKeepsJustified ==
  ASSUME Justified, Arm
  PROVE  Justified'
<1>1. WatchOK /\ PlanOK /\ LadderOK /\ Faithful
  BY DEF Justified
<1>2. ASSUME NEW born \in {-1, 0}, NEW drain \in {<<>>, <<<<"unclaims">>>>}, Plan(Pass(born, drain)),
             UNCHANGED <<gone, exits, holds, ladder, owner, unseen>>
      PROVE  Justified'
  <2>1. PlanOK' /\ ~Pending(todo') /\ Doomed(todo') = {} /\ ~Pending(todo)
    BY <1>2, PassIsPlanned DEF Plan, PlanOK, Idle, Pending
  <2> QED
    BY <1>2, <2>1, SameKeepsFaith
<1>3. CASE Seed \/ Rescan \/ Poll
  <2>1. UNCHANGED <<gone, exits, holds, ladder, owner, unseen>>
    BY <1>3 DEF Seed, Rescan, Poll, world, watch, probing, history
  <2> QED
    BY <1>2, <1>3, <2>1 DEF Seed, Rescan, Poll
<1>4. ASSUME NEW f \in File, Notify(f)  PROVE Justified'
  <2> DEFINE q == <<<<"unclaims">>, <<"walk", f>>>>
  <2>1. <<"unclaims">> \in Steps /\ <<"walk", f>> \in Steps
    BY PlansAreSteps
  <2>2. q \in Seq(Steps) /\ Len(q) = 2 /\ q[1] = <<"unclaims">> /\ q[2] = <<"walk", f>>
    BY <2>1
  <2>3. todo' = q /\ Idle
    BY <1>4 DEF Notify, Plan
  <2> HIDE DEF q
  <2>4. \A n \in DOMAIN q : n = 1 \/ n = 2
    BY <2>2
  <2>5. PlanOK' /\ ~Pending(todo') /\ Doomed(todo') = {} /\ ~Pending(todo)
    BY <2>2, <2>3, <2>4 DEF PlanOK, Planned, Idle, Pending, Doomed, Probes, Ends
  <2>6. UNCHANGED <<gone, exits, holds, ladder, owner, unseen>>
    BY <1>4 DEF Notify, world, watch, probing, history
  <2> QED
    BY <2>5, <2>6, SameKeepsFaith
<1>5. ASSUME NEW p \in Pid, Exited(p)  PROVE Justified'
  <2>1. /\ exits[p] > 0 /\ exits' = [exits EXCEPT ![p] = @ - 1]
        /\ ladder' = PidDied(ladder, p) /\ Idle
        /\ UNCHANGED <<gone, holds, owner, unseen>>
    BY <1>5 DEF Exited, Watch!Receive, Plan, world, history
  <2>2. PICK s \in Collects(ladder.bound[p]) : todo' = s
    BY <1>5 DEF Exited, Plan
  <2>3. ladder \in Ladder /\ ladder.bound[p] \in SUBSET Id
    BY <1>1 DEF LadderOK, Ladder
  <2>4. /\ s \in Seq(Steps) /\ Doomed(s) \subseteq ladder.bound[p]
        /\ \A n \in 1..Len(s) : s[n][1] = "collect"
    BY <2>2, <2>3, CollectsAreSteps
  <2>5. /\ PlanOK' /\ ~Pending(todo') /\ Shown(todo') = {} /\ ~Pending(todo) /\ Shown(todo) = {}
        /\ Doomed(todo') \subseteq ladder.bound[p]
    <3>1. todo' # <<>> => 1 \in 1..Len(todo')
      BY <2>2, <2>4
    <3> QED
      BY <2>1, <2>2, <2>4, <3>1 DEF PlanOK, Planned, Pending, Shown, Idle, Probes
  <2>6. /\ ladder' \in Ladder
        /\ ladder'.vouched = ladder.vouched \ ladder.bound[p]
        /\ DOMAIN ladder'.miss = DOMAIN ladder.miss \ ladder.bound[p]
        /\ \A i \in DOMAIN ladder'.miss : ladder'.miss[i] = ladder.miss[i]
        /\ \A q \in Pid : ladder'.bound[q] \subseteq ladder.bound[q]
    BY <2>1, <2>3, ExitFacts
  <2>7. \A i \in ladder.bound[p] : i \in Blamed
    BY <1>1, <2>1, <2>3, <2>5 DEF Faithful, WatchOK, Blamed
  <2>8. Blamed' = Blamed
    BY <2>1 DEF Blamed
  <2>9. Faithful'
    BY <1>1, <2>1, <2>5, <2>6 DEF Faithful
  <2>10. WatchOK' /\ LadderOK'
    <3>1. exits' \in [Pid -> Nat] /\ \A q \in Pid : exits'[q] > 0 => q \in gone'
      BY <1>1, <2>1 DEF WatchOK
    <3> QED
      BY <1>1, <2>1, <2>6, <3>1 DEF WatchOK, LadderOK
  <2> QED
    BY <2>5, <2>7, <2>8, <2>9, <2>10 DEF Justified
<1> QED
  BY <1>3, <1>4, <1>5 DEF Arm

\* A poll interval makes a gap and the absence behind it older alike.
LEMMA ElapseKeepsJustified ==
  ASSUME Justified, Elapse
  PROVE  Justified'
<1>1. WatchOK /\ PlanOK /\ LadderOK /\ Faithful /\ Doomed(todo) \subseteq Blamed
  BY DEF Justified
<1>2. /\ ladder' = Older(ladder)
      /\ unseen' = [i \in Id |-> IF unseen[i] \in 0..(Span - 1) THEN unseen[i] + 1 ELSE unseen[i]]
      /\ UNCHANGED <<gone, exits, holds, owner, todo>>
  BY DEF Elapse, world, watch
<1>3. ladder \in Ladder /\ DOMAIN ladder.miss \subseteq Id /\ ladder.vouched \subseteq Id
      /\ \A i \in DOMAIN ladder.miss : ladder.miss[i] \in -1..Span
  BY <1>1 DEF LadderOK, Ladder
<1>4. /\ ladder' \in Ladder
      /\ ladder'.vouched = ladder.vouched /\ ladder'.bound = ladder.bound /\ DOMAIN ladder'.miss = DOMAIN ladder.miss
      /\ \A i \in DOMAIN ladder'.miss :
           ladder'.miss[i] = IF ladder.miss[i] < Span THEN ladder.miss[i] + 1 ELSE ladder.miss[i]
  BY <1>2, <1>3, TickFacts
<1>5. \A i \in Id : /\ unseen[i] \in -1..Span
                    /\ unseen'[i] = IF unseen[i] \in 0..(Span - 1) THEN unseen[i] + 1 ELSE unseen[i]
  BY <1>1, <1>2 DEF LadderOK
<1>6. \A i \in Id : unseen'[i] \in -1..Span /\ (unseen'[i] = Seen <=> unseen[i] = Seen) /\ unseen'[i] >= unseen[i]
  BY <1>5, LadderAssumption DEF Seen
<1>7. Shown(todo') = Shown(todo) /\ (Pending(todo') <=> Pending(todo)) /\ Doomed(todo') = Doomed(todo)
  BY <1>2
<1>8. ASSUME NEW i \in DOMAIN ladder'.miss \ Shown(todo')
      PROVE  unseen'[i] # Seen /\ ladder'.miss[i] <= unseen'[i]
  <2>1. i \in Id /\ unseen[i] # Seen /\ ladder.miss[i] <= unseen[i]
    BY <1>1, <1>3, <1>4, <1>7 DEF Faithful
  <2>2. unseen[i] \in 0..Span
    BY <1>5, <2>1, LadderAssumption DEF Seen
  <2>3. ladder.miss[i] \in -1..Span
    BY <1>3, <1>4
  <2> QED
    BY <1>4, <1>5, <1>6, <2>1, <2>2, <2>3, LadderAssumption
<1>9. /\ \A i \in ladder'.vouched : owner'[i] # Nobody
      /\ DOMAIN ladder'.miss \subseteq ladder'.vouched
      /\ \A p \in Pid : \A i \in ladder'.bound[p] \ Shown(todo') : owner'[i] = p
  BY <1>1, <1>2, <1>4, <1>6, <1>7 DEF Faithful
<1>10. Pending(todo') => /\ \A i \in Shown(todo') : owner'[i] = todo'[1][2][i]
                        /\ \A i \in ladder'.vouched \ Shown(todo') : unseen'[i] # Seen
  BY <1>1, <1>2, <1>3, <1>4, <1>6, <1>7 DEF Faithful
<1>11. Faithful'
  BY <1>8, <1>9, <1>10 DEF Faithful
<1>12. Blamed \subseteq Blamed'
  <2>1. ASSUME NEW i \in Blamed  PROVE i \in Blamed'
    <3>1. i \in Id /\ (owner[i] \in gone \/ unseen[i] >= Span)
      BY DEF Blamed
    <3>2. unseen[i] >= Span => unseen'[i] >= Span
      BY <1>5, <1>6, <3>1, LadderAssumption
    <3> QED
      BY <1>2, <3>1, <3>2 DEF Blamed
  <2> QED
    BY <2>1
<1>13. LadderOK'
  <2>1. unseen' \in [Id -> -1..Span]
    BY <1>2, <1>6
  <2> QED
    BY <1>1, <1>2, <1>4, <2>1 DEF LadderOK
<1>14. WatchOK' /\ PlanOK'
  BY <1>1, <1>2 DEF WatchOK, PlanOK
<1> QED
  BY <1>1, <1>7, <1>11, <1>12, <1>13, <1>14 DEF Justified

\* The world: whatever it writes, opens, closes and kills.
LEMMA WorldKeepsJustified ==
  ASSUME Justified, World
  PROVE  Justified'
<1>1. WatchOK /\ PlanOK /\ LadderOK /\ Faithful /\ Doomed(todo) \subseteq Blamed
  BY DEF Justified
<1>2. ASSUME UNCHANGED <<gone, exits, holds, ladder, owner, unseen, todo>>  PROVE Justified'
  BY <1>2 DEF Justified, WatchOK, PlanOK, LadderOK, Faithful, Blamed
<1>3. ASSUME NEW f \in File,
             BeginLine(f) \/ Truncate(f) \/ Delete(f) \/ Fade(f) \/ \E k \in Kind : WriteLine(f, k)
      PROVE  Justified'
  <2>1. UNCHANGED <<gone, exits, holds, ladder, owner, unseen, todo>>
    BY <1>3 DEF BeginLine, Truncate, Delete, Fade, WriteLine, Changes, watch, inside, probing, loop, history
  <2> QED
    BY <1>2, <2>1
<1>4. ASSUME NEW i \in Id, ChildEnd(i) \/ Lapse(i)  PROVE Justified'
  <2>1. UNCHANGED <<gone, exits, holds, ladder, owner, unseen, todo>>
    BY <1>4 DEF ChildEnd, Lapse, world, watch, probing, loop, history
  <2> QED
    BY <1>2, <2>1
<1>5. ASSUME NEW i \in Id, NEW p \in Pid, Open(i, p) \/ Close(i, p)  PROVE Justified'
  <2>1. holds' \in SUBSET (Id \X Pid)
    BY <1>1, <1>5 DEF Open, Close, LetGo, LadderOK
  <2>2. UNCHANGED <<gone, exits, ladder, owner, unseen, todo>>
    BY <1>5 DEF Open, Close, watch, inside, probing, loop, history
  <2> QED
    BY <2>1, <2>2, HoldersChange
<1>6. ASSUME NEW p \in Pid, Die(p)  PROVE Justified'
  <2>1. LetGo(Id, {p}) /\ gone' = gone \cup {p} /\ UNCHANGED <<exits, ladder, owner, unseen, todo>>
    BY <1>6 DEF Die, Watch!Exit, inside, probing, loop, history
  <2>2. holds' \in SUBSET (Id \X Pid)
    BY <1>1, <2>1 DEF LetGo, LadderOK
  <2> QED
    BY <2>1, <2>2, HoldersChange
<1>7. ASSUME NEW p \in Pid, Reported(p)  PROVE Justified'
  <2>1. UNCHANGED <<gone, holds, ladder, owner, unseen, todo>>
    BY <1>7 DEF Reported, Watch!Report, Watch!Refuse, world, inside, probing, loop, history
  <2>2. exits' = exits \/ (p \in gone /\ exits' = [exits EXCEPT ![p] = @ + 1])
    BY <1>7 DEF Reported, Watch!Report, Watch!Refuse
  <2>3. WatchOK'
    BY <1>1, <2>1, <2>2 DEF WatchOK
  <2> QED
    BY <1>1, <2>1, <2>3 DEF Justified, PlanOK, LadderOK, Faithful, Blamed
<1>8. CASE WatchStops
  <2>1. UNCHANGED <<gone, exits, holds, ladder, owner, unseen, todo>>
    BY <1>8 DEF WatchStops, Watch!Stop, world, inside, probing, loop, history
  <2> QED
    BY <1>2, <2>1
<1>9. CASE Elapse
  BY <1>9, ElapseKeepsJustified
<1> QED
  BY <1>3, <1>4, <1>5, <1>6, <1>7, <1>8, <1>9 DEF World

LEMMA InitIsJustified == Init => Justified
<1> SUFFICES ASSUME Init PROVE Justified
  OBVIOUS
<1>1. /\ holds \in SUBSET (Id \X Pid) /\ exits = [p \in Pid |-> 0]
      /\ ladder = EmptyLadder /\ todo = <<>>
      /\ owner = [i \in Id |-> Nobody] /\ unseen = [i \in Id |-> Seen]
  BY DEF Init, Watch!Init
<1>2. /\ ladder \in Ladder /\ ladder.vouched = {} /\ DOMAIN ladder.miss = {}
      /\ \A p \in Pid : ladder.bound[p] = {}
  BY <1>1, EmptyIsConsistent DEF EmptyLadder
<1>3. LadderOK
  BY <1>1, <1>2, LadderAssumption DEF LadderOK, Seen
<1>4. PlanOK /\ Doomed(todo) = {} /\ ~Pending(todo)
  BY <1>1 DEF PlanOK, Planned, Doomed, Pending
<1>5. Faithful
  BY <1>1, <1>2, <1>4 DEF Faithful
<1>6. WatchOK
  BY <1>1 DEF WatchOK
<1> QED
  BY <1>3, <1>4, <1>5, <1>6 DEF Justified

LEMMA AlwaysJustified == Spec => []Justified
<1>1. Justified /\ [Next]_vars => Justified'
  <2>1. ASSUME Justified, UNCHANGED vars  PROVE Justified'
    <3>1. UNCHANGED <<gone, exits, holds, ladder, owner, unseen, todo>>
      BY <2>1 DEF vars, world, watch, probing, loop, history
    <3> QED
      BY <2>1, <3>1 DEF Justified, WatchOK, PlanOK, LadderOK, Faithful, Blamed
  <2> QED
    BY <2>1, StepKeepsJustified, ArmKeepsJustified, WorldKeepsJustified DEF Next
<1> QED
  BY InitIsJustified, <1>1, PTL DEF Spec

\* The watcher ends a session of its own accord only if the process it was last
\* seen with is gone, or if every healthy probe since one at least a span ago has
\* found nobody holding it, that one included - for any number of sessions that
\* move between any number of processes, whatever probes fail, exits overtake each
\* other and pids are refused.
THEOREM EndsHaveCauses == Spec => EndHasCause
<1> DEFINE Caused == \A i \in Id : EndStep /\ Now[2] = i => owner[i] \in gone \/ unseen[i] >= Span
<1>1. ASSUME Justified, NEW i \in Id, EndStep, Now[2] = i  PROVE owner[i] \in gone \/ unseen[i] >= Span
  <2>1. 1 \in DOMAIN todo /\ Now = todo[1] /\ Now[1] = "end"
    BY <1>1, NowIsFirst DEF Justified, EndStep
  <2>2. i \in Doomed(todo)
    BY <1>1, <2>1 DEF Doomed, Ends
  <2> QED
    BY <1>1, <2>2 DEF Justified, Blamed
<1>2. Justified /\ [Next]_vars => [Caused]_vars
  BY <1>1
<1> QED
  BY AlwaysJustified, <1>2, PTL DEF Spec, EndHasCause

\* In every state a session is bound to one process at most, and whoever is bound
\* or missing is vouched for: an exit ends the sessions of that process alone.
THEOREM LadderStaysConsistent == Spec => []Consistent(ladder)
<1>1. Init => Consistent(ladder)
  BY EmptyIsConsistent DEF Init
<1>2. Justified /\ Consistent(ladder) /\ [Next]_vars => Consistent(ladder)'
  <2> SUFFICES ASSUME Justified, Consistent(ladder), [Next]_vars PROVE Consistent(ladder')
    OBVIOUS
  <2>1. PlanOK /\ LadderOK /\ ladder \in Ladder
    BY DEF Justified, LadderOK
  <2>2. CASE FoldStep
    <3>1. PICK snap : snap = Now[2]
      OBVIOUS
    <3>2. snap \in Snapshots /\ Now[3] \in -1..Span
      BY <2>1, <2>2, <3>1, FoldPlans, LadderAssumption
    <3>3. ladder' = Fold(ladder, snap, Now[3])
      BY <2>2, <3>1 DEF FoldStep
    <3> QED
      BY <2>1, <3>2, <3>3, FoldIsConsistent
  <2>3. ASSUME NEW p \in Pid, Exited(p)  PROVE Consistent(ladder')
    <3>1. ladder' = PidDied(ladder, p)
      BY <2>3 DEF Exited
    <3> QED
      BY <2>1, <3>1, ExitIsConsistent
  <2>4. CASE Elapse
    <3>1. ladder' = Older(ladder)
      BY <2>4 DEF Elapse
    <3> QED
      BY <2>1, <3>1, TickIsConsistent
  <2>5. ASSUME ladder' = ladder  PROVE Consistent(ladder')
    BY <2>5
  <2>6. CASE Step /\ ~FoldStep
    <3>1. ladder' = ladder
      BY <2>6 DEF Step, ProbeAnswers, ProbeFails, WatchStep, CollectStep, ParkStep, WalkStep, EndStep, UnclaimStep,
                  ReleaseStep, RevouchStep, ScanStep, VouchStep, probing
    <3> QED
      BY <2>5, <3>1
  <2>7. CASE Arm /\ ~(\E p \in Pid : Exited(p))
    <3>1. ladder' = ladder
      BY <2>7 DEF Arm, Seed, Rescan, Poll, Notify, probing
    <3> QED
      BY <2>5, <3>1
  <2>8. CASE World /\ ~Elapse
    <3>1. ladder' = ladder
      BY <2>8 DEF World, BeginLine, Truncate, Delete, Fade, WriteLine, Changes, ChildEnd, Lapse, Open, Close, Die,
                  Reported, WatchStops, inside, probing
    <3> QED
      BY <2>5, <3>1
  <2>9. CASE UNCHANGED vars
    BY <2>5, <2>9 DEF vars, probing
  <2> QED
    BY <2>2, <2>3, <2>4, <2>6, <2>7, <2>8, <2>9 DEF Next
<1> QED
  BY AlwaysJustified, <1>1, <1>2, PTL DEF Spec
-----------------------------------------------------------------------------
(* Every agent that may come back has a cause to.                          *)

\* What the watcher knows of the files, and what the history says of them.
FilesOK ==
  /\ text \in [File -> [lines : Seq(Kind), part : BOOLEAN, there : BOOLEAN]]
  /\ \A f \in File : Len(text[f].lines) <= MaxLines
  /\ cursor \in [File -> Nat \cup {Unknown}]
  /\ seen \in [File -> {"held", "released", "none"}]
  /\ cause \in [File -> SUBSET {"bytes", "vouch"}]
  /\ \A f \in File : cursor[f] = Unknown => seen[f] = "none"

\* A file may bring its agent back: for what was written in it, or for a vouch
\* that found it parked.
Excused(f) == "bytes" \in cause[f] \/ ("vouch" \in cause[f] /\ seen[f] = "none" /\ ~Ended(f))

\* A file that will be read, with no claim held on it, is excused: it is new, or
\* behind, or will be put back to its start because it is vouched for.
Accounted(f) ==
  text[f].there =>
    /\ cursor[f] = Unknown => "bytes" \in cause[f]
    /\ Behind(f) /\ seen[f] # "held" => Excused(f)
    /\ seen[f] = "none" /\ Admits(f) /\ ~Ended(f) => Excused(f)

\* The files that are read under their claim only; the files to be put back.
Stale == {f \in File : Behind(f) /\ seen[f] = "held" /\ "bytes" \notin cause[f]}
Over  == {f \in File : At(f) > Length(f)}

Excusable == FilesOK /\ (\A f \in File : Accounted(f)) /\ Drained(todo, Stale, Over)

\* The positions are numbers.
LEMMA Positions ==
  ASSUME FilesOK, NEW f \in File
  PROVE  /\ At(f) \in Nat /\ Length(f) \in Nat /\ Complete(f) \in Nat
         /\ Complete(f) <= Length(f) /\ Length(f) <= Complete(f) + 1
         /\ cursor[f] \in Nat \cup {Unknown} /\ seen[f] \in {"held", "released", "none"}
         /\ cause[f] \in SUBSET {"bytes", "vouch"} /\ text[f].there \in BOOLEAN
         /\ text[f].lines \in Seq(Kind) /\ Len(text[f].lines) <= MaxLines
<1>1. text[f] \in [lines : Seq(Kind), part : BOOLEAN, there : BOOLEAN] /\ Len(text[f].lines) <= MaxLines
  BY DEF FilesOK
<1>2. cursor[f] \in Nat \cup {Unknown} /\ seen[f] \in {"held", "released", "none"}
      /\ cause[f] \in SUBSET {"bytes", "vouch"}
  BY DEF FilesOK
<1>3. Len(text[f].lines) \in Nat /\ Half(text[f].part) \in {0, 1}
  BY <1>1 DEF Half
<1>4. At(f) \in Nat
  BY <1>2 DEF At, Unknown
<1> QED
  BY <1>1, <1>2, <1>3, <1>4 DEF Length, Complete

\* A file that neither grows nor is read is where it was.
SameFile(f) ==
  /\ At(f)' = At(f) /\ Length(f)' = Length(f) /\ Complete(f)' = Complete(f)
  /\ Ended(f)' <=> Ended(f)
  /\ Behind(f)' <=> Behind(f)
  /\ text[f].there' <=> text[f].there

LEMMA FileStays ==
  ASSUME NEW f \in File, text'[f] = text[f], cursor'[f] = cursor[f]
  PROVE  SameFile(f)
<1>1. At(f)' = At(f) /\ Complete(f)' = Complete(f) /\ Length(f)' = Length(f)
  BY DEF At, Complete, Length
<1>2. Ended(f)' <=> Ended(f)
  BY DEF Ended
<1>3. Behind(f)' <=> Behind(f)
  BY <1>1 DEF Behind
<1> QED
  BY <1>1, <1>2, <1>3 DEF SameFile

LEMMA EndedStays ==
  ASSUME NEW f \in File, text'[f] = text[f]
  PROVE  /\ Ended(f)' <=> Ended(f)
         /\ Length(f)' = Length(f) /\ Complete(f)' = Complete(f)
  BY DEF Ended, Complete, Length

\* It stays accounted for, unless it is admitted and nobody vouched for it.
LEMMA AccountStays ==
  ASSUME NEW f \in File, Accounted(f), text'[f] = text[f], cursor'[f] = cursor[f], seen'[f] = seen[f],
         cause[f] \subseteq cause'[f], Admits(f)' => Admits(f) \/ "vouch" \in cause'[f]
  PROVE  Accounted(f)'
<1>1. SameFile(f)
  BY FileStays
<1>2. Excused(f) => Excused(f)'
  BY <1>1 DEF Excused, SameFile
<1>3. seen'[f] = "none" /\ ~Ended(f)' /\ "vouch" \in cause'[f] => Excused(f)'
  BY DEF Excused
<1> QED
  BY <1>1, <1>2, <1>3 DEF Accounted, SameFile

\* The claims of fewer files are at stake, and none of them is over-read now
\* that was not.
LEMMA DrainedStays ==
  ASSUME NEW q, NEW stale, NEW over, NEW stale2, NEW over2, Drained(q, stale, over),
         stale2 \subseteq stale, \A f \in stale2 : f \in over2 => f \in over
  PROVE  Drained(q, stale2, over2)
<1>1. ASSUME NEW n \in DOMAIN q, NEW f \in stale2, Unclaims(q[n], f)  PROVE Awaited(q, f, n, over2)
  <2>1. Awaited(q, f, n, over)
    BY <1>1 DEF Drained
  <2> QED
    BY <1>1, <2>1 DEF Awaited
<1> QED
  BY <1>1 DEF Drained

\* Where no claim goes, nothing is to be drained.
LEMMA NothingToDrain ==
  ASSUME NEW q, NEW stale, NEW over, \A n \in DOMAIN q : q[n][1] \notin {"end", "release"}
  PROVE  Drained(q, stale, over)
  BY DEF Drained, Unclaims

\* Nothing happens to the files.
LEMMA FilesStay ==
  ASSUME Excusable, UNCHANGED <<text, cursor, seen, cause, live>>
  PROVE  FilesOK' /\ (\A f \in File : Accounted(f)') /\ Stale' = Stale /\ Over' = Over
<1>1. FilesOK'
  BY DEF Excusable, FilesOK
<1>2. \A f \in File : Accounted(f)'
  BY AccountStays DEF Excusable, Admits
<1>3. \A f \in File : SameFile(f)
  BY FileStays
<1>4. Stale' = Stale /\ Over' = Over
  BY <1>3 DEF Stale, Over, SameFile
<1> QED
  BY <1>1, <1>2, <1>4
-----------------------------------------------------------------------------
(* One walk.                                                               *)

\* The other files are left alone; the claim on f goes nowhere, and a stale
\* f stays so only when it is put back to its start.
Walked(f) ==
  /\ FilesOK'
  /\ Accounted(f)'
  /\ \A g \in File \ {f} : cursor'[g] = cursor[g] /\ seen'[g] = seen[g] /\ cause'[g] = cause[g]
  /\ f \in Stale' => f \in Stale /\ f \in Over

\* What is left at the end of what it read is not behind.
LEMMA LeavesAccounted ==
  ASSUME FilesOK, NEW f \in File, UNCHANGED <<text, live>>,
         NEW at \in Nat \cup {Unknown}, NEW claim \in {"held", "released", "none"}, NEW events,
         Leave(f, at, claim, events),
         at = Unknown => claim = "none" /\ ~text[f].there,
         at # Unknown => Complete(f) <= at /\ at <= Length(f),
         text[f].there /\ claim = "none" => ~Admits(f) \/ Ended(f)
  PROVE  Walked(f)
<1>1. /\ cursor' = [cursor EXCEPT ![f] = at] /\ seen' = [seen EXCEPT ![f] = claim]
      /\ cause' = [cause EXCEPT ![f] = {}] /\ text' = text /\ live' = live
  BY DEF Leave
<1>2. FilesOK'
  <2>1. /\ cursor' \in [File -> Nat \cup {Unknown}] /\ seen' \in [File -> {"held", "released", "none"}]
        /\ cause' \in [File -> SUBSET {"bytes", "vouch"}]
    BY <1>1 DEF FilesOK
  <2>2. \A g \in File : cursor'[g] = Unknown => seen'[g] = "none"
    BY <1>1 DEF FilesOK
  <2> QED
    BY <1>1, <2>1, <2>2 DEF FilesOK
<1>3. /\ cursor'[f] = at /\ seen'[f] = claim
      /\ \A g \in File \ {f} : cursor'[g] = cursor[g] /\ seen'[g] = seen[g] /\ cause'[g] = cause[g]
  BY <1>1 DEF FilesOK
<1>4. (Ended(f)' <=> Ended(f)) /\ Length(f)' = Length(f) /\ Complete(f)' = Complete(f)
  BY <1>1, EndedStays
<1>5. ~Behind(f)'
  <2>1. CASE at = Unknown
    BY <1>3, <2>1 DEF Behind
  <2>2. CASE at # Unknown
    <3>1. At(f)' = at
      BY <1>3, <2>2 DEF At
    <3>2. at \in Nat /\ Complete(f) \in Nat /\ Length(f) \in Nat
      BY <2>2, Positions
    <3> QED
      BY <1>4, <2>2, <3>1, <3>2 DEF Behind
  <2> QED
    BY <2>1, <2>2
<1>6. Accounted(f)'
  BY <1>1, <1>3, <1>4, <1>5 DEF Accounted, Admits
<1>7. f \notin Stale'
  BY <1>5 DEF Stale
<1> QED
  BY <1>2, <1>3, <1>6, <1>7 DEF Walked

\* What it sends of a registration has a cause.
CausedStart(f) ==
  \/ "bytes" \in cause[f]
  \/ "vouch" \in cause[f] /\ seen[f] = "none" /\ ~Ended(f)
  \/ cursor[f] # Unknown /\ Fresh(f, MaxLines) \cap Reentry # {}

\* Walk, one way at a time.
LEMMA WalkKeepsAccount ==
  ASSUME FilesOK, NEW f \in File, Accounted(f), Walk(f), UNCHANGED <<text, live>>
  PROVE  Walked(f)
<1>1. /\ At(f) \in Nat /\ Length(f) \in Nat /\ Complete(f) \in Nat
      /\ Complete(f) <= Length(f) /\ seen[f] \in {"held", "released", "none"}
      /\ Length(f) # Unknown /\ Complete(f) # Unknown
  BY Positions DEF Unknown
<1>2. CASE Vanished(f)
  BY <1>2, LeavesAccounted DEF Vanished
<1>3. CASE Park(f)
  <2>1. seen[f] = "none" /\ (~Admits(f) \/ Ended(f)) /\ Leave(f, Length(f), seen[f], {})
    BY <1>3 DEF Park, Gated, FilesOK
  <2> QED
    BY <1>1, <2>1, LeavesAccounted
<1>4. CASE Reset(f)
  <2>1. /\ text[f].there /\ At(f) > Length(f) /\ cursor' = [cursor EXCEPT ![f] = 0]
        /\ UNCHANGED <<seen, cause, text, live>>
    BY <1>4 DEF Reset
  <2>2. cursor[f] # Unknown
    BY <1>1, <2>1 DEF At
  <2>3. cursor' \in [File -> Nat \cup {Unknown}] /\ cursor'[f] = 0 /\ cursor'[f] # Unknown
        /\ \A g \in File \ {f} : cursor'[g] = cursor[g]
    BY <2>1 DEF FilesOK, Unknown
  <2>4. FilesOK'
    BY <2>1, <2>2, <2>3 DEF FilesOK
  <2>5. Behind(f)
    BY <1>1, <2>1, <2>2 DEF Behind
  <2>6. Ended(f)' <=> Ended(f)
    BY <2>1, EndedStays
  <2>7. Excused(f)' <=> Excused(f)
    BY <2>1, <2>6 DEF Excused
  <2>8. Accounted(f)'
    BY <2>1, <2>3, <2>5, <2>6, <2>7 DEF Accounted, Admits
  <2>9. f \in Stale' => f \in Stale /\ f \in Over
    BY <2>1, <2>5 DEF Stale, Over
  <2> QED
    BY <2>1, <2>3, <2>4, <2>8, <2>9 DEF Walked
<1>5. CASE Wait(f)
  <2>1. UNCHANGED <<cursor, seen, cause, text, live>> /\ Complete(f) <= At(f) /\ At(f) <= Length(f)
    BY <1>5 DEF Wait, files
  <2>2. FilesOK' /\ Accounted(f)'
    BY <2>1, AccountStays DEF FilesOK, Admits
  <2>3. SameFile(f)
    BY <2>1, FileStays
  <2>4. f \notin Stale'
    BY <1>1, <2>1, <2>3 DEF Stale, Behind, SameFile
  <2> QED
    BY <2>1, <2>2, <2>4 DEF Walked
<1>6. CASE Skip(f)
  <2>1. CASE Ended(f)
    <3>1. Leave(f, Length(f), "none", {End(IdOf[f])})
      BY <1>6, <2>1 DEF Skip
    <3> QED
      BY <1>1, <2>1, <3>1, LeavesAccounted
  <2>2. CASE ~Ended(f)
    <3>1. PICK events : Leave(f, Length(f), "held", events)
      BY <1>6, <2>2 DEF Skip
    <3> QED
      BY <1>1, <3>1, LeavesAccounted
  <2> QED
    BY <2>1, <2>2
<1>7. CASE Read(f)
  <2>1. PICK claim, events : Leave(f, Complete(f), claim, events) /\ claim \in {"held", "released"}
    BY <1>7 DEF Read
  <2> QED
    BY <1>1, <2>1, LeavesAccounted
<1> QED
  BY <1>2, <1>3, <1>4, <1>5, <1>6, <1>7 DEF Walk

\* A backlog is longer than an unfinished line, and a re-entry in its head is one
\* in it.
LEMMA WalkHasCause ==
  ASSUME FilesOK, NEW g \in File, Accounted(g), Walk(g), NEW f \in File, Start(f) \in sent'
  PROVE  CausedStart(f)
<1>1. /\ At(g) \in Nat /\ Length(g) \in Nat /\ Complete(g) \in Nat
      /\ Length(g) <= Complete(g) + 1 /\ seen[g] \in {"held", "released", "none"}
      /\ text[g].lines \in Seq(Kind) /\ Len(text[g].lines) <= MaxLines
  BY Positions
<1>2. ASSUME text[g].there, At(g) < Complete(g), seen[g] # "held"  PROVE CausedStart(g)
  <2>1. CASE cursor[g] = Unknown
    BY <1>2, <2>1 DEF Accounted, CausedStart
  <2>2. CASE cursor[g] # Unknown
    <3>1. Behind(g)
      BY <1>2, <2>2 DEF Behind
    <3> QED
      BY <1>2, <3>1 DEF Accounted, Excused, CausedStart
  <2> QED
    BY <2>1, <2>2
<1>3. \A i : Start(f) # End(i) /\ (Start(f) = Start(g) => f = g)
  BY DEF Start, End
<1>4. \A claim : Start(f) \in FirstSight(g, claim) => f = g /\ claim # "held"
  BY <1>3 DEF FirstSight
<1>5. CASE Skip(g)
  <2> DEFINE again == cursor[g] # Unknown /\ Fresh(g, Headroom) \cap Reentry # {}
  <2>1. text[g].there /\ Length(g) - At(g) > 2 * MaxPending
    BY <1>5 DEF Skip, Backlog
  <2>2. At(g) < Complete(g)
    BY <1>1, <2>1, TranscriptAssumption
  <2>3. \/ sent' = {End(IdOf[g])}
        \/ sent' = FirstSight(g, IF again THEN "released" ELSE seen[g])
    BY <1>5 DEF Skip, Leave
  <2>4. Start(f) \in FirstSight(g, IF again THEN "released" ELSE seen[g])
    BY <1>3, <2>3
  <2>5. f = g /\ (again \/ seen[g] # "held")
    BY <1>4, <2>4
  <2>6. Fresh(g, Headroom) \subseteq Fresh(g, MaxLines)
    <3>1. (At(g) + 1) \div 2 \in Nat
      BY <1>1
    <3>2. \A m \in DOMAIN text[g].lines : m <= MaxLines /\ m \in Nat
      BY <1>1, TranscriptAssumption
    <3>3. \A m \in DOMAIN text[g].lines : m <= (At(g) + 1) \div 2 + MaxLines
      BY <3>1, <3>2, TranscriptAssumption
    <3> QED
      BY <3>3 DEF Fresh
  <2>7. CASE again
    BY <2>5, <2>6, <2>7 DEF CausedStart
  <2> QED
    BY <1>2, <2>1, <2>2, <2>5, <2>7
<1>6. CASE Read(g)
  <2> DEFINE kinds == Fresh(g, MaxLines)
  <2>1. /\ text[g].there /\ At(g) < Complete(g)
        /\ sent' = FirstSight(g, IF kinds \cap Reentry # {} THEN "released" ELSE seen[g])
                     \cup {End(IdOf[g]) : k \in kinds \cap {"end"}}
    BY <1>6 DEF Read, Leave
  <2>2. Start(f) \in FirstSight(g, IF kinds \cap Reentry # {} THEN "released" ELSE seen[g])
    BY <1>3, <2>1
  <2>3. f = g /\ (kinds \cap Reentry # {} \/ seen[g] # "held")
    BY <1>4, <2>2
  <2>4. CASE kinds \cap Reentry # {}
    <3>1. CASE cursor[g] = Unknown
      BY <2>1, <2>3, <3>1 DEF Accounted, CausedStart
    <3>2. CASE cursor[g] # Unknown
      BY <2>3, <2>4, <3>2 DEF CausedStart
    <3> QED
      BY <3>1, <3>2
  <2> QED
    BY <1>2, <2>1, <2>3, <2>4
<1>7. ~(Vanished(g) \/ Park(g) \/ Reset(g) \/ Wait(g))
  BY DEF Vanished, Park, Reset, Wait, Leave
<1> QED
  BY <1>5, <1>6, <1>7 DEF Walk
-----------------------------------------------------------------------------
(* The steps of the watcher, what they do to the files and what they leave *)
(* to be done.                                                             *)

\* A walk, of a scan or on its own: the head of the plan walks f, or scans.
LEMMA WalkingKeepsExcuses ==
  ASSUME Excusable, PlanOK, NEW f \in File, Walk(f), UNCHANGED <<text, live>>,
         NEW s \in Seq(Steps), Turns(s), \A n \in 1..Len(s) : s[n][1] = "scan",
         todo[1][1] \in {"walk", "scan"}, todo[1][1] = "walk" => todo[1][2] = f
  PROVE  Excusable'
<1>1. FilesOK /\ (\A g \in File : Accounted(g)) /\ Drained(todo, Stale, Over)
  BY DEF Excusable
<1>2. Walked(f)
  BY <1>1, WalkKeepsAccount
<1>3. ASSUME NEW g \in File \ {f}
      PROVE  Accounted(g)' /\ (g \in Stale' => g \in Stale)
  <2>1. text'[g] = text[g] /\ cursor'[g] = cursor[g] /\ seen'[g] = seen[g] /\ cause'[g] = cause[g]
    BY <1>2 DEF Walked
  <2>2. Accounted(g)'
    BY <1>1, <2>1, AccountStays DEF Admits
  <2>3. SameFile(g)
    BY <2>1, FileStays
  <2> QED
    BY <2>1, <2>2, <2>3 DEF Stale, SameFile
<1>4. FilesOK' /\ \A g \in File : Accounted(g)'
  BY <1>2, <1>3 DEF Walked
<1>5. Stale' \subseteq File
  BY DEF Stale
<1>6. ASSUME NEW g \in Stale'
      PROVE  g \in Stale /\ ~Parks(todo[1], g) /\ (todo[1][1] = "walk" /\ todo[1][2] = g => g \in Over)
  <2>1. g \in Stale
    BY <1>2, <1>3, <1>5, <1>6 DEF Walked
  <2>2. g = f => g \in Over
    BY <1>2, <1>6 DEF Walked
  <2> QED
    BY <2>1, <2>2 DEF Parks
<1>7. Waits(todo, s, Stale, Over, Stale', Over') /\ Drained(s, Stale', Over')
  BY <1>6 DEF Waits, Drained, Unclaims
<1>8. Drained(todo', Stale', Over')
  <2>1. todo \in Seq(Steps) /\ todo # <<>> /\ todo' = s \o Tail(todo)
    BY DEF PlanOK, Turns
  <2> QED
    BY <1>1, <1>7, <2>1, DrainedAfter
<1> QED
  BY <1>4, <1>8 DEF Excusable

\* Nothing happens to the files, and the steps that come take no claim.
LEMMA TurningKeepsExcuses ==
  ASSUME Excusable, PlanOK, UNCHANGED <<text, cursor, seen, cause, live>>,
         NEW s \in Seq(Steps), Turns(s), \A n \in 1..Len(s) : s[n][1] \notin {"end", "release"},
         todo[1][1] \notin {"park", "walk"}
  PROVE  Excusable'
<1>1. FilesOK' /\ (\A f \in File : Accounted(f)') /\ Stale' = Stale /\ Over' = Over
  BY FilesStay
<1>2. \A f \in Stale' : f \in Stale /\ ~Parks(todo[1], f) /\ ~(todo[1][1] = "walk" /\ todo[1][2] = f)
  BY <1>1 DEF Parks
<1>3. Waits(todo, s, Stale, Over, Stale', Over') /\ Drained(s, Stale', Over')
  BY <1>2 DEF Waits, Drained, Unclaims
<1>4. todo \in Seq(Steps) /\ todo # <<>> /\ todo' = s \o Tail(todo)
  BY DEF PlanOK, Turns
<1>5. Drained(todo', Stale', Over')
  BY <1>3, <1>4, DrainedAfter DEF Excusable
<1> QED
  BY <1>1, <1>5 DEF Excusable

\* FoldStep: who is admitted now has been vouched for.
LEMMA FoldKeepsExcuses ==
  ASSUME Excusable, PlanOK, LadderOK, FoldStep
  PROVE  Excusable'
<1>1. FilesOK /\ (\A f \in File : Accounted(f)) /\ Drained(todo, Stale, Over)
  BY DEF Excusable
<1>2. PICK snap : snap = Now[2]
  OBVIOUS
<1>3. PICK s \in Seq(Steps) : Turns(s) /\ \A n \in 1..Len(s) : s[n][1] \in {"collect", "watch"}
  BY <1>2, FoldPlans
<1>4. /\ live' = DOMAIN snap
      /\ cause' = [f \in File |-> cause[f] \cup {"vouch" : i \in {IdOf[f]} \cap DOMAIN snap}]
      /\ UNCHANGED <<text, cursor, seen>>
  BY <1>2 DEF FoldStep, world, files
<1>5. ASSUME NEW f \in File
      PROVE  /\ cause[f] \subseteq cause'[f] /\ cause'[f] \subseteq cause[f] \cup {"vouch"}
             /\ Admits(f)' => "vouch" \in cause'[f]
  BY <1>4 DEF Admits
<1>6. FilesOK'
  <2>1. cause' \in [File -> SUBSET {"bytes", "vouch"}]
    BY <1>1, <1>4 DEF FilesOK
  <2> QED
    BY <1>1, <1>4, <2>1 DEF FilesOK
<1>7. \A f \in File : Accounted(f)'
  BY <1>1, <1>4, <1>5, AccountStays
<1>8. Stale' \subseteq Stale
  <2>1. \A f \in File : SameFile(f)
    BY <1>4, FileStays
  <2> QED
    BY <1>4, <1>5, <2>1 DEF Stale, SameFile
<1>9. todo[1][1] = "fold"
  BY <1>2, FoldPlans DEF Pending
<1>10. \A f \in Stale' : f \in Stale /\ ~Parks(todo[1], f) /\ ~(todo[1][1] = "walk" /\ todo[1][2] = f)
  BY <1>8, <1>9 DEF Parks
<1>11. Waits(todo, s, Stale, Over, Stale', Over') /\ Drained(s, Stale', Over')
  BY <1>3, <1>10 DEF Waits, Drained, Unclaims
<1>12. todo \in Seq(Steps) /\ todo # <<>> /\ todo' = s \o Tail(todo)
  BY <1>3 DEF PlanOK, Turns
<1>13. Drained(todo', Stale', Over')
  BY <1>1, <1>11, <1>12, DrainedAfter
<1> QED
  BY <1>6, <1>7, <1>13 DEF Excusable

\* Files whose claims are to be taken away are drained first: what was excused
\* of them is forgotten, for their claims are held until then.
LEMMA DrainingKeepsExcuses ==
  ASSUME Excusable, PlanOK, UNCHANGED <<text, cursor, seen, live>>,
         NEW fs \in SUBSET File,
         cause' = [f \in File |-> IF f \in fs /\ seen[f] = "held" THEN {} ELSE cause[f]],
         NEW s \in Seq(Steps), Turns(s), NEW last \in Nat, last <= Len(s),
         \A n \in 1..last : s[n][1] = "park",
         \A f \in fs : \E n \in 1..last : Parks(s[n], f),
         \A n \in 1..Len(s) : n > last => \A f : Unclaims(s[n], f) => f \in fs,
         todo[1][1] \notin {"park", "walk"}
  PROVE  Excusable'
<1>1. FilesOK /\ (\A f \in File : Accounted(f)) /\ Drained(todo, Stale, Over)
  BY DEF Excusable
<1>2. \A f \in File : /\ cause'[f] \subseteq cause[f]
                      /\ ~(f \in fs /\ seen[f] = "held") => cause'[f] = cause[f]
  OBVIOUS
<1>3. FilesOK'
  <2>1. cause' \in [File -> SUBSET {"bytes", "vouch"}]
    BY <1>1 DEF FilesOK
  <2> QED
    BY <1>1, <2>1 DEF FilesOK
<1>4. ASSUME NEW f \in File  PROVE Accounted(f)'
  <2>1. CASE f \in fs /\ seen[f] = "held"
    <3>1. cursor[f] # Unknown
      BY <1>1, <2>1 DEF FilesOK
    <3> QED
      BY <2>1, <3>1 DEF Accounted
  <2>2. CASE ~(f \in fs /\ seen[f] = "held")
    <3>1. cause'[f] = cause[f]
      BY <1>2, <2>2
    <3> QED
      BY <1>1, <3>1, AccountStays DEF Admits
  <2> QED
    BY <2>1, <2>2
<1>5. \A f \in Stale' : f \in Stale \/ f \in fs
  <2>1. \A f \in File : SameFile(f)
    BY FileStays
  <2> QED
    BY <1>2, <2>1 DEF Stale, SameFile
<1>6. ASSUME NEW f \in fs, NEW n \in 1..Len(s) + 1, n > last
      PROVE  Awaited(s, f, n, Over')
  <2>1. PICK m \in 1..last : Parks(s[m], f)
    OBVIOUS
  <2>2. m \in 1..n - 1 /\ m \in DOMAIN s
    BY <1>6
  <2> QED
    BY <2>1, <2>2 DEF Awaited
<1>7. Waits(todo, s, Stale, Over, Stale', Over')
  <2>1. Len(s) + 1 \in 1..Len(s) + 1 /\ Len(s) + 1 > last
    OBVIOUS
  <2> QED
    BY <1>5, <1>6, <2>1 DEF Parks, Waits
<1>8. Drained(s, Stale', Over')
  <2> SUFFICES ASSUME NEW n \in 1..Len(s), NEW f \in Stale', Unclaims(s[n], f)  PROVE Awaited(s, f, n, Over')
    BY DEF Drained
  <2>1. n > last
    <3>1. ~(n > last) => n \in 1..last
      OBVIOUS
    <3> QED
      BY <3>1 DEF Unclaims
  <2>2. n \in 1..Len(s) + 1 /\ f \in fs
    BY <2>1
  <2> QED
    BY <1>6, <2>1, <2>2
<1>9. todo \in Seq(Steps) /\ todo # <<>> /\ todo' = s \o Tail(todo)
  BY DEF PlanOK, Turns
<1>10. Drained(todo', Stale', Over')
  BY <1>1, <1>7, <1>8, <1>9, DrainedAfter
<1> QED
  BY <1>3, <1>4, <1>10 DEF Excusable
-----------------------------------------------------------------------------
\* ParkStep: the file is not over-read any more, so the walk behind it reads it.
LEMMA ParkKeepsExcuses ==
  ASSUME Excusable, PlanOK, ParkStep
  PROVE  Excusable'
<1>1. FilesOK /\ (\A g \in File : Accounted(g)) /\ Drained(todo, Stale, Over)
  BY DEF Excusable
<1>2. PICK f : f = Now[2]
  OBVIOUS
<1>3. f \in File /\ todo[1][1] = "park" /\ todo[1][2] = f
  BY <1>2, ParkPlans
<1>4. PICK s \in Seq(Steps) : /\ Turns(s) /\ Doomed(s) = {} /\ Len(s) \in {1, 2}
                             /\ s[1] = <<"walk", f>> /\ (Len(s) = 2 => s[2] = <<"release", f>>)
  BY <1>2, ParkPlans
<1>5. /\ cursor' = [cursor EXCEPT ![f] = IF text[f].there /\ @ > Length(f) THEN Length(f) ELSE @]
      /\ UNCHANGED <<text, seen, cause, live>>
  BY <1>2 DEF ParkStep, world, probing, history
<1>6. /\ At(f) \in Nat /\ Length(f) \in Nat /\ Complete(f) \in Nat /\ Complete(f) <= Length(f)
      /\ cursor[f] \in Nat \cup {Unknown}
  BY <1>1, <1>3, Positions
<1>7. /\ cursor'[f] = IF text[f].there /\ cursor[f] > Length(f) THEN Length(f) ELSE cursor[f]
      /\ cursor'[f] \in Nat \cup {Unknown} /\ (cursor'[f] = Unknown <=> cursor[f] = Unknown)
      /\ \A g \in File \ {f} : cursor'[g] = cursor[g]
  BY <1>1, <1>3, <1>5, <1>6 DEF FilesOK, Unknown
<1>8. FilesOK'
  <2>1. cursor' \in [File -> Nat \cup {Unknown}]
    BY <1>1, <1>5, <1>7 DEF FilesOK
  <2>2. \A g \in File : cursor'[g] = Unknown => seen'[g] = "none"
    BY <1>1, <1>5, <1>7 DEF FilesOK
  <2> QED
    BY <1>1, <1>5, <2>1, <2>2 DEF FilesOK
<1>9. /\ (Ended(f)' <=> Ended(f)) /\ Length(f)' = Length(f) /\ Complete(f)' = Complete(f)
  BY <1>3, <1>5, EndedStays
<1>10. (Behind(f)' => Behind(f)) /\ (text[f].there => f \notin Over')
  <2>1. CASE text[f].there /\ cursor[f] > Length(f)
    <3>1. At(f)' = Length(f) /\ ~Behind(f)'
      BY <1>6, <1>7, <1>9, <2>1 DEF At, Behind, Unknown
    <3> QED
      BY <1>6, <1>9, <3>1 DEF Over
  <2>2. CASE ~(text[f].there /\ cursor[f] > Length(f))
    <3>1. At(f)' = At(f) /\ (Behind(f)' <=> Behind(f))
      BY <1>5, <1>7, <1>9, <2>2 DEF At, Behind
    <3>2. text[f].there => ~(At(f) > Length(f))
      BY <1>6, <2>2 DEF At, Unknown
    <3> QED
      BY <1>9, <3>1, <3>2 DEF Over
  <2> QED
    BY <2>1, <2>2
<1>11. ASSUME NEW g \in File  PROVE Accounted(g)' /\ (g \in Stale' => g \in Stale /\ (g = f => g \notin Over'))
  <2>1. CASE g # f
    <3>1. Accounted(g)'
      BY <1>1, <1>5, <1>7, <2>1, AccountStays DEF Admits
    <3>2. SameFile(g)
      BY <1>5, <1>7, <2>1, FileStays
    <3> QED
      BY <1>5, <2>1, <3>1, <3>2 DEF Stale, SameFile
  <2>2. CASE g = f
    <3>1. Excused(f)' <=> Excused(f)
      BY <1>5, <1>9 DEF Excused
    <3>2. Accounted(f)'
      BY <1>1, <1>3, <1>5, <1>7, <1>9, <1>10, <3>1 DEF Accounted, Admits
    <3>3. f \in Stale' => f \in Stale /\ text[f].there
      BY <1>3, <1>5, <1>10 DEF Stale, Behind
    <3> QED
      BY <1>10, <2>2, <3>2, <3>3
  <2> QED
    BY <2>1, <2>2
<1>12. Waits(todo, s, Stale, Over, Stale', Over')
  <2> SUFFICES ASSUME NEW g \in Stale'
               PROVE  \/ g \in Stale /\ ~Parks(todo[1], g) /\ (todo[1][1] = "walk" /\ todo[1][2] = g => g \in Over)
                      \/ Awaited(s, g, Len(s) + 1, Over')
    BY DEF Waits
  <2>1. g \in Stale /\ (g = f => g \notin Over')
    BY <1>11 DEF Stale
  <2>2. CASE g = f
    <3>1. Len(s) + 1 > 1 /\ s # <<>>
      BY <1>4
    <3> QED
      BY <1>4, <2>1, <2>2, <3>1 DEF Awaited
  <2>3. CASE g # f
    BY <1>3, <2>1, <2>3 DEF Parks
  <2> QED
    BY <2>2, <2>3
<1>13. Drained(s, Stale', Over')
  <2> SUFFICES ASSUME NEW n \in DOMAIN s, NEW g \in Stale', Unclaims(s[n], g)  PROVE Awaited(s, g, n, Over')
    BY DEF Drained
  <2>1. n \in 1..Len(s) /\ (n = 1 \/ (n = 2 /\ Len(s) = 2))
    BY <1>4
  <2>2. n = 2 /\ g = f /\ s # <<>>
    BY <1>4, <2>1 DEF Unclaims
  <2>3. g \notin Over'
    BY <1>11, <2>2 DEF Stale
  <2> QED
    BY <1>4, <2>2, <2>3 DEF Awaited
<1>14. todo \in Seq(Steps) /\ todo # <<>> /\ todo' = s \o Tail(todo)
  BY <1>4 DEF PlanOK, Turns
<1>15. Drained(todo', Stale', Over')
  BY <1>1, <1>12, <1>13, <1>14, DrainedAfter
<1> QED
  BY <1>8, <1>11, <1>15 DEF Excusable

\* What goes when the first step takes a claim: the files are not stale.
LEMMA FreshIsTaken ==
  ASSUME Excusable, PlanOK, todo # <<>>, NEW f, Unclaims(todo[1], f)
  PROVE  f \notin Stale
<1>1. 1 \in DOMAIN todo
  BY DEF PlanOK
<1>2. ~Awaited(todo, f, 1, Over)
  BY DEF Awaited
<1> QED
  BY <1>1, <1>2 DEF Excusable, Drained

\* EndStep and ReleaseStep: claims are given up.
LEMMA UnclaimingKeepsExcuses ==
  ASSUME Excusable, PlanOK, UNCHANGED <<text, cursor, cause>>, live' \subseteq live,
         NEW fs \in SUBSET File, NEW claim \in {"released", "none"},
         seen' = [f \in File |-> IF f \in fs THEN IF seen[f] = "none" THEN "none" ELSE claim ELSE seen[f]],
         \A f \in fs : Unclaims(todo[1], f),
         claim = "none" => \A f \in fs : ~Admits(f)',
         todo[1][1] \notin {"park", "walk"}, todo # <<>>, todo' = <<>> \o Tail(todo)
  PROVE  Excusable'
<1>1. FilesOK /\ (\A g \in File : Accounted(g)) /\ Drained(todo, Stale, Over)
  BY DEF Excusable
<1>2. \A f \in fs : f \notin Stale
  BY FreshIsTaken
<1>3. \A f \in File : SameFile(f)
  BY FileStays
<1>4. FilesOK'
  <2>1. seen' \in [File -> {"held", "released", "none"}] /\ \A f \in File : seen[f] = "none" => seen'[f] = "none"
    BY <1>1 DEF FilesOK
  <2> QED
    BY <1>1, <2>1 DEF FilesOK
<1>5. \A f \in File : Admits(f)' => Admits(f)
  BY DEF Admits
<1>6. ASSUME NEW f \in File  PROVE Accounted(f)'
  <2>1. CASE f \notin fs
    <3>1. seen'[f] = seen[f]
      BY <2>1
    <3> QED
      BY <1>1, <1>5, <3>1, AccountStays
  <2>2. CASE f \in fs /\ seen[f] = "none"
    <3>1. seen'[f] = seen[f]
      BY <2>2
    <3> QED
      BY <1>1, <1>5, <3>1, AccountStays
  <2>3. CASE f \in fs /\ seen[f] # "none"
    <3>1. seen'[f] = claim /\ cause'[f] = cause[f] /\ cursor'[f] = cursor[f]
      BY <2>3
    <3>2. text[f].there /\ Behind(f) => "bytes" \in cause[f]
      BY <1>1, <1>2, <2>3 DEF Stale, Accounted, Excused
    <3>3. cursor[f] # Unknown
      BY <1>1, <2>3 DEF FilesOK
    <3>4. claim = "none" => ~Admits(f)'
      BY <2>3
    <3>5. text[f].there' /\ Behind(f)' => Excused(f)'
      BY <1>3, <3>1, <3>2 DEF Excused, SameFile
    <3> QED
      BY <3>1, <3>3, <3>4, <3>5 DEF Accounted
  <2> QED
    BY <2>1, <2>2, <2>3
<1>7. Stale' \subseteq Stale
  <2>1. \A f \in File : seen'[f] = "held" => seen[f] = "held"
    OBVIOUS
  <2> QED
    BY <1>3, <2>1 DEF Stale, SameFile
<1>8. <<>> \in Seq(Steps) /\ Len(<<>>) = 0
  OBVIOUS
<1>9. Waits(todo, <<>>, Stale, Over, Stale', Over') /\ Drained(<<>>, Stale', Over')
  BY <1>7 DEF Waits, Drained, Parks
<1>10. Drained(todo', Stale', Over')
  BY <1>1, <1>8, <1>9, DrainedAfter DEF PlanOK
<1> QED
  BY <1>4, <1>6, <1>10 DEF Excusable

LEMMA EndKeepsExcuses ==
  ASSUME Excusable, PlanOK, EndStep
  PROVE  Excusable'
<1>1. todo # <<>> /\ Now = todo[1] /\ Now \in Steps /\ Now[1] = "end"
  BY NowIsFirst DEF EndStep
<1>2. Now[2] \in Id /\ Now[3] \in SUBSET File /\ \A f \in Now[3] : IdOf[f] = Now[2]
  BY <1>1, StepFacts
<1>3. /\ seen' = [f \in File |-> IF f \in Now[3] THEN "none" ELSE seen[f]]
      /\ live' = live \ {Now[2]} /\ UNCHANGED <<text, cursor, cause>> /\ todo' = <<>> \o Tail(todo)
  BY DEF EndStep, Done, world, history
<1>4. seen' = [f \in File |-> IF f \in Now[3] THEN IF seen[f] = "none" THEN "none" ELSE "none" ELSE seen[f]]
  BY <1>3
<1>5. \A f \in Now[3] : Unclaims(todo[1], f) /\ ~Admits(f)'
  BY <1>1, <1>2, <1>3 DEF Unclaims, Admits
<1> QED
  BY <1>1, <1>2, <1>3, <1>4, <1>5, UnclaimingKeepsExcuses

LEMMA ReleaseKeepsExcuses ==
  ASSUME Excusable, PlanOK, ReleaseStep
  PROVE  Excusable'
<1>1. todo # <<>> /\ Now = todo[1] /\ Now \in Steps /\ Now[1] = "release"
  BY NowIsFirst DEF ReleaseStep
<1>2. Now[2] \in File
  BY <1>1, StepFacts
<1>3. /\ seen' = [seen EXCEPT ![Now[2]] = IF @ = "none" THEN @ ELSE "released"]
      /\ UNCHANGED <<text, cursor, cause, live>> /\ todo' = <<>> \o Tail(todo)
  BY DEF ReleaseStep, Done, world, probing, history
<1>4. PICK fs \in SUBSET File : fs = {Now[2]}
  BY <1>2
<1>5. seen' = [f \in File |-> IF f \in fs THEN IF seen[f] = "none" THEN "none" ELSE "released" ELSE seen[f]]
  BY <1>2, <1>3, <1>4 DEF Excusable, FilesOK
<1>6. (\A f \in fs : Unclaims(todo[1], f)) /\ todo[1][1] \notin {"park", "walk"}
  BY <1>1, <1>4 DEF Unclaims
<1>7. live' \subseteq live
  BY <1>3
<1> QED
  BY <1>1, <1>3, <1>5, <1>6, <1>7, UnclaimingKeepsExcuses

\* RevouchStep: a file is put back to its start only if its excuse says so.
LEMMA RevouchKeepsExcuses ==
  ASSUME Excusable, PlanOK, RevouchStep
  PROVE  Excusable'
<1>1. FilesOK /\ (\A g \in File : Accounted(g)) /\ Drained(todo, Stale, Over)
  BY DEF Excusable
<1> DEFINE parked == {f \in File : cursor[f] # Unknown /\ seen[f] = "none" /\ live # {}}
           lifted(f) == Revouched(f) /\ f \in parked
<1>2. /\ cursor' = [f \in File |-> IF f \in parked /\ ~text[f].there THEN Unknown
                                   ELSE IF lifted(f) THEN 0 ELSE cursor[f]]
      /\ UNCHANGED <<text, seen, cause, live>>
  BY DEF RevouchStep, world, probing, history
<1>3. FilesOK'
  <2>1. cursor' \in [File -> Nat \cup {Unknown}]
    BY <1>1, <1>2 DEF FilesOK
  <2>2. \A f \in File : cursor'[f] = Unknown => seen'[f] = "none"
    BY <1>1, <1>2 DEF FilesOK, Unknown
  <2> QED
    BY <1>1, <1>2, <2>1, <2>2 DEF FilesOK
<1>4. ASSUME NEW f \in File  PROVE Accounted(f)' /\ (f \in Stale' => f \in Stale)
  <2>1. CASE cursor'[f] = cursor[f]
    <3>1. Accounted(f)'
      BY <1>1, <1>2, <2>1, AccountStays DEF Admits
    <3>2. SameFile(f)
      BY <1>2, <2>1, FileStays
    <3> QED
      BY <1>2, <3>1, <3>2 DEF Stale, SameFile
  <2>2. CASE f \in parked /\ ~text[f].there
    BY <1>2, <2>2 DEF Accounted, Stale
  <2>3. CASE lifted(f) /\ text[f].there
    <3>1. seen[f] = "none" /\ Admits(f) /\ ~Ended(f)
      BY <2>3 DEF Revouched
    <3>2. Excused(f)
      BY <1>1, <2>3, <3>1 DEF Accounted
    <3>3. Ended(f)' <=> Ended(f)
      BY <1>2, EndedStays
    <3>4. Excused(f)'
      BY <1>2, <3>2, <3>3 DEF Excused
    <3>5. cursor'[f] # Unknown
      BY <1>2, <2>3 DEF Unknown
    <3> QED
      BY <1>2, <3>1, <3>4, <3>5 DEF Accounted, Stale
  <2> QED
    BY <1>2, <2>1, <2>2, <2>3
<1>5. \E s \in Seq(Steps) : Briefly(s)
  BY BriefTurns DEF Brief
<1>6. PICK s \in Seq(Steps) : Briefly(s)
  BY <1>5
<1>7. todo \in Seq(Steps) /\ todo # <<>> /\ todo' = s \o Tail(todo) /\ todo[1][1] = "revouch"
  BY <1>6, NowIsFirst DEF PlanOK, Briefly, Turns, RevouchStep
<1>8. Stale' \subseteq Stale
  BY <1>4 DEF Stale
<1>9. Waits(todo, s, Stale, Over, Stale', Over') /\ Drained(s, Stale', Over')
  BY <1>6, <1>7, <1>8 DEF Waits, Drained, Parks, Unclaims, Briefly
<1>10. Drained(todo', Stale', Over')
  BY <1>1, <1>7, <1>9, DrainedAfter
<1> QED
  BY <1>3, <1>4, <1>10 DEF Excusable

LEMMA StepKeepsExcuses ==
  ASSUME Excusable, Justified, Step
  PROVE  Excusable'
<1>1. PlanOK /\ LadderOK
  BY DEF Justified
<1>2. CASE ProbeAnswers
  <2>1. \A i \in Id : Holders(i) # {} => Max(Holders(i)) \in Pid
    BY <1>1, HoldersArePids
  <2>2. \A n \in DOMAIN todo' : todo'[n][1] \notin {"end", "release"}
    BY <1>1, <1>2, <2>1, ProbePlans
  <2>3. UNCHANGED <<text, cursor, seen, cause, live>>
    BY <1>2 DEF ProbeAnswers, world, files, probing
  <2> QED
    BY <2>2, <2>3, FilesStay, NothingToDrain DEF Excusable
<1>3. CASE ProbeFails \/ WatchStep \/ VouchStep
  <2>1. PICK s \in Seq(Steps) : Briefly(s)
    BY <1>1, <1>3, BriefTurns DEF Brief
  <2>2. UNCHANGED <<text, cursor, seen, cause, live>>
    BY <1>3 DEF ProbeFails, WatchStep, VouchStep, world, files, probing, history
  <2>3. todo[1][1] \in {"probe", "watch", "vouch"}
    BY <1>1, <1>3, NowIsFirst DEF ProbeFails, WatchStep, VouchStep
  <2> QED
    BY <1>1, <2>1, <2>2, <2>3, TurningKeepsExcuses DEF Briefly
<1>4. CASE FoldStep
  BY <1>1, <1>4, FoldKeepsExcuses
<1>5. CASE CollectStep
  <2>1. PICK i : i = Now[2]
    OBVIOUS
  <2>2. todo[1][1] = "collect"
    BY <1>1, <1>5, <2>1, CollectPlans
  <2>3. PICK s \in Seq(Steps) : DrainsAndEnds(s, i)
    BY <1>1, <1>5, <2>1, CollectPlans
  <2>4. PICK fs \in SUBSET File : fs = Claimed(i)
    BY DEF Claimed
  <2>5. /\ UNCHANGED <<text, cursor, seen, live>>
        /\ cause' = [f \in File |-> IF f \in fs /\ seen[f] = "held" THEN {} ELSE cause[f]]
    <3>1. UNCHANGED <<text, cursor, seen, live>> /\ Collect(i)
      BY <1>5, <2>1 DEF CollectStep, world, files, probing
    <3>2. fs = {f \in File : IdOf[f] = i /\ seen[f] # "none"}
      BY <2>4 DEF Claimed
    <3>3. cause' = [f \in File |-> IF f \in fs /\ seen[f] = "held" THEN {} ELSE cause[f]]
      BY <3>1, <3>2 DEF Collect
    <3> QED
      BY <3>1, <3>3
  <2>6. PICK last \in Nat : last = Len(s) - 1
    BY <2>3 DEF DrainsAndEnds
  <2>7. /\ Turns(s) /\ last <= Len(s) /\ \A n \in 1..last : s[n][1] = "park"
        /\ \A f \in fs : \E n \in 1..last : Parks(s[n], f)
    BY <2>3, <2>4, <2>6 DEF DrainsAndEnds
  <2>8. \A n \in 1..Len(s) : n > last => \A f : Unclaims(s[n], f) => f \in fs
    <3>1. \A n \in 1..Len(s) : n > last => n = Len(s)
      BY <2>6
    <3> QED
      BY <2>3, <2>4, <3>1 DEF DrainsAndEnds, Unclaims
  <2> QED
    BY <1>1, <2>2, <2>5, <2>7, <2>8, DrainingKeepsExcuses
<1>6. CASE ParkStep
  BY <1>1, <1>6, ParkKeepsExcuses
<1>7. CASE WalkStep
  <2>1. PICK f : f = Now[2]
    OBVIOUS
  <2>2. todo[1][1] = "walk" /\ todo[1][2] = f /\ f \in File
    BY <1>1, <1>7, <2>1, NowIsFirst, StepFacts DEF WalkStep
  <2>3. PICK s \in Seq(Steps) : Briefly(s)
    BY <1>1, <1>7, BriefTurns DEF Brief
  <2>4. Walk(f) /\ UNCHANGED <<text, live>>
    BY <1>7, <2>1 DEF WalkStep, world, probing
  <2> QED
    BY <1>1, <2>2, <2>3, <2>4, WalkingKeepsExcuses DEF Briefly
<1>8. CASE EndStep
  BY <1>1, <1>8, EndKeepsExcuses
<1>9. CASE UnclaimStep
  <2>1. PICK s \in Seq(Steps) :
          /\ Turns(s) /\ Doomed(s) = {}
          /\ \A n \in 1..Len(s) : s[n][1] = "park"
          /\ \A f \in Unclaimed : \E n \in 1..Len(s) : Parks(s[n], f)
    BY <1>1, <1>9, UnclaimPlans
  <2>2. todo[1][1] = "unclaims"
    BY <1>1, <1>9, UnclaimPlans
  <2>3. PICK fs \in SUBSET File : fs = Unclaimed
    BY DEF Unclaimed
  <2>4. /\ UNCHANGED <<text, cursor, seen, live>>
        /\ cause' = [f \in File |-> IF f \in fs /\ seen[f] = "held" THEN {} ELSE cause[f]]
    BY <1>9, <2>3 DEF UnclaimStep, Unclaimed, world, files, probing
  <2>5. PICK last \in Nat : last = Len(s)
    OBVIOUS
  <2>6. /\ last <= Len(s) /\ \A n \in 1..last : s[n][1] = "park"
        /\ \A f \in fs : \E n \in 1..last : Parks(s[n], f)
        /\ \A n \in 1..Len(s) : n > last => \A f : Unclaims(s[n], f) => f \in fs
    BY <2>1, <2>3, <2>5
  <2> QED
    BY <1>1, <2>1, <2>2, <2>4, <2>6, DrainingKeepsExcuses
<1>10. CASE ReleaseStep
  BY <1>1, <1>10, ReleaseKeepsExcuses
<1>11. CASE RevouchStep
  BY <1>1, <1>11, RevouchKeepsExcuses
<1>12. CASE ScanStep
  <2>1. todo[1][1] = "scan" /\ Now[2] \in SUBSET File
    BY <1>1, <1>12, NowIsFirst, StepFacts DEF ScanStep
  <2>2. PICK s \in Seq(Steps) : Briefly(s)
    BY <1>1, <1>12, BriefTurns DEF Brief
  <2>3. UNCHANGED <<text, live>>
    BY <1>12 DEF ScanStep, world, probing
  <2>4. ASSUME NEW f \in Now[2], Walk(f)  PROVE Excusable'
    BY <1>1, <2>1, <2>2, <2>3, <2>4, WalkingKeepsExcuses DEF Briefly
  <2>5. ASSUME UNCHANGED <<cursor, seen, cause>>  PROVE Excusable'
    BY <1>1, <2>1, <2>2, <2>3, <2>5, TurningKeepsExcuses DEF Briefly
  <2> QED
    BY <1>12, <2>4, <2>5 DEF ScanStep, files
<1> QED
  BY <1>2, <1>3, <1>4, <1>5, <1>6, <1>7, <1>8, <1>9, <1>10, <1>11, <1>12 DEF Step

\* An arm takes no claim right away.
LEMMA ArmKeepsExcuses ==
  ASSUME Excusable, Justified, Arm
  PROVE  Excusable'
<1>1. ASSUME UNCHANGED <<text, cursor, seen, cause, live>>,
             \A n \in DOMAIN todo' : todo'[n][1] \notin {"end", "release"}
      PROVE  Excusable'
  BY <1>1, FilesStay, NothingToDrain DEF Excusable
<1>2. CASE Seed \/ Rescan \/ Poll
  <2>1. UNCHANGED <<text, cursor, seen, cause, live>>
    BY <1>2 DEF Seed, Rescan, Poll, world, files, probing, history
  <2>2. PICK born \in {-1, 0}, drain \in {<<>>, <<<<"unclaims">>>>} : todo' = Pass(born, drain)
    BY <1>2 DEF Seed, Rescan, Poll, Plan
  <2> QED
    BY <1>1, <2>1, <2>2, PassIsPlanned
<1>3. ASSUME NEW f \in File, Notify(f)  PROVE Excusable'
  <2>1. UNCHANGED <<text, cursor, seen, cause, live>>
    BY <1>3 DEF Notify, world, files, probing, history
  <2>2. todo' = <<<<"unclaims">>, <<"walk", f>>>>
    BY <1>3 DEF Notify, Plan
  <2>3. \A n \in DOMAIN todo' : todo'[n][1] \notin {"end", "release"}
    BY <2>2
  <2> QED
    BY <1>1, <2>1, <2>3
<1>4. ASSUME NEW p \in Pid, Exited(p)  PROVE Excusable'
  <2>1. UNCHANGED <<text, cursor, seen, cause, live>>
    BY <1>4 DEF Exited, world, files, history
  <2>2. ladder.bound[p] \in SUBSET Id
    BY DEF Justified, LadderOK, Ladder
  <2>3. PICK s \in Collects(ladder.bound[p]) : todo' = s
    BY <1>4 DEF Exited, Plan
  <2>4. s \in Seq(Steps) /\ \A n \in 1..Len(s) : s[n][1] = "collect"
    BY <2>2, <2>3, CollectsAreSteps
  <2> QED
    BY <1>1, <2>1, <2>3, <2>4
<1> QED
  BY <1>2, <1>3, <1>4 DEF Arm

\* What is written is an excuse by itself.
LEMMA ChangeKeepsExcuses ==
  ASSUME Excusable, NEW f \in File, NEW what \in [lines : Seq(Kind), part : BOOLEAN, there : BOOLEAN],
         Len(what.lines) <= MaxLines, NEW touched, Changes(f, what, touched)
  PROVE  Excusable'
<1>1. FilesOK /\ (\A g \in File : Accounted(g)) /\ Drained(todo, Stale, Over)
  BY DEF Excusable
<1>2. /\ text' = [text EXCEPT ![f] = what] /\ cause' = [cause EXCEPT ![f] = @ \cup {"bytes"}]
      /\ UNCHANGED <<cursor, seen, live, todo>>
  BY DEF Changes, inside, files, probing, loop
<1>3. /\ text'[f] = what /\ "bytes" \in cause'[f]
      /\ \A g \in File \ {f} : text'[g] = text[g] /\ cause'[g] = cause[g]
  BY <1>1, <1>2 DEF FilesOK
<1>4. FilesOK'
  <2>1. /\ text' \in [File -> [lines : Seq(Kind), part : BOOLEAN, there : BOOLEAN]]
        /\ cause' \in [File -> SUBSET {"bytes", "vouch"}]
    BY <1>1, <1>2 DEF FilesOK
  <2>2. \A g \in File : Len(text'[g].lines) <= MaxLines
    BY <1>1, <1>3 DEF FilesOK
  <2> QED
    BY <1>1, <1>2, <2>1, <2>2 DEF FilesOK
<1>5. Accounted(f)' /\ f \notin Stale'
  BY <1>3 DEF Accounted, Excused, Stale
<1>6. ASSUME NEW g \in File \ {f}
      PROVE  Accounted(g)' /\ (g \in Stale' => g \in Stale) /\ (g \in Over' => g \in Over)
  <2>1. Accounted(g)'
    BY <1>1, <1>2, <1>3, AccountStays DEF Admits
  <2>2. SameFile(g)
    BY <1>2, <1>3, FileStays
  <2> QED
    BY <1>2, <1>3, <2>1, <2>2 DEF Stale, Over, SameFile
<1>7. Stale' \subseteq Stale /\ \A g \in Stale' : g \in Over' => g \in Over
  <2>1. Stale' \subseteq File
    BY DEF Stale
  <2> QED
    BY <1>5, <1>6, <2>1
<1>8. Drained(todo', Stale', Over')
  BY <1>1, <1>2, <1>7, DrainedStays
<1> QED
  BY <1>4, <1>5, <1>6, <1>8 DEF Excusable

LEMMA WorldKeepsExcuses ==
  ASSUME Excusable, World
  PROVE  Excusable'
<1>1. ASSUME UNCHANGED <<text, cursor, seen, cause, live, todo>>  PROVE Excusable'
  BY <1>1, FilesStay DEF Excusable
<1>2. ASSUME NEW f \in File
      PROVE  /\ text[f] \in [lines : Seq(Kind), part : BOOLEAN, there : BOOLEAN]
             /\ text[f].lines \in Seq(Kind) /\ Len(text[f].lines) \in Nat /\ Len(text[f].lines) <= MaxLines
  BY DEF Excusable, FilesOK
<1>3. ASSUME NEW f \in File, NEW k \in Kind, WriteLine(f, k)  PROVE Excusable'
  <2> DEFINE what == [lines |-> text[f].lines \o <<k>>, part |-> FALSE, there |-> TRUE]
  <2>1. what.lines \in Seq(Kind) /\ Len(what.lines) <= MaxLines
    BY <1>2, <1>3, TranscriptAssumption DEF WriteLine
  <2>2. Changes(f, what, TRUE)
    BY <1>3 DEF WriteLine
  <2>3. what \in [lines : Seq(Kind), part : BOOLEAN, there : BOOLEAN]
    BY <2>1
  <2> QED
    BY <2>1, <2>2, <2>3, ChangeKeepsExcuses
<1>4. ASSUME NEW f \in File, BeginLine(f)  PROVE Excusable'
  <2> DEFINE what == [text[f] EXCEPT !.part = TRUE, !.there = TRUE]
  <2>1. Changes(f, what, TRUE)
    BY <1>4 DEF BeginLine
  <2>2. what \in [lines : Seq(Kind), part : BOOLEAN, there : BOOLEAN] /\ what.lines = text[f].lines
    BY <1>2
  <2> QED
    BY <1>2, <2>1, <2>2, ChangeKeepsExcuses
<1>5. ASSUME NEW f \in File, Truncate(f)  PROVE Excusable'
  <2>1. PICK n \in 0..(Len(text[f].lines) - 1) \cup {0} :
          Changes(f, [text[f] EXCEPT !.lines = SubSeq(@, 1, n), !.part = FALSE], TRUE)
    BY <1>5 DEF Truncate
  <2>2. n \in Nat /\ n <= Len(text[f].lines)
    BY <1>2, <2>1
  <2>3. PICK lines : lines = SubSeq(text[f].lines, 1, n)
    OBVIOUS
  <2>4. lines \in Seq(Kind) /\ Len(lines) <= MaxLines
    BY <1>2, <2>2, <2>3, TranscriptAssumption
  <2> DEFINE what == [text[f] EXCEPT !.lines = lines, !.part = FALSE]
  <2>5. Changes(f, what, TRUE)
    BY <2>1, <2>3
  <2>6. what \in [lines : Seq(Kind), part : BOOLEAN, there : BOOLEAN] /\ what.lines = lines
    BY <1>2, <2>4
  <2> QED
    BY <2>4, <2>5, <2>6, ChangeKeepsExcuses
<1>6. ASSUME NEW f \in File, Delete(f)  PROVE Excusable'
  <2>1. Changes(f, Absent, FALSE)
    BY <1>6 DEF Delete
  <2>2. Absent \in [lines : Seq(Kind), part : BOOLEAN, there : BOOLEAN] /\ Len(Absent.lines) <= MaxLines
    BY TranscriptAssumption DEF Absent
  <2> QED
    BY <2>1, <2>2, ChangeKeepsExcuses
<1>7. ASSUME NEW f \in File, Fade(f)  PROVE Excusable'
  <2>1. UNCHANGED <<text, cursor, seen, cause, live, todo>>
    BY <1>7 DEF Fade, inside, files, probing, loop, history
  <2> QED
    BY <1>1, <2>1
<1>8. ASSUME NEW i \in Id, ChildEnd(i) \/ Lapse(i) \/ \E p \in Pid : Open(i, p) \/ Close(i, p)
      PROVE  Excusable'
  <2>1. UNCHANGED <<text, cursor, seen, cause, live, todo>>
    BY <1>8 DEF ChildEnd, Lapse, Open, Close, world, inside, files, probing, loop, history
  <2> QED
    BY <1>1, <2>1
<1>9. CASE WatchStops \/ Elapse \/ \E p \in Pid : Die(p) \/ Reported(p)
  <2>1. UNCHANGED <<text, cursor, seen, cause, live, todo>>
    BY <1>9 DEF Die, Reported, WatchStops, Elapse, world, inside, files, probing, loop, history
  <2> QED
    BY <1>1, <2>1
<1> QED
  BY <1>3, <1>4, <1>5, <1>6, <1>7, <1>8, <1>9 DEF World

LEMMA InitIsExcusable == Init => Excusable
<1> SUFFICES ASSUME Init PROVE Excusable
  OBVIOUS
<1>1. /\ text \in [File -> {Absent} \cup [lines : BoundedSeq(Kind, Written), part : {FALSE}, there : {TRUE}]]
      /\ cursor = [f \in File |-> Unknown] /\ seen = [f \in File |-> "none"]
      /\ cause = [f \in File |-> {"bytes"}] /\ todo = <<>>
  BY DEF Init
<1>2. ASSUME NEW s \in BoundedSeq(Kind, Written)  PROVE s \in Seq(Kind) /\ Len(s) <= MaxLines
  <2>1. PICK n \in 0..Written : s \in [1..n -> Kind]
    BY DEF BoundedSeq, SeqOf
  <2>2. s \in Seq(Kind) /\ Len(s) = n
    BY <2>1, TranscriptAssumption
  <2> QED
    BY <2>1, <2>2, TranscriptAssumption
<1>3. Absent \in [lines : Seq(Kind), part : BOOLEAN, there : BOOLEAN] /\ Len(Absent.lines) <= MaxLines
  BY TranscriptAssumption DEF Absent
<1>4. ASSUME NEW f \in File
      PROVE  text[f] \in [lines : Seq(Kind), part : BOOLEAN, there : BOOLEAN] /\ Len(text[f].lines) <= MaxLines
  <2>1. text[f] = Absent \/ text[f] \in [lines : BoundedSeq(Kind, Written), part : {FALSE}, there : {TRUE}]
    BY <1>1
  <2>2. CASE text[f] = Absent
    BY <1>3, <2>2
  <2>3. CASE text[f] \in [lines : BoundedSeq(Kind, Written), part : {FALSE}, there : {TRUE}]
    BY <1>2, <2>3
  <2> QED
    BY <2>1, <2>2, <2>3
<1>5. FilesOK
  BY <1>1, <1>4 DEF FilesOK
<1>6. \A f \in File : Accounted(f)
  BY <1>1 DEF Accounted, Excused
<1>7. Drained(todo, Stale, Over)
  BY <1>1 DEF Drained
<1> QED
  BY <1>5, <1>6, <1>7 DEF Excusable

\* No ghosts: the watcher registers an agent only for what was written since it
\* was last ended, released or passed over, for a vouch that came since, or for
\* the line that starts its turn - for any number of files and sessions, whatever
\* is written, truncated and deleted between any two of its steps.
THEOREM GhostsHaveCauses == Spec => NoGhost
<1> DEFINE Caused == \A f \in File : Start(f) \in sent' => CausedStart(f)
<1>1. Justified /\ Excusable /\ [Next]_vars => Excusable'
  <2>1. ASSUME Excusable, UNCHANGED vars  PROVE Excusable'
    <3>1. UNCHANGED <<text, cursor, seen, cause, live, todo>>
      BY <2>1 DEF vars, world, files, probing, loop, history
    <3> QED
      BY <2>1, <3>1, FilesStay DEF Excusable
  <2> QED
    BY <2>1, StepKeepsExcuses, ArmKeepsExcuses, WorldKeepsExcuses DEF Next
<1>2. ASSUME Justified, Excusable, NEW f \in File, Start(f) \in sent', Next  PROVE CausedStart(f)
  <2>1. PlanOK /\ FilesOK /\ \A g \in File : Accounted(g)
    BY <1>2 DEF Justified, Excusable
  <2>2. \A i : Start(f) # End(i) /\ Start(f) # Proof(i)
    BY DEF Start, End, Proof
  <2>3. CASE WalkStep
    <3>1. Now[2] \in File
      BY <2>1, <2>3, NowIsFirst, StepFacts DEF WalkStep
    <3> QED
      BY <1>2, <2>1, <2>3, <3>1, WalkHasCause DEF WalkStep
  <2>4. CASE ScanStep
    <3>1. Now[2] \in SUBSET File
      BY <2>1, <2>4, NowIsFirst, StepFacts DEF ScanStep
    <3> QED
      BY <1>2, <2>1, <2>4, <3>1, WalkHasCause DEF ScanStep
  <2>5. CASE Step /\ ~WalkStep /\ ~ScanStep
    <3>1. sent' = {} \/ (\E i : sent' = {End(i)}) \/ sent' = {Proof(i) : i \in live}
      BY <2>5 DEF Step, ProbeAnswers, ProbeFails, FoldStep, WatchStep, CollectStep, ParkStep, EndStep,
                  UnclaimStep, ReleaseStep, RevouchStep, VouchStep
    <3> QED
      BY <1>2, <2>2, <3>1
  <2>6. CASE Arm
    <3>1. sent' = {}
      BY <2>6 DEF Arm, Seed, Rescan, Poll, Notify, Exited, Plan
    <3> QED
      BY <1>2, <3>1
  <2>7. CASE World
    <3>1. sent' = {}
      BY <2>7 DEF World, BeginLine, Truncate, Delete, Fade, WriteLine, ChildEnd, Lapse, Open, Close, Die,
                  Reported, WatchStops, Elapse, Moves
    <3> QED
      BY <1>2, <3>1
  <2> QED
    BY <1>2, <2>3, <2>4, <2>5, <2>6, <2>7 DEF Next
<1>3. Justified /\ Excusable /\ [Next]_vars => [Caused]_vars
  BY <1>2
<1> QED
  BY AlwaysJustified, InitIsExcusable, <1>1, <1>3, PTL DEF Spec, NoGhost, CausedStart
=============================================================================

------------------------ MODULE ContributionProofs ------------------------
(***************************************************************************)
(* Theorems about ContributionLedger for any number of authors, runs,      *)
(* labels and contributions.                                               *)
(***************************************************************************)
EXTENDS ContributionLedger, TLAPS, WellFoundedInduction, FiniteSetTheorems, SequenceTheorems

(* Identities of contributions. *)
LEMMA IdsAre ==
    ASSUME NEW F
    PROVE  /\ \A f \in Fields : \A i : <<f, i>> \in Ids(F) <=> i \in DOMAIN F.items[f]
           /\ \A x \in Ids(F) : /\ x[1] \in Fields /\ x[2] \in DOMAIN F.items[x[1]]
                                /\ x = <<x[1], x[2]>>
<1>1. \A f, i : <<f, i>> \in Ids(F) <=> f \in Fields /\ i \in DOMAIN F.items[f]
  BY DEF Ids
<1>2. \A x \in Ids(F) : \E f \in Fields : \E i \in DOMAIN F.items[f] : x = <<f, i>>
  BY DEF Ids
<1>3. QED
  BY <1>1, <1>2

(* The run of a contribution, 0 included, is a number that resolve compares.*)
LEMMA RunsAreNat ==
    ASSUME NEW c \in Item
    PROVE  c.run \in Nat /\ c.run \in Runs \cup {0}
<1>1. c.run \in Runs \cup {0}
  BY DEF Item
<1>2. 0 \in Nat /\ Runs \subseteq Nat
  BY LedgerAssumption
<1>3. QED
  BY <1>1, <1>2

(* Places in a field of a well-formed file. *)
LEMMA Places ==
    ASSUME NEW F, WellFormed(F), NEW f \in Fields
    PROVE  /\ F.items[f] \in Seq(Item)
           /\ Len(F.items[f]) \in Nat
           /\ DOMAIN F.items[f] = 1 .. Len(F.items[f])
           /\ \A i \in DOMAIN F.items[f] : F.items[f][i] \in Item
<1>1. F.items[f] \in Seq(Item)
  BY DEF WellFormed
<1>2. QED
  BY <1>1, LenProperties

(* A set of places that is not empty has a last one. *)
LEMMA LastIsLargest ==
    ASSUME NEW n \in Nat, NEW S \in SUBSET (1 .. n), S # {}
    PROVE  Last(S) \in S /\ \A j \in S : j <= Last(S)
<1> DEFINE T == {n - i : i \in S}
<1>1. T \subseteq Nat /\ T # {}
  OBVIOUS
<1>2. PICK m \in T : \A k \in T : ~ (<<k, m>> \in OpToRel(<, Nat))
  <2> HIDE DEF T
  <2> QED  BY <1>1, WFMin, NatLessThanWellFounded
<1>3. PICK i \in S : m = n - i
  OBVIOUS
<1>4. \A j \in S : j <= i
  <2> TAKE j \in S
  <2>1. n - j \in T /\ n - j \in Nat /\ m \in Nat
    BY <1>1
  <2>2. ~ (n - j < m)
    BY <1>2, <2>1 DEF OpToRel
  <2> QED  BY <2>2, <1>3
<1>5. \E k \in S : \A j \in S : j <= k
  BY <1>4
<1>6. QED
  BY <1>5 DEF Last

(* Whether a contribution is well formed depends on the contributions alone. *)
LEMMA FitsFollows ==
    ASSUME NEW F, NEW G, G.items = F.items, NEW f, NEW i, Fits(F, f, i)
    PROVE  Fits(G, f, i)
  BY DEF Fits

(* resolve always finds a best contribution among those in force. *)
LEMMA BestExists ==
    ASSUME NEW F, WellFormed(F), NEW f \in Fields, Active(F, f) # {}
    PROVE  \E i \in Active(F, f) : \A j \in Active(F, f) : Outranks(F, f, i, j)
<1> DEFINE A == Active(F, f)
           Above(i) == {j \in A : Outranks(F, f, j, i)}
           T == {Above(i) : i \in A}
<1>1. /\ A \subseteq 1 .. Len(F.items[f]) /\ Len(F.items[f]) \in Nat
      /\ \A i \in A : F.items[f][i].run \in Nat /\ i \in Nat
  <2>1. /\ Len(F.items[f]) \in Nat /\ DOMAIN F.items[f] = 1 .. Len(F.items[f])
        /\ \A i \in DOMAIN F.items[f] : F.items[f][i] \in Item
    BY Places
  <2>2. A \subseteq DOMAIN F.items[f]
    BY DEF Active
  <2>3. \A i \in DOMAIN F.items[f] : F.items[f][i].run \in Nat
    BY <2>1, RunsAreNat
  <2> HIDE DEF A
  <2> QED  BY <2>1, <2>2, <2>3
<1>2. IsFiniteSet(A)
  <2>1. IsFiniteSet(1 .. Len(F.items[f]))
    <3>1. 1 \in Int /\ Len(F.items[f]) \in Int
      BY <1>1
    <3> QED  BY <3>1, FS_Interval
  <2> HIDE DEF A
  <2> QED  BY <2>1, <1>1, FS_Subset
<1>3. T \subseteq FiniteSubsetsOf(A) /\ T # {}
  <2>1. FiniteSubsetsOf(A) = SUBSET A
    BY <1>2, FS_FiniteSubsetsOfFinite
  <2>2. \A i \in A : Above(i) \in SUBSET A
    OBVIOUS
  <2>3. A # {}
    OBVIOUS
  <2> HIDE DEF A, Above
  <2> QED  BY <2>1, <2>2, <2>3
<1>4. PICK x \in T : \A y \in T : ~ (<<y, x>> \in StrictSubsetOrdering(A))
  <2> HIDE DEF T, A
  <2> QED  BY <1>3, WFMin, FS_StrictSubsetOrderingWellFounded
<1>5. PICK i \in A : x = Above(i)
  OBVIOUS
<1>6. \A j \in A : Outranks(F, f, i, j)
  <2> SUFFICES ASSUME NEW j \in A, ~ Outranks(F, f, i, j) PROVE FALSE
    OBVIOUS
  <2>1. Outranks(F, f, j, i) /\ Outranks(F, f, i, i)
    BY <1>1 DEF Outranks
  <2>2. ASSUME NEW k \in A, Outranks(F, f, k, j) PROVE Outranks(F, f, k, i)
    <3> DEFINE run(m) == F.items[f][m].run
    <3>1. run(i) \in Nat /\ run(j) \in Nat /\ run(k) \in Nat
          /\ i \in Nat /\ j \in Nat /\ k \in Nat
      BY <1>1
    <3>2. \/ run(k) > run(j)
          \/ run(k) = run(j) /\ j <= k
      BY <2>2 DEF Outranks
    <3>3. \/ run(j) > run(i)
          \/ run(j) = run(i) /\ i <= j
      BY <2>1 DEF Outranks
    <3> HIDE DEF run, A
    <3>4. \/ run(k) > run(i)
          \/ run(k) = run(i) /\ i <= k
      BY <3>1, <3>2, <3>3
    <3> QED  BY <3>4 DEF run, Outranks
  <2>3. Above(j) \subseteq Above(i) /\ i \in Above(i) /\ i \notin Above(j)
    BY <2>1, <2>2
  <2>4. <<Above(j), Above(i)>> \in StrictSubsetOrdering(A)
    BY <2>3 DEF StrictSubsetOrdering
  <2> QED  BY <2>4, <1>4, <1>5
<1>7. QED
  BY <1>6

(* Whom resolve chooses. *)
LEMMA WinnerIs ==
    ASSUME NEW F, WellFormed(F), NEW f \in Fields, NEW a \in Authors \cup {NoOne},
           a # NoOne => Resolvable(F, f, a)
    PROVE  /\ Winner(F, f, a) \in Active(F, f) \cup {0}
           /\ Winner(F, f, a) = 0 <=> Active(F, f) = {}
           /\ Human(F, f) # {} => /\ Winner(F, f, a) = Last(Scoped(F, f, a))
                                  /\ Winner(F, f, a) \in Scoped(F, f, a)
<1>1. /\ Active(F, f) \subseteq 1 .. Len(F.items[f]) /\ Len(F.items[f]) \in Nat
      /\ Human(F, f) \subseteq Active(F, f) /\ Scoped(F, f, a) \subseteq Human(F, f)
      /\ 0 \notin Active(F, f)
  BY Places DEF Active, Human, Scoped
<1>2. CASE Human(F, f) # {}
  <2>1. Scoped(F, f, a) # {}
    <3>1. CASE a = NoOne
      BY <3>1, <1>2 DEF Scoped
    <3>2. CASE a # NoOne
      BY <3>2, <1>2 DEF Scoped, Resolvable, HumanAuthors
    <3> QED  BY <3>1, <3>2
  <2>2. Last(Scoped(F, f, a)) \in Scoped(F, f, a)
    BY <2>1, <1>1, LastIsLargest
  <2> QED  BY <2>2, <1>1, <1>2 DEF Winner
<1>3. CASE Human(F, f) = {} /\ Active(F, f) = {}
  BY <1>3 DEF Winner
<1>4. CASE Human(F, f) = {} /\ Active(F, f) # {}
  <2>1. Winner(F, f, a) \in Active(F, f)
    BY <1>4, BestExists DEF Winner
  <2> QED  BY <2>1, <1>4, <1>1
<1>5. QED
  BY <1>2, <1>3, <1>4

(* What resolve gives for a field without a value in force.                *)
LEMMA AbsentTyped == \A f \in Fields : Absent(f) \in Values(f)
  BY DEF Absent, Values

(* resolve gives a value of the field.                                     *)
LEMMA ValueTyped ==
    ASSUME NEW F, WellFormed(F), NEW f \in Fields, NEW a \in Authors \cup {NoOne},
           a # NoOne => Resolvable(F, f, a)
    PROVE  Value(F, f, a) \in Values(f)
<1>1. Winner(F, f, a) # 0 => Winner(F, f, a) \in DOMAIN F.items[f]
  BY WinnerIs DEF Active
<1>2. \A i \in DOMAIN F.items[f] : F.items[f][i].value \in Values(f)
  BY DEF WellFormed, Fits
<1>3. F.shown[f] \in Values(f)
  BY DEF WellFormed
<1>4. QED
  BY <1>1, <1>2, <1>3, AbsentTyped DEF Value

(* A derived contribution is a label's, with a source of the same run.      *)
LEMMA OrphansFit ==
    ASSUME NEW F, WellFormed(F), NEW f \in Fields, NEW i \in DOMAIN F.items[f],
           F.items[f][i].source # 0
    PROVE  /\ f \in Tags /\ F.items[f][i].source \in DOMAIN F.items[Analysis]
           /\ F.items[f][i].run = F.items[Analysis][F.items[f][i].source].run
  BY DEF WellFormed, Fits

(* resolve's choice among the contributions of runs is the only one that   *)
(* outranks all others.                                                    *)
LEMMA BestWins ==
    ASSUME NEW F, WellFormed(F), NEW f \in Fields, NEW a, Human(F, f) = {}
    PROVE  /\ Active(F, f) # {} =>
                /\ Winner(F, f, a) \in Active(F, f)
                /\ \A j \in Active(F, f) : Outranks(F, f, Winner(F, f, a), j)
           /\ \A i \in Active(F, f) :
                (\A j \in Active(F, f) : Outranks(F, f, i, j)) => Winner(F, f, a) = i
<1>1. Active(F, f) # {} =>
                /\ Winner(F, f, a) \in Active(F, f)
                /\ \A j \in Active(F, f) : Outranks(F, f, Winner(F, f, a), j)
  BY BestExists DEF Winner
<1>2. \A i \in Active(F, f) : F.items[f][i].run \in Nat /\ i \in Nat
  <2>1. /\ DOMAIN F.items[f] = 1 .. Len(F.items[f]) /\ Len(F.items[f]) \in Nat
        /\ \A i \in DOMAIN F.items[f] : F.items[f][i] \in Item
    BY Places
  <2> QED  BY <2>1, RunsAreNat DEF Active
<1>3. ASSUME NEW i \in Active(F, f), \A j \in Active(F, f) : Outranks(F, f, i, j)
      PROVE  Winner(F, f, a) = i
  <2>1. Outranks(F, f, Winner(F, f, a), i) /\ Outranks(F, f, i, Winner(F, f, a))
    BY <1>1, <1>3
  <2> QED  BY <1>1, <1>2, <2>1 DEF Outranks
<1>4. QED
  BY <1>1, <1>3

(* Fewer tombstones or more do not change the choice while the chosen one  *)
(* is in force and nothing is back.                                        *)
LEMMA WinnerKept ==
    ASSUME NEW F, WellFormed(F), NEW G, WellFormed(G), NEW f \in Fields, NEW a, NEW b,
           G.items[f] = F.items[f], Active(G, f) \subseteq Active(F, f),
           Human(F, f) = {}, Winner(F, f, a) \in Active(G, f)
    PROVE  Winner(G, f, b) = Winner(F, f, a) /\ Human(G, f) = {}
<1>1. Human(G, f) = {}
  BY DEF Human
<1>2. \A j \in Active(G, f) : Outranks(G, f, Winner(F, f, a), j)
  BY BestWins DEF Outranks
<1>3. QED
  BY <1>1, <1>2, BestWins

(* A field resolves alike in two files that agree about it.                *)
LEMMA Agreed ==
    ASSUME NEW F, WellFormed(F), NEW G, WellFormed(G), NEW f \in Fields,
           NEW a \in Authors \cup {NoOne},
           G.items[f] = F.items[f], Active(G, f) = Active(F, f)
    PROVE  /\ Human(G, f) = Human(F, f) /\ HumanAuthors(G, f) = HumanAuthors(F, f)
           /\ Resolvable(G, f, a) <=> Resolvable(F, f, a)
           /\ Winner(G, f, a) = Winner(F, f, a)
           /\ F.items[f] # <<>> => Value(G, f, a) = Value(F, f, a)
<1>1. Human(G, f) = Human(F, f)
  BY DEF Human
<1>2. HumanAuthors(G, f) = HumanAuthors(F, f)
  BY <1>1 DEF HumanAuthors
<1>3. Scoped(G, f, a) = Scoped(F, f, a)
  BY <1>1 DEF Scoped
<1>4. Winner(G, f, a) = Winner(F, f, a)
  <2>1. CASE Human(F, f) # {}
    BY <1>1, <1>3, <2>1 DEF Winner
  <2>2. CASE Human(F, f) = {} /\ Active(F, f) = {}
    BY <1>1, <2>2 DEF Winner
  <2>3. CASE Human(F, f) = {} /\ Active(F, f) # {}
    <3>1. Winner(F, f, a) \in Active(G, f)
      BY <2>3, BestWins
    <3> QED  BY <2>3, <3>1, WinnerKept
  <2> QED  BY <2>1, <2>2, <2>3
<1>5. QED
  BY <1>1, <1>2, <1>4 DEF Resolvable, Value

(* A field that somebody edited resolves alike whatever happens to the     *)
(* contributions of runs.                                                  *)
LEMMA AgreedHuman ==
    ASSUME NEW F, NEW G, NEW f \in Fields, NEW a \in Authors \cup {NoOne},
           G.items[f] = F.items[f], Human(G, f) = Human(F, f), Human(F, f) # {}
    PROVE  /\ Resolvable(G, f, a) <=> Resolvable(F, f, a)
           /\ F.items[f] # <<>> => Value(G, f, a) = Value(F, f, a)
<1>1. HumanAuthors(G, f) = HumanAuthors(F, f) /\ Scoped(G, f, a) = Scoped(F, f, a)
  BY DEF HumanAuthors, Scoped
<1>2. Winner(G, f, a) = Winner(F, f, a)
  BY <1>1 DEF Winner
<1>3. QED
  BY <1>1, <1>2 DEF Resolvable, Value

(* A run in force wins where nobody has edited.                            *)
LEMMA RunsWin ==
    ASSUME NEW F, WellFormed(F), NEW f \in Fields, NEW a, Human(F, f) = {}
    PROVE  /\ Origin(F, f, a) = "machine" <=> \E i \in Active(F, f) : F.items[f][i].run # 0
           /\ Origin(F, f, a) = "machine" =>
                 Winner(F, f, a) \in Active(F, f) /\ F.items[f][Winner(F, f, a)].run # 0
<1>1. /\ Active(F, f) \subseteq DOMAIN F.items[f] /\ 0 \notin Active(F, f)
      /\ \A i \in DOMAIN F.items[f] :
            F.items[f][i].run \in Nat /\ (F.items[f][i].origin = "machine" <=> F.items[f][i].run # 0)
  <2>1. /\ DOMAIN F.items[f] = 1 .. Len(F.items[f]) /\ Len(F.items[f]) \in Nat
        /\ \A i \in DOMAIN F.items[f] : F.items[f][i] \in Item
    BY Places
  <2>2. \A i \in DOMAIN F.items[f] : Fits(F, f, i)
    BY DEF WellFormed
  <2>3. Active(F, f) \subseteq DOMAIN F.items[f] /\ 0 \notin Active(F, f)
    BY <2>1 DEF Active
  <2>4. \A i \in DOMAIN F.items[f] : F.items[f][i].run \in Nat
    BY <2>1, RunsAreNat
  <2> QED  BY <2>2, <2>3, <2>4 DEF Fits
<1> DEFINE w == Winner(F, f, a)
<1>2. CASE Active(F, f) = {}
  <2>1. w = 0
    BY <1>2 DEF Winner
  <2> QED  BY <1>2, <2>1 DEF Origin
<1>3. CASE Active(F, f) # {}
  <2>1. w \in Active(F, f) /\ \A j \in Active(F, f) : Outranks(F, f, w, j)
    BY <1>3, BestWins
  <2>2. Origin(F, f, a) = F.items[f][w].origin
    BY <1>1, <2>1 DEF Origin
  <2>3. ASSUME NEW i \in Active(F, f), F.items[f][i].run # 0 PROVE F.items[f][w].run # 0
    BY <1>1, <2>1, <2>3 DEF Outranks
  <2> HIDE DEF w
  <2>4. Origin(F, f, a) = "machine" <=> F.items[f][w].run # 0
    BY <1>1, <2>1, <2>2
  <2> QED  BY <2>1, <2>3, <2>4 DEF w
<1>4. QED
  BY <1>2, <1>3

-----------------------------------------------------------------------------
(* What a step keeps, and the invariant. *)

Shape == [items : [Fields -> Seq(Item)], withdrawn : SUBSET (Fields \X Nat),
          shown : [Fields -> Data]]

Extends(F, G) ==
    \A f \in Fields : \A i \in DOMAIN F.items[f] :
        i \in DOMAIN G.items[f] /\ G.items[f][i] = F.items[f][i]

Keeps(F, G) == F.withdrawn \subseteq G.withdrawn /\ Extends(F, G)

(* A finding that a person gave is never withdrawn: only runs are. *)
HumanFindingsKept(F) ==
    \A i \in DOMAIN F.items[Analysis] :
        F.items[Analysis][i].origin = "human" => <<Analysis, i>> \notin F.withdrawn

Owned(F) ==
    \A f \in Fields, a \in Authors :
        HumanAuthors(F, f) = {a} => F.shown[f] = F.items[f][Last(Human(F, f))].value

(* What the ledger knows of runs. *)

(* A run contributes to a field once.                                      *)
OnePerRun(F) ==
    \A f \in Fields : \A i, j \in DOMAIN F.items[f] :
        F.items[f][i].run = F.items[f][j].run /\ F.items[f][i].run # 0 => i = j

(* Runs give tags only through a finding, only findings of runs are        *)
(* withdrawn, and a derived label is on.                                   *)
RunsGive(F) ==
    /\ \A f \in Tags : \A i \in DOMAIN F.items[f] :
          /\ F.items[f][i].run # 0 => F.items[f][i].source # 0
          /\ F.items[f][i].source # 0 => F.items[f][i].value = TRUE
    /\ \A i \in DOMAIN F.items[Analysis] :
          <<Analysis, i>> \in F.withdrawn => F.items[Analysis][i].run # 0

Orphan(F, f, i) ==
    F.items[f][i].source # 0 /\ <<Analysis, F.items[f][i].source>> \in F.withdrawn

(* A label stays without the finding that it came from only as long as     *)
(* another run gives the label as well.                                    *)
OrphansCovered(F) ==
    \A f \in Fields : \A i \in Active(F, f) : Orphan(F, f, i) =>
        \E j \in Active(F, f) : F.items[f][j].run # 0 /\ ~ Orphan(F, f, j)

RunsKept(F) == OnePerRun(F) /\ RunsGive(F) /\ OrphansCovered(F)

(* What is shown, by contributions of runs and in general. *)
RunsShown(F) ==
    \A f \in Fields :
        Human(F, f) = {} /\ (\E i \in Active(F, f) : F.items[f][i].run # 0)
            => F.shown[f] = Value(F, f, NoOne)

Shown(F) ==
    \A f \in Fields :
        \/ F.items[f] = <<>>
        \/ F.shown[f] = Absent(f)
        \/ \E a \in Authors \cup {NoOne} :
              Resolvable(F, f, a) /\ F.shown[f] = Value(F, f, a)

RunsInv(F) == RunsKept(F) /\ RunsShown(F) /\ Shown(F)

LedgerInv(F) == WellFormed(F) /\ HumanFindingsKept(F) /\ Owned(F) /\ RunsInv(F)

(* The analysis field and the labels are the fields of an episode.         *)
LEMMA AnalysisIsField == Analysis \in Fields /\ Tags \subseteq Fields /\ Labels \subseteq Fields
  BY DEF Fields, Labels

(* The values of every field.                                              *)
LEMMA ValuesAreData == \A f \in Fields : Values(f) \subseteq Data
  BY DEF Values, Data

(* Adding contributions that fit keeps a file well formed. *)
LEMMA GrownWellFormed ==
    ASSUME NEW F, WellFormed(F), NEW G, G \in Shape,
           G.withdrawn = F.withdrawn, G.shown = F.shown, Extends(F, G),
           \A f \in Fields : \A j \in DOMAIN G.items[f] : j \notin DOMAIN F.items[f] => Fits(G, f, j)
    PROVE  WellFormed(G)
<1>1. G.withdrawn \subseteq Ids(G)
  <2>1. \A x \in F.withdrawn : x \in Ids(F)
    BY DEF WellFormed
  <2>2. \A x \in Ids(F) : x \in Ids(G)
    BY IdsAre DEF Extends
  <2> QED  BY <2>1, <2>2
<1>2. \A f \in Fields : G.shown[f] \in Values(f)
  BY DEF WellFormed
<1>3. ASSUME NEW f \in Fields, NEW i \in DOMAIN F.items[f] PROVE Fits(G, f, i)
  <2>1. Fits(F, f, i)
    BY DEF WellFormed
  <2>2. G.items[f][i] = F.items[f][i]
    BY DEF Extends
  <2>3. \A k \in DOMAIN F.items[Analysis] :
            k \in DOMAIN G.items[Analysis] /\ G.items[Analysis][k] = F.items[Analysis][k]
    BY AnalysisIsField DEF Extends
  <2> QED  BY <2>1, <2>2, <2>3 DEF Fits
<1>4. QED
  BY <1>1, <1>2, <1>3 DEF WellFormed, Shape

(* What is in a field after record_changes appended to it.                 *)
LEMMA Concatenated ==
    ASSUME NEW s \in Seq(Item), NEW l \in Seq(Item), NEW c \in Item, NEW t, t = s \o l \o <<c>>
    PROVE  /\ t \in Seq(Item)
           /\ \A i \in DOMAIN s : i \in DOMAIN t /\ t[i] = s[i]
           /\ \A j \in DOMAIN t : j \in DOMAIN s \/ t[j] = c \/ \E k \in DOMAIN l : t[j] = l[k]
<1>1. /\ s \o l \in Seq(Item) /\ Len(s \o l) = Len(s) + Len(l)
      /\ Len(s) \in Nat /\ Len(l) \in Nat
      /\ DOMAIN s = 1 .. Len(s) /\ DOMAIN l = 1 .. Len(l)
      /\ \A i \in 1 .. Len(s) + Len(l) :
            (s \o l)[i] = IF i <= Len(s) THEN s[i] ELSE l[i - Len(s)]
  BY ConcatProperties, LenProperties
<1>2. t = Append(s \o l, c)
  BY <1>1, AppendIsConcat
<1>3. /\ t \in Seq(Item) /\ Len(t) = Len(s) + Len(l) + 1
      /\ \A i \in 1 .. Len(s) + Len(l) : t[i] = (s \o l)[i]
      /\ t[Len(s) + Len(l) + 1] = c
  BY <1>1, <1>2, AppendProperties
<1>4. DOMAIN t = 1 .. Len(s) + Len(l) + 1
  BY <1>3, LenProperties
<1>5. \A i \in DOMAIN s : i \in DOMAIN t /\ t[i] = s[i]
  BY <1>1, <1>3, <1>4
<1>6. ASSUME NEW j \in DOMAIN t, j \notin DOMAIN s, t[j] # c PROVE \E k \in DOMAIN l : t[j] = l[k]
  <2>1. j \in 1 .. Len(s) + Len(l) /\ ~ (j <= Len(s))
    BY <1>6, <1>1, <1>3, <1>4
  <2>2. j - Len(s) \in DOMAIN l /\ t[j] = l[j - Len(s)]
    BY <2>1, <1>1, <1>3
  <2> QED  BY <2>2
<1>7. QED
  BY <1>3, <1>5, <1>6

(* A contribution that is not derived fits on its own. *)
Plain(c, f) ==
    /\ c \in Item /\ c.source = 0 /\ c.value \in Values(f)
    /\ c.origin = "human" <=> c.author # NoOne
    /\ c.origin = "machine" <=> c.run # 0

(* A contribution without a source needs no other to fit.                  *)
LEMMA PlainFits ==
    ASSUME NEW G, NEW f \in Fields, NEW j, Plain(G.items[f][j], f)
    PROVE  Fits(G, f, j)
  BY DEF Plain, Fits

(* record_changes only appends, and what it appends fits. *)
LEMMA Recorded ==
    ASSUME NEW F, WellFormed(F),
           NEW previous, DOMAIN previous \subseteq Fields,
           \A f \in DOMAIN previous : previous[f] \in Values(f),
           NEW current, DOMAIN current \subseteq Fields,
           \A f \in DOMAIN current : current[f] \in Values(f),
           NEW author \in Authors, NEW origin \in {"human", "machine", "legacy-unknown"},
           NEW run \in Runs \cup {0}, origin = "machine" <=> run # 0,
           NEW G, G = RecordChanges(F, previous, current, author, origin, run)
    PROVE  WellFormed(G) /\ Extends(F, G) /\ G.withdrawn = F.withdrawn /\ G.shown = F.shown
<1> DEFINE new(f) == [origin |-> origin, author |-> IF origin = "human" THEN author ELSE NoOne,
                      run |-> run, value |-> current[f], source |-> 0]
           old(f) == [origin |-> "legacy-unknown", author |-> NoOne, run |-> 0,
                      value |-> previous[f], source |-> 0]
<1>1. ASSUME NEW f \in DOMAIN current PROVE Plain(new(f), f)
  <2>1. new(f).value \in Data /\ new(f).value \in Values(f)
    BY ValuesAreData
  <2>2. author # NoOne
    BY LedgerAssumption
  <2> QED  BY <2>1, <2>2 DEF Plain, Item
<1>2. ASSUME NEW f \in DOMAIN previous PROVE Plain(old(f), f)
  <2>1. old(f).value \in Data /\ old(f).value \in Values(f)
    BY ValuesAreData
  <2> QED  BY <2>1 DEF Plain, Item
<1>3. F \in Shape
  BY DEF WellFormed, Shape
<1>4. G.items = [f \in Fields |->
          IF f \in Changed(F, previous, current, run)
          THEN F.items[f] \o LegacyItems(F, previous, f) \o <<new(f)>>
          ELSE F.items[f]] /\ G.withdrawn = F.withdrawn /\ G.shown = F.shown
      /\ G = [F EXCEPT !.items = G.items]
  BY <1>3 DEF RecordChanges, Shape
<1>5. ASSUME NEW f \in Fields
      PROVE  /\ G.items[f] \in Seq(Item)
             /\ \A i \in DOMAIN F.items[f] :
                    i \in DOMAIN G.items[f] /\ G.items[f][i] = F.items[f][i]
             /\ \A j \in DOMAIN G.items[f] : j \notin DOMAIN F.items[f] => Plain(G.items[f][j], f)
  <2>1. F.items[f] \in Seq(Item)
    BY Places
  <2>2. CASE f \notin Changed(F, previous, current, run)
    BY <1>4, <2>1, <2>2
  <2>3. CASE f \in Changed(F, previous, current, run)
    <3>1. f \in DOMAIN current
      BY <2>3 DEF Changed
    <3>2. Plain(new(f), f) /\ new(f) \in Item
      BY <3>1, <1>1 DEF Plain
    <3>3. LegacyItems(F, previous, f) = <<>> \/ (f \in DOMAIN previous /\ LegacyItems(F, previous, f) = <<old(f)>>)
      BY DEF LegacyItems
    <3>4. /\ LegacyItems(F, previous, f) \in Seq(Item)
          /\ \A k \in DOMAIN LegacyItems(F, previous, f) : Plain(LegacyItems(F, previous, f)[k], f)
      <4>1. CASE LegacyItems(F, previous, f) = <<>>
        BY <4>1
      <4>2. CASE f \in DOMAIN previous /\ LegacyItems(F, previous, f) = <<old(f)>>
        <5>1. Plain(old(f), f) /\ old(f) \in Item
          BY <4>2, <1>2 DEF Plain
        <5> HIDE DEF old
        <5> QED  BY <5>1, <4>2
      <4> QED  BY <3>3, <4>1, <4>2
    <3>5. G.items[f] = F.items[f] \o LegacyItems(F, previous, f) \o <<new(f)>>
      BY <1>4, <2>3
    <3> HIDE DEF new
    <3>6. /\ G.items[f] \in Seq(Item)
          /\ \A i \in DOMAIN F.items[f] :
                i \in DOMAIN G.items[f] /\ G.items[f][i] = F.items[f][i]
          /\ \A j \in DOMAIN G.items[f] :
                \/ j \in DOMAIN F.items[f]
                \/ G.items[f][j] = new(f)
                \/ \E k \in DOMAIN LegacyItems(F, previous, f) : G.items[f][j] = LegacyItems(F, previous, f)[k]
      <4> DEFINE t == G.items[f]
                 u == F.items[f]
                 l == LegacyItems(F, previous, f)
                 c == new(f)
      <4>1. u \in Seq(Item) /\ l \in Seq(Item) /\ c \in Item /\ t = u \o l \o <<c>>
        BY <2>1, <3>2, <3>4, <3>5
      <4> HIDE DEF t, u, l, c
      <4>2. /\ t \in Seq(Item)
            /\ \A i \in DOMAIN u : i \in DOMAIN t /\ t[i] = u[i]
            /\ \A j \in DOMAIN t : j \in DOMAIN u \/ t[j] = c \/ \E k \in DOMAIN l : t[j] = l[k]
        BY <4>1, Concatenated
      <4> QED  BY <4>2 DEF t, u, l, c
    <3> QED  BY <3>6, <3>2, <3>4
  <2>4. QED
    BY <2>2, <2>3
<1>6. G.items \in [Fields -> Seq(Item)]
  <2>1. G.items = [f \in Fields |-> G.items[f]]
    BY <1>4
  <2> QED  BY <2>1, <1>5
<1>7. G \in Shape
  BY <1>3, <1>4, <1>6 DEF Shape
<1>8. Extends(F, G)
  BY <1>5 DEF Extends
<1>9. WellFormed(G)
  BY <1>4, <1>5, <1>7, <1>8, PlainFits, GrownWellFormed
<1>10. QED
  BY <1>4, <1>8, <1>9

(* withdraw only adds tombstones, of the contributions named and of those  *)
(* derived from a tombstone.                                               *)
LEMMA Retired ==
    ASSUME NEW F, WellFormed(F), NEW ids, ids \subseteq Ids(F), NEW G, G = Retire(F, ids)
    PROVE  /\ WellFormed(G) /\ G.items = F.items /\ G.shown = F.shown
           /\ F.withdrawn \cup ids \subseteq G.withdrawn
           /\ \A x \in G.withdrawn :
                 \/ x \in F.withdrawn \cup ids
                 \/ /\ x \in Ids(F) /\ ItemAt(F, x).source # 0
                    /\ <<Analysis, ItemAt(F, x).source>> \in F.withdrawn \cup ids
<1> DEFINE R == F.withdrawn \cup ids
           D == {x \in Ids(F) : ItemAt(F, x).source # 0 /\ <<Analysis, ItemAt(F, x).source>> \in R}
<1>1. F \in Shape
  BY DEF WellFormed, Shape
<1>2. G = [F EXCEPT !.withdrawn = R \cup D]
  BY DEF Retire
<1>3. G.items = F.items /\ G.shown = F.shown /\ G.withdrawn = R \cup D
  BY <1>1, <1>2 DEF Shape
<1>4. R \cup D \subseteq Ids(F)
  BY DEF WellFormed
<1>5. Ids(F) \subseteq Fields \X Nat
  <2> SUFFICES ASSUME NEW x \in Ids(F) PROVE x \in Fields \X Nat
    OBVIOUS
  <2>1. x[1] \in Fields /\ x[2] \in DOMAIN F.items[x[1]] /\ x = <<x[1], x[2]>>
    BY IdsAre
  <2>2. x[2] \in Nat
    BY <2>1, Places
  <2> QED  BY <2>1, <2>2
<1>6. Ids(G) = Ids(F)
  BY <1>3 DEF Ids
<1>7. G \in Shape
  <2> HIDE DEF R, D
  <2> QED  BY <1>1, <1>2, <1>4, <1>5 DEF Shape
<1>8. \A f \in Fields : \A i \in DOMAIN G.items[f] : Fits(G, f, i)
  BY FitsFollows, <1>3 DEF WellFormed
<1>9. WellFormed(G)
  BY <1>3, <1>4, <1>6, <1>7, <1>8 DEF WellFormed, Shape
<1>10. QED
  BY <1>3, <1>9

(* derive adds a contribution that belongs to whom its source belongs to.  *)
LEMMA DeriveKeeps ==
    ASSUME NEW F, WellFormed(F), NEW f \in Tags, NEW src \in DOMAIN F.items[Analysis],
           NEW G, G = Derive(F, src, f)
    PROVE  WellFormed(G) /\ Extends(F, G) /\ G.withdrawn = F.withdrawn /\ G.shown = F.shown
<1> DEFINE c == Derived(F, src)
           parent == F.items[Analysis][src]
<1>1. /\ Analysis \in Fields /\ f \in Fields /\ f # Analysis /\ f \in Labels
      /\ F \in Shape
  BY AnalysisIsField, LedgerAssumption DEF Labels, WellFormed, Shape
<1>2. /\ F.items[Analysis] \in Seq(Item) /\ parent \in Item /\ src \in Nat \ {0}
      /\ F.items[f] \in Seq(Item)
  BY <1>1, Places
<1>3. Fits(F, Analysis, src)
  BY <1>1 DEF WellFormed
<1>4. /\ c \in Item /\ c.value = TRUE /\ c.source = src
      /\ c.origin = parent.origin /\ c.author = parent.author /\ c.run = parent.run
  <2>1. TRUE \in Data
    BY DEF Data
  <2> QED  BY <1>2, <2>1 DEF Derived, Item
<1>5. CASE G = F
  BY <1>5 DEF Extends
<1>6. CASE G = [F EXCEPT !.items[f] = Append(@, c)]
  <2>1. /\ G.withdrawn = F.withdrawn /\ G.shown = F.shown
        /\ G.items = [F.items EXCEPT ![f] = Append(F.items[f], c)]
        /\ G = [F EXCEPT !.items = G.items]
    BY <1>1, <1>6 DEF Shape
  <2> HIDE DEF c
  <2>2. /\ Append(F.items[f], c) \in Seq(Item)
        /\ DOMAIN F.items[f] = 1 .. Len(F.items[f]) /\ Len(F.items[f]) \in Nat
        /\ DOMAIN Append(F.items[f], c) = 1 .. Len(F.items[f]) + 1
        /\ \A i \in 1 .. Len(F.items[f]) : Append(F.items[f], c)[i] = F.items[f][i]
        /\ Append(F.items[f], c)[Len(F.items[f]) + 1] = c
    BY <1>2, <1>4, AppendProperties, LenProperties
  <2>3. F.items \in [Fields -> Seq(Item)]
    BY <1>1 DEF Shape
  <2>4. /\ G.items \in [Fields -> Seq(Item)]
        /\ G.items[f] = Append(F.items[f], c)
        /\ \A g \in Fields : g # f => G.items[g] = F.items[g]
    BY <1>1, <2>1, <2>2, <2>3
  <2>5. G \in Shape
    BY <1>1, <2>1, <2>4 DEF Shape
  <2>6. Extends(F, G)
    <3>1. \A g \in Fields : g # f => \A i \in DOMAIN F.items[g] :
              i \in DOMAIN G.items[g] /\ G.items[g][i] = F.items[g][i]
      BY <2>4
    <3>2. \A i \in DOMAIN F.items[f] : i \in DOMAIN G.items[f] /\ G.items[f][i] = F.items[f][i]
      BY <2>2, <2>4
    <3> QED  BY <3>1, <3>2 DEF Extends
  <2>7. ASSUME NEW g \in Fields, NEW j \in DOMAIN G.items[g], j \notin DOMAIN F.items[g]
        PROVE  Fits(G, g, j)
    <3>1. g = f /\ G.items[g][j] = c
      BY <2>2, <2>4, <2>7
    <3>2. G.items[Analysis] = F.items[Analysis]
      BY <1>1, <2>4
    <3>3. c.value \in Values(f)
      BY <1>1, <1>4 DEF Values
    <3>4. /\ c.origin = "human" <=> c.author # NoOne
          /\ c.origin = "machine" <=> c.run # 0
      BY <1>3, <1>4 DEF Fits
    <3> QED  BY <3>1, <3>2, <3>3, <3>4, <1>4 DEF Fits
  <2> QED  BY <2>1, <2>5, <2>6, <2>7, GrownWellFormed
<1>7. QED
  BY <1>5, <1>6 DEF Derive

(* The ledger's part does not depend on what is shown.                     *)
LEMMA SameRuns ==
    ASSUME NEW F, NEW G, RunsKept(F), G.items = F.items, G.withdrawn = F.withdrawn
    PROVE  RunsKept(G)
<1>1. \A f : Active(G, f) = Active(F, f)
  BY DEF Active
<1>2. \A f, i : Orphan(G, f, i) <=> Orphan(F, f, i)
  BY DEF Orphan
<1>3. OnePerRun(G) /\ RunsGive(G)
  BY DEF RunsKept, OnePerRun, RunsGive
<1>4. OrphansCovered(G)
  BY <1>1, <1>2 DEF RunsKept, OrphansCovered
<1>5. QED
  BY <1>3, <1>4 DEF RunsKept

(* What record_changes adds for one run. *)
Adds(F, G, run) ==
    \A f \in Fields : \A j \in DOMAIN G.items[f] : j \notin DOMAIN F.items[f] =>
        /\ G.items[f][j].source = 0
        /\ G.items[f][j].run # 0 =>
              /\ j = Len(G.items[f]) /\ f \notin Tags
              /\ G.items[f][j].run = run /\ RecordedBy(F, run, f) = {}

OldOrLast(s, l, c, t) ==
    \A j \in DOMAIN t :
        \/ j \in DOMAIN s
        \/ t[j] = c /\ j = Len(t)
        \/ \E k \in DOMAIN l : t[j] = l[k]

(* Where record_changes puts the new contribution.                         *)
LEMMA AppendedLast ==
    ASSUME NEW s \in Seq(Item), NEW l \in Seq(Item), NEW c \in Item, NEW t, t = s \o l \o <<c>>
    PROVE  OldOrLast(s, l, c, t)
<1>1. /\ s \o l \in Seq(Item) /\ Len(s \o l) = Len(s) + Len(l)
      /\ Len(s) \in Nat /\ Len(l) \in Nat
      /\ DOMAIN s = 1 .. Len(s) /\ DOMAIN l = 1 .. Len(l)
      /\ \A i \in 1 .. Len(s) + Len(l) :
            (s \o l)[i] = IF i <= Len(s) THEN s[i] ELSE l[i - Len(s)]
  BY ConcatProperties, LenProperties
<1>2. t = Append(s \o l, c)
  BY <1>1, AppendIsConcat
<1>3. /\ t \in Seq(Item) /\ Len(t) = Len(s) + Len(l) + 1
      /\ \A i \in 1 .. Len(s) + Len(l) : t[i] = (s \o l)[i]
      /\ t[Len(s) + Len(l) + 1] = c
  BY <1>1, <1>2, AppendProperties
<1>4. DOMAIN t = 1 .. Len(s) + Len(l) + 1
  BY <1>3, LenProperties
<1>5. ASSUME NEW j \in DOMAIN t, j \notin DOMAIN s, ~ (t[j] = c /\ j = Len(t))
      PROVE  \E k \in DOMAIN l : t[j] = l[k]
  <2>1. j \in 1 .. Len(s) + Len(l) /\ ~ (j <= Len(s))
    BY <1>5, <1>1, <1>3, <1>4
  <2>2. j - Len(s) \in DOMAIN l /\ t[j] = l[j - Len(s)]
    BY <2>1, <1>1, <1>3
  <2> QED  BY <2>2
<1>6. QED
  BY <1>5 DEF OldOrLast

(* record_changes adds a contribution of a run where the run has none yet. *)
LEMMA RecordedAdds ==
    ASSUME NEW F, WellFormed(F),
           NEW previous, DOMAIN previous \subseteq Fields,
           \A f \in DOMAIN previous : previous[f] \in Values(f),
           NEW current, DOMAIN current \subseteq Fields,
           \A f \in DOMAIN current : current[f] \in Values(f),
           NEW author \in Authors, NEW origin \in {"human", "machine", "legacy-unknown"},
           NEW run \in Runs \cup {0}, run # 0 => DOMAIN current \cap Tags = {},
           NEW G, G = RecordChanges(F, previous, current, author, origin, run)
    PROVE  Adds(F, G, run)
<1> DEFINE new(f) == [origin |-> origin, author |-> IF origin = "human" THEN author ELSE NoOne,
                      run |-> run, value |-> current[f], source |-> 0]
           old(f) == [origin |-> "legacy-unknown", author |-> NoOne, run |-> 0,
                      value |-> previous[f], source |-> 0]
<1>1. F \in Shape
  BY DEF WellFormed, Shape
<1>2. G.items = [f \in Fields |->
          IF f \in Changed(F, previous, current, run)
          THEN F.items[f] \o LegacyItems(F, previous, f) \o <<new(f)>>
          ELSE F.items[f]]
  BY <1>1 DEF RecordChanges, Shape
<1>3. ASSUME NEW f \in Fields, NEW p \in DOMAIN G.items[f], p \notin DOMAIN F.items[f]
      PROVE  /\ G.items[f][p].source = 0
             /\ G.items[f][p].run # 0 =>
                   /\ p = Len(G.items[f]) /\ f \notin Tags
                   /\ G.items[f][p].run = run /\ RecordedBy(F, run, f) = {}
  <2>1. f \in Changed(F, previous, current, run)
    BY <1>2, <1>3
  <2>2. /\ f \in DOMAIN current
        /\ run # 0 => RecordedBy(F, run, f) = {} /\ f \notin Tags
    BY <2>1 DEF Changed
  <2>3. F.items[f] \in Seq(Item)
    BY Places
  <2>4. new(f) \in Item /\ new(f).source = 0 /\ new(f).run = run
    <3>1. current[f] \in Data
      BY <2>2, ValuesAreData
    <3> QED  BY <3>1 DEF Item
  <2>5. /\ LegacyItems(F, previous, f) \in Seq(Item)
        /\ \A k \in DOMAIN LegacyItems(F, previous, f) :
              LegacyItems(F, previous, f)[k].run = 0 /\ LegacyItems(F, previous, f)[k].source = 0
    <3>1. CASE f \in DOMAIN previous /\ F.items[f] = <<>>
      <4>1. old(f) \in Item /\ old(f).run = 0 /\ old(f).source = 0
        <5>1. previous[f] \in Data
          BY <3>1, ValuesAreData
        <5> QED  BY <5>1 DEF Item
      <4>2. LegacyItems(F, previous, f) = <<old(f)>>
        BY <3>1 DEF LegacyItems
      <4> HIDE DEF old
      <4> QED  BY <4>1, <4>2
    <3>2. CASE ~ (f \in DOMAIN previous /\ F.items[f] = <<>>)
      <4>1. LegacyItems(F, previous, f) = <<>>
        BY <3>2 DEF LegacyItems
      <4> QED  BY <4>1
    <3> QED  BY <3>1, <3>2
  <2>6. G.items[f] = F.items[f] \o LegacyItems(F, previous, f) \o <<new(f)>>
    BY <1>2, <2>1
  <2> DEFINE t == G.items[f]
             u == F.items[f]
             l == LegacyItems(F, previous, f)
             c == new(f)
  <2>7. u \in Seq(Item) /\ l \in Seq(Item) /\ c \in Item /\ t = u \o l \o <<c>>
    BY <2>3, <2>4, <2>5, <2>6
  <2>8. c.source = 0 /\ c.run = run
    BY <2>4
  <2> HIDE DEF t, u, l, c
  <2>9. OldOrLast(u, l, c, t)
    BY <2>7, AppendedLast
  <2>10. (t[p] = c /\ p = Len(t)) \/ \E m \in DOMAIN l : t[p] = l[m]
    BY <1>3, <2>9 DEF OldOrLast, t, u
  <2>11. CASE t[p] = c /\ p = Len(t)
    BY <2>2, <2>8, <2>11 DEF t
  <2>12. CASE \E m \in DOMAIN l : t[p] = l[m]
    BY <2>5, <2>12 DEF t, l
  <2> QED  BY <2>10, <2>11, <2>12
<1>4. QED
  BY <1>3 DEF Adds

(* What record_changes adds keeps the ledger's account of runs.            *)
LEMMA GrownRuns ==
    ASSUME NEW F, WellFormed(F), RunsKept(F), NEW G, WellFormed(G),
           Extends(F, G), G.withdrawn = F.withdrawn, NEW run, Adds(F, G, run)
    PROVE  RunsKept(G)
<1>1. OnePerRun(G)
  <2> SUFFICES ASSUME NEW f \in Fields, NEW i \in DOMAIN G.items[f], NEW j \in DOMAIN G.items[f],
                      G.items[f][i].run = G.items[f][j].run, G.items[f][i].run # 0
               PROVE  i = j
    BY DEF OnePerRun
  <2>1. ASSUME NEW k \in DOMAIN F.items[f], NEW m \in DOMAIN G.items[f], m \notin DOMAIN F.items[f],
               G.items[f][k].run = G.items[f][m].run, G.items[f][m].run # 0
        PROVE  FALSE
    <3>1. f \notin Tags /\ G.items[f][m].run = run /\ RecordedBy(F, run, f) = {}
      BY <2>1 DEF Adds
    <3>2. F.items[f][k].source = 0
      BY <3>1, OrphansFit
    <3>3. F.items[f][k] = G.items[f][k]
      BY DEF Extends
    <3> QED  BY <2>1, <3>1, <3>2, <3>3 DEF RecordedBy
  <2>2. CASE i \in DOMAIN F.items[f] /\ j \in DOMAIN F.items[f]
    BY <2>2 DEF RunsKept, OnePerRun, Extends
  <2>3. CASE i \notin DOMAIN F.items[f] /\ j \notin DOMAIN F.items[f]
    BY <2>3 DEF Adds
  <2> QED  BY <2>1, <2>2, <2>3
<1>2. RunsGive(G)
  <2>1. ASSUME NEW f \in Tags, NEW i \in DOMAIN G.items[f]
        PROVE  /\ G.items[f][i].run # 0 => G.items[f][i].source # 0
               /\ G.items[f][i].source # 0 => G.items[f][i].value = TRUE
    <3>1. f \in Fields
      BY AnalysisIsField
    <3>2. CASE i \in DOMAIN F.items[f]
      BY <3>1, <3>2 DEF RunsKept, RunsGive, Extends
    <3>3. CASE i \notin DOMAIN F.items[f]
      BY <3>1, <3>3 DEF Adds
    <3> QED  BY <3>2, <3>3
  <2>2. ASSUME NEW i \in DOMAIN G.items[Analysis], <<Analysis, i>> \in G.withdrawn
        PROVE  G.items[Analysis][i].run # 0
    <3>1. i \in DOMAIN F.items[Analysis]
      BY <2>2, AnalysisIsField, IdsAre DEF WellFormed
    <3> QED  BY <2>2, <3>1, AnalysisIsField DEF RunsKept, RunsGive, Extends
  <2> QED  BY <2>1, <2>2 DEF RunsGive
<1>3. OrphansCovered(G)
  <2> SUFFICES ASSUME NEW f \in Fields, NEW i \in Active(G, f), Orphan(G, f, i)
               PROVE  \E j \in Active(G, f) : G.items[f][j].run # 0 /\ ~ Orphan(G, f, j)
    BY DEF OrphansCovered
  <2>1. i \in DOMAIN F.items[f]
    BY DEF Adds, Orphan, Active
  <2>2. i \in Active(F, f) /\ Orphan(F, f, i)
    BY <2>1 DEF Active, Orphan, Extends
  <2>3. PICK j \in Active(F, f) : F.items[f][j].run # 0 /\ ~ Orphan(F, f, j)
    BY <2>2 DEF RunsKept, OrphansCovered
  <2>4. j \in Active(G, f) /\ G.items[f][j] = F.items[f][j]
    BY DEF Active, Extends
  <2> QED  BY <2>3, <2>4 DEF Orphan
<1>4. QED
  BY <1>1, <1>2, <1>3 DEF RunsKept

(* derive adds to a label at most one contribution of a finding in force,  *)
(* and with it at most one of the finding's run.                           *)
LEMMA DeriveRuns ==
    ASSUME NEW F, WellFormed(F), RunsKept(F), NEW f \in Tags, NEW src \in Active(F, Analysis),
           NEW G, G = Derive(F, src, f)
    PROVE  RunsKept(G)
<1> DEFINE c == Derived(F, src)
           parent == F.items[Analysis][src]
           n == Len(F.items[f]) + 1
<1>1. /\ Analysis \in Fields /\ f \in Fields /\ f # Analysis /\ F \in Shape
      /\ src \in DOMAIN F.items[Analysis] /\ <<Analysis, src>> \notin F.withdrawn
  BY AnalysisIsField, LedgerAssumption DEF Labels, WellFormed, Shape, Active
<1>2. /\ F.items[Analysis] \in Seq(Item) /\ parent \in Item /\ src \in Nat \ {0}
      /\ F.items[f] \in Seq(Item) /\ Len(F.items[f]) \in Nat
  BY <1>1, Places
<1>3. CASE \E i \in DOMAIN F.items[f] : F.items[f][i].source = src
  BY <1>3 DEF Derive
<1>4. CASE ~ \E i \in DOMAIN F.items[f] : F.items[f][i].source = src
  <2>1. c \in Item /\ c.value = TRUE /\ c.source = src /\ c.run = parent.run
    <3>1. TRUE \in Data
      BY DEF Data
    <3> QED  BY <1>2, <3>1 DEF Derived, Item
  <2>2. /\ G.withdrawn = F.withdrawn
        /\ G.items = [F.items EXCEPT ![f] = Append(F.items[f], c)]
    BY <1>1, <1>4 DEF Derive, Shape
  <2> HIDE DEF c
  <2>3. /\ DOMAIN F.items[f] = 1 .. Len(F.items[f])
        /\ DOMAIN Append(F.items[f], c) = 1 .. n
        /\ \A i \in 1 .. Len(F.items[f]) : Append(F.items[f], c)[i] = F.items[f][i]
        /\ Append(F.items[f], c)[n] = c
    BY <1>2, <2>1, AppendProperties, LenProperties
  <2>4. /\ G.items[f] = Append(F.items[f], c)
        /\ \A g \in Fields : g # f => G.items[g] = F.items[g]
    <3>1. F.items \in [Fields -> Seq(Item)]
      BY <1>1 DEF Shape
    <3> QED  BY <1>1, <2>2, <3>1
  <2>5. /\ DOMAIN G.items[f] = 1 .. n /\ G.items[f][n] = c
        /\ \A i \in DOMAIN F.items[f] : G.items[f][i] = F.items[f][i]
        /\ \A i \in DOMAIN G.items[f] : i # n => i \in DOMAIN F.items[f]
        /\ \A i \in DOMAIN F.items[f] : i \in DOMAIN G.items[f]
    BY <1>2, <2>3, <2>4
  <2> HIDE DEF n
  <2>6. ASSUME NEW i \in DOMAIN F.items[f], F.items[f][i].run = c.run, c.run # 0
        PROVE  FALSE
    <3>1. F.items[f][i].source # 0
      BY <2>6 DEF RunsKept, RunsGive
    <3>2. /\ F.items[f][i].source \in DOMAIN F.items[Analysis]
          /\ F.items[f][i].run = F.items[Analysis][F.items[f][i].source].run
      BY <1>1, <3>1, OrphansFit
    <3>3. F.items[f][i].source = src
      BY <1>1, <2>1, <2>6, <3>2 DEF RunsKept, OnePerRun
    <3> QED  BY <1>4, <3>3
  <2>7. OnePerRun(G)
    <3> SUFFICES ASSUME NEW g \in Fields, NEW i \in DOMAIN G.items[g], NEW j \in DOMAIN G.items[g],
                        G.items[g][i].run = G.items[g][j].run, G.items[g][i].run # 0
                 PROVE  i = j
      BY DEF OnePerRun
    <3>1. CASE g # f
      BY <2>4, <3>1 DEF RunsKept, OnePerRun
    <3>2. CASE g = f /\ i # n /\ j # n
      BY ZenonT(60), <1>1, <2>5, <3>2 DEF RunsKept, OnePerRun
    <3>3. CASE g = f /\ (i = n \/ j = n)
      BY <2>5, <2>6, <3>3
    <3> QED  BY <3>1, <3>2, <3>3
  <2>8. RunsGive(G)
    <3>1. ASSUME NEW g \in Tags, NEW i \in DOMAIN G.items[g]
          PROVE  /\ G.items[g][i].run # 0 => G.items[g][i].source # 0
                 /\ G.items[g][i].source # 0 => G.items[g][i].value = TRUE
      <4>1. CASE g # f
        BY <2>4, <4>1, AnalysisIsField DEF RunsKept, RunsGive
      <4>2. CASE g = f /\ i # n
        BY <2>5, <4>2 DEF RunsKept, RunsGive
      <4>3. CASE g = f /\ i = n
        BY <1>2, <2>1, <2>5, <4>3
      <4> QED  BY <4>1, <4>2, <4>3
    <3>2. G.items[Analysis] = F.items[Analysis]
      BY <1>1, <2>4
    <3> QED  BY <2>2, <3>1, <3>2 DEF RunsKept, RunsGive
  <2>9. OrphansCovered(G)
    <3> SUFFICES ASSUME NEW g \in Fields, NEW i \in Active(G, g), Orphan(G, g, i)
                 PROVE  \E j \in Active(G, g) : G.items[g][j].run # 0 /\ ~ Orphan(G, g, j)
      BY DEF OrphansCovered
    <3>1. i \in DOMAIN F.items[g] /\ G.items[g][i] = F.items[g][i]
      <4>1. CASE g # f
        BY <2>4, <4>1 DEF Active
      <4>2. CASE g = f /\ i # n
        BY <2>5, <4>2 DEF Active
      <4>3. CASE g = f /\ i = n
        BY <1>1, <2>1, <2>2, <2>5, <4>3 DEF Orphan
      <4> QED  BY <4>1, <4>2, <4>3
    <3>2. i \in Active(F, g) /\ Orphan(F, g, i)
      BY <2>2, <3>1 DEF Active, Orphan
    <3>3. PICK j \in Active(F, g) : F.items[g][j].run # 0 /\ ~ Orphan(F, g, j)
      BY <3>2 DEF RunsKept, OrphansCovered
    <3>4. j \in DOMAIN G.items[g] /\ G.items[g][j] = F.items[g][j]
      BY <2>4, <2>5 DEF Active
    <3>5. j \in Active(G, g) /\ ~ Orphan(G, g, j)
      BY <2>2, <3>3, <3>4 DEF Active, Orphan
    <3> QED  BY <3>3, <3>4, <3>5
  <2> QED  BY <2>7, <2>8, <2>9 DEF RunsKept
<1>5. QED
  BY <1>3, <1>4

NoOrphans(F) == \A f \in Fields : \A i \in Active(F, f) : ~ Orphan(F, f, i)

(* withdraw leaves no label without its finding.                           *)
LEMMA RetireRuns ==
    ASSUME NEW F, WellFormed(F), RunsKept(F), NEW ids, ids \subseteq Ids(F),
           \A i : <<Analysis, i>> \in ids => F.items[Analysis][i].run # 0,
           NEW G, G = Retire(F, ids)
    PROVE  /\ RunsKept(G) /\ NoOrphans(G)
           /\ \A i : <<Analysis, i>> \in G.withdrawn => <<Analysis, i>> \in F.withdrawn \cup ids
<1> DEFINE retired == F.withdrawn \cup ids
<1>1. F \in Shape /\ Analysis \in Fields /\ Analysis \notin Tags
  BY AnalysisIsField, LedgerAssumption DEF WellFormed, Shape, Labels
<1>2. /\ G.items = F.items
      /\ G.withdrawn = retired \cup {x \in Ids(F) : /\ ItemAt(F, x).source # 0
                                                    /\ <<Analysis, ItemAt(F, x).source>> \in retired}
  BY <1>1 DEF Retire, Shape
<1> HIDE DEF retired
<1>3. \A i : <<Analysis, i>> \in G.withdrawn => <<Analysis, i>> \in retired
  <2> SUFFICES ASSUME NEW i, <<Analysis, i>> \in G.withdrawn, <<Analysis, i>> \notin retired
               PROVE  FALSE
    OBVIOUS
  <2>1. <<Analysis, i>> \in Ids(F) /\ ItemAt(F, <<Analysis, i>>).source # 0
    BY <1>2
  <2>2. i \in DOMAIN F.items[Analysis] /\ F.items[Analysis][i].source # 0
    BY <1>1, <2>1, IdsAre DEF ItemAt
  <2> QED  BY <1>1, <2>2, OrphansFit
<1>4. OnePerRun(G)
  BY <1>2 DEF RunsKept, OnePerRun
<1>5. RunsGive(G)
  <2>1. \A i \in DOMAIN F.items[Analysis] :
            <<Analysis, i>> \in G.withdrawn => F.items[Analysis][i].run # 0
    BY <1>3 DEF RunsKept, RunsGive, retired
  <2> QED  BY <1>2, <2>1 DEF RunsKept, RunsGive
<1>6. NoOrphans(G)
  <2> SUFFICES ASSUME NEW f \in Fields, NEW i \in Active(G, f), Orphan(G, f, i)
               PROVE  FALSE
    BY DEF NoOrphans
  <2>1. /\ i \in DOMAIN F.items[f] /\ <<f, i>> \notin G.withdrawn
        /\ F.items[f][i].source # 0 /\ <<Analysis, F.items[f][i].source>> \in G.withdrawn
    BY <1>2 DEF Active, Orphan
  <2>2. <<f, i>> \in Ids(F) /\ ItemAt(F, <<f, i>>) = F.items[f][i]
    BY <2>1, IdsAre DEF ItemAt
  <2>3. <<Analysis, ItemAt(F, <<f, i>>).source>> \in retired
    BY <1>3, <2>1, <2>2
  <2> QED  BY <1>2, <2>1, <2>2, <2>3
<1>7. OrphansCovered(G)
  BY <1>6 DEF NoOrphans, OrphansCovered
<1>8. QED
  BY <1>3, <1>4, <1>5, <1>6, <1>7 DEF RunsKept, retired

(* materialize_episode shows what resolve gives.                           *)
LEMMA MaterializeRuns ==
    ASSUME NEW F, WellFormed(F), RunsKept(F),
           NEW a \in Authors, Materializable(F, a), NEW G, G = Materialize(F, a), WellFormed(G)
    PROVE  RunsInv(G)
<1>1. F \in Shape
  BY DEF WellFormed, Shape
<1>2. /\ G.items = F.items /\ G.withdrawn = F.withdrawn
      /\ \A f \in Fields : G.shown[f] = Value(F, f, a)
  BY <1>1 DEF Materialize, Shape
<1>3. \A f \in Fields : Active(G, f) = Active(F, f)
  BY <1>2 DEF Active
<1>4. RunsKept(G)
  BY <1>2, SameRuns
<1>5. Shown(G)
  <2> SUFFICES ASSUME NEW f \in Fields, G.items[f] # <<>>
               PROVE  Resolvable(G, f, a) /\ G.shown[f] = Value(G, f, a)
    BY DEF Shown
  <2>1. Resolvable(F, f, a)
    BY DEF Materializable
  <2> QED  BY <1>2, <1>3, <2>1, Agreed
<1>6. RunsShown(G)
  <2> SUFFICES ASSUME NEW f \in Fields, Human(G, f) = {}, Active(G, f) # {}
               PROVE  G.shown[f] = Value(G, f, NoOne)
    BY DEF RunsShown
  <2>1. Value(G, f, a) = Value(G, f, NoOne)
    <3>1. Winner(G, f, a) = Winner(G, f, NoOne)
      BY BestWins
    <3> QED  BY <3>1 DEF Value
  <2>2. F.items[f] # <<>>
    <3>1. DOMAIN <<>> = {}
      OBVIOUS
    <3> QED  BY <1>3, <3>1 DEF Active
  <2>3. Value(G, f, a) = Value(F, f, a)
    BY <1>2, <1>3, <2>2, Agreed
  <2> QED  BY <1>2, <2>1, <2>3
<1>7. QED
  BY <1>4, <1>5, <1>6 DEF RunsInv

(* materialize_episode leaves a file in which whoever owns a field alone   *)
(* sees their value, whoever made the edit.                                *)
LEMMA MaterializeOwned ==
    ASSUME NEW F, WellFormed(F), HumanFindingsKept(F), RunsKept(F),
           NEW a \in Authors, Materializable(F, a), NEW G, G = Materialize(F, a)
    PROVE  LedgerInv(G) /\ G.items = F.items /\ G.withdrawn = F.withdrawn
<1>1. F \in Shape /\ a # NoOne
  BY LedgerAssumption DEF WellFormed, Shape
<1>2. /\ G.items = F.items /\ G.withdrawn = F.withdrawn
      /\ G.shown = [f \in Fields |-> Value(F, f, a)]
      /\ G = [F EXCEPT !.shown = G.shown]
  BY <1>1 DEF Materialize, Shape
<1>3. \A f \in Fields : G.shown[f] \in Values(f) /\ G.shown[f] \in Data
  <2> TAKE f \in Fields
  <2>1. Resolvable(F, f, a)
    BY DEF Materializable
  <2>2. Value(F, f, a) \in Values(f)
    BY <2>1, ValueTyped
  <2> QED  BY <1>2, <2>2, ValuesAreData
<1>4. G.shown \in [Fields -> Data]
  <2>1. G.shown = [f \in Fields |-> G.shown[f]]
    BY <1>2
  <2> QED  BY <2>1, <1>3
<1>5. G \in Shape
  BY <1>1, <1>2, <1>4 DEF Shape
<1>6. WellFormed(G)
  <2>1. Ids(G) = Ids(F)
    BY <1>2 DEF Ids
  <2>2. \A f \in Fields : \A i \in DOMAIN G.items[f] : Fits(G, f, i)
    BY FitsFollows, <1>2 DEF WellFormed
  <2> QED  BY <1>2, <1>3, <1>5, <2>1, <2>2 DEF WellFormed, Shape
<1>7. ASSUME NEW f \in Fields, NEW b \in Authors, HumanAuthors(G, f) = {b}
      PROVE  G.shown[f] = G.items[f][Last(Human(G, f))].value
  <2>1. Human(G, f) = Human(F, f) /\ HumanAuthors(F, f) = {b}
    <3>1. Human(G, f) = Human(F, f)
      BY <1>2 DEF Human, Active
    <3> QED  BY <3>1, <1>2, <1>7 DEF HumanAuthors
  <2>2. a = b /\ Human(F, f) # {}
    BY <1>1, <2>1 DEF Materializable, Resolvable, HumanAuthors
  <2>3. Scoped(F, f, a) = Human(F, f)
    BY <2>1, <2>2 DEF Scoped, HumanAuthors
  <2>4. /\ Winner(F, f, a) = Last(Human(F, f)) /\ Winner(F, f, a) # 0
        /\ F.items[f] # <<>>
    <3>1. Resolvable(F, f, a)
      BY DEF Materializable
    <3>2. /\ Winner(F, f, a) = Last(Scoped(F, f, a)) /\ Winner(F, f, a) \in Scoped(F, f, a)
      BY <2>2, <3>1, WinnerIs
    <3>3. Winner(F, f, a) \in DOMAIN F.items[f]
      BY <3>2 DEF Scoped, Human, Active
    <3>4. DOMAIN F.items[f] = 1 .. Len(F.items[f]) /\ Len(F.items[f]) \in Nat
      BY Places
    <3> QED  BY <2>3, <3>2, <3>3, <3>4
  <2>5. G.shown[f] = F.items[f][Last(Human(F, f))].value
    BY <1>2, <2>4 DEF Value
  <2> QED  BY <1>2, <2>1, <2>5
<1>8. HumanFindingsKept(G)
  BY <1>2 DEF HumanFindingsKept
<1>9. RunsInv(G)
  BY <1>6, MaterializeRuns
<1>10. QED
  BY <1>2, <1>6, <1>7, <1>8, <1>9 DEF LedgerInv, Owned

(* Writing episodes[key] and analysis[key] leaves the ledger as it is.     *)
LEMMA ShownOnly ==
    ASSUME NEW F, WellFormed(F), NEW s \in [Fields -> Data], \A f \in Fields : s[f] \in Values(f),
           NEW G, G = [F EXCEPT !.shown = s]
    PROVE  WellFormed(G) /\ G.items = F.items /\ G.withdrawn = F.withdrawn /\ G.shown = s
<1>1. F \in Shape
  BY DEF WellFormed, Shape
<1>2. G.items = F.items /\ G.withdrawn = F.withdrawn /\ G.shown = s /\ G \in Shape
  BY <1>1 DEF Shape
<1>3. Ids(G) = Ids(F)
  BY <1>2 DEF Ids
<1>4. \A f \in Fields : \A i \in DOMAIN G.items[f] : Fits(G, f, i)
  BY FitsFollows, <1>2 DEF WellFormed
<1>5. QED
  BY <1>2, <1>3, <1>4 DEF WellFormed, Shape

(* Appending contributions withdraws none.                                 *)
LEMMA GrownKeepsFindings ==
    ASSUME NEW F, WellFormed(F), HumanFindingsKept(F),
           NEW G, G.withdrawn = F.withdrawn, Extends(F, G)
    PROVE  HumanFindingsKept(G)
<1>1. \A i : <<Analysis, i>> \in F.withdrawn => i \in DOMAIN F.items[Analysis]
  BY IdsAre, AnalysisIsField DEF WellFormed
<1>2. \A i \in DOMAIN F.items[Analysis] : G.items[Analysis][i] = F.items[Analysis][i]
  BY AnalysisIsField DEF Extends
<1>3. QED
  BY <1>1, <1>2 DEF HumanFindingsKept

(* What withdraw retires beyond the named contributions is never a human   *)
(* value: it is derived from a tombstone, and those are of runs.           *)
LEMMA RetireSpares ==
    ASSUME NEW F, WellFormed(F), HumanFindingsKept(F), NEW ids, ids \subseteq Ids(F),
           \A i : <<Analysis, i>> \in ids => F.items[Analysis][i].origin # "human",
           NEW G, G = Retire(F, ids)
    PROVE  /\ HumanFindingsKept(G)
           /\ \A x \in G.withdrawn : ItemAt(F, x).origin = "human" => x \in F.withdrawn \cup ids
<1>1. /\ G.items = F.items
      /\ \A x \in G.withdrawn :
            \/ x \in F.withdrawn \cup ids
            \/ /\ x \in Ids(F) /\ ItemAt(F, x).source # 0
               /\ <<Analysis, ItemAt(F, x).source>> \in F.withdrawn \cup ids
  BY Retired
<1>2. ASSUME NEW x \in Ids(F), ItemAt(F, x).source # 0,
             <<Analysis, ItemAt(F, x).source>> \in F.withdrawn \cup ids
      PROVE  ItemAt(F, x).origin # "human"
  <2>1. x[1] \in Fields /\ x[2] \in DOMAIN F.items[x[1]] /\ ItemAt(F, x) = F.items[x[1]][x[2]]
    BY IdsAre DEF ItemAt
  <2>2. Fits(F, x[1], x[2])
    BY <2>1 DEF WellFormed
  <2>3. /\ ItemAt(F, x).source \in DOMAIN F.items[Analysis]
        /\ ItemAt(F, x).origin = F.items[Analysis][ItemAt(F, x).source].origin
    BY <2>1, <2>2, <1>2 DEF Fits
  <2> QED  BY <2>3, <1>2 DEF HumanFindingsKept
<1>3. \A x \in G.withdrawn : ItemAt(F, x).origin = "human" => x \in F.withdrawn \cup ids
  BY <1>1, <1>2
<1>4. ASSUME NEW i \in DOMAIN F.items[Analysis], F.items[Analysis][i].origin = "human",
             <<Analysis, i>> \in G.withdrawn
      PROVE  FALSE
  <2>1. ItemAt(F, <<Analysis, i>>) = F.items[Analysis][i]
    BY DEF ItemAt
  <2> QED  BY <2>1, <1>3, <1>4 DEF HumanFindingsKept
<1>5. QED
  BY <1>1, <1>3, <1>4 DEF HumanFindingsKept

-----------------------------------------------------------------------------
(* The steps *)

(* An edit or an application: record_changes, then materialize_episode. *)
LEMMA RecordedStep ==
    ASSUME LedgerInv(file),
           NEW previous, DOMAIN previous \subseteq Fields,
           \A f \in DOMAIN previous : previous[f] \in Values(f),
           NEW current, DOMAIN current \subseteq Fields,
           \A f \in DOMAIN current : current[f] \in Values(f),
           NEW author \in Authors, NEW origin \in {"human", "machine", "legacy-unknown"},
           NEW run \in Runs \cup {0}, origin = "machine" <=> run # 0,
           run # 0 => DOMAIN current \cap Tags = {},
           SaveMaterialized(RecordChanges(file, previous, current, author, origin, run), author)
    PROVE  LedgerInv(file') /\ Keeps(file, file')
<1> DEFINE G == RecordChanges(file, previous, current, author, origin, run)
<1>1. WellFormed(G) /\ Extends(file, G) /\ G.withdrawn = file.withdrawn /\ G.shown = file.shown
  BY Recorded DEF LedgerInv
<1>0. Adds(file, G, run)
  BY RecordedAdds DEF LedgerInv
<1> HIDE DEF G
<1>2. HumanFindingsKept(G) /\ RunsKept(G)
  BY <1>0, <1>1, GrownKeepsFindings, GrownRuns DEF LedgerInv, RunsInv
<1>3. Materializable(G, author) /\ file' = Materialize(G, author)
  BY DEF SaveMaterialized, G
<1>4. LedgerInv(file') /\ file'.items = G.items /\ file'.withdrawn = G.withdrawn
  BY <1>1, <1>2, <1>3, MaterializeOwned
<1>5. QED
  BY <1>1, <1>4 DEF Keeps, Extends

(* PUT episodes/{i}/labels.                                                *)
LEMMA SetLabelsStep ==
    ASSUME LedgerInv(file), NEW a \in Authors, NEW S \in SUBSET Labels,
           NEW origin \in {"human", "legacy-unknown"}, SetLabels(a, S, origin)
    PROVE  LedgerInv(file') /\ Keeps(file, file')
<1> DEFINE previous == [l \in ShownLabels |-> TRUE]
           current == [l \in ShownLabels \cup S |-> l \in S]
<1>1. ShownLabels \subseteq Labels
  BY DEF ShownLabels
<1>2. \A l \in Labels : l \in Fields /\ Values(l) = BOOLEAN
  BY AnalysisIsField DEF Values
<1>3. /\ DOMAIN previous \subseteq Fields /\ \A f \in DOMAIN previous : previous[f] \in Values(f)
      /\ DOMAIN current \subseteq Fields /\ \A f \in DOMAIN current : current[f] \in Values(f)
  <2>1. \A f \in ShownLabels : previous[f] = TRUE
    OBVIOUS
  <2>2. ASSUME NEW f \in ShownLabels \cup S PROVE current[f] = TRUE \/ current[f] = FALSE
    <3>1. CASE f \in S
      <4>1. (f \in S) = TRUE
        BY <3>1
      <4> QED  BY <4>1, Zenon
    <3>2. CASE f \notin S
      <4>1. (f \in S) = FALSE
        BY <3>2
      <4> QED  BY <4>1, Zenon
    <3> QED  BY <3>1, <3>2
  <2>3. DOMAIN previous = ShownLabels /\ DOMAIN current = ShownLabels \cup S
    OBVIOUS
  <2> HIDE DEF previous, current
  <2>4. \A f \in ShownLabels \cup S : current[f] \in BOOLEAN
    BY <2>2
  <2>5. DOMAIN previous \subseteq Fields /\ DOMAIN current \subseteq Fields
    BY <1>1, <1>2, <2>3
  <2>6. \A f \in ShownLabels : previous[f] \in Values(f)
    BY <1>1, <1>2, <2>1
  <2>7. \A f \in ShownLabels \cup S : current[f] \in Values(f)
    BY <1>1, <1>2, <2>4
  <2> QED  BY <2>3, <2>5, <2>6, <2>7
<1>4. SaveMaterialized(RecordChanges(file, previous, current, a, origin, 0), a)
  BY DEF SetLabels
<1> HIDE DEF previous, current
<1>5. QED
  BY <1>3, <1>4, RecordedStep

(* PUT episodes/{i}/analysis.                                              *)
LEMMA SetAnalysisStep ==
    ASSUME LedgerInv(file), NEW a \in Authors, NEW v \in Findings \cup {None},
           NEW origin \in {"human", "legacy-unknown"}, SetAnalysis(a, v, origin)
    PROVE  LedgerInv(file') /\ Keeps(file, file')
<1> DEFINE previous == [f \in {Analysis} |-> file.shown[f]]
           current == [f \in {Analysis} |-> v]
<1>1. Analysis \in Fields /\ Values(Analysis) = Findings \cup {None}
  BY AnalysisIsField, LedgerAssumption DEF Values
<1>2. /\ DOMAIN previous \subseteq Fields /\ \A f \in DOMAIN previous : previous[f] \in Values(f)
      /\ DOMAIN current \subseteq Fields /\ \A f \in DOMAIN current : current[f] \in Values(f)
  BY <1>1 DEF LedgerInv, WellFormed
<1>3. SaveMaterialized(RecordChanges(file, previous, current, a, origin, 0), a)
  BY DEF SetAnalysis
<1> HIDE DEF previous, current
<1>4. QED
  BY <1>2, <1>3, RecordedStep

(* apply_judge_result.                                                     *)
LEMMA ApplyStep ==
    ASSUME LedgerInv(file), NEW r \in Runs, NEW current, DOMAIN current \subseteq Fields,
           DOMAIN current \cap Tags = {},
           \A f \in DOMAIN current : current[f] \in Values(f), ApplyValues(r, current)
    PROVE  LedgerInv(file') /\ Keeps(file, file')
<1> DEFINE previous == [f \in DOMAIN current |-> file.shown[f]]
<1>1. DOMAIN previous \subseteq Fields /\ \A f \in DOMAIN previous : previous[f] \in Values(f)
  BY DEF LedgerInv, WellFormed
<1>2. Actor[r] \in Authors /\ r # 0
  BY LedgerAssumption
<1>3. SaveMaterialized(RecordChanges(file, previous, current, Actor[r], "machine", r), Actor[r])
  BY DEF ApplyValues
<1> HIDE DEF previous
<1>4. QED
  BY <1>1, <1>2, <1>3, RecordedStep

(* The finding that is promoted is a contribution that is in force. *)
LEMMA SourceExists ==
    ASSUME NEW F, WellFormed(F), HumanFindingsKept(F), RunsKept(F), NEW a \in Authors,
           Resolvable(F, Analysis, a), Value(F, Analysis, a) # None,
           NEW G, G = WithSource(F, a)
    PROVE  /\ WellFormed(G) /\ HumanFindingsKept(G) /\ RunsKept(G)
           /\ Extends(F, G) /\ G.withdrawn = F.withdrawn /\ G.shown = F.shown
           /\ Winner(G, Analysis, a) \in Active(G, Analysis)
<1>1. /\ Analysis \in Fields /\ a # NoOne /\ Absent(Analysis) = None
      /\ F.shown[Analysis] \in Values(Analysis) /\ F \in Shape
  BY AnalysisIsField, LedgerAssumption DEF Absent, WellFormed, Shape
<1>2. CASE F.items[Analysis] # <<>>
  <2>1. G = F /\ Winner(F, Analysis, a) # 0
    BY <1>1, <1>2 DEF WithSource, Value
  <2>2. Winner(F, Analysis, a) \in Active(F, Analysis) \cup {0}
    BY <1>1, WinnerIs
  <2> QED  BY <2>1, <2>2 DEF Extends
<1>3. CASE F.items[Analysis] = <<>>
  <2> DEFINE current == [f \in {Analysis} |-> F.shown[f]]
             new == [origin |-> "legacy-unknown", author |-> NoOne,
                     run |-> 0, value |-> F.shown[Analysis], source |-> 0]
  <2>1. G = RecordChanges(F, <<>>, current, a, "legacy-unknown", 0)
    BY <1>3 DEF WithSource
  <2>2. DOMAIN current \subseteq Fields /\ \A f \in DOMAIN current : current[f] \in Values(f)
    BY <1>1
  <2>3. DOMAIN <<>> = {}
    OBVIOUS
  <2>4. Analysis \in Changed(F, <<>>, current, 0) /\ LegacyItems(F, <<>>, Analysis) = <<>>
    BY <2>3 DEF Changed, LegacyItems
  <2>5. G.items[Analysis] = <<>> \o <<>> \o <<new>>
    BY <1>1, <1>3, <2>1, <2>4 DEF RecordChanges, Shape
  <2>6. /\ WellFormed(G) /\ Extends(F, G) /\ G.withdrawn = F.withdrawn /\ G.shown = F.shown
        /\ Adds(F, G, 0)
    <3> DEFINE previous == <<>>
               origin == "legacy-unknown"
               run == 0
    <3>1. DOMAIN previous \subseteq Fields /\ \A f \in DOMAIN previous : previous[f] \in Values(f)
      BY <2>3
    <3>2. /\ origin \in {"human", "machine", "legacy-unknown"} /\ run \in Runs \cup {0}
          /\ origin = "machine" <=> run # 0
      OBVIOUS
    <3>3. G = RecordChanges(F, previous, current, a, origin, run)
      BY <2>1
    <3>4. run = 0
      OBVIOUS
    <3> HIDE DEF current, previous, origin, run
    <3>5. WellFormed(G) /\ Extends(F, G) /\ G.withdrawn = F.withdrawn /\ G.shown = F.shown
      BY SMTT(30), <2>2, <3>1, <3>2, <3>3, Recorded
    <3>6. Adds(F, G, run)
      BY <2>2, <3>1, <3>2, <3>3, <3>4, RecordedAdds
    <3> QED  BY <3>4, <3>5, <3>6
  <2>7. G.items[Analysis] = <<new>>
    <3> HIDE DEF new
    <3>1. <<>> \in Seq({new}) /\ <<new>> \in Seq({new})
      OBVIOUS
    <3>2. <<>> \o <<>> = <<>> /\ <<>> \o <<new>> = <<new>>
      BY <3>1, ConcatEmptySeq
    <3> QED  BY <2>5, <3>2
  <2>8. DOMAIN G.items[Analysis] = {1} /\ G.items[Analysis][1].origin = "legacy-unknown"
    BY <2>7
  <2>9. <<Analysis, 1>> \notin G.withdrawn
    <3>1. <<Analysis, 1>> \notin Ids(F)
      BY <1>1, <1>3, <2>3, IdsAre
    <3>2. F.withdrawn \subseteq Ids(F)
      BY DEF WellFormed
    <3> QED  BY <2>6, <3>1, <3>2
  <2>10. Active(G, Analysis) = {1} /\ Human(G, Analysis) = {}
    BY <2>8, <2>9 DEF Active, Human
  <2>11. Resolvable(G, Analysis, a)
    BY <1>1, <2>10 DEF Resolvable, HumanAuthors
  <2>12. Winner(G, Analysis, a) = 1
    BY <1>1, <2>6, <2>10, <2>11, WinnerIs
  <2>13. HumanFindingsKept(G) /\ RunsKept(G)
    BY <2>6, GrownKeepsFindings, GrownRuns
  <2> QED  BY <2>6, <2>10, <2>12, <2>13
<1>4. QED
  BY <1>2, <1>3

(* POST labels/import-from-analysis.                                       *)
LEMMA PromoteStep ==
    ASSUME LedgerInv(file), NEW a \in Authors, NEW overwrite \in BOOLEAN, Promote(a, overwrite)
    PROVE  LedgerInv(file') /\ Keeps(file, file')
<1> DEFINE value == Value(file, Analysis, a)
           F == IF value = None THEN file ELSE WithSource(file, a)
           generated == IF value = None THEN {} ELSE {Tag[value]}
           removed == IF overwrite THEN StaleTags(F, a, generated) ELSE {}
           ids == {x \in Ids(F) : x[1] \in removed /\ ItemAt(F, x).origin # "human"}
           cleared == Retire(F, ids)
           src == Winner(F, Analysis, a)
           s == [f \in Fields |-> IF f \in removed THEN FALSE ELSE cleared.shown[f]]
           hidden == [cleared EXCEPT !.shown = s]
           derived == IF value = None THEN hidden ELSE Derive(hidden, src, Tag[value])
<1>1. Resolvable(file, Analysis, a) /\ SaveMaterialized(derived, a)
  BY DEF Promote
<1>2. /\ WellFormed(F) /\ HumanFindingsKept(F) /\ RunsKept(F)
      /\ Extends(file, F) /\ F.withdrawn = file.withdrawn
      /\ value # None => src \in Active(F, Analysis)
  <2>1. CASE value = None
    BY <2>1 DEF LedgerInv, RunsInv, Extends
  <2>2. CASE value # None
    <3>1. F = WithSource(file, a)
      BY <2>2
    <3> HIDE DEF F
    <3> QED  BY <1>1, <2>2, <3>1, SourceExists DEF LedgerInv, RunsInv
  <2> QED  BY <2>1, <2>2
<1>3. removed \subseteq Tags
  BY DEF StaleTags
<1>4. value # None => Tag[value] \in Tags
  <2>1. value \in Values(Analysis)
    BY <1>1, AnalysisIsField, ValueTyped DEF LedgerInv
  <2>2. Values(Analysis) = Findings \cup {None}
    BY LedgerAssumption DEF Values
  <2> HIDE DEF value
  <2> QED  BY <2>1, <2>2 DEF Tags
<1>5. ids \subseteq Ids(F) /\ \A i : <<Analysis, i>> \notin ids
  <2>1. ids \subseteq Ids(F) /\ \A x \in ids : x[1] \in removed
    OBVIOUS
  <2>2. Analysis \notin Tags
    BY LedgerAssumption DEF Labels
  <2> HIDE DEF ids, F, removed
  <2> QED  BY <1>3, <2>1, <2>2
<1> HIDE DEF value, F, removed, ids
<1>6. /\ WellFormed(cleared) /\ cleared.items = F.items
      /\ F.withdrawn \subseteq cleared.withdrawn /\ HumanFindingsKept(cleared)
      /\ RunsKept(cleared)
      /\ value # None => src \in Active(cleared, Analysis)
  <2> HIDE DEF cleared
  <2>1. cleared = Retire(F, ids)
    BY DEF cleared
  <2>2. /\ WellFormed(cleared) /\ cleared.items = F.items
        /\ F.withdrawn \cup ids \subseteq cleared.withdrawn
    BY <1>2, <1>5, <2>1, Retired
  <2>3. HumanFindingsKept(cleared)
    BY <1>2, <1>5, <2>1, RetireSpares
  <2>4. /\ RunsKept(cleared)
        /\ \A i : <<Analysis, i>> \in cleared.withdrawn => <<Analysis, i>> \in F.withdrawn
    BY <1>2, <1>5, <2>1, RetireRuns
  <2>5. value # None => src \in Active(cleared, Analysis)
    BY <1>2, <2>2, <2>4 DEF Active
  <2> QED  BY <2>2, <2>3, <2>4, <2>5
<1> HIDE DEF cleared
<1>7. s \in [Fields -> Data] /\ \A f \in Fields : s[f] \in Values(f)
  <2>1. ASSUME NEW f \in Fields PROVE s[f] \in Values(f) /\ s[f] \in Data
    <3>1. CASE f \in removed
      <4>1. f \in Labels
        BY <1>3, <3>1 DEF Labels
      <4>2. FALSE \in Values(f) /\ s[f] = FALSE
        BY <3>1, <4>1 DEF Values
      <4> QED  BY <4>2, ValuesAreData
    <3>2. CASE f \notin removed
      <4>1. cleared.shown[f] \in Values(f) /\ s[f] = cleared.shown[f]
        BY <1>6, <3>2 DEF WellFormed
      <4> QED  BY <4>1, ValuesAreData
    <3> QED  BY <3>1, <3>2
  <2> QED  BY <2>1
<1>8. WellFormed(hidden) /\ hidden.items = cleared.items /\ hidden.withdrawn = cleared.withdrawn
  <2> HIDE DEF s
  <2> QED  BY <1>6, <1>7, ShownOnly
<1> HIDE DEF hidden
<1>9. HumanFindingsKept(hidden) /\ RunsKept(hidden)
  <2>1. HumanFindingsKept(hidden)
    BY <1>6, <1>8 DEF HumanFindingsKept
  <2> QED  BY <1>6, <1>8, <2>1, SameRuns
<1>10. /\ WellFormed(derived) /\ Extends(hidden, derived)
       /\ derived.withdrawn = hidden.withdrawn /\ RunsKept(derived)
  <2>1. CASE value = None
    BY <1>8, <1>9, <2>1 DEF Extends
  <2>2. CASE value # None
    <3> HIDE DEF src
    <3>1. /\ Tag[value] \in Tags /\ src \in Active(hidden, Analysis)
          /\ src \in DOMAIN hidden.items[Analysis]
      BY <1>4, <1>6, <1>8, <2>2 DEF Active
    <3>2. derived = Derive(hidden, src, Tag[value])
      BY <2>2
    <3> HIDE DEF derived
    <3>3. WellFormed(derived) /\ Extends(hidden, derived) /\ derived.withdrawn = hidden.withdrawn
      BY <1>8, <3>1, <3>2, DeriveKeeps
    <3>4. RunsKept(derived)
      BY <1>8, <1>9, <3>1, <3>2, DeriveRuns
    <3> QED  BY <3>3, <3>4
  <2> QED  BY <2>1, <2>2
<1> HIDE DEF derived
<1>11. HumanFindingsKept(derived)
  BY <1>8, <1>9, <1>10, GrownKeepsFindings
<1>12. LedgerInv(file') /\ file'.items = derived.items /\ file'.withdrawn = derived.withdrawn
  <2>1. Materializable(derived, a) /\ file' = Materialize(derived, a)
    BY <1>1 DEF SaveMaterialized
  <2> QED  BY <1>10, <1>11, <2>1, MaterializeOwned
<1>13. Extends(file, file')
  <2>1. Extends(file, F) /\ Extends(F, derived)
    BY <1>2, <1>6, <1>8, <1>10 DEF Extends
  <2>2. Extends(file, derived)
    BY <2>1 DEF Extends
  <2> QED  BY <1>12, <2>2 DEF Extends
<1>14. file.withdrawn \subseteq file'.withdrawn
  BY <1>2, <1>6, <1>8, <1>10, <1>12
<1>15. QED
  BY <1>12, <1>13, <1>14 DEF Keeps

(* Tombstones of machine contributions do not change who has edited.       *)
LEMMA SameHuman ==
    ASSUME NEW F, NEW G, NEW f \in Fields, G.items = F.items,
           \A i \in DOMAIN F.items[f] : F.items[f][i].origin = "human" =>
               (<<f, i>> \in G.withdrawn <=> <<f, i>> \in F.withdrawn)
    PROVE  Human(G, f) = Human(F, f) /\ HumanAuthors(G, f) = HumanAuthors(F, f)
<1>1. Human(G, f) = Human(F, f)
  BY DEF Human, Active
<1>2. QED
  BY <1>1 DEF HumanAuthors

(* A label that a run gives is on. *)
LEMMA RunsTurnOn ==
    ASSUME NEW F, WellFormed(F), RunsGive(F), NEW f \in Tags, Human(F, f) = {},
           \E i \in Active(F, f) : F.items[f][i].run # 0
    PROVE  Value(F, f, NoOne) = TRUE /\ F.items[f] # <<>>
<1> DEFINE w == Winner(F, f, NoOne)
<1>1. f \in Fields
  BY AnalysisIsField
<1>2. w \in Active(F, f) /\ F.items[f][w].run # 0
  BY <1>1, RunsWin
<1>3. w \in DOMAIN F.items[f] /\ w # 0 /\ F.items[f] # <<>>
  <2>1. DOMAIN F.items[f] = 1 .. Len(F.items[f]) /\ DOMAIN <<>> = {}
    BY <1>1, Places
  <2> QED  BY <1>2, <2>1 DEF Active
<1>4. F.items[f][w].value = TRUE
  BY <1>2, <1>3 DEF RunsGive
<1>5. QED
  BY <1>3, <1>4 DEF Value

(* DELETE labels/options/{label}: nobody owns the label afterwards.        *)
LEMMA DeleteOptionStep ==
    ASSUME LedgerInv(file), NEW l \in Tags, DeleteOption(l)
    PROVE  LedgerInv(file') /\ Keeps(file, file')
<1> DEFINE ids == {x \in Ids(file) : x[1] = l}
           F == Retire(file, ids)
           s == [F.shown EXCEPT ![l] = FALSE]
<1>1. l \in Fields /\ l \in Labels /\ l # Analysis /\ WellFormed(file) /\ HumanFindingsKept(file)
  BY AnalysisIsField, LedgerAssumption DEF LedgerInv, Labels
<1>2. /\ ids \subseteq Ids(file)
      /\ \A i : <<l, i>> \in ids <=> i \in DOMAIN file.items[l]
      /\ \A g, i : g # l => <<g, i>> \notin ids
  BY <1>1, IdsAre
<1> HIDE DEF ids
<1>3. /\ WellFormed(F) /\ F.items = file.items /\ F.shown = file.shown
      /\ file.withdrawn \cup ids \subseteq F.withdrawn
  BY <1>1, <1>2, Retired
<1>4. /\ HumanFindingsKept(F)
      /\ \A x \in F.withdrawn : ItemAt(file, x).origin = "human" => x \in file.withdrawn \cup ids
  <2>1. \A i : <<Analysis, i>> \in ids => file.items[Analysis][i].origin # "human"
    BY <1>1, <1>2
  <2> HIDE DEF F
  <2>2. F = Retire(file, ids)
    BY DEF F
  <2> QED  BY <1>1, <1>2, <2>1, <2>2, RetireSpares
<1>5. file' = [F EXCEPT !.shown = s]
  BY DEF DeleteOption, ids
<1> HIDE DEF F
<1>6. s \in [Fields -> Data] /\ \A f \in Fields : s[f] \in Values(f)
  <2>1. F.shown \in [Fields -> Data] /\ \A f \in Fields : F.shown[f] \in Values(f)
    BY <1>3 DEF WellFormed
  <2>2. FALSE \in Values(l) /\ FALSE \in Data
    BY <1>1 DEF Values, Data
  <2> QED  BY <2>1, <2>2
<1>7. /\ WellFormed(file') /\ file'.items = file.items
      /\ file'.withdrawn = F.withdrawn /\ file'.shown = s
  <2> HIDE DEF s
  <2> QED  BY <1>3, <1>5, <1>6, ShownOnly
<1>8. ASSUME NEW f \in Fields, NEW b \in Authors, HumanAuthors(file', f) = {b}
      PROVE  file'.shown[f] = file'.items[f][Last(Human(file', f))].value
  <2>1. f # l
    <3> SUFFICES ASSUME f = l PROVE FALSE
      OBVIOUS
    <3>1. Human(file', l) = {}
      BY <1>2, <1>3, <1>7 DEF Human, Active
    <3>2. HumanAuthors(file', l) = {}
      BY <3>1 DEF HumanAuthors
    <3> QED  BY <1>8, <3>2
  <2>2. Human(file', f) = Human(file, f) /\ HumanAuthors(file', f) = HumanAuthors(file, f)
    <3>1. \A i : ItemAt(file, <<f, i>>) = file.items[f][i]
      BY DEF ItemAt
    <3>2. \A i \in DOMAIN file.items[f] : file.items[f][i].origin = "human" =>
              (<<f, i>> \in file'.withdrawn <=> <<f, i>> \in file.withdrawn)
      BY <1>2, <1>3, <1>4, <1>7, <2>1, <3>1
    <3> QED  BY <1>7, <3>2, SameHuman
  <2>3. file.shown[f] = file.items[f][Last(Human(file, f))].value
    BY <1>8, <2>2 DEF LedgerInv, Owned
  <2>4. s[f] = F.shown[f]
    <3>1. F.shown \in [Fields -> Data]
      BY <1>3 DEF WellFormed
    <3> QED  BY <2>1, <3>1
  <2> QED  BY <1>3, <1>7, <2>2, <2>3, <2>4
<1>9. HumanFindingsKept(file')
  BY <1>3, <1>4, <1>7 DEF HumanFindingsKept
<1>10. RunsInv(file) /\ RunsKept(file) /\ RunsGive(file)
  BY DEF LedgerInv, RunsInv, RunsKept
<1>11. RunsKept(F) /\ RunsKept(file') /\ RunsGive(file')
  <2>1. F = Retire(file, ids)
    BY DEF F
  <2>2. \A i : <<Analysis, i>> \notin ids
    BY <1>1, <1>2
  <2>3. RunsKept(F)
    BY <1>1, <1>2, <1>10, <2>1, <2>2, RetireRuns
  <2>4. F.items = file.items /\ file'.items = F.items /\ file'.withdrawn = F.withdrawn
    BY <1>3, <1>7
  <2>5. RunsKept(file')
    BY <2>3, <2>4, SameRuns
  <2> QED  BY <2>3, <2>5 DEF RunsKept
<1>12. Active(file', l) = {}
  BY <1>2, <1>3, <1>7 DEF Active
<1>13. ASSUME NEW f \in Fields, f # l
       PROVE  /\ Human(file', f) = Human(file, f) /\ Active(file', f) \subseteq Active(file, f)
              /\ file'.shown[f] = file.shown[f] /\ file'.items[f] = file.items[f]
              /\ \A k \in Active(file, f) : k \notin Active(file', f) => f \in Tags /\ Orphan(file, f, k)
  <2>1. \A i : ItemAt(file, <<f, i>>) = file.items[f][i]
    BY DEF ItemAt
  <2>2. \A i \in DOMAIN file.items[f] : file.items[f][i].origin = "human" =>
            (<<f, i>> \in file'.withdrawn <=> <<f, i>> \in file.withdrawn)
    BY <1>2, <1>3, <1>4, <1>7, <1>13, <2>1
  <2>3. Human(file', f) = Human(file, f)
    BY <1>7, <2>2, SameHuman
  <2>4. file'.shown[f] = file.shown[f]
    <3>1. F.shown \in [Fields -> Data]
      BY <1>3 DEF WellFormed
    <3> QED  BY <1>3, <1>7, <1>13, <3>1
  <2>5. ASSUME NEW k \in Active(file, f), k \notin Active(file', f)
        PROVE  f \in Tags /\ Orphan(file, f, k)
    <3>1. k \in DOMAIN file.items[f] /\ <<f, k>> \notin file.withdrawn /\ <<f, k>> \in F.withdrawn
      BY <1>7, <2>5 DEF Active
    <3>2. <<f, k>> \notin file.withdrawn \cup ids
      BY <1>2, <1>13, <3>1
    <3>3. F = Retire(file, ids)
      BY DEF F
    <3>4. /\ ItemAt(file, <<f, k>>).source # 0
          /\ <<Analysis, ItemAt(file, <<f, k>>).source>> \in file.withdrawn \cup ids
      <4> HIDE DEF F
      <4> QED  BY <1>1, <1>2, <3>1, <3>2, <3>3, Retired
    <3>5. /\ file.items[f][k].source # 0
          /\ <<Analysis, file.items[f][k].source>> \in file.withdrawn
      BY <1>1, <1>2, <2>1, <3>4
    <3> QED  BY <1>1, <3>1, <3>5, OrphansFit DEF Orphan
  <2>6. Active(file', f) \subseteq Active(file, f)
    BY <1>3, <1>7 DEF Active
  <2> QED  BY <1>7, <2>3, <2>4, <2>5, <2>6
<1>14. ASSUME NEW f \in Fields, f # l, Human(file, f) = {},
              \E i \in Active(file, f) : file.items[f][i].run # 0,
              Active(file', f) # Active(file, f)
       PROVE  /\ f \in Tags /\ Human(file', f) = {}
              /\ Value(file', f, NoOne) = TRUE /\ Value(file, f, NoOne) = TRUE
  <2>1. PICK k \in Active(file, f) : k \notin Active(file', f)
    BY <1>13, <1>14
  <2>2. f \in Tags /\ Orphan(file, f, k) /\ Human(file', f) = {}
    BY <1>13, <1>14, <2>1
  <2>3. PICK j \in Active(file, f) : file.items[f][j].run # 0 /\ ~ Orphan(file, f, j)
    BY <1>10, <2>2 DEF RunsKept, OrphansCovered
  <2>4. j \in Active(file', f) /\ file'.items[f][j].run # 0
    BY <1>13, <1>14, <2>3
  <2>5. Value(file', f, NoOne) = TRUE
    BY <1>7, <1>11, <2>2, <2>4, RunsTurnOn
  <2>6. Value(file, f, NoOne) = TRUE
    BY <1>1, <1>10, <1>14, <2>2, RunsTurnOn
  <2> QED  BY <2>2, <2>5, <2>6
<1>15. RunsShown(file')
  <2> SUFFICES ASSUME NEW f \in Fields, Human(file', f) = {},
                      NEW i \in Active(file', f), file'.items[f][i].run # 0
               PROVE  file'.shown[f] = Value(file', f, NoOne)
    BY DEF RunsShown
  <2>1. f # l
    BY <1>12
  <2>2. /\ Human(file, f) = {} /\ i \in Active(file, f) /\ file.items[f][i].run # 0
        /\ file'.shown[f] = file.shown[f] /\ file'.items[f] = file.items[f]
    BY <1>13, <2>1
  <2>3. file.shown[f] = Value(file, f, NoOne)
    BY <1>10, <2>2 DEF RunsInv, RunsShown
  <2>4. CASE Active(file', f) = Active(file, f)
    <3>1. file.items[f] # <<>>
      <4>1. DOMAIN <<>> = {}
        OBVIOUS
      <4> QED  BY <2>2, <4>1 DEF Active
    <3>2. Value(file', f, NoOne) = Value(file, f, NoOne)
      BY <1>1, <1>7, <2>2, <2>4, <3>1, Agreed
    <3> QED  BY <2>2, <2>3, <3>2
  <2>5. CASE Active(file', f) # Active(file, f)
    BY <1>14, <2>1, <2>2, <2>3, <2>5
  <2> QED  BY <2>4, <2>5
<1>16. Shown(file')
  <2> SUFFICES ASSUME NEW f \in Fields, file'.items[f] # <<>>, file'.shown[f] # Absent(f)
               PROVE  \E a \in Authors \cup {NoOne} :
                         Resolvable(file', f, a) /\ file'.shown[f] = Value(file', f, a)
    BY DEF Shown
  <2>1. f # l
    <3>1. F.shown \in [Fields -> Data]
      BY <1>3 DEF WellFormed
    <3>2. file'.shown[l] = FALSE
      BY <1>1, <1>7, <3>1
    <3> QED  BY <1>1, <3>2 DEF Absent
  <2>2. /\ Human(file', f) = Human(file, f) /\ file'.shown[f] = file.shown[f]
        /\ file'.items[f] = file.items[f]
    BY <1>13, <2>1
  <2>3. PICK a \in Authors \cup {NoOne} : Resolvable(file, f, a) /\ file.shown[f] = Value(file, f, a)
    BY <1>10, <2>2 DEF RunsInv, Shown
  <2>4. CASE Active(file', f) = Active(file, f)
    <3>1. Resolvable(file', f, a) /\ Value(file', f, a) = Value(file, f, a)
      BY <1>1, <1>7, <2>2, <2>3, <2>4, Agreed
    <3> QED  BY <2>2, <2>3, <3>1
  <2>5. CASE Human(file, f) # {}
    <3>1. Resolvable(file', f, a) /\ Value(file', f, a) = Value(file, f, a)
      BY <2>2, <2>3, <2>5, AgreedHuman
    <3> QED  BY <2>2, <2>3, <3>1
  <2>6. CASE Active(file', f) # Active(file, f) /\ Human(file, f) = {}
    <3>1. PICK k \in Active(file, f) : k \notin Active(file', f)
      BY <1>13, <2>1, <2>6
    <3>2. \E j \in Active(file, f) : file.items[f][j].run # 0
      BY <1>10, <1>13, <2>1, <3>1 DEF RunsKept, OrphansCovered
    <3>3. file.shown[f] = Value(file, f, NoOne)
      BY <1>10, <2>6, <3>2 DEF RunsInv, RunsShown
    <3>4. file'.shown[f] = Value(file', f, NoOne)
      BY <1>14, <2>1, <2>2, <2>6, <3>2, <3>3
    <3>5. Resolvable(file', f, NoOne)
      BY <2>2, <2>6 DEF Resolvable, HumanAuthors
    <3> QED  BY <3>4, <3>5
  <2> QED  BY <2>4, <2>5, <2>6
<1>17. RunsInv(file')
  BY <1>11, <1>15, <1>16 DEF RunsInv
<1>18. QED
  BY <1>3, <1>7, <1>8, <1>9, <1>17 DEF LedgerInv, Owned, Keeps, Extends

(* The parts of Plan. *)
Covering(F, R) == Retire(F, {x \in Ids(F) : ItemAt(F, x).run \in R})
Losing(F, A) == {f \in Fields :
    /\ <<f, Winner(F, f, NoOne)>> \in A.withdrawn \ F.withdrawn
    /\ Resolvable(F, f, NoOne) /\ Resolvable(A, f, NoOne)
    /\ Origin(F, f, NoOne) # "human"
    /\ \E v \in {F.shown[f], Value(F, f, NoOne), Value(A, f, NoOne)} : v # Absent(f)}
Blocked(F, A) == {f \in Losing(F, A) : Origin(A, f, NoOne) = "machine"}
Restored(F, A) == {f \in Losing(F, A) \cap Labels :
    Origin(A, f, NoOne) = "legacy-unknown" /\ Value(A, f, NoOne) # Absent(f)}
Lost(F, A) == Losing(F, A) \ (Blocked(F, A) \cup Restored(F, A))

(* Plan, field by field.                                                   *)
LEMMA PlanIs ==
    ASSUME NEW F, F \in Shape, NEW R, NEW A, A = Covering(F, R), NEW G, G = Plan(F, R)
    PROVE  /\ G.items = F.items
           /\ G.withdrawn = Tombstones(F, A, Blocked(F, A))
           /\ \A f \in Fields :
                 /\ f \in Lost(F, A) => G.shown[f] = Value(A, f, NoOne)
                 /\ f \notin Lost(F, A) => G.shown[f] = F.shown[f]
<1> DEFINE left == [f \in Fields |-> Value(A, f, NoOne)]
           losing == {f \in Fields :
               /\ <<f, Winner(F, f, NoOne)>> \in A.withdrawn \ F.withdrawn
               /\ Resolvable(F, f, NoOne) /\ Resolvable(A, f, NoOne)
               /\ Origin(F, f, NoOne) # "human"
               /\ \E v \in {F.shown[f], Value(F, f, NoOne), left[f]} : v # Absent(f)}
           blocked == {f \in losing : Origin(A, f, NoOne) = "machine"}
           restored == {f \in losing \cap Labels :
               Origin(A, f, NoOne) = "legacy-unknown" /\ left[f] # Absent(f)}
           T == Tombstones(F, A, blocked)
           s == [f \in Fields |-> IF f \in losing \ (blocked \cup restored)
                                  THEN left[f] ELSE F.shown[f]]
<1>1. G = [F EXCEPT !.withdrawn = T, !.shown = s]
  BY DEF Plan, Covering
<1>2. \A f \in Fields : left[f] = Value(A, f, NoOne)
  OBVIOUS
<1> HIDE DEF left
<1>3. losing = Losing(F, A)
  BY <1>2 DEF Losing
<1> HIDE DEF losing
<1>4. blocked = Blocked(F, A)
  BY <1>3 DEF Blocked
<1>5. restored = Restored(F, A)
  <2>1. \A f \in losing : f \in Fields
    BY <1>3 DEF Losing
  <2> QED  BY <1>2, <1>3, <2>1 DEF Restored
<1> HIDE DEF blocked, restored
<1>6. \A f \in Fields : s[f] = IF f \in Lost(F, A) THEN Value(A, f, NoOne) ELSE F.shown[f]
  BY <1>2, <1>3, <1>4, <1>5 DEF Lost
<1> HIDE DEF s
<1>7. T = Tombstones(F, A, Blocked(F, A))
  BY <1>4
<1> HIDE DEF T
<1>8. G.items = F.items /\ G.withdrawn = T /\ G.shown = s
  BY <1>1 DEF Shape
<1>9. QED
  BY <1>6, <1>7, <1>8

(* What a withdrawal covers: what the runs gave, and what was derived from *)
(* it or from an earlier tombstone; nothing that a person gave.            *)
LEMMA Covered ==
    ASSUME NEW F, WellFormed(F), HumanFindingsKept(F), NEW R \in SUBSET Runs,
           NEW A, A = Covering(F, R)
    PROVE  /\ WellFormed(A) /\ A.items = F.items /\ A.shown = F.shown
           /\ F.withdrawn \subseteq A.withdrawn
           /\ \A f \in Fields : \A i \in DOMAIN F.items[f] :
                 /\ F.items[f][i].run \in R => <<f, i>> \in A.withdrawn
                 /\ <<f, i>> \in A.withdrawn =>
                       \/ <<f, i>> \in F.withdrawn
                       \/ F.items[f][i].run \in R
                       \/ F.items[f][i].source # 0 /\ <<Analysis, F.items[f][i].source>> \in F.withdrawn
           /\ \A f \in Fields : Human(A, f) = Human(F, f) /\ HumanAuthors(A, f) = HumanAuthors(F, f)
           /\ RunsKept(F) => RunsKept(A) /\ NoOrphans(A)
<1> DEFINE ids == {x \in Ids(F) : ItemAt(F, x).run \in R}
<1>1. \A f, i : ItemAt(F, <<f, i>>) = F.items[f][i]
  BY DEF ItemAt
<1>2. /\ ids \subseteq Ids(F) /\ A = Retire(F, ids)
      /\ \A f \in Fields : \A i : <<f, i>> \in ids <=> i \in DOMAIN F.items[f] /\ F.items[f][i].run \in R
  BY <1>1, IdsAre DEF Covering
<1> HIDE DEF ids
<1>3. \A f \in Fields : \A i \in DOMAIN F.items[f] :
          F.items[f][i].run \in R => F.items[f][i].origin # "human" /\ F.items[f][i].run # 0
  <2> SUFFICES ASSUME NEW f \in Fields, NEW i \in DOMAIN F.items[f], F.items[f][i].run \in R
               PROVE  F.items[f][i].origin # "human" /\ F.items[f][i].run # 0
    OBVIOUS
  <2>1. Fits(F, f, i)
    BY DEF WellFormed
  <2>2. F.items[f][i].run # 0
    BY LedgerAssumption
  <2> QED  BY <2>1, <2>2 DEF Fits
<1>4. \A i : <<Analysis, i>> \in ids => /\ F.items[Analysis][i].origin # "human"
                                        /\ F.items[Analysis][i].run # 0
  BY <1>2, <1>3, AnalysisIsField
<1>5. /\ WellFormed(A) /\ A.items = F.items /\ A.shown = F.shown
      /\ F.withdrawn \cup ids \subseteq A.withdrawn
      /\ \A x \in A.withdrawn :
            \/ x \in F.withdrawn \cup ids
            \/ /\ x \in Ids(F) /\ ItemAt(F, x).source # 0
               /\ <<Analysis, ItemAt(F, x).source>> \in F.withdrawn \cup ids
  BY <1>2, Retired
<1>6. ASSUME NEW f \in Fields, NEW i \in DOMAIN F.items[f], <<f, i>> \in A.withdrawn,
             <<f, i>> \notin F.withdrawn, F.items[f][i].run \notin R
      PROVE  F.items[f][i].source # 0 /\ <<Analysis, F.items[f][i].source>> \in F.withdrawn
  <2>1. <<f, i>> \notin ids
    BY <1>2, <1>6
  <2>2. F.items[f][i].source # 0 /\ <<Analysis, F.items[f][i].source>> \in F.withdrawn \cup ids
    BY <1>1, <1>5, <1>6, <2>1
  <2>3. F.items[f][i].run = F.items[Analysis][F.items[f][i].source].run
    BY <2>2, OrphansFit
  <2> QED  BY <1>2, <1>6, <2>2, <2>3, AnalysisIsField
<1>7. \A x \in A.withdrawn : ItemAt(F, x).origin = "human" => x \in F.withdrawn \cup ids
  BY <1>2, <1>4, RetireSpares
<1>8. ASSUME NEW f \in Fields
      PROVE  Human(A, f) = Human(F, f) /\ HumanAuthors(A, f) = HumanAuthors(F, f)
  <2>1. \A i \in DOMAIN F.items[f] : F.items[f][i].origin = "human" =>
            (<<f, i>> \in A.withdrawn <=> <<f, i>> \in F.withdrawn)
    BY <1>1, <1>2, <1>3, <1>5, <1>7
  <2> QED  BY <1>5, <2>1, SameHuman
<1>9. RunsKept(F) => RunsKept(A) /\ NoOrphans(A)
  BY <1>2, <1>4, RetireRuns
<1>10. QED
  BY <1>2, <1>5, <1>6, <1>8, <1>9

(* What is withdrawn is what is covered, except in a blocked field. *)
LEMMA PlanWithdraws ==
    ASSUME NEW F, WellFormed(F), HumanFindingsKept(F), NEW R \in SUBSET Runs,
           NEW A, A = Covering(F, R), NEW G, G = Plan(F, R)
    PROVE  /\ G.items = F.items /\ A.items = F.items
           /\ F.withdrawn \subseteq G.withdrawn /\ G.withdrawn \subseteq A.withdrawn
           /\ \A f \in Fields :
                 /\ f \in Blocked(F, A) => Active(G, f) = Active(F, f)
                 /\ f \notin Blocked(F, A) => Active(G, f) = Active(A, f)
                 /\ Active(A, f) \subseteq Active(G, f) /\ Active(G, f) \subseteq Active(F, f)
                 /\ Human(G, f) = Human(F, f) /\ HumanAuthors(G, f) = HumanAuthors(F, f)
<1>1. /\ WellFormed(A) /\ A.items = F.items /\ F.withdrawn \subseteq A.withdrawn
      /\ \A f \in Fields : Human(A, f) = Human(F, f)
  BY Covered
<1>2. G.items = F.items /\ G.withdrawn = Tombstones(F, A, Blocked(F, A))
  BY PlanIs DEF WellFormed, Shape
<1>3. F.withdrawn \subseteq G.withdrawn /\ G.withdrawn \subseteq A.withdrawn
  BY <1>1, <1>2 DEF Tombstones
<1>4. ASSUME NEW f \in Fields
      PROVE  /\ f \in Blocked(F, A) => Active(G, f) = Active(F, f)
             /\ f \notin Blocked(F, A) => Active(G, f) = Active(A, f)
             /\ Active(A, f) \subseteq Active(G, f) /\ Active(G, f) \subseteq Active(F, f)
             /\ Human(G, f) = Human(F, f) /\ HumanAuthors(G, f) = HumanAuthors(F, f)
  <2>1. Active(A, f) \subseteq Active(G, f) /\ Active(G, f) \subseteq Active(F, f)
    BY <1>1, <1>2, <1>3 DEF Active
  <2>2. \A i : <<f, i>> \in G.withdrawn <=>
            <<f, i>> \in A.withdrawn /\ (<<f, i>> \in F.withdrawn \/ f \notin Blocked(F, A))
    BY <1>2 DEF Tombstones
  <2>3. /\ f \in Blocked(F, A) => Active(G, f) = Active(F, f)
        /\ f \notin Blocked(F, A) => Active(G, f) = Active(A, f)
    BY <1>1, <1>2, <2>2 DEF Active
  <2>4. Human(G, f) = Human(F, f)
    <3>1. Human(A, f) \subseteq Human(G, f) /\ Human(G, f) \subseteq Human(F, f)
      BY <1>1, <1>2, <2>1 DEF Human
    <3> QED  BY <1>1, <3>1
  <2>5. HumanAuthors(G, f) = HumanAuthors(F, f)
    BY <1>2, <2>4 DEF HumanAuthors
  <2> QED  BY <2>1, <2>3, <2>4, <2>5
<1>5. QED
  BY <1>1, <1>2, <1>3, <1>4

(* A withdrawal leaves an orphan only where another run holds the label,   *)
(* and shows what is left.                                                 *)
LEMMA PlanRuns ==
    ASSUME NEW F, LedgerInv(F), NEW R \in SUBSET Runs, NEW G, G = Plan(F, R), WellFormed(G)
    PROVE  RunsInv(G)
<1> DEFINE A == Covering(F, R)
<1>1. /\ WellFormed(F) /\ HumanFindingsKept(F) /\ F \in Shape
      /\ RunsKept(F) /\ RunsShown(F) /\ Shown(F)
  BY DEF LedgerInv, RunsInv, WellFormed, Shape
<1>2. A = Covering(F, R)
  OBVIOUS
<1> HIDE DEF A
<1>3. /\ WellFormed(A) /\ A.items = F.items /\ RunsKept(A) /\ NoOrphans(A)
      /\ \A f \in Fields : Human(A, f) = Human(F, f) /\ HumanAuthors(A, f) = HumanAuthors(F, f)
  BY <1>1, <1>2, Covered
<1>4. /\ G.items = F.items
      /\ F.withdrawn \subseteq G.withdrawn /\ G.withdrawn \subseteq A.withdrawn
      /\ \A f \in Fields :
            /\ f \in Blocked(F, A) => Active(G, f) = Active(F, f)
            /\ f \notin Blocked(F, A) => Active(G, f) = Active(A, f)
            /\ Active(A, f) \subseteq Active(G, f) /\ Active(G, f) \subseteq Active(F, f)
            /\ Human(G, f) = Human(F, f) /\ HumanAuthors(G, f) = HumanAuthors(F, f)
  BY <1>1, <1>2, PlanWithdraws
<1>5. \A f \in Fields :
          /\ f \in Lost(F, A) => G.shown[f] = Value(A, f, NoOne)
          /\ f \notin Lost(F, A) => G.shown[f] = F.shown[f]
  BY <1>1, <1>2, PlanIs
<1>6. \A f \in Losing(F, A) : Human(F, f) = {}
  <2> SUFFICES ASSUME NEW f \in Losing(F, A), Human(F, f) # {} PROVE FALSE
    OBVIOUS
  <2>1. f \in Fields /\ Origin(F, f, NoOne) # "human"
    BY DEF Losing
  <2>2. Winner(F, f, NoOne) \in Scoped(F, f, NoOne)
    BY <1>1, <2>1, WinnerIs
  <2>3. F.items[f][Winner(F, f, NoOne)].origin = "human" /\ Winner(F, f, NoOne) \in DOMAIN F.items[f]
    BY <2>2 DEF Scoped, Human, Active
  <2>4. Winner(F, f, NoOne) # 0
    BY <1>1, <2>1, <2>3, Places
  <2> QED  BY <2>1, <2>3, <2>4 DEF Origin
<1>7. RunsKept(G)
  <2>1. OnePerRun(G)
    BY <1>1, <1>4 DEF RunsKept, OnePerRun
  <2>2. RunsGive(G)
    BY <1>3, <1>4 DEF RunsKept, RunsGive
  <2>3. OrphansCovered(G)
    <3> SUFFICES ASSUME NEW f \in Fields, NEW i \in Active(G, f), Orphan(G, f, i)
                 PROVE  \E j \in Active(G, f) : G.items[f][j].run # 0 /\ ~ Orphan(G, f, j)
      BY DEF OrphansCovered
    <3>1. Orphan(A, f, i)
      BY <1>3, <1>4 DEF Orphan
    <3>2. f \in Blocked(F, A)
      BY <1>3, <1>4, <3>1 DEF NoOrphans
    <3>3. Origin(A, f, NoOne) = "machine" /\ Human(A, f) = {}
      BY <1>3, <1>6, <3>2 DEF Blocked
    <3>4. PICK j \in Active(A, f) : A.items[f][j].run # 0
      BY <1>3, <3>3, RunsWin
    <3>5. ~ Orphan(A, f, j)
      BY <1>3 DEF NoOrphans
    <3>6. ~ Orphan(G, f, j)
      BY <1>3, <1>4, <3>5 DEF Orphan
    <3> QED  BY <1>3, <1>4, <3>4, <3>6
  <2> QED  BY <2>1, <2>2, <2>3 DEF RunsKept
<1>8. \A f \in Fields : Human(F, f) = {} =>
          Resolvable(F, f, NoOne) /\ Resolvable(A, f, NoOne) /\ Resolvable(G, f, NoOne)
  BY <1>3, <1>4 DEF Resolvable, HumanAuthors
<1>9. \A f \in Fields : Active(F, f) # {} => G.items[f] # <<>>
  <2>1. DOMAIN <<>> = {}
    OBVIOUS
  <2> QED  BY <1>4, <2>1 DEF Active
<1>10. ASSUME NEW f \in Fields, Human(F, f) # {}, G.items[f] # <<>>
       PROVE  \/ G.shown[f] = Absent(f)
              \/ \E a \in Authors \cup {NoOne} : Resolvable(G, f, a) /\ G.shown[f] = Value(G, f, a)
  <2>1. G.shown[f] = F.shown[f] /\ G.items[f] = F.items[f] /\ Human(G, f) = Human(F, f)
    BY <1>4, <1>5, <1>6, <1>10 DEF Lost
  <2>2. CASE F.shown[f] = Absent(f)
    BY <2>1, <2>2
  <2>3. CASE F.shown[f] # Absent(f)
    <3>1. PICK a \in Authors \cup {NoOne} : Resolvable(F, f, a) /\ F.shown[f] = Value(F, f, a)
      BY <1>1, <1>10, <2>1, <2>3 DEF Shown
    <3>2. Resolvable(G, f, a) /\ Value(G, f, a) = Value(F, f, a)
      BY <1>10, <2>1, <3>1, AgreedHuman
    <3> QED  BY <2>1, <3>1, <3>2
  <2> QED  BY <2>2, <2>3
<1>11. ASSUME NEW f \in Fields, Human(F, f) = {}, G.items[f] # <<>>
       PROVE  /\ (\E i \in Active(G, f) : G.items[f][i].run # 0) => G.shown[f] = Value(G, f, NoOne)
              /\ G.shown[f] = Absent(f) \/ G.shown[f] = Value(G, f, NoOne)
  <2> DEFINE w == Winner(F, f, NoOne)
  <2>1. /\ G.items[f] = F.items[f] /\ A.items[f] = F.items[f]
        /\ Human(G, f) = {} /\ Human(A, f) = {}
    BY <1>3, <1>4, <1>11
  <2>2. /\ F.shown[f] = Absent(f) \/ F.shown[f] = Value(F, f, NoOne)
        /\ (\E i \in Active(F, f) : F.items[f][i].run # 0) => F.shown[f] = Value(F, f, NoOne)
    <3>1. \A a : Value(F, f, a) = Value(F, f, NoOne)
      <4> SUFFICES ASSUME NEW a PROVE Winner(F, f, a) = Winner(F, f, NoOne)
        BY DEF Value
      <4>1. CASE Active(F, f) = {}
        BY <1>11, <4>1 DEF Winner
      <4>2. CASE Active(F, f) # {}
        BY <1>1, <1>11, <4>2, BestWins
      <4> QED  BY <4>1, <4>2
    <3> QED  BY <1>1, <1>11, <2>1, <3>1 DEF Shown, RunsShown
  <2>3. f \notin Blocked(F, A) => Value(G, f, NoOne) = Value(A, f, NoOne)
    BY <1>3, <1>4, <1>11, <2>1, Agreed
  <2>4. CASE f \in Blocked(F, A)
    <3>1. G.shown[f] = F.shown[f] /\ Active(G, f) = Active(F, f)
      BY <1>4, <1>5, <2>4 DEF Lost
    <3>2. Value(G, f, NoOne) = Value(F, f, NoOne)
      BY <1>1, <1>11, <2>1, <3>1, Agreed
    <3> QED  BY <2>1, <2>2, <3>1, <3>2
  <2>5. CASE f \in Restored(F, A) /\ f \notin Blocked(F, A)
    <3>1. /\ f \in Labels /\ Absent(f) = FALSE /\ Origin(A, f, NoOne) = "legacy-unknown"
          /\ Value(A, f, NoOne) # FALSE /\ G.shown[f] = F.shown[f]
      BY <1>5, <2>5 DEF Restored, Lost, Absent
    <3>2. ~ \E i \in Active(G, f) : G.items[f][i].run # 0
      BY <1>3, <1>4, <2>1, <2>5, <3>1, RunsWin
    <3>3. F.shown[f] \in BOOLEAN /\ Value(A, f, NoOne) \in BOOLEAN
      <4>1. Values(f) = BOOLEAN
        BY <3>1 DEF Values
      <4>2. F.shown[f] \in Values(f) /\ Value(A, f, NoOne) \in Values(f)
        BY <1>1, <1>3, ValueTyped DEF WellFormed
      <4> QED  BY <4>1, <4>2
    <3>4. F.shown[f] = FALSE \/ F.shown[f] = Value(A, f, NoOne)
      BY <3>1, <3>3
    <3> QED  BY <2>3, <2>5, <3>1, <3>2, <3>4
  <2>6. CASE f \in Lost(F, A)
    BY <1>5, <2>3, <2>6 DEF Lost
  <2>7. CASE f \notin Losing(F, A)
    <3>1. /\ G.shown[f] = F.shown[f] /\ f \notin Blocked(F, A)
          /\ Active(G, f) = Active(A, f) /\ Active(G, f) \subseteq Active(F, f)
      BY <1>4, <1>5, <2>7 DEF Lost, Blocked
    <3>2. CASE Active(F, f) = {}
      <4>1. Active(G, f) = Active(F, f)
        BY <3>1, <3>2
      <4>2. Value(G, f, NoOne) = Value(F, f, NoOne)
        BY <1>1, <1>11, <2>1, <4>1, Agreed
      <4> QED  BY <2>1, <2>2, <3>1, <4>1, <4>2
    <3>3. CASE Active(F, f) # {} /\ w \in Active(G, f)
      <4>1. Winner(G, f, NoOne) = w
        BY <1>1, <1>11, <2>1, <3>1, <3>3, WinnerKept
      <4>2. Value(G, f, NoOne) = Value(F, f, NoOne)
        BY <1>11, <2>1, <4>1 DEF Value
      <4> QED  BY <2>1, <2>2, <3>1, <4>2
    <3>4. CASE Active(F, f) # {} /\ w \notin Active(G, f)
      <4>1. w \in Active(F, f)
        BY <1>1, <1>11, <3>4, BestWins
      <4>2. <<f, w>> \in A.withdrawn \ F.withdrawn
        BY <2>1, <3>1, <3>4, <4>1 DEF Active
      <4>3. Origin(F, f, NoOne) # "human"
        <5>1. F.items[f][w].origin # "human"
          BY <1>11, <4>1 DEF Human
        <5> QED  BY <5>1 DEF Origin
      <4>4. F.shown[f] = Absent(f) /\ Value(A, f, NoOne) = Absent(f)
        BY <1>8, <1>11, <2>7, <4>2, <4>3 DEF Losing
      <4> QED  BY <2>3, <3>1, <4>4
    <3> QED  BY <3>2, <3>3, <3>4
  <2> QED  BY <2>4, <2>5, <2>6, <2>7 DEF Lost
<1>12. RunsShown(G)
  <2> SUFFICES ASSUME NEW f \in Fields, Human(G, f) = {},
                      NEW i \in Active(G, f), G.items[f][i].run # 0
               PROVE  G.shown[f] = Value(G, f, NoOne)
    BY DEF RunsShown
  <2>1. Human(F, f) = {} /\ G.items[f] # <<>>
    BY <1>4, <1>9
  <2> QED  BY <1>11, <2>1
<1>13. Shown(G)
  <2> SUFFICES ASSUME NEW f \in Fields, G.items[f] # <<>>, G.shown[f] # Absent(f)
               PROVE  \E a \in Authors \cup {NoOne} :
                         Resolvable(G, f, a) /\ G.shown[f] = Value(G, f, a)
    BY DEF Shown
  <2>1. CASE Human(F, f) # {}
    BY <1>10, <2>1
  <2>2. CASE Human(F, f) = {}
    BY <1>8, <1>11, <2>2
  <2> QED  BY <2>1, <2>2
<1>14. QED
  BY <1>7, <1>12, <1>13 DEF RunsInv

(* A withdrawal takes contributions of runs only, and rewrites only fields *)
(* whose visible value came from one of them.                              *)
LEMMA WithdrawStep ==
    ASSUME LedgerInv(file), NEW R \in SUBSET Runs, Withdraw(R)
    PROVE  LedgerInv(file') /\ Keeps(file, file')
<1> DEFINE ids == {x \in Ids(file) : ItemAt(file, x).run \in R}
           after == Retire(file, ids)
           covered == after.withdrawn \ file.withdrawn
           left == [f \in Fields |-> Value(after, f, NoOne)]
           losing == {f \in Fields :
               /\ <<f, Winner(file, f, NoOne)>> \in covered
               /\ Resolvable(file, f, NoOne) /\ Resolvable(after, f, NoOne)
               /\ Origin(file, f, NoOne) # "human"
               /\ \E v \in {file.shown[f], Value(file, f, NoOne), left[f]} : v # Absent(f)}
           blocked == {f \in losing : Origin(after, f, NoOne) = "machine"}
           restored == {f \in losing \cap Labels :
               Origin(after, f, NoOne) = "legacy-unknown" /\ left[f] # Absent(f)}
           T == Tombstones(file, after, blocked)
           lost == losing \ (blocked \cup restored)
           s == [f \in Fields |-> IF f \in lost THEN left[f] ELSE file.shown[f]]
<1>1. WellFormed(file) /\ HumanFindingsKept(file) /\ file \in Shape
  BY DEF LedgerInv, WellFormed, Shape
<1>2. ids \subseteq Ids(file) /\ \A x \in ids : ItemAt(file, x).origin # "human"
  <2>1. ASSUME NEW x \in ids PROVE ItemAt(file, x).origin # "human"
    <3>1. /\ x[1] \in Fields /\ x[2] \in DOMAIN file.items[x[1]]
          /\ ItemAt(file, x) = file.items[x[1]][x[2]] /\ ItemAt(file, x).run \in Runs
      BY IdsAre DEF ItemAt
    <3>2. Fits(file, x[1], x[2])
      BY <1>1, <3>1 DEF WellFormed
    <3>3. ItemAt(file, x).run # 0
      BY <3>1, LedgerAssumption
    <3> QED  BY <3>1, <3>2, <3>3 DEF Fits
  <2> QED  BY <2>1
<1> HIDE DEF ids
<1>3. /\ WellFormed(after) /\ after.items = file.items
      /\ file.withdrawn \subseteq after.withdrawn /\ HumanFindingsKept(after)
      /\ \A x \in after.withdrawn : ItemAt(file, x).origin = "human" => x \in file.withdrawn
  <2> HIDE DEF after
  <2>1. after = Retire(file, ids)
    BY DEF after
  <2>2. \A i : <<Analysis, i>> \in ids => file.items[Analysis][i].origin # "human"
    <3>1. \A i : ItemAt(file, <<Analysis, i>>) = file.items[Analysis][i]
      BY DEF ItemAt
    <3> QED  BY <1>2, <3>1
  <2>3. /\ HumanFindingsKept(after)
        /\ \A x \in after.withdrawn : ItemAt(file, x).origin = "human" => x \in file.withdrawn \cup ids
    BY <1>1, <1>2, <2>1, <2>2, RetireSpares
  <2>4. /\ WellFormed(after) /\ after.items = file.items
        /\ file.withdrawn \cup ids \subseteq after.withdrawn
    BY <1>1, <1>2, <2>1, Retired
  <2> QED  BY <1>2, <2>3, <2>4
<1>4. file' = [file EXCEPT !.withdrawn = T, !.shown = s]
  BY <1>1 DEF Withdraw, Plan, ids, Shape
<1>5. file.withdrawn \subseteq T /\ T \subseteq after.withdrawn
  BY <1>3 DEF Tombstones
<1>6. \A f \in lost : f \in Fields /\ Origin(file, f, NoOne) # "human"
  OBVIOUS
<1>7. \A f \in Fields : left[f] \in Values(f) /\ left[f] \in Data
  <2> TAKE f \in Fields
  <2>1. Value(after, f, NoOne) \in Values(f)
    BY <1>3, ValueTyped
  <2> QED  BY <2>1, ValuesAreData
<1> HIDE DEF after, covered, left, losing, blocked, restored, T, lost
<1>8. s \in [Fields -> Data] /\ \A f \in Fields : s[f] \in Values(f)
  <2>1. ASSUME NEW f \in Fields PROVE s[f] \in Values(f) /\ s[f] \in Data
    <3>1. file.shown[f] \in Values(f)
      BY <1>1 DEF WellFormed
    <3> QED  BY <1>7, <3>1, ValuesAreData
  <2> QED  BY <2>1
<1>9. \A f \in Fields : f \notin lost => s[f] = file.shown[f]
  OBVIOUS
<1> HIDE DEF s
<1>10. /\ file'.items = file.items /\ file'.withdrawn = T /\ file'.shown = s
       /\ file' = [file EXCEPT !.withdrawn = T, !.shown = s]
  BY <1>1, <1>4 DEF Shape
<1>11. WellFormed(file')
  <2>1. after.withdrawn \subseteq Ids(after) /\ after.withdrawn \subseteq Fields \X Nat
    BY <1>3 DEF WellFormed
  <2>2. Ids(after) = Ids(file) /\ Ids(file') = Ids(file)
    BY <1>3, <1>10 DEF Ids
  <2>3. file' \in Shape
    BY <1>1, <1>5, <1>8, <1>10, <2>1 DEF Shape
  <2>4. \A f \in Fields : \A i \in DOMAIN file'.items[f] : Fits(file', f, i)
    BY FitsFollows, <1>1, <1>10 DEF WellFormed
  <2> QED  BY <1>5, <1>8, <1>10, <2>1, <2>2, <2>3, <2>4 DEF WellFormed, Shape
<1>12. HumanFindingsKept(file')
  BY <1>3, <1>5, <1>10 DEF HumanFindingsKept
<1>13. ASSUME NEW f \in Fields, NEW b \in Authors, HumanAuthors(file', f) = {b}
       PROVE  file'.shown[f] = file'.items[f][Last(Human(file', f))].value
  <2>1. Human(file', f) = Human(file, f) /\ HumanAuthors(file', f) = HumanAuthors(file, f)
    <3>1. \A i : ItemAt(file, <<f, i>>) = file.items[f][i]
      BY DEF ItemAt
    <3>2. \A i \in DOMAIN file.items[f] : file.items[f][i].origin = "human" =>
              (<<f, i>> \in file'.withdrawn <=> <<f, i>> \in file.withdrawn)
      BY <1>3, <1>5, <1>10, <3>1
    <3> QED  BY ZenonT(60), <1>10, <3>2, SameHuman
  <2>2. file.shown[f] = file.items[f][Last(Human(file, f))].value
    BY <1>13, <2>1 DEF LedgerInv, Owned
  <2>3. Origin(file, f, NoOne) = "human"
    <3>1. Human(file, f) # {}
      BY <1>13, <2>1 DEF HumanAuthors
    <3>2. Winner(file, f, NoOne) \in Scoped(file, f, NoOne) /\ Winner(file, f, NoOne) # 0
      BY <1>1, <3>1, WinnerIs DEF Human
    <3> QED  BY <3>2 DEF Origin, Scoped, Human
  <2>4. s[f] = file.shown[f]
    BY <1>6, <1>9, <2>3
  <2> QED  BY <1>10, <2>1, <2>2, <2>4
<1>14. RunsInv(file')
  BY <1>11, PlanRuns DEF Withdraw
<1>15. QED
  BY <1>5, <1>10, <1>11, <1>12, <1>13, <1>14 DEF LedgerInv, Owned, Keeps, Extends

-----------------------------------------------------------------------------
(* A file from before contributions were tracked.                          *)
LEMMA LedgerInit == Init => LedgerInv(file)
<1> SUFFICES ASSUME Init PROVE LedgerInv(file)
  OBVIOUS
<1>1. PICK legacy \in SUBSET Labels, v \in Findings \cup {None} :
          file = [items |-> [f \in Fields |-> <<>>], withdrawn |-> {},
                  shown |-> [f \in Fields |-> IF f = Analysis THEN v ELSE f \in legacy]]
  BY DEF Init
<1>2. /\ file.items = [f \in Fields |-> <<>>] /\ file.withdrawn = {}
      /\ file.shown = [f \in Fields |-> IF f = Analysis THEN v ELSE f \in legacy]
      /\ file = [items |-> file.items, withdrawn |-> file.withdrawn, shown |-> file.shown]
  BY <1>1
<1>3. \A f \in Fields : file.items[f] = <<>> /\ DOMAIN file.items[f] = {}
  BY <1>2
<1>4. ASSUME NEW f \in Fields PROVE file.shown[f] \in Values(f)
  <2>1. CASE f = Analysis
    BY <1>2, <2>1, LedgerAssumption DEF Values
  <2>2. CASE f # Analysis /\ f \in legacy
    <3>1. (f \in legacy) = TRUE
      BY <2>2
    <3>2. file.shown[f] = TRUE
      BY <1>2, <2>2, <3>1, Zenon
    <3> QED  BY <2>2, <3>2 DEF Values, Fields
  <2>3. CASE f # Analysis /\ f \notin legacy
    <3>1. (f \in legacy) = FALSE
      BY <2>3
    <3>2. file.shown[f] = FALSE
      BY <1>2, <2>3, <3>1, Zenon
    <3> QED  BY <2>3, <3>2 DEF Values, Fields
  <2> QED  BY <2>1, <2>2, <2>3
<1>5. /\ file.items \in [Fields -> Seq(Item)] /\ file.shown \in [Fields -> Data]
      /\ file.withdrawn \in SUBSET (Fields \X Nat)
  <2>1. \A f \in Fields : file.items[f] \in Seq(Item)
    <3>1. <<>> \in Seq(Item)
      BY EmptySeq
    <3> QED  BY <1>3, <3>1
  <2>2. \A f \in Fields : file.shown[f] \in Data
    BY <1>4, ValuesAreData
  <2>3. file.items = [f \in Fields |-> file.items[f]] /\ file.shown = [f \in Fields |-> file.shown[f]]
    BY <1>2
  <2>4. file.withdrawn \in SUBSET (Fields \X Nat)
    BY <1>2
  <2> QED  BY <2>1, <2>2, <2>3, <2>4
<1>6. WellFormed(file)
  BY <1>2, <1>3, <1>4, <1>5 DEF WellFormed
<1>7. HumanFindingsKept(file)
  BY <1>3, AnalysisIsField DEF HumanFindingsKept
<1>8. Owned(file)
  <2>1. \A f \in Fields : HumanAuthors(file, f) = {}
    BY <1>3 DEF HumanAuthors, Human, Active
  <2> QED  BY <2>1 DEF Owned
<1>9. RunsInv(file)
  <2>1. \A f \in Fields : Active(file, f) = {}
    BY <1>3 DEF Active
  <2>2. \A f \in Tags : f \in Fields
    BY AnalysisIsField
  <2>3. OnePerRun(file) /\ RunsGive(file) /\ OrphansCovered(file)
    BY <1>3, <2>1, <2>2, AnalysisIsField DEF OnePerRun, RunsGive, OrphansCovered
  <2>4. RunsShown(file) /\ Shown(file)
    BY <1>3, <2>1 DEF RunsShown, Shown
  <2> QED  BY <2>3, <2>4 DEF RunsInv, RunsKept
<1>10. QED
  BY <1>6, <1>7, <1>8, <1>9 DEF LedgerInv

(* Every operation.                                                        *)
LEMMA LedgerNext == LedgerInv(file) /\ Next => LedgerInv(file') /\ Keeps(file, file')
<1> SUFFICES ASSUME LedgerInv(file), Next PROVE LedgerInv(file') /\ Keeps(file, file')
  OBVIOUS
<1>1. ASSUME NEW a \in Authors, NEW origin \in {"human", "legacy-unknown"},
             NEW S \in SUBSET Labels, SetLabels(a, S, origin)
      PROVE  LedgerInv(file') /\ Keeps(file, file')
  BY <1>1, SetLabelsStep
<1>2. ASSUME NEW a \in Authors, NEW origin \in {"human", "legacy-unknown"},
             NEW v \in Findings \cup {None}, SetAnalysis(a, v, origin)
      PROVE  LedgerInv(file') /\ Keeps(file, file')
  BY <1>2, SetAnalysisStep
<1>3. ASSUME NEW r \in Judges, NEW outcome \in Outcomes, ApplyOutcome(r, outcome)
      PROVE  LedgerInv(file') /\ Keeps(file, file')
  <2> DEFINE current == [l \in Outcomes |-> l = outcome]
  <2>1. r \in Runs /\ Outcomes \subseteq Fields /\ Outcomes \cap Tags = {}
    BY LedgerAssumption, AnalysisIsField DEF Labels
  <2>2. DOMAIN current \subseteq Fields /\ DOMAIN current \cap Tags = {} /\ \A f \in DOMAIN current : current[f] \in Values(f)
    <3>1. ASSUME NEW f \in Outcomes PROVE current[f] = TRUE \/ current[f] = FALSE
      <4>1. CASE f = outcome
        <5>1. (f = outcome) = TRUE
          BY <4>1
        <5> QED  BY <5>1, Zenon
      <4>2. CASE f # outcome
        <5>1. (f = outcome) = FALSE
          BY <4>2
        <5> QED  BY <5>1, Zenon
      <4> QED  BY <4>1, <4>2
    <3>2. DOMAIN current = Outcomes
      OBVIOUS
    <3>3. \A f \in Outcomes : Values(f) = BOOLEAN
      BY DEF Values, Labels
    <3> HIDE DEF current
    <3> QED  BY <2>1, <3>1, <3>2, <3>3
  <2>3. ApplyValues(r, current)
    BY <1>3 DEF ApplyOutcome
  <2> HIDE DEF current
  <2> QED  BY <2>1, <2>2, <2>3, ApplyStep
<1>4. ASSUME NEW r \in Runs \ Judges, NEW v \in Findings, ApplyFindings(r, v)
      PROVE  LedgerInv(file') /\ Keeps(file, file')
  <2> DEFINE current == [f \in {Analysis} |-> v]
  <2>1. /\ DOMAIN current \subseteq Fields /\ DOMAIN current \cap Tags = {}
        /\ \A f \in DOMAIN current : current[f] \in Values(f)
    BY AnalysisIsField, LedgerAssumption DEF Values, Labels
  <2>2. ApplyValues(r, current)
    BY <1>4 DEF ApplyFindings
  <2> HIDE DEF current
  <2> QED  BY <2>1, <2>2, ApplyStep
<1>5. ASSUME NEW a \in Authors, NEW overwrite \in BOOLEAN, Promote(a, overwrite)
      PROVE  LedgerInv(file') /\ Keeps(file, file')
  BY <1>5, PromoteStep
<1>6. ASSUME NEW l \in Tags, DeleteOption(l)
      PROVE  LedgerInv(file') /\ Keeps(file, file')
  BY <1>6, DeleteOptionStep
<1>7. ASSUME NEW R \in SUBSET Runs, Withdraw(R)
      PROVE  LedgerInv(file') /\ Keeps(file, file')
  BY <1>7, WithdrawStep
<1>8. QED
  BY <1>1, <1>2, <1>3, <1>4, <1>5, <1>6, <1>7 DEF Next

(* The invariant holds of every file that the operations lead to.          *)
LEMMA LedgerInvariant == Spec => []LedgerInv(file)
<1>1. LedgerInv(file) /\ UNCHANGED file => LedgerInv(file)'
  OBVIOUS
<1>2. LedgerInv(file) /\ [Next]_file => LedgerInv(file)'
  BY LedgerNext, <1>1
<1>3. QED
  BY LedgerInit, <1>2, PTL DEF Spec

-----------------------------------------------------------------------------
(* A file stays well formed: the references of the ledger are to           *)
(* contributions that exist, and a derived contribution is owned like its  *)
(* source (ContributionLedger.validate_references, validate_origin).       *)
THEOREM LedgerTypeTheorem == Spec => []TypeOK
<1>1. LedgerInv(file) => TypeOK
  BY DEF LedgerInv, TypeOK
<1>2. QED
  BY LedgerInvariant, <1>1, PTL

(* Whoever has edited a field alone sees what they said last, with any     *)
(* number of other people, runs, promotions and withdrawals.               *)
THEOREM OwnedTheorem == Spec => []OwnedValuesShown
<1>1. LedgerInv(file) => OwnedValuesShown
  BY DEF LedgerInv, Owned, OwnedValuesShown
<1>2. QED
  BY LedgerInvariant, <1>1, PTL

(* Where nobody has edited, the latest run in force is shown, in whatever  *)
(* order runs were applied, came back and were withdrawn: resolve orders   *)
(* them by run and each run gives a field one value.                       *)
THEOREM LatestRunTheorem == Spec => []LatestRunShown
<1>1. LedgerInv(file) => LatestRunShown
  <2> SUFFICES ASSUME LedgerInv(file), NEW f \in Fields, NEW i \in Active(file, f),
                      Human(file, f) = {}, file.items[f][i].run # 0,
                      \A j \in Active(file, f) : file.items[f][j].run <= file.items[f][i].run
               PROVE  file.shown[f] = file.items[f][i].value
    BY DEF LatestRunShown
  <2> DEFINE w == Winner(file, f, NoOne)
  <2>1. /\ WellFormed(file) /\ OnePerRun(file)
        /\ file.shown[f] = Value(file, f, NoOne)
    BY DEF LedgerInv, RunsInv, RunsKept, RunsShown
  <2>2. w \in Active(file, f) /\ Outranks(file, f, w, i)
    BY <2>1, BestWins
  <2>3. /\ i \in DOMAIN file.items[f] /\ w \in DOMAIN file.items[f] /\ w # 0
        /\ file.items[f][i].run \in Nat /\ file.items[f][w].run \in Nat
        /\ file.items[f] # <<>>
    <3>1. /\ DOMAIN file.items[f] = 1 .. Len(file.items[f])
          /\ \A k \in DOMAIN file.items[f] : file.items[f][k] \in Item
      BY <2>1, Places
    <3>2. i \in DOMAIN file.items[f] /\ w \in DOMAIN file.items[f]
      BY <2>2 DEF Active
    <3>3. file.items[f][i].run \in Nat /\ file.items[f][w].run \in Nat
      BY <3>1, <3>2, RunsAreNat
    <3>4. DOMAIN <<>> = {}
      OBVIOUS
    <3> QED  BY <3>1, <3>2, <3>3, <3>4
  <2> HIDE DEF w
  <2>4. file.items[f][w].run = file.items[f][i].run
    BY <2>2, <2>3 DEF Outranks
  <2>5. w = i
    BY <2>1, <2>3, <2>4 DEF OnePerRun
  <2> QED  BY <2>1, <2>3, <2>5 DEF Value, w
<1>2. QED
  BY LedgerInvariant, <1>1, PTL

(* What is visible is what resolve gives somebody: no withdrawn, retired   *)
(* or overruled value stays on.                                            *)
THEOREM ResolvedTheorem == Spec => []ShownIsResolved
<1>1. LedgerInv(file) => ShownIsResolved
  BY DEF LedgerInv, RunsInv, Shown, ShownIsResolved
<1>2. QED
  BY LedgerInvariant, <1>1, PTL

(* A promoted label goes with its finding, unless a run that was not       *)
(* covered gives it too.                                                   *)
THEOREM DerivedTheorem == Spec => []DerivedFollowsSource
<1>1. LedgerInv(file) => DerivedFollowsSource
  <2> SUFFICES ASSUME LedgerInv(file), NEW f \in Fields, NEW i \in Active(file, f),
                      file.items[f][i].source # 0,
                      <<Analysis, file.items[f][i].source>> \in file.withdrawn
               PROVE  \E j \in Active(file, f) : file.items[f][j].run \notin {0, file.items[f][i].run}
    BY DEF DerivedFollowsSource
  <2>1. WellFormed(file) /\ OnePerRun(file) /\ OrphansCovered(file)
    BY DEF LedgerInv, RunsInv, RunsKept
  <2>2. Orphan(file, f, i)
    BY DEF Orphan
  <2>3. PICK j \in Active(file, f) : file.items[f][j].run # 0 /\ ~ Orphan(file, f, j)
    BY <2>1, <2>2 DEF OrphansCovered
  <2>4. file.items[f][j].run # file.items[f][i].run
    BY <2>1, <2>2, <2>3 DEF OnePerRun, Active
  <2> QED  BY <2>3, <2>4
<1>2. QED
  BY LedgerInvariant, <1>1, PTL

(* A withdrawal keeps what it covers only under a conflict with a run that *)
(* it does not cover, and changes only values that the covered runs gave.  *)
THEOREM WithdrawalTheorem == Spec => []WithdrawalExact
<1>1. LedgerInv(file) => WithdrawalExact
  <2> SUFFICES ASSUME LedgerInv(file), NEW R \in SUBSET Runs, NEW f \in Fields
               PROVE  /\ (\E i \in Active(Plan(file, R), f) : Plan(file, R).items[f][i].run \in R) =>
                            \E j \in Active(Plan(file, R), f) : Plan(file, R).items[f][j].run \in Runs \ R
                      /\ Plan(file, R).shown[f] # file.shown[f] =>
                            /\ Human(file, f) = {}
                            /\ \/ file.items[f][Winner(file, f, NoOne)].run \in R
                               \/ <<Analysis, file.items[f][Winner(file, f, NoOne)].source>>
                                     \in file.withdrawn
    BY DEF WithdrawalExact
  <2> DEFINE F == Plan(file, R)
             A == Covering(file, R)
             w == Winner(file, f, NoOne)
  <2>1. WellFormed(file) /\ HumanFindingsKept(file) /\ file \in Shape
    BY DEF LedgerInv, WellFormed, Shape
  <2>2. A = Covering(file, R) /\ F = Plan(file, R)
    OBVIOUS
  <2> HIDE DEF A, F
  <2>3. /\ WellFormed(A) /\ A.items = file.items /\ Human(A, f) = Human(file, f)
        /\ \A i \in DOMAIN file.items[f] :
              /\ file.items[f][i].run \in R => <<f, i>> \in A.withdrawn
              /\ <<f, i>> \in A.withdrawn =>
                    \/ <<f, i>> \in file.withdrawn
                    \/ file.items[f][i].run \in R
                    \/ <<Analysis, file.items[f][i].source>> \in file.withdrawn
    BY <2>1, <2>2, Covered
  <2>4. /\ F.items = file.items /\ Active(A, f) \subseteq Active(F, f)
        /\ f \notin Blocked(file, A) => Active(F, f) = Active(A, f)
    BY <2>1, <2>2, PlanWithdraws
  <2>5. ASSUME f \in Losing(file, A)
        PROVE  /\ Human(file, f) = {} /\ w \in DOMAIN file.items[f]
               /\ <<f, w>> \in A.withdrawn /\ <<f, w>> \notin file.withdrawn
    <3>1. /\ <<f, w>> \in A.withdrawn /\ <<f, w>> \notin file.withdrawn
          /\ Origin(file, f, NoOne) # "human"
      BY <2>5 DEF Losing
    <3>2. w \in DOMAIN file.items[f] /\ w # 0
      <4>1. A.withdrawn \subseteq Ids(A)
        BY <2>3 DEF WellFormed
      <4>2. w \in DOMAIN file.items[f]
        BY <2>3, <3>1, <4>1, IdsAre
      <4> QED  BY <2>1, <4>2, Places
    <3>3. Human(file, f) = {}
      <4> SUFFICES ASSUME Human(file, f) # {} PROVE FALSE
        OBVIOUS
      <4>1. w \in Scoped(file, f, NoOne)
        BY <2>1, WinnerIs
      <4> QED  BY <3>1, <3>2, <4>1 DEF Scoped, Human, Origin
    <3> QED  BY <3>1, <3>2, <3>3
  <2>6. ASSUME NEW i \in Active(F, f), F.items[f][i].run \in R
        PROVE  \E j \in Active(F, f) : F.items[f][j].run \in Runs \ R
    <3>1. i \notin Active(A, f)
      BY <2>3, <2>4, <2>6 DEF Active
    <3>2. f \in Losing(file, A) /\ Origin(A, f, NoOne) = "machine"
      BY <2>4, <2>6, <3>1 DEF Blocked
    <3>3. Human(A, f) = {}
      BY <2>3, <2>5, <3>2
    <3>4. PICK j \in Active(A, f) : A.items[f][j].run # 0
      BY <2>3, <3>2, <3>3, RunsWin
    <3>5. j \in DOMAIN file.items[f] /\ <<f, j>> \notin A.withdrawn /\ file.items[f][j].run # 0
      BY <2>3, <3>4 DEF Active
    <3>6. file.items[f][j].run \in Runs
      BY <2>1, <3>5, Places, RunsAreNat
    <3> QED  BY <2>3, <2>4, <3>4, <3>5, <3>6
  <2>7. ASSUME F.shown[f] # file.shown[f]
        PROVE  /\ Human(file, f) = {}
               /\ \/ file.items[f][w].run \in R
                  \/ <<Analysis, file.items[f][w].source>> \in file.withdrawn
    <3>1. f \in Losing(file, A)
      BY <2>1, <2>2, <2>7, PlanIs DEF Lost
    <3> QED  BY <2>3, <2>5, <3>1
  <2> QED  BY <2>6, <2>7 DEF F
<1>2. QED
  BY LedgerInvariant, <1>1, PTL

(* No operation rewrites or drops a contribution, or revives a withdrawn   *)
(* one.                                                                    *)
THEOREM HistoryTheorem == Spec => HistoryKept
<1>1. Keeps(file, file') =>
          /\ file.withdrawn \subseteq file'.withdrawn
          /\ \A x \in Ids(file) : x \in Ids(file') /\ ItemAt(file', x) = ItemAt(file, x)
  <2> SUFFICES ASSUME Keeps(file, file'), NEW x \in Ids(file)
               PROVE  x \in Ids(file') /\ ItemAt(file', x) = ItemAt(file, x)
    BY DEF Keeps
  <2>1. x[1] \in Fields /\ x[2] \in DOMAIN file.items[x[1]] /\ x = <<x[1], x[2]>>
    BY IdsAre
  <2>2. x[2] \in DOMAIN file'.items[x[1]] /\ file'.items[x[1]][x[2]] = file.items[x[1]][x[2]]
    BY <2>1 DEF Keeps, Extends
  <2> QED  BY <2>1, <2>2, IdsAre DEF ItemAt
<1>2. LedgerInv(file) /\ [Next]_file =>
          [/\ file.withdrawn \subseteq file'.withdrawn
           /\ \A x \in Ids(file) : x \in Ids(file') /\ ItemAt(file', x) = ItemAt(file, x)]_file
  BY <1>1, LedgerNext
<1>3. QED
  BY LedgerInvariant, <1>2, PTL DEF Spec, HistoryKept
=============================================================================

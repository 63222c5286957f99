--------------------------- MODULE AnsweringProofs ---------------------------
(* Theorems about the parts of Service that answer: from a question and the *)
(* documents in scope to what is ranked, extracted, stated and served.      *)
(* Each says of a behaviour of the service: while it is of the part, the    *)
(* inductive invariant of the part's module holds.                          *)
EXTENDS Service, FiniteSetTheorems, FunctionTheorems, SequenceTheorems,
        WellFoundedInduction, TLAPS

\* Some number of a set of numbers is the least.
LEMMA HasLeast ==
    ASSUME NEW T, T \subseteq Nat, T # {}
    PROVE  \E x \in T : \A y \in T : x <= y
<1> DEFINE R == OpToRel(<, Nat)
<1>1. IsWellFoundedOn(R, Nat)
  BY NatLessThanWellFounded
<1> HIDE DEF R
<1>2. PICK x \in T : \A y \in T : ~ (<<y, x>> \in R)
  BY <1>1, WFMin
<1>3. \A y \in T : y < x => <<y, x>> \in R
  <2> SUFFICES ASSUME NEW y \in T, y < x
               PROVE  <<y, x>> \in {ss \in Nat \X Nat : ss[1] < ss[2]}
    BY DEF R, OpToRel
  <2> QED
    OBVIOUS
<1>4. \A y \in T : ~ (y < x)
  BY <1>2, <1>3, Zenon
<1>5. \A y \in T : x <= y
  BY <1>4
<1> QED
  BY <1>5

\* Two members are enough to count two.
LEMMA TwoCount ==
    ASSUME NEW S, IsFiniteSet(S), NEW a \in S, NEW b \in S, a # b
    PROVE  Cardinality(S) >= 2
<1>1. Cardinality({a, b}) = 2
  <2>1. IsFiniteSet({a}) /\ Cardinality({a}) = 1
    BY FS_Singleton
  <2>2. {a, b} = {a} \cup {b} /\ b \notin {a}
    OBVIOUS
  <2> QED
    BY <2>1, <2>2, FS_AddElement
<1>2. {a, b} \subseteq S
  OBVIOUS
<1> QED
  BY <1>1, <1>2, FS_Subset, FS_CardinalityType

-----------------------------------------------------------------------------
(* Which documents may answer, for every question and every documents.      *)

LEMMA ScopeMoves ==
    ASSUME [ServiceNext]_serviceVars, part' = "scope"
    PROVE  part = "scope" /\ [Scope!Next]_(Scope!vars)
BY DEF ServiceNext, serviceVars, shared, Scope!vars

LEMMA ScopeCounts == \A S : Scope!Cardinality(S) = Cardinality(S)
BY DEF Scope!Cardinality, Cardinality

\* Documents that are joined through a record tell of that record alone.
LEMMA JoinedTellOfOne ==
    ASSUME Scope!ScopeInv, NEW r \in Records, Scope!Joins(r)
    PROVE  Scope!TellsOfOneRecord(Scope!Sharing(r))
<1> DEFINE G == Scope!Sharing(r)
           S == {q \in Records : q[1] = x1.link /\ \E i \in G : q \in x2[i].records}
<1>1. /\ Cardinality(G) >= 2 /\ r[1] = x1.link /\ Cardinality(S) = 1
      /\ Scope!NamedBy(G) = x1.subjects
  BY ScopeCounts DEF Scope!Joins, Scope!OneRecord
<1>2. \A i \in G : i \in DOMAIN x2 /\ r \in x2[i].records /\ x2[i].records \subseteq Records
  <2>1. \A i \in DOMAIN x2 : x2[i].records \subseteq Records
    <3>1. \A i \in DOMAIN x2 : x2[i] \in Scope!Sources
      <4> HIDE DEF G, S
      <4>1. x2 \in Seq(Scope!Sources)
        BY DEF Scope!ScopeInv
      <4> QED
        BY <4>1, ElementOfSeq
    <3> QED
      BY <3>1 DEF Scope!Sources
  <2> QED
    BY <2>1 DEF Scope!Sharing, Scope!OfType
<1>3. PICK i0 : i0 \in G
  <2>1. G # {}
    BY <1>1, FS_EmptySet
  <2> QED
    BY <2>1
<1>4. S = {r}
  <2>1. r \in S
    BY <1>1, <1>2, <1>3
  <2>2. IsFiniteSet(S)
    BY RecordsAssumption, FS_Subset
  <2> HIDE DEF S
  <2> QED
    BY <1>1, <2>1, <2>2, FS_Singleton
<1>5. \A i \in G : {q \in x2[i].records : q[1] = x1.link} = {r}
  BY <1>1, <1>2, <1>4
<1>6. x1.subjects \subseteq UNION {x2[i].subjects : i \in G}
  BY <1>1 DEF Scope!NamedBy, Scope!Named
<1> QED
  BY <1>1, <1>5, <1>6, ScopeCounts DEF Scope!TellsOfOneRecord

\* Two thirds of the subjects, rounded up.
LEMMA EnoughNamed ==
    ASSUME NEW n \in Nat, NEW k \in Nat,
           k >= (IF (2 * n + 2) \div 3 < 1 THEN 1 ELSE (2 * n + 2) \div 3)
    PROVE  3 * k >= 2 * n
OBVIOUS

(* Whatever the corpus holds, a document is in scope because of what it and *)
(* the question say, never because subjects happen to occur in several      *)
(* documents (_scope_ranked).                                               *)
THEOREM ScopeAlwaysJustified == ServiceSpec => []ScopeIsJustified
<1> DEFINE Inv == part = "scope" => Scope!ScopeInv
<1>1. ServiceInit => Inv
  BY DEF ServiceInit, Scope!Init, Scope!ScopeInv
<1>2. Inv /\ [ServiceNext]_serviceVars => Inv'
  <2> SUFFICES ASSUME Scope!ScopeInv, [Scope!Next]_(Scope!vars) PROVE Scope!ScopeInv'
    BY ScopeMoves
  <2>1. CASE Scope!Next
    BY <2>1, AppendProperties DEF Scope!Next, Scope!Find, Scope!ScopeInv
  <2>2. CASE UNCHANGED Scope!vars
    BY <2>2 DEF Scope!vars, Scope!ScopeInv
  <2> QED
    BY <2>1, <2>2
<1>3. Inv => ScopeIsJustified
  <2> SUFFICES ASSUME Scope!ScopeInv, x1.subjects # {}, NEW i \in Scope!ScopeRanked
               PROVE  \/ 3 * Cardinality(Scope!Named(i)) >= 2 * Cardinality(x1.subjects)
                         /\ ~Scope!NeedsJoin
                      \/ \E G \in SUBSET Scope!ScopeRanked :
                            i \in G /\ Scope!TellsOfOneRecord(G)
    BY ScopeCounts DEF ScopeIsJustified, Scope!ScopeIsJustified
  <2>1. CASE Scope!NeedsJoin
    <3>1. Scope!ScopeRanked = Scope!Linked
      BY <2>1 DEF Scope!ScopeRanked
    <3>2. PICK r \in Records : Scope!Joins(r) /\ i \in Scope!Sharing(r)
      BY <3>1 DEF Scope!Linked
    <3>3. Scope!Sharing(r) \subseteq Scope!ScopeRanked
      BY <3>1, <3>2 DEF Scope!Linked
    <3> QED
      BY <3>2, <3>3, JoinedTellOfOne
  <2>2. CASE ~Scope!NeedsJoin
    <3>1. i \in Scope!Allowed
      BY <2>2 DEF Scope!ScopeRanked
    <3>2. Cardinality(Scope!Named(i)) >= Scope!Threshold
      BY <3>1, ScopeCounts DEF Scope!Allowed
    <3>3. IsFiniteSet(x1.subjects)
      <4>1. PICK n \in 0 .. MaxSubjects : x1.subjects = 1 .. n
        BY DEF Scope!ScopeInv, Scope!Questions
      <4> QED
        BY <4>1, FS_Interval
    <3>4. Cardinality(x1.subjects) \in Nat /\ Cardinality(Scope!Named(i)) \in Nat
      BY <3>3, FS_Subset, FS_CardinalityType DEF Scope!Named
    <3>5. 3 * Cardinality(Scope!Named(i)) >= 2 * Cardinality(x1.subjects)
      BY <3>2, <3>4, EnoughNamed, ScopeCounts DEF Scope!Threshold
    <3> QED
      BY <2>2, <3>5
  <2> QED
    BY <2>1, <2>2
<1> QED
  BY <1>1, <1>2, <1>3, PTL DEF ServiceSpec

-----------------------------------------------------------------------------
(* The ranking of candidates, for any number of them and any words.         *)

\* A quotient does not rise with its divisor.
LEMMA DivMonotone ==
    ASSUME NEW f \in Nat, NEW a \in Nat \ {0}, NEW b \in Nat \ {0}, a <= b
    PROVE  f \div b \in Nat /\ f \div b <= f \div a
<1> DEFINE q == f \div b
           p == f \div a
<1>1. q \in Nat /\ p \in Nat
  OBVIOUS
<1>2. b * q <= f
  OBVIOUS
<1>3. a * q <= b * q
  BY <1>1
<1>4. f < a * (p + 1)
  OBVIOUS
<1> HIDE DEF p, q
<1>5. a * q < a * (p + 1)
  BY <1>1, <1>2, <1>3, <1>4
<1>6. q < p + 1
  BY <1>1, <1>5
<1>7. q <= p
  BY <1>1, <1>6
<1> QED BY <1>1, <1>7 DEF p, q

\* Along a strict total order of n things, each is preceded by fewer than
\* those it precedes, and their places are 1 to n.
LEMMA OrderPlaces ==
    ASSUME NEW n \in Nat, NEW ahead \in [1 .. n -> SUBSET (1 .. n)],
           \A i \in 1 .. n : i \notin ahead[i],
           \A i \in 1 .. n : \A j \in ahead[i] : ahead[j] \subseteq ahead[i],
           \A i, j \in 1 .. n : i # j => i \in ahead[j] \/ j \in ahead[i]
    PROVE  /\ \A i \in 1 .. n : Cardinality(ahead[i]) \in 0 .. n - 1
           /\ \A i \in 1 .. n : \A j \in ahead[i] : Cardinality(ahead[j]) < Cardinality(ahead[i])
           /\ {1 + Cardinality(ahead[i]) : i \in 1 .. n} = 1 .. n
<1>1. IsFiniteSet(1 .. n) /\ Cardinality(1 .. n) = n
  BY FS_Interval
<1>2. ASSUME NEW i \in 1 .. n PROVE IsFiniteSet(ahead[i]) /\ Cardinality(ahead[i]) \in Nat
  BY <1>1, FS_Subset, FS_CardinalityType
<1>3. ASSUME NEW i \in 1 .. n, NEW T \in SUBSET (1 .. n), ahead[i] \subseteq T, i \in T
      PROVE  Cardinality(ahead[i]) < Cardinality(T)
  <2>1. IsFiniteSet(T)
    BY <1>1, FS_Subset
  <2>2. Cardinality(T) \in Nat
    BY <2>1, FS_CardinalityType
  <2>3. Cardinality(ahead[i] \cup {i}) = Cardinality(ahead[i]) + 1
    BY <1>2, FS_AddElement
  <2>4. ahead[i] \cup {i} \subseteq T
    BY <1>3
  <2>5. Cardinality(ahead[i] \cup {i}) <= Cardinality(T)
    BY <2>1, <2>4, FS_Subset
  <2> QED BY <1>2, <2>2, <2>3, <2>5
<1>4. \A i \in 1 .. n : Cardinality(ahead[i]) \in 0 .. n - 1
  BY <1>1, <1>2, <1>3
<1>5. \A i \in 1 .. n : \A j \in ahead[i] : Cardinality(ahead[j]) < Cardinality(ahead[i])
  BY <1>3
<1>6. {1 + Cardinality(ahead[i]) : i \in 1 .. n} = 1 .. n
  <2> DEFINE f == [i \in 1 .. n |-> 1 + Cardinality(ahead[i])]
  <2>1. f \in [1 .. n -> 1 .. n]
    BY <1>4
  <2>2. \A i, j \in 1 .. n : f[i] = f[j] => i = j
    BY <1>2, <1>5
  <2>3. f \in Injection(1 .. n, 1 .. n)
    BY <2>1, <2>2, Fun_IsInj
  <2>4. f \in Surjection(1 .. n, 1 .. n)
    BY <1>1, <2>3, FS_Injection
  <2>5. \A k \in 1 .. n : \E i \in 1 .. n : f[i] = k
    BY <2>4 DEF Surjection
  <2>6. \A k \in 1 .. n : \E i \in 1 .. n : 1 + Cardinality(ahead[i]) = k
    BY <2>5
  <2>7. \A i \in 1 .. n : 1 + Cardinality(ahead[i]) \in 1 .. n
    BY <1>4
  <2> QED BY <2>6, <2>7
<1> QED BY <1>4, <1>5, <1>6

\* What stands ahead of i by the scores s, then t, then the earlier one.
Before(s, t, j, i) == \/ s[j] > s[i]
                      \/ s[j] = s[i] /\ t[j] > t[i]
                      \/ s[j] = s[i] /\ t[j] = t[i] /\ j < i
Ahead(n, s, t, i) == {j \in 1 .. n : Before(s, t, j, i)}
Place(n, s, t, i) == 1 + Cardinality(Ahead(n, s, t, i))

\* The places are 1 to n, and what is before another has an earlier one.
LEMMA PlacesAreOrdered ==
    ASSUME NEW n \in Nat, NEW s, NEW t, \A i \in 1 .. n : s[i] \in Int /\ t[i] \in Int
    PROVE  /\ {Place(n, s, t, i) : i \in 1 .. n} = 1 .. n
           /\ \A i, j \in 1 .. n : Before(s, t, j, i) => Place(n, s, t, j) < Place(n, s, t, i)
<1> DEFINE ahead == [i \in 1 .. n |-> Ahead(n, s, t, i)]
<1>1. ahead \in [1 .. n -> SUBSET (1 .. n)] /\ \A i \in 1 .. n : ahead[i] = Ahead(n, s, t, i)
  BY DEF Ahead
<1>2. \A i, j \in 1 .. n : j \in ahead[i] <=> Before(s, t, j, i)
  BY <1>1 DEF Ahead
<1> HIDE DEF ahead
<1>3. ASSUME NEW i \in 1 .. n PROVE ~ Before(s, t, i, i)
  BY DEF Before
<1>4. ASSUME NEW i \in 1 .. n, NEW j \in 1 .. n, i # j
      PROVE  Before(s, t, i, j) \/ Before(s, t, j, i)
  BY <1>4 DEF Before
<1>5. ASSUME NEW i \in 1 .. n, NEW j \in 1 .. n, Before(s, t, j, i),
             NEW k \in 1 .. n, Before(s, t, k, j)
      PROVE  Before(s, t, k, i)
  BY <1>5 DEF Before
<1>6. ASSUME NEW i \in 1 .. n, NEW j \in ahead[i] PROVE ahead[j] \subseteq ahead[i]
  BY <1>1, <1>2, <1>5
<1>7. \A i \in 1 .. n : i \notin ahead[i]
  BY <1>2, <1>3
<1>8. \A i, j \in 1 .. n : i # j => i \in ahead[j] \/ j \in ahead[i]
  BY <1>2, <1>4
<1>9. /\ \A i \in 1 .. n : Cardinality(ahead[i]) \in 0 .. n - 1
      /\ \A i \in 1 .. n : \A j \in ahead[i] : Cardinality(ahead[j]) < Cardinality(ahead[i])
      /\ {1 + Cardinality(ahead[i]) : i \in 1 .. n} = 1 .. n
  BY <1>1, <1>6, <1>7, <1>8, OrderPlaces
<1>10. \A i \in 1 .. n : Place(n, s, t, i) = 1 + Cardinality(ahead[i])
  BY <1>1 DEF Place
<1>11. {Place(n, s, t, i) : i \in 1 .. n} = 1 .. n
  BY <1>9, <1>10
<1>12. ASSUME NEW i \in 1 .. n, NEW j \in 1 .. n, Before(s, t, j, i)
       PROVE  Place(n, s, t, j) < Place(n, s, t, i)
  <2>1. Cardinality(ahead[j]) < Cardinality(ahead[i])
    BY <1>2, <1>9, <1>12
  <2>2. Cardinality(ahead[j]) \in Int /\ Cardinality(ahead[i]) \in Int
    BY <1>9
  <2> QED BY <1>10, <2>1, <2>2
<1> QED BY <1>11, <1>12

\* Fewer before it, no later place.
LEMMA FewerAhead ==
    ASSUME NEW n \in Nat, NEW r, NEW s, NEW t, NEW i,
           \A j \in 1 .. n : Before(r, t, j, i) => Before(s, t, j, i)
    PROVE  Place(n, r, t, i) <= Place(n, s, t, i)
<1>1. IsFiniteSet(1 .. n)
  BY FS_Interval
<1>2. Ahead(n, s, t, i) \subseteq 1 .. n
  BY DEF Ahead
<1>3. IsFiniteSet(Ahead(n, s, t, i))
  BY <1>1, <1>2, FS_Subset
<1>4. Ahead(n, r, t, i) \subseteq Ahead(n, s, t, i)
  BY DEF Ahead
<1>5. /\ IsFiniteSet(Ahead(n, r, t, i))
      /\ Cardinality(Ahead(n, r, t, i)) <= Cardinality(Ahead(n, s, t, i))
  BY <1>3, <1>4, FS_Subset
<1>6. Cardinality(Ahead(n, r, t, i)) \in Nat /\ Cardinality(Ahead(n, s, t, i)) \in Nat
  BY <1>3, <1>5, FS_CardinalityType
<1> QED BY <1>5, <1>6 DEF Place

\* The mean that fuses two reciprocal ranks; it lies between them.
Mean(x, y) == (x + y) \div 2

LEMMA MeanIsBetween ==
    /\ \A x, y \in Nat : Mean(x, y) \in Nat
    /\ \A x \in Nat : Mean(x, x) = x
    /\ \A x, y, lo, hi \in Nat : lo <= x /\ lo <= y /\ x <= hi /\ y <= hi =>
          lo <= Mean(x, y) /\ Mean(x, y) <= hi
    /\ \A u, v, x, y \in Nat : u <= v /\ x <= y => Mean(u, x) <= Mean(v, y)
BY DEF Mean

LEMMA RankingMoves ==
    ASSUME [ServiceNext]_serviceVars, part' = "ranking"
    PROVE  part = "ranking" /\ [Ranking!Next]_(Ranking!vars)
BY DEF ServiceNext, serviceVars, shared, rest3, rest5, rest6, rest9, Ranking!vars

LEMMA RankingCounts == \A S : Ranking!Cardinality(S) = Cardinality(S)
BY DEF Ranking!Cardinality, Cardinality

\* The ranks by a score are places, and a higher score has an earlier one.
LEMMA RanksAreOrdered ==
    ASSUME NEW n \in Nat, NEW S \in SUBSET (1 .. n), NEW score \in [S -> Int]
    PROVE  /\ Ranking!RankBy(score) \in [S -> 1 .. n]
           /\ \A i, j \in S : score[i] > score[j] =>
                 Ranking!RankBy(score)[i] < Ranking!RankBy(score)[j]
<1> DEFINE ahead(i) == {j \in S : score[j] > score[i] \/ (score[j] = score[i] /\ j < i)}
<1>1. IsFiniteSet(1 .. n) /\ Cardinality(1 .. n) = n
  BY FS_Interval
<1>2. IsFiniteSet(S)
  BY <1>1, FS_Subset
<1>3. Cardinality(S) \in Nat /\ Cardinality(S) <= n
  BY <1>1, <1>2, FS_Subset, FS_CardinalityType
<1>4. ASSUME NEW i \in S PROVE IsFiniteSet(ahead(i)) /\ Cardinality(ahead(i)) \in Nat
  BY <1>2, FS_Subset, FS_CardinalityType
<1>5. ASSUME NEW i \in S, NEW T \in SUBSET S, ahead(i) \subseteq T, i \in T
      PROVE  Cardinality(ahead(i)) < Cardinality(T)
  <2>0. i \notin ahead(i)
    OBVIOUS
  <2> HIDE DEF ahead
  <2>1. IsFiniteSet(T)
    BY <1>2, FS_Subset
  <2>2. Cardinality(T) \in Nat
    BY <2>1, FS_CardinalityType
  <2>3. Cardinality(ahead(i) \cup {i}) = Cardinality(ahead(i)) + 1
    BY <1>4, <2>0, FS_AddElement
  <2>4. Cardinality(ahead(i) \cup {i}) <= Cardinality(T)
    BY <1>5, <2>1, FS_Subset
  <2> QED BY <1>4, <2>2, <2>3, <2>4
<1>6. Ranking!RankBy(score) = [i \in S |-> 1 + Cardinality(ahead(i))]
  BY RankingCounts DEF Ranking!RankBy
<1>7. \A i \in S : ahead(i) \subseteq S
  OBVIOUS
<1>8. \A i, j \in S : score[i] > score[j] => ahead(i) \subseteq ahead(j) /\ i \in ahead(j)
  <2> SUFFICES ASSUME NEW i \in S, NEW j \in S, score[i] > score[j]
               PROVE  ahead(i) \subseteq ahead(j) /\ i \in ahead(j)
    OBVIOUS
  <2>1. \A k \in S : score[k] \in Int
    OBVIOUS
  <2>2. ASSUME NEW k \in ahead(i) PROVE k \in ahead(j)
    <3>1. k \in S /\ (score[k] > score[i] \/ score[k] = score[i])
      OBVIOUS
    <3>2. score[k] > score[j]
      BY <2>1, <3>1
    <3> QED BY <3>1, <3>2
  <2> QED BY <2>2
<1> HIDE DEF ahead
<1>9. \A i \in S : Cardinality(ahead(i)) < Cardinality(S)
  BY <1>5, <1>7
<1>10. \A i, j \in S : score[i] > score[j] => Cardinality(ahead(i)) < Cardinality(ahead(j))
  BY <1>5, <1>7, <1>8
<1>11. \A i \in S : 1 + Cardinality(ahead(i)) \in 1 .. n
  BY <1>3, <1>4, <1>9
<1> QED BY <1>4, <1>6, <1>10, <1>11

\* What a rank contributes, and that a named document outweighs any rank.
LEMMA ReciprocalsFall ==
    /\ \A r \in Nat \ {0} : Ranking!Reciprocal(r) \in Nat
    /\ \A r, s \in Nat \ {0} : r <= s => Ranking!Reciprocal(s) <= Ranking!Reciprocal(r)
    /\ \A r \in 1 .. 40 : Ranking!Boost <= Ranking!Reciprocal(r)
    /\ Ranking!Boost \in Nat /\ Ranking!Reciprocal(1) < 2 * Ranking!Boost
<1>1. Fused \in Nat \ {0} /\ Fused % 100 = 0
  BY RankingAssumption DEF Ranking!Exact
<1>2. \A r \in Nat \ {0} : Ranking!Reciprocal(r) = Fused \div (60 + r)
  BY DEF Ranking!Reciprocal, Ranking!RRF_K
<1>3. Ranking!Boost = Fused \div 100
  BY DEF Ranking!Boost
<1>4. ASSUME NEW r \in Nat \ {0}, NEW s \in Nat \ {0}, r <= s
      PROVE  Fused \div (60 + s) \in Nat /\ Fused \div (60 + s) <= Fused \div (60 + r)
  <2>1. 60 + r \in Nat \ {0} /\ 60 + s \in Nat \ {0} /\ 60 + r <= 60 + s
    BY <1>4
  <2> QED BY <1>1, <2>1, DivMonotone
<1>5. ASSUME NEW r \in 1 .. 40
      PROVE  Fused \div 100 <= Fused \div (60 + r)
  <2>1. 60 + r \in Nat \ {0} /\ 100 \in Nat \ {0} /\ 60 + r <= 100
    OBVIOUS
  <2> QED BY <1>1, <2>1, DivMonotone
<1>6. Fused \div 61 < 2 * (Fused \div 100) /\ Fused \div 100 \in Nat
  BY <1>1
<1> QED BY <1>2, <1>3, <1>4, <1>5, <1>6

LEMMA RankingInitially ==
    ServiceInit => (part = "ranking" => Ranking!RankingInv)
<1> SUFFICES ASSUME ServiceInit, part = "ranking" PROVE Ranking!RankingInv
  OBVIOUS
<1>1. Ranking!Init
  BY DEF ServiceInit
<1>2. /\ x1.words \in {W \in SUBSET Ranking!Words : Ranking!Cardinality(W) \in 1 .. MaxWords}
      /\ x3 = << >> /\ x4 = << >> /\ x5 = << >> /\ x7 = << >>
  BY <1>1 DEF Ranking!Init
<1>3. x3 \in Seq(Ranking!Chunks) /\ Len(x3) <= MaxCandidates
  <2>1. MaxCandidates \in 0 .. 40
    BY RankingAssumption
  <2>2. << >> \in Seq(Ranking!Chunks) /\ Len(<< >>) = 0
    OBVIOUS
  <2> QED BY <1>2, <2>1, <2>2
<1> QED BY <1>2, <1>3 DEF Ranking!RankingInv

\* A lexical score is a number.
LEMMA LexicalIsNumber ==
    ASSUME Ranking!RankingInv, NEW i \in DOMAIN x3
    PROVE  Ranking!LexicalScore(i) \in Int
<1> DEFINE W == x1.words
<1>1. Unit \in Nat \ {0}
  BY RankingAssumption DEF Ranking!Exact
<1>2. IsFiniteSet(W) /\ Cardinality(W) \in Nat \ {0}
  <2>1. W \subseteq AskedFields \cup NameWords \cup OtherWords
    BY DEF Ranking!RankingInv, Ranking!Words
  <2>2. IsFiniteSet(W)
    BY <2>1, RankingAssumption, FS_Subset
  <2>3. Cardinality(W) \in Nat /\ Cardinality(W) # 0
    BY <2>2, RankingCounts, FS_CardinalityType DEF Ranking!RankingInv
  <2> QED BY <2>2, <2>3
<1>3. ASSUME NEW V PROVE Ranking!Coverage(V) \in Int
  <2>1. IsFiniteSet(V \cap W) /\ Cardinality(V \cap W) \in Nat
    BY <1>2, FS_Subset, FS_CardinalityType
  <2>2. Unit * Cardinality(V \cap W) \in Nat
    BY <1>1, <2>1
  <2>3. (Unit * Cardinality(V \cap W)) \div Cardinality(W) \in Int
    BY <1>2, <2>2
  <2> QED BY <2>3, RankingCounts DEF Ranking!Coverage
<1>4. ASSUME Ranking!RequestedFields # {} PROVE Ranking!FieldCoverage(i) \in Int
  <2> DEFINE R == Ranking!RequestedFields
             V == R \cap x3[i].words
  <2>1. IsFiniteSet(R) /\ IsFiniteSet(V)
    BY <1>2, FS_Subset DEF Ranking!RequestedFields
  <2>2. Cardinality(R) \in Nat \ {0} /\ Cardinality(V) \in Nat
    BY <1>4, <2>1, FS_EmptySet, FS_CardinalityType
  <2> HIDE DEF R, V
  <2>3. Unit * Cardinality(V) \in Nat
    BY <1>1, <2>2
  <2>4. (Unit * Cardinality(V)) \div Cardinality(R) \in Int
    BY <2>2, <2>3
  <2> QED BY <2>4, RankingCounts DEF Ranking!FieldCoverage, R, V
<1>5. Ranking!EntityCoverage(i) \in Int /\ Ranking!ScopeCoverage(i) \in Int
  BY <1>1 DEF Ranking!EntityCoverage, Ranking!ScopeCoverage
<1> HIDE DEF W
<1>6. \A n \in Int : n \div 20 \in Int
  OBVIOUS
<1> QED BY <1>3, <1>4, <1>5, <1>6 DEF Ranking!LexicalScore

LEMMA RankingStep ==
    ASSUME Ranking!RankingInv, [Ranking!Next]_(Ranking!vars)
    PROVE  Ranking!RankingInv'
<1>1. CASE Ranking!Fetch
  <2>1. PICK c \in Ranking!Chunks : x3' = Append(x3, c)
    BY <1>1 DEF Ranking!Fetch
  <2>2. /\ x4 = << >> /\ x5 = << >> /\ x7 = << >> /\ Len(x3) < MaxCandidates
        /\ UNCHANGED <<x1, x4, x5, x6, x7>>
    BY <1>1 DEF Ranking!Fetch, Ranking!RankingInv
  <2>3. x3 \in Seq(Ranking!Chunks) /\ Ranking!Chunks' = Ranking!Chunks
    BY <2>2 DEF Ranking!RankingInv, Ranking!Chunks
  <2>4. x3' \in Seq(Ranking!Chunks') /\ Len(x3') <= MaxCandidates
    <3>1. MaxCandidates \in Nat
      BY RankingAssumption
    <3> QED BY <2>1, <2>2, <2>3, <3>1, AppendProperties
  <2>5. x1' = x1 /\ x4' = << >> /\ x5' = << >> /\ x7' = << >>
    BY <2>2
  <2> QED BY <2>4, <2>5, RankingCounts DEF Ranking!RankingInv
<1>2. CASE Ranking!ScoreCandidates
  <2>1. /\ x4' = [i \in DOMAIN x3 |-> Ranking!LexicalScore(i)]
        /\ x5 = << >> /\ x7 = << >> /\ UNCHANGED <<x1, x3, x5, x7>>
    BY <1>2 DEF Ranking!ScoreCandidates, Ranking!RankingInv
  <2>2. x4' \in [DOMAIN x3' -> Int]
    BY <2>1, LexicalIsNumber
  <2>3. x3' \in Seq(Ranking!Chunks') /\ Len(x3') <= MaxCandidates
    BY <2>1 DEF Ranking!RankingInv, Ranking!Chunks
  <2> QED BY <2>1, <2>2, <2>3, RankingCounts DEF Ranking!RankingInv
<1>3. CASE Ranking!RankCandidates
  <2>1. /\ x4 # << >> /\ x5 = << >> /\ x7 = << >> /\ UNCHANGED <<x1, x3, x4, x7>>
        /\ x5' = Ranking!RankBy(x4)
        /\ x6' = Ranking!RankBy([i \in Ranking!Compatible |-> x3[i].cosine])
    BY <1>3 DEF Ranking!RankCandidates, Ranking!RankingInv
  <2>2. x3' \in Seq(Ranking!Chunks') /\ Len(x3') <= MaxCandidates
    BY <2>1 DEF Ranking!RankingInv, Ranking!Chunks
  <2>3. Ranking!Compatible' = Ranking!Compatible
    BY <2>1 DEF Ranking!Compatible
  <2> QED BY <2>1, <2>2, <2>3, RankingCounts DEF Ranking!RankingInv
<1>4. CASE Ranking!Fuse
  <2>1. /\ x5 # << >> /\ UNCHANGED <<x1, x2, x3, x4, x5, x6>>
        /\ x7' = [i \in DOMAIN x3 |-> Ranking!Fusion(i, x6)]
    BY <1>4 DEF Ranking!Fuse
  <2>2. x3' \in Seq(Ranking!Chunks') /\ Len(x3') <= MaxCandidates
    BY <2>1 DEF Ranking!RankingInv, Ranking!Chunks
  <2>3. Ranking!Compatible' = Ranking!Compatible
    BY <2>1 DEF Ranking!Compatible
  <2>4. x7' = [i \in DOMAIN x3' |-> Ranking!Fusion(i, x6)']
    BY <2>1 DEF Ranking!Fusion, Ranking!EntityCoverage, Ranking!Distinctive, Ranking!Present
  <2> QED BY <2>1, <2>2, <2>3, <2>4, RankingCounts DEF Ranking!RankingInv
<1>5. CASE UNCHANGED (Ranking!vars)
  <2>1. UNCHANGED <<x1, x2, x3, x4, x5, x6, x7>>
    BY <1>5 DEF Ranking!vars
  <2>2. x3' \in Seq(Ranking!Chunks') /\ Len(x3') <= MaxCandidates
    BY <2>1 DEF Ranking!RankingInv, Ranking!Chunks
  <2>3. Ranking!Compatible' = Ranking!Compatible
    BY <2>1 DEF Ranking!Compatible
  <2>4. [i \in DOMAIN x3 |-> Ranking!Fusion(i, x6)]' = [i \in DOMAIN x3 |-> Ranking!Fusion(i, x6)]
    BY <2>1 DEF Ranking!Fusion, Ranking!EntityCoverage, Ranking!Distinctive, Ranking!Present
  <2> QED BY <2>1, <2>2, <2>3, <2>4, RankingCounts DEF Ranking!RankingInv
<1> QED BY <1>1, <1>2, <1>3, <1>4, <1>5 DEF Ranking!Next

\* The parts of a fused score.
LexicalPart(i) == Ranking!Reciprocal(x5[i])
DensePart(i) ==
    IF i \in Ranking!Compatible THEN Ranking!Reciprocal(x6[i]) ELSE LexicalPart(i)
NamedPart(i) == IF Ranking!EntityCoverage(i) > 0 THEN Ranking!Boost ELSE 0

\* The ranks when the scores are fused.
LEMMA RanksAreKnown ==
    ASSUME Ranking!RankingInv, x7 # << >>
    PROVE  /\ DOMAIN x3 = 1 .. Len(x3) /\ Len(x3) \in 0 .. 40
           /\ Ranking!Compatible \in SUBSET (1 .. Len(x3))
           /\ x4 \in [1 .. Len(x3) -> Int]
           /\ x5 \in [1 .. Len(x3) -> 1 .. Len(x3)]
           /\ x6 \in [Ranking!Compatible -> 1 .. Len(x3)]
           /\ \A i, j \in 1 .. Len(x3) : x4[i] > x4[j] => x5[i] < x5[j]
           /\ \A i, j \in Ranking!Compatible :
                 x3[i].cosine > x3[j].cosine => x6[i] < x6[j]
<1> DEFINE n == Len(x3)
           K == Ranking!Compatible
           cosine == [i \in K |-> x3[i].cosine]
<1>1. x3 \in Seq(Ranking!Chunks) /\ n \in Nat /\ DOMAIN x3 = 1 .. n
  BY DEF Ranking!RankingInv
<1>2. n \in 0 .. 40
  <2>1. n <= MaxCandidates
    BY DEF Ranking!RankingInv
  <2>2. MaxCandidates \in 0 .. 40
    BY RankingAssumption
  <2>3. n \in Nat
    BY <1>1
  <2> HIDE DEF n
  <2> QED BY <2>1, <2>2, <2>3
<1>3. x4 \in [1 .. n -> Int] /\ x5 = Ranking!RankBy(x4) /\ x6 = Ranking!RankBy(cosine)
  BY <1>1 DEF Ranking!RankingInv
<1>4. K \in SUBSET (1 .. n)
  BY <1>1 DEF Ranking!Compatible
<1>5. ASSUME NEW i \in K PROVE x3[i].cosine \in Int
  <2>1. x3[i] \in Ranking!Chunks
    BY <1>1, <1>4
  <2>2. x3[i].cosine \in 0 .. 1 \/ x3[i].cosine \in {0}
    <3> HIDE DEF K
    <3> QED BY <2>1 DEF Ranking!Chunks
  <2> QED BY <2>2
<1>6. cosine \in [K -> Int] /\ \A i \in K : cosine[i] = x3[i].cosine
  <2> HIDE DEF K
  <2> QED BY <1>5
<1> HIDE DEF cosine, n, K
<1>7. n \in Nat
  BY <1>2
<1>8. 1 .. n \in SUBSET (1 .. n)
  OBVIOUS
<1>9. /\ x5 \in [1 .. n -> 1 .. n]
      /\ \A i, j \in 1 .. n : x4[i] > x4[j] => x5[i] < x5[j]
  BY <1>3, <1>7, <1>8, RanksAreOrdered
<1>10. /\ x6 \in [K -> 1 .. n]
       /\ \A i, j \in K : cosine[i] > cosine[j] => x6[i] < x6[j]
  BY <1>3, <1>4, <1>6, <1>7, RanksAreOrdered
<1>11. \A i, j \in K : x3[i].cosine > x3[j].cosine => x6[i] < x6[j]
  BY <1>6, <1>10
<1> QED BY <1>1, <1>2, <1>3, <1>4, <1>9, <1>10, <1>11 DEF n, K

\* A fused score is the mean of two contributions, each of some rank up to
\* forty, and the boost of a named document.
LEMMA PartsAreBounded ==
    ASSUME Ranking!RankingInv, x7 # << >>, NEW i \in 1 .. Len(x3)
    PROVE  /\ LexicalPart(i) \in Nat /\ DensePart(i) \in Nat /\ NamedPart(i) \in Nat
           /\ Ranking!Boost <= LexicalPart(i) /\ LexicalPart(i) <= Ranking!Reciprocal(1)
           /\ Ranking!Boost <= DensePart(i) /\ DensePart(i) <= Ranking!Reciprocal(1)
           /\ x7[i] = Mean(LexicalPart(i), DensePart(i)) + NamedPart(i)
<1>1. x5[i] \in 1 .. 40 /\ (i \in Ranking!Compatible => x6[i] \in 1 .. 40)
  <2>1. x5[i] \in 1 .. Len(x3) /\ (i \in Ranking!Compatible => x6[i] \in 1 .. Len(x3))
    BY RanksAreKnown
  <2>2. Len(x3) \in 0 .. 40
    BY RanksAreKnown
  <2>3. \A m \in 0 .. 40 : \A r \in 1 .. m : r \in 1 .. 40
    OBVIOUS
  <2>4. \A r \in 1 .. Len(x3) : r \in 1 .. 40
    BY <2>2, <2>3, Zenon
  <2> QED BY <2>1, <2>4, Zenon
<1>2. ASSUME NEW r \in 1 .. 40
      PROVE  /\ Ranking!Reciprocal(r) \in Nat /\ Ranking!Boost <= Ranking!Reciprocal(r)
             /\ Ranking!Reciprocal(r) <= Ranking!Reciprocal(1)
  <2>1. r \in Nat \ {0} /\ 1 \in Nat \ {0} /\ 1 <= r
    OBVIOUS
  <2> QED BY <2>1, ReciprocalsFall
<1>3. /\ LexicalPart(i) \in Nat /\ Ranking!Boost <= LexicalPart(i)
      /\ LexicalPart(i) <= Ranking!Reciprocal(1)
  BY <1>1, <1>2 DEF LexicalPart
<1>4. /\ DensePart(i) \in Nat /\ Ranking!Boost <= DensePart(i)
      /\ DensePart(i) <= Ranking!Reciprocal(1)
  BY <1>1, <1>2, <1>3 DEF DensePart
<1>5. NamedPart(i) \in Nat
  BY ReciprocalsFall DEF NamedPart
<1>6. x7[i] = Ranking!Fusion(i, x6) /\ DOMAIN x6 = Ranking!Compatible
  <2>1. DOMAIN x3 = 1 .. Len(x3) /\ x6 \in [Ranking!Compatible -> 1 .. Len(x3)]
    BY RanksAreKnown
  <2>2. x7 = [j \in DOMAIN x3 |-> Ranking!Fusion(j, x6)]
    BY DEF Ranking!RankingInv
  <2> QED BY <2>1, <2>2
<1>7. Mean(LexicalPart(i), LexicalPart(i)) = LexicalPart(i)
  BY <1>3, MeanIsBetween
<1>8. x7[i] = Mean(LexicalPart(i), DensePart(i)) + NamedPart(i)
  <2>1. CASE i \in Ranking!Compatible
    <3>1. DensePart(i) = Ranking!Reciprocal(x6[i])
      BY <2>1 DEF DensePart
    <3>2. Ranking!Fusion(i, x6)
             = (Ranking!Reciprocal(x5[i]) + Ranking!Reciprocal(x6[i])) \div 2 + NamedPart(i)
      BY <1>6, <2>1 DEF Ranking!Fusion, NamedPart
    <3> QED BY <1>6, <3>1, <3>2 DEF Mean, LexicalPart
  <2>2. CASE i \notin Ranking!Compatible
    <3>1. DensePart(i) = LexicalPart(i)
      BY <2>2 DEF DensePart
    <3>2. Ranking!Fusion(i, x6) = Ranking!Reciprocal(x5[i]) + NamedPart(i)
      BY <1>6, <2>2 DEF Ranking!Fusion, NamedPart
    <3> QED BY <1>6, <1>7, <3>1, <3>2 DEF LexicalPart
  <2> QED BY <2>1, <2>2
<1> QED BY <1>3, <1>4, <1>5, <1>8

\* Position is the place by fused, then lexical score.
LEMMA PlacesArePositions ==
    ASSUME Ranking!RankingInv, x7 # << >>
    PROVE  \A s, i : Ranking!Position(s, i) = Place(Len(x3), s, x4, i)
<1>1. DOMAIN x3 = 1 .. Len(x3)
  BY RanksAreKnown
<1> QED BY <1>1, RankingCounts DEF Ranking!Position, Place, Ahead, Before

\* A chunk ahead by its fused score has an earlier position.
LEMMA AheadIsEarlier ==
    ASSUME Ranking!RankingInv, x7 # << >>
    PROVE  /\ {Ranking!Position(x7, i) : i \in DOMAIN x3} = DOMAIN x3
           /\ \A i, j \in 1 .. Len(x3) :
                 x7[i] > x7[j] \/ (x7[i] >= x7[j] /\ x4[i] > x4[j]) =>
                    Ranking!Position(x7, i) < Ranking!Position(x7, j)
<1>1. DOMAIN x3 = 1 .. Len(x3) /\ Len(x3) \in 0 .. 40 /\ x4 \in [1 .. Len(x3) -> Int]
  BY RanksAreKnown
<1>2. ASSUME NEW i \in 1 .. Len(x3) PROVE x7[i] \in Int /\ x4[i] \in Int
  <2>1. /\ LexicalPart(i) \in Nat /\ DensePart(i) \in Nat /\ NamedPart(i) \in Nat
        /\ x7[i] = Mean(LexicalPart(i), DensePart(i)) + NamedPart(i)
    BY PartsAreBounded
  <2>2. Mean(LexicalPart(i), DensePart(i)) \in Nat
    BY <2>1, MeanIsBetween
  <2>3. x7[i] \in Int
    BY <2>1, <2>2
  <2>4. x4[i] \in Int
    BY <1>1
  <2> QED BY <2>3, <2>4
<1>3. Len(x3) \in Nat
  BY <1>1
<1>4. /\ {Place(Len(x3), x7, x4, i) : i \in 1 .. Len(x3)} = 1 .. Len(x3)
      /\ \A i, j \in 1 .. Len(x3) :
            Before(x7, x4, j, i) => Place(Len(x3), x7, x4, j) < Place(Len(x3), x7, x4, i)
  BY <1>2, <1>3, PlacesAreOrdered
<1>5. {Ranking!Position(x7, i) : i \in DOMAIN x3} = DOMAIN x3
  BY <1>1, <1>4, PlacesArePositions
<1>6. ASSUME NEW i \in 1 .. Len(x3), NEW j \in 1 .. Len(x3),
             x7[i] > x7[j] \/ (x7[i] >= x7[j] /\ x4[i] > x4[j])
      PROVE  Ranking!Position(x7, i) < Ranking!Position(x7, j)
  <2>1. x7[i] \in Int /\ x7[j] \in Int /\ x4[i] \in Int /\ x4[j] \in Int
    BY <1>2
  <2>2. Before(x7, x4, i, j)
    BY <1>6, <2>1 DEF Before
  <2> QED BY <1>4, <2>2, PlacesArePositions
<1> QED BY <1>5, <1>6

\* A chunk ahead in both orders, of a document named at least as well.
LEMMA AheadInBoth ==
    ASSUME Ranking!RankingInv, x7 # << >>,
           NEW i \in Ranking!Compatible, NEW j \in Ranking!Compatible,
           x4[i] > x4[j], x3[i].cosine > x3[j].cosine,
           Ranking!EntityCoverage(j) > 0 => Ranking!EntityCoverage(i) > 0
    PROVE  Ranking!Position(x7, i) < Ranking!Position(x7, j)
<1>1. i \in 1 .. Len(x3) /\ j \in 1 .. Len(x3)
  BY RanksAreKnown
<1>2. x5[i] < x5[j] /\ x6[i] < x6[j]
  BY <1>1, RanksAreKnown
<1>3. /\ x5[i] \in 1 .. Len(x3) /\ x5[j] \in 1 .. Len(x3)
      /\ x6[i] \in 1 .. Len(x3) /\ x6[j] \in 1 .. Len(x3)
  BY <1>1, RanksAreKnown
<1>4. Len(x3) \in 0 .. 40
  BY RanksAreKnown
<1>5. /\ x5[i] \in Nat \ {0} /\ x5[j] \in Nat \ {0} /\ x5[i] <= x5[j]
      /\ x6[i] \in Nat \ {0} /\ x6[j] \in Nat \ {0} /\ x6[i] <= x6[j]
  BY <1>2, <1>3, <1>4
<1>6. LexicalPart(j) <= LexicalPart(i) /\ DensePart(j) <= DensePart(i)
  BY <1>5, ReciprocalsFall DEF LexicalPart, DensePart
<1>7. NamedPart(j) <= NamedPart(i)
  <2>1. Ranking!Boost \in Nat /\ 0 <= Ranking!Boost
    BY ReciprocalsFall
  <2>2. CASE Ranking!EntityCoverage(j) > 0
    <3>1. NamedPart(j) = Ranking!Boost /\ NamedPart(i) = Ranking!Boost
      BY <2>2 DEF NamedPart
    <3> QED BY <2>1, <3>1
  <2>3. CASE ~ (Ranking!EntityCoverage(j) > 0)
    <3>1. NamedPart(j) = 0 /\ NamedPart(i) \in {0, Ranking!Boost}
      BY <2>3 DEF NamedPart
    <3> QED BY <2>1, <3>1
  <2> QED BY <2>2, <2>3
<1>8. /\ LexicalPart(i) \in Nat /\ DensePart(i) \in Nat /\ NamedPart(i) \in Nat
      /\ x7[i] = Mean(LexicalPart(i), DensePart(i)) + NamedPart(i)
  BY <1>1, PartsAreBounded
<1>9. /\ LexicalPart(j) \in Nat /\ DensePart(j) \in Nat /\ NamedPart(j) \in Nat
      /\ x7[j] = Mean(LexicalPart(j), DensePart(j)) + NamedPart(j)
  BY <1>1, PartsAreBounded
<1>10. /\ Mean(LexicalPart(j), DensePart(j)) <= Mean(LexicalPart(i), DensePart(i))
       /\ Mean(LexicalPart(j), DensePart(j)) \in Nat /\ Mean(LexicalPart(i), DensePart(i)) \in Nat
  BY <1>6, <1>8, <1>9, MeanIsBetween
<1>11. x7[i] >= x7[j]
  BY <1>7, <1>8, <1>9, <1>10
<1> QED BY <1>1, <1>11, AheadIsEarlier

\* A chunk of a named document comes before one of another document.
LEMMA NamedComeFirst ==
    ASSUME Ranking!RankingInv, x7 # << >>,
           NEW i \in 1 .. Len(x3), NEW j \in 1 .. Len(x3),
           Ranking!EntityCoverage(i) > 0, ~ (Ranking!EntityCoverage(j) > 0)
    PROVE  Ranking!Position(x7, i) < Ranking!Position(x7, j)
<1> DEFINE mi == Mean(LexicalPart(i), DensePart(i))
           mj == Mean(LexicalPart(j), DensePart(j))
           top == Ranking!Reciprocal(1)
           boost == Ranking!Boost
<1>1. NamedPart(i) = boost /\ NamedPart(j) = 0
  BY DEF NamedPart
<1>2. boost \in Nat /\ top \in Nat /\ top < 2 * boost
  BY ReciprocalsFall
<1>3. /\ LexicalPart(i) \in Nat /\ DensePart(i) \in Nat
      /\ boost <= LexicalPart(i) /\ boost <= DensePart(i)
      /\ LexicalPart(i) <= top /\ DensePart(i) <= top
      /\ x7[i] = mi + NamedPart(i)
  BY PartsAreBounded
<1>4. /\ LexicalPart(j) \in Nat /\ DensePart(j) \in Nat
      /\ boost <= LexicalPart(j) /\ boost <= DensePart(j)
      /\ LexicalPart(j) <= top /\ DensePart(j) <= top
      /\ x7[j] = mj + NamedPart(j)
  BY PartsAreBounded
<1> HIDE DEF top, boost
<1>5. mi \in Nat /\ boost <= mi
  BY <1>2, <1>3, MeanIsBetween
<1>6. mj \in Nat /\ mj <= top
  BY <1>2, <1>4, MeanIsBetween
<1> HIDE DEF mi, mj
<1>7. x7[i] > x7[j]
  BY <1>1, <1>2, <1>3, <1>4, <1>5, <1>6
<1> QED BY <1>7, AheadIsEarlier

\* An old chunk embedded again, and found closest of all, loses no place.
LEMMA ReembeddingCostsNothing ==
    ASSUME Ranking!RankingInv, x7 # << >>, NEW i \in (1 .. Len(x3)) \ Ranking!Compatible
    PROVE  Ranking!Position([j \in DOMAIN x3 |-> Ranking!Fusion(j, Ranking!Reembedded(i))], i)
              <= Ranking!Position(x7, i)
<1> DEFINE K == Ranking!Compatible
           d == Ranking!Reembedded(i)
           s == [j \in DOMAIN x3 |-> Ranking!Fusion(j, d)]
           dense(j) == IF j = i THEN Ranking!Reciprocal(1)
                       ELSE IF j \in K THEN Ranking!Reciprocal(1 + x6[j]) ELSE LexicalPart(j)
<1>1. DOMAIN x3 = 1 .. Len(x3) /\ Len(x3) \in 0 .. 40 /\ x4 \in [1 .. Len(x3) -> Int]
  BY RanksAreKnown
<1>2. Len(x3) \in Nat
  BY <1>1
<1>3. d = [j \in K \cup {i} |-> IF j = i THEN 1 ELSE 1 + x6[j]]
  BY DEF Ranking!Reembedded
<1>4. \A j \in 1 .. Len(x3) : s[j] = Ranking!Fusion(j, d)
  BY <1>1
<1>5. /\ DOMAIN d = K \cup {i} /\ d[i] = 1
      /\ \A j \in K : j # i => d[j] = 1 + x6[j]
  BY <1>3
<1> HIDE DEF d, s, K
<1>6. ASSUME NEW j \in 1 .. Len(x3), dense(j) \in Nat
      PROVE  s[j] = Mean(LexicalPart(j), dense(j)) + NamedPart(j)
  <2>1. LexicalPart(j) \in Nat
    BY PartsAreBounded
  <2>2. CASE j \in DOMAIN d
    <3>1. Ranking!Reciprocal(d[j]) = dense(j)
      BY <1>5, <2>2
    <3>2. Ranking!Fusion(j, d)
             = (Ranking!Reciprocal(x5[j]) + Ranking!Reciprocal(d[j])) \div 2 + NamedPart(j)
      BY <2>2 DEF Ranking!Fusion, NamedPart
    <3> QED BY <1>4, <3>1, <3>2 DEF Mean, LexicalPart
  <2>3. CASE j \notin DOMAIN d
    <3>1. dense(j) = LexicalPart(j)
      BY <1>5, <2>3
    <3>2. Ranking!Fusion(j, d) = Ranking!Reciprocal(x5[j]) + NamedPart(j)
      BY <2>3 DEF Ranking!Fusion, NamedPart
    <3>3. Mean(LexicalPart(j), LexicalPart(j)) = LexicalPart(j)
      BY <2>1, MeanIsBetween
    <3>4. s[j] = LexicalPart(j) + NamedPart(j)
      BY <1>4, <3>2 DEF LexicalPart
    <3> HIDE DEF dense
    <3> QED BY <3>1, <3>3, <3>4
  <2> QED BY <2>2, <2>3
<1>7. Ranking!Reciprocal(1) \in Nat
  BY ReciprocalsFall
<1>8. s[i] >= x7[i] /\ s[i] \in Int
  <2>1. dense(i) \in Nat /\ DensePart(i) <= dense(i)
    <3>1. dense(i) = Ranking!Reciprocal(1)
      OBVIOUS
    <3> HIDE DEF dense
    <3> QED BY <1>7, <3>1, PartsAreBounded
  <2>2. s[i] = Mean(LexicalPart(i), dense(i)) + NamedPart(i)
    BY <1>6, <2>1
  <2>3. /\ LexicalPart(i) \in Nat /\ DensePart(i) \in Nat /\ NamedPart(i) \in Nat
        /\ x7[i] = Mean(LexicalPart(i), DensePart(i)) + NamedPart(i)
    BY PartsAreBounded
  <2> HIDE DEF dense
  <2>4. LexicalPart(i) <= LexicalPart(i)
    BY <2>3
  <2>5. /\ Mean(LexicalPart(i), DensePart(i)) <= Mean(LexicalPart(i), dense(i))
        /\ Mean(LexicalPart(i), DensePart(i)) \in Nat /\ Mean(LexicalPart(i), dense(i)) \in Nat
    BY <2>1, <2>3, <2>4, MeanIsBetween
  <2> QED BY <2>2, <2>3, <2>5
<1>9. ASSUME NEW j \in 1 .. Len(x3), j # i
      PROVE  s[j] <= x7[j] /\ s[j] \in Int /\ x7[j] \in Int
  <2>1. /\ LexicalPart(j) \in Nat /\ DensePart(j) \in Nat /\ NamedPart(j) \in Nat
        /\ x7[j] = Mean(LexicalPart(j), DensePart(j)) + NamedPart(j)
    BY PartsAreBounded
  <2>2. dense(j) \in Nat /\ dense(j) <= DensePart(j)
    <3>1. CASE j \in K
      <4>1. x6[j] \in 1 .. Len(x3)
        BY <3>1, RanksAreKnown DEF K
      <4>2. x6[j] \in Nat \ {0} /\ 1 + x6[j] \in Nat \ {0} /\ x6[j] <= 1 + x6[j]
        BY <1>2, <4>1
      <4>3. dense(j) = Ranking!Reciprocal(1 + x6[j]) /\ DensePart(j) = Ranking!Reciprocal(x6[j])
        BY <1>9, <3>1 DEF DensePart, K
      <4> HIDE DEF dense
      <4> QED BY <4>2, <4>3, ReciprocalsFall
    <3>2. CASE j \notin K
      <4>1. dense(j) = LexicalPart(j) /\ DensePart(j) = LexicalPart(j)
        BY <1>9, <3>2 DEF DensePart, K
      <4> HIDE DEF dense
      <4> QED BY <2>1, <4>1
    <3> QED BY <3>1, <3>2
  <2>3. s[j] = Mean(LexicalPart(j), dense(j)) + NamedPart(j)
    BY <1>6, <2>2
  <2> HIDE DEF dense
  <2>4. LexicalPart(j) <= LexicalPart(j)
    BY <2>1
  <2>5. /\ Mean(LexicalPart(j), dense(j)) <= Mean(LexicalPart(j), DensePart(j))
        /\ Mean(LexicalPart(j), DensePart(j)) \in Nat /\ Mean(LexicalPart(j), dense(j)) \in Nat
    BY <2>1, <2>2, <2>4, MeanIsBetween
  <2> QED BY <2>1, <2>3, <2>5
<1>10. ASSUME NEW j \in 1 .. Len(x3), Before(s, x4, j, i) PROVE Before(x7, x4, j, i)
  <2>1. x4[i] \in Int /\ x4[j] \in Int
    BY <1>1
  <2>2. x7[i] \in Int
    <3>1. /\ LexicalPart(i) \in Nat /\ DensePart(i) \in Nat /\ NamedPart(i) \in Nat
          /\ x7[i] = Mean(LexicalPart(i), DensePart(i)) + NamedPart(i)
      BY PartsAreBounded
    <3>2. Mean(LexicalPart(i), DensePart(i)) \in Nat
      BY <3>1, MeanIsBetween
    <3> QED BY <3>1, <3>2
  <2>3. j # i
    BY <1>2, <1>8, <1>10, <2>1 DEF Before
  <2>4. s[j] <= x7[j] /\ s[j] \in Int /\ x7[j] \in Int
    BY <1>9, <2>3
  <2> QED BY <1>8, <1>10, <2>1, <2>2, <2>4 DEF Before
<1>11. Place(Len(x3), s, x4, i) <= Place(Len(x3), x7, x4, i)
  BY <1>2, <1>10, FewerAhead
<1> QED BY <1>11, PlacesArePositions DEF s, d

\* What has been fused is in a fair order.
LEMMA FusedIsFair ==
    ASSUME Ranking!RankingInv
    PROVE  Ranking!RankingIsFair
<1> SUFFICES ASSUME x7 # << >> PROVE Ranking!RankingIsFair
  BY DEF Ranking!RankingIsFair
<1>1. DOMAIN x3 = 1 .. Len(x3)
  BY RanksAreKnown
<1>2. {Ranking!Position(x7, i) : i \in DOMAIN x3} = DOMAIN x3
  BY AheadIsEarlier
<1>3. \A i, j \in Ranking!Compatible :
         /\ x4[i] > x4[j]
         /\ x3[i].cosine > x3[j].cosine
         /\ Ranking!EntityCoverage(j) > 0 => Ranking!EntityCoverage(i) > 0
         => Ranking!Position(x7, i) < Ranking!Position(x7, j)
  BY AheadInBoth
<1>4. \A i, j \in DOMAIN x3 :
         Ranking!EntityCoverage(i) > 0 /\ ~ (Ranking!EntityCoverage(j) > 0)
         => Ranking!Position(x7, i) < Ranking!Position(x7, j)
  BY <1>1, NamedComeFirst
<1>5. \A i \in DOMAIN x3 \ Ranking!Compatible :
         Ranking!Position([j \in DOMAIN x3 |-> Ranking!Fusion(j, Ranking!Reembedded(i))], i)
            <= Ranking!Position(x7, i)
  BY <1>1, ReembeddingCostsNothing
<1> QED BY <1>2, <1>3, <1>4, <1>5 DEF Ranking!RankingIsFair

\* However many candidates there are, up to the forty that are fetched, and
\* whatever they say: the order of a ranking is fair.
THEOREM RankingsAreFair == ServiceSpec => []RankingIsFair
<1> DEFINE Inv == part = "ranking" => Ranking!RankingInv
<1>1. ServiceInit => Inv
  BY RankingInitially
<1>2. Inv /\ [ServiceNext]_serviceVars => Inv'
  BY RankingMoves, RankingStep
<1>3. Inv => RankingIsFair
  BY FusedIsFair DEF RankingIsFair
<1> QED BY <1>1, <1>2, <1>3, PTL DEF ServiceSpec

-----------------------------------------------------------------------------
(* The value of a passage, for any terms, values, events and clauses.       *)
LEMMA ValueMoves ==
    ASSUME [ServiceNext]_serviceVars, part' = "value"
    PROVE  part = "value" /\ [Value!Next]_(Value!vars)
BY DEF ServiceNext, serviceVars, shared, rest3, rest5, rest6, rest9, Value!vars

LEMMA ValueCounts == \A S : Value!Cardinality(S) = Cardinality(S)
BY DEF Value!Cardinality, Cardinality

LEMMA FirstIsLeast ==
    ASSUME NEW I, I \subseteq Nat \ {0}
    PROVE  /\ I = {} => Value!First(I) = 0
           /\ I # {} => /\ Value!First(I) \in I /\ Value!First(I) # 0
                        /\ \A j \in I : Value!First(I) <= j
<1>1. ASSUME I # {} PROVE Value!First(I) \in I /\ \A j \in I : Value!First(I) <= j
  <2>1. \E i \in I : \A j \in I : i <= j
    BY <1>1, HasLeast
  <2> QED BY <1>1, <2>1 DEF Value!First
<1> QED BY <1>1 DEF Value!First

\* One that is first stays first, unless another is put before it.
LEMMA FirstShifts ==
    ASSUME NEW n \in Nat, NEW d \in {0, 1},
           NEW I \in SUBSET (1 .. n), NEW J \in SUBSET (1 .. n + 1), I # {},
           \A i \in 1 .. n : i + d \in J <=> i \in I
    PROVE  Value!First(J) = Value!First(I) + d \/ (d = 1 /\ Value!First(J) = 1)
<1>1. I \subseteq Nat \ {0} /\ J \subseteq Nat \ {0}
  OBVIOUS
<1> DEFINE a == Value!First(I)
           b == Value!First(J)
<1>2. a \in I /\ \A j \in I : a <= j
  BY <1>1, FirstIsLeast
<1>3. a \in 1 .. n /\ a + d \in J
  BY <1>2
<1>4. b \in J /\ \A j \in J : b <= j
  BY <1>1, <1>3, FirstIsLeast
<1> HIDE DEF a, b
<1>5. b \in 1 .. n + 1 /\ b <= a + d
  BY <1>3, <1>4
<1>6. CASE d = 0
  <2>1. b \in 1 .. n /\ b + d = b
    BY <1>3, <1>5, <1>6
  <2>2. b \in I
    BY <1>4, <2>1
  <2>3. a <= b
    BY <1>2, <2>2
  <2> QED BY <1>3, <1>5, <1>6, <2>1, <2>3 DEF a, b
<1>7. CASE d = 1
  <2>1. CASE b = 1
    BY <1>7, <2>1 DEF b
  <2>2. CASE b # 1
    <3>1. b - 1 \in 1 .. n /\ (b - 1) + d = b
      BY <1>5, <1>7, <2>2
    <3>2. b - 1 \in I
      BY <1>4, <3>1
    <3>3. a <= b - 1
      BY <1>2, <3>2
    <3>4. b = a + d
      BY <1>3, <1>5, <1>7, <3>1, <3>3
    <3> QED BY <3>4 DEF a, b
  <2> QED BY <2>1, <2>2
<1> QED BY <1>6, <1>7

LEMMA TermsAreFinite ==
    ASSUME Value!ValueInv
    PROVE  /\ IsFiniteSet(x1.terms)
           /\ \A S : Cardinality(Value!Overlap(S)) \in Nat
           /\ Cardinality(Value!Overlap({})) = 0
<1>1. x1.terms \subseteq Terms
  BY DEF Value!ValueInv, Value!Questions
<1>2. IsFiniteSet(x1.terms)
  BY <1>1, TermsAssumption, FS_Subset
<1>3. ASSUME NEW S PROVE Cardinality(Value!Overlap(S)) \in Nat
  <2>1. Value!Overlap(S) \in SUBSET x1.terms
    BY DEF Value!Overlap
  <2>2. IsFiniteSet(Value!Overlap(S))
    BY <1>2, <2>1, FS_Subset
  <2> QED BY <2>2, FS_CardinalityType
<1>4. Value!Overlap({}) = {}
  BY DEF Value!Overlap
<1> QED BY <1>2, <1>3, <1>4, FS_EmptySet

\* The value of a passage is that of one of its clauses.
LEMMA ValueIsOfClause ==
    ASSUME NEW s, DOMAIN s \subseteq Nat \ {0}, Value!ValueAt(s) # 0
    PROVE  /\ Value!ValueAt(s) \in Value!Valued(s)
           /\ x1.kind = "amount" => Value!ValueAt(s) \in Value!Bids(s)
<1> DEFINE asked == {i \in Value!Valued(s) : s[i].role = x1.role}
           heaviest == {i \in Value!Bids(s) :
                           \A j \in Value!Bids(s) : Value!Weight(s, j) <= Value!Weight(s, i)}
<1>1. /\ Value!Valued(s) \subseteq Nat \ {0} /\ Value!Bids(s) \subseteq Value!Valued(s)
      /\ asked \subseteq Value!Valued(s) /\ heaviest \subseteq Value!Bids(s)
  BY DEF Value!Valued, Value!Bids
<1>2. asked \subseteq Nat \ {0} /\ heaviest \subseteq Nat \ {0}
  BY <1>1
<1>3. /\ Value!DateMatch(s) \in {Value!First(Value!Valued(s)), Value!First(asked)}
      /\ Value!BestAmount(s) = Value!First(heaviest)
  BY DEF Value!DateMatch, Value!BestAmount
<1> HIDE DEF asked, heaviest
<1>4. CASE x1.kind = "date"
  <2>1. Value!ValueAt(s) = Value!DateMatch(s)
    BY <1>4 DEF Value!ValueAt
  <2>2. ASSUME NEW I, I \subseteq Nat \ {0}, I \subseteq Value!Valued(s),
               Value!ValueAt(s) = Value!First(I)
        PROVE  Value!ValueAt(s) \in Value!Valued(s)
    BY <2>2, FirstIsLeast
  <2>3. Value!ValueAt(s) \in Value!Valued(s)
    BY <1>1, <1>2, <1>3, <2>1, <2>2
  <2> QED BY <1>4, <2>3
<1>5. CASE x1.kind = "amount"
  <2>1. Value!ValueAt(s) = Value!First(heaviest)
    BY <1>3, <1>5 DEF Value!ValueAt
  <2> QED BY <1>1, <1>2, <2>1, FirstIsLeast
<1>6. CASE x1.kind # "date" /\ x1.kind # "amount"
  <2>1. Value!ValueAt(s) = Value!First(Value!Valued(s))
    BY <1>6 DEF Value!ValueAt
  <2> QED BY <1>1, <1>6, <2>1, FirstIsLeast
<1> QED BY <1>4, <1>5, <1>6

\* The candidates of a passage, by the kind of question.
LEMMA CandidatesAre ==
    ASSUME NEW s, DOMAIN s \subseteq Nat \ {0}, NEW v \in Value!Candidates(s)
    PROVE  /\ x1.kind = "boolean" => v = Value!Polarity(s)
           /\ x1.kind = "amount" => /\ Value!InContext(s) /\ v = s[Value!ValueAt(s)].value
                                    /\ Value!ValueAt(s) # 0
           /\ x1.kind = "duration" => /\ Value!DurationSupported(s)
                                      /\ v = s[Value!ValueAt(s)].value
                                      /\ Value!ValueAt(s) # 0
           /\ x1.kind = "date" => \E e \in Value!DateEvidence(s) :
                                     /\ Value!Accepted(e) /\ v = e[Value!ValueAt(e)].value
                                     /\ Value!ValueAt(e) # 0 /\ Value!DateSupported(e)
<1>1. PICK e \in Value!Evidence(s) : Value!Accepted(e) /\ v = Value!Given(e)
  BY DEF Value!Candidates
<1>2. x1.kind # "date" => e = s
  BY DEF Value!Evidence
<1>3. CASE x1.kind = "boolean"
  BY <1>1, <1>2, <1>3 DEF Value!Given
<1>4. CASE x1.kind # "boolean"
  <2>1. v = e[Value!ValueAt(e)].value /\ Value!ValueAt(e) # 0 /\ Value!RelationSupported(e)
    BY <1>1, <1>4 DEF Value!Given, Value!Accepted
  <2>2. CASE x1.kind = "amount"
    BY <1>2, <2>1, <2>2 DEF Value!RelationSupported
  <2>3. CASE x1.kind = "duration"
    BY <1>2, <2>1, <2>3 DEF Value!RelationSupported
  <2>4. CASE x1.kind = "date"
    <3>1. e \in Value!DateEvidence(s)
      BY <2>4 DEF Value!Evidence
    <3>2. Value!DateSupported(e)
      BY <2>1, <2>4 DEF Value!RelationSupported
    <3> QED BY <1>1, <2>1, <2>4, <3>1, <3>2
  <2> QED BY <1>4, <2>2, <2>3, <2>4
<1> QED BY <1>3, <1>4

\* What a clause about nothing that is asked has in common with the question.
LEMMA UnrelatedSaysNothing ==
    ASSUME Value!ValueInv, NEW c, Value!Unrelated(c)
    PROVE  /\ c.terms = {} /\ c.role = "none" /\ c.denial = "none"
           /\ Value!Overlap(c.terms) = {}
           /\ x1.kind = "boolean" => c.value = "none"
BY DEF Value!Unrelated, Value!Overlap, Value!NoValue

\* t is s with one clause c at its place e, before or after the others.
Longer(s, c, t, d, e) ==
    /\ Len(s) \in Nat /\ DOMAIN s = 1 .. Len(s) /\ DOMAIN t = 1 .. Len(s) + 1
    /\ d \in {0, 1} /\ e = (IF d = 1 THEN 1 ELSE Len(s) + 1)
    /\ t[e] = c
    /\ \A i \in 1 .. Len(s) : t[i + d] = s[i]

LEMMA LongerIs ==
    ASSUME NEW s, NEW c, NEW t, NEW d, NEW e, Longer(s, c, t, d, e)
    PROVE  /\ e \in DOMAIN t
           /\ \A i \in DOMAIN s : i + d \in DOMAIN t /\ i + d # e
           /\ \A j \in DOMAIN t : j # e => j - d \in DOMAIN s /\ (j - d) + d = j
           /\ \A i \in DOMAIN s : i + d \in Value!Valued(t) <=> i \in Value!Valued(s)
           /\ \A i \in DOMAIN s : i + d \in Value!Bids(t) <=> i \in Value!Bids(s)
           /\ DOMAIN s \subseteq Nat \ {0} /\ DOMAIN t \subseteq Nat \ {0}
<1>1. /\ Len(s) \in Nat /\ DOMAIN s = 1 .. Len(s) /\ DOMAIN t = 1 .. Len(s) + 1
      /\ d \in {0, 1} /\ e = (IF d = 1 THEN 1 ELSE Len(s) + 1)
      /\ \A i \in DOMAIN s : t[i + d] = s[i]
  BY DEF Longer
<1> DEFINE n == Len(s)
<1> HIDE DEF n
<1>2. /\ n \in Nat /\ DOMAIN s = 1 .. n /\ DOMAIN t = 1 .. n + 1
      /\ e = (IF d = 1 THEN 1 ELSE n + 1)
  BY <1>1 DEF n
<1>3. e \in DOMAIN t
  BY <1>1, <1>2
<1>4. \A i \in DOMAIN s : i + d \in DOMAIN t /\ i + d # e
  BY <1>1, <1>2
<1>5. \A j \in DOMAIN t : j # e => j - d \in DOMAIN s /\ (j - d) + d = j
  BY <1>1, <1>2
<1>6. \A i \in DOMAIN s : i + d \in Value!Valued(t) <=> i \in Value!Valued(s)
  BY <1>1, <1>4 DEF Value!Valued
<1>7. \A i \in DOMAIN s : i + d \in Value!Bids(t) <=> i \in Value!Bids(s)
  BY <1>1, <1>6 DEF Value!Bids
<1>8. DOMAIN s \subseteq Nat \ {0} /\ DOMAIN t \subseteq Nat \ {0}
  BY <1>2
<1> QED BY <1>3, <1>4, <1>5, <1>6, <1>7, <1>8

LEMMA SameDenials ==
    ASSUME Value!ValueInv, NEW s, NEW c, NEW t, NEW d, NEW e, Longer(s, c, t, d, e),
           Value!Unrelated(c)
    PROVE  Value!DeniesRelation(t) <=> Value!DeniesRelation(s)
<1>1. c.denial = "none"
  BY UnrelatedSaysNothing
<1>2. t[e] = c /\ \A i \in DOMAIN s : t[i + d] = s[i]
  BY DEF Longer
<1>3. ASSUME Value!DeniesRelation(s) PROVE Value!DeniesRelation(t)
  <2>1. PICK i \in DOMAIN s : Value!Denies(s[i])
    BY <1>3 DEF Value!DeniesRelation
  <2>2. i + d \in DOMAIN t /\ t[i + d] = s[i]
    BY <1>2, LongerIs
  <2> QED BY <2>1, <2>2 DEF Value!DeniesRelation
<1>4. ASSUME Value!DeniesRelation(t) PROVE Value!DeniesRelation(s)
  <2>1. PICK j \in DOMAIN t : Value!Denies(t[j])
    BY <1>4 DEF Value!DeniesRelation
  <2>2. j # e
    BY <1>1, <1>2, <2>1 DEF Value!Denies
  <2>3. j - d \in DOMAIN s /\ (j - d) + d = j
    BY <2>2, LongerIs
  <2>4. t[j] = s[j - d]
    BY <1>2, <2>3
  <2> QED BY <2>1, <2>3, <2>4 DEF Value!DeniesRelation
<1> QED BY <1>3, <1>4

\* A yes/no question.
LEMMA LongerBoolean ==
    ASSUME Value!ValueInv, NEW s, NEW c, NEW t, NEW d, NEW e, Longer(s, c, t, d, e),
           Value!Unrelated(c), x1.kind = "boolean", NEW w \in Value!Candidates(s)
    PROVE  Value!Candidates(t) \subseteq Value!Candidates(s)
<1>1. c.value = "none"
  BY UnrelatedSaysNothing
<1>2. t[e] = c /\ \A i \in DOMAIN s : t[i + d] = s[i]
  BY DEF Longer
<1>3. Value!Observed(t) = Value!Observed(s)
  <2>1. ASSUME NEW j \in Value!Valued(t) PROVE \E i \in Value!Valued(s) : s[i].value = t[j].value
    <3>1. j \in DOMAIN t /\ j # e
      BY <1>1, <1>2 DEF Value!Valued, Value!NoValue
    <3>2. j - d \in DOMAIN s /\ (j - d) + d = j
      BY <3>1, LongerIs
    <3>3. j - d \in Value!Valued(s) /\ s[j - d] = t[j]
      BY <1>2, <3>2, LongerIs
    <3> QED BY <3>3
  <2>2. ASSUME NEW i \in Value!Valued(s) PROVE \E j \in Value!Valued(t) : t[j].value = s[i].value
    <3>1. i \in DOMAIN s
      BY DEF Value!Valued
    <3>2. i + d \in Value!Valued(t) /\ t[i + d] = s[i]
      BY <1>2, <3>1, LongerIs
    <3> QED BY <3>2
  <2> QED BY <2>1, <2>2 DEF Value!Observed
<1>4. Value!Polarity(t) = Value!Polarity(s)
  BY <1>3, SameDenials DEF Value!Polarity, Value!Contradicts
<1>5. DOMAIN s \subseteq Nat \ {0} /\ DOMAIN t \subseteq Nat \ {0}
  BY LongerIs
<1>6. w = Value!Polarity(s)
  BY <1>5, CandidatesAre
<1>7. \A v \in Value!Candidates(t) : v = Value!Polarity(t)
  BY <1>5, CandidatesAre
<1> QED BY <1>4, <1>6, <1>7

\* A clause in which nothing is shared does not support its value.
LEMMA ContextIsNotNew ==
    ASSUME Value!ValueInv, NEW s, NEW c, NEW t, NEW e, Longer(s, c, t, 1, e),
           Value!Unrelated(c), x1.terms # {}, Value!InContext(t)
    PROVE  Value!ValueAt(t) # e
<1> SUFFICES ASSUME Value!ValueAt(t) = e PROVE FALSE
  OBVIOUS
<1>1. e = 1 /\ t[1] = c /\ DOMAIN t \subseteq Nat \ {0} /\ 1 \in DOMAIN t
  BY LongerIs DEF Longer
<1> DEFINE same == {i \in Value!Valued(t) : t[i].value = t[Value!ValueAt(t)].value}
<1>2. same \subseteq Nat \ {0}
  BY <1>1 DEF Value!Valued
<1>3. Value!ValueAt(t) \in Value!Valued(t)
  BY <1>1, ValueIsOfClause
<1>4. 1 \in same
  BY <1>1, <1>3
<1>5. Value!First(same) \in same /\ Value!First(same) <= 1
  BY <1>2, <1>4, FirstIsLeast
<1>6. Value!First(same) = 1
  BY <1>2, <1>5
<1>7. Value!ContextOf(t) = 1
  BY <1>6 DEF Value!ContextOf
<1>8. Value!Overlap(t[Value!ContextOf(t)].terms) = {}
  BY <1>1, <1>7, UnrelatedSaysNothing
<1> QED BY <1>8 DEF Value!InContext, Value!MostTerms, Value!Paraphrased

\* The value of a question about an amount or a duration.
LEMMA LongerValue ==
    ASSUME Value!ValueInv, NEW s, NEW c, NEW t, NEW d, NEW e, Longer(s, c, t, d, e),
           Value!Unrelated(c), x1.kind \in {"amount", "duration"}, Value!ValueAt(s) # 0
    PROVE  Value!ValueAt(t) = Value!ValueAt(s) + d \/ (d = 1 /\ Value!ValueAt(t) = e)
<1> DEFINE n == Len(s)
<1>1. /\ n \in Nat /\ DOMAIN s = 1 .. n /\ DOMAIN t = 1 .. n + 1
      /\ d \in {0, 1} /\ e = (IF d = 1 THEN 1 ELSE n + 1) /\ t[e] = c
      /\ \A i \in DOMAIN s : t[i + d] = s[i]
  BY DEF Longer
<1>2. DOMAIN s \subseteq Nat \ {0}
  BY LongerIs
<1> HIDE DEF n
<1>3. ASSUME NEW I \in SUBSET DOMAIN s, NEW J \in SUBSET DOMAIN t,
             \A i \in DOMAIN s : i + d \in J <=> i \in I,
             Value!ValueAt(s) = Value!First(I), Value!ValueAt(t) = Value!First(J)
      PROVE  Value!ValueAt(t) = Value!ValueAt(s) + d \/ (d = 1 /\ Value!ValueAt(t) = e)
  <2>1. I # {}
    BY <1>2, <1>3, FirstIsLeast
  <2>2. I \in SUBSET (1 .. n) /\ J \in SUBSET (1 .. n + 1)
    BY <1>1, <1>3
  <2>3. \A i \in 1 .. n : i + d \in J <=> i \in I
    BY <1>1, <1>3
  <2>4. n \in Nat /\ d \in {0, 1}
    BY <1>1
  <2>5. Value!First(J) = Value!First(I) + d \/ (d = 1 /\ Value!First(J) = 1)
    BY <2>1, <2>2, <2>3, <2>4, FirstShifts
  <2> QED BY <1>1, <1>3, <2>5
<1>4. CASE x1.kind = "duration"
  <2>1. /\ Value!ValueAt(s) = Value!First(Value!Valued(s))
        /\ Value!ValueAt(t) = Value!First(Value!Valued(t))
    BY <1>4 DEF Value!ValueAt
  <2>2. Value!Valued(s) \in SUBSET DOMAIN s /\ Value!Valued(t) \in SUBSET DOMAIN t
    BY DEF Value!Valued
  <2>3. \A i \in DOMAIN s : i + d \in Value!Valued(t) <=> i \in Value!Valued(s)
    BY LongerIs
  <2> QED BY <1>3, <2>1, <2>2, <2>3
<1>5. CASE x1.kind = "amount"
  <2> DEFINE heaviest(u) ==
               {i \in Value!Bids(u) :
                   \A j \in Value!Bids(u) : Value!Weight(u, j) <= Value!Weight(u, i)}
  <2>1. /\ Value!ValueAt(s) = Value!First(heaviest(s))
        /\ Value!ValueAt(t) = Value!First(heaviest(t))
    BY <1>5 DEF Value!ValueAt, Value!BestAmount
  <2>2. heaviest(s) \in SUBSET DOMAIN s /\ heaviest(t) \in SUBSET DOMAIN t
    BY DEF Value!Bids, Value!Valued
  <2>3. \A i \in DOMAIN s : Value!Weight(t, i + d) = Value!Weight(s, i)
    BY <1>1 DEF Value!Weight
  <2>4. Value!Weight(t, e) = 0
    <3>1. Value!Overlap(c.terms) = Value!Overlap({})
      BY UnrelatedSaysNothing
    <3> QED BY <1>1, <3>1, ValueCounts, TermsAreFinite DEF Value!Weight
  <2>5. \A i : Value!Weight(s, i) \in Nat
    BY ValueCounts, TermsAreFinite DEF Value!Weight
  <2>6. ASSUME NEW i \in DOMAIN s PROVE i + d \in heaviest(t) <=> i \in heaviest(s)
    <3>1. i + d \in Value!Bids(t) <=> i \in Value!Bids(s)
      BY LongerIs
    <3>2. ASSUME i \in heaviest(s) PROVE i + d \in heaviest(t)
      <4>1. i + d \in Value!Bids(t)
        BY <3>1, <3>2
      <4>2. ASSUME NEW j \in Value!Bids(t) PROVE Value!Weight(t, j) <= Value!Weight(t, i + d)
        <5>1. j \in DOMAIN t
          BY DEF Value!Bids, Value!Valued
        <5>2. CASE j = e
          <6>1. Value!Weight(t, i + d) \in Nat
            BY <2>3, <2>5
          <6> QED BY <2>4, <5>2, <6>1
        <5>3. CASE j # e
          <6>1. j - d \in DOMAIN s /\ (j - d) + d = j
            BY <5>1, <5>3, LongerIs
          <6>2. j - d \in Value!Bids(s)
            BY <6>1, LongerIs
          <6>3. Value!Weight(s, j - d) <= Value!Weight(s, i)
            BY <3>2, <6>2
          <6>4. Value!Weight(t, j) = Value!Weight(s, j - d)
            BY <2>3, <6>1
          <6> QED BY <2>3, <6>3, <6>4
        <5> QED BY <5>2, <5>3
      <4> QED BY <4>1, <4>2
    <3>3. ASSUME i + d \in heaviest(t) PROVE i \in heaviest(s)
      <4>1. i \in Value!Bids(s)
        BY <3>1, <3>3
      <4>2. ASSUME NEW j \in Value!Bids(s) PROVE Value!Weight(s, j) <= Value!Weight(s, i)
        <5>1. j \in DOMAIN s
          BY DEF Value!Bids, Value!Valued
        <5>2. j + d \in Value!Bids(t)
          BY <5>1, LongerIs
        <5>3. Value!Weight(t, j + d) <= Value!Weight(t, i + d)
          BY <3>3, <5>2
        <5> QED BY <2>3, <5>1, <5>3
      <4> QED BY <4>1, <4>2
    <3> QED BY <3>2, <3>3
  <2> HIDE DEF heaviest
  <2> QED BY <1>3, <2>1, <2>2, <2>6
<1> QED BY <1>4, <1>5

LEMMA LongerInContext ==
    ASSUME Value!ValueInv, NEW s, NEW c, NEW t, NEW d, NEW e, Longer(s, c, t, d, e),
           Value!Unrelated(c), x1.kind \in {"amount", "duration"},
           x1.terms # {}, x1.events = {}, NEW w \in Value!Candidates(s)
    PROVE  Value!Candidates(t) \subseteq Value!Candidates(s)
<1>1. DOMAIN s \subseteq Nat \ {0} /\ DOMAIN t \subseteq Nat \ {0}
  BY LongerIs
<1>2. w = s[Value!ValueAt(s)].value /\ Value!ValueAt(s) # 0
  BY <1>1, CandidatesAre
<1>3. ASSUME NEW v \in Value!Candidates(t) PROVE v = w
  <2>1. v = t[Value!ValueAt(t)].value /\ Value!InContext(t)
    BY <1>1, CandidatesAre DEF Value!DurationSupported
  <2>2. Value!ValueAt(t) = Value!ValueAt(s) + d \/ (d = 1 /\ Value!ValueAt(t) = e)
    BY <1>2, LongerValue
  <2>3. d = 1 => Value!ValueAt(t) # e
    BY <2>1, ContextIsNotNew
  <2>4. Value!ValueAt(s) \in DOMAIN s
    BY <1>1, <1>2, ValueIsOfClause DEF Value!Valued
  <2>5. t[Value!ValueAt(s) + d] = s[Value!ValueAt(s)]
    BY <2>4 DEF Longer
  <2> QED BY <1>2, <2>1, <2>2, <2>3, <2>5
<1> QED BY <1>3

\* A candidate of a question about a date is the date of one of its clauses,
\* of the role that is asked, which does not deny it; each of several is accepted
\* on its own.
LEMMA DateCandidate ==
    ASSUME Value!ValueInv, NEW s, DOMAIN s \subseteq Nat \ {0}, IsFiniteSet(Value!Valued(s)),
           x1.kind = "date", NEW v \in Value!Candidates(s)
    PROVE  \E i \in Value!Valued(s) :
              /\ v = s[i].value
              /\ ~Value!Denies(s[i])
              /\ x1.role # "none" => s[i].role = x1.role
              /\ Cardinality(Value!Valued(s)) >= 2 =>
                    x1.role \in {"none", s[i].role} /\ Value!Accepted(<<s[i]>>)
<1> DEFINE spoken == {j \in Value!Valued(s) : x1.role \in {"none", s[j].role}}
           own == {<<s[i]>> : i \in spoken}
<1>1. PICK e \in Value!DateEvidence(s) :
              /\ Value!Accepted(e) /\ v = e[Value!ValueAt(e)].value
              /\ Value!ValueAt(e) # 0 /\ Value!DateSupported(e)
  BY CandidatesAre
<1>2. x1.role # "none" => e[Value!ValueAt(e)].role = x1.role
  BY <1>1 DEF Value!DateSupported
<1>6. ~Value!DeniesRelation(e)
  BY <1>1 DEF Value!Accepted, Value!Rejected
<1>3. e = s \/ (e \in own /\ ~(Cardinality(Value!Valued(s)) < 2))
  BY <1>1, ValueCounts DEF Value!DateEvidence
<1>4. CASE e \in own
  <2>1. PICK i \in spoken : e = <<s[i]>>
    BY <1>4
  <2>2. DOMAIN e = {1} /\ e[1] = s[i]
    BY <2>1
  <2>3. Value!ValueAt(e) \in DOMAIN e
    BY <1>1, <2>2, ValueIsOfClause DEF Value!Valued
  <2>4. v = s[i].value /\ (x1.role # "none" => s[i].role = x1.role)
    BY <1>1, <1>2, <2>2, <2>3
  <2>5. ~Value!Denies(s[i])
    BY <1>6, <2>2 DEF Value!DeniesRelation
  <2> QED BY <1>1, <2>1, <2>4, <2>5
<1>5. CASE e = s /\ ~(e \in own)
  <2>1. Value!ValueAt(s) \in Value!Valued(s)
    BY <1>1, <1>5, ValueIsOfClause
  <2>3. ~Value!Denies(s[Value!ValueAt(s)])
    BY <1>5, <1>6, <2>1 DEF Value!DeniesRelation, Value!Valued
  <2>2. CASE Cardinality(Value!Valued(s)) >= 2
    <3>1. Cardinality(Value!Valued(s)) \in Nat
      BY FS_CardinalityType
    <3>2. own = {}
      BY <1>1, <1>5, <2>2, <3>1, ValueCounts DEF Value!DateEvidence
    <3>3. Value!ValueAt(s) \in spoken
      BY <1>2, <1>5, <2>1
    <3> QED BY <1>1, <1>2, <1>5, <2>1, <2>3, <3>2, <3>3
  <2> QED BY <1>1, <1>2, <1>5, <2>1, <2>2, <2>3
<1> QED BY <1>3, <1>4, <1>5

\* A clause in which nothing is asked for supports no date of its own.
LEMMA UnrelatedIsNoDate ==
    ASSUME Value!ValueInv, NEW c, Value!Unrelated(c), x1.terms # {}, x1.kind = "date"
    PROVE  ~Value!Accepted(<<c>>)
<1> SUFFICES ASSUME Value!Accepted(<<c>>) PROVE FALSE
  OBVIOUS
<1> DEFINE e == <<c>>
<1>1. DOMAIN e = {1} /\ e[1] = c
  OBVIOUS
<1>2. Value!ValueAt(e) # 0 /\ Value!DateSupported(e)
  BY DEF Value!Accepted, Value!RelationSupported
<1>3. Value!ValueAt(e) \in DOMAIN e
  BY <1>1, <1>2, ValueIsOfClause DEF Value!Valued
<1>4. x1.role = "none"
  BY <1>1, <1>2, <1>3, UnrelatedSaysNothing DEF Value!DateSupported
<1>5. Value!TermsOf(e) = {}
  BY <1>1, UnrelatedSaysNothing DEF Value!TermsOf
<1>6. Value!Overlap(Value!TermsOf(e)) = {}
  BY <1>5 DEF Value!Overlap
<1>7. Value!AtLeast(2, Value!TermsOf(e))
  BY <1>2, <1>4, <1>6 DEF Value!DateSupported, Value!Paraphrased
<1>8. /\ Cardinality(Value!Overlap(Value!TermsOf(e))) = 0
      /\ Cardinality(x1.terms) \in Nat /\ Cardinality(x1.terms) # 0
  BY <1>5, TermsAreFinite, FS_CardinalityType, FS_EmptySet
<1> QED BY <1>7, <1>8, ValueCounts DEF Value!AtLeast

LEMMA LongerDate ==
    ASSUME Value!ValueInv, NEW s, NEW c, NEW t, NEW d, NEW e, Longer(s, c, t, d, e),
           Value!Unrelated(c), x1.kind = "date", x1.terms # {}, NEW w \in Value!Candidates(s)
    PROVE  Value!Candidates(t) \subseteq Value!Candidates(s)
<1>1. DOMAIN s \subseteq Nat \ {0} /\ DOMAIN t \subseteq Nat \ {0}
  BY LongerIs
<1>2. t[e] = c /\ \A i \in DOMAIN s : t[i + d] = s[i]
  BY DEF Longer
<1>3. IsFiniteSet(Value!Valued(s)) /\ IsFiniteSet(Value!Valued(t))
  <2>1. Len(s) \in Nat /\ DOMAIN s = 1 .. Len(s) /\ DOMAIN t = 1 .. Len(s) + 1
    BY DEF Longer
  <2>2. IsFiniteSet(DOMAIN s) /\ IsFiniteSet(DOMAIN t)
    BY <2>1, FS_Interval
  <2>3. Value!Valued(s) \in SUBSET DOMAIN s /\ Value!Valued(t) \in SUBSET DOMAIN t
    BY DEF Value!Valued
  <2>4. IsFiniteSet(Value!Valued(s))
    BY <2>2, <2>3, FS_Subset
  <2>5. IsFiniteSet(Value!Valued(t))
    BY <2>2, <2>3, FS_Subset
  <2> QED BY <2>4, <2>5
<1>4. PICK k \in Value!Valued(s) : w = s[k].value
  BY <1>1, <1>3, DateCandidate
<1>5. k \in DOMAIN s /\ k + d \in Value!Valued(t) /\ t[k + d] = s[k]
  <2>1. k \in DOMAIN s
    BY DEF Value!Valued
  <2> QED BY <1>2, <2>1, LongerIs
<1>6. ASSUME NEW v \in Value!Candidates(t) PROVE v \in Value!Candidates(s)
  <2>1. PICK j \in Value!Valued(t) :
              /\ v = t[j].value
              /\ Cardinality(Value!Valued(t)) >= 2 =>
                    x1.role \in {"none", t[j].role} /\ Value!Accepted(<<t[j]>>)
    BY <1>1, <1>3, DateCandidate
  <2>2. CASE j = k + d
    BY <1>4, <1>5, <2>1, <2>2
  <2>3. CASE j # k + d
    <3>1. Cardinality(Value!Valued(t)) >= 2
      BY <1>3, <1>5, <2>3, TwoCount
    <3>2. j # e
      BY <1>2, <2>1, <3>1, UnrelatedIsNoDate
    <3>3. j \in DOMAIN t
      BY DEF Value!Valued
    <3>4. j - d \in DOMAIN s /\ (j - d) + d = j
      BY <3>2, <3>3, LongerIs
    <3>5. j - d \in Value!Valued(s) /\ s[j - d] = t[j]
      BY <1>2, <3>4, LongerIs
    <3>6. j - d # k
      BY <2>3, <3>4
    <3>7. Cardinality(Value!Valued(s)) >= 2
      BY <1>3, <1>4, <3>5, <3>6, TwoCount
    <3>8. <<t[j]>> \in Value!DateEvidence(s)
      <4>1. Cardinality(Value!Valued(s)) \in Nat
        BY <1>3, FS_CardinalityType
      <4> QED BY <2>1, <3>1, <3>5, <3>7, <4>1, ValueCounts DEF Value!DateEvidence
    <3>9. Value!Given(<<t[j]>>) \in Value!Candidates(s)
      BY <2>1, <3>1, <3>8 DEF Value!Candidates, Value!Evidence
    <3>10. Value!Given(<<t[j]>>) = t[j].value
      <4> DEFINE f == <<t[j]>>
      <4>1. DOMAIN f = {1} /\ f[1] = t[j]
        OBVIOUS
      <4>2. Value!ValueAt(f) # 0
        BY <2>1, <3>1 DEF Value!Accepted
      <4>3. Value!ValueAt(f) \in DOMAIN f
        BY <4>1, <4>2, ValueIsOfClause DEF Value!Valued
      <4> QED BY <4>1, <4>3 DEF Value!Given
    <3> QED BY <2>1, <3>9, <3>10
  <2> QED BY <2>2, <2>3
<1> QED BY <1>6

\* A clause about something else gives no other answer, wherever it stands.
LEMMA LongerSaysNoOther ==
    ASSUME Value!ValueInv, NEW s, NEW c, NEW t, NEW d, NEW e, Longer(s, c, t, d, e),
           Value!Unrelated(c), x1.terms # {}, x1.events = {}, x1.kind # "severity",
           Value!Candidates(s) # {}
    PROVE  Value!Candidates(t) \subseteq Value!Candidates(s)
<1>1. PICK w \in Value!Candidates(s) : TRUE
  OBVIOUS
<1>2. x1.kind \in {"boolean", "date", "amount", "duration"}
  BY DEF Value!ValueInv, Value!Questions, Value!Kinds
<1>3. CASE x1.kind = "boolean"
  BY <1>1, <1>3, LongerBoolean
<1>4. CASE x1.kind = "date"
  BY <1>1, <1>4, LongerDate
<1>5. CASE x1.kind \in {"amount", "duration"}
  BY <1>1, <1>5, LongerInContext
<1> QED BY <1>2, <1>3, <1>4, <1>5

\* A clause that gives a candidate does not deny what is asked.
LEMMA CandidateIsNotDenied ==
    ASSUME Value!ValueInv, NEW s, DOMAIN s \subseteq Nat \ {0}, IsFiniteSet(Value!Valued(s)),
           x1.kind # "boolean", NEW v \in Value!Candidates(s)
    PROVE  \E i \in Value!Valued(s) : v = s[i].value /\ ~Value!Denies(s[i])
<1>1. CASE x1.kind = "date"
  BY <1>1, DateCandidate
<1>2. CASE x1.kind # "date"
  <2>1. Value!Accepted(s) /\ v = s[Value!ValueAt(s)].value
    BY <1>2 DEF Value!Candidates, Value!Evidence, Value!Given
  <2>2. Value!ValueAt(s) # 0 /\ ~Value!DeniesRelation(s)
    BY <2>1 DEF Value!Accepted, Value!Rejected
  <2>3. Value!ValueAt(s) \in Value!Valued(s)
    BY <2>2, ValueIsOfClause
  <2>4. ~Value!Denies(s[Value!ValueAt(s)])
    BY <2>2, <2>3 DEF Value!DeniesRelation, Value!Valued
  <2> QED BY <2>1, <2>3, <2>4
<1> QED BY <1>1, <1>2

\* The clause in which a value is judged gives it and shares the terms.
LEMMA ContextGives ==
    ASSUME NEW s, DOMAIN s \subseteq Nat \ {0}, Value!InContext(s), x1.terms # {}
    PROVE  \E i \in Value!Valued(s) :
              s[i].value = s[Value!ValueAt(s)].value /\ Value!SharesMost(s[i])
<1> DEFINE same == {i \in Value!Valued(s) : s[i].value = s[Value!ValueAt(s)].value}
<1>1. Value!ValueAt(s) \in same
  BY ValueIsOfClause DEF Value!InContext
<1>2. same \subseteq Nat \ {0}
  BY DEF Value!Valued
<1>3. Value!First(same) \in same
  BY <1>1, <1>2, FirstIsLeast
<1>4. Value!ContextOf(s) \in same
  BY <1>3 DEF Value!ContextOf
<1>5. Value!SharesMost(s[Value!ContextOf(s)])
  BY DEF Value!InContext, Value!Paraphrased, Value!SharesMost
<1> QED BY <1>4, <1>5

\* A clause that is accepted as a date on its own shares enough of the terms.
LEMMA AcceptedShares ==
    ASSUME NEW c, Value!Accepted(<<c>>), x1.kind = "date", x1.role = "none"
    PROVE  Value!SharesEnough(c)
<1> DEFINE e == <<c>>
<1>1. Value!DateSupported(e)
  BY DEF Value!Accepted, Value!RelationSupported
<1>2. Value!TermsOf(e) = c.terms
  BY DEF Value!TermsOf
<1> HIDE DEF e
<1> QED BY <1>1, <1>2 DEF Value!DateSupported, Value!Paraphrased, Value!SharesEnough

LEMMA ValueIsSound == Value!ValueInv => Value!AcceptedIsAsked
<1> SUFFICES ASSUME Value!ValueInv PROVE Value!AcceptedIsAsked
  OBVIOUS
<1>1. x2 \in Seq(Value!Clauses) /\ Value!AskedFor(x1)
  BY DEF Value!ValueInv
<1>2. Len(x2) \in Nat /\ DOMAIN x2 = 1 .. Len(x2)
  BY <1>1, LenProperties
<1>3. DOMAIN x2 \subseteq Nat \ {0}
  BY <1>2
<1>9. IsFiniteSet(Value!Valued(x2))
  <2>1. IsFiniteSet(DOMAIN x2)
    BY <1>2, FS_Interval
  <2>2. Value!Valued(x2) \in SUBSET DOMAIN x2
    BY DEF Value!Valued
  <2> QED BY <2>1, <2>2, FS_Subset
<1>10. ASSUME x1.kind # "boolean", NEW v \in Value!Candidates(x2)
       PROVE  \E i \in Value!Giving(v) : ~Value!Denies(x2[i])
  BY <1>3, <1>9, <1>10, CandidateIsNotDenied DEF Value!Giving
<1>4. ASSUME x1.role # "none", NEW v \in Value!Candidates(x2)
      PROVE  \E i \in Value!Giving(v) : x2[i].role = x1.role /\ ~Value!Denies(x2[i])
  <2>1. x1.kind = "date"
    BY <1>1, <1>4 DEF Value!AskedFor
  <2> QED BY <1>3, <1>4, <1>9, <2>1, DateCandidate DEF Value!Giving
<1>11. ASSUME x1.kind = "date", x1.role = "none", Cardinality(Value!Valued(x2)) >= 2,
              NEW v \in Value!Candidates(x2)
       PROVE  \E i \in Value!Giving(v) : Value!SharesEnough(x2[i]) /\ ~Value!Denies(x2[i])
  <2>1. PICK i \in Value!Valued(x2) :
              v = x2[i].value /\ ~Value!Denies(x2[i]) /\ Value!Accepted(<<x2[i]>>)
    BY <1>3, <1>9, <1>11, DateCandidate
  <2>2. Value!SharesEnough(x2[i])
    BY <1>11, <2>1, AcceptedShares
  <2> QED BY <2>1, <2>2 DEF Value!Giving
<1>12. ASSUME x1.kind \in {"amount", "duration"}, x1.terms # {}, x1.events = {},
              NEW v \in Value!Candidates(x2)
       PROVE  \E i \in Value!Giving(v) : Value!SharesMost(x2[i])
  <2>1. Value!InContext(x2) /\ v = x2[Value!ValueAt(x2)].value
    BY <1>3, <1>12, CandidatesAre DEF Value!DurationSupported
  <2> QED BY <1>3, <1>12, <2>1, ContextGives DEF Value!Giving
<1>5. ASSUME x1.kind = "amount", NEW v \in Value!Candidates(x2)
      PROVE  Value!Giving(v) \cap Value!Bids(x2) # {}
  <2>1. v = x2[Value!ValueAt(x2)].value /\ Value!ValueAt(x2) # 0
    BY <1>3, <1>5, CandidatesAre
  <2> QED BY <1>3, <1>5, <2>1, ValueIsOfClause DEF Value!Giving
<1>6. ASSUME x1.kind = "boolean", "yes" \in Value!Candidates(x2)
      PROVE  ~Value!DeniesRelation(x2)
  <2>1. Value!Polarity(x2) = "yes"
    BY <1>3, <1>6, CandidatesAre
  <2> QED BY <2>1 DEF Value!Polarity
<1>7. ASSUME Value!Candidates(x2) # {}, x1.terms # {}, x1.events = {}, x1.kind # "severity",
             NEW c \in Value!Clauses, Value!Unrelated(c)
      PROVE  /\ Value!Candidates(<<c>> \o x2) \subseteq Value!Candidates(x2)
             /\ Value!Candidates(Append(x2, c)) \subseteq Value!Candidates(x2)
  <2> DEFINE n == Len(x2)
             before == <<c>> \o x2
             after == Append(x2, c)
  <2>1. Longer(x2, c, before, 1, 1)
    <3>1. <<c>> \in Seq(Value!Clauses) /\ Len(<<c>>) = 1
      OBVIOUS
    <3>2. /\ Len(before) = 1 + n
          /\ before \in Seq(Value!Clauses)
          /\ \A i \in 1 .. 1 + n : before[i] = IF i <= 1 THEN <<c>>[i] ELSE x2[i - 1]
      BY <1>1, <3>1, ConcatProperties
    <3>3. DOMAIN before = 1 .. n + 1
      BY <1>2, <3>2, LenProperties
    <3> HIDE DEF before
    <3>4. before[1] = c
      BY <1>2, <3>2
    <3>5. \A i \in 1 .. n : before[i + 1] = x2[i]
      BY <1>2, <3>2
    <3> QED BY <1>2, <3>3, <3>4, <3>5 DEF Longer
  <2>2. Longer(x2, c, after, 0, n + 1)
    <3>1. /\ Len(after) = n + 1
          /\ after \in Seq(Value!Clauses)
          /\ \A i \in 1 .. n : after[i] = x2[i]
          /\ after[n + 1] = c
      BY <1>1, AppendProperties
    <3>2. DOMAIN after = 1 .. n + 1
      BY <3>1, LenProperties
    <3> HIDE DEF after
    <3>3. \A i \in 1 .. n : after[i + 0] = x2[i]
      BY <1>2, <3>1
    <3> QED BY <1>2, <3>1, <3>2, <3>3 DEF Longer
  <2> HIDE DEF before, after
  <2>3. Value!Candidates(before) \subseteq Value!Candidates(x2)
    BY <1>7, <2>1, LongerSaysNoOther
  <2>4. Value!Candidates(after) \subseteq Value!Candidates(x2)
    BY <1>7, <2>2, LongerSaysNoOther
  <2> QED BY <2>3, <2>4 DEF before, after
<1>8. /\ Value!Candidates(x2) # {}
      /\ x1.terms # {}
      /\ x1.events = {}
      /\ x1.kind # "severity"
      => \A c \in {f \in Value!Clauses : Value!Unrelated(f)} :
             /\ Value!Candidates(<<c>> \o x2) \subseteq Value!Candidates(x2)
             /\ Value!Candidates(Append(x2, c)) \subseteq Value!Candidates(x2)
  BY <1>7
<1> QED BY <1>4, <1>5, <1>6, <1>8, <1>10, <1>11, <1>12, ValueCounts DEF Value!AcceptedIsAsked

ValueIsQuestion == part = "value" => Value!ValueInv

\* AcceptedIsAsked: a value a passage becomes a candidate for is not denied by
\* every clause that gives it; of the role, the terms or the part that is asked it
\* is, as far as each kind of question is judged by a clause; and a clause about
\* something else, before or after the passage, does not change it
\* (answering.py, _value_for and _relation_supported).
THEOREM AcceptedIsAlwaysAsked == ServiceSpec => []AcceptedIsAsked
<1>1. ServiceInit => ValueIsQuestion
  <2> SUFFICES ASSUME ServiceInit, part = "value" PROVE Value!ValueInv
    BY DEF ValueIsQuestion
  <2>1. Value!Init
    BY DEF ServiceInit
  <2>2. x2 = <<>> /\ x1 \in Value!Questions /\ Value!AskedFor(x1)
    BY <2>1 DEF Value!Init
  <2>3. <<>> \in Seq(Value!Clauses)
    OBVIOUS
  <2> QED BY <2>2, <2>3 DEF Value!ValueInv
<1>2. ValueIsQuestion /\ [ServiceNext]_serviceVars => ValueIsQuestion'
  <2> SUFFICES ASSUME ValueIsQuestion, [ServiceNext]_serviceVars, part' = "value"
               PROVE  Value!ValueInv'
    BY DEF ValueIsQuestion
  <2>1. part = "value" /\ [Value!Next]_(Value!vars)
    BY ValueMoves
  <2>2. Value!ValueInv
    BY <2>1 DEF ValueIsQuestion
  <2>3. CASE UNCHANGED Value!vars
    <3>1. x1' = x1 /\ x2' = x2
      BY <2>3 DEF Value!vars
    <3>2. Value!Clauses' = Value!Clauses
      BY <3>1 DEF Value!Clauses, Value!OnlyOf
    <3> QED BY <2>2, <3>1, <3>2 DEF Value!ValueInv
  <2>4. CASE Value!Say
    <3>1. PICK c \in Value!Clauses : x1' = x1 /\ x2' = Append(x2, c)
      BY <2>4 DEF Value!Say
    <3>2. Value!Clauses' = Value!Clauses
      BY <3>1 DEF Value!Clauses, Value!OnlyOf
    <3>3. x2' \in Seq(Value!Clauses)
      BY <2>2, <3>1, AppendProperties DEF Value!ValueInv
    <3> QED BY <2>2, <3>1, <3>2, <3>3 DEF Value!ValueInv
  <2> QED BY <2>1, <2>3, <2>4 DEF Value!Next
<1>3. ValueIsQuestion => AcceptedIsAsked
  BY ValueIsSound DEF ValueIsQuestion, AcceptedIsAsked
<1> QED BY <1>1, <1>2, <1>3, PTL DEF ServiceSpec

-----------------------------------------------------------------------------
(* The grounded answer, for any values and any number of chunks and         *)
(* passages.                                                                *)
LEMMA GroundedMoves ==
    ASSUME [ServiceNext]_serviceVars, part' = "grounded"
    PROVE  part = "grounded" /\ [Grounded!Next]_(Grounded!vars)
BY DEF ServiceNext, serviceVars, shared, rest3, rest5, rest6, rest9, Grounded!vars

LEMMA GroundedCounts == \A S : Grounded!Cardinality(S) = Cardinality(S)
BY DEF Grounded!Cardinality, Cardinality

\* Of rows of different passages, one is stronger than all others.
LEMMA OneIsStrongest ==
    ASSUME NEW R, R # {},
           \A r \in R : r.score \in 0 .. 2 /\ r.chunk \in Nat /\ r.passage \in Nat,
           \A r, o \in R : r.passage = o.passage => r = o
    PROVE  /\ Grounded!Strongest(R) \in R
           /\ \A o \in R : o.score <= Grounded!Strongest(R).score
<1>1. PICK r1 \in R : \A o \in R : o.score <= r1.score
  <2> DEFINE T == {2 - r.score : r \in R}
  <2>1. T \subseteq Nat /\ T # {}
    OBVIOUS
  <2>2. PICK x \in T : \A y \in T : x <= y
    BY <2>1, HasLeast
  <2>3. PICK r \in R : x = 2 - r.score
    OBVIOUS
  <2>4. \A o \in R : 2 - r.score <= 2 - o.score
    BY <2>2, <2>3
  <2> HIDE DEF T
  <2>5. \A o \in R : o.score <= r.score
    BY <2>4
  <2> QED BY <2>5
<1> DEFINE Top == {r \in R : r.score = r1.score}
<1>2. PICK r2 \in Top : \A o \in Top : r2.chunk <= o.chunk
  <2> DEFINE T == {r.chunk : r \in Top}
  <2>1. T \subseteq Nat /\ T # {}
    OBVIOUS
  <2>2. PICK x \in T : \A y \in T : x <= y
    BY <2>1, HasLeast
  <2> QED BY <2>2
<1> DEFINE First == {r \in Top : r.chunk = r2.chunk}
<1>3. PICK r3 \in First : \A o \in First : r3.passage <= o.passage
  <2> DEFINE T == {r.passage : r \in First}
  <2>1. T \subseteq Nat /\ T # {}
    OBVIOUS
  <2>2. PICK x \in T : \A y \in T : x <= y
    BY <2>1, HasLeast
  <2> QED BY <2>2
<1>4. r3 \in R /\ r3.score = r1.score /\ r3.chunk = r2.chunk
  BY <1>3
<1>5. ASSUME NEW o \in R \ {r3} PROVE Grounded!Stronger(r3, o)
  <2>1. /\ o.score \in 0 .. 2 /\ o.chunk \in Nat /\ o.passage \in Nat
        /\ r3.score \in 0 .. 2 /\ r3.chunk \in Nat /\ r3.passage \in Nat
        /\ o.passage # r3.passage
    BY <1>4
  <2>2. o.score <= r3.score
    BY <1>1, <1>4
  <2>3. o.score = r3.score => r3.chunk <= o.chunk
    BY <1>2, <1>4
  <2>4. o.score = r3.score /\ o.chunk = r3.chunk => r3.passage <= o.passage
    BY <1>3, <1>4
  <2> QED BY <2>1, <2>2, <2>3, <2>4 DEF Grounded!Stronger
<1> DEFINE best == Grounded!Strongest(R)
<1>6. best \in R /\ \A o \in R \ {best} : Grounded!Stronger(best, o)
  BY <1>4, <1>5 DEF Grounded!Strongest
<1> HIDE DEF best
<1>7. ASSUME NEW o \in R PROVE o.score <= best.score
  <2>1. o.score \in 0 .. 2 /\ best.score \in 0 .. 2
    BY <1>6
  <2>2. CASE o = best
    BY <2>1, <2>2
  <2>3. CASE o # best
    BY <1>6, <2>1, <2>3 DEF Grounded!Stronger
  <2> QED BY <2>2, <2>3
<1> QED BY <1>6, <1>7 DEF best

\* What the rows are.
LEMMA RowsAreOfPassages ==
    ASSUME Grounded!GroundedInv
    PROVE  /\ \A c \in DOMAIN x3 : \A r \in x3[c] :
                 /\ r \in Grounded!Rows /\ r.chunk = c /\ r.score \in 0 .. 2
                 /\ c \in Nat /\ r.passage \in Nat
           /\ \A r \in Grounded!Rows : /\ r.chunk \in DOMAIN x3 /\ r \in x3[r.chunk]
                                       /\ r.score \in 0 .. 2
                                       /\ r.chunk \in Nat /\ r.passage \in Nat
           /\ \A r, o \in Grounded!Rows : r.passage = o.passage => r = o
<1>1. ASSUME NEW c \in DOMAIN x3, NEW r \in x3[c]
      PROVE  /\ r \in Grounded!Rows /\ r.chunk = c /\ r.score \in 0 .. 2
             /\ c \in Nat /\ r.passage \in Nat
  <2>1. r \in Grounded!RowOf(c)
    BY DEF Grounded!GroundedInv
  <2>2. r.chunk = c /\ r.score \in 0 .. 2 /\ r.passage \in Nat
    BY <2>1 DEF Grounded!RowOf, Grounded!Support
  <2>3. c \in Nat
    BY DEF Grounded!GroundedInv
  <2> QED BY <2>2, <2>3 DEF Grounded!Rows
<1>2. \A r \in Grounded!Rows : \E c \in DOMAIN x3 : r \in x3[c]
  BY DEF Grounded!Rows
<1> QED BY <1>1, <1>2 DEF Grounded!GroundedInv

\* A row of the passage that is read.
LEMMA RowIsLogged ==
    ASSUME Grounded!GroundedInv, Grounded!Reading, x2' = x2, x7' = x7 + 1,
           NEW row \in Grounded!RowOf(x2), row.passage = x7, Grounded!Log(row)
    PROVE  /\ x2' \in Nat /\ x7' \in Nat
           /\ DOMAIN x3' = 1 .. x2' /\ x3' \in Seq(SUBSET Grounded!Rows')
           /\ \A c \in DOMAIN x3' : x3'[c] \subseteq Grounded!RowOf(c)'
           /\ Grounded!Rows' = Grounded!Rows \cup {row}
           /\ \A r \in Grounded!Rows' : r.passage < x7'
           /\ \A r, o \in Grounded!Rows' : r.passage = o.passage => r = o
<1>1. x2 \in Nat /\ x7 \in Nat /\ DOMAIN x3 = 1 .. x2 /\ x2 \in 1 .. x2
  BY DEF Grounded!GroundedInv, Grounded!Reading
<1>2. x3' = [x3 EXCEPT ![x2] = @ \cup {row}] /\ x3 \in Seq(SUBSET Grounded!Rows)
  BY DEF Grounded!Log, Grounded!GroundedInv
<1>3. /\ DOMAIN x3' = DOMAIN x3 /\ x3'[x2] = x3[x2] \cup {row}
      /\ \A c \in DOMAIN x3 : c # x2 => x3'[c] = x3[c]
  BY <1>1, <1>2
<1>4. Grounded!Rows' = Grounded!Rows \cup {row}
  BY <1>1, <1>3 DEF Grounded!Rows
<1>5. \A c : Grounded!RowOf(c)' = Grounded!RowOf(c)
  BY DEF Grounded!RowOf
<1>6. ASSUME NEW c \in DOMAIN x3' PROVE x3'[c] \subseteq Grounded!RowOf(c)'
  <2>1. x3[c] \subseteq Grounded!RowOf(c)
    BY <1>3 DEF Grounded!GroundedInv
  <2> QED BY <1>3, <1>5, <2>1
<1>7. \A r \in Grounded!Rows : r.passage < x7 /\ r.passage \in Nat
  BY RowsAreOfPassages DEF Grounded!GroundedInv
<1>8. \A r \in Grounded!Rows' : r.passage < x7'
  BY <1>1, <1>4, <1>7
<1>9. \A r, o \in Grounded!Rows' : r.passage = o.passage => r = o
  <2>1. \A r, o \in Grounded!Rows : r.passage = o.passage => r = o
    BY DEF Grounded!GroundedInv
  <2>2. \A r \in Grounded!Rows : r.passage # row.passage
    BY <1>1, <1>7
  <2> QED BY <1>4, <2>1, <2>2
<1>10. x3' \in Seq(SUBSET Grounded!Rows')
  <2>1. x3 \in Seq(SUBSET Grounded!Rows') /\ x3[x2] \cup {row} \in SUBSET Grounded!Rows'
    <3>1. \A c \in DOMAIN x3 : x3[c] \in SUBSET Grounded!Rows
      BY DEF Grounded!Rows
    <3>2. \A c \in 1 .. Len(x3) : x3[c] \in SUBSET Grounded!Rows'
      BY <1>2, <1>4, <3>1
    <3>3. x3 \in Seq(SUBSET Grounded!Rows')
      BY <1>2, <3>2, SeqDef
    <3> QED BY <1>1, <1>4, <3>1, <3>3
  <2>2. x2 \in 1 .. Len(x3)
    BY <1>1, <1>2
  <2> QED BY <1>2, <2>1, <2>2, ExceptSeq
<1> QED BY <1>1, <1>3, <1>4, <1>6, <1>8, <1>9, <1>10

LEMMA GroundedStep ==
    ASSUME Grounded!GroundedInv, [Grounded!Next]_(Grounded!vars)
    PROVE  Grounded!GroundedInv'
<1>1. CASE Grounded!Refuse
  <2>1. x2 = 0 /\ x8' = Grounded!Abstained /\ UNCHANGED <<x1, x2, x3, x4, x5, x6, x7>>
    BY <1>1 DEF Grounded!Refuse, Grounded!reading
  <2>2. Grounded!Rows' = Grounded!Rows
    BY <2>1 DEF Grounded!Rows
  <2>3. x8' = Grounded!Abstained' /\ \A c : Grounded!RowOf(c)' = Grounded!RowOf(c)
    BY <2>1 DEF Grounded!Abstained, Grounded!RowOf
  <2>4. {r \in Grounded!Rows' : Grounded!IsCandidate(r)'}
          = {r \in Grounded!Rows : Grounded!IsCandidate(r)}
    BY <2>2 DEF Grounded!IsCandidate
  <2> QED BY <2>1, <2>2, <2>3, <2>4 DEF Grounded!GroundedInv
<1>2. CASE Grounded!NextChunk
  <2>1. /\ x8 = Grounded!Pending /\ x2' = x2 + 1 /\ x3' = Append(x3, {})
        /\ UNCHANGED <<x1, x4, x5, x6, x7, x8>>
    BY <1>2 DEF Grounded!NextChunk
  <2>2. x3 \in Seq(SUBSET Grounded!Rows) /\ x2 \in Nat /\ DOMAIN x3 = 1 .. x2 /\ Len(x3) = x2
    BY DEF Grounded!GroundedInv
  <2>3. {} \in SUBSET Grounded!Rows
    OBVIOUS
  <2>4. /\ x3' \in Seq(SUBSET Grounded!Rows) /\ Len(x3') = x2 + 1
        /\ \A c \in 1 .. x2 : x3'[c] = x3[c]
        /\ x3'[x2 + 1] = {}
    BY <2>1, <2>2, <2>3, AppendProperties
  <2>5. DOMAIN x3' = 1 .. x2 + 1
    BY <2>4
  <2>6. \A c \in DOMAIN x3' : c \in 1 .. x2 \/ (c = x2 + 1 /\ c \notin 1 .. x2)
    BY <2>2, <2>5
  <2>7. Grounded!Rows' = Grounded!Rows
    <3>1. \A c \in 1 .. x2 : c \in DOMAIN x3'
      BY <2>2, <2>5
    <3> QED BY <2>2, <2>4, <2>6, <3>1 DEF Grounded!Rows
  <2>8. \A c : Grounded!RowOf(c)' = Grounded!RowOf(c)
    BY DEF Grounded!RowOf
  <2>9. ASSUME NEW c \in DOMAIN x3' PROVE x3'[c] \subseteq Grounded!RowOf(c)'
    <3>1. CASE c \in 1 .. x2
      <4>1. x3[c] \subseteq Grounded!RowOf(c)
        BY <2>2, <3>1 DEF Grounded!GroundedInv
      <4> QED BY <2>4, <2>8, <3>1, <4>1
    <3>2. CASE c = x2 + 1
      BY <2>4, <3>2
    <3> QED BY <2>6, <3>1, <3>2
  <2>10. {r \in Grounded!Rows' : Grounded!IsCandidate(r)'}
           = {r \in Grounded!Rows : Grounded!IsCandidate(r)}
    BY <2>7 DEF Grounded!IsCandidate
  <2>11. x8' = Grounded!Pending'
    BY <2>1 DEF Grounded!Pending
  <2>12. x2' \in Nat /\ DOMAIN x3' = 1 .. x2'
    BY <2>1, <2>2, <2>5
  <2>13. x3' \in Seq(SUBSET Grounded!Rows')
    BY <2>4, <2>7
  <2>14. /\ x7 \in Nat /\ \A r \in Grounded!Rows : r.passage < x7
         /\ \A r, o \in Grounded!Rows : r.passage = o.passage => r = o
         /\ x4 = {r \in Grounded!Rows : Grounded!IsCandidate(r)}
         /\ x5 \subseteq Grounded!Rows
    BY DEF Grounded!GroundedInv
  <2> QED BY <2>1, <2>7, <2>9, <2>10, <2>11, <2>12, <2>13, <2>14 DEF Grounded!GroundedInv
<1>3. CASE Grounded!SkipPassage
  <2>1. /\ x8 = Grounded!Pending /\ x7' = x7 + 1
        /\ UNCHANGED <<x1, x2, x3, x4, x5, x8>>
    BY <1>3 DEF Grounded!SkipPassage, Grounded!Reading
  <2>2. Grounded!Rows' = Grounded!Rows
    BY <2>1 DEF Grounded!Rows
  <2>3. x8' = Grounded!Pending' /\ \A c : Grounded!RowOf(c)' = Grounded!RowOf(c)
    BY <2>1 DEF Grounded!Pending, Grounded!RowOf
  <2>4. {r \in Grounded!Rows' : Grounded!IsCandidate(r)'}
          = {r \in Grounded!Rows : Grounded!IsCandidate(r)}
    BY <2>2 DEF Grounded!IsCandidate
  <2>5. x7' \in Nat /\ \A r \in Grounded!Rows' : r.passage < x7'
    <3>1. x7 \in Nat /\ \A r \in Grounded!Rows : r.passage < x7 /\ r.passage \in Nat
      BY RowsAreOfPassages DEF Grounded!GroundedInv
    <3> QED BY <2>1, <2>2, <3>1
  <2> QED BY <2>1, <2>2, <2>3, <2>4, <2>5 DEF Grounded!GroundedInv
<1>4. CASE Grounded!DenyPassage
  <2> DEFINE row == Grounded!Denied(x2)
  <2>1. /\ x8 = Grounded!Pending /\ x7' = x7 + 1 /\ Grounded!Log(row) /\ Grounded!Reading
        /\ UNCHANGED <<x1, x2, x4, x5, x6, x8>>
    BY <1>4 DEF Grounded!DenyPassage, Grounded!Reading
  <2>2. x7 \in Nat
    BY DEF Grounded!GroundedInv
  <2>3. row \in Grounded!RowOf(x2) /\ row.passage = x7 /\ row.value = Grounded!NoValue
    BY <2>2 DEF Grounded!Denied, Grounded!Row, Grounded!RowOf, Grounded!Support
  <2> HIDE DEF row
  <2>4. /\ x2' \in Nat /\ x7' \in Nat
        /\ DOMAIN x3' = 1 .. x2' /\ x3' \in Seq(SUBSET Grounded!Rows')
        /\ \A c \in DOMAIN x3' : x3'[c] \subseteq Grounded!RowOf(c)'
        /\ Grounded!Rows' = Grounded!Rows \cup {row}
        /\ \A r \in Grounded!Rows' : r.passage < x7'
        /\ \A r, o \in Grounded!Rows' : r.passage = o.passage => r = o
    BY <2>1, <2>3, RowIsLogged
  <2>5. x4 = {r \in Grounded!Rows : Grounded!IsCandidate(r)} /\ x5 \subseteq Grounded!Rows
    BY DEF Grounded!GroundedInv
  <2>6. x4' = {r \in Grounded!Rows' : Grounded!IsCandidate(r)'}
    BY <2>1, <2>3, <2>4, <2>5 DEF Grounded!IsCandidate
  <2>7. x8' = Grounded!Pending'
    BY <2>1 DEF Grounded!Pending
  <2> QED BY <2>1, <2>4, <2>5, <2>6, <2>7 DEF Grounded!GroundedInv
<1>5. CASE Grounded!EvaluatePassage
  <2>1. PICK j \in Grounded!Judged :
           /\ Grounded!Log(Grounded!Row(x2, j))
           /\ x4' = IF Grounded!IsCandidate(j) THEN x4 \cup {Grounded!Row(x2, j)} ELSE x4
           /\ x5' = IF ~ Grounded!IsCandidate(j) /\ Grounded!IsPartial(j)
                    THEN x5 \cup {Grounded!Row(x2, j)} ELSE x5
    BY <1>5 DEF Grounded!EvaluatePassage
  <2> DEFINE row == Grounded!Row(x2, j)
  <2>2. /\ x8 = Grounded!Pending /\ x7' = x7 + 1 /\ Grounded!Reading
        /\ UNCHANGED <<x1, x2, x6, x8>>
    BY <1>5 DEF Grounded!EvaluatePassage, Grounded!Reading
  <2>3. x7 \in Nat
    BY DEF Grounded!GroundedInv
  <2>4. /\ row \in Grounded!RowOf(x2) /\ row.passage = x7
        /\ row.value = j.value /\ row.relation = j.relation
    BY <2>3 DEF Grounded!Judged, Grounded!Row, Grounded!RowOf, Grounded!Support
  <2>5. /\ x4' = IF Grounded!IsCandidate(j) THEN x4 \cup {row} ELSE x4
        /\ x5' \subseteq x5 \cup {row}
        /\ Grounded!Log(row)
    BY <2>1
  <2> HIDE DEF row
  <2>6. /\ x2' \in Nat /\ x7' \in Nat
        /\ DOMAIN x3' = 1 .. x2' /\ x3' \in Seq(SUBSET Grounded!Rows')
        /\ \A c \in DOMAIN x3' : x3'[c] \subseteq Grounded!RowOf(c)'
        /\ Grounded!Rows' = Grounded!Rows \cup {row}
        /\ \A r \in Grounded!Rows' : r.passage < x7'
        /\ \A r, o \in Grounded!Rows' : r.passage = o.passage => r = o
    BY <2>2, <2>4, <2>5, RowIsLogged
  <2>7. x4 = {r \in Grounded!Rows : Grounded!IsCandidate(r)} /\ x5 \subseteq Grounded!Rows
    BY DEF Grounded!GroundedInv
  <2>8. x4' = {r \in Grounded!Rows' : Grounded!IsCandidate(r)'}
    BY <2>4, <2>5, <2>6, <2>7 DEF Grounded!IsCandidate
  <2>9. x8' = Grounded!Pending'
    BY <2>2 DEF Grounded!Pending
  <2>10. x5' \subseteq Grounded!Rows'
    BY <2>5, <2>6, <2>7
  <2> QED BY <2>6, <2>8, <2>9, <2>10 DEF Grounded!GroundedInv
<1>6. ASSUME UNCHANGED <<x1, x2, x3, x4, x5, x6, x7>>,
             \/ x8' = x8
             \/ /\ x2 > 0
                /\ \E echoed \in BOOLEAN :
                      x8' = IF Grounded!Valid(Grounded!Decision, echoed)
                            THEN Grounded!Decision
                            ELSE [status |-> "GroundingValidationError", echoed |-> echoed]
      PROVE  Grounded!GroundedInv'
  <2>1. Grounded!Rows' = Grounded!Rows
    BY <1>6 DEF Grounded!Rows
  <2>2. \A c : Grounded!RowOf(c)' = Grounded!RowOf(c)
    BY DEF Grounded!RowOf
  <2>3. {r \in Grounded!Rows' : Grounded!IsCandidate(r)'}
          = {r \in Grounded!Rows : Grounded!IsCandidate(r)}
    BY <2>1 DEF Grounded!IsCandidate
  <2>4. Grounded!Supported' = Grounded!Supported
    BY <1>6 DEF Grounded!Supported
  <2>5. \A b : Grounded!Distinct(b)' = Grounded!Distinct(b)
    BY <2>4 DEF Grounded!Distinct
  <2>6. Grounded!Decision' = Grounded!Decision
    BY <1>6, <2>4, <2>5 DEF Grounded!Decision, Grounded!Abstained
  <2>7. \A d, e : Grounded!Valid(d, e)' <=> Grounded!Valid(d, e)
    BY <1>6 DEF Grounded!Valid
  <2>8. Grounded!Pending' = Grounded!Pending /\ Grounded!Abstained' = Grounded!Abstained
    BY DEF Grounded!Pending, Grounded!Abstained
  <2> QED BY <1>6, <2>1, <2>2, <2>3, <2>6, <2>7, <2>8 DEF Grounded!GroundedInv
<1>7. CASE Grounded!Decide
  <2>1. UNCHANGED <<x1, x2, x3, x4, x5, x6, x7>> /\ x2 > 0
    BY <1>7 DEF Grounded!Decide, Grounded!reading
  <2>2. \E echoed \in BOOLEAN :
           x8' = IF Grounded!Valid(Grounded!Decision, echoed)
                 THEN Grounded!Decision
                 ELSE [status |-> "GroundingValidationError", echoed |-> echoed]
    BY <1>7 DEF Grounded!Decide
  <2> QED BY <1>6, <2>1, <2>2
<1>8. CASE UNCHANGED Grounded!vars
  BY <1>6, <1>8 DEF Grounded!vars
<1> QED BY <1>1, <1>2, <1>3, <1>4, <1>5, <1>7, <1>8 DEF Grounded!Next

\* What was decided is sound.
LEMMA DecidedIsSound ==
    ASSUME Grounded!GroundedInv
    PROVE  Grounded!DecisionIsSound
<1> DEFINE Rows == Grounded!Rows
           best == Grounded!Strongest(Grounded!Supported)
           Distinct == Grounded!Distinct(best)
           other == Grounded!Strongest(Distinct)
<1>1. /\ \A r \in Rows : /\ r.chunk \in DOMAIN x3 /\ r \in x3[r.chunk]
                         /\ r.score \in 0 .. 2 /\ r.chunk \in Nat /\ r.passage \in Nat
      /\ \A r, o \in Rows : r.passage = o.passage => r = o
  BY RowsAreOfPassages
<1>2. /\ x4 = {r \in Rows : Grounded!IsCandidate(r)} /\ x5 \subseteq Rows
  BY DEF Grounded!GroundedInv
<1>3. Grounded!Supported = {r \in x4 : r.score >= 2}
  BY DEF Grounded!Supported, Grounded!Support
<1>4. Grounded!Answers = Grounded!Supported
  BY <1>2, <1>3 DEF Grounded!Answers, Grounded!IsCandidate, Grounded!Support
<1> HIDE DEF Rows
<1>5. ASSUME NEW R \in SUBSET Rows, R # {}
      PROVE  Grounded!Strongest(R) \in R /\ \A o \in R : o.score <= Grounded!Strongest(R).score
  BY <1>1, <1>5, OneIsStrongest
<1>6. Grounded!Supported \in SUBSET Rows
  BY <1>2, <1>3
<1>7. ASSUME Grounded!Supported # {}
      PROVE  /\ best \in Grounded!Supported /\ best \in Rows
             /\ best.score >= 2 /\ Grounded!IsCandidate(best) /\ best.value # Grounded!NoValue
  <2>1. best \in Grounded!Supported
    BY <1>5, <1>6, <1>7
  <2> HIDE DEF best
  <2> QED BY <1>2, <1>3, <2>1 DEF Grounded!IsCandidate
<1>8. ASSUME Grounded!Supported # {}, Distinct # {}
      PROVE  other \in Distinct /\ other \in Rows /\ other.value # best.value
  <2>1. Distinct \in SUBSET Rows
    BY <1>6 DEF Grounded!Distinct
  <2>2. other \in Distinct
    BY <1>5, <1>8, <2>1
  <2>3. \A r \in Distinct : r.value # best.value
    BY DEF Grounded!Distinct
  <2> HIDE DEF other, Distinct
  <2> QED BY <2>1, <2>2, <2>3
<1> HIDE DEF best, Distinct, other
<1>9. ASSUME x5 # {} PROVE Grounded!Strongest(x5) \in Rows
  <2>1. x5 \in SUBSET Rows
    BY <1>2
  <2>2. Grounded!Strongest(x5) \in x5
    BY <1>5, <1>9, <2>1
  <2> QED BY <2>1, <2>2
\* The four decisions.
<1> DEFINE D == Grounded!Decision
<1>10. \/ /\ Grounded!Supported = {} /\ D = Grounded!Abstained
       \/ /\ Grounded!Supported = {}
          /\ D = [status |-> "partially_supported", answerable |-> FALSE, reason |-> TRUE,
                  support |-> {Grounded!Strongest(x5)}]
          /\ x5 # {}
       \/ /\ Grounded!Supported # {} /\ Distinct # {}
          /\ D = [status |-> "ambiguous", answerable |-> FALSE, reason |-> TRUE,
                  support |-> {best, other}]
       \/ /\ Grounded!Supported # {} /\ (x1.single => Distinct = {})
          /\ D = [status |-> "answered", answerable |-> TRUE, reason |-> FALSE,
                  support |-> {best}]
  BY DEF Grounded!Decision, best, Distinct, other
<1> HIDE DEF D
<1>11. D.status \in {"abstained", "partially_supported", "ambiguous", "answered"}
  BY <1>10 DEF Grounded!Abstained
<1>12. D.support \subseteq Rows
  <2>1. CASE D = Grounded!Abstained
    BY <2>1 DEF Grounded!Abstained
  <2>2. CASE D # Grounded!Abstained
    BY <1>7, <1>8, <1>9, <1>10, <2>2
  <2> QED BY <2>1, <2>2
<1>13. Grounded!Valid(D, FALSE)
  <2>1. /\ D.answerable <=> D.status = "answered"
        /\ D.status \in {"partially_supported", "ambiguous"} <=> D.reason
        /\ D.support = {} <=> D.status = "abstained"
    BY <1>10 DEF Grounded!Abstained
  <2>2. \A r \in D.support : r.chunk \in DOMAIN x3 /\ r \in x3[r.chunk]
    BY <1>1, <1>12
  <2>3. D.status = "answered" => \A r \in D.support : r.value # Grounded!NoValue
    BY <1>7, <1>10 DEF Grounded!Abstained
  <2> QED BY <2>1, <2>2, <2>3 DEF Grounded!Valid
\* The chunks assess as the whole does.
<1>14. ASSUME NEW c \in DOMAIN x3
       PROVE  /\ \A r \in x3[c] : Grounded!IsCandidate(r) /\ r.score >= 2
                    => Grounded!Assessments[c].answerable
              /\ Grounded!Assessments[c].answerable => Grounded!Supported # {}
  <2> DEFINE direct == Grounded!Direct(x3[c])
  <2>1. Grounded!Assessments[c] = Grounded!Assess(x3[c])
    BY DEF Grounded!Assessments
  <2>2. direct \in SUBSET Rows
    <3>1. x3[c] \subseteq Rows
      BY DEF Grounded!Rows, Rows
    <3> QED BY <3>1 DEF Grounded!Direct
  <2>3. \A r \in direct : Grounded!IsCandidate(r)
    BY DEF Grounded!Direct
  <2>4. ASSUME direct # {}
        PROVE  /\ Grounded!Strongest(direct) \in direct
               /\ \A o \in direct : o.score <= Grounded!Strongest(direct).score
               /\ Grounded!Assessments[c].answerable <=> Grounded!Strongest(direct).score >= 2
    <3>1. /\ Grounded!Strongest(direct) \in direct
          /\ \A o \in direct : o.score <= Grounded!Strongest(direct).score
      BY <1>5, <2>2, <2>4
    <3>2. Grounded!Assessments[c].answerable <=> Grounded!Strongest(direct).score >= 2
      <4>1. Grounded!Assess(x3[c]) = [answerable |-> Grounded!Strongest(direct).score >= 2,
                                      support |-> {Grounded!Strongest(direct)}]
        BY <2>4, Zenon DEF Grounded!Assess, Grounded!Support
      <4>2. Grounded!Assess(x3[c]).answerable = (Grounded!Strongest(direct).score >= 2)
        <5> DEFINE yes == Grounded!Strongest(direct).score >= 2
                   support == {Grounded!Strongest(direct)}
        <5>1. Grounded!Assess(x3[c]) = [answerable |-> yes, support |-> support]
          BY <4>1
        <5> HIDE DEF yes, support
        <5>2. Grounded!Assess(x3[c]).answerable = yes
          BY <5>1
        <5> QED BY <5>2 DEF yes
      <4> QED BY <2>1, <4>2, Zenon
    <3> QED BY <3>1, <3>2
  <2>5. ASSUME direct = {} PROVE ~ Grounded!Assessments[c].answerable
    BY <2>1, <2>5 DEF Grounded!Assess
  <2>6. \A r \in x3[c] : Grounded!IsCandidate(r) => r \in direct
    BY DEF Grounded!Direct
  <2> HIDE DEF direct
  <2>7. ASSUME NEW r \in x3[c], Grounded!IsCandidate(r), r.score >= 2
        PROVE  Grounded!Assessments[c].answerable
    <3>1. r \in direct /\ r.score <= Grounded!Strongest(direct).score
      BY <2>4, <2>6, <2>7
    <3>2. Grounded!Strongest(direct).score \in 0 .. 2 /\ r.score \in 0 .. 2
      BY <1>1, <2>2, <2>4, <3>1
    <3>3. Grounded!Strongest(direct).score >= 2
      BY <2>7, <3>1, <3>2
    <3> QED BY <2>4, <3>1, <3>3
  <2>8. ASSUME Grounded!Assessments[c].answerable PROVE Grounded!Supported # {}
    <3>1. direct # {} /\ Grounded!Strongest(direct) \in direct
          /\ Grounded!Strongest(direct).score >= 2
      BY <2>4, <2>5, <2>8
    <3>2. Grounded!Strongest(direct) \in Grounded!Supported
      BY <1>2, <1>3, <2>2, <2>3, <3>1
    <3> QED BY <3>2
  <2> QED BY <2>7, <2>8
<1>15. CASE x8 = Grounded!Pending
  BY <1>15 DEF Grounded!Pending, Grounded!DecisionIsSound
<1>16. CASE x8 = Grounded!Abstained /\ x2 = 0
  <2>1. DOMAIN x3 = 1 .. 0
    BY <1>16 DEF Grounded!GroundedInv
  <2>2. DOMAIN x3 = {}
    BY <2>1
  <2> QED BY <1>16, <2>2 DEF Grounded!Abstained, Grounded!DecisionIsSound
<1>17. ASSUME NEW echoed \in BOOLEAN,
              x8 = IF Grounded!Valid(D, echoed)
                   THEN D
                   ELSE [status |-> "GroundingValidationError", echoed |-> echoed]
       PROVE  Grounded!DecisionIsSound
  <2>1. CASE Grounded!Valid(D, echoed)
    <3>1. x8 = D
      BY <1>17, <2>1
    <3>2. D.status \in {"answered", "ambiguous"} =>
             \E c \in DOMAIN x3 : Grounded!Assessments[c].answerable
      <4> SUFFICES ASSUME D.status \in {"answered", "ambiguous"}
                   PROVE  \E c \in DOMAIN x3 : Grounded!Assessments[c].answerable
        OBVIOUS
      <4>1. Grounded!Supported # {}
        BY <1>10 DEF Grounded!Abstained
      <4>2. best.chunk \in DOMAIN x3 /\ best \in x3[best.chunk]
        BY <1>1, <1>7, <4>1
      <4> QED BY <1>7, <1>14, <4>1, <4>2
    <3>3. D.status \in {"abstained", "partially_supported"} => Grounded!Supported = {}
      BY <1>10
    <3>4. D.status \in {"abstained", "partially_supported"} =>
             \A c \in DOMAIN x3 : ~ Grounded!Assessments[c].answerable
      BY <1>14, <3>3
    <3>5. D.status = "answered" /\ x1.single =>
             Cardinality({r.value : r \in Grounded!Answers}) = 1
      <4> SUFFICES ASSUME D.status = "answered", x1.single
                   PROVE  Cardinality({r.value : r \in Grounded!Answers}) = 1
        OBVIOUS
      <4>1. Grounded!Supported # {} /\ Distinct = {}
        BY <1>10 DEF Grounded!Abstained
      <4>2. \A r \in Grounded!Supported : r.value = best.value
        BY <4>1 DEF Distinct, Grounded!Distinct
      <4>3. {r.value : r \in Grounded!Answers} = {best.value}
        BY <1>4, <1>7, <4>1, <4>2
      <4> QED BY <4>3, FS_Singleton
    <3>6. D.status = "ambiguous" => Cardinality({r.value : r \in D.support}) = 2
      <4> SUFFICES ASSUME D.status = "ambiguous"
                   PROVE  Cardinality({r.value : r \in D.support}) = 2
        OBVIOUS
      <4>1. /\ Grounded!Supported # {} /\ Distinct # {} /\ D.support = {best, other}
        BY <1>10 DEF Grounded!Abstained
      <4>2. other.value # best.value
        BY <1>8, <4>1
      <4>3. {r.value : r \in D.support} = {best.value} \cup {other.value}
        BY <4>1
      <4>4. IsFiniteSet({best.value}) /\ Cardinality({best.value}) = 1
        BY FS_Singleton
      <4>5. Cardinality({best.value} \cup {other.value}) = 1 + 1
        BY <4>2, <4>4, FS_AddElement
      <4> QED BY <4>3, <4>5
    <3>7. D.status = "partially_supported" => Grounded!Answers = {}
      BY <1>4, <3>3
    <3>8. D.status # "GroundingValidationError"
      BY <1>11
    <3> HIDE DEF D
    <3> QED BY <3>1, <3>2, <3>4, <3>5, <3>6, <3>7, <3>8, GroundedCounts DEF Grounded!DecisionIsSound
  <2>2. CASE ~ Grounded!Valid(D, echoed)
    <3>1. echoed = TRUE
      BY <1>13, <1>17, <2>2
    <3>2. x8 = [status |-> "GroundingValidationError", echoed |-> TRUE]
      BY <1>17, <2>2, <3>1
    <3> QED BY <3>2 DEF Grounded!DecisionIsSound
  <2> QED BY <2>1, <2>2
<1>18. \/ x8 = Grounded!Pending
       \/ x8 = Grounded!Abstained /\ x2 = 0
       \/ \E echoed \in BOOLEAN :
             x8 = IF Grounded!Valid(D, echoed)
                  THEN D
                  ELSE [status |-> "GroundingValidationError", echoed |-> echoed]
  BY DEF Grounded!GroundedInv, D
<1> QED BY <1>15, <1>16, <1>17, <1>18

LEMMA GroundedInitially ==
    ServiceInit => (part = "grounded" => Grounded!GroundedInv)
<1> SUFFICES ASSUME ServiceInit, part = "grounded" PROVE Grounded!GroundedInv
  OBVIOUS
<1>1. /\ x2 = 0 /\ x3 = << >> /\ x4 = {} /\ x5 = {} /\ x7 = 0 /\ x8 = Grounded!Pending
  BY DEF ServiceInit, Grounded!Init
<1>2. DOMAIN x3 = {} /\ DOMAIN x3 = 1 .. x2 /\ x3 \in Seq(SUBSET Grounded!Rows)
  BY <1>1
<1>3. Grounded!Rows = {}
  BY <1>2 DEF Grounded!Rows
<1> QED BY <1>1, <1>2, <1>3 DEF Grounded!GroundedInv

LEMMA GroundedSound == ServiceSpec => [](part = "grounded" => Grounded!DecisionIsSound)
<1> DEFINE Inv == part = "grounded" => Grounded!GroundedInv
<1>1. ServiceInit => Inv
  BY GroundedInitially
<1>2. Inv /\ [ServiceNext]_serviceVars => Inv'
  BY GroundedMoves, GroundedStep
<1>3. Inv => (part = "grounded" => Grounded!DecisionIsSound)
  BY DecidedIsSound
<1> QED BY <1>1, <1>2, <1>3, PTL DEF ServiceSpec

-----------------------------------------------------------------------------
(* The extractive answer, for any keys and any number of chunks.            *)
LEMMA ExtractiveMoves ==
    ASSUME [ServiceNext]_serviceVars, part' = "extractive"
    PROVE  part = "extractive" /\ [Extractive!Next]_(Extractive!vars)
BY DEF ServiceNext, serviceVars, shared, rest3, rest5, rest6, rest9, Extractive!vars

LEMMA ExtractiveCounts == \A S : Extractive!Cardinality(S) = Cardinality(S)
BY DEF Extractive!Cardinality, Cardinality

LEMMA EarliestIsLeast ==
    ASSUME NEW I, I \subseteq Nat, I # {}
    PROVE  Extractive!Earliest(I) \in I /\ \A j \in I : Extractive!Earliest(I) <= j
BY HasLeast DEF Extractive!Earliest

\* What counts as evidence.
LEMMA EvidenceIsRelevant ==
    ASSUME Extractive!ExtractiveInv
    PROVE  /\ Extractive!Evidence \subseteq Nat /\ IsFiniteSet(Extractive!Evidence)
           /\ Extractive!Evidence \subseteq DOMAIN x2
           /\ \A i \in Extractive!Evidence : Extractive!KeyOf(i) # Extractive!Blocked
           /\ ~ x1.broad /\ (\E i \in DOMAIN x2 : x2[i].named) =>
                 \A i \in Extractive!Evidence : x2[i].named
<1>1. x2 \in Seq(Extractive!RankedChunks) /\ Len(x2) \in Nat /\ DOMAIN x2 = 1 .. Len(x2)
  BY DEF Extractive!ExtractiveInv
<1>2. Extractive!Relevant \subseteq DOMAIN x2
  BY DEF Extractive!Relevant
<1>3. Extractive!Evidence \subseteq DOMAIN x2
  BY <1>2 DEF Extractive!Evidence
<1>4. IsFiniteSet(DOMAIN x2) /\ DOMAIN x2 \subseteq Nat
  BY <1>1, FS_Interval
<1>5. IsFiniteSet(Extractive!Evidence)
  BY <1>3, <1>4, FS_Subset
<1>6. ASSUME NEW i \in Extractive!Evidence PROVE Extractive!KeyOf(i) # Extractive!Blocked
  <2> DEFINE I == Extractive!EvidenceIn(x2[i])
  <2>1. x2[i] \in Extractive!RankedChunks
    BY <1>1, <1>3
  <2>2. PICK n \in 1 .. MaxSegments :
           x2[i].segments \in [1 .. n -> Values \cup {Extractive!Missing, Extractive!Other,
                                                      Extractive!Blocked}]
    BY <2>1 DEF Extractive!RankedChunks, Extractive!ChunksOf
  <2>3. DOMAIN x2[i].segments \subseteq Nat
    BY <2>2
  <2>4. I \subseteq Nat
    BY <2>3 DEF Extractive!EvidenceIn
  <2>5. I # {}
    BY DEF Extractive!Evidence
  <2>6. Extractive!Earliest(I) \in I
    BY <2>4, <2>5, EarliestIsLeast
  <2>7. x2[i].segments[Extractive!Earliest(I)] # Extractive!Blocked
    BY <2>6 DEF Extractive!EvidenceIn
  <2> QED BY <2>7 DEF Extractive!KeyOf
<1>7. ASSUME ~ x1.broad, \E i \in DOMAIN x2 : x2[i].named
      PROVE  \A i \in Extractive!Evidence : x2[i].named
  BY <1>7 DEF Extractive!Evidence, Extractive!Relevant
<1> QED BY <1>3, <1>4, <1>5, <1>6, <1>7

LEMMA ExtractIsSound ==
    ASSUME Extractive!ExtractiveInv
    PROVE  Extractive!ExtractIsUndisputed
<1> DEFINE E == Extractive!Evidence
           K(i) == Extractive!KeyOf(i)
           best == Extractive!Earliest(E)
           D == Extractive!Distinct
           other == Extractive!Earliest(D \ {best})
           cite(i) == Extractive!Cite(i)
           A == Extractive!Answer
<1>1. /\ E \subseteq Nat /\ IsFiniteSet(E) /\ E \subseteq DOMAIN x2
      /\ \A i \in E : K(i) # "blocked"
      /\ ~ x1.broad /\ (\E i \in DOMAIN x2 : x2[i].named) => \A i \in E : x2[i].named
  BY EvidenceIsRelevant DEF Extractive!Blocked
<1>2. ASSUME E # {} PROVE best \in E /\ \A j \in E : best <= j
  BY <1>1, <1>2, EarliestIsLeast
<1>3. D = {i \in E : \A j \in E : K(j) = K(i) => i <= j}
  BY DEF Extractive!Distinct
<1>4. \A i : cite(i) = [key |-> K(i), document |-> x2[i].document]
  BY DEF Extractive!Cite
<1>5. D \subseteq E /\ IsFiniteSet(D)
  BY <1>1, <1>3, FS_Subset
<1>6. \/ A = [status |-> "abstained", cites |-> {}]
      \/ E # {} /\ A = [status |-> "abstained", cites |-> {cite(best)}]
      \/ /\ E # {} /\ Extractive!Conflict
         /\ A = [status |-> "ambiguous", cites |-> {cite(best), cite(other)}]
      \/ /\ E # {} /\ (Extractive!Singular => ~ Extractive!Conflict)
         /\ A = [status |-> "answered", cites |-> {cite(best)}]
  <2> HIDE DEF best, cite, other
  <2> QED BY DEF Extractive!Answer, best, cite, other
<1> HIDE DEF E, K, cite, A, best
<1>7. ASSUME E # {} PROVE best \in D
  BY <1>1, <1>2, <1>3, <1>7
<1> HIDE DEF D
<1>8. ASSUME E # {}, Cardinality(D) > 1
      PROVE  other \in E /\ K(other) # K(best)
  <2>1. D \ {best} # {}
    <3> SUFFICES ASSUME D \ {best} = {} PROVE FALSE
      OBVIOUS
    <3>1. D = {best}
      BY <1>7, <1>8
    <3>2. Cardinality(D) = 1
      BY <3>1, FS_Singleton
    <3> QED BY <1>8, <3>2
  <2>2. other \in D \ {best}
    <3>1. D \ {best} \subseteq Nat
      BY <1>1, <1>5
    <3> QED BY <2>1, <3>1, EarliestIsLeast
  <2> HIDE DEF other
  <2>3. other \in E /\ best \in E /\ other \in Nat /\ best \in Nat /\ best # other
    BY <1>1, <1>2, <1>5, <1>8, <2>2
  <2>4. best <= other
    BY <1>2, <1>8, <2>3
  <2>5. K(best) = K(other) => other <= best
    BY <1>3, <2>2, <2>3
  <2> QED BY <2>3, <2>4, <2>5
<1> HIDE DEF other
<1>9. Extractive!Conflict => Cardinality(D) > 1
  BY ExtractiveCounts DEF Extractive!Conflict, D
<1>10. \A e \in A.cites : \E i \in E : e = cite(i)
  BY <1>2, <1>6, <1>8, <1>9
<1>11. "blocked" \notin {e.key : e \in A.cites}
  BY <1>1, <1>4, <1>10
<1>12. ASSUME ~ x1.broad, \E i \in DOMAIN x2 : x2[i].named
       PROVE  \A e \in A.cites : \E i \in DOMAIN x2 : x2[i].named /\ x2[i].document = e.document
  <2>1. \A i \in E : i \in DOMAIN x2 /\ x2[i].named /\ cite(i).document = x2[i].document
    BY <1>1, <1>4, <1>12
  <2> QED BY <1>10, <2>1
<1>13. ASSUME A.status = "ambiguous" PROVE Cardinality({e.key : e \in A.cites}) = 2
  <2>1. E # {} /\ A.cites = {cite(best), cite(other)} /\ Cardinality(D) > 1
    BY <1>6, <1>9, <1>13
  <2>2. K(other) # K(best)
    BY <1>8, <2>1
  <2>3. {e.key : e \in A.cites} = {K(best)} \cup {K(other)}
    BY <1>4, <2>1
  <2>4. IsFiniteSet({K(best)}) /\ Cardinality({K(best)}) = 1
    BY FS_Singleton
  <2>5. Cardinality({K(best)} \cup {K(other)}) = 1 + 1
    BY <2>2, <2>4, FS_AddElement
  <2> QED BY <2>3, <2>5
<1>14. ASSUME A.status = "answered", Extractive!Singular
       PROVE  \/ Cardinality({K(i) : i \in E}) = 1
              \/ /\ Cardinality(Extractive!DocumentsOf(E)) > 1
                 /\ ~ x1.broad
                 /\ x1.intent # "deadline"
  <2>1. E # {} /\ ~ Extractive!Conflict
    BY <1>6, <1>14
  <2>2. Cardinality(D) \in Nat
    BY <1>5, FS_CardinalityType
  <2>3. CASE Cardinality(D) <= 1
    <3>1. D = {best}
      <4> SUFFICES ASSUME NEW d \in D, d # best PROVE FALSE
        BY <1>7, <2>1
      <4>1. {best} \cup {d} \subseteq D
        BY <1>7, <2>1
      <4>2. IsFiniteSet({best}) /\ Cardinality({best}) = 1
        BY FS_Singleton
      <4>3. Cardinality({best} \cup {d}) = 1 + 1
        BY <4>2, FS_AddElement
      <4>4. Cardinality({best} \cup {d}) <= Cardinality(D)
        BY <1>5, <4>1, FS_Subset
      <4> QED BY <2>2, <2>3, <4>3, <4>4
    <3>2. ASSUME NEW i \in E PROVE K(i) = K(best)
      <4> DEFINE T == {j \in E : K(j) = K(i)}
      <4>1. T \subseteq Nat /\ i \in T
        BY <1>1
      <4>2. PICK j \in T : \A l \in T : j <= l
        BY <4>1, HasLeast
      <4>3. j \in D
        BY <1>3, <4>2
      <4> QED BY <3>1, <4>2, <4>3
    <3>3. {K(i) : i \in E} = {K(best)}
      BY <1>2, <2>1, <3>2
    <3> QED BY <3>3, FS_Singleton
  <2>4. CASE Cardinality(D) > 1
    <3>1. /\ ~ x1.broad /\ x1.intent # "deadline"
          /\ Cardinality(Extractive!DocumentsOf(D)) # 1
      BY <2>1, <2>4, ExtractiveCounts DEF Extractive!Conflict, D
    <3>2. IsFiniteSet(Extractive!DocumentsOf(E))
      <4> DEFINE f == [i \in E |-> x2[i].document]
      <4>1. f \in Surjection(E, Extractive!DocumentsOf(E))
        BY DEF Surjection, Extractive!DocumentsOf
      <4> QED BY <1>1, <4>1, FS_Surjection
    <3>3. Extractive!DocumentsOf(D) \subseteq Extractive!DocumentsOf(E)
      BY <1>5 DEF Extractive!DocumentsOf
    <3>4. /\ IsFiniteSet(Extractive!DocumentsOf(D))
          /\ Cardinality(Extractive!DocumentsOf(D)) <= Cardinality(Extractive!DocumentsOf(E))
      BY <3>2, <3>3, FS_Subset
    <3>5. /\ Cardinality(Extractive!DocumentsOf(D)) \in Nat
          /\ Cardinality(Extractive!DocumentsOf(E)) \in Nat
      BY <3>2, <3>4, FS_CardinalityType
    <3>6. Extractive!DocumentsOf(D) # {}
      BY <1>7, <2>1 DEF Extractive!DocumentsOf
    <3>7. Cardinality(Extractive!DocumentsOf(D)) # 0
      BY <3>4, <3>6, FS_EmptySet
    <3> QED BY <3>1, <3>4, <3>5, <3>7
  <2> QED BY <2>2, <2>3, <2>4
<1> QED BY <1>11, <1>12, <1>13, <1>14, ExtractiveCounts
        DEF Extractive!ExtractIsUndisputed, Extractive!Blocked, A, E, K

LEMMA ExtractsSound == ServiceSpec => [](part = "extractive" => Extractive!ExtractIsUndisputed)
<1> DEFINE Inv == part = "extractive" => Extractive!ExtractiveInv
<1>1. ServiceInit => Inv
  BY DEF ServiceInit, Extractive!Init, Extractive!ExtractiveInv
<1>2. Inv /\ [ServiceNext]_serviceVars => Inv'
  <2> SUFFICES ASSUME Extractive!ExtractiveInv, [Extractive!Next]_(Extractive!vars)
               PROVE  Extractive!ExtractiveInv'
    BY ExtractiveMoves
  <2>1. /\ Extractive!Requests' = Extractive!Requests
        /\ Extractive!RankedChunks' = Extractive!RankedChunks
    BY DEF Extractive!Requests, Extractive!RankedChunks, Extractive!ChunksOf,
           Extractive!Missing, Extractive!Other, Extractive!Blocked
  <2>2. CASE Extractive!Rank
    <3>1. PICK c \in Extractive!RankedChunks : x2' = Append(x2, c)
      BY <2>2 DEF Extractive!Rank, Extractive!RankedChunks
    <3>2. x1' = x1 /\ x2 \in Seq(Extractive!RankedChunks) /\ x1 \in Extractive!Requests
      BY <2>2 DEF Extractive!Rank, Extractive!ExtractiveInv
    <3>3. x2' \in Seq(Extractive!RankedChunks)
      BY <3>1, <3>2, AppendProperties
    <3> QED BY <2>1, <3>2, <3>3 DEF Extractive!ExtractiveInv
  <2>3. CASE UNCHANGED Extractive!vars
    BY <2>1, <2>3 DEF Extractive!vars, Extractive!ExtractiveInv
  <2> QED BY <2>2, <2>3 DEF Extractive!Next
<1>3. Inv => (part = "extractive" => Extractive!ExtractIsUndisputed)
  BY ExtractIsSound
<1> QED BY <1>1, <1>2, <1>3, PTL DEF ServiceSpec

(* Whatever the passages say and however many there are: the grounded       *)
(* engine answers only what some passage supports and no other contradicts, *)
(* and what it decides passes the final validation; the extractive engine   *)
(* answers a question with one answer only if the first evidence of the     *)
(* chunks is unanimous, or of several documents while the question is       *)
(* neither broad nor about a deadline, and what it calls ambiguous shows    *)
(* two evidences that differ (DeterministicGroundedAnswerProvider.answer,   *)
(* ExtractiveAnswerProvider.answer).                                        *)
THEOREM AnswersAreAlwaysSupported == ServiceSpec => []AnswersAreSupported
<1>1. /\ part = "grounded" => Grounded!DecisionIsSound
      /\ part = "extractive" => Extractive!ExtractIsUndisputed
      => AnswersAreSupported
  BY DEF AnswersAreSupported
<1> QED BY <1>1, GroundedSound, ExtractsSound, PTL

-----------------------------------------------------------------------------
(* The gates around the local models, for every set of pages and every     *)
(* draft, score and reply.                                                 *)

LEMMA GatesMoves ==
    ASSUME [ServiceNext]_serviceVars, part' = "gates"
    PROVE  part = "gates" /\ [Gates!Next]_(Gates!vars)
BY DEF ServiceNext, serviceVars, shared, rest3, rest5, Gates!vars

\* The entailment model leaves a draft as it is or lowers it.
LEMMA NliLowers ==
    ASSUME NEW d \in Gates!Drafts
    PROVE  /\ Gates!Reconsidered(d) \in Gates!Statuses
           /\ Gates!Certainty[Gates!Reconsidered(d)] <= Gates!Certainty[d.status]
           /\ Gates!Reconsidered(d) = "answered" => d.scores.entails
           /\ Gates!Reconsidered(d) = "ambiguous" => d.scores.contradicts
           /\ Gates!Reconsidered(d) = "abstained" /\ d.status # "abstained" =>
                 d.scores.contradicts /\ ~d.scores.entails
<1> USE DEF Gates!Drafts, Gates!Statuses, Gates!Scores, Gates!Reconsidered,
            Gates!Contradicted, Gates!Certainty
<1>1. CASE d.status = "answered"
  BY <1>1
<1>2. CASE d.status = "ambiguous"
  BY <1>2
<1>3. CASE d.status \in {"partially_supported", "abstained"}
  BY <1>3
<1> QED
  BY <1>1, <1>2, <1>3

\* A reply that passed all three gates quotes what it cites.
LEMMA QwenQuotes ==
    ASSUME NEW r \in Gates!Replies, Gates!Parses(r), Gates!Validates(r), Gates!Grounded(r)
    PROVE  /\ Gates!Status(r) \in Gates!Statuses
           /\ Gates!Status(r) = "abstained" <=> ~Gates!Supported(r)
           /\ Gates!Supported(r) =>
                 r.page \in Pages /\ r.excerpt = "quoted" /\ r.fields # "invented"
           /\ Gates!Status(r) = "answered" => r.answer = "quoted"
<1> USE DEF Gates!Replies, Gates!Support, Gates!Statuses, Gates!Parses, Gates!Validates,
            Gates!InContext, Gates!Grounded, Gates!Status, Gates!Supported
<1>1. CASE r.support = {}
  BY <1>1
<1>2. CASE r.support # {}
  BY <1>2
<1> QED
  BY <1>1, <1>2

LEMMA GateStep ==
    ASSUME Gates!GateInv, [Gates!Next]_(Gates!vars)
    PROVE  Gates!GateInv'
<1>1. CASE Gates!NliDecide
  <2>1. x2 \in Gates!Drafts /\ x1 = "nli" /\ x1' = x1 /\ x2' = x2 /\ x3' = "done"
    BY <1>1 DEF Gates!NliDecide, Gates!GateInv
  <2>2. CASE x4' = [status |-> Gates!Refused]
    BY <2>1, <2>2 DEF Gates!GateInv, Gates!GatesFailClosed
  <2>3. CASE x4' = [status |-> Gates!Reconsidered(x2),
                         cites |-> Gates!Reconsidered(x2) # "abstained"]
    BY <2>1, <2>3, NliLowers DEF Gates!GateInv, Gates!GatesFailClosed
  <2> QED
    BY <1>1, <2>2, <2>3 DEF Gates!NliDecide
<1>2. CASE Gates!ParseDecision \/ Gates!ValidateDecision \/ Gates!GroundDecision
  <2>1. x2 \in Gates!Replies /\ x1 = "qwen" /\ x1' = x1 /\ x2' = x2
    BY <1>2 DEF Gates!ParseDecision, Gates!ValidateDecision, Gates!GroundDecision,
                Gates!QwenStep, Gates!GateInv
  <2>2. CASE x3' = "done" /\ x4' = [status |-> Gates!Refused]
    BY <2>1, <2>2 DEF Gates!GateInv, Gates!GatesFailClosed
  <2>3. CASE x3' = "parsed" /\ Gates!Parses(x2)
    BY <2>1, <2>3 DEF Gates!GateInv, Gates!GatesFailClosed
  <2>4. CASE x3' = "validated" /\ Gates!Parses(x2) /\ Gates!Validates(x2)
    BY <2>1, <2>4 DEF Gates!GateInv, Gates!GatesFailClosed
  <2>5. CASE /\ x3' = "done" /\ Gates!Parses(x2) /\ Gates!Validates(x2) /\ Gates!Grounded(x2)
             /\ x4' = [status |-> Gates!Status(x2), cites |-> Gates!Supported(x2)]
    BY <2>1, <2>5, QwenQuotes DEF Gates!GateInv, Gates!GatesFailClosed
  <2> QED
    BY <1>2, <2>1, <2>2, <2>3, <2>4, <2>5
       DEF Gates!ParseDecision, Gates!ValidateDecision, Gates!GroundDecision,
           Gates!QwenStep, Gates!GateInv
<1>3. CASE UNCHANGED Gates!vars
  BY <1>3 DEF Gates!vars, Gates!GateInv, Gates!GatesFailClosed
<1> QED
  BY <1>1, <1>2, <1>3 DEF Gates!Next

(* No reply and no score makes an answer out of what is not supported       *)
(* (the entailment and the Qwen gates of answering.py).                     *)
THEOREM GatesAlwaysFailClosed == ServiceSpec => []GatesFailClosed
<1> DEFINE Inv == part = "gates" => Gates!GateInv
<1>1. ServiceInit => Inv
  BY DEF ServiceInit, Gates!Init, Gates!GateInv, Gates!GatesFailClosed
<1>2. Inv /\ [ServiceNext]_serviceVars => Inv'
  BY GatesMoves, GateStep
<1>3. Inv => GatesFailClosed
  BY DEF Gates!GateInv, GatesFailClosed
<1> QED
  BY <1>1, <1>2, <1>3, PTL DEF ServiceSpec

-----------------------------------------------------------------------------
(* One field of the extraction, for every document and every extractor.     *)

LEMMA ExtractionMoves ==
    ASSUME [ServiceNext]_serviceVars, part' = "extraction"
    PROVE  part = "extraction" /\ [Extraction!Next]_(Extraction!vars)
BY DEF ServiceNext, serviceVars, shared, rest3, rest5, Extraction!vars

LEMMA ExtractionCounts == \A S : Extraction!Cardinality(S) = Cardinality(S)
BY DEF Extraction!Cardinality, Cardinality

LEMMA LinesAreLines ==
    ASSUME Extraction!ExtractionInv
    PROVE  /\ DOMAIN x3 = 1 .. Len(x3) /\ Len(x3) \in Nat
           /\ IsFiniteSet(DOMAIN x3) /\ DOMAIN x3 \subseteq Nat
           /\ \A i \in DOMAIN x3 : x3[i] \in Extraction!Lines
<1> USE DEF Extraction!ExtractionInv
<1>1. DOMAIN x3 = 1 .. Len(x3) /\ Len(x3) \in Nat
  OBVIOUS
<1>2. \A i \in DOMAIN x3 : x3[i] \in Extraction!Lines
  BY <1>1, ElementOfSeq
<1> QED
  BY <1>1, <1>2, FS_Interval

\* The first of a set of lines is one of them.
LEMMA FirstIsOne ==
    ASSUME NEW I, I \subseteq Nat
    PROVE  Extraction!Firsts(I) \subseteq I /\ \A i, j \in Extraction!Firsts(I) : i = j
<1>1. CASE I = {}
  BY <1>1 DEF Extraction!Firsts
<1>2. CASE I # {}
  <2>1. \E i \in I : \A j \in I : i <= j
    BY <1>2, HasLeast
  <2>2. Extraction!First(I) \in I
    BY <2>1 DEF Extraction!First
  <2> QED
    BY <1>2, <2>2 DEF Extraction!Firsts
<1> QED
  BY <1>1, <1>2

\* An admitted line is no instruction, nor half of one that its chunk completes.
LEMMA EntriesAreSafe ==
    ASSUME Extraction!ExtractionInv, NEW i \in Extraction!Entries
    PROVE  /\ i \in DOMAIN x3
           /\ x3[i].trust # "unsafe"
           /\ ~Extraction!SplitInstruction(i)
<1>1. PICK c \in 1 .. 2 :
        i \in Extraction!LinesOf(c)
              \ Extraction!FragmentIndexes([j \in Extraction!LinesOf(c) |-> x3[j].trust])
  BY DEF Extraction!Entries
<1> DEFINE trust == [j \in Extraction!LinesOf(c) |-> x3[j].trust]
           half == {j \in DOMAIN trust : trust[j] = "half"}
<1>2. i \in DOMAIN x3 /\ x3[i].chunk = c /\ ~x3[i].heading /\ i \in DOMAIN trust
  BY <1>1 DEF Extraction!LinesOf
<1>3. ~ (Cardinality(half) >= 2) /\ trust[i] # "unsafe"
  BY <1>1, <1>2, ExtractionCounts DEF Extraction!FragmentIndexes
<1>4. ~Extraction!SplitInstruction(i)
  <2> SUFFICES ASSUME x3[i].trust = "half",
                      NEW j \in DOMAIN x3 \ {i}, x3[j].trust = "half",
                      x3[j].chunk = x3[i].chunk, ~x3[j].heading
               PROVE  FALSE
    BY DEF Extraction!SplitInstruction
  <2>1. i \in half /\ j \in half
    BY <1>2 DEF Extraction!LinesOf
  <2>2. IsFiniteSet(half)
    <3>1. half \subseteq DOMAIN x3
      BY DEF Extraction!LinesOf
    <3> QED
      BY <3>1, LinesAreLines, FS_Subset
  <2> HIDE DEF half
  <2> QED
    BY <1>3, <2>1, <2>2, TwoCount
<1> QED
  BY <1>2, <1>3, <1>4

\* Both extractors take values from admitted lines, but for the title that
\* version 1 takes from one line of page 1.
LEMMA SourcesAreEntries ==
    ASSUME Extraction!ExtractionInv, x1 \in {1, 3}
    PROVE  \/ Extraction!Sources \subseteq Extraction!Entries
           \/ /\ x1 = 1 /\ x2 = "document_type"
              /\ Extraction!Sources \subseteq DOMAIN x3
              /\ \A i, j \in Extraction!Sources : i = j
<1> DEFINE E == Extraction!Entries
<1>1. E \subseteq DOMAIN x3 /\ DOMAIN x3 \subseteq Nat
  BY LinesAreLines, EntriesAreSafe
<1>2. \A I : /\ Extraction!Labelled(I) \subseteq I /\ Extraction!Prose(I) \subseteq I
             /\ Extraction!Page1(I) \subseteq I /\ Extraction!Unique(I) \subseteq I
  BY DEF Extraction!Labelled, Extraction!Prose, Extraction!Page1, Extraction!Unique
<1>3. Extraction!Hits \subseteq E
  BY <1>2 DEF Extraction!Hits
<1>4. \A I : I \subseteq E => Extraction!Firsts(I) \subseteq E
  BY <1>1, FirstIsOne
<1>5. \A I : I \subseteq E => Extraction!LabelFirst(I) \subseteq E
  BY <1>2, <1>4 DEF Extraction!LabelFirst
<1> HIDE DEF E
<1>6. CASE x1 = 1 /\ x2 = "document_type"
  <2>1. Extraction!Sources = Extraction!LabelFirst(Extraction!Page1(Extraction!Prose(DOMAIN x3)))
    BY <1>6 DEF Extraction!Sources, Extraction!FieldsV1
  <2>2. \E I : I \subseteq DOMAIN x3 /\ Extraction!Sources = Extraction!Firsts(I)
    <3>1. Extraction!Labelled(E) \subseteq DOMAIN x3
      BY <1>1, <1>2
    <3>2. Extraction!Page1(Extraction!Prose(DOMAIN x3)) \subseteq DOMAIN x3
      BY <1>2
    <3> QED
      BY <2>1, <3>1, <3>2 DEF Extraction!LabelFirst, E
  <2>3. PICK I : I \subseteq DOMAIN x3 /\ Extraction!Sources = Extraction!Firsts(I)
    BY <2>2
  <2> QED
    BY <1>1, <1>6, <2>3, FirstIsOne
<1>7. CASE x1 = 1 /\ x2 # "document_type"
  <2>1. Extraction!Sources = Extraction!FieldsV1
    BY <1>7 DEF Extraction!Sources
  <2>2. \/ Extraction!FieldsV1 = Extraction!LabelFirst(Extraction!Page1(Extraction!Prose(E)))
        \/ Extraction!FieldsV1 = Extraction!Firsts(Extraction!Hits)
        \/ Extraction!FieldsV1 \in {{}, Extraction!RenewalDates}
        \/ Extraction!FieldsV1 = Extraction!Unique(Extraction!Labelled(E))
        \/ Extraction!FieldsV1 = Extraction!Unique(Extraction!Hits)
    BY <1>7 DEF Extraction!FieldsV1, E
  <2>3. Extraction!Page1(Extraction!Prose(E)) \subseteq E
    BY <1>2
  <2>4. Extraction!Unique(Extraction!Labelled(E)) \subseteq E /\ Extraction!RenewalDates \subseteq E
    BY <1>2, <1>3 DEF Extraction!RenewalDates
  <2> QED
    BY <1>2, <1>3, <1>4, <1>5, <2>1, <2>2, <2>3, <2>4 DEF E
<1>8. CASE x1 = 3
  <2>1. Extraction!Sources = Extraction!FieldsV3
    BY <1>8 DEF Extraction!Sources
  <2>2. \/ Extraction!FieldsV3 = Extraction!TitleFirst
        \/ Extraction!FieldsV3 = Extraction!LabelFirst(Extraction!Prose(E))
        \/ Extraction!FieldsV3 = Extraction!Unique(Extraction!Hits)
    BY DEF Extraction!FieldsV3, E
  <2>3. Extraction!TitleFirst \subseteq E
    <3>1. Extraction!Page1(Extraction!Prose(E)) \subseteq E /\ Extraction!Labelled(E) \subseteq E
      BY <1>2
    <3> QED
      BY <1>4, <3>1 DEF Extraction!TitleFirst, E
  <2> QED
    BY <1>2, <1>3, <1>5, <2>1, <2>2, <2>3 DEF E
<1> QED
  BY <1>6, <1>7, <1>8

\* When the renewal dates do not conflict, all admitted lines give one.
LEMMA DatesAgree ==
    ASSUME Extraction!ExtractionInv, ~ (Cardinality(Extraction!RenewalDates) > 1),
           NEW i \in Extraction!RenewalDates, NEW j \in Extraction!Hits
    PROVE  x3[j].value = x3[i].value
<1> SUFFICES ASSUME x3[j].value # x3[i].value PROVE FALSE
  OBVIOUS
<1> DEFINE Same == {h \in Extraction!Hits : x3[h].value = x3[j].value}
<1>1. Extraction!Hits \subseteq DOMAIN x3
  BY EntriesAreSafe DEF Extraction!Hits, Extraction!Labelled, Extraction!Prose
<1>2. PICK k \in Same : \A h \in Same : k <= h
  <2>1. Same \subseteq Nat /\ j \in Same
    BY <1>1, LinesAreLines
  <2> HIDE DEF Same
  <2> QED
    BY <2>1, HasLeast
<1>3. k \in Extraction!RenewalDates
  <2>1. k \in Extraction!Hits /\ x3[k].value = x3[j].value
    BY <1>2
  <2>2. \A h \in Extraction!Hits : h < k => x3[h].value # x3[k].value
    BY <1>1, <1>2, <2>1, LinesAreLines
  <2> QED
    BY <2>1, <2>2 DEF Extraction!RenewalDates, Extraction!Unique
<1>4. k # i
  BY <1>2
<1>5. IsFiniteSet(Extraction!RenewalDates)
  BY <1>1, LinesAreLines, FS_Subset DEF Extraction!RenewalDates, Extraction!Unique
<1> QED
  BY <1>3, <1>4, <1>5, TwoCount, FS_CardinalityType

LEMMA ServedCited ==
    ASSUME Extraction!ExtractionInv
    PROVE  Extraction!ServedIsCited
<1>1. CASE x5 = Extraction!Pending
  BY <1>1 DEF Extraction!Pending, Extraction!ServedIsCited
<1>2. CASE x5 # Extraction!Pending
  <2>1. x4 = Extraction!Extracted /\ x5 = Extraction!Sanitized
    BY <1>2 DEF Extraction!ExtractionInv
  <2>2. /\ Extraction!SafeValues # {} => Extraction!SafeCites # {}
        /\ x5.values = Extraction!SafeValues /\ x5.cites = Extraction!SafeCites
        /\ x5.conflict = x4.conflict
    BY <1>2, <2>1 DEF Extraction!Sanitized
  <2>3. /\ x4.values = {} \/ x4.values = x4.cites
        /\ \/ x4.cites = Extraction!Sources /\ x4.conflict = FALSE
           \/ /\ x1 = 1 /\ Extraction!Conflict
              /\ x4.values = {} /\ x4.cites = Extraction!RenewalDates
    BY <2>1 DEF Extraction!Extracted
  <2>4. \A i \in Extraction!SafeValues : i \in x4.values /\ Extraction!ValueTrust(i) # "unsafe"
    BY DEF Extraction!SafeValues, Extraction!FragmentIndexes
  <2>5. \A i \in Extraction!SafeCites : i \in x4.cites /\ Extraction!CiteTrust(i) # "unsafe"
    BY DEF Extraction!SafeCites
  <2>6. x1 # 0 =>
          \/ x4.cites \subseteq Extraction!Entries
          \/ x1 = 1 /\ x2 = "document_type" /\ \A i, j \in x4.cites : i = j
    <3>1. x1 # 0 => x1 \in {1, 3}
      BY DEF Extraction!ExtractionInv
    <3>2. Extraction!RenewalDates \subseteq Extraction!Entries
      BY DEF Extraction!RenewalDates, Extraction!Unique, Extraction!Hits, Extraction!Labelled,
         Extraction!Prose
    <3> QED
      BY <2>3, <3>1, <3>2, SourcesAreEntries
  <2>7. x1 # 0 => \A i \in Extraction!SafeCites :
          /\ x3[i].trust # "unsafe"
          /\ Extraction!SplitInstruction(i) => x1 = 1 /\ x2 = "document_type"
    <3>1. CASE x4.cites \subseteq Extraction!Entries
      BY <2>5, <3>1, EntriesAreSafe
    <3>2. CASE x1 = 1 /\ x2 = "document_type"
      BY <2>5, <3>2 DEF Extraction!CiteTrust
    <3> QED
      BY <2>6, <3>1, <3>2
  <2>8. x1 # 0 => Extraction!SafeValues \subseteq Extraction!SafeCites
    <3>1. CASE x4.cites \subseteq Extraction!Entries
      BY <2>3, <2>4, <3>1, EntriesAreSafe DEF Extraction!SafeCites, Extraction!CiteTrust
    <3>2. CASE \A i, j \in x4.cites : i = j
      <4>1. \A i \in Extraction!SafeValues : i \in x4.cites
        BY <2>3, <2>4
      <4> QED
        BY <2>2, <2>5, <3>2, <4>1
    <3> QED
      BY <2>6, <3>1, <3>2
  <2>9. \A i \in Extraction!SafeValues : ~(x3[i].within /\ x3[i].trust = "unsafe")
    BY <2>4 DEF Extraction!ValueTrust
  <2>10. x1 = 1 /\ x2 = "renewal" =>
           /\ \A i \in Extraction!SafeValues : \A j \in Extraction!Hits : x3[j].value = x3[i].value
           /\ x4.conflict => Extraction!SafeValues = {} /\ Cardinality(Extraction!SafeCites) > 1
    <3> SUFFICES ASSUME x1 = 1, x2 = "renewal"
                 PROVE  /\ \A i \in Extraction!SafeValues :
                              \A j \in Extraction!Hits : x3[j].value = x3[i].value
                        /\ x4.conflict => /\ Extraction!SafeValues = {}
                                          /\ Cardinality(Extraction!SafeCites) > 1
      OBVIOUS
    <3>1. Extraction!Sources = IF Cardinality(Extraction!RenewalDates) > 1 THEN {}
                               ELSE Extraction!RenewalDates
      BY ExtractionCounts DEF Extraction!Sources, Extraction!FieldsV1
    <3>2. CASE Extraction!Conflict
      <4>1. x4.values = {} /\ x4.cites = Extraction!RenewalDates
        BY <2>1, <3>2 DEF Extraction!Extracted
      <4>2. Extraction!SafeCites = Extraction!RenewalDates
        <5>1. \A i \in Extraction!RenewalDates : x3[i].trust # "unsafe"
          BY EntriesAreSafe DEF Extraction!RenewalDates, Extraction!Unique, Extraction!Hits,
             Extraction!Labelled, Extraction!Prose
        <5> QED
          BY <4>1, <5>1 DEF Extraction!SafeCites, Extraction!CiteTrust
      <4> QED
        BY <2>4, <3>2, <4>1, <4>2, ExtractionCounts DEF Extraction!Conflict
    <3>3. CASE ~Extraction!Conflict
      <4>1. ~ (Cardinality(Extraction!RenewalDates) > 1)
        BY <3>3, ExtractionCounts DEF Extraction!Conflict
      <4>2. Extraction!SafeValues \subseteq Extraction!RenewalDates /\ ~x4.conflict
        BY <2>3, <2>4, <3>1, <3>3, <4>1
      <4> QED
        BY <4>1, <4>2, DatesAgree
    <3> QED
      BY <3>2, <3>3
  <2> QED
    BY <2>2, <2>7, <2>8, <2>9, <2>10, ExtractionCounts DEF Extraction!ServedIsCited
<1> QED
  BY <1>1, <1>2

\* What is stored and served depends on nothing else.
LEMMA ExtractionStays ==
    ASSUME UNCHANGED <<x1, x2, x3>>
    PROVE  /\ Extraction!Extracted' = Extraction!Extracted
           /\ UNCHANGED x4 => Extraction!Sanitized' = Extraction!Sanitized
<1>2. Extraction!Entries' = Extraction!Entries
  <2>1. x3' = x3
    OBVIOUS
  <2> QED
    BY <2>1 DEF Extraction!Entries, Extraction!LinesOf, Extraction!FragmentIndexes
<1>3. \A I : /\ Extraction!Labelled(I)' = Extraction!Labelled(I)
             /\ Extraction!Prose(I)' = Extraction!Prose(I)
             /\ Extraction!Page1(I)' = Extraction!Page1(I)
             /\ Extraction!Unique(I)' = Extraction!Unique(I)
  BY DEF Extraction!Labelled, Extraction!Prose, Extraction!Page1, Extraction!Unique
<1>4. Extraction!Hits' = Extraction!Hits
  BY <1>2 DEF Extraction!Hits, Extraction!Labelled, Extraction!Prose
<1>5. Extraction!RenewalDates' = Extraction!RenewalDates
  BY <1>4 DEF Extraction!RenewalDates, Extraction!Unique
<1>6. Extraction!Sources' = Extraction!Sources
  BY <1>2, <1>4, <1>5
     DEF Extraction!Sources, Extraction!FieldsV1, Extraction!FieldsV3, Extraction!TitleFirst,
         Extraction!LabelFirst, Extraction!Labelled, Extraction!Prose, Extraction!Page1,
         Extraction!Unique
<1>7. Extraction!Extracted' = Extraction!Extracted
  BY <1>5, <1>6 DEF Extraction!Extracted, Extraction!Conflict
<1>8. ASSUME UNCHANGED x4
      PROVE  Extraction!Sanitized' = Extraction!Sanitized
  <2>1. \A i : /\ Extraction!ValueTrust(i)' = Extraction!ValueTrust(i)
               /\ Extraction!CiteTrust(i)' = Extraction!CiteTrust(i)
    BY DEF Extraction!ValueTrust, Extraction!CiteTrust
  <2>2. /\ Extraction!SafeValues' = Extraction!SafeValues
        /\ Extraction!SafeCites' = Extraction!SafeCites
    BY <1>8, <2>1 DEF Extraction!SafeValues, Extraction!SafeCites, Extraction!ValueTrust,
       Extraction!CiteTrust, Extraction!FragmentIndexes
  <2> QED
    BY <1>8, <2>2 DEF Extraction!Sanitized
<1> QED
  BY <1>7, <1>8

(* No value is served without its evidence, and none that is an instruction *)
(* (extract_supplier_fields, _sanitize_document_output).                    *)
THEOREM ServedIsAlwaysCited == ServiceSpec => []ServedIsCited
<1> DEFINE Inv == part = "extraction" => Extraction!ExtractionInv
<1>1. ServiceInit => Inv
  BY DEF ServiceInit, Extraction!Init, Extraction!ExtractionInv
<1>2. Inv /\ [ServiceNext]_serviceVars => Inv'
  <2> SUFFICES ASSUME Extraction!ExtractionInv, [Extraction!Next]_(Extraction!vars)
               PROVE  Extraction!ExtractionInv'
    BY ExtractionMoves
  <2>1. CASE Extraction!ReadLine
    <3>1. x3' \in Seq(Extraction!Lines)
      BY <2>1, AppendProperties DEF Extraction!ReadLine, Extraction!ExtractionInv
    <3> QED
      BY <2>1, <3>1 DEF Extraction!ReadLine, Extraction!ExtractionInv
  <2>2. CASE UNCHANGED <<x1, x2, x3>>
    <3>1. /\ Extraction!Extracted' = Extraction!Extracted
          /\ UNCHANGED x4 => Extraction!Sanitized' = Extraction!Sanitized
      BY <2>2, ExtractionStays
    <3> USE DEF Extraction!ExtractionInv, Extraction!Pending
    <3>2. CASE Extraction!Extract
      BY <2>2, <3>1, <3>2 DEF Extraction!Extract
    <3>3. CASE Extraction!Serve
      BY <2>2, <3>1, <3>3 DEF Extraction!Serve
    <3>4. CASE UNCHANGED <<x4, x5>>
      BY <2>2, <3>1, <3>4
    <3> QED
      BY <3>2, <3>3, <3>4 DEF Extraction!Next, Extraction!ReadLine, Extraction!vars
  <2> QED
    BY <2>1, <2>2 DEF Extraction!Next, Extraction!Extract, Extraction!Serve, Extraction!vars
<1>3. Inv => ServedIsCited
  BY ServedCited DEF ServedIsCited
<1> QED
  BY <1>1, <1>2, <1>3, PTL DEF ServiceSpec

==============================================================================

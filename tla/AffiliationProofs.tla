------------------------- MODULE AffiliationProofs -------------------------
(***************************************************************************)
(* What holds of applications and their documents for any companies,       *)
(* requests, uploads and transactions. The argument rests on two kinds of  *)
(* facts: what a request read is older than what the company has become    *)
(* since (ReadBefore), and a promoted file belongs to one request until a  *)
(* row refers to it (FilesKept). And that the history of fares, parameters *)
(* and commissions is unbroken: a transaction alone has a write on a key,  *)
(* and the write closes the last version of the key, which stays the last  *)
(* one until it commits.                                                   *)
(*                                                                         *)
(* And of what is told of all this: it is an affiliation still             *)
(* (NoticesAffiliate), every password reaches its owner, and what a view   *)
(* read first stays true of its company until the rest is read (DeskTrue). *)
(***************************************************************************)
EXTENDS CompanyNotices, FiniteSetTheorems, WellFoundedInduction, TLAPS

-----------------------------------------------------------------------------
(* The plan of a provisioning. Finitely many services can be sorted, in    *)
(* one way; the plan has the keys of each in turn.                         *)
HasLeast(B) == \E T \in B : \A U \in B : U \subseteq T => U = T

LEMMA Least ==
  ASSUME NEW S, IsFiniteSet(S), NEW B, B \subseteq SUBSET S, B # {}
  PROVE  HasLeast(B)
<1>1. B \subseteq FiniteSubsetsOf(S)
  BY FS_Subset DEF FiniteSubsetsOf
<1>2. PICK T \in B : \A U \in B : <<U, T>> \notin StrictSubsetOrdering(S)
  BY <1>1, FS_StrictSubsetOrderingWellFounded, WFMin
<1> QED  BY <1>2 DEF StrictSubsetOrdering, HasLeast

LEMMA Largest ==
  ASSUME NEW S, IsFiniteSet(S), S # {}, S \subseteq Int
  PROVE  \E m \in S : \A x \in S : x <= m
<1> DEFINE B == { T \in SUBSET S : T # {} /\ ~\E m \in T : \A x \in T : x <= m }
<1>0. SUFFICES ASSUME B # {} PROVE FALSE
  OBVIOUS
<1>1. PICK T \in B : \A U \in B : U \subseteq T => U = T
  <2>1. B \subseteq SUBSET S
    OBVIOUS
  <2> HIDE DEF B
  <2>2. HasLeast(B)
    BY <1>0, <2>1, Least, Zenon
  <2> QED  BY <2>2 DEF HasLeast
<1>2. PICK a \in T : TRUE
  OBVIOUS
<1>3. T \ {a} \notin B /\ T \ {a} \in SUBSET S /\ a \in Int
  BY <1>1, <1>2
<1>4. CASE T \ {a} = {}
  <2>1. \A x \in T : x <= a
    BY <1>3, <1>4
  <2> QED  BY <1>2, <2>1
<1>5. ASSUME NEW m \in T \ {a}, \A x \in T \ {a} : x <= m PROVE FALSE
  <2>1. m \in Int
    BY <1>5
  <2>2. CASE a <= m
    BY <1>5, <2>2
  <2>3. CASE m <= a
    <3>1. \A x \in T : x <= a
      BY <1>3, <1>5, <2>1, <2>3
    <3> QED  BY <1>2, <3>1
  <2> QED  BY <1>3, <2>1, <2>2, <2>3
<1> QED  BY <1>3, <1>4, <1>5

Sorts(s, S) == s \in [1..Cardinality(S) -> S] /\ \A i, j \in DOMAIN s : i < j => s[i] < s[j]

LEMMA CanBeSorted ==
  ASSUME NEW S, IsFiniteSet(S), S \subseteq Int
  PROVE  \E s : Sorts(s, S)
<1> DEFINE B == { T \in SUBSET S : ~\E s : Sorts(s, T) }
<1>0. SUFFICES ASSUME B # {} PROVE FALSE
  OBVIOUS
<1>1. PICK T \in B : \A U \in B : U \subseteq T => U = T
  <2>1. B \subseteq SUBSET S
    OBVIOUS
  <2> HIDE DEF B
  <2>2. HasLeast(B)
    BY <1>0, <2>1, Least, Zenon
  <2> QED  BY <2>2 DEF HasLeast
<1>2. T \in SUBSET S /\ ~\E s : Sorts(s, T)
  BY <1>1
<1>3. IsFiniteSet(T) /\ T \subseteq Int
  BY <1>2, FS_Subset
<1>4. T # {}
  <2>1. SUFFICES ASSUME T = {} PROVE FALSE
    OBVIOUS
  <2>2. Cardinality(T) = 0
    BY <2>1, FS_EmptySet
  <2>3. Sorts([i \in 1..0 |-> 0], T)
    BY <2>2 DEF Sorts
  <2> QED  BY <1>2, <2>3
<1>5. PICK m \in T : \A x \in T : x <= m
  BY <1>3, <1>4, Largest
<1>6. PICK r : Sorts(r, T \ {m})
  <2>1. T \ {m} \notin B /\ T \ {m} \in SUBSET S
    BY <1>1, <1>2
  <2> QED  BY <2>1
<1> DEFINE n == Cardinality(T)
           s == [i \in 1..n |-> IF i = n THEN m ELSE r[i]]
<1>7. n \in Nat /\ Cardinality(T \ {m}) = n - 1
  BY <1>3, FS_CardinalityType, FS_RemoveElement
<1> HIDE DEF n
<1>8. r \in [1..(n - 1) -> T \ {m}] /\ \A i, j \in 1..(n - 1) : i < j => r[i] < r[j]
  BY <1>6, <1>7 DEF Sorts
<1>9. \A i \in 1..n : s[i] = IF i = n THEN m ELSE r[i]
  OBVIOUS
<1>10. s \in [1..n -> T]
  BY <1>7, <1>8
<1> HIDE DEF s
<1>11. ASSUME NEW i \in 1..n, NEW j \in 1..n, i < j PROVE s[i] < s[j]
  <2>1. i \in 1..(n - 1) /\ s[i] = r[i]
    BY <1>7, <1>9, <1>11
  <2>2. CASE j = n
    <3>1. r[i] \in T \ {m} /\ s[j] = m
      BY <1>8, <1>9, <2>1, <2>2
    <3>2. r[i] <= m /\ r[i] # m /\ r[i] \in Int /\ m \in Int
      BY <1>3, <1>5, <3>1
    <3> QED  BY <2>1, <3>1, <3>2
  <2>3. CASE j # n
    BY <1>7, <1>8, <1>9, <1>11, <2>1, <2>3
  <2> QED  BY <2>2, <2>3
<1>12. Sorts(s, T)
  BY <1>10, <1>11 DEF Sorts, n
<1> QED  BY <1>2, <1>12

(* A sort goes through all of a set, and once.                             *)
LEMMA SortsAll ==
  ASSUME NEW S, IsFiniteSet(S), S \subseteq Int, NEW s, Sorts(s, S)
  PROVE  { s[i] : i \in DOMAIN s } = S
<1> DEFINE n == Cardinality(S)
<1>1. n \in Nat /\ s \in [1..n -> S] /\ \A i, j \in 1..n : i < j => s[i] < s[j]
  BY FS_CardinalityType DEF Sorts
<1>2. IsFiniteSet(1..n) /\ Cardinality(1..n) = Cardinality(S)
  BY <1>1, FS_Interval
<1> HIDE DEF n
<1>3. ASSUME NEW i \in 1..n, NEW j \in 1..n, s[i] = s[j] PROVE i = j
  <2>1. s[i] \in Int /\ ~(s[i] < s[j]) /\ ~(s[j] < s[i])
    <3>1. s[i] \in Int /\ s[j] \in Int
      BY <1>1
    <3> QED  BY <1>3, <3>1
  <2>2. ~(i < j) /\ ~(j < i) /\ i \in Int /\ j \in Int
    BY <1>1, <2>1
  <2> QED  BY <2>2
<1>4. s \in Injection(1..n, S)
  BY <1>1, <1>3 DEF Injection, IsInjective
<1>5. s \in Surjection(1..n, S)
  BY <1>2, <1>4, FS_Injection
<1> QED  BY <1>1, <1>5 DEF Surjection

(* The sorted services are those that were declared, each once.            *)
LEMMA SortedServices ==
  ASSUME NEW c \in Company
  PROVE  LET s == ServicesSorted(c)
         IN  \E n \in Nat : /\ s \in [1..n -> Service]
                            /\ \A i, j \in 1..n : i < j => s[i] < s[j]
                            /\ { s[i] : i \in 1..n } = ToSet(Declared[c])
<1> DEFINE S == ToSet(Declared[c])
           s == ServicesSorted(c)
<1>1. Declared[c] \in Seq(Service) /\ Service \subseteq Int
  BY VersionsAssumption
<1>2. S \subseteq Service /\ S \subseteq Int
  <2>1. \A i \in DOMAIN Declared[c] : Declared[c][i] \in Service
    BY <1>1
  <2> QED  BY <1>1, <2>1 DEF ToSet
<1>3. IsFiniteSet(S)
  <2>1. DOMAIN Declared[c] = 1..Len(Declared[c]) /\ Len(Declared[c]) \in Nat
    BY <1>1
  <2>2. IsFiniteSet(DOMAIN Declared[c])
    <3>1. \A k \in Nat : IsFiniteSet(1..k)
      BY FS_Interval
    <3> QED  BY <2>1, <3>1
  <2>3. Declared[c] \in Surjection(DOMAIN Declared[c], S)
    BY <1>1 DEF Surjection, ToSet
  <2> QED  BY <2>2, <2>3, FS_Surjection
<1>4. s = CHOOSE q \in [1..Cardinality(S) -> S] : \A i, j \in DOMAIN q : i < j => q[i] < q[j]
  BY DEF ServicesSorted
<1> HIDE DEF s, S
<1>5. Sorts(s, S)
  BY <1>2, <1>3, <1>4, CanBeSorted DEF Sorts
<1>6. Cardinality(S) \in Nat /\ s \in [1..Cardinality(S) -> S] /\ DOMAIN s = 1..Cardinality(S)
  BY <1>3, <1>5, FS_CardinalityType DEF Sorts
<1>7. { s[i] : i \in 1..Cardinality(S) } = S
  BY <1>2, <1>3, <1>5, <1>6, SortsAll
<1>8. s \in [1..Cardinality(S) -> Service]
  BY <1>2, <1>6
<1>9. \A i, j \in 1..Cardinality(S) : i < j => s[i] < s[j]
  BY <1>5, <1>6 DEF Sorts
<1> QED  BY <1>6, <1>7, <1>8, <1>9 DEF s, S

(* Flattening pairs.                                                       *)
LEMMA Halves == \A j \in Nat : \E i \in Nat : j = 2 * i \/ j = 2 * i + 1
<1> SUFFICES ASSUME NEW j \in Nat PROVE \E i \in Nat : j = 2 * i \/ j = 2 * i + 1
  OBVIOUS
<1>1. (j \div 2) \in Nat /\ (j = 2 * (j \div 2) \/ j = 2 * (j \div 2) + 1)
  OBVIOUS
<1> QED  BY <1>1

Flattens(f, seqs) ==
  f = [i \in 1..Len(seqs) |-> IF i = 1 THEN seqs[i] ELSE f[i-1] \o seqs[i]]

LEMMA FlattenIs ==
  ASSUME NEW seqs, Len(seqs) # 0
  PROVE  FlattenSeq(seqs) = (CHOOSE f : Flattens(f, seqs))[Len(seqs)]
BY DEF FlattenSeq, Flattens

LEMMA FlattenUnique ==
  ASSUME NEW seqs, Len(seqs) \in Nat, NEW f, Flattens(f, seqs), NEW g, Flattens(g, seqs)
  PROVE  f = g
<1> DEFINE B == { i \in 1..Len(seqs) : f[i] # g[i] }
<1>1. /\ f = [i \in 1..Len(seqs) |-> f[i]] /\ g = [i \in 1..Len(seqs) |-> g[i]]
      /\ \A i \in 1..Len(seqs) : f[i] = IF i = 1 THEN seqs[i] ELSE f[i-1] \o seqs[i]
      /\ \A i \in 1..Len(seqs) : g[i] = IF i = 1 THEN seqs[i] ELSE g[i-1] \o seqs[i]
  BY DEF Flattens
<1>2. SUFFICES ASSUME B # {} PROVE FALSE
  BY <1>1
<1>3. PICK i \in B : \A j \in B : ~(j < i)
  <2>1. B \subseteq Nat /\ B # {}
    BY <1>2
  <2> HIDE DEF B
  <2>2. PICK i \in B : \A j \in B : <<j, i>> \notin OpToRel(<, Nat)
    BY <2>1, NatLessThanWellFounded, WFMin
  <2> QED  BY <2>1, <2>2 DEF OpToRel
<1>4. i \in 1..Len(seqs) /\ f[i] # g[i]
  BY <1>3
<1>5. CASE i = 1
  BY <1>1, <1>4, <1>5
<1>6. CASE i # 1
  <2>1. i - 1 \in 1..Len(seqs) /\ i - 1 < i
    BY <1>4, <1>6
  <2>2. f[i-1] = g[i-1]
    BY <1>3, <2>1
  <2> QED  BY <1>1, <1>4, <1>6, <2>2
<1> QED  BY <1>5, <1>6

(* One element of each in turn.                                            *)
Alternates(p, n, a, b) == Len(p) = 2 * n /\ \A i \in 1..n : p[2 * i - 1] = a[i] /\ p[2 * i] = b[i]

LEMMA FlattenPairs ==
  ASSUME NEW n \in Nat, NEW D, NEW a \in [1..n -> D], NEW b \in [1..n -> D]
  PROVE  LET p == FlattenSeq([i \in 1..n |-> <<a[i], b[i]>>])
         IN  p \in Seq(D) /\ Alternates(p, n, a, b)
<1> DEFINE seqs == [i \in 1..n |-> <<a[i], b[i]>>]
           At(j) == IF j % 2 = 1 THEN a[(j + 1) \div 2] ELSE b[j \div 2]
           f == [i \in 1..n |-> [j \in 1..(2 * i) |-> At(j)]]
<1>1. Len(seqs) = n /\ \A i \in 1..n : seqs[i] = <<a[i], b[i]>>
  OBVIOUS
<1>2. \A i \in 1..n : At(2 * i - 1) = a[i] /\ At(2 * i) = b[i]
  <2> SUFFICES ASSUME NEW i \in 1..n PROVE At(2 * i - 1) = a[i] /\ At(2 * i) = b[i]
    OBVIOUS
  <2>1. /\ (2 * i - 1) % 2 = 1 /\ (2 * i - 1 + 1) \div 2 = i
        /\ (2 * i) % 2 # 1 /\ (2 * i) \div 2 = i
    OBVIOUS
  <2> QED  BY <2>1
<1> HIDE DEF At
<1>3. \A j \in 1..(2 * n) : At(j) \in D
  <2> SUFFICES ASSUME NEW j \in 1..(2 * n) PROVE At(j) \in D
    OBVIOUS
  <2>1. PICK i \in Nat : j = 2 * i \/ j = 2 * i + 1
    <3>1. j \in Nat
      OBVIOUS
    <3> QED  BY <3>1, Halves
  <2>2. CASE j = 2 * i
    <3>1. i \in 1..n
      BY <2>1, <2>2
    <3> QED  BY <1>2, <2>2, <3>1
  <2>3. CASE j = 2 * i + 1
    <3>1. i + 1 \in 1..n /\ j = 2 * (i + 1) - 1
      BY <2>3
    <3> QED  BY <1>2, <3>1
  <2> QED  BY <2>1, <2>2, <2>3
<1>4. \A i \in 1..n : f[i] = [j \in 1..(2 * i) |-> At(j)]
  OBVIOUS
<1>5. \A i \in 1..n : f[i] \in Seq(D) /\ Len(f[i]) = 2 * i
  <2> SUFFICES ASSUME NEW i \in 1..n PROVE f[i] \in Seq(D) /\ Len(f[i]) = 2 * i
    OBVIOUS
  <2>1. \A j \in 1..(2 * i) : At(j) \in D
    BY <1>3
  <2>2. 2 * i \in Nat /\ f[i] = [j \in 1..(2 * i) |-> At(j)]
    BY <1>4
  <2> QED  BY <2>1, <2>2
<1>6. Flattens(f, seqs)
  <2>1. ASSUME NEW i \in 1..n PROVE f[i] = IF i = 1 THEN seqs[i] ELSE f[i-1] \o seqs[i]
    <3>1. seqs[i] = <<At(2 * i - 1), At(2 * i)>>
      BY <1>1, <1>2
    <3>2. CASE i = 1
      BY <1>4, <3>1, <3>2
    <3>3. CASE i # 1
      <4>1. i - 1 \in 1..n
        BY <3>3
      <4>2. f[i-1] \in Seq(D) /\ Len(f[i-1]) = 2 * (i - 1) /\ f[i-1] = [j \in 1..(2 * (i - 1)) |-> At(j)]
        BY <1>4, <1>5, <4>1
      <4> DEFINE q == f[i-1]
                 h == q \o <<At(2 * i - 1), At(2 * i)>>
      <4>3. f[i] = [j \in 1..(2 * i) |-> At(j)]
        BY <1>4
      <4> HIDE DEF f
      <4>4. h = [j \in 1..(2 * i) |->
                 IF j <= 2 * (i - 1) THEN q[j] ELSE <<At(2 * i - 1), At(2 * i)>>[j - 2 * (i - 1)]]
        BY <4>2
      <4>5. \A j \in 1..(2 * i) : h[j] = At(j)
        <5> SUFFICES ASSUME NEW j \in 1..(2 * i) PROVE h[j] = At(j)
          OBVIOUS
        <5> HIDE DEF h
        <5>1. CASE j <= 2 * (i - 1)
          BY <4>2, <4>4, <5>1
        <5>2. CASE j = 2 * i - 1
          <6>1. j - 2 * (i - 1) = 1 /\ ~(j <= 2 * (i - 1))
            BY <5>2
          <6>2. h[j] = <<At(2 * i - 1), At(2 * i)>>[1]
            BY <4>4, <6>1
          <6> QED  BY <5>2, <6>2
        <5>3. CASE j = 2 * i
          <6>1. j - 2 * (i - 1) = 2 /\ ~(j <= 2 * (i - 1))
            BY <5>3
          <6>2. h[j] = <<At(2 * i - 1), At(2 * i)>>[2]
            BY <4>4, <6>1
          <6> QED  BY <5>3, <6>2
        <5> QED  BY <5>1, <5>2, <5>3
      <4>6. h = f[i]
        <5> HIDE DEF h
        <5>1. h = [j \in 1..(2 * i) |-> h[j]]
          BY <4>4
        <5> QED  BY <4>3, <4>5, <5>1
      <4> QED  BY <3>1, <3>3, <4>6
    <3> QED  BY <3>2, <3>3
  <2>2. f = [i \in 1..n |-> f[i]]
    OBVIOUS
  <2> HIDE DEF f, seqs
  <2> QED  BY <1>1, <2>1, <2>2 DEF Flattens
<1>7. CASE n = 0
  <2>1. seqs = <<>>
    BY <1>7
  <2>2. FlattenSeq(seqs) = seqs
    BY <1>1, <1>7 DEF FlattenSeq
  <2>3. FlattenSeq(seqs) = <<>> /\ 2 * n = 0 /\ 1..n = {}
    BY <1>7, <2>1, <2>2
  <2> HIDE DEF seqs
  <2>4. FlattenSeq(seqs) \in Seq(D) /\ Len(FlattenSeq(seqs)) = 2 * n
    BY <2>3
  <2> QED  BY <2>3, <2>4 DEF seqs, Alternates
<1>8. CASE n # 0
  <2>1. FlattenSeq(seqs) = f[n]
    <3> HIDE DEF f, seqs
    <3>1. Flattens(CHOOSE g : Flattens(g, seqs), seqs)
      BY <1>6
    <3>2. (CHOOSE g : Flattens(g, seqs)) = f
      BY <1>1, <1>6, <3>1, FlattenUnique
    <3> QED  BY <1>1, <1>8, <3>2, FlattenIs
  <2>2. f[n] = [j \in 1..(2 * n) |-> At(j)] /\ f[n] \in Seq(D) /\ Len(f[n]) = 2 * n
    BY <1>4, <1>5, <1>8
  <2>3. \A i \in 1..n : 2 * i - 1 \in 1..(2 * n) /\ 2 * i \in 1..(2 * n)
    OBVIOUS
  <2> HIDE DEF f
  <2>4. \A i \in 1..n : f[n][2 * i - 1] = a[i] /\ f[n][2 * i] = b[i]
    BY <1>2, <2>2, <2>3
  <2> QED  BY <2>1, <2>2, <2>4 DEF Alternates
<1> QED  BY <1>7, <1>8

(* Why they do not: every plan is in one order of the keys, by service, the*)
(* fare before the parameters, and the commission last.                    *)
Before(k, l) ==
  \/ k \notin CommissionKey /\ l \in CommissionKey
  \/ /\ k \notin CommissionKey /\ l \notin CommissionKey
     /\ \/ k[3] < l[3]
        \/ k[3] = l[3] /\ k[1] = "fare" /\ l[1] = "params"

InOrder(s) == \A i, j \in DOMAIN s : i < j => Before(s[i], s[j])


LEMMA Extended ==
  ASSUME NEW D, NEW q \in Seq(D), NEW x \in D
  PROVE  LET p == q \o <<x>>
         IN  /\ p \in Seq(D) /\ Len(p) = Len(q) + 1 /\ p[Len(q) + 1] = x
             /\ \A i \in 1..Len(q) : p[i] = q[i]
OBVIOUS

(* For each service its fare and its parameters, then the commission.      *)
LEMMA PlanIs ==
  ASSUME NEW c \in Company
  PROVE  LET s == ServicesSorted(c)
             p == Plan(c)
         IN  \E n \in Nat :
               /\ s \in [1..n -> Service] /\ \A i, j \in 1..n : i < j => s[i] < s[j]
               /\ { s[i] : i \in 1..n } = ToSet(Declared[c])
               /\ p \in Seq(Key) /\ Len(p) = 2 * n + 1 /\ p[2 * n + 1] = Commission(c)
               /\ \A i \in 1..n : /\ p[2 * i - 1] = <<"fare", TownOf[c], s[i]>>
                                  /\ p[2 * i] = <<"params", TownOf[c], s[i]>>
<1> DEFINE s == ServicesSorted(c)
           p == Plan(c)
<1>1. PICK n \in Nat : /\ s \in [1..n -> Service]
                       /\ \A i, j \in 1..n : i < j => s[i] < s[j]
                       /\ { s[i] : i \in 1..n } = ToSet(Declared[c])
  BY SortedServices
<1> HIDE DEF s
<1> DEFINE a == [i \in 1..n |-> <<"fare", TownOf[c], s[i]>>]
           b == [i \in 1..n |-> <<"params", TownOf[c], s[i]>>]
           q == FlattenSeq([i \in 1..n |-> <<a[i], b[i]>>])
<1>2. TownOf[c] \in Town /\ Commission(c) \in Key
  BY VersionsAssumption DEF Commission, Key, CommissionKey
<1>3. a \in [1..n -> Key] /\ b \in [1..n -> Key]
  BY <1>1, <1>2 DEF Key, FareKey, ParamsKey
<1>4. \A i \in 1..n : a[i] = <<"fare", TownOf[c], s[i]>> /\ b[i] = <<"params", TownOf[c], s[i]>>
  OBVIOUS
<1>5. p = q \o <<Commission(c)>>
  <2>1. DOMAIN s = 1..n
    BY <1>1
  <2>2. [i \in 1..n |-> <<a[i], b[i]>>] =
        [i \in DOMAIN s |-> <<<<"fare", TownOf[c], s[i]>>, <<"params", TownOf[c], s[i]>>>>]
    BY <1>4, <2>1
  <2> HIDE DEF a, b
  <2> QED  BY <2>2 DEF Plan, s
<1> HIDE DEF a, b, p
<1>6. /\ q \in Seq(Key) /\ Len(q) = 2 * n
      /\ \A i \in 1..n : q[2 * i - 1] = a[i] /\ q[2 * i] = b[i]
  <2>1. q \in Seq(Key) /\ Alternates(q, n, a, b)
    BY <1>3, FlattenPairs, Zenon
  <2> QED  BY <2>1 DEF Alternates
<1> HIDE DEF q
<1>7. /\ p \in Seq(Key) /\ Len(p) = 2 * n + 1 /\ p[2 * n + 1] = Commission(c)
      /\ \A i \in 1..(2 * n) : p[i] = q[i]
  <2>1. q \in Seq(Key) /\ Len(q) = 2 * n
    BY <1>6
  <2> QED  BY <1>2, <1>5, <2>1, Extended
<1>9. ASSUME NEW i \in 1..n
      PROVE  p[2 * i - 1] = <<"fare", TownOf[c], s[i]>> /\ p[2 * i] = <<"params", TownOf[c], s[i]>>
  <2>1. 2 * i - 1 \in 1..(2 * n) /\ 2 * i \in 1..(2 * n)
    OBVIOUS
  <2> QED  BY <1>4, <1>6, <1>7, <2>1
<1> QED  BY <1>1, <1>7, <1>9 DEF s, p

(* The places of a plan of n services.                                     *)
LEMMA Places ==
  ASSUME NEW n \in Nat, NEW j \in 1..(2 * n + 1)
  PROVE  j = 2 * n + 1 \/ \E i \in 1..n : j = 2 * i - 1 \/ j = 2 * i
<1>1. j \in Nat
  OBVIOUS
<1>2. PICK i \in Nat : j = 2 * i \/ j = 2 * i + 1
  BY <1>1, Halves
<1>3. CASE j = 2 * i
  <2>1. i \in 1..n
    BY <1>3
  <2> QED  BY <1>3, <2>1
<1>4. CASE j = 2 * i + 1 /\ j # 2 * n + 1
  <2>1. i + 1 \in 1..n /\ j = 2 * (i + 1) - 1
    BY <1>4
  <2> QED  BY <2>1
<1> QED  BY <1>2, <1>3, <1>4

LEMMA PlansFit ==
  \A c \in Company : Plan(c) \in Seq(Key) \ {<<>>} /\ ToSet(Plan(c)) = Needed(c)
<1> SUFFICES ASSUME NEW c \in Company
             PROVE  Plan(c) \in Seq(Key) \ {<<>>} /\ ToSet(Plan(c)) = Needed(c)
  OBVIOUS
<1> DEFINE s == ServicesSorted(c)
           p == Plan(c)
           F(v) == <<"fare", TownOf[c], v>>
           G(v) == <<"params", TownOf[c], v>>
<1>1. PICK n \in Nat :
        /\ { s[i] : i \in 1..n } = ToSet(Declared[c])
        /\ p \in Seq(Key) /\ Len(p) = 2 * n + 1 /\ p[2 * n + 1] = Commission(c)
        /\ \A i \in 1..n : p[2 * i - 1] = F(s[i]) /\ p[2 * i] = G(s[i])
  BY PlanIs
<1> HIDE DEF s, p
<1>2. DOMAIN p = 1..(2 * n + 1) /\ ToSet(p) = { p[j] : j \in 1..(2 * n + 1) }
  BY <1>1 DEF ToSet
<1>3. Needed(c) = {Commission(c)} \cup { F(s[i]) : i \in 1..n } \cup { G(s[i]) : i \in 1..n }
  BY <1>1 DEF Needed
<1> HIDE DEF F, G
<1>4. ASSUME NEW j \in 1..(2 * n + 1) PROVE p[j] \in Needed(c)
  <2>1. CASE j = 2 * n + 1
    BY <1>1, <1>3, <2>1
  <2>2. ASSUME NEW i \in 1..n, j = 2 * i - 1 \/ j = 2 * i PROVE p[j] \in Needed(c)
    BY <1>1, <1>3, <2>2
  <2> QED  BY <2>1, <2>2, Places
<1>5. ASSUME NEW i \in 1..n PROVE F(s[i]) \in ToSet(p) /\ G(s[i]) \in ToSet(p)
  <2>1. 2 * i - 1 \in 1..(2 * n + 1) /\ 2 * i \in 1..(2 * n + 1)
    OBVIOUS
  <2> QED  BY <1>1, <1>2, <2>1
<1>6. Commission(c) \in ToSet(p)
  <2>1. 2 * n + 1 \in 1..(2 * n + 1)
    OBVIOUS
  <2> QED  BY <1>1, <1>2, <2>1
<1>7. ToSet(p) = Needed(c)
  BY <1>2, <1>3, <1>4, <1>5, <1>6
<1> QED  BY <1>1, <1>7 DEF p

(* Every plan is in the order of the keys, however its services are listed.*)
LEMMA PlansInOrder == \A c \in Company : InOrder(Plan(c))
<1> SUFFICES ASSUME NEW c \in Company PROVE InOrder(Plan(c))
  OBVIOUS
<1> DEFINE s == ServicesSorted(c)
           p == Plan(c)
           F(v) == <<"fare", TownOf[c], v>>
           G(v) == <<"params", TownOf[c], v>>
<1>1. PICK n \in Nat :
        /\ s \in [1..n -> Service] /\ \A i, j \in 1..n : i < j => s[i] < s[j]
        /\ p \in Seq(Key) /\ Len(p) = 2 * n + 1 /\ p[2 * n + 1] = Commission(c)
        /\ \A i \in 1..n : p[2 * i - 1] = F(s[i]) /\ p[2 * i] = G(s[i])
  BY PlanIs
<1> HIDE DEF s, p
<1>2. /\ Commission(c) \in CommissionKey
      /\ \A v : F(v) \notin CommissionKey /\ G(v) \notin CommissionKey
  BY DEF Commission, CommissionKey
<1>3. ASSUME NEW v, NEW w, v < w
      PROVE  /\ Before(F(v), F(w)) /\ Before(F(v), G(w))
             /\ Before(G(v), F(w)) /\ Before(G(v), G(w))
  BY <1>2, <1>3 DEF Before
<1>4. \A v : /\ Before(F(v), G(v))
             /\ Before(F(v), Commission(c)) /\ Before(G(v), Commission(c))
  BY <1>2 DEF Before
<1> HIDE DEF F, G
<1>5. ASSUME NEW i \in DOMAIN p, NEW j \in DOMAIN p, i < j PROVE Before(p[i], p[j])
  <2>1. i \in 1..(2 * n + 1) /\ j \in 1..(2 * n + 1) /\ i # 2 * n + 1
    BY <1>1, <1>5
  <2>2. PICK k \in 1..n : i = 2 * k - 1 \/ i = 2 * k
    BY <2>1, Places
  <2>3. p[i] \in {F(s[k]), G(s[k])}
    BY <1>1, <2>2
  <2>4. CASE j = 2 * n + 1
    BY <1>1, <1>4, <2>3, <2>4
  <2>5. ASSUME NEW l \in 1..n, j = 2 * l - 1 \/ j = 2 * l PROVE Before(p[i], p[j])
    <3>1. p[j] \in {F(s[l]), G(s[l])}
      BY <1>1, <2>5
    <3>2. CASE k < l
      <4>1. s[k] < s[l]
        BY <1>1, <3>2
      <4> QED  BY <1>3, <2>3, <3>1, <4>1
    <3>3. CASE k = l
      <4>1. i = 2 * k - 1 /\ j = 2 * k
        BY <1>5, <2>2, <2>5, <3>3
      <4>2. p[i] = F(s[k]) /\ p[j] = G(s[k])
        BY <1>1, <4>1
      <4> QED  BY <1>4, <4>2
    <3>4. k < l \/ k = l
      BY <1>5, <2>2, <2>5
    <3> QED  BY <3>2, <3>3, <3>4
  <2> QED  BY <2>1, <2>4, <2>5, Places
<1> QED  BY <1>5 DEF InOrder, p

-----------------------------------------------------------------------------
(* The history of fares, parameters and commissions.                       *)

(* A transaction between its begin and its end has a key to go on with.    *)
Busy == {"reading", "writing", "rereading"}

WriteFits(h, w) ==
  /\ w.closes = Len(h) /\ w.saw = w.closes
  /\ w.closes # 0 => h[w.closes].from <= w.from

PendingFits ==
  \A x \in Txn, k \in Key : pending[x][k] # None =>
    /\ WriteFits(history[k], pending[x][k])
    /\ \A y \in Txn : y # x => pending[y][k] = None

HasKey == \A x \in Txn : txn[x].at \in Busy => txn[x].todo # <<>>

VersionsInv == VersionsTypeOK /\ HasKey /\ UnbrokenHistory /\ PendingFits

-----------------------------------------------------------------------------

LEMMA WantedIsKey ==
  ASSUME VersionsTypeOK, HasKey, NEW x \in Txn, txn[x].at \in Busy
  PROVE  Wanted(x) \in Key /\ Tail(txn[x].todo) \in Seq(Key)
  BY DEF VersionsTypeOK, HasKey, Wanted, Transaction, Busy

(* The open version of a key is its last one.                              *)
LEMMA OpenIsLast ==
  ASSUME VersionsTypeOK, UnbrokenHistory, NEW k \in Key, NEW v \in OpenVersions(k)
  PROVE  v = Len(history[k]) /\ v # 0 /\ v \in Nat
<1>1. history[k] \in Seq(Version) /\ Unbroken(history[k]) /\ v \in 1..Len(history[k])
      /\ history[k][v].to = Open
  BY DEF VersionsTypeOK, UnbrokenHistory, OpenVersions
<1>2. ASSUME v # Len(history[k]) PROVE FALSE
  <2>1. history[k][v].to = history[k][v + 1].from
    BY <1>1, <1>2 DEF Unbroken
  <2>2. history[k][v + 1] \in Version
    BY <1>1, <1>2
  <2>3. history[k][v + 1].from \in Moment
    BY <2>2 DEF Version
  <2>4. -1 \notin Moment
    BY VersionsAssumption DEF Moment
  <2> QED  BY <1>1, <2>1, <2>3, <2>4 DEF Open
<1> QED  BY <1>1, <1>2

LEMMA NoOpenIsNone ==
  ASSUME VersionsTypeOK, UnbrokenHistory, NEW k \in Key, OpenVersions(k) = {}
  PROVE  Len(history[k]) = 0
<1>1. history[k] \in Seq(Version) /\ Unbroken(history[k])
  BY DEF VersionsTypeOK, UnbrokenHistory
<1>2. ASSUME Len(history[k]) # 0 PROVE FALSE
  <2>1. Len(history[k]) \in 1..Len(history[k])
    BY <1>1, <1>2
  <2>2. history[k][Len(history[k])].to = Open
    BY <1>1, <2>1 DEF Unbroken
  <2>3. Len(history[k]) \in DOMAIN history[k]
    BY <1>1, <2>1
  <2>4. Len(history[k]) \in OpenVersions(k)
    BY <2>2, <2>3 DEF OpenVersions
  <2> QED  BY <2>4
<1> QED  BY <1>2

(* A write that fits prolongs a history without breaking it.               *)
LEMMA NeededAreKeys == \A c \in Company : Needed(c) \subseteq Key
<1> SUFFICES ASSUME NEW c \in Company PROVE Needed(c) \subseteq Key
  OBVIOUS
<1>1. Plan(c) \in Seq(Key) /\ ToSet(Plan(c)) = Needed(c)
  BY PlansFit
<1> HIDE DEF Plan
<1>2. \A i \in DOMAIN Plan(c) : Plan(c)[i] \in Key
  BY <1>1
<1> QED  BY <1>1, <1>2 DEF ToSet

LEMMA AmendedFits ==
  ASSUME NEW h \in Seq(Version), Unbroken(h), NEW w \in Write, WriteFits(h, w)
  PROVE  Amended(h, w) \in Seq(Version) \ {<<>>} /\ Unbroken(Amended(h, w))
<1> DEFINE new == [from |-> w.from, to |-> Open, saw |-> w.saw]
           closed == IF w.closes = 0 THEN h ELSE [h EXCEPT ![w.closes].to = w.from]
<1>1. new \in Version
  BY DEF Write, Version
<1>2. /\ closed \in Seq(Version) /\ Len(closed) = Len(h)
      /\ \A v \in 1..Len(h) : /\ closed[v].from = h[v].from /\ closed[v].saw = h[v].saw
                              /\ v # w.closes => closed[v].to = h[v].to
                              /\ v = w.closes => closed[v].to = w.from
  <2>1. CASE w.closes = 0
    BY <2>1
  <2>2. CASE w.closes # 0
    <3>1. w.closes \in 1..Len(h) /\ w.from \in Moment
      BY <2>2 DEF WriteFits, Write
    <3>2. h[w.closes] \in Version
      BY <3>1
    <3>3. [h[w.closes] EXCEPT !.to = w.from] \in Version
      BY <3>1, <3>2 DEF Version
    <3> QED  BY <2>2, <3>1, <3>2, <3>3 DEF Version
  <2> QED  BY <2>1, <2>2
<1>3. Amended(h, w) = Append(closed, new)
  BY DEF Amended
<1> HIDE DEF closed, new
<1>4. Append(closed, new) \in Seq(Version) /\ Len(Append(closed, new)) = Len(h) + 1
      /\ Append(closed, new)[Len(h) + 1] = new
      /\ \A v \in 1..Len(h) : Append(closed, new)[v] = closed[v]
  BY <1>1, <1>2
<1>5. new.saw = Len(h) /\ new.to = Open /\ new.from = w.from
  BY DEF new, WriteFits
<1> DEFINE a == Append(closed, new)
<1>6. ASSUME NEW v \in 1..Len(h) + 1
      PROVE  /\ a[v].saw = v - 1
             /\ v < Len(a) => a[v].from <= a[v].to /\ a[v].to = a[v + 1].from
             /\ v = Len(a) => a[v].to = Open
  <2>1. CASE v = Len(h) + 1
    BY <1>4, <1>5, <2>1
  <2>2. CASE v = Len(h)
    <3>1. v \in 1..Len(h) /\ v = w.closes /\ h[v].from <= w.from /\ h[v].saw = v - 1
      BY <2>2 DEF WriteFits, Unbroken
    <3> QED  BY <1>2, <1>4, <1>5, <2>2, <3>1
  <2>3. CASE v < Len(h)
    <3>1. v \in 1..Len(h) /\ v + 1 \in 1..Len(h) /\ v # w.closes
      BY <2>3 DEF WriteFits
    <3>2. h[v].saw = v - 1 /\ h[v].from <= h[v].to /\ h[v].to = h[v + 1].from
      BY <2>3, <3>1 DEF Unbroken
    <3> QED  BY <1>2, <1>4, <2>3, <3>1, <3>2
  <2>4. v = Len(h) + 1 \/ v = Len(h) \/ v < Len(h)
    <3>1. Len(h) \in Nat
      OBVIOUS
    <3> QED  BY <3>1
  <2> HIDE DEF a
  <2> QED  BY <2>1, <2>2, <2>3, <2>4
<1> QED  BY <1>3, <1>4, <1>6 DEF Unbroken

-----------------------------------------------------------------------------

LEMMA OnwardTyped ==
  ASSUME VersionsTypeOK, HasKey, NEW x \in Txn, txn[x].at \in Busy
  PROVE  Onward(txn[x]) \in Transaction
         /\ (Onward(txn[x]).at \in Busy => Onward(txn[x]).todo # <<>>)
<1>1. txn[x] \in Transaction /\ Tail(txn[x].todo) \in Seq(Key)
  BY WantedIsKey DEF VersionsTypeOK
<1> QED  BY <1>1 DEF Onward, Transaction, Busy

(* A step of one transaction that writes nothing.                          *)
LEMMA MovesOn ==
  ASSUME VersionsInv, NEW x \in Txn, NEW t \in Transaction,
         t.at \in Busy => t.todo # <<>>,
         txn' = [txn EXCEPT ![x] = t], UNCHANGED <<history, pending, now>>
  PROVE  VersionsInv'
<1>1. VersionsTypeOK'
  BY DEF VersionsInv, VersionsTypeOK
<1>2. HasKey'
  BY DEF VersionsInv, HasKey, VersionsTypeOK
<1>3. UnbrokenHistory' /\ PendingFits'
  BY DEF VersionsInv, UnbrokenHistory, PendingFits
<1> QED  BY <1>1, <1>2, <1>3 DEF VersionsInv

(* A write of x on the key it wants.                                       *)
LEMMA WroteFits ==
  ASSUME VersionsInv, NEW x \in Txn, txn[x].at = "writing", Free(x, Wanted(x)),
         NEW closes, NEW from, Wrote(x, closes, from), from \in Moment,
         closes = Len(history[Wanted(x)]), txn[x].saw = closes,
         closes # 0 => history[Wanted(x)][closes].from <= from
  PROVE  VersionsInv'
<1> DEFINE k == Wanted(x)
           w == [closes |-> closes, from |-> from, saw |-> txn[x].saw]
<1> USE DEF VersionsInv
<1>1. k \in Key /\ txn[x].at \in Busy
  BY WantedIsKey DEF Busy
<1>2. history[k] \in Seq(Version) /\ txn[x].saw \in Nat
  BY <1>1 DEF VersionsTypeOK, Transaction
<1>3. w \in Write /\ WriteFits(history[k], w)
  BY <1>2 DEF Write, WriteFits
<1>4. /\ pending' = [pending EXCEPT ![x][k] = w]
      /\ txn' = [txn EXCEPT ![x] = Onward(txn[x])]
      /\ UNCHANGED <<history, now>>
  BY DEF Wrote, Advance
<1>5. Onward(txn[x]) \in Transaction
      /\ (Onward(txn[x]).at \in Busy => Onward(txn[x]).todo # <<>>)
  BY <1>1, OnwardTyped
<1>6. \A y \in Txn : y # x => pending[y][k] = None
  BY DEF Free, Holds
<1> HIDE DEF w, k
<1>7. VersionsTypeOK'
  BY <1>1, <1>3, <1>4, <1>5 DEF VersionsTypeOK
<1>8. HasKey'
  BY <1>4, <1>5 DEF HasKey, VersionsTypeOK
<1>9. UnbrokenHistory'
  BY <1>4 DEF UnbrokenHistory
<1>10. ASSUME NEW y \in Txn, NEW l \in Key, pending'[y][l] # None
       PROVE  /\ WriteFits(history'[l], pending'[y][l])
              /\ \A z \in Txn : z # y => pending'[z][l] = None
  <2>1. \A z \in Txn, m \in Key :
          pending'[z][m] = IF z = x /\ m = k THEN w ELSE pending[z][m]
    BY <1>1, <1>4 DEF VersionsTypeOK
  <2>2. CASE l = k
    BY <1>3, <1>4, <1>6, <1>10, <2>1, <2>2
  <2>3. CASE l # k
    BY <1>4, <1>10, <2>1, <2>3 DEF PendingFits
  <2> QED  BY <2>2, <2>3
<1>11. PendingFits'
  BY <1>10 DEF PendingFits
<1> QED  BY <1>7, <1>8, <1>9, <1>11

(* The end of a transaction, with or without its writes.                   *)
LEMMA EndsFit ==
  ASSUME VersionsInv, NEW x \in Txn, Commit(x) \/ Abort(x)
  PROVE  VersionsInv'
<1> USE DEF VersionsInv
<1>1. /\ pending' = [pending EXCEPT ![x] = [k \in Key |-> None]]
      /\ txn' = [txn EXCEPT ![x] = IdleTxn]
      /\ now' = now
  BY DEF Commit, Abort
<1>2. \A y \in Txn, k \in Key : pending'[y][k] = IF y = x THEN None ELSE pending[y][k]
  BY <1>1 DEF VersionsTypeOK
<1>3. IdleTxn \in Transaction /\ IdleTxn.at \notin Busy
  BY VersionsAssumption DEF IdleTxn, Transaction, Busy, Moment
<1>4. /\ history' \in [Key -> Seq(Version)]
      /\ UnbrokenHistory'
      /\ \A k \in Key : pending[x][k] = None => history'[k] = history[k]
  <2>1. CASE Abort(x)
    BY <2>1 DEF Abort, VersionsTypeOK, UnbrokenHistory
  <2>2. CASE Commit(x)
    <3>1. history' = [k \in Key |-> IF Holds(x, k) THEN Amended(history[k], pending[x][k])
                                                   ELSE history[k]]
      BY <2>2 DEF Commit
    <3>2. ASSUME NEW k \in Key, Holds(x, k)
          PROVE  Amended(history[k], pending[x][k]) \in Seq(Version)
                 /\ Unbroken(Amended(history[k], pending[x][k]))
      <4>1. /\ history[k] \in Seq(Version) /\ Unbroken(history[k])
            /\ pending[x][k] \in Write /\ WriteFits(history[k], pending[x][k])
        BY <3>2 DEF VersionsTypeOK, UnbrokenHistory, PendingFits, Holds
      <4> QED  BY <4>1, AmendedFits
    <3>3. ASSUME NEW k \in Key
          PROVE  history'[k] \in Seq(Version) /\ Unbroken(history'[k])
                 /\ (pending[x][k] = None => history'[k] = history[k])
      BY <3>1, <3>2 DEF VersionsTypeOK, UnbrokenHistory, Holds
    <3>4. history' = [k \in Key |-> history'[k]]
      BY <3>1
    <3> HIDE DEF Amended
    <3> QED  BY <3>3, <3>4 DEF UnbrokenHistory
  <2> QED  BY <2>1, <2>2
<1>5. VersionsTypeOK'
  BY <1>1, <1>3, <1>4 DEF VersionsTypeOK
<1>6. HasKey'
  BY <1>1, <1>3 DEF HasKey, VersionsTypeOK
<1>7. PendingFits'
  BY <1>2, <1>4 DEF PendingFits
<1> QED  BY <1>4, <1>5, <1>6, <1>7

-----------------------------------------------------------------------------

LEMMA VersionsStart == VersionsInit => VersionsInv
<1> SUFFICES ASSUME VersionsInit PROVE VersionsInv
  OBVIOUS
<1>1. IdleTxn \in Transaction /\ IdleTxn.at \notin Busy /\ 0 \in Moment
  BY VersionsAssumption DEF IdleTxn, Transaction, Busy, Moment
<1>2. VersionsTypeOK
  BY <1>1 DEF VersionsInit, VersionsTypeOK
<1>3. HasKey /\ PendingFits
  BY <1>1 DEF VersionsInit, HasKey, PendingFits
<1>4. UnbrokenHistory
  BY DEF VersionsInit, UnbrokenHistory, Unbroken
<1> QED  BY <1>2, <1>3, <1>4 DEF VersionsInv

LEMMA ReplacementFits ==
  ASSUME VersionsInv, NEW x \in Txn, ReplaceOpenVersion(x)
  PROVE  /\ txn[x].saw = Len(history[Wanted(x)]) /\ txn[x].saw # 0 /\ txn[x].saw \in Nat
         /\ StartsWhenClosed(x, txn[x].saw) \in Moment
         /\ history[Wanted(x)][txn[x].saw].from <= StartsWhenClosed(x, txn[x].saw)
<1> DEFINE t == txn[x]
           k == Wanted(x)
<1>1. t.at = "writing" /\ t.saw \in OpenVersions(k) /\ t \in Transaction
  BY DEF ReplaceOpenVersion, VersionsInv, VersionsTypeOK
<1>2. k \in Key
  BY <1>1, WantedIsKey DEF VersionsInv, Busy
<1>3. t.saw = Len(history[k]) /\ t.saw # 0 /\ t.saw \in Nat
  BY <1>1, <1>2, OpenIsLast DEF VersionsInv
<1>4. history[k] \in Seq(Version) /\ t.saw \in 1..Len(history[k])
  BY <1>2, <1>3 DEF VersionsInv, VersionsTypeOK
<1>5. history[k][t.saw].from \in Moment /\ t.start \in Moment
  <2>1. history[k][t.saw] \in Version
    BY <1>4
  <2> QED  BY <1>1, <2>1 DEF Version, Transaction
<1>6. /\ StartsWhenClosed(x, t.saw) \in Moment
      /\ history[k][t.saw].from <= StartsWhenClosed(x, t.saw)
  BY <1>5, VersionsAssumption DEF StartsWhenClosed, Later, Moment
<1> QED  BY <1>3, <1>6

LEMMA StatementFits ==
  ASSUME VersionsInv, NEW x \in Txn, Statement(x)
  PROVE  VersionsInv'
<1> DEFINE t == txn[x]
           k == Wanted(x)
<1>0. t \in Transaction
  BY DEF VersionsInv, VersionsTypeOK
<1>1. CASE FareFound(x) \/ WinnerFound(x) \/ LostParams(x)
  <2>1. t.at \in Busy /\ txn' = [txn EXCEPT ![x] = Onward(t)] /\ UNCHANGED <<history, pending, now>>
    BY <1>1 DEF FareFound, WinnerFound, LostParams, WroteNothing, Advance, Busy
  <2>2. Onward(t) \in Transaction /\ (Onward(t).at \in Busy => Onward(t).todo # <<>>)
    BY <2>1, OnwardTyped DEF VersionsInv
  <2> QED  BY <2>1, <2>2, MovesOn
<1>2. CASE FareMissing(x) \/ LostFare(x) \/ ReadCommission(x)
  <2>1. /\ t.at \in Busy /\ UNCHANGED <<history, pending, now>>
        /\ \/ txn' = [txn EXCEPT ![x] = [t EXCEPT !.at = "writing"]]
           \/ txn' = [txn EXCEPT ![x] = [t EXCEPT !.at = "rereading"]]
           \/ txn' = [txn EXCEPT ![x] = [t EXCEPT !.at = "writing", !.saw = Current(k)]]
    BY <1>2 DEF FareMissing, LostFare, WroteNothing, ReadCommission, Busy
  <2>2. Current(k) \in Nat
    <3>1. k \in Key
      BY <2>1, WantedIsKey DEF VersionsInv
    <3>2. OpenVersions(k) \subseteq Nat
      BY <3>1 DEF OpenVersions, VersionsInv, VersionsTypeOK
    <3> QED  BY <3>2 DEF Current
  <2>3. t.todo # <<>>
    BY <2>1 DEF VersionsInv, HasKey
  <2>4. PICK u \in Transaction : u.todo # <<>> /\ txn' = [txn EXCEPT ![x] = u]
    BY <1>0, <2>1, <2>2, <2>3 DEF Transaction
  <2> QED  BY <2>1, <2>4, MovesOn
<1>3. CASE InsertIfNoOpenVersion(x)
  <2>1. /\ t.at = "writing" /\ t.saw = 0 /\ Free(x, k) /\ Wrote(x, 0, t.start)
        /\ OpenVersions(k) = {}
    BY <1>3 DEF InsertIfNoOpenVersion
  <2>2. k \in Key
    BY <2>1, WantedIsKey DEF VersionsInv, Busy
  <2>3. Len(history[k]) = 0
    BY <2>1, <2>2, NoOpenIsNone DEF VersionsInv
  <2>4. t.start \in Moment
    BY <1>0 DEF Transaction
  <2> QED  BY <2>1, <2>3, <2>4, WroteFits
<1>4. CASE ReplaceOpenVersion(x)
  <2>1. t.at = "writing" /\ Free(x, k) /\ Wrote(x, t.saw, StartsWhenClosed(x, t.saw))
    BY <1>4 DEF ReplaceOpenVersion
  <2> QED  BY <1>4, <2>1, ReplacementFits, WroteFits
<1> QED  BY <1>1, <1>2, <1>3, <1>4 DEF Statement

LEMMA VersionsStep == VersionsInv /\ [VersionsNext]_versionVars => VersionsInv'
<1> SUFFICES ASSUME VersionsInv, [VersionsNext]_versionVars PROVE VersionsInv'
  OBVIOUS
<1>1. ASSUME NEW x \in Txn, Statement(x) PROVE VersionsInv'
  BY <1>1, StatementFits
<1>2. ASSUME NEW x \in Txn, Commit(x) \/ Abort(x) PROVE VersionsInv'
  BY <1>2, EndsFit
<1>3. ASSUME NEW x \in Txn, NEW k \in Key, NEW v \in 0..MaxVersions, BeginEdit(x, k, v)
      PROVE  VersionsInv'
  <2> DEFINE t == [at |-> "writing", company |-> None, start |-> now, todo |-> <<k>>, saw |-> v]
  <2>1. t \in Transaction /\ t.todo # <<>>
    BY VersionsAssumption DEF Transaction, VersionsInv, VersionsTypeOK
  <2>2. txn' = [txn EXCEPT ![x] = t] /\ UNCHANGED <<history, pending, now>>
    BY <1>3 DEF BeginEdit
  <2> QED  BY <2>1, <2>2, MovesOn
<1>4. ASSUME NEW x \in Txn, NEW c \in Company, BeginProvisioning(x, c) PROVE VersionsInv'
  <2> DEFINE t == [at |-> "reading", company |-> c, start |-> now, todo |-> Plan(c), saw |-> 0]
  <2>1. Plan(c) \in Seq(Key) /\ Plan(c) # <<>>
    BY PlansFit
  <2>2. t \in Transaction /\ t.todo # <<>>
    BY <2>1 DEF Transaction, VersionsInv, VersionsTypeOK
  <2>3. txn' = [txn EXCEPT ![x] = t] /\ UNCHANGED <<history, pending, now>>
    BY <1>4 DEF BeginProvisioning
  <2> QED  BY <2>2, <2>3, MovesOn
<1>5. CASE Tick
  <2>1. now' \in Moment /\ UNCHANGED <<history, pending, txn>>
    BY <1>5, VersionsAssumption DEF Tick, Moment, VersionsInv, VersionsTypeOK
  <2> QED
    BY <2>1 DEF VersionsInv, VersionsTypeOK, HasKey, UnbrokenHistory, PendingFits
<1>6. CASE UNCHANGED versionVars
  BY <1>6 DEF versionVars, VersionsInv, VersionsTypeOK, HasKey, UnbrokenHistory, PendingFits
<1> QED  BY <1>1, <1>2, <1>3, <1>4, <1>5, <1>6 DEF VersionsNext

-----------------------------------------------------------------------------

(* Whatever a provisioning needs is still to do, or there is a version of  *)
(* it, or it has written the first one. A version it has seen is that of   *)
(* its commission.                                                         *)
Configured(x, k) == history[k] # <<>> \/ pending[x][k] # None

PlanFollowed ==
  \A x \in Txn :
    /\ txn[x].at = "ready" => txn[x].todo = <<>>
    /\ txn[x].company # None =>
         /\ \A k \in Needed(txn[x].company) : k \in ToSet(txn[x].todo) \/ Configured(x, k)
         /\ txn[x].saw # 0 => txn[x].at = "writing" /\ Wanted(x) \in CommissionKey

LEMMA OpenMeansSome ==
  ASSUME VersionsTypeOK, NEW k \in Key, OpenVersions(k) # {}
  PROVE  history[k] # <<>>
  BY DEF OpenVersions, VersionsTypeOK

LEMMA CurrentMeansOpen ==
  ASSUME VersionsTypeOK, UnbrokenHistory, NEW k \in Key
  PROVE  Current(k) # 0 <=> history[k] # <<>>
<1>1. ASSUME Current(k) # 0 PROVE history[k] # <<>>
  BY <1>1, OpenMeansSome DEF Current
<1>2. ASSUME history[k] # <<>> PROVE Current(k) # 0
  <2>1. OpenVersions(k) # {}
    BY <1>2, NoOpenIsNone DEF VersionsTypeOK
  <2>2. Current(k) \in OpenVersions(k)
    BY <2>1 DEF Current
  <2> QED  BY <2>2, OpenIsLast
<1> QED  BY <1>1, <1>2

LEMMA HeldIsAmended ==
  ASSUME VersionsInv, NEW x \in Txn, NEW k \in Key, Holds(x, k)
  PROVE  Amended(history[k], pending[x][k]) # <<>>
<1>1. /\ history[k] \in Seq(Version) /\ Unbroken(history[k])
      /\ pending[x][k] \in Write /\ WriteFits(history[k], pending[x][k])
  BY DEF VersionsInv, VersionsTypeOK, UnbrokenHistory, PendingFits, Holds
<1> QED  BY <1>1, AmendedFits

LEMMA KindsDiffer ==
  ASSUME NEW k
  PROVE  /\ k \in CommissionKey => k \notin FareKey /\ k \notin ParamsKey
         /\ k \in FareKey => k \notin ParamsKey
  BY DEF FareKey, ParamsKey, CommissionKey

(* Nothing that was there is lost when a transaction ends or writes.       *)
LEMMA HistoryGrows ==
  ASSUME VersionsInv, [VersionsNext]_versionVars, NEW k \in Key, history[k] # <<>>
  PROVE  history'[k] # <<>>
<1>1. ASSUME NEW x \in Txn, Commit(x) PROVE history'[k] # <<>>
  <2>1. history'[k] = IF Holds(x, k) THEN Amended(history[k], pending[x][k]) ELSE history[k]
    BY <1>1 DEF Commit
  <2>2. CASE Holds(x, k)
    BY <2>1, <2>2, HeldIsAmended
  <2>3. CASE ~Holds(x, k)
    BY <2>1, <2>3
  <2> QED  BY <2>2, <2>3
<1>2. ASSUME \/ \E x \in Txn : Statement(x) \/ Abort(x)
             \/ \E x \in Txn, l \in Key, v \in 0..MaxVersions : BeginEdit(x, l, v)
             \/ \E x \in Txn, c \in Company : BeginProvisioning(x, c)
             \/ Tick \/ UNCHANGED versionVars
      PROVE  UNCHANGED history
  BY <1>2 DEF Statement, FareFound, FareMissing, ReadCommission, InsertIfNoOpenVersion,
              ReplaceOpenVersion, Wrote, LostFare, WinnerFound, LostParams, Abort, BeginEdit,
              BeginProvisioning, Tick, versionVars
<1> QED  BY <1>1, <1>2 DEF VersionsNext

(* One transaction goes on, and nothing that the others go by is lost.     *)
LEMMA OthersFollow ==
  ASSUME VersionsInv, PlanFollowed, NEW x \in Txn, NEW t,
         txn' = [txn EXCEPT ![x] = t],
         \A k \in Key : history[k] # <<>> => history'[k] # <<>>,
         \A y \in Txn, k \in Key : y # x => pending'[y][k] = pending[y][k],
         t.at = "ready" => t.todo = <<>>,
         t.company # None =>
           /\ \A k \in Needed(t.company) :
                k \in ToSet(t.todo) \/ history'[k] # <<>> \/ pending'[x][k] # None
           /\ t.saw # 0 => t.at = "writing" /\ Head(t.todo) \in CommissionKey
  PROVE  PlanFollowed'
<1>1. \A y \in Txn : txn'[y] = IF y = x THEN t ELSE txn[y]
  BY DEF VersionsInv, VersionsTypeOK
<1>2. ASSUME NEW y \in Txn
      PROVE  /\ txn'[y].at = "ready" => txn'[y].todo = <<>>
             /\ txn'[y].company # None =>
                  /\ \A k \in Needed(txn'[y].company) :
                       k \in ToSet(txn'[y].todo) \/ history'[k] # <<>> \/ pending'[y][k] # None
                  /\ txn'[y].saw # 0 =>
                       txn'[y].at = "writing" /\ Head(txn'[y].todo) \in CommissionKey
  <2>1. CASE y # x
    <3>1. txn'[y] = txn[y]
      BY <1>1, <2>1
    <3>2. txn[y].company # None => Needed(txn[y].company) \subseteq Key
      BY NeededAreKeys DEF VersionsInv, VersionsTypeOK, Transaction
    <3> QED  BY <2>1, <3>1, <3>2 DEF PlanFollowed, Configured, Wanted
  <2>2. CASE y = x
    BY <1>1, <2>2
  <2> QED  BY <2>1, <2>2
<1> QED  BY <1>2 DEF PlanFollowed, Configured, Needed, ToSet, Wanted

(* A statement that leaves its key behind has seen to it.                  *)
LEMMA AdvanceFollows ==
  ASSUME VersionsInv, PlanFollowed, NEW x \in Txn, txn[x].at \in Busy, Advance(x),
         history' = history,
         \A y \in Txn, k \in Key :
           pending'[y][k] = pending[y][k] \/ (y = x /\ pending'[y][k] # None),
         txn[x].company # None => history[Wanted(x)] # <<>> \/ pending'[x][Wanted(x)] # None
  PROVE  PlanFollowed'
<1> DEFINE t == txn[x]
           k == Wanted(x)
           u == Onward(txn[x])
<1>1. t \in Transaction /\ t.todo # <<>> /\ txn' = [txn EXCEPT ![x] = u]
  BY DEF VersionsInv, VersionsTypeOK, HasKey, Advance
<1>2. /\ u.company = t.company /\ u.todo = Tail(t.todo) /\ u.saw = 0
      /\ u.at = "ready" => u.todo = <<>>
  BY <1>1 DEF Onward, Transaction
<1>3. ToSet(t.todo) \subseteq {k} \cup ToSet(u.todo)
  <2>1. t.todo \in Seq(Key) /\ Len(t.todo) # 0
    BY <1>1 DEF Transaction
  <2>2. /\ k = t.todo[1] /\ Len(u.todo) = Len(t.todo) - 1 /\ u.todo \in Seq(Key)
        /\ \A i \in 1..Len(u.todo) : u.todo[i] = t.todo[i + 1]
    BY <1>2, <2>1 DEF Wanted
  <2> HIDE DEF k, u, t
  <2>3. ASSUME NEW i \in 1..Len(t.todo), i # 1 PROVE t.todo[i] \in ToSet(u.todo)
    <3>1. i - 1 \in 1..Len(u.todo) /\ (i - 1) + 1 = i
      BY <2>1, <2>2, <2>3
    <3>2. u.todo[i - 1] = t.todo[i] /\ i - 1 \in DOMAIN u.todo
      BY <2>2, <3>1
    <3> QED  BY <3>2 DEF ToSet
  <2>4. \A l \in ToSet(t.todo) : \E i \in 1..Len(t.todo) : l = t.todo[i]
    BY <2>1 DEF ToSet
  <2> QED  BY <2>2, <2>3, <2>4
<1>4. ASSUME t.company # None, NEW l \in Needed(t.company)
      PROVE  l \in ToSet(u.todo) \/ history'[l] # <<>> \/ pending'[x][l] # None
  <2>1. l \in ToSet(t.todo) \/ history[l] # <<>> \/ pending[x][l] # None
    BY <1>4 DEF PlanFollowed, Configured
  <2>2. l \in Key
    BY <1>1, <1>4, NeededAreKeys DEF Transaction
  <2>3. l = k => history[l] # <<>> \/ pending'[x][l] # None
    BY <1>4
  <2> QED  BY <1>3, <2>1, <2>2, <2>3
<1> HIDE DEF u
<1> QED  BY <1>1, <1>2, <1>4, OthersFollow

LEMMA StatementFollows ==
  ASSUME VersionsInv, PlanFollowed, NEW x \in Txn, Statement(x)
  PROVE  PlanFollowed'
<1> DEFINE t == txn[x]
           k == Wanted(x)
<1> USE DEF VersionsInv
<1>0. t \in Transaction /\ (t.at \in Busy => k \in Key)
  BY WantedIsKey DEF VersionsTypeOK
<1>1. CASE FareFound(x) \/ WinnerFound(x)
  <2>1. t.at \in Busy /\ Advance(x) /\ UNCHANGED <<history, pending>> /\ Current(k) # 0
    BY <1>1 DEF FareFound, WinnerFound, Busy
  <2>2. history[k] # <<>>
    BY <1>0, <2>1, CurrentMeansOpen
  <2> QED  BY <2>1, <2>2, AdvanceFollows
<1>2. CASE LostParams(x)
  <2>1. t.at = "writing" /\ Advance(x) /\ UNCHANGED <<history, pending>> /\ WroteNothing(x)
        /\ t.company # None /\ k \in ParamsKey
    BY <1>2 DEF LostParams, WroteNothing
  <2>2. t.saw = 0
    BY <2>1, KindsDiffer DEF PlanFollowed
  <2>3. history[k] # <<>>
    BY <1>0, <2>1, <2>2, OpenMeansSome DEF WroteNothing, Busy
  <2> QED  BY <2>1, <2>3, AdvanceFollows DEF Busy
<1>3. CASE InsertIfNoOpenVersion(x) \/ ReplaceOpenVersion(x)
  <2>1. PICK closes \in Nat, from \in Moment : t.at = "writing" /\ Wrote(x, closes, from)
    <3>1. CASE InsertIfNoOpenVersion(x)
      BY <1>0, <3>1 DEF InsertIfNoOpenVersion, Transaction
    <3>2. CASE ReplaceOpenVersion(x)
      BY <3>2, ReplacementFits DEF ReplaceOpenVersion
    <3> QED  BY <1>3, <3>1, <3>2
  <2> DEFINE w == [closes |-> closes, from |-> from, saw |-> t.saw]
  <2>3. pending' = [pending EXCEPT ![x][k] = w] /\ Advance(x) /\ history' = history /\ k \in Key
    BY <1>0, <2>1 DEF Wrote, Busy
  <2> HIDE DEF w, k
  <2>4. \A y \in Txn, l \in Key :
          pending'[y][l] = IF y = x /\ l = k THEN w ELSE pending[y][l]
    BY <2>3 DEF VersionsTypeOK
  <2>5. w # None
    <3>1. w \in Write
      BY <1>0, <2>1 DEF w, Write, Transaction
    <3> QED  BY <3>1, VersionsAssumption
  <2> QED  BY <2>1, <2>3, <2>4, <2>5, AdvanceFollows DEF Busy, k
<1>4. CASE FareMissing(x) \/ LostFare(x) \/ ReadCommission(x)
  <2>1. UNCHANGED <<history, pending>> /\ t.at \in Busy
    BY <1>4 DEF FareMissing, LostFare, ReadCommission, WroteNothing, Busy
  <2>2. ASSUME NEW u, txn' = [txn EXCEPT ![x] = u], u.company = t.company, u.todo = t.todo,
               u.at # "ready",
               t.company # None /\ u.saw # 0 => u.at = "writing" /\ k \in CommissionKey
        PROVE  PlanFollowed'
    <3>1. ASSUME t.company # None, NEW l \in Needed(t.company)
          PROVE  l \in ToSet(t.todo) \/ history[l] # <<>> \/ pending[x][l] # None
      BY <3>1 DEF PlanFollowed, Configured
    <3> QED  BY <2>1, <2>2, <3>1, OthersFollow DEF Wanted
  <2>3. CASE FareMissing(x) \/ LostFare(x)
    <3>1. k \in FareKey /\ (t.company # None => t.saw = 0)
      BY <2>3, KindsDiffer DEF FareMissing, LostFare, PlanFollowed
    <3>2. PICK place \in {"writing", "rereading"} :
            txn' = [txn EXCEPT ![x] = [t EXCEPT !.at = place]]
      BY <2>3 DEF FareMissing, LostFare, VersionsTypeOK
    <3> DEFINE u == [t EXCEPT !.at = place]
    <3>3. u.company = t.company /\ u.todo = t.todo /\ u.at = place /\ u.saw = t.saw
      BY <1>0 DEF Transaction
    <3> HIDE DEF u
    <3> QED  BY <2>2, <3>1, <3>2, <3>3 DEF u
  <2>4. CASE ReadCommission(x)
    <3> DEFINE u == [t EXCEPT !.at = "writing", !.saw = Current(k)]
    <3>1. txn' = [txn EXCEPT ![x] = u] /\ k \in CommissionKey
      BY <2>4 DEF ReadCommission, VersionsTypeOK
    <3>2. u.company = t.company /\ u.todo = t.todo /\ u.at = "writing"
      BY <1>0 DEF Transaction
    <3> HIDE DEF u
    <3> QED  BY <2>2, <3>1, <3>2
  <2> QED  BY <1>4, <2>3, <2>4
<1> QED  BY <1>1, <1>2, <1>3, <1>4 DEF Statement

LEMMA PlanStep ==
  ASSUME VersionsInv, PlanFollowed, [VersionsNext]_versionVars
  PROVE  PlanFollowed'
<1>1. ASSUME NEW x \in Txn, Statement(x) PROVE PlanFollowed'
  BY <1>1, StatementFollows
<1>2. ASSUME NEW x \in Txn, Commit(x) \/ Abort(x) PROVE PlanFollowed'
  <2>1. txn' = [txn EXCEPT ![x] = IdleTxn]
        /\ pending' = [pending EXCEPT ![x] = [k \in Key |-> None]]
    BY <1>2 DEF Commit, Abort
  <2>2. \A y \in Txn, k \in Key : y # x => pending'[y][k] = pending[y][k]
    BY <2>1 DEF VersionsInv, VersionsTypeOK
  <2>3. \A k \in Key : history[k] # <<>> => history'[k] # <<>>
    BY HistoryGrows
  <2>4. IdleTxn.at = "idle" /\ IdleTxn.company = None
    BY DEF IdleTxn
  <2> HIDE DEF VersionsInv, PlanFollowed
  <2> QED  BY <2>1, <2>2, <2>3, <2>4, OthersFollow
<1>3. ASSUME NEW x \in Txn, NEW k \in Key, NEW v \in 0..MaxVersions, BeginEdit(x, k, v)
      PROVE  PlanFollowed'
  BY <1>3, OthersFollow DEF BeginEdit
<1>4. ASSUME NEW x \in Txn, NEW c \in Company, BeginProvisioning(x, c) PROVE PlanFollowed'
  <2>1. ToSet(Plan(c)) = Needed(c)
    BY PlansFit
  <2> HIDE DEF Plan, Needed
  <2> QED  BY <1>4, <2>1, OthersFollow DEF BeginProvisioning
<1>5. ASSUME UNCHANGED <<history, pending, txn>> PROVE PlanFollowed'
  BY <1>5 DEF PlanFollowed, Configured, Needed, ToSet, Wanted
<1>6. Tick \/ UNCHANGED versionVars => UNCHANGED <<history, pending, txn>>
  BY DEF Tick, versionVars
<1> QED  BY <1>1, <1>2, <1>3, <1>4, <1>5, <1>6 DEF VersionsNext

LEMMA PlanHolds == VersionsSpec => [](VersionsInv /\ PlanFollowed)
<1>1. VersionsInit => PlanFollowed
  BY DEF VersionsInit, PlanFollowed, IdleTxn
<1>2. VersionsInv /\ PlanFollowed /\ [VersionsNext]_versionVars => (VersionsInv /\ PlanFollowed)'
  BY VersionsStep, PlanStep
<1> QED  BY <1>1, <1>2, VersionsStart, PTL DEF VersionsSpec

(* The tables of versions and their transactions are well typed            *)
(* (ServiceConfigProvisioner and the platform's updates).                  *)
THEOREM VersionsTyped == VersionsSpec => []VersionsTypeOK
<1>1. VersionsInv => VersionsTypeOK
  BY DEF VersionsInv
<1> QED  BY <1>1, VersionsStart, VersionsStep, PTL DEF VersionsSpec

(* Versions follow each other without gap, overlap or lost edit, whatever  *)
(* the number of companies, services and transactions                      *)
(* (replaceOpenVersion, insertIfNoOpenVersion).                            *)
THEOREM HistoryUnbroken == VersionsSpec => []UnbrokenHistory
<1>1. VersionsInv => UnbrokenHistory
  BY DEF VersionsInv
<1> QED  BY <1>1, VersionsStart, VersionsStep, PTL DEF VersionsSpec

-----------------------------------------------------------------------------
(* Nobody waits in a circle, if a provisioning goes through the keys of    *)
(* its company in one order: by service, the fare before the parameters,   *)
(* and the commission last. What it holds then comes before all it will    *)
(* still want.                                                             *)

BeforeAll(k, s) == \A i \in DOMAIN s : Before(k, s[i])

HeldInOrder ==
  \A x \in Txn :
    /\ InOrder(txn[x].todo)
    /\ \A k \in Key : Holds(x, k) => txn[x].at # "idle" /\ BeforeAll(k, txn[x].todo)

LEMMA BeforeIsOrder ==
  /\ \A k \in Key : ~Before(k, k)
  /\ \A k, l, m \in Key : Before(k, l) /\ Before(l, m) => Before(k, m)
<1>1. \A k \in Key : k \in CommissionKey \/ k[3] \in Int
  BY VersionsAssumption DEF Key, FareKey, ParamsKey
<1>2. \A k \in Key : ~Before(k, k)
  BY <1>1 DEF Before
<1>3. ASSUME NEW k \in Key, NEW l \in Key, NEW m \in Key, Before(k, l), Before(l, m)
      PROVE  Before(k, m)
  <2>1. CASE m \in CommissionKey
    BY <1>3, <2>1 DEF Before
  <2>2. CASE m \notin CommissionKey
    BY <1>1, <1>3, <2>2 DEF Before
  <2> QED  BY <2>1, <2>2
<1> QED  BY <1>2, <1>3

LEMMA TailInOrder ==
  ASSUME NEW s \in Seq(Key), s # <<>>, InOrder(s)
  PROVE  /\ InOrder(Tail(s)) /\ BeforeAll(Head(s), Tail(s))
         /\ \A k \in Key : BeforeAll(k, s) => BeforeAll(k, Tail(s)) /\ Before(k, Head(s))
<1>1. /\ Len(s) \in Nat \ {0} /\ DOMAIN s = 1..Len(s) /\ Head(s) = s[1]
      /\ DOMAIN Tail(s) = 1..(Len(s) - 1) /\ \A i \in 1..(Len(s) - 1) : Tail(s)[i] = s[i + 1]
  OBVIOUS
<1>2. \A i \in DOMAIN Tail(s) : i + 1 \in DOMAIN s /\ Tail(s)[i] = s[i + 1] /\ 1 < i + 1
  BY <1>1
<1>3. 1 \in DOMAIN s
  BY <1>1
<1>4. InOrder(Tail(s))
  <2> SUFFICES ASSUME NEW i \in DOMAIN Tail(s), NEW j \in DOMAIN Tail(s), i < j
               PROVE  Before(Tail(s)[i], Tail(s)[j])
    BY DEF InOrder
  <2>1. i + 1 < j + 1
    BY <1>1
  <2> QED  BY <1>2, <2>1 DEF InOrder
<1>5. BeforeAll(Head(s), Tail(s))
  BY <1>1, <1>2, <1>3 DEF InOrder, BeforeAll
<1>6. \A k \in Key : BeforeAll(k, s) => BeforeAll(k, Tail(s)) /\ Before(k, Head(s))
  BY <1>1, <1>2, <1>3 DEF BeforeAll
<1> QED  BY <1>4, <1>5, <1>6

(* One transaction goes on with a list that is still in order, after what  *)
(* it holds.                                                               *)
LEMMA OneKeepsOrder ==
  ASSUME VersionsTypeOK, HeldInOrder, NEW x \in Txn, NEW t,
         txn' = [txn EXCEPT ![x] = t], InOrder(t.todo),
         \A y \in Txn, k \in Key : y # x => pending'[y][k] = pending[y][k],
         \A k \in Key : pending'[x][k] # None => t.at # "idle" /\ BeforeAll(k, t.todo)
  PROVE  HeldInOrder'
<1>1. \A y \in Txn : txn'[y] = IF y = x THEN t ELSE txn[y]
  BY DEF VersionsTypeOK
<1> HIDE DEF VersionsTypeOK
<1>2. ASSUME NEW y \in Txn
      PROVE  /\ InOrder(txn'[y].todo)
             /\ \A k \in Key : pending'[y][k] # None
                  => txn'[y].at # "idle" /\ BeforeAll(k, txn'[y].todo)
  <2>1. CASE y = x
    BY <1>1, <2>1
  <2>2. CASE y # x
    BY <1>1, <2>2 DEF HeldInOrder, Holds
  <2> QED  BY <2>1, <2>2
<1> QED  BY <1>2 DEF HeldInOrder, Holds, InOrder, BeforeAll

LEMMA OnwardGoesOn ==
  ASSUME NEW t \in Transaction
  PROVE  Onward(t).todo = Tail(t.todo) /\ Onward(t).at # "idle"
  BY DEF Onward, Transaction

LEMMA StatementKeepsOrder ==
  ASSUME VersionsInv, HeldInOrder, NEW x \in Txn, Statement(x)
  PROVE  HeldInOrder'
<1> DEFINE s == txn[x].todo
<1>1. /\ txn[x] \in Transaction /\ s \in Seq(Key) /\ VersionsTypeOK
      /\ pending \in [Txn -> [Key -> Write \cup {None}]]
  BY DEF VersionsInv, VersionsTypeOK, Transaction
<1>2. txn[x].at \in Busy
  BY DEF Statement, FareFound, FareMissing, ReadCommission, InsertIfNoOpenVersion,
         ReplaceOpenVersion, LostFare, WinnerFound, LostParams, WroteNothing, Busy
<1>3. s # <<>>
  BY <1>2 DEF VersionsInv, HasKey
<1>4. InOrder(s) /\ \A k \in Key : pending[x][k] # None => BeforeAll(k, s)
  BY DEF HeldInOrder, Holds
<1>5. /\ InOrder(Tail(s)) /\ BeforeAll(Head(s), Tail(s))
      /\ \A k \in Key : BeforeAll(k, s) => BeforeAll(k, Tail(s))
  BY <1>1, <1>3, <1>4, TailInOrder
<1>6. Onward(txn[x]).todo = Tail(s) /\ Onward(txn[x]).at # "idle"
  BY <1>1, OnwardGoesOn
<1> HIDE DEF VersionsInv
<1>7. ASSUME Advance(x), UNCHANGED pending PROVE HeldInOrder'
  <2> DEFINE t == Onward(txn[x])
  <2>1. txn' = [txn EXCEPT ![x] = t] /\ t.todo = Tail(s) /\ t.at # "idle"
    BY <1>6, <1>7 DEF Advance
  <2> HIDE DEF t, s
  <2> QED  BY <1>1, <1>4, <1>5, <1>7, <2>1, OneKeepsOrder
<1>8. ASSUME NEW t, txn' = [txn EXCEPT ![x] = t], t.todo = s, t.at # "idle", UNCHANGED pending
      PROVE  HeldInOrder'
  <2> HIDE DEF s
  <2> QED  BY <1>1, <1>4, <1>8, OneKeepsOrder
<1>9. ASSUME NEW closes, NEW from, Wrote(x, closes, from) PROVE HeldInOrder'
  <2> DEFINE t == Onward(txn[x])
             w == [closes |-> closes, from |-> from, saw |-> txn[x].saw]
  <2>1. /\ txn' = [txn EXCEPT ![x] = t] /\ t.todo = Tail(s) /\ t.at # "idle"
        /\ pending' = [pending EXCEPT ![x][Head(s)] = w]
    BY <1>6, <1>9 DEF Wrote, Advance, Wanted
  <2> HIDE DEF t, w, s
  <2>2. \A y \in Txn, k \in Key : y # x => pending'[y][k] = pending[y][k]
    BY <1>1, <2>1
  <2>3. \A k \in Key : k # Head(s) => pending'[x][k] = pending[x][k]
    BY <1>1, <2>1
  <2>4. \A k \in Key : pending'[x][k] # None => t.at # "idle" /\ BeforeAll(k, t.todo)
    BY <1>4, <1>5, <2>1, <2>3
  <2> QED  BY <1>1, <1>5, <2>1, <2>2, <2>4, OneKeepsOrder
<1>10. CASE FareFound(x) \/ WinnerFound(x) \/ LostParams(x)
  BY <1>7, <1>10 DEF FareFound, WinnerFound, LostParams
<1>11. CASE FareMissing(x) \/ LostFare(x) \/ ReadCommission(x)
  <2>1. \E at \in Busy, saw \in {txn[x].saw, Current(Wanted(x))} :
          txn' = [txn EXCEPT ![x] = [@ EXCEPT !.at = at, !.saw = saw]]
    BY <1>1, <1>11 DEF FareMissing, LostFare, ReadCommission, Busy, Transaction, VersionsTypeOK
  <2>2. PICK at \in Busy, saw \in {txn[x].saw, Current(Wanted(x))} :
          txn' = [txn EXCEPT ![x] = [@ EXCEPT !.at = at, !.saw = saw]]
    BY <2>1
  <2> DEFINE t == [txn[x] EXCEPT !.at = at, !.saw = saw]
  <2>3. t.todo = s /\ t.at # "idle" /\ txn' = [txn EXCEPT ![x] = t]
    BY <1>1, <2>2 DEF Transaction, Busy
  <2>4. UNCHANGED pending
    BY <1>11 DEF FareMissing, LostFare, ReadCommission
  <2> HIDE DEF t
  <2> QED  BY <1>8, <2>3, <2>4
<1>12. CASE InsertIfNoOpenVersion(x) \/ ReplaceOpenVersion(x)
  BY <1>9, <1>12 DEF InsertIfNoOpenVersion, ReplaceOpenVersion
<1> QED  BY <1>10, <1>11, <1>12 DEF Statement

LEMMA HeldInOrderStep ==
  ASSUME VersionsInv, HeldInOrder, [VersionsNext]_versionVars
  PROVE  HeldInOrder'
<1> VersionsTypeOK
  BY DEF VersionsInv
<1>1. ASSUME NEW x \in Txn, Commit(x) \/ Abort(x) PROVE HeldInOrder'
  <2>1. txn' = [txn EXCEPT ![x] = IdleTxn]
        /\ pending' = [pending EXCEPT ![x] = [k \in Key |-> None]]
    BY <1>1 DEF Commit, Abort
  <2>2. /\ \A y \in Txn, k \in Key : y # x => pending'[y][k] = pending[y][k]
        /\ \A k \in Key : pending'[x][k] = None
    BY <2>1 DEF VersionsTypeOK
  <2>3. InOrder(IdleTxn.todo)
    BY DEF IdleTxn, InOrder
  <2> QED  BY <2>1, <2>2, <2>3, OneKeepsOrder
<1>2. ASSUME NEW x \in Txn, NEW t, txn[x].at = "idle", txn' = [txn EXCEPT ![x] = t],
             InOrder(t.todo), UNCHANGED pending
      PROVE  HeldInOrder'
  <2>1. \A k \in Key : pending'[x][k] = None
    BY <1>2 DEF HeldInOrder, Holds
  <2> QED  BY <1>2, <2>1, OneKeepsOrder
<1>3. ASSUME NEW x \in Txn, NEW k \in Key, NEW v \in 0..MaxVersions, BeginEdit(x, k, v)
      PROVE  HeldInOrder'
  <2> DEFINE t == [at |-> "writing", company |-> None, start |-> now, todo |-> <<k>>, saw |-> v]
  <2>1. txn[x].at = "idle" /\ txn' = [txn EXCEPT ![x] = t] /\ UNCHANGED pending
    BY <1>3 DEF BeginEdit
  <2>2. InOrder(t.todo)
    BY DEF InOrder
  <2> HIDE DEF t
  <2> QED  BY <1>2, <2>1, <2>2
<1>4. ASSUME NEW x \in Txn, NEW c \in Company, BeginProvisioning(x, c) PROVE HeldInOrder'
  <2> DEFINE t == [at |-> "reading", company |-> c, start |-> now, todo |-> Plan(c), saw |-> 0]
  <2>1. txn[x].at = "idle" /\ txn' = [txn EXCEPT ![x] = t] /\ UNCHANGED pending
    BY <1>4 DEF BeginProvisioning
  <2>2. InOrder(t.todo)
    BY PlansInOrder
  <2> HIDE DEF t
  <2> QED  BY <1>2, <2>1, <2>2
<1>5. CASE Tick \/ UNCHANGED versionVars
  <2>1. UNCHANGED <<pending, txn>>
    BY <1>5 DEF Tick, versionVars
  <2> QED  BY <2>1 DEF HeldInOrder, Holds, InOrder, BeforeAll
<1> QED  BY <1>1, <1>3, <1>4, <1>5, StatementKeepsOrder DEF VersionsNext

LEMMA WaitersInOrder ==
  ASSUME VersionsInv, HeldInOrder, NEW x \in Txn, NEW y \in Txn, NEW z \in Txn,
         WaitsFor(x, y), WaitsFor(y, z)
  PROVE  Wanted(x) \in Key /\ Wanted(y) \in Key /\ Before(Wanted(x), Wanted(y))
<1>1. /\ txn[x].at = "writing" /\ txn[y].at = "writing" /\ Holds(y, Wanted(x))
  BY DEF WaitsFor
<1>2. /\ txn[x].todo \in Seq(Key) /\ txn[x].todo # <<>>
      /\ txn[y].todo \in Seq(Key) /\ txn[y].todo # <<>>
  BY <1>1 DEF VersionsInv, VersionsTypeOK, HasKey, Transaction, Busy
<1>3. Wanted(x) \in Key /\ Wanted(y) \in Key
  BY <1>2 DEF Wanted
<1>4. BeforeAll(Wanted(x), txn[y].todo) /\ InOrder(txn[y].todo)
  BY <1>1, <1>3 DEF HeldInOrder
<1>5. Before(Wanted(x), Head(txn[y].todo))
  BY <1>2, <1>3, <1>4, TailInOrder
<1> QED  BY <1>3, <1>5 DEF Wanted

(* In a least circle nobody can be left out: but whoever wants a key later *)
(* than one of them is in a circle without that one.                       *)
LEMMA NoCircle ==
  ASSUME IsFiniteSet(Txn), VersionsInv, HeldInOrder
  PROVE  NoCircularWait
<1> DEFINE Circles == { S \in SUBSET Txn : S # {} /\ \A x \in S : \E y \in S : WaitsFor(x, y) }
<1>1. SUFFICES ASSUME Circles # {} PROVE FALSE
  BY DEF NoCircularWait
<1>2. Circles \subseteq FiniteSubsetsOf(Txn)
  BY FS_Subset DEF FiniteSubsetsOf
<1>3. PICK S \in Circles : \A T \in Circles : <<T, S>> \notin StrictSubsetOrdering(Txn)
  <2> HIDE DEF Circles
  <2> QED  BY <1>1, <1>2, FS_StrictSubsetOrderingWellFounded, WFMin
<1>4. PICK x \in S : TRUE
  OBVIOUS
<1> DEFINE T == { y \in S : Before(Wanted(x), Wanted(y)) }
<1>5. \A y \in S : \E z \in S : WaitsFor(y, z) /\ Before(Wanted(y), Wanted(z))
  BY WaitersInOrder
<1>6. \A y \in S : Wanted(y) \in Key
  BY WaitersInOrder
<1>7. T # {} /\ x \notin T
  BY <1>4, <1>5, <1>6, BeforeIsOrder
<1>8. \A y \in T : \E z \in T : WaitsFor(y, z)
  BY <1>4, <1>5, <1>6, BeforeIsOrder
<1>9. T \in Circles
  BY <1>7, <1>8
<1>10. <<T, S>> \in StrictSubsetOrdering(Txn)
  BY <1>4, <1>7 DEF StrictSubsetOrdering
<1> QED  BY <1>3, <1>9, <1>10

(* See NoCircularWait: no transactions wait for each other in a circle,    *)
(* however many there are, because every plan is in the one order.        *)
THEOREM NobodyWaitsInACircle ==
  ASSUME IsFiniteSet(Txn)
  PROVE  VersionsSpec => []NoCircularWait
<1>1. VersionsInit => HeldInOrder
  BY DEF VersionsInit, HeldInOrder, Holds, IdleTxn, InOrder
<1>2. VersionsInv /\ HeldInOrder /\ [VersionsNext]_versionVars => HeldInOrder'
  BY HeldInOrderStep
<1>3. VersionsInv /\ HeldInOrder => NoCircularWait
  BY NoCircle
<1> QED  BY <1>1, <1>2, <1>3, VersionsStart, VersionsStep, PTL DEF VersionsSpec

-----------------------------------------------------------------------------
(* Applications and their documents.                                       *)

LEMMA IdleTyped == IdleRequest \in Request
  BY DEF IdleRequest, Request, NoFiles

LEMMA RowsStart == Init => RowsTypeOK
<1> SUFFICES ASSUME Init PROVE RowsTypeOK
  OBVIOUS
<1>1. request \in [Handler -> Request]
  BY IdleTyped DEF Init
<1>2. /\ company \in [Company -> CompanyRow]
      /\ document \in [Company -> [DocType -> DocumentRow \cup {None}]]
      /\ review \in [Company -> Seq({"approved", "rejected", "documents_requested"})]
      /\ account \in [Contact -> Company \cup {None}]
      /\ staged \in [Upload -> {"new", "staged", "gone"}]
      /\ promoted \subseteq FileKey /\ linked \subseteq Company
  BY DEF Init, CompanyRow
<1> QED  BY <1>1, <1>2 DEF RowsTypeOK

LEMMA DecisionsTyped ==
  ASSUME RowsTypeOK, NEW c \in Company
  PROVE  Decisions(c) \in Nat
<1> DEFINE S == { i \in DOMAIN review[c] : review[c][i] # "documents_requested" }
<1>1. review[c] \in Seq({"approved", "rejected", "documents_requested"})
  BY DEF RowsTypeOK
<1>2. S \subseteq 1..Len(review[c])
  BY <1>1
<1>3. IsFiniteSet(1..Len(review[c]))
  BY <1>1, FS_Interval
<1>4. IsFiniteSet(S)
  BY <1>2, <1>3, FS_Subset
<1> HIDE DEF S
<1>5. Cardinality(S) \in Nat
  BY <1>4, FS_CardinalityType
<1> QED  BY <1>5 DEF Decisions, S

(* A review is a decision unless it asks for documents.                    *)
LEMMA ReviewCounts ==
  ASSUME RowsTypeOK, NEW c \in Company,
         NEW decision \in {"approved", "rejected", "documents_requested"},
         Reviewed(c, decision)
  PROVE  /\ review' \in [Company -> Seq({"approved", "rejected", "documents_requested"})]
         /\ \A b \in Company :
              Decisions(b)' = IF b = c /\ decision # "documents_requested"
                              THEN Decisions(b) + 1 ELSE Decisions(b)
<1> DEFINE Decision == {"approved", "rejected", "documents_requested"}
           S(r) == { i \in DOMAIN r : r[i] # "documents_requested" }
           n == Len(review[c])
<1>1. review' = [review EXCEPT ![c] = Append(review[c], decision)]
      /\ review \in [Company -> Seq(Decision)]
  BY DEF Reviewed, RowsTypeOK
<1>2. review[c] \in Seq(Decision) /\ n \in Nat /\ Append(review[c], decision) \in Seq(Decision)
  BY <1>1
<1>3. review' \in [Company -> Seq(Decision)] /\ review'[c] = Append(review[c], decision)
      /\ \A b \in Company \ {c} : review'[b] = review[b]
  BY <1>1, <1>2
<1>4. S(review'[c]) = IF decision # "documents_requested" THEN S(review[c]) \cup {n + 1}
                                                          ELSE S(review[c])
  <2>1. DOMAIN review'[c] = 1..(n + 1) /\ DOMAIN review[c] = 1..n
    BY <1>2, <1>3
  <2>2. review'[c][n + 1] = decision /\ \A i \in 1..n : review'[c][i] = review[c][i]
    BY <1>2, <1>3
  <2> QED  BY <1>2, <2>1, <2>2
<1>5. S(review[c]) \subseteq 1..n /\ IsFiniteSet(S(review[c])) /\ n + 1 \notin S(review[c])
  <2>1. S(review[c]) \subseteq 1..n
    BY <1>2
  <2>2. IsFiniteSet(1..n)
    BY <1>2, FS_Interval
  <2> QED  BY <1>2, <2>1, <2>2, FS_Subset
<1> HIDE DEF S, n
<1>6. Cardinality(S(review[c]) \cup {n + 1}) = Cardinality(S(review[c])) + 1
  BY <1>5, FS_AddElement
<1>7. \A b \in Company : Decisions(b) = Cardinality(S(review[b]))
                         /\ Decisions(b)' = Cardinality(S(review'[b]))
  BY DEF Decisions, S
<1> QED  BY <1>3, <1>4, <1>6, <1>7


-----------------------------------------------------------------------------

(* To the versions every step is one of theirs, or none.                   *)
LEMMA StepOfVersions == [Next]_vars => [VersionsNext]_versionVars
<1> SUFFICES ASSUME [Next]_vars PROVE [VersionsNext]_versionVars
  OBVIOUS
<1>1. CASE Configure
  <2>1. ASSUME NEW x \in Txn, Statement(x) \/ Abort(x) \/ Commit(x) PROVE VersionsNext
    BY <2>1 DEF VersionsNext
  <2>2. ASSUME NEW x \in Txn, NEW k \in Key, NEW v \in 0..MaxVersions, BeginEdit(x, k, v)
        PROVE  VersionsNext
    BY <2>2 DEF VersionsNext
  <2>3. CASE Tick
    BY <2>3 DEF VersionsNext
  <2> QED  BY <1>1, <2>1, <2>2, <2>3 DEF Configure
<1>2. ASSUME NEW x \in Txn, NEW c \in Company, BeginApproval(x, c) \/ BeginProvisionNew(x, c)
      PROVE  VersionsNext
  <2>1. BeginProvisioning(x, c)
    BY <1>2 DEF BeginApproval, BeginProvisionNew
  <2> QED  BY <2>1 DEF VersionsNext
<1>3. ASSUME NEW x \in Txn, NEW c \in Company,
             CommitApproval(x, c) \/ \E p \in Contact : CommitProvisionNew(x, c, p)
      PROVE  VersionsNext
  <2>1. Commit(x)
    BY <1>3 DEF CommitApproval, CommitProvisionNew
  <2> QED  BY <2>1 DEF VersionsNext
<1>4. ASSUME \/ \E f \in Upload : Stage(f) \/ PurgeStaging(f)
             \/ \E h \in Handler, c \in Company, p \in Contact, fs \in Injection(DocType, Upload) :
                  BeginSubmission(h, c, p, fs)
             \/ \E h \in Handler, c \in Company, d \in DocType, f \in Upload :
                  BeginReplacement(h, c, d, f)
             \/ \E h \in Handler, d \in DocType : CopyDocument(h, d) \/ RemoveStaged(h, d)
             \/ \E h \in Handler : RollbackPromoted(h) \/ MovesDone(h)
             \/ \E h \in Handler, c \in Company, types \in (SUBSET DocType) \ {{}} :
                  BeginRequestDocuments(h, c, types)
      PROVE  UNCHANGED versionVars
  BY <1>4 DEF Stage, PurgeStaging, BeginSubmission, BeginReplacement, CopyDocument, RemoveStaged,
              RollbackPromoted, MovesDone, BeginRequestDocuments
<1>5. ASSUME \/ \E h \in Handler : \/ UpsertPendingCompany(h) \/ FindPendingCompany(h)
                                   \/ ReplaceSingleDocument(h) \/ RequestDocuments(h)
             \/ \E c \in Company : RejectCompany(c)
      PROVE  UNCHANGED versionVars
  BY <1>5 DEF UpsertPendingCompany, FindPendingCompany, ReplaceSingleDocument, RequestDocuments,
              RejectCompany
<1>6. CASE UNCHANGED vars
  BY <1>6 DEF vars
<1> QED  BY <1>1, <1>2, <1>3, <1>4, <1>5, <1>6 DEF Next

(* Applications, approvals and rejections treat the versions of fares,     *)
(* parameters and commissions only in the ways of ServiceVersions          *)
(* (approve, provisionNew and the platform's updates).                     *)
THEOREM AffiliationKeepsVersions == Spec => VersionsSpec
<1>1. Init => VersionsInit
  BY DEF Init
<1> QED  BY <1>1, StepOfVersions, PTL DEF Spec, VersionsSpec

(* So the history of a key stays unbroken when companies are approved and  *)
(* provisioned at once and the platform edits what they share.             *)
THEOREM AffiliationKeepsHistory == Spec => []UnbrokenHistory
BY AffiliationKeepsVersions, HistoryUnbroken, PTL

-----------------------------------------------------------------------------

(* A request in progress is about a company; it has the files it is to     *)
(* write, and has moved them all before it writes.                         *)
Writing == {"submitting", "replacing", "upserting"}

Fits(r) ==
  /\ r.at # "idle" => r.company \in Company
  /\ r.at = "submitting" \/ (r.at = "moving" /\ r.contact # None) =>
       \A d \in DocType : r.files[d] \in Upload
  /\ r.at = "submitting" => r.contact # None
  /\ r.at \in {"replacing", "upserting"} \/ (r.at = "moving" /\ r.contact = None) =>
       \A d \in r.types : r.files[d] \in Upload
  /\ \A d \in r.moved : r.files[d] \in Upload
  /\ r.at \in Writing => \A d \in DocType : r.files[d] # None => d \in r.moved

RequestsFit == \A h \in Handler : Fits(request[h])

LEMMA FitsStep ==
  ASSUME RowsTypeOK, RequestsFit, NEW h \in Handler, NEW r \in Request, Fits(r),
         request' = [request EXCEPT ![h] = r]
  PROVE  request' \in [Handler -> Request] /\ RequestsFit'
<1>1. request' \in [Handler -> Request]
  BY DEF RowsTypeOK
<1>2. ASSUME NEW g \in Handler PROVE Fits(request'[g])
  BY DEF RowsTypeOK, RequestsFit
<1> QED  BY <1>1, <1>2 DEF RequestsFit, Fits

(* The steps that change a request: on its way, and at its end.            *)
RequestMoves(h) ==
  \/ \E c \in Company, p \in Contact, fs \in Injection(DocType, Upload) :
       BeginSubmission(h, c, p, fs)
  \/ \E c \in Company, d \in DocType, f \in Upload : BeginReplacement(h, c, d, f)
  \/ \E c \in Company, types \in (SUBSET DocType) \ {{}} : BeginRequestDocuments(h, c, types)
  \/ MovesDone(h) \/ FindPendingCompany(h)
  \/ \E d \in DocType : RemoveStaged(h, d)

RequestEnds(h) ==
  RollbackPromoted(h) \/ UpsertPendingCompany(h) \/ ReplaceSingleDocument(h) \/ RequestDocuments(h)

LEMMA RequestsMoveOn ==
  ASSUME RowsTypeOK, RequestsFit, NEW h \in Handler, RequestMoves(h)
  PROVE  request' \in [Handler -> Request] /\ RequestsFit'
<1> DEFINE Goal == request' \in [Handler -> Request] /\ RequestsFit'
<1>0. request[h] \in Request /\ Fits(request[h])
  BY DEF RowsTypeOK, RequestsFit
<1>1. ASSUME NEW c \in Company, NEW p \in Contact, NEW fs \in Injection(DocType, Upload),
             BeginSubmission(h, c, p, fs)
      PROVE  Goal
  <2> DEFINE r == [IdleRequest EXCEPT !.at = "moving", !.company = c, !.contact = p,
                                 !.found = company[c].status, !.files = fs, !.asOf = Decisions(c)]
  <2>1. request' = [request EXCEPT ![h] = r] /\ company[c].status \in {"none", "rejected"}
    BY <1>1 DEF BeginSubmission
  <2>2. fs \in [DocType -> Upload] /\ Decisions(c) \in Nat
    BY DecisionsTyped DEF Injection
  <2>3. r \in Request
    BY <2>1, <2>2, IdleTyped DEF Request
  <2>4. r.at = "moving" /\ r.company = c /\ r.contact = p /\ r.files = fs /\ r.moved = {}
        /\ r.types = {}
    BY DEF IdleRequest
  <2> HIDE DEF r
  <2>5. Fits(r)
    BY <2>2, <2>4, AffiliationAssumption DEF Fits, Writing
  <2> QED  BY <2>1, <2>3, <2>5, FitsStep
<1>2. ASSUME NEW c \in Company, NEW d \in DocType, NEW f \in Upload, BeginReplacement(h, c, d, f)
      PROVE  Goal
  <2> DEFINE r == [IdleRequest EXCEPT !.at = "moving", !.company = c, !.types = {d},
                                 !.files = [NoFiles EXCEPT ![d] = f]]
  <2>1. request' = [request EXCEPT ![h] = r]
    BY <1>2 DEF BeginReplacement
  <2>2. r \in Request
    BY IdleTyped DEF Request, NoFiles
  <2>3. r.at = "moving" /\ r.company = c /\ r.contact = None /\ r.files[d] = f /\ r.moved = {}
        /\ r.types = {d}
    BY DEF IdleRequest, NoFiles
  <2> HIDE DEF r
  <2>4. Fits(r)
    BY <2>3 DEF Fits, Writing
  <2> QED  BY <2>1, <2>2, <2>4, FitsStep
<1>3. ASSUME NEW c \in Company, NEW types \in (SUBSET DocType) \ {{}},
             BeginRequestDocuments(h, c, types)
      PROVE  Goal
  <2> DEFINE r == [IdleRequest EXCEPT !.at = "requesting", !.company = c,
                                 !.contact = company[c].contact, !.types = types,
                                 !.asOf = Decisions(c)]
  <2>1. request' = [request EXCEPT ![h] = r] /\ Decisions(c) \in Nat
    BY <1>3, DecisionsTyped DEF BeginRequestDocuments
  <2>0. company[c].contact \in Contact \cup {None}
    BY DEF RowsTypeOK, CompanyRow
  <2>2. r \in Request
    BY <2>0, <2>1, IdleTyped DEF Request
  <2>3. r.at = "requesting" /\ r.company = c /\ r.moved = {}
    BY DEF IdleRequest
  <2> HIDE DEF r
  <2>4. Fits(r)
    BY <2>3 DEF Fits, Writing
  <2> QED  BY <2>1, <2>2, <2>4, FitsStep
<1>4. CASE MovesDone(h)
  <2> DEFINE r == [request[h] EXCEPT !.at = IF request[h].contact = None THEN "replacing"
                                                                         ELSE "submitting"]
  <2>1. request' = [request EXCEPT ![h] = r] /\ request[h].at = "moving" /\ ToMove(h) = {}
    BY <1>4 DEF MovesDone, RowsTypeOK
  <2>2. r \in Request
    BY <1>0 DEF Request
  <2>3. /\ r.at = IF request[h].contact = None THEN "replacing" ELSE "submitting"
        /\ r.company = request[h].company /\ r.contact = request[h].contact
        /\ r.files = request[h].files /\ r.moved = request[h].moved /\ r.types = request[h].types
    BY <1>0 DEF Request
  <2> HIDE DEF r
  <2>4. \A d \in DocType : request[h].files[d] # None => d \in request[h].moved
    BY <2>1 DEF ToMove
  <2>5. Fits(r)
    BY <1>0, <2>1, <2>3, <2>4 DEF Fits, Writing
  <2> QED  BY <2>1, <2>2, <2>5, FitsStep
<1>5. CASE FindPendingCompany(h)
  <2> DEFINE c == request[h].company
             r == [request[h] EXCEPT !.at = "upserting", !.asOf = Decisions(c)]
  <2>1. request' = [request EXCEPT ![h] = r] /\ request[h].at = "replacing"
    BY <1>5 DEF FindPendingCompany, RowsTypeOK
  <2>2. Decisions(c) \in Nat
    BY <1>0, <2>1, DecisionsTyped DEF Fits
  <2>3. r \in Request
    BY <1>0, <2>2 DEF Request
  <2>4. /\ r.at = "upserting" /\ r.company = c /\ r.files = request[h].files
        /\ r.moved = request[h].moved /\ r.types = request[h].types
    BY <1>0 DEF Request
  <2>5. /\ request[h].company \in Company
        /\ \A d \in request[h].types : request[h].files[d] \in Upload
        /\ \A d \in request[h].moved : request[h].files[d] \in Upload
        /\ \A d \in DocType : request[h].files[d] # None => d \in request[h].moved
    BY <1>0, <2>1 DEF Fits, Writing
  <2> HIDE DEF r, c
  <2>6. Fits(r)
    BY <2>4, <2>5 DEF Fits, c
  <2> QED  BY <2>1, <2>3, <2>6, FitsStep
<1>6. ASSUME NEW d \in DocType, RemoveStaged(h, d) PROVE Goal
  <2> DEFINE r == [request[h] EXCEPT !.moved = @ \cup {d}]
  <2>1. request' = [request EXCEPT ![h] = r] /\ request[h].at = "moving" /\ d \in ToMove(h)
    BY <1>6 DEF RemoveStaged, RowsTypeOK
  <2>2. r \in Request
    BY <1>0 DEF Request
  <2>3. /\ r.at = "moving" /\ r.company = request[h].company /\ r.contact = request[h].contact
        /\ r.files = request[h].files /\ r.moved = request[h].moved \cup {d}
        /\ r.types = request[h].types
    BY <1>0, <2>1 DEF Request
  <2>4. request[h].files[d] \in Upload
    BY <1>0, <2>1 DEF ToMove, Request
  <2> HIDE DEF r
  <2>5. Fits(r)
    BY <1>0, <2>1, <2>3, <2>4 DEF Fits, Writing
  <2> QED  BY <2>1, <2>2, <2>5, FitsStep
<1> QED  BY <1>1, <1>2, <1>3, <1>4, <1>5, <1>6 DEF RequestMoves

LEMMA RequestsEnd ==
  ASSUME RowsTypeOK, RequestsFit, NEW h \in Handler, Finish(h)
  PROVE  request' \in [Handler -> Request] /\ RequestsFit'
<1>1. Fits(IdleRequest)
  BY DEF IdleRequest, Fits, Writing
<1> QED  BY <1>1, IdleTyped, FitsStep DEF Finish

(* A row that is written anew or amended is one of its table.              *)
LEMMA DocumentsTyped ==
  ASSUME RowsTypeOK, RequestsFit, NEW c \in Company, NEW row \in [DocType -> DocumentRow \cup {None}],
         document' = [document EXCEPT ![c] = row]
  PROVE  document' \in [Company -> [DocType -> DocumentRow \cup {None}]]
  BY DEF RowsTypeOK

LEMMA AboutCompany ==
  ASSUME RowsTypeOK, RequestsFit, NEW h \in Handler, request[h].at # "idle"
  PROVE  /\ request[h].company \in Company
         /\ request[h] \in Request /\ Fits(request[h])
         /\ Decisions(request[h].company) \in Nat
         /\ company[request[h].company] \in CompanyRow
         /\ document[request[h].company] \in [DocType -> DocumentRow \cup {None}]
  BY DecisionsTyped DEF RowsTypeOK, RequestsFit, Fits

RowsInv == RowsTypeOK /\ RequestsFit

LEMMA RequestStepTyped ==
  ASSUME RowsInv, NEW h \in Handler, RequestMoves(h) \/ RequestEnds(h)
  PROVE  RowsInv'
<1> USE DEF RowsInv
<1>1. CASE RequestMoves(h)
  <2>1. request' \in [Handler -> Request] /\ RequestsFit'
    BY <1>1, RequestsMoveOn
  <2>2. UNCHANGED <<company, document, review, account, promoted, linked>>
        /\ staged' \in [Upload -> {"new", "staged", "gone"}]
    BY <1>1 DEF RequestMoves, BeginSubmission, BeginReplacement, BeginRequestDocuments, MovesDone,
                FindPendingCompany, RemoveStaged, tables, files, RowsTypeOK
  <2> QED  BY <2>1, <2>2 DEF RowsTypeOK
<1>2. CASE RollbackPromoted(h)
  <2>1. request' \in [Handler -> Request] /\ RequestsFit'
    BY <1>2, RequestsEnd DEF RollbackPromoted
  <2>2. UNCHANGED <<tables, staged, linked>> /\ promoted' \subseteq promoted
    BY <1>2 DEF RollbackPromoted
  <2> QED  BY <2>1, <2>2 DEF RowsTypeOK, tables
<1>3. CASE UpsertPendingCompany(h)
  <2> DEFINE c == request[h].company
             row == [status |-> "pending", registered |-> company[c].registered + 1,
                     contact |-> request[h].contact]
  <2>1. /\ request[h].at = "submitting" /\ Finish(h)
        /\ UNCHANGED <<review, account, staged, promoted, linked>>
        /\ company' = [company EXCEPT ![c] = row]
        /\ document' = [document EXCEPT ![c] = DocumentsOf(h)]
    BY <1>3 DEF UpsertPendingCompany, files
  <2>2. request' \in [Handler -> Request] /\ RequestsFit'
    BY <2>1, RequestsEnd
  <2>3. /\ c \in Company /\ request[h] \in Request /\ Fits(request[h]) /\ Decisions(c) \in Nat
        /\ company[c] \in CompanyRow
    BY <2>1, AboutCompany
  <2>4. company' \in [Company -> CompanyRow]
    BY <2>1, <2>3 DEF RowsTypeOK, CompanyRow, Request
  <2>5. DocumentsOf(h) \in [DocType -> DocumentRow \cup {None}]
    <3>1. \A d \in DocType : request[h].files[d] \in Upload
      BY <2>1, <2>3 DEF Fits
    <3>2. request[h].asOf \in Nat
      BY <2>3 DEF Request
    <3> QED  BY <2>3, <3>1, <3>2 DEF DocumentsOf, DocumentRow, FileKey
  <2>6. document' \in [Company -> [DocType -> DocumentRow \cup {None}]]
    BY <2>1, <2>3, <2>5, DocumentsTyped
  <2> HIDE DEF row, c
  <2> QED  BY <2>1, <2>2, <2>4, <2>6 DEF RowsTypeOK
<1>4. CASE ReplaceSingleDocument(h)
  <2> DEFINE c == request[h].company
             row == [d \in DocType |-> IF d \in request[h].types
                              THEN [key |-> CompanyDocumentKey(h, request[h].files[d]),
                                    state |-> "pending",
                                    asOf |-> request[h].asOf, since |-> Decisions(c)]
                              ELSE document[c][d]]
  <2>1. /\ request[h].at = "upserting" /\ Finish(h)
        /\ UNCHANGED <<company, review, account, staged, promoted, linked>>
        /\ document' = [document EXCEPT ![c] = row]
    BY <1>4 DEF ReplaceSingleDocument, files
  <2>2. request' \in [Handler -> Request] /\ RequestsFit'
    BY <2>1, RequestsEnd
  <2>3. /\ c \in Company /\ request[h] \in Request /\ Fits(request[h]) /\ Decisions(c) \in Nat
        /\ document[c] \in [DocType -> DocumentRow \cup {None}]
    BY <2>1, AboutCompany
  <2>4. row \in [DocType -> DocumentRow \cup {None}]
    <3>1. \A d \in request[h].types : request[h].files[d] \in Upload
      BY <2>1, <2>3 DEF Fits
    <3>2. request[h].asOf \in Nat
      BY <2>3 DEF Request
    <3> QED  BY <2>3, <3>1, <3>2 DEF DocumentRow, FileKey
  <2> HIDE DEF row, c
  <2>5. document' \in [Company -> [DocType -> DocumentRow \cup {None}]]
    BY <2>1, <2>3, <2>4, DocumentsTyped
  <2> QED  BY <2>1, <2>2, <2>5 DEF RowsTypeOK
<1>5. CASE RequestDocuments(h)
  <2> DEFINE c == request[h].company
             row == [d \in DocType |-> IF d \in request[h].types /\ document[c][d] # None
                              THEN [document[c][d] EXCEPT !.state = "rejected",
                                                          !.asOf = request[h].asOf,
                                                          !.since = Decisions(c)]
                              ELSE document[c][d]]
  <2>1. /\ request[h].at = "requesting" /\ Finish(h)
        /\ UNCHANGED <<company, account, staged, promoted>>
        /\ Reviewed(c, "documents_requested") /\ linked' = linked \cup {c}
        /\ document' = [document EXCEPT ![c] = row]
    BY <1>5 DEF RequestDocuments, files
  <2>2. request' \in [Handler -> Request] /\ RequestsFit'
    BY <2>1, RequestsEnd
  <2>3. /\ c \in Company /\ request[h] \in Request /\ Decisions(c) \in Nat
        /\ document[c] \in [DocType -> DocumentRow \cup {None}]
    BY <2>1, AboutCompany
  <2>4. row \in [DocType -> DocumentRow \cup {None}]
    <3>1. request[h].asOf \in Nat
      BY <2>3 DEF Request
    <3>2. ASSUME NEW d \in DocType, document[c][d] # None
          PROVE  [document[c][d] EXCEPT !.state = "rejected", !.asOf = request[h].asOf,
                                        !.since = Decisions(c)] \in DocumentRow
      BY <2>3, <3>1, <3>2 DEF DocumentRow
    <3> QED  BY <2>3, <3>2
  <2> HIDE DEF row, c
  <2>5. document' \in [Company -> [DocType -> DocumentRow \cup {None}]]
    BY <2>1, <2>3, <2>4, DocumentsTyped
  <2>6. review' \in [Company -> Seq({"approved", "rejected", "documents_requested"})]
    BY <2>1, <2>3, ReviewCounts
  <2> QED  BY <2>1, <2>2, <2>3, <2>5, <2>6 DEF RowsTypeOK
<1> QED  BY <1>1, <1>2, <1>3, <1>4, <1>5 DEF RequestEnds

(* What an approval makes of the tables.                                   *)
LEMMA ApprovalTyped ==
  ASSUME RowsInv, NEW x \in Txn, NEW c \in Company, CommitApproval(x, c)
  PROVE  RowsInv'
<1> USE DEF RowsInv
<1>1. /\ company' = [company EXCEPT ![c].status = "active"]
      /\ document' = [document EXCEPT ![c] = [d \in DocType |-> Verified(document[c][d])]]
      /\ account' = [account EXCEPT ![company[c].contact] = c]
      /\ Reviewed(c, "approved") /\ UNCHANGED <<staged, promoted, linked, request>>
  BY DEF CommitApproval, FinishProvisioning, files, RowsTypeOK
<1>2. company' \in [Company -> CompanyRow]
  BY <1>1 DEF RowsTypeOK, CompanyRow
<1>3. [d \in DocType |-> Verified(document[c][d])] \in [DocType -> DocumentRow \cup {None}]
  <2>1. ASSUME NEW row \in DocumentRow PROVE Verified(row) \in DocumentRow \cup {None}
    BY DEF Verified, DocumentRow
  <2>2. document[c] \in [DocType -> DocumentRow \cup {None}] /\ Verified(None) = None
    BY DEF RowsTypeOK, Verified
  <2> QED  BY <2>1, <2>2
<1>4. document' \in [Company -> [DocType -> DocumentRow \cup {None}]]
  BY <1>1, <1>3, DocumentsTyped
<1>5. review' \in [Company -> Seq({"approved", "rejected", "documents_requested"})]
  BY <1>1, ReviewCounts
<1>6. account' \in [Contact -> Company \cup {None}]
  BY <1>1 DEF RowsTypeOK
<1> QED  BY <1>1, <1>2, <1>4, <1>5, <1>6 DEF RowsTypeOK, RequestsFit, Fits

LEMMA PlatformStepTyped ==
  ASSUME RowsInv,
         \/ \E c \in Company : RejectCompany(c)
         \/ \E x \in Txn, c \in Company, p \in Contact : CommitProvisionNew(x, c, p)
  PROVE  RowsInv'
<1> USE DEF RowsInv
<1>1. ASSUME NEW c \in Company, RejectCompany(c) PROVE RowsInv'
  <2>1. /\ company' = [company EXCEPT ![c].status = "rejected"] /\ Reviewed(c, "rejected")
        /\ UNCHANGED <<document, account, staged, promoted, linked, request>>
    BY <1>1 DEF RejectCompany, files
  <2>2. company' \in [Company -> CompanyRow]
    BY <2>1 DEF RowsTypeOK, CompanyRow
  <2>3. review' \in [Company -> Seq({"approved", "rejected", "documents_requested"})]
    BY <2>1, ReviewCounts
  <2> QED  BY <2>1, <2>2, <2>3 DEF RowsTypeOK, RequestsFit, Fits
<1>2. ASSUME NEW x \in Txn, NEW c \in Company, NEW p \in Contact, CommitProvisionNew(x, c, p)
      PROVE  RowsInv'
  <2>1. /\ company' = [company EXCEPT ![c] = [status |-> "active", registered |-> 1,
                                              contact |-> None]]
        /\ account' = [account EXCEPT ![p] = c]
        /\ UNCHANGED <<document, review, staged, promoted, linked, request>>
    BY <1>2 DEF CommitProvisionNew, FinishProvisioning, files
  <2>2. company' \in [Company -> CompanyRow] /\ account' \in [Contact -> Company \cup {None}]
    BY <2>1 DEF RowsTypeOK, CompanyRow
  <2> QED  BY <2>1, <2>2 DEF RowsTypeOK, RequestsFit, Fits
<1> QED  BY <1>1, <1>2

(* Everything else, as it concerns the tables, files and requests.         *)
FilesStep ==
  \/ \E f \in Upload : Stage(f) \/ PurgeStaging(f)
  \/ \E h \in Handler, d \in DocType : CopyDocument(h, d)

LEMMA FilesStepTyped ==
  ASSUME RowsInv, FilesStep
  PROVE  RowsInv'
<1> USE DEF RowsInv
<1>1. ASSUME NEW f \in Upload, Stage(f) \/ PurgeStaging(f) PROVE RowsInv'
  BY <1>1 DEF Stage, PurgeStaging, tables, RowsTypeOK, RequestsFit, Fits
<1>2. ASSUME NEW h \in Handler, NEW d \in DocType, CopyDocument(h, d) PROVE RowsInv'
  <2>1. /\ request[h].at = "moving" /\ d \in ToMove(h)
        /\ UNCHANGED <<company, document, review, account, staged, linked, request>>
        /\ promoted' = promoted \cup {CompanyDocumentKey(h, request[h].files[d])}
    BY <1>2 DEF CopyDocument, tables
  <2>2. request[h].files[d] \in Upload
    BY <2>1 DEF ToMove, RowsTypeOK, Request
  <2>3. promoted' \subseteq FileKey
    BY <2>1, <2>2 DEF FileKey, RowsTypeOK
  <2> QED  BY <2>1, <2>3 DEF RowsTypeOK, RequestsFit, Fits
<1> QED  BY <1>1, <1>2 DEF FilesStep

(* Every step is of one of these kinds.                                    *)
LEMMA KindsOfSteps ==
  ASSUME [Next]_vars
  PROVE  \/ \E h \in Handler : RequestMoves(h) \/ RequestEnds(h)
         \/ FilesStep
         \/ \E c \in Company : RejectCompany(c)
         \/ \E x \in Txn, c \in Company :
              CommitApproval(x, c) \/ \E p \in Contact : CommitProvisionNew(x, c, p)
         \/ UNCHANGED affiliationVars
<1>1. ASSUME \/ \E x \in Txn, c \in Company : BeginApproval(x, c) \/ BeginProvisionNew(x, c)
             \/ Configure \/ UNCHANGED vars
      PROVE  UNCHANGED affiliationVars
  BY <1>1 DEF BeginApproval, BeginProvisionNew, Configure, vars
<1> QED  BY <1>1 DEF Next, RequestMoves, RequestEnds, FilesStep

LEMMA RowsStep == RowsInv /\ [Next]_vars => RowsInv'
<1> SUFFICES ASSUME RowsInv, [Next]_vars PROVE RowsInv'
  OBVIOUS
<1>1. CASE UNCHANGED affiliationVars
  BY <1>1 DEF affiliationVars, RowsInv, RowsTypeOK, RequestsFit, Fits
<1> QED  BY <1>1, KindsOfSteps, RequestStepTyped, ApprovalTyped, PlatformStepTyped, FilesStepTyped

LEMMA RowsInvStart == Init => RowsInv
<1>1. Init => RequestsFit
  BY DEF Init, RequestsFit, Fits, IdleRequest, Writing
<1> QED  BY <1>1, RowsStart DEF RowsInv

(* The tables of affiliation, the requests and the versions are well typed *)
(* (submitApplication, replaceDocument and the platform's decisions).      *)
THEOREM AffiliationTyped == Spec => []AffiliationTypeOK
<1>1. Spec => []RowsInv
  BY RowsInvStart, RowsStep, PTL DEF Spec
<1>2. Spec => []VersionsTypeOK
  BY AffiliationKeepsVersions, VersionsTyped, PTL
<1>3. RowsInv /\ VersionsTypeOK => AffiliationTypeOK
  BY DEF RowsInv, AffiliationTypeOK
<1> QED  BY <1>1, <1>2, <1>3, PTL

-----------------------------------------------------------------------------

(* What a request goes by when it writes: that the company had applied, as *)
(* many decisions ago as there were since, and one at least if the company *)
(* is active now.                                                          *)
Relies(r) == \/ r.at \in {"upserting", "requesting"}
             \/ r.at \in {"moving", "submitting"} /\ r.found = "rejected"

Seen(r) ==
  /\ company[r.company].status # "none"
  /\ r.asOf <= Decisions(r.company)
  /\ Active(r.company) => r.asOf < Decisions(r.company)

ReadBefore == \A h \in Handler : Relies(request[h]) => Seen(request[h])

Counted ==
  \A c \in Company :
    /\ company[c].status = "pending" => Decisions(c) < company[c].registered
    /\ company[c].status = "none" => /\ company[c].registered = 0
                                     /\ \A d \in DocType : document[c][d] = None

ReviewInv == Counted /\ DecidedOnce /\ ReadBefore /\ ActiveIsVerified

LEMMA ReviewInvStart == Init => ReviewInv
<1> SUFFICES ASSUME Init PROVE ReviewInv
  OBVIOUS
<1>1. ASSUME NEW c \in Company PROVE Decisions(c) = 0
  <2>1. { i \in DOMAIN review[c] : review[c][i] # "documents_requested" } = {}
    BY DEF Init
  <2> QED  BY <2>1, FS_EmptySet DEF Decisions
<1>2. \A c \in Company : /\ company[c].status = "none" /\ company[c].registered = 0
                         /\ \A d \in DocType : document[c][d] = None
  BY DEF Init
<1>3. ReadBefore
  BY DEF Init, ReadBefore, Relies, IdleRequest
<1> QED  BY <1>1, <1>2, <1>3 DEF ReviewInv, Counted, DecidedOnce, ActiveIsVerified, Active

LEMMA QuietReviews ==
  ASSUME RowsInv, UNCHANGED tables
  PROVE  /\ \A c \in Company : Decisions(c)' = Decisions(c)
         /\ ReviewInv => (Counted /\ DecidedOnce /\ ActiveIsVerified)'
         /\ \A r : r.company \in Company => (Seen(r)' <=> Seen(r))
<1>1. \A c \in Company : Decisions(c)' = Decisions(c)
  BY DEF Decisions, tables
<1>2. UNCHANGED <<company, document>>
  BY DEF tables
<1> QED  BY <1>1, <1>2 DEF ReviewInv, Counted, DecidedOnce, ActiveIsVerified, Active, Seen

(* A request that goes on has read what it relies on.                      *)
LEMMA RequestMovesReview ==
  ASSUME RowsInv, ReviewInv, NEW h \in Handler, RequestMoves(h)
  PROVE  ReviewInv'
<1> USE DEF RowsInv
<1>0. UNCHANGED tables
  BY DEF RequestMoves, BeginSubmission, BeginReplacement, BeginRequestDocuments, MovesDone,
         FindPendingCompany, RemoveStaged
<1>1. ASSUME NEW r, request' = [request EXCEPT ![h] = r], Relies(r) => Seen(r) /\ r.company \in Company
      PROVE  ReviewInv'
  <2>1. ASSUME NEW g \in Handler, Relies(request[g])' PROVE Seen(request[g])'
    <3>1. CASE g = h
      <4>1. request'[g] = r /\ Relies(r)
        BY <1>1, <2>1, <3>1 DEF RowsTypeOK, Relies
      <4>2. Seen(r)'
        BY <1>0, <1>1, <4>1, QuietReviews
      <4> QED  BY <4>1, <4>2 DEF Seen, Active
    <3>2. CASE g # h
      <4>1. request'[g] = request[g] /\ request[g].at # "idle" /\ Relies(request[g])
        BY <1>1, <2>1, <3>2 DEF RowsTypeOK, Relies
      <4>2. request[g].company \in Company /\ Seen(request[g])
        BY <4>1, AboutCompany DEF ReviewInv, ReadBefore
      <4>3. UNCHANGED <<company, review>>
        BY <1>0 DEF tables
      <4> QED  BY <4>1, <4>2, <4>3 DEF Seen, Active, Decisions
    <3> QED  BY <3>1, <3>2
  <2>2. ReadBefore'
    BY <2>1 DEF ReadBefore
  <2> QED  BY <1>0, <2>2, QuietReviews DEF ReviewInv
<1>2. ASSUME NEW c \in Company, company[c].status # "none", ~Active(c)
      PROVE  \A r : r.company = c /\ r.asOf = Decisions(c) => Seen(r)
  <2>1. Decisions(c) \in Nat
    BY DecisionsTyped
  <2> QED  BY <1>2, <2>1 DEF Seen
<1>3. ASSUME NEW c \in Company, NEW p \in Contact, NEW fs \in Injection(DocType, Upload),
             BeginSubmission(h, c, p, fs)
      PROVE  ReviewInv'
  <2> DEFINE r == [IdleRequest EXCEPT !.at = "moving", !.company = c, !.contact = p,
                                 !.found = company[c].status, !.files = fs, !.asOf = Decisions(c)]
  <2>1. request' = [request EXCEPT ![h] = r]
    BY <1>3 DEF BeginSubmission
  <2>2. r.at = "moving" /\ r.company = c /\ r.found = company[c].status /\ r.asOf = Decisions(c)
    BY DEF IdleRequest
  <2> HIDE DEF r
  <2> QED  BY <1>1, <1>2, <2>1, <2>2 DEF Relies, Active
<1>4. ASSUME NEW c \in Company, NEW d \in DocType, NEW f \in Upload, BeginReplacement(h, c, d, f)
      PROVE  ReviewInv'
  <2> DEFINE r == [IdleRequest EXCEPT !.at = "moving", !.company = c, !.types = {d},
                                 !.files = [NoFiles EXCEPT ![d] = f]]
  <2>1. request' = [request EXCEPT ![h] = r]
    BY <1>4 DEF BeginReplacement
  <2>2. r.at = "moving" /\ r.found = "none"
    BY DEF IdleRequest
  <2> HIDE DEF r
  <2> QED  BY <1>1, <2>1, <2>2 DEF Relies
<1>5. ASSUME NEW c \in Company, NEW types \in (SUBSET DocType) \ {{}},
             BeginRequestDocuments(h, c, types)
      PROVE  ReviewInv'
  <2> DEFINE r == [IdleRequest EXCEPT !.at = "requesting", !.company = c,
                                 !.contact = company[c].contact, !.types = types,
                                 !.asOf = Decisions(c)]
  <2>1. request' = [request EXCEPT ![h] = r] /\ company[c].status = "pending"
    BY <1>5 DEF BeginRequestDocuments
  <2>2. r.company = c /\ r.asOf = Decisions(c)
    BY DEF IdleRequest
  <2> HIDE DEF r
  <2> QED  BY <1>1, <1>2, <2>1, <2>2 DEF Active
<1>6. ASSUME request[h].at = "moving",
             NEW r \in Request, request' = [request EXCEPT ![h] = r], Relies(r) => Relies(request[h]),
             r.company = request[h].company, r.asOf = request[h].asOf
      PROVE  ReviewInv'
  <2>1. request[h].company \in Company
    BY <1>6, AboutCompany
  <2>2. Relies(r) => Seen(r)
    BY <1>6 DEF ReviewInv, ReadBefore, Seen
  <2> QED  BY <1>1, <1>6, <2>1, <2>2
<1>7. CASE MovesDone(h)
  <2> DEFINE r == [request[h] EXCEPT !.at = IF request[h].contact = None THEN "replacing"
                                                                         ELSE "submitting"]
  <2>1. request' = [request EXCEPT ![h] = r] /\ request[h].at = "moving"
        /\ request[h] \in Request
    BY <1>7 DEF MovesDone, RowsTypeOK
  <2>2. /\ r \in Request /\ r.at \in {"replacing", "submitting"} /\ r.found = request[h].found
        /\ r.company = request[h].company /\ r.asOf = request[h].asOf
    BY <2>1 DEF Request
  <2> HIDE DEF r
  <2> QED  BY <1>6, <2>1, <2>2 DEF Relies
<1>8. CASE FindPendingCompany(h)
  <2> DEFINE c == request[h].company
             r == [request[h] EXCEPT !.at = "upserting", !.asOf = Decisions(c)]
  <2>1. request' = [request EXCEPT ![h] = r] /\ request[h].at = "replacing"
        /\ company[c].status = "pending" /\ request[h] \in Request
    BY <1>8 DEF FindPendingCompany, InReview, RowsTypeOK
  <2>2. c \in Company
    BY <2>1, AboutCompany
  <2>3. r.company = c /\ r.asOf = Decisions(c)
    BY <2>1 DEF Request
  <2> HIDE DEF r, c
  <2> QED  BY <1>1, <1>2, <2>1, <2>2, <2>3 DEF Active
<1>9. ASSUME NEW d \in DocType, RemoveStaged(h, d) PROVE ReviewInv'
  <2> DEFINE r == [request[h] EXCEPT !.moved = @ \cup {d}]
  <2>1. request' = [request EXCEPT ![h] = r] /\ request[h].at = "moving"
        /\ request[h] \in Request
    BY <1>9 DEF RemoveStaged, RowsTypeOK
  <2>2. /\ r \in Request /\ r.at = "moving" /\ r.found = request[h].found
        /\ r.company = request[h].company /\ r.asOf = request[h].asOf
    BY <2>1 DEF Request
  <2> HIDE DEF r
  <2> QED  BY <1>6, <2>1, <2>2 DEF Relies
<1> QED  BY <1>3, <1>4, <1>5, <1>7, <1>8, <1>9 DEF RequestMoves

(* What was read keeps its relation to the company while others decide.    *)
LEMMA SeenStays ==
  ASSUME RowsInv, ReviewInv, NEW h \in Handler, Finish(h) \/ UNCHANGED request,
         \A c \in Company : Decisions(c)' \in Nat,
         \A c \in Company : company[c].status # "none" =>
           /\ company'[c].status # "none"
           /\ Decisions(c) <= Decisions(c)'
           /\ company'[c].status = "active" => Active(c) \/ Decisions(c) < Decisions(c)'
  PROVE  ReadBefore'
<1>1. ASSUME NEW g \in Handler, Relies(request[g])' PROVE Seen(request[g])'
  <2>1. ~Relies(IdleRequest)
    BY DEF Relies, IdleRequest
  <2>2. request'[g] = request[g] /\ Relies(request[g])
    BY <1>1, <2>1 DEF Finish, RowsInv, RowsTypeOK, Relies
  <2>3. request[g].at # "idle" /\ Seen(request[g])
    BY <2>2 DEF Relies, ReviewInv, ReadBefore
  <2>4. PICK c \in Company : c = request[g].company /\ Decisions(c) \in Nat
    BY <2>3, AboutCompany DEF RowsInv
  <2>5. request[g].asOf \in Nat
    BY DEF RowsInv, RowsTypeOK, Request
  <2>6. /\ company'[c].status # "none" /\ request[g].asOf <= Decisions(c)'
        /\ company'[c].status = "active" => request[g].asOf < Decisions(c)'
    BY <2>3, <2>4, <2>5 DEF Seen
  <2>7. request'[g].company = c /\ request'[g].asOf = request[g].asOf
    BY <2>2, <2>4
  <2> QED  BY <2>6, <2>7 DEF Seen, Active
<1> QED  BY <1>1 DEF ReadBefore

LEMMA RequestEndsReview ==
  ASSUME RowsInv, ReviewInv, NEW h \in Handler, RequestEnds(h)
  PROVE  ReviewInv'
<1> USE DEF RowsInv
<1>0. \A c \in Company : /\ Decisions(c) \in Nat /\ company[c].registered \in Nat
                         /\ Decisions(c) <= company[c].registered
  BY DecisionsTyped DEF RowsTypeOK, CompanyRow, ReviewInv, DecidedOnce
<1>1. CASE RollbackPromoted(h)
  <2>1. UNCHANGED tables /\ Finish(h)
    BY <1>1 DEF RollbackPromoted
  <2>2. UNCHANGED company /\ \A c \in Company : Decisions(c)' = Decisions(c)
    BY <2>1, QuietReviews DEF tables
  <2>3. ReadBefore'
    BY <1>0, <2>1, <2>2, SeenStays DEF Active
  <2> QED  BY <2>1, <2>3, QuietReviews DEF ReviewInv
<1>2. CASE UpsertPendingCompany(h)
  <2> DEFINE c == request[h].company
  <2>1. /\ request[h].at = "submitting" /\ Finish(h) /\ UNCHANGED review
        /\ company' = [company EXCEPT ![c] = [status |-> "pending",
                                              registered |-> company[c].registered + 1,
                                              contact |-> request[h].contact]]
        /\ document' = [document EXCEPT ![c] = DocumentsOf(h)]
    BY <1>2 DEF UpsertPendingCompany
  <2>2. c \in Company
    BY <2>1, AboutCompany
  <2> HIDE DEF c
  <2>3. /\ company'[c].status = "pending" /\ company'[c].registered = company[c].registered + 1
        /\ \A b \in Company \ {c} : company'[b] = company[b] /\ document'[b] = document[b]
        /\ \A b \in Company : Decisions(b)' = Decisions(b)
    BY <2>1, <2>2 DEF RowsTypeOK, Decisions
  <2>4. ReadBefore'
    BY <1>0, <2>1, <2>3, SeenStays DEF Active
  <2>5. Counted' /\ DecidedOnce'
    BY <1>0, <2>3 DEF Counted, DecidedOnce, ReviewInv
  <2>6. ActiveIsVerified'
    BY <2>3 DEF ActiveIsVerified, Active, ReviewInv
  <2> QED  BY <2>4, <2>5, <2>6 DEF ReviewInv
<1>3. ASSUME NEW c \in Company, c = request[h].company, Seen(request[h]), Finish(h),
             UNCHANGED company, \A b \in Company : Decisions(b)' = Decisions(b),
             \A b \in Company \ {c} : document'[b] = document[b],
             \A d \in DocType : \/ document'[c][d] = document[c][d]
                                \/ /\ document'[c][d].asOf = request[h].asOf
                                   /\ document'[c][d].since = Decisions(c)
      PROVE  ReviewInv'
  <2>1. ReadBefore'
    BY <1>0, <1>3, SeenStays DEF Active
  <2>2. Counted' /\ DecidedOnce'
    BY <1>3 DEF Counted, DecidedOnce, ReviewInv, Seen
  <2>3. ASSUME NEW b \in Company, NEW d \in DocType, Active(b)', document'[b][d] # None,
               document'[b][d].state # "verified"
        PROVE  document'[b][d].asOf < Decisions(b)' /\ document'[b][d].since = Decisions(b)'
    <3>1. CASE document'[b][d] = document[b][d]
      BY <1>3, <2>3, <3>1 DEF ActiveIsVerified, Active, ReviewInv
    <3>2. CASE document'[b][d] # document[b][d]
      BY <1>3, <2>3, <3>2 DEF Active, Seen
    <3> QED  BY <3>1, <3>2
  <2>4. ActiveIsVerified'
    BY <2>3 DEF ActiveIsVerified
  <2> QED  BY <2>1, <2>2, <2>4 DEF ReviewInv
<1>4. CASE ReplaceSingleDocument(h)
  <2> DEFINE c == request[h].company
             row == [d \in DocType |-> IF d \in request[h].types
                              THEN [key |-> CompanyDocumentKey(h, request[h].files[d]),
                                    state |-> "pending",
                                    asOf |-> request[h].asOf, since |-> Decisions(c)]
                              ELSE document[c][d]]
  <2>1. /\ request[h].at = "upserting" /\ Finish(h) /\ UNCHANGED <<company, review>>
        /\ document' = [document EXCEPT ![c] = row]
    BY <1>4 DEF ReplaceSingleDocument
  <2>2. c \in Company /\ Seen(request[h])
    BY <2>1, AboutCompany DEF Relies, ReviewInv, ReadBefore
  <2>3. \A d \in DocType : \/ row[d] = document[c][d]
                           \/ row[d].asOf = request[h].asOf /\ row[d].since = Decisions(c)
    OBVIOUS
  <2>4. \A b \in Company : document'[b] = IF b = c THEN row ELSE document[b]
    BY <2>1, <2>2 DEF RowsTypeOK
  <2>5. \A b \in Company : Decisions(b)' = Decisions(b)
    BY <2>1 DEF Decisions
  <2> HIDE DEF c, row
  <2> QED  BY <1>3, <2>1, <2>2, <2>3, <2>4, <2>5 DEF c
<1>5. CASE RequestDocuments(h)
  <2> DEFINE c == request[h].company
             row == [d \in DocType |-> IF d \in request[h].types /\ document[c][d] # None
                              THEN [document[c][d] EXCEPT !.state = "rejected",
                                                          !.asOf = request[h].asOf,
                                                          !.since = Decisions(c)]
                              ELSE document[c][d]]
  <2>1. /\ request[h].at = "requesting" /\ Finish(h) /\ UNCHANGED company
        /\ Reviewed(c, "documents_requested")
        /\ document' = [document EXCEPT ![c] = row]
    BY <1>5 DEF RequestDocuments
  <2>2. c \in Company /\ Seen(request[h])
    BY <2>1, AboutCompany DEF Relies, ReviewInv, ReadBefore
  <2>3. \A d \in DocType : \/ row[d] = document[c][d]
                           \/ row[d].asOf = request[h].asOf /\ row[d].since = Decisions(c)
    BY <2>2 DEF RowsTypeOK, DocumentRow
  <2>4. \A b \in Company : document'[b] = IF b = c THEN row ELSE document[b]
    BY <2>1, <2>2 DEF RowsTypeOK
  <2>5. \A b \in Company : Decisions(b)' = Decisions(b)
    BY <2>1, <2>2, ReviewCounts
  <2> HIDE DEF c, row
  <2> QED  BY <1>3, <2>1, <2>2, <2>3, <2>4, <2>5 DEF c
<1> QED  BY <1>1, <1>2, <1>4, <1>5 DEF RequestEnds

LEMMA DecisionsReview ==
  ASSUME RowsInv, ReviewInv,
         \/ \E c \in Company : RejectCompany(c)
         \/ \E x \in Txn, c \in Company :
              CommitApproval(x, c) \/ \E p \in Contact : CommitProvisionNew(x, c, p)
  PROVE  ReviewInv'
<1> USE DEF RowsInv
<1>0. \A c \in Company : /\ Decisions(c) \in Nat /\ company[c].registered \in Nat
                         /\ Decisions(c) <= company[c].registered
  BY DecisionsTyped DEF RowsTypeOK, CompanyRow, ReviewInv, DecidedOnce
<1>1. ASSUME UNCHANGED request, \A c \in Company : Decisions(c)' \in Nat,
             \A c \in Company : company[c].status # "none" =>
               /\ company'[c].status # "none"
               /\ Decisions(c) <= Decisions(c)'
               /\ company'[c].status = "active" => Active(c) \/ Decisions(c) < Decisions(c)'
      PROVE  ReadBefore'
  <2>1. CASE Handler = {}
    BY <2>1 DEF ReadBefore
  <2>2. CASE Handler # {}
    BY <1>1, <2>2, SeenStays
  <2> QED  BY <2>1, <2>2
<1>2. ASSUME NEW c \in Company, RejectCompany(c) PROVE ReviewInv'
  <2>1. /\ company' = [company EXCEPT ![c].status = "rejected"] /\ company[c].status = "pending"
        /\ Reviewed(c, "rejected") /\ UNCHANGED <<document, request>>
    BY <1>2 DEF RejectCompany, Rejectable
  <2>2. \A b \in Company : Decisions(b)' = IF b = c THEN Decisions(b) + 1 ELSE Decisions(b)
    BY <2>1, ReviewCounts
  <2>3. /\ company'[c].status = "rejected" /\ company'[c].registered = company[c].registered
        /\ \A b \in Company \ {c} : company'[b] = company[b]
    BY <2>1 DEF RowsTypeOK, CompanyRow
  <2>4. ReadBefore'
    BY <1>0, <1>1, <2>1, <2>2, <2>3 DEF Active
  <2>5. Counted' /\ DecidedOnce'
    BY <1>0, <2>1, <2>2, <2>3 DEF Counted, DecidedOnce, ReviewInv
  <2>6. ActiveIsVerified'
    BY <2>1, <2>2, <2>3 DEF ActiveIsVerified, Active, ReviewInv
  <2> QED  BY <2>4, <2>5, <2>6 DEF ReviewInv
<1>3. ASSUME NEW x \in Txn, NEW c \in Company, CommitApproval(x, c) PROVE ReviewInv'
  <2> DEFINE row == [d \in DocType |-> Verified(document[c][d])]
  <2>1. /\ company' = [company EXCEPT ![c].status = "active"] /\ company[c].status = "pending"
        /\ document' = [document EXCEPT ![c] = row]
        /\ Reviewed(c, "approved") /\ UNCHANGED request
    BY <1>3 DEF CommitApproval
  <2>2. \A b \in Company : Decisions(b)' = IF b = c THEN Decisions(b) + 1 ELSE Decisions(b)
    BY <2>1, ReviewCounts
  <2>3. /\ company'[c].status = "active" /\ company'[c].registered = company[c].registered
        /\ \A b \in Company \ {c} : company'[b] = company[b] /\ document'[b] = document[b]
        /\ document'[c] = row
    BY <2>1 DEF RowsTypeOK, CompanyRow
  <2>4. \A d \in DocType : row[d] = None \/ row[d].state = "verified"
    <3>1. document[c] \in [DocType -> DocumentRow \cup {None}]
      BY DEF RowsTypeOK
    <3> QED  BY <3>1 DEF Verified, DocumentRow
  <2> HIDE DEF row
  <2>5. ReadBefore'
    BY <1>0, <1>1, <2>1, <2>2, <2>3 DEF Active
  <2>6. Counted' /\ DecidedOnce'
    BY <1>0, <2>1, <2>2, <2>3 DEF Counted, DecidedOnce, ReviewInv
  <2>7. ActiveIsVerified'
    BY <2>2, <2>3, <2>4 DEF ActiveIsVerified, Active, ReviewInv
  <2> QED  BY <2>5, <2>6, <2>7 DEF ReviewInv
<1>4. ASSUME NEW x \in Txn, NEW c \in Company, NEW p \in Contact, CommitProvisionNew(x, c, p)
      PROVE  ReviewInv'
  <2>1. /\ company' = [company EXCEPT ![c] = [status |-> "active", registered |-> 1,
                                              contact |-> None]]
        /\ company[c].status = "none" /\ UNCHANGED <<document, review, request>>
    BY <1>4 DEF CommitProvisionNew
  <2>2. \A b \in Company : Decisions(b)' = Decisions(b)
    BY <2>1 DEF Decisions
  <2>3. /\ company'[c].status = "active" /\ company'[c].registered = 1
        /\ \A b \in Company \ {c} : company'[b] = company[b]
    BY <2>1 DEF RowsTypeOK
  <2>4. company[c].registered = 0 /\ \A d \in DocType : document[c][d] = None
    BY <2>1 DEF Counted, ReviewInv
  <2>5. ReadBefore'
    BY <1>0, <1>1, <2>1, <2>2, <2>3 DEF Active
  <2>6. Counted' /\ DecidedOnce'
    BY <1>0, <2>1, <2>2, <2>3, <2>4 DEF Counted, DecidedOnce, ReviewInv
  <2>7. ActiveIsVerified'
    BY <2>1, <2>2, <2>3, <2>4 DEF ActiveIsVerified, Active, ReviewInv
  <2> QED  BY <2>5, <2>6, <2>7 DEF ReviewInv
<1> QED  BY <1>2, <1>3, <1>4

LEMMA ReviewStep == RowsInv /\ ReviewInv /\ [Next]_vars => ReviewInv'
<1> SUFFICES ASSUME RowsInv, ReviewInv, [Next]_vars PROVE ReviewInv'
  OBVIOUS
<1>1. ASSUME UNCHANGED <<tables, request>> PROVE ReviewInv'
  <2>1. UNCHANGED <<company, document, review, request>>
    BY <1>1 DEF tables
  <2> QED  BY <2>1 DEF ReviewInv, Counted, DecidedOnce, ActiveIsVerified, ReadBefore, Seen, Active,
                       Decisions, Relies
<1>2. FilesStep \/ UNCHANGED affiliationVars => UNCHANGED <<tables, request>>
  BY DEF FilesStep, Stage, PurgeStaging, CopyDocument, affiliationVars, tables
<1> QED  BY <1>1, <1>2, KindsOfSteps, RequestMovesReview, RequestEndsReview, DecisionsReview

LEMMA ReviewHolds == Spec => [](RowsInv /\ ReviewInv)
<1>1. RowsInv /\ ReviewInv /\ [Next]_vars => (RowsInv /\ ReviewInv)'
  BY RowsStep, ReviewStep
<1> QED  BY <1>1, RowsInvStart, ReviewInvStart, PTL DEF Spec

(* An application is decided once, however many approvals and rejections   *)
(* overlap (the status tested by activateCompany and rejectCompany).       *)
THEOREM ApplicationDecidedOnce == Spec => []DecidedOnce
<1>1. ReviewInv => DecidedOnce
  BY DEF ReviewInv
<1> QED  BY <1>1, ReviewHolds, PTL

(* Only documents written or asked for again after the approval, by someone*)
(* who had read the company as pending before, are not verified            *)
(* (replaceDocument, requestDocuments).                                    *)
THEOREM ActiveVerified == Spec => []ActiveIsVerified
<1>1. ReviewInv => ActiveIsVerified
  BY DEF ReviewInv
<1> QED  BY <1>1, ReviewHolds, PTL

(* An active company is set back only by an application that found it      *)
(* rejected before its last decision (upsertPendingCompany).               *)
THEOREM SetBackByStale == Spec => SetBackOnlyByStale
<1> DEFINE Stale(c) == /\ company'[c].status = "pending"
                       /\ \E h \in Handler : /\ request[h].at = "submitting"
                                             /\ request[h].company = c
                                             /\ request[h].found = "rejected"
                                             /\ request[h].asOf < Decisions(c)
           SetBack == \A c \in Company : Active(c) /\ company'[c].status # "active" => Stale(c)
<1>1. ASSUME RowsInv, ReviewInv, [Next]_vars PROVE SetBack
  <2>1. SUFFICES ASSUME NEW c \in Company, Active(c), company'[c].status # "active" PROVE Stale(c)
    OBVIOUS
  <2>2. company # company' /\ company \in [Company -> CompanyRow]
    BY <1>1, <2>1 DEF Active, RowsInv, RowsTypeOK
  <2>3. ASSUME NEW b \in Company, NEW row, company' = [company EXCEPT ![b] = row],
               row.status = "active" \/ ~Active(b)
        PROVE  FALSE
    BY <2>1, <2>2, <2>3 DEF Active
  <2>4. ASSUME NEW b \in Company, RejectCompany(b) PROVE FALSE
    <3>1. ~Active(b) /\ company' = [company EXCEPT ![b] = [company[b] EXCEPT !.status = "rejected"]]
      BY <2>2, <2>4 DEF RejectCompany, Rejectable, Active
    <3> QED  BY <2>3, <3>1
  <2>5. ASSUME NEW x \in Txn, NEW b \in Company, CommitApproval(x, b) PROVE FALSE
    <3>1. ~Active(b) /\ company' = [company EXCEPT ![b] = [company[b] EXCEPT !.status = "active"]]
      BY <2>2, <2>5 DEF CommitApproval, Active
    <3> QED  BY <2>3, <3>1
  <2>6. ASSUME NEW x \in Txn, NEW b \in Company, NEW p \in Contact, CommitProvisionNew(x, b, p)
        PROVE  FALSE
    BY <2>3, <2>6 DEF CommitProvisionNew, Active
  <2>7. PICK h \in Handler : UpsertPendingCompany(h)
    <3>1. FilesStep \/ UNCHANGED affiliationVars => UNCHANGED company
      BY DEF FilesStep, Stage, PurgeStaging, CopyDocument, affiliationVars, tables
    <3>2. ASSUME NEW h \in Handler, RequestMoves(h) PROVE UNCHANGED company
      BY <3>2 DEF RequestMoves, BeginSubmission, BeginReplacement, BeginRequestDocuments, MovesDone,
                  FindPendingCompany, RemoveStaged, tables
    <3>3. ASSUME NEW h \in Handler,
                 RollbackPromoted(h) \/ ReplaceSingleDocument(h) \/ RequestDocuments(h)
          PROVE  UNCHANGED company
      BY <3>3 DEF RollbackPromoted, ReplaceSingleDocument, RequestDocuments, tables
    <3> QED  BY <1>1, <2>2, <2>4, <2>5, <2>6, <3>1, <3>2, <3>3, KindsOfSteps DEF RequestEnds
  <2>8. /\ request[h].at = "submitting" /\ TaxIdFree(h)
        /\ company' = [company EXCEPT ![request[h].company] =
             [status |-> "pending", registered |-> company[request[h].company].registered + 1,
              contact |-> request[h].contact]]
    BY <2>7 DEF UpsertPendingCompany
  <2>9. request[h].company \in Company /\ request[h] \in Request
    BY <1>1, <2>8, AboutCompany DEF RowsInv
  <2>10. request[h].company = c /\ company'[c].status = "pending"
    BY <2>1, <2>2, <2>8, <2>9 DEF Active
  <2>11. request[h].found = "rejected"
    BY <2>1, <2>8, <2>9, <2>10 DEF TaxIdFree, Active, Request
  <2>12. Seen(request[h])
    BY <1>1, <2>8, <2>11 DEF Relies, ReviewInv, ReadBefore
  <2> QED  BY <2>1, <2>8, <2>10, <2>11, <2>12 DEF Seen
<1>2. RowsInv /\ ReviewInv /\ [Next]_vars =>
        [\A c \in Company : Active(c) /\ company'[c].status # "active" =>
           /\ company'[c].status = "pending"
           /\ \E h \in Handler : /\ request[h].at = "submitting" /\ request[h].company = c
                                 /\ request[h].found = "rejected"
                                 /\ request[h].asOf < Decisions(c)]_vars
  BY <1>1
<1> QED  BY <1>2, ReviewHolds, PTL DEF Spec, SetBackOnlyByStale

-----------------------------------------------------------------------------

(* A file is kept for good when its upload is gone and its request is over:*)
(* nobody copies it again, and nobody is left to remove it.                *)
Kept(key) ==
  /\ key \in promoted
  /\ \A f \in Upload, h \in Handler : key = CompanyDocumentKey(h, f) =>
       /\ staged[f] = "gone"
       /\ \A d \in DocType : request[h].files[d] # f

RowsKept == \A c \in Company, d \in DocType : document[c][d] # None => Kept(document[c][d].key)

MovedKept ==
  \A h \in Handler, d \in DocType : d \in request[h].moved =>
    /\ staged[request[h].files[d]] = "gone"
    /\ CompanyDocumentKey(h, request[h].files[d]) \in promoted

FilesKept == RowsKept /\ MovedKept

LEMMA FilesKeptStart == Init => FilesKept
  BY DEF Init, FilesKept, RowsKept, MovedKept, IdleRequest

LEMMA RowKeys ==
  ASSUME RowsInv, NEW c \in Company, NEW d \in DocType, document[c][d] # None
  PROVE  document[c][d] \in DocumentRow
         /\ \E f \in Upload, h \in Handler : document[c][d].key = CompanyDocumentKey(h, f)
<1>1. document[c][d] \in DocumentRow
  BY DEF RowsInv, RowsTypeOK
<1>2. document[c][d].key \in FileKey
  BY <1>1 DEF DocumentRow
<1> QED  BY <1>1, <1>2 DEF FileKey

(* Rows that no step touches keep their files if no upload comes back, no  *)
(* file of theirs is removed and no request takes up a gone upload.        *)
LEMMA KeptStays ==
  ASSUME NEW key, Kept(key),
         key \in promoted',
         \A f \in Upload : staged[f] = "gone" => staged'[f] = "gone",
         \A f \in Upload, h \in Handler : staged[f] = "gone" =>
           \A d \in DocType : request'[h].files[d] = f => request[h].files[d] = f
  PROVE  Kept(key)'
<1>1. ASSUME NEW f \in Upload, NEW h \in Handler, key = CompanyDocumentKey(h, f)
      PROVE  staged'[f] = "gone" /\ \A d \in DocType : request'[h].files[d] # f
  BY <1>1 DEF Kept
<1> QED  BY <1>1 DEF Kept, CompanyDocumentKey

LEMMA RequestMovesFiles ==
  ASSUME RowsInv, FilesKept, NEW h \in Handler, RequestMoves(h)
  PROVE  FilesKept'
<1> USE DEF RowsInv
<1>0. UNCHANGED <<document, promoted>>
  BY DEF RequestMoves, BeginSubmission, BeginReplacement, BeginRequestDocuments, MovesDone,
         FindPendingCompany, RemoveStaged, tables, files
<1>1. ASSUME NEW r, request' = [request EXCEPT ![h] = r],
             \A f \in Upload : staged[f] = "gone" => staged'[f] = "gone",
             \A d \in DocType : r.files[d] \in Upload /\ staged[r.files[d]] = "gone"
                                  => r.files[d] = request[h].files[d],
             \A d \in DocType : d \in r.moved =>
               /\ staged'[r.files[d]] = "gone"
               /\ CompanyDocumentKey(h, r.files[d]) \in promoted
      PROVE  FilesKept'
  <2>1. \A g \in Handler : request'[g] = IF g = h THEN r ELSE request[g]
    BY <1>1 DEF RowsTypeOK
  <2>2. ASSUME NEW c \in Company, NEW d \in DocType, document'[c][d] # None
        PROVE  Kept(document[c][d].key)'
    <3>1. Kept(document[c][d].key) /\ document[c][d].key \in promoted'
      BY <1>0, <2>2 DEF FilesKept, RowsKept, Kept
    <3>2. \A f \in Upload, g \in Handler : staged[f] = "gone" =>
            \A e \in DocType : request'[g].files[e] = f => request[g].files[e] = f
      BY <1>1, <2>1
    <3>3. PICK key : key = document[c][d].key
      OBVIOUS
    <3>4. Kept(key)'
      BY <1>1, <3>1, <3>2, <3>3, KeptStays
    <3> QED  BY <1>0, <3>3, <3>4 DEF Kept, CompanyDocumentKey
  <2>3. RowsKept'
    BY <2>2 DEF RowsKept
  <2>4. ASSUME NEW g \in Handler, NEW d \in DocType, d \in request'[g].moved
        PROVE  /\ staged'[request'[g].files[d]] = "gone"
               /\ CompanyDocumentKey(g, request'[g].files[d]) \in promoted'
    <3>1. CASE g = h
      BY <1>0, <1>1, <2>1, <2>4, <3>1
    <3>2. CASE g # h
      <4>1. request'[g] = request[g] /\ Fits(request[g])
        BY <2>1, <3>2 DEF RequestsFit
      <4>2. request[g].files[d] \in Upload
        BY <2>4, <4>1 DEF Fits
      <4> QED  BY <1>0, <1>1, <2>4, <4>1, <4>2 DEF FilesKept, MovedKept
    <3> QED  BY <3>1, <3>2
  <2>5. MovedKept'
    BY <2>4 DEF MovedKept, CompanyDocumentKey
  <2> QED  BY <2>3, <2>5 DEF FilesKept
<1>2. ASSUME NEW c \in Company, NEW p \in Contact, NEW fs \in Injection(DocType, Upload),
             BeginSubmission(h, c, p, fs)
      PROVE  FilesKept'
  <2> DEFINE r == [IdleRequest EXCEPT !.at = "moving", !.company = c, !.contact = p,
                                 !.found = company[c].status, !.files = fs, !.asOf = Decisions(c)]
  <2>1. request' = [request EXCEPT ![h] = r] /\ UNCHANGED staged
        /\ \A d \in DocType : staged[fs[d]] = "staged"
    BY <1>2 DEF BeginSubmission, files
  <2>2. r.files = fs /\ r.moved = {}
    BY DEF IdleRequest
  <2> HIDE DEF r
  <2> QED  BY <1>1, <2>1, <2>2
<1>3. ASSUME NEW c \in Company, NEW e \in DocType, NEW f \in Upload, BeginReplacement(h, c, e, f)
      PROVE  FilesKept'
  <2> DEFINE r == [IdleRequest EXCEPT !.at = "moving", !.company = c, !.types = {e},
                                 !.files = [NoFiles EXCEPT ![e] = f]]
  <2>1. request' = [request EXCEPT ![h] = r] /\ UNCHANGED staged /\ staged[f] = "staged"
    BY <1>3 DEF BeginReplacement, files
  <2>2. r.moved = {} /\ \A d \in DocType : r.files[d] \in {None, f}
    BY DEF IdleRequest, NoFiles
  <2> HIDE DEF r
  <2> QED  BY <1>1, <2>1, <2>2, AffiliationAssumption
<1>4. ASSUME NEW c \in Company, NEW types \in (SUBSET DocType) \ {{}},
             BeginRequestDocuments(h, c, types)
      PROVE  FilesKept'
  <2> DEFINE r == [IdleRequest EXCEPT !.at = "requesting", !.company = c,
                                 !.contact = company[c].contact, !.types = types,
                                 !.asOf = Decisions(c)]
  <2>1. request' = [request EXCEPT ![h] = r] /\ UNCHANGED staged
    BY <1>4 DEF BeginRequestDocuments, files
  <2>2. r.moved = {} /\ \A d \in DocType : r.files[d] = None
    BY DEF IdleRequest, NoFiles
  <2> HIDE DEF r
  <2> QED  BY <1>1, <2>1, <2>2, AffiliationAssumption
<1>5. CASE MovesDone(h) \/ FindPendingCompany(h)
  <2>1. UNCHANGED staged /\ request[h] \in Request
    BY <1>5 DEF MovesDone, FindPendingCompany, files, RowsTypeOK
  <2>2. PICK r : request' = [request EXCEPT ![h] = r] /\ r.files = request[h].files
                 /\ r.moved = request[h].moved
    <3>1. CASE MovesDone(h)
      <4>1. PICK place : request' = [request EXCEPT ![h] = [request[h] EXCEPT !.at = place]]
        BY <3>1 DEF MovesDone, RowsTypeOK
      <4>2. [request[h] EXCEPT !.at = place].files = request[h].files
            /\ [request[h] EXCEPT !.at = place].moved = request[h].moved
        BY <2>1 DEF Request
      <4> QED  BY <4>1, <4>2
    <3>2. CASE FindPendingCompany(h)
      <4>1. PICK seen : request' = [request EXCEPT ![h] = [request[h] EXCEPT !.at = "upserting",
                                                                             !.asOf = seen]]
        BY <3>2 DEF FindPendingCompany, RowsTypeOK
      <4>2. [request[h] EXCEPT !.at = "upserting", !.asOf = seen].files = request[h].files
            /\ [request[h] EXCEPT !.at = "upserting", !.asOf = seen].moved = request[h].moved
        BY <2>1 DEF Request
      <4> QED  BY <4>1, <4>2
    <3> QED  BY <1>5, <3>1, <3>2
  <2>3. \A d \in DocType : d \in r.moved =>
          /\ staged'[r.files[d]] = "gone"
          /\ CompanyDocumentKey(h, r.files[d]) \in promoted
    BY <2>1, <2>2 DEF FilesKept, MovedKept
  <2> QED  BY <1>1, <2>1, <2>2, <2>3
<1>6. ASSUME NEW e \in DocType, RemoveStaged(h, e) PROVE FilesKept'
  <2> DEFINE r == [request[h] EXCEPT !.moved = @ \cup {e}]
  <2>1. /\ request' = [request EXCEPT ![h] = r] /\ request[h] \in Request /\ e \in ToMove(h)
        /\ staged' = [staged EXCEPT ![request[h].files[e]] = "gone"]
        /\ CompanyDocumentKey(h, request[h].files[e]) \in promoted
    BY <1>6 DEF RemoveStaged, RowsTypeOK
  <2>2. r.files = request[h].files /\ r.moved = request[h].moved \cup {e}
    BY <2>1 DEF Request
  <2>3. request[h].files[e] \in Upload
    BY <2>1 DEF ToMove, Request
  <2> HIDE DEF r
  <2>4. \A f \in Upload : staged'[f] = IF f = request[h].files[e] THEN "gone" ELSE staged[f]
    BY <2>1 DEF RowsTypeOK
  <2>5. \A d \in DocType : d \in request[h].moved =>
          request[h].files[d] \in Upload /\ staged'[request[h].files[d]] = "gone"
    BY <2>4 DEF RequestsFit, Fits, FilesKept, MovedKept
  <2>6. \A d \in DocType : d \in r.moved =>
          /\ staged'[r.files[d]] = "gone"
          /\ CompanyDocumentKey(h, r.files[d]) \in promoted
    BY <2>1, <2>2, <2>3, <2>4, <2>5 DEF FilesKept, MovedKept
  <2> QED  BY <1>1, <2>1, <2>2, <2>4, <2>6
<1> QED  BY <1>2, <1>3, <1>4, <1>5, <1>6 DEF RequestMoves

(* At the end of a request its rows have the files it moved, or others that*)
(* were kept before.                                                       *)
LEMMA EndKeepsFiles ==
  ASSUME RowsInv, FilesKept, NEW h \in Handler, Finish(h), UNCHANGED staged,
         \A key \in promoted \ promoted' :
           \E d \in DocType : d \in request[h].moved /\ key = CompanyDocumentKey(h, request[h].files[d]),
         \A c \in Company, d \in DocType : document'[c][d] # None =>
           \/ document[c][d] # None /\ document'[c][d].key = document[c][d].key
           \/ /\ UNCHANGED promoted /\ d \in request[h].moved
              /\ document'[c][d].key = CompanyDocumentKey(h, request[h].files[d])
  PROVE  FilesKept'
<1> USE DEF RowsInv
<1>1. \A g \in Handler : request'[g] = IF g = h THEN IdleRequest ELSE request[g]
  BY DEF Finish, RowsTypeOK
<1>2. IdleRequest.moved = {} /\ \A d \in DocType : IdleRequest.files[d] = None
  BY DEF IdleRequest, NoFiles
<1>3. \A d \in DocType : d \in request[h].moved => request[h].files[d] \in Upload
  BY DEF RequestsFit, Fits
<1>4. ASSUME NEW c \in Company, NEW d \in DocType, document'[c][d] # None
      PROVE  Kept(document[c][d].key)'
  <2> DEFINE key == document'[c][d].key
  <2>1. CASE document[c][d] # None /\ key = document[c][d].key
    <3>1. Kept(document[c][d].key)
      BY <2>1 DEF FilesKept, RowsKept
    <3>2. PICK f \in Upload, g \in Handler : key = CompanyDocumentKey(g, f)
      BY <2>1, RowKeys
    <3>3. \A e \in DocType : g = h => request[h].files[e] # f
      BY <2>1, <3>1, <3>2 DEF Kept
    <3>4. key \in promoted'
      <4>1. ASSUME key \notin promoted' PROVE FALSE
        <5>1. PICK e \in DocType : e \in request[h].moved
                                   /\ key = CompanyDocumentKey(h, request[h].files[e])
          BY <2>1, <3>1, <4>1 DEF Kept
        <5> QED  BY <3>2, <3>3, <5>1 DEF CompanyDocumentKey
      <4> QED  BY <4>1
    <3>5. ASSUME NEW u \in Upload, NEW k \in Handler, key = CompanyDocumentKey(k, u)
          PROVE  staged'[u] = "gone" /\ \A e \in DocType : request'[k].files[e] # u
      <4>1. staged[u] = "gone" /\ \A e \in DocType : request[k].files[e] # u
        BY <2>1, <3>1, <3>5 DEF Kept
      <4> QED  BY <1>1, <1>2, <4>1, AffiliationAssumption
    <3> QED  BY <3>4, <3>5 DEF Kept, CompanyDocumentKey
  <2>2. CASE /\ UNCHANGED promoted /\ d \in request[h].moved
             /\ key = CompanyDocumentKey(h, request[h].files[d])
    <3>1. /\ staged[request[h].files[d]] = "gone" /\ request[h].files[d] \in Upload
          /\ key \in promoted
      BY <1>3, <2>2 DEF FilesKept, MovedKept
    <3>2. ASSUME NEW u \in Upload, NEW k \in Handler, key = CompanyDocumentKey(k, u)
          PROVE  staged'[u] = "gone" /\ \A e \in DocType : request'[k].files[e] # u
      <4>1. k = h /\ u = request[h].files[d]
        BY <2>2, <3>2 DEF CompanyDocumentKey
      <4> QED  BY <1>1, <1>2, <3>1, <4>1, AffiliationAssumption
    <3> QED  BY <2>2, <3>1, <3>2 DEF Kept, CompanyDocumentKey
  <2> QED  BY <1>4, <2>1, <2>2
<1>5. RowsKept'
  BY <1>4 DEF RowsKept
<1>6. ASSUME NEW g \in Handler, NEW d \in DocType, d \in request'[g].moved
      PROVE  /\ staged'[request'[g].files[d]] = "gone"
             /\ CompanyDocumentKey(g, request'[g].files[d]) \in promoted'
  <2>1. g # h /\ request'[g] = request[g] /\ Fits(request[g])
    BY <1>1, <1>2, <1>6 DEF RequestsFit
  <2>2. request[g].files[d] \in Upload /\ staged[request[g].files[d]] = "gone"
        /\ CompanyDocumentKey(g, request[g].files[d]) \in promoted
    BY <1>6, <2>1 DEF Fits, FilesKept, MovedKept
  <2>3. CompanyDocumentKey(g, request[g].files[d]) \in promoted'
    BY <2>1, <2>2 DEF CompanyDocumentKey
  <2> QED  BY <2>1, <2>2, <2>3
<1>7. MovedKept'
  BY <1>6 DEF MovedKept, CompanyDocumentKey
<1> QED  BY <1>5, <1>7 DEF FilesKept

LEMMA RequestEndsFiles ==
  ASSUME RowsInv, FilesKept, NEW h \in Handler, RequestEnds(h)
  PROVE  FilesKept'
<1> USE DEF RowsInv
<1>1. CASE RollbackPromoted(h)
  <2>1. PICK kept \in {{}, request[h].moved} :
          promoted' = promoted \ { CompanyDocumentKey(h, request[h].files[d]) :
                                     d \in request[h].moved \ kept }
    BY <1>1 DEF RollbackPromoted
  <2>2. Finish(h) /\ UNCHANGED <<document, staged>> /\ request[h].moved \subseteq DocType
    BY <1>1 DEF RollbackPromoted, tables, RowsTypeOK, Request
  <2>3. \A key \in promoted \ promoted' :
          \E d \in DocType : d \in request[h].moved
                             /\ key = CompanyDocumentKey(h, request[h].files[d])
    BY <2>1, <2>2
  <2> QED  BY <2>2, <2>3, EndKeepsFiles
<1>2. CASE UpsertPendingCompany(h)
  <2> DEFINE c == request[h].company
  <2>1. /\ request[h].at = "submitting" /\ Finish(h) /\ UNCHANGED <<staged, promoted>>
        /\ document' = [document EXCEPT ![c] = DocumentsOf(h)]
    BY <1>2 DEF UpsertPendingCompany, files
  <2>2. c \in Company /\ Fits(request[h])
    BY <2>1, AboutCompany
  <2>3. \A d \in DocType : d \in request[h].moved
    BY <2>1, <2>2, AffiliationAssumption DEF Fits, Writing
  <2>4. \A b \in Company : document'[b] = IF b = c THEN DocumentsOf(h) ELSE document[b]
    BY <2>1, <2>2 DEF RowsTypeOK
  <2>5. \A d \in DocType : DocumentsOf(h)[d].key = CompanyDocumentKey(h, request[h].files[d])
    BY DEF DocumentsOf
  <2> HIDE DEF c
  <2> QED  BY <2>1, <2>3, <2>4, <2>5, EndKeepsFiles
<1>3. CASE ReplaceSingleDocument(h)
  <2> DEFINE c == request[h].company
             row == [d \in DocType |-> IF d \in request[h].types
                              THEN [key |-> CompanyDocumentKey(h, request[h].files[d]),
                                    state |-> "pending",
                                    asOf |-> request[h].asOf, since |-> Decisions(c)]
                              ELSE document[c][d]]
  <2>1. /\ request[h].at = "upserting" /\ Finish(h) /\ UNCHANGED <<staged, promoted>>
        /\ document' = [document EXCEPT ![c] = row]
    BY <1>3 DEF ReplaceSingleDocument, files
  <2>2. c \in Company /\ Fits(request[h])
    BY <2>1, AboutCompany
  <2>3. \A d \in DocType : d \in request[h].types => d \in request[h].moved
    BY <2>1, <2>2, AffiliationAssumption DEF Fits, Writing
  <2>4. \A b \in Company : document'[b] = IF b = c THEN row ELSE document[b]
    BY <2>1, <2>2 DEF RowsTypeOK
  <2>5. \A d \in DocType : IF d \in request[h].types
                           THEN row[d].key = CompanyDocumentKey(h, request[h].files[d])
                           ELSE row[d] = document[c][d]
    OBVIOUS
  <2> HIDE DEF c, row
  <2> QED  BY <2>1, <2>3, <2>4, <2>5, EndKeepsFiles
<1>4. CASE RequestDocuments(h)
  <2> DEFINE c == request[h].company
             row == [d \in DocType |-> IF d \in request[h].types /\ document[c][d] # None
                              THEN [document[c][d] EXCEPT !.state = "rejected",
                                                          !.asOf = request[h].asOf,
                                                          !.since = Decisions(c)]
                              ELSE document[c][d]]
  <2>1. /\ request[h].at = "requesting" /\ Finish(h) /\ UNCHANGED <<staged, promoted>>
        /\ document' = [document EXCEPT ![c] = row]
    BY <1>4 DEF RequestDocuments, files
  <2>2. c \in Company
    BY <2>1, AboutCompany
  <2>3. \A b \in Company : document'[b] = IF b = c THEN row ELSE document[b]
    BY <2>1, <2>2 DEF RowsTypeOK
  <2>4. \A d \in DocType : row[d] # None =>
          document[c][d] # None /\ row[d].key = document[c][d].key
    BY <2>2 DEF RowsTypeOK, DocumentRow
  <2> HIDE DEF c, row
  <2> QED  BY <2>1, <2>3, <2>4, EndKeepsFiles
<1> QED  BY <1>1, <1>2, <1>3, <1>4 DEF RequestEnds

(* Whoever else changes rows keeps their keys, and files are only added.   *)
LEMMA OthersKeepFiles ==
  ASSUME RowsInv, FilesKept, UNCHANGED request, promoted \subseteq promoted',
         \A f \in Upload : staged[f] = "gone" => staged'[f] = "gone",
         \A c \in Company, d \in DocType : document'[c][d] # None =>
           document[c][d] # None /\ document'[c][d].key = document[c][d].key
  PROVE  FilesKept'
<1>1. ASSUME NEW c \in Company, NEW d \in DocType, document'[c][d] # None
      PROVE  Kept(document[c][d].key)'
  <2>1. PICK key : key = document[c][d].key /\ Kept(key)
    BY <1>1 DEF FilesKept, RowsKept
  <2>2. key \in promoted'
    BY <2>1 DEF Kept
  <2>3. Kept(key)'
    BY <2>1, <2>2, KeptStays
  <2>4. document'[c][d].key = key
    BY <1>1, <2>1
  <2> QED  BY <2>3, <2>4 DEF Kept, CompanyDocumentKey
<1>2. RowsKept'
  BY <1>1 DEF RowsKept
<1>3. ASSUME NEW g \in Handler, NEW d \in DocType, d \in request[g].moved
      PROVE  /\ staged'[request[g].files[d]] = "gone"
             /\ CompanyDocumentKey(g, request[g].files[d]) \in promoted'
  BY <1>3 DEF FilesKept, MovedKept, RowsInv, RequestsFit, Fits
<1>4. MovedKept'
  BY <1>3 DEF MovedKept, CompanyDocumentKey
<1> QED  BY <1>2, <1>4 DEF FilesKept

LEMMA FilesKeptStep == RowsInv /\ FilesKept /\ [Next]_vars => FilesKept'
<1> SUFFICES ASSUME RowsInv, FilesKept, [Next]_vars PROVE FilesKept'
  OBVIOUS
<1>1. CASE UNCHANGED affiliationVars
  <2>1. UNCHANGED <<document, staged, promoted, request>>
    BY <1>1 DEF affiliationVars
  <2> QED  BY <2>1, OthersKeepFiles
<1>2. ASSUME NEW c \in Company, RejectCompany(c) PROVE FilesKept'
  <2>1. UNCHANGED <<document, staged, promoted, request>>
    BY <1>2 DEF RejectCompany, files
  <2> QED  BY <2>1, OthersKeepFiles
<1>3. ASSUME NEW x \in Txn, NEW c \in Company, NEW p \in Contact, CommitProvisionNew(x, c, p)
      PROVE  FilesKept'
  <2>1. UNCHANGED <<document, staged, promoted, request>>
    BY <1>3 DEF CommitProvisionNew, files
  <2> QED  BY <2>1, OthersKeepFiles
<1>4. ASSUME NEW x \in Txn, NEW c \in Company, CommitApproval(x, c) PROVE FilesKept'
  <2> DEFINE row == [d \in DocType |-> Verified(document[c][d])]
  <2>1. document' = [document EXCEPT ![c] = row] /\ UNCHANGED <<staged, promoted, request>>
    BY <1>4 DEF CommitApproval, files
  <2>2. document \in [Company -> [DocType -> DocumentRow \cup {None}]]
    BY DEF RowsInv, RowsTypeOK
  <2>3. \A d \in DocType : row[d] # None =>
          document[c][d] # None /\ row[d].key = document[c][d].key
    BY <2>2 DEF Verified, DocumentRow
  <2>4. \A b \in Company : document'[b] = IF b = c THEN row ELSE document[b]
    BY <2>1, <2>2
  <2> HIDE DEF row
  <2> QED  BY <2>1, <2>3, <2>4, OthersKeepFiles
<1>5. CASE FilesStep
  <2>1. /\ UNCHANGED <<document, request>> /\ promoted \subseteq promoted'
        /\ \A f \in Upload : staged[f] = "gone" => staged'[f] = "gone"
    BY <1>5 DEF FilesStep, Stage, PurgeStaging, CopyDocument, tables, RowsInv, RowsTypeOK
  <2> QED  BY <2>1, OthersKeepFiles
<1> QED  BY <1>1, <1>2, <1>3, <1>4, <1>5, KindsOfSteps, RequestMovesFiles, RequestEndsFiles

LEMMA FilesHold == Spec => [](RowsInv /\ FilesKept)
<1>1. RowsInv /\ FilesKept /\ [Next]_vars => (RowsInv /\ FilesKept)'
  BY RowsStep, FilesKeptStep
<1> QED  BY <1>1, RowsInvStart, FilesKeptStart, PTL DEF Spec

(* Every document has its file, though requests may copy one upload twice, *)
(* the purge takes uploads away and a failed request removes what it moved *)
(* (FilesystemStorageProvider.move, rollbackPromotedDocuments).            *)
THEOREM DocumentHasFile == Spec => []RowHasFile
<1>1. FilesKept => RowHasFile
  BY DEF FilesKept, RowsKept, Kept, RowHasFile
<1> QED  BY <1>1, FilesHold, PTL

-----------------------------------------------------------------------------

(* What an active company needs was seen to before it became active: what  *)
(* its provisioning found stays, and the account of its contact, which an  *)
(* application names, is its own.                                          *)
Provisioned(c) == /\ \E p \in Contact : account[p] = c
                  /\ \A k \in Needed(c) : history[k] # <<>>

ProvisionInv ==
  \A c \in Company : /\ company[c].status = "pending" => company[c].contact \in Contact
                     /\ Active(c) => Provisioned(c)

LEMMA ProvisionInvStart == Init => ProvisionInv
  BY DEF Init, ProvisionInv, Active

LEMMA OthersStayProvisioned ==
  ASSUME ProvisionInv, VersionsInv, [Next]_vars, NEW c \in Company, Provisioned(c),
         \A p \in Contact : account[p] = c => account'[p] = c
  PROVE  (\E p \in Contact : account'[p] = c) /\ \A k \in Needed(c) : history'[k] # <<>>
<1>1. Needed(c) \subseteq Key
  BY NeededAreKeys
<1> HIDE DEF Needed
<1>2. [VersionsNext]_versionVars
  BY StepOfVersions
<1>3. \A k \in Needed(c) : history[k] # <<>>
  BY DEF Provisioned
<1>4. \A k \in Needed(c) : history'[k] # <<>>
  BY <1>1, <1>2, <1>3, HistoryGrows
<1> QED  BY <1>4 DEF Provisioned

LEMMA Activation ==
  ASSUME RowsInv, ProvisionInv, VersionsInv, PlanFollowed, [Next]_vars,
         NEW x \in Txn, NEW c \in Company, NEW p \in Contact, NEW row,
         txn[x].company = c, Commit(x), FinishProvisioning(c, p),
         company' = [company EXCEPT ![c] = row], row.status = "active"
  PROVE  ProvisionInv'
<1>1. \A b \in Company : company'[b] = IF b = c THEN row ELSE company[b]
  BY DEF RowsInv, RowsTypeOK
<1>2. account[p] = None /\ \A q \in Contact : account'[q] = IF q = p THEN c ELSE account[q]
  BY DEF FinishProvisioning, RowsInv, RowsTypeOK
<1>3. c # None /\ None \notin Company
  BY VersionsAssumption
<1>4. \A k \in Needed(c) : history'[k] # <<>>
  <2>1. txn[x].at = "ready" /\ txn[x].todo = <<>>
    BY DEF Commit, PlanFollowed
  <2>2. \A k \in Needed(c) : k \in Key
    BY NeededAreKeys
  <2>3. \A k \in Needed(c) : history[k] # <<>> \/ pending[x][k] # None
    BY <1>3, <2>1 DEF PlanFollowed, Configured, ToSet
  <2> HIDE DEF Needed
  <2>4. \A k \in Key : history'[k] = IF Holds(x, k) THEN Amended(history[k], pending[x][k])
                                                    ELSE history[k]
    BY DEF Commit
  <2>5. ASSUME NEW k \in Key, Holds(x, k) PROVE Amended(history[k], pending[x][k]) # <<>>
    BY <2>5, HeldIsAmended
  <2> HIDE DEF Amended
  <2> QED  BY <2>2, <2>3, <2>4, <2>5 DEF Holds
<1>5. ASSUME NEW b \in Company, company'[b].status = "active"
      PROVE  (\E q \in Contact : account'[q] = b) /\ \A k \in Needed(b) : history'[k] # <<>>
  <2>1. CASE b = c
    BY <1>2, <1>4, <2>1
  <2>2. CASE b # c
    <3>1. Provisioned(b)
      BY <1>1, <1>5, <2>2 DEF ProvisionInv, Active
    <3>2. \A q \in Contact : account[q] = b => account'[q] = b
      BY <1>2, <1>3
    <3> QED  BY <3>1, <3>2, OthersStayProvisioned
  <2> QED  BY <2>1, <2>2
<1>6. \A b \in Company : company'[b].status = "pending" => company'[b].contact \in Contact
  BY <1>1 DEF ProvisionInv
<1> QED  BY <1>5, <1>6 DEF ProvisionInv, Provisioned, Active, Needed, Commission

LEMMA ProvisionStep ==
  ASSUME RowsInv, ProvisionInv, VersionsInv, PlanFollowed, [Next]_vars
  PROVE  ProvisionInv'
<1>1. ASSUME UNCHANGED account,
             \A c \in Company : \/ company'[c] = company[c]
                                \/ /\ company'[c].status # "active"
                                   /\ company'[c].status = "pending" =>
                                        company'[c].contact \in Contact
      PROVE  ProvisionInv'
  <2>1. ASSUME NEW c \in Company, company'[c].status = "active"
        PROVE  (\E q \in Contact : account'[q] = c) /\ \A k \in Needed(c) : history'[k] # <<>>
    <3>1. Provisioned(c)
      BY <1>1, <2>1 DEF ProvisionInv, Active
    <3> QED  BY <1>1, <3>1, OthersStayProvisioned
  <2>2. \A c \in Company : company'[c].status = "pending" => company'[c].contact \in Contact
    BY <1>1 DEF ProvisionInv
  <2> QED  BY <2>1, <2>2 DEF ProvisionInv, Provisioned, Active, Needed, Commission
<1>2. ASSUME NEW h \in Handler, RequestMoves(h) PROVE UNCHANGED <<company, account>>
  BY <1>2 DEF RequestMoves, BeginSubmission, BeginReplacement, BeginRequestDocuments, MovesDone,
              FindPendingCompany, RemoveStaged, tables
<1>3. ASSUME NEW h \in Handler, RollbackPromoted(h) \/ ReplaceSingleDocument(h) \/ RequestDocuments(h)
      PROVE  UNCHANGED <<company, account>>
  BY <1>3 DEF RollbackPromoted, ReplaceSingleDocument, RequestDocuments, tables
<1>4. FilesStep \/ UNCHANGED affiliationVars => UNCHANGED <<company, account>>
  BY DEF FilesStep, Stage, PurgeStaging, CopyDocument, affiliationVars, tables
<1>5. ASSUME NEW h \in Handler, UpsertPendingCompany(h) PROVE ProvisionInv'
  <2> DEFINE c == request[h].company
             row == [status |-> "pending", registered |-> company[c].registered + 1,
                     contact |-> request[h].contact]
  <2>1. request[h].at = "submitting" /\ UNCHANGED account /\ company' = [company EXCEPT ![c] = row]
    BY <1>5 DEF UpsertPendingCompany
  <2>2. request[h].contact \in Contact
    BY <2>1, AboutCompany DEF RowsInv, Fits, Request
  <2>3. row.status = "pending" /\ row.contact \in Contact
    BY <2>2
  <2> HIDE DEF row, c
  <2>4. \A b \in Company : company'[b] = company[b] \/ company'[b] = row
    BY <2>1 DEF RowsInv, RowsTypeOK
  <2> QED  BY <1>1, <2>1, <2>3, <2>4
<1>6. ASSUME NEW c \in Company, RejectCompany(c) PROVE ProvisionInv'
  <2>1. UNCHANGED account /\ company' = [company EXCEPT ![c].status = "rejected"]
    BY <1>6 DEF RejectCompany
  <2>2. \A b \in Company : company'[b] = company[b] \/ company'[b].status = "rejected"
    BY <2>1 DEF RowsInv, RowsTypeOK, CompanyRow
  <2> QED  BY <1>1, <2>1, <2>2
<1>7. ASSUME NEW x \in Txn, NEW c \in Company, CommitApproval(x, c) PROVE ProvisionInv'
  <2> DEFINE row == [company[c] EXCEPT !.status = "active"]
  <2>1. /\ txn[x].company = c /\ company[c].status = "pending" /\ Commit(x)
        /\ FinishProvisioning(c, company[c].contact)
        /\ company' = [company EXCEPT ![c] = row] /\ company[c] \in CompanyRow
    BY <1>7 DEF CommitApproval, RowsInv, RowsTypeOK
  <2>2. company[c].contact \in Contact
    BY <2>1 DEF ProvisionInv
  <2>3. row.status = "active"
    BY <2>1 DEF CompanyRow
  <2> HIDE DEF row
  <2> QED  BY <2>1, <2>2, <2>3, Activation
<1>8. ASSUME NEW x \in Txn, NEW c \in Company, NEW p \in Contact, CommitProvisionNew(x, c, p)
      PROVE  ProvisionInv'
  BY <1>8, Activation DEF CommitProvisionNew
<1> QED
  BY <1>1, <1>2, <1>3, <1>4, <1>5, <1>6, <1>7, <1>8, KindsOfSteps DEF RequestEnds

LEMMA ProvisionHolds == Spec => [](RowsInv /\ ProvisionInv /\ VersionsInv /\ PlanFollowed)
<1>1. Spec => [](VersionsInv /\ PlanFollowed)
  BY AffiliationKeepsVersions, PlanHolds, PTL
<1>2. RowsInv /\ ProvisionInv /\ VersionsInv /\ PlanFollowed /\ [Next]_vars
        => (RowsInv /\ ProvisionInv)'
  BY RowsStep, ProvisionStep
<1> QED  BY <1>1, <1>2, RowsInvStart, ProvisionInvStart, PTL DEF Spec

(* An active company can work: an account administers it, it has an open   *)
(* commission, and its town open fares and parameters for its services,    *)
(* whatever other approvals and edits happen meanwhile (approve,           *)
(* finishProvisioning, ensureForApproval).                                 *)
THEOREM ActiveProvisioned == Spec => []ActiveIsProvisioned
<1>1. ProvisionInv /\ VersionsInv => ActiveIsProvisioned
  <2> SUFFICES ASSUME ProvisionInv, VersionsInv, NEW c \in Company, Active(c)
               PROVE  /\ \E p \in Contact : account[p] = c
                      /\ Current(Commission(c)) # 0
                      /\ \A s \in ToSet(Declared[c]), kind \in {"fare", "params"} :
                           Current(<<kind, TownOf[c], s>>) # 0
    BY DEF ActiveIsProvisioned
  <2>1. Provisioned(c)
    BY DEF ProvisionInv
  <2>2. ASSUME NEW k \in Needed(c) PROVE Current(k) # 0
    BY <2>1, <2>2, NeededAreKeys, CurrentMeansOpen DEF Provisioned, VersionsInv
  <2> HIDE DEF Commission, Current
  <2> QED  BY <2>1, <2>2 DEF Provisioned, Needed
<1> QED  BY <1>1, ProvisionHolds, PTL

-----------------------------------------------------------------------------
(* What is told of an affiliation. Whoever is asked for documents again    *)
(* was sent a link already, so that a notice that is sent again changes    *)
(* nothing, and the steps of CompanyNotices are steps of Affiliation.      *)

NoticesTyped ==
  /\ covered \in [Town -> BOOLEAN]
  /\ lastReview \in [Company -> CompanyDecision \cup {None}]
  /\ contactAdmin \in [Company -> Contact \cup {None}]
  /\ password \in [Contact -> 0..MaxPasswords]
  /\ issued \in 0..MaxPasswords /\ handed \subseteq 1..MaxPasswords
  /\ desk \in [Clerk -> Desk]

AskedAreLinked == \A c \in Company : lastReview[c] = "documents_requested" => c \in linked

(* What a clerk does is about a company, and the links that he was shown   *)
(* are to documents that exist.                                            *)
DeskFits(t) ==
  /\ t.at \notin {"idle", "listing", "listed"} => t.company \in Company
  /\ t.at = "resending" /\ t.last = "documents_requested" => t.company \in linked
  /\ t.at = "viewing" => t.reads \in 0..2
  /\ t.at \in {"viewing", "viewed"} =>
       \A d \in t.view[t.company].links : document[t.company][d] # None

NoticesInv ==
  RowsInv /\ NoticesTyped /\ AskedAreLinked /\ \A k \in Clerk : DeskFits(desk[k])

LEMMA IdleDeskTyped ==
  /\ NoView \in CompanyView
  /\ IdleDesk \in Desk
  BY DEF IdleDesk, Desk, NoView, CompanyView

LEMMA NoticesStart == NoticesInit => NoticesInv
<1> SUFFICES ASSUME NoticesInit PROVE NoticesInv
  OBVIOUS
<1>1. RowsInv
  BY RowsInvStart DEF NoticesInit
<1>2. desk \in [Clerk -> Desk] /\ \A k \in Clerk : desk[k].at = "idle"
  BY IdleDeskTyped DEF NoticesInit, IdleDesk
<1>3. NoticesTyped
  BY <1>2, NoticesAssumption DEF NoticesInit, NoticesTyped
<1>4. AskedAreLinked
  <2>1. \A c \in Company : lastReview[c] = None
    BY DEF NoticesInit
  <2> QED  BY <2>1, NoticesAssumption DEF AskedAreLinked, CompanyDecision
<1>5. \A k \in Clerk : DeskFits(desk[k])
  BY <1>2 DEF DeskFits
<1> QED  BY <1>1, <1>3, <1>4, <1>5 DEF NoticesInv

LEMMA LinkedGrows == [Next]_vars => linked \subseteq linked'
<1> SUFFICES ASSUME [Next]_vars PROVE linked \subseteq linked'
  OBVIOUS
<1>1. ASSUME NEW h \in Handler, RequestMoves(h) PROVE UNCHANGED linked
  BY <1>1 DEF RequestMoves, BeginSubmission, BeginReplacement, BeginRequestDocuments, MovesDone,
              FindPendingCompany, RemoveStaged
<1>2. ASSUME NEW h \in Handler, RequestEnds(h) PROVE linked \subseteq linked'
  BY <1>2 DEF RequestEnds, RollbackPromoted, UpsertPendingCompany, ReplaceSingleDocument,
              RequestDocuments
<1>3. FilesStep \/ UNCHANGED affiliationVars => UNCHANGED linked
  BY DEF FilesStep, Stage, PurgeStaging, CopyDocument, affiliationVars
<1>4. ASSUME NEW c \in Company,
             \/ RejectCompany(c)
             \/ \E x \in Txn : CommitApproval(x, c) \/ \E p \in Contact : CommitProvisionNew(x, c, p)
      PROVE  UNCHANGED linked
  BY <1>4 DEF RejectCompany, CommitApproval, CommitProvisionNew
<1> QED  BY <1>1, <1>2, <1>3, <1>4, KindsOfSteps

(* To Affiliation every step is one of its own, or none.                   *)
LEMMA NoticesAreSteps ==
  ASSUME NoticesInv, [NoticesNext]_noticedVars
  PROVE  [Next]_vars
<1>1. ASSUME Silently PROVE Next
  BY <1>1 DEF Silently, Next
<1>2. ASSUME Deciding PROVE Next
  <2>1. ASSUME NEW x \in Txn, NEW c \in Company, Approve(x, c) PROVE Next
    <3>1. CommitApproval(x, c)
      BY <2>1 DEF Approve
    <3> QED  BY <3>1 DEF Next
  <2>2. ASSUME NEW x \in Txn, NEW c \in Company, NEW p \in Contact, ProvisionNew(x, c, p) PROVE Next
    <3>1. CommitProvisionNew(x, c, p)
      BY <2>2 DEF ProvisionNew
    <3> QED  BY <3>1 DEF Next
  <2>3. ASSUME NEW c \in Company, Reject(c) PROVE Next
    <3>1. RejectCompany(c)
      BY <2>3 DEF Reject
    <3> QED  BY <3>1 DEF Next
  <2>4. ASSUME NEW h \in Handler, AskForDocuments(h) PROVE Next
    <3>1. RequestDocuments(h)
      BY <2>4 DEF AskForDocuments
    <3> QED  BY <3>1 DEF Next
  <2> QED  BY <1>2, <2>1, <2>2, <2>3, <2>4 DEF Deciding
<1>3. ASSUME NEW k \in Clerk, ResendNotification(k) PROVE UNCHANGED vars
  <2>1. UNCHANGED <<versionVars, tables, files, request>>
    BY <1>3 DEF ResendNotification
  <2>2. UNCHANGED linked
    BY <1>3 DEF ResendNotification, NewLink, NoticesInv, DeskFits
  <2> QED  BY <2>1, <2>2 DEF vars, affiliationVars, tables, files
<1>4. ASSUME NEW k \in Clerk, Console(k) PROVE UNCHANGED vars
  <2>1. ASSUME NEW c \in Company, GetLastReview(k, c) \/ OpenDetail(k, c) PROVE UNCHANGED vars
    BY <2>1 DEF GetLastReview, OpenDetail
  <2>2. ASSUME NEW d \in DocType, Download(k, d) PROVE UNCHANGED vars
    BY <2>2 DEF Download
  <2>3. ASSUME NEW status, List(k, status) PROVE UNCHANGED vars
    BY <2>3 DEF List
  <2>4. ASSUME ReissueCredentials(k) \/ ReadDetail(k) \/ FindApprovalDates(k) \/ LeaveDesk(k)
        PROVE  UNCHANGED vars
    BY <2>4 DEF ReissueCredentials, ReadDetail, FindApprovalDates, LeaveDesk
  <2> QED  BY <1>3, <1>4, <2>1, <2>2, <2>3, <2>4 DEF Console
<1>5. ASSUME Apart PROVE UNCHANGED vars
  <2>1. ASSUME NEW m \in outbox, SendSafely(m) PROVE UNCHANGED vars
    BY <2>1 DEF SendSafely
  <2>2. ASSUME NEW p \in Contact, RotateStaffPassword(p) PROVE UNCHANGED vars
    BY <2>2 DEF RotateStaffPassword
  <2>3. ASSUME NEW t \in Town, ChangeCoverage(t) PROVE UNCHANGED vars
    BY <2>3 DEF ChangeCoverage
  <2> QED  BY <1>4, <1>5, <2>1, <2>2, <2>3 DEF Apart
<1>6. UNCHANGED noticedVars => UNCHANGED vars
  BY DEF noticedVars
<1> QED  BY <1>1, <1>2, <1>5, <1>6 DEF NoticesNext

(* A document is written anew, and never taken away.                       *)
LEMMA DocumentsStay ==
  ASSUME RowsInv, [Next]_vars, NEW c \in Company, NEW d \in DocType, document[c][d] # None
  PROVE  document'[c][d] # None
<1>1. /\ document \in [Company -> [DocType -> DocumentRow \cup {None}]]
      /\ document[c][d] \in DocumentRow /\ None \notin DocumentRow
  BY NoticesAssumption DEF RowsInv, RowsTypeOK
<1>2. ASSUME NEW h \in Handler, RequestMoves(h) \/ RollbackPromoted(h) PROVE UNCHANGED document
  BY <1>2 DEF RequestMoves, BeginSubmission, BeginReplacement, BeginRequestDocuments, MovesDone,
              FindPendingCompany, RemoveStaged, RollbackPromoted, tables
<1>3. ASSUME NEW h \in Handler, UpsertPendingCompany(h) PROVE document'[c][d] # None
  <2> DEFINE b == request[h].company
  <2>1. document' = [document EXCEPT ![b] = DocumentsOf(h)] /\ request[h].at = "submitting"
    BY <1>3 DEF UpsertPendingCompany
  <2>2. /\ request[h] \in Request /\ Decisions(b) \in Nat
        /\ \A e \in DocType : request[h].files[e] \in Upload
    BY <2>1, AboutCompany DEF RowsInv, Fits
  <2>3. request[h].asOf \in Nat
    BY <2>2 DEF Request
  <2>4. DocumentsOf(h)[d] \in DocumentRow
    BY <2>2, <2>3 DEF DocumentsOf, DocumentRow, FileKey
  <2>5. document'[c][d] \in {document[c][d], DocumentsOf(h)[d]}
    BY <1>1, <2>1
  <2> QED  BY <1>1, <2>4, <2>5
<1>4. ASSUME NEW h \in Handler, ReplaceSingleDocument(h) PROVE document'[c][d] # None
  <2> DEFINE b == request[h].company
             new(e) == [key |-> CompanyDocumentKey(h, request[h].files[e]), state |-> "pending",
                        asOf |-> request[h].asOf, since |-> Decisions(b)]
  <2>1. /\ document' = [document EXCEPT ![b] = [e \in DocType |-> IF e \in request[h].types
                                                              THEN new(e) ELSE @[e]]]
        /\ request[h].at = "upserting"
    BY <1>4 DEF ReplaceSingleDocument
  <2>2. /\ request[h] \in Request /\ Decisions(b) \in Nat
        /\ \A e \in request[h].types : request[h].files[e] \in Upload
    BY <2>1, AboutCompany DEF RowsInv, Fits
  <2>3. request[h].asOf \in Nat
    BY <2>2 DEF Request
  <2>4. d \in request[h].types => new(d) \in DocumentRow
    BY <2>2, <2>3 DEF DocumentRow, FileKey
  <2> HIDE DEF new
  <2>5. \/ document'[c][d] = document[c][d]
        \/ d \in request[h].types /\ document'[c][d] = new(d)
    BY <1>1, <2>1
  <2> QED  BY <1>1, <2>4, <2>5
<1>8. ASSUME NEW h \in Handler, RequestDocuments(h) PROVE document'[c][d] # None
  <2> DEFINE b == request[h].company
             asked(row) == [row EXCEPT !.state = "rejected", !.asOf = request[h].asOf,
                                       !.since = Decisions(b)]
  <2>1. /\ document' = [document EXCEPT ![b] = [e \in DocType |->
                          IF e \in request[h].types /\ @[e] # None THEN asked(@[e]) ELSE @[e]]]
        /\ request[h].at = "requesting"
    BY <1>8 DEF RequestDocuments
  <2>2. request[h] \in Request /\ Decisions(b) \in Nat
    BY <2>1, AboutCompany DEF RowsInv
  <2>3. request[h].asOf \in Nat
    BY <2>2 DEF Request
  <2>4. asked(document[c][d]) \in DocumentRow
    BY <1>1, <2>2, <2>3 DEF DocumentRow
  <2> HIDE DEF asked
  <2>5. document'[c][d] \in {document[c][d], asked(document[c][d])}
    BY <1>1, <2>1
  <2> QED  BY <1>1, <2>4, <2>5
<1>5. ASSUME NEW x \in Txn, NEW b \in Company, CommitApproval(x, b) PROVE document'[c][d] # None
  <2>1. document' = [document EXCEPT ![b] = [e \in DocType |-> Verified(document[b][e])]]
    BY <1>5 DEF CommitApproval
  <2>2. Verified(document[c][d]) \in DocumentRow
    BY <1>1 DEF Verified, DocumentRow
  <2>3. document'[c][d] \in {document[c][d], Verified(document[c][d])}
    BY <1>1, <2>1
  <2> QED  BY <1>1, <2>2, <2>3
<1>6. FilesStep \/ UNCHANGED affiliationVars => UNCHANGED document
  BY DEF FilesStep, Stage, PurgeStaging, CopyDocument, affiliationVars, tables
<1>7. ASSUME NEW b \in Company,
             RejectCompany(b) \/ \E x \in Txn, p \in Contact : CommitProvisionNew(x, b, p)
      PROVE  UNCHANGED document
  BY <1>7 DEF RejectCompany, CommitProvisionNew
<1> QED
  BY <1>1, <1>2, <1>3, <1>4, <1>5, <1>6, <1>7, <1>8, KindsOfSteps DEF RequestEnds

(* The console.                                                            *)

LEMMA ViewsTyped ==
  ASSUME NoticesInv, NEW c \in Company, NEW view \in CompanyView
  PROVE  /\ RowOf(c) \in CompanyView
         /\ GetDetail(view, c) \in CompanyView
         /\ WithDetails(view, c) \in CompanyView
         /\ WithApproval(view, c) \in CompanyView
<1>1. company[c] \in CompanyRow /\ covered[TownOf[c]] \in BOOLEAN
  BY VersionsAssumption DEF NoticesInv, NoticesTyped, RowsInv, RowsTypeOK
<1>2. ListReviews(c) \subseteq CompanyDecision
  <2>1. review[c] \in Seq({"approved", "rejected", "documents_requested"})
    BY DEF NoticesInv, RowsInv, RowsTypeOK
  <2>2. \A i \in DOMAIN review[c] : review[c][i] \in {"approved", "rejected", "documents_requested"}
    BY <2>1
  <2> QED  BY <2>2 DEF ListReviews, ToSet, CompanyDecision
<1>3. ListDocuments(c) \subseteq DocType
  BY DEF ListDocuments
<1>4. RowOf(c) \in CompanyView
  BY <1>1 DEF RowOf, NoView, CompanyView, CompanyRow
<1>5. GetDetail(view, c) \in CompanyView
  <2> DEFINE row == RowOf(c)
  <2>1. row \in CompanyView
    BY <1>4
  <2> HIDE DEF row
  <2>2. [view EXCEPT !.status = row.status, !.applied = row.applied, !.covered = row.covered]
          \in CompanyView
    BY <2>1 DEF CompanyView
  <2> QED  BY <2>2 DEF GetDetail, row
<1>6. Signed(view, c) \in CompanyView
  BY <1>1, <1>3 DEF Signed, CompanyView, CompanyRow
<1>7. WithDetails(view, c) \in CompanyView
  <2> DEFINE ready == \A key \in Needed(c) : Current(key) # 0
  <2>1. ready \in BOOLEAN
    OBVIOUS
  <2> HIDE DEF ready
  <2>2. [Signed(view, c) EXCEPT !.decisions = ListReviews(c), !.configured = ready] \in CompanyView
    BY <1>2, <1>6, <2>1 DEF CompanyView
  <2> QED  BY <2>2 DEF WithDetails, ready
<1>8. WithApproval(view, c) \in CompanyView
  BY DEF WithApproval, Awaits, CompanyView
<1> QED  BY <1>4, <1>5, <1>7, <1>8

LEMMA OneDesk ==
  ASSUME NoticesInv, NEW k \in Clerk, NEW t \in Desk, desk' = [desk EXCEPT ![k] = t]
  PROVE  /\ desk' \in [Clerk -> Desk]
         /\ \A j \in Clerk : desk'[j] = IF j = k THEN t ELSE desk[j]
  BY DEF NoticesInv, NoticesTyped

(* A clerk's record with some fields changed, written out.                 *)
LEMMA DeskChanges ==
  ASSUME NEW t \in Desk, NEW n, NEW v, NEW a
  PROVE  [t EXCEPT !.reads = n, !.view = v, !.at = a]
           = [at |-> a, company |-> t.company, reads |-> n, view |-> v, last |-> t.last,
              key |-> t.key]
<1> DEFINE A == t.at
           B == t.company
           D == t.view
           E == t.last
           F == t.key
           r == [t EXCEPT !.reads = n]
           s == [r EXCEPT !.view = v]
           u == [s EXCEPT !.at = a]
<1>1. r = [at |-> A, company |-> B, reads |-> n, view |-> D, last |-> E, key |-> F]
  BY DEF Desk
<1>2. [t EXCEPT !.reads = n, !.view = v, !.at = a] = u
  OBVIOUS
<1> HIDE DEF r, A, B, D, E, F
<1>3. s = [at |-> A, company |-> B, reads |-> n, view |-> v, last |-> E, key |-> F]
  BY <1>1
<1> HIDE DEF s
<1>4. u = [at |-> a, company |-> B, reads |-> n, view |-> v, last |-> E, key |-> F]
  BY <1>3
<1> HIDE DEF u
<1> QED  BY <1>2, <1>4 DEF B, E, F

(* The view that the next read makes.                                      *)
NextView(k) ==
  LET c == desk[k].company
      view == desk[k].view[c]
  IN  IF desk[k].reads = 0 THEN GetDetail(view, c)
      ELSE IF desk[k].reads = 1 THEN WithDetails(view, c) ELSE WithApproval(view, c)

Reading(k) ==
  [at |-> IF desk[k].reads = 2 THEN "viewed" ELSE "viewing", company |-> desk[k].company,
   reads |-> desk[k].reads + 1,
   view |-> [desk[k].view EXCEPT ![desk[k].company] = NextView(k)],
   last |-> desk[k].last, key |-> desk[k].key]

LEMMA DetailRead ==
  ASSUME NoticesInv, NEW k \in Clerk, ReadDetail(k)
  PROVE  /\ desk[k].at = "viewing" /\ desk[k].company \in Company /\ desk[k].reads \in 0..2
         /\ desk' = [desk EXCEPT ![k] = Reading(k)]
         /\ Reading(k) \in Desk /\ NextView(k) \in CompanyView
<1> DEFINE c == desk[k].company
           view == desk[k].view[c]
           n == desk[k].reads
<1>1. desk[k].at = "viewing" /\ desk[k] \in Desk /\ c \in Company /\ n \in 0..2
  BY DEF ReadDetail, NoticesInv, NoticesTyped, DeskFits
<1>2. view \in CompanyView /\ desk[k].view \in [Company -> CompanyView]
  BY <1>1 DEF Desk
<1>3. NextView(k) \in CompanyView
  BY <1>1, <1>2, ViewsTyped DEF NextView
<1>4. RowFirst(k)[n + 1] = IF n = 0 THEN "row" ELSE IF n = 1 THEN "details" ELSE "approval"
  BY <1>1 DEF RowFirst
<1> DEFINE what == RowFirst(k)[n + 1]
           v == CASE what = "row" -> GetDetail(view, c)
                  [] what = "details" -> WithDetails(view, c)
                  [] what = "approval" -> WithApproval(view, c)
<1>5. v = NextView(k)
  BY <1>1, <1>4 DEF NextView
<1>6. desk' = [desk EXCEPT ![k].reads = @ + 1, ![k].view[c] = v,
                           ![k].at = IF n = 2 THEN "viewed" ELSE "viewing"]
  BY DEF ReadDetail
<1> DEFINE w == NextView(k)
           t == [desk[k] EXCEPT !.reads = @ + 1, !.view[c] = w,
                                !.at = IF n = 2 THEN "viewed" ELSE "viewing"]
<1> HIDE DEF v, what, w
<1>7. desk' = [desk EXCEPT ![k] = t]
  BY <1>5, <1>6 DEF w, NoticesInv, NoticesTyped
<1>8. t = Reading(k)
  <2> DEFINE views == [desk[k].view EXCEPT ![c] = w]
  <2>1. t = [desk[k] EXCEPT !.reads = n + 1, !.view = views,
                            !.at = IF n = 2 THEN "viewed" ELSE "viewing"]
    BY <1>1 DEF Desk
  <2> DEFINE a == IF n = 2 THEN "viewed" ELSE "viewing"
             m == n + 1
  <2> HIDE DEF views, t, a, m
  <2>2. t = [desk[k] EXCEPT !.reads = m, !.view = views, !.at = a]
    BY <2>1 DEF a, m
  <2>3. t = [at |-> a, company |-> c, reads |-> m, view |-> views, last |-> desk[k].last,
             key |-> desk[k].key]
    BY <1>1, <2>2, DeskChanges
  <2> QED  BY <2>3 DEF Reading, w, views, a, m
<1>9. Reading(k) \in Desk
  BY <1>1, <1>2, <1>3 DEF Reading, Desk
<1> QED  BY <1>1, <1>3, <1>7, <1>8, <1>9

Asking(c) == [IdleDesk EXCEPT !.at = "resending", !.company = c, !.last = lastReview[c]]

Opening(c) == [IdleDesk EXCEPT !.at = "viewing", !.company = c]

Fetching(k, d) ==
  [desk[k] EXCEPT !.at = "fetching", !.key = document[desk[k].company][d].key]

Listing(status) == [IdleDesk EXCEPT !.at = "listing", !.view = ListCompanies(status)]

Listed(k) ==
  [desk[k] EXCEPT !.at = "listed", !.view = [c \in Company |-> WithApproval(@[c], c)]]

(* What a clerk may go on to, in one step.                                 *)
Turns(k, t) ==
  \/ t = IdleDesk
  \/ \E c \in Company : lastReview[c] # None /\ t = Asking(c)
  \/ \E c \in Company : t = Opening(c)
  \/ ReadDetail(k) /\ t = Reading(k)
  \/ \E d \in DocType : /\ desk[k].at = "viewed" /\ d \in desk[k].view[desk[k].company].links
                        /\ t = Fetching(k, d)
  \/ \E status : t = Listing(status)
  \/ desk[k].at = "listing" /\ t = Listed(k)

LEMMA ConsoleTurns ==
  ASSUME NoticesInv, NEW k \in Clerk, Console(k)
  PROVE  \E t : Turns(k, t) /\ desk' = [desk EXCEPT ![k] = t]
<1>1. ASSUME NEW c \in Company, GetLastReview(k, c)
      PROVE  \E t : Turns(k, t) /\ desk' = [desk EXCEPT ![k] = t]
  BY <1>1 DEF GetLastReview, Turns, Asking
<1>2. ASSUME NEW c \in Company, OpenDetail(k, c)
      PROVE  \E t : Turns(k, t) /\ desk' = [desk EXCEPT ![k] = t]
  BY <1>2 DEF OpenDetail, Turns, Opening
<1>3. ASSUME ResendNotification(k) \/ ReissueCredentials(k) \/ LeaveDesk(k)
      PROVE  \E t : Turns(k, t) /\ desk' = [desk EXCEPT ![k] = t]
  BY <1>3 DEF ResendNotification, ReissueCredentials, LeaveDesk, Turns
<1>4. ASSUME ReadDetail(k)
      PROVE  \E t : Turns(k, t) /\ desk' = [desk EXCEPT ![k] = t]
  BY <1>4, DetailRead DEF Turns
<1>5. ASSUME NEW d \in DocType, Download(k, d)
      PROVE  \E t : Turns(k, t) /\ desk' = [desk EXCEPT ![k] = t]
  <2>1. desk' = [desk EXCEPT ![k] = Fetching(k, d)]
    BY <1>5 DEF Download, Fetching, NoticesInv, NoticesTyped
  <2>2. desk[k].at = "viewed" /\ d \in desk[k].view[desk[k].company].links
    BY <1>5 DEF Download, Verifies
  <2> QED  BY <2>1, <2>2 DEF Turns
<1>6. ASSUME NEW status, List(k, status)
      PROVE  \E t : Turns(k, t) /\ desk' = [desk EXCEPT ![k] = t]
  BY <1>6 DEF List, Turns, Listing
<1>7. ASSUME FindApprovalDates(k)
      PROVE  \E t : Turns(k, t) /\ desk' = [desk EXCEPT ![k] = t]
  <2>1. desk' = [desk EXCEPT ![k] = Listed(k)] /\ desk[k].at = "listing"
    BY <1>7 DEF FindApprovalDates, Listed, NoticesInv, NoticesTyped
  <2> QED  BY <2>1 DEF Turns
<1> QED  BY <1>1, <1>2, <1>3, <1>4, <1>5, <1>6, <1>7 DEF Console

LEMMA TurnsTyped ==
  ASSUME NoticesInv, NEW k \in Clerk, NEW t, Turns(k, t)
  PROVE  t \in Desk /\ DeskFits(t)
<1> USE IdleDeskTyped
<1>1. CASE t = IdleDesk
  BY <1>1 DEF DeskFits, IdleDesk
<1>2. ASSUME NEW c \in Company, lastReview[c] # None, t = Asking(c) PROVE t \in Desk /\ DeskFits(t)
  <2>1. lastReview[c] \in CompanyDecision
    BY <1>2 DEF NoticesInv, NoticesTyped
  <2>2. t = [at |-> "resending", company |-> c, reads |-> 0, view |-> IdleDesk.view,
             last |-> lastReview[c], key |-> None]
    BY <1>2 DEF Asking, IdleDesk
  <2>3. t \in Desk
    BY <2>1, <2>2 DEF Desk, IdleDesk
  <2> QED  BY <2>2, <2>3 DEF DeskFits, NoticesInv, AskedAreLinked
<1>3. ASSUME NEW c \in Company, t = Opening(c) PROVE t \in Desk /\ DeskFits(t)
  <2>1. t = [at |-> "viewing", company |-> c, reads |-> 0, view |-> [b \in Company |-> NoView],
             last |-> None, key |-> None]
    BY <1>3 DEF Opening, IdleDesk
  <2>2. t \in Desk
    BY <2>1 DEF Desk
  <2>3. t.view[c].links = {}
    BY <2>1 DEF NoView
  <2> QED  BY <2>1, <2>2, <2>3 DEF DeskFits
<1>4. ASSUME ReadDetail(k), t = Reading(k) PROVE t \in Desk /\ DeskFits(t)
  <2> DEFINE c == desk[k].company
  <2>1. /\ desk[k].at = "viewing" /\ c \in Company /\ desk[k].reads \in 0..2
        /\ t \in Desk /\ desk[k] \in Desk
    BY <1>4, DetailRead DEF NoticesInv, NoticesTyped
  <2>2. \A d \in desk[k].view[c].links : document[c][d] # None
    BY <2>1 DEF NoticesInv, DeskFits
  <2>3. desk[k].view[c] \in CompanyView
    BY <2>1 DEF Desk
  <2>4. \A d \in NextView(k).links : document[c][d] # None
    <3>1. CASE desk[k].reads = 0
      BY <2>2, <2>3, <3>1 DEF NextView, GetDetail, CompanyView
    <3>2. CASE desk[k].reads = 1
      BY <2>3, <3>2 DEF NextView, WithDetails, Signed, CompanyView, ListDocuments
    <3>3. CASE desk[k].reads = 2
      BY <2>2, <2>3, <3>3 DEF NextView, WithApproval, CompanyView
    <3> QED  BY <2>1, <3>1, <3>2, <3>3
  <2>5. /\ t.company = c /\ t.view[c] = NextView(k)
        /\ t.at = IF desk[k].reads = 2 THEN "viewed" ELSE "viewing"
        /\ t.reads = desk[k].reads + 1
    BY <1>4, <2>1 DEF Reading, Desk
  <2> HIDE DEF c
  <2> QED  BY <2>1, <2>4, <2>5 DEF DeskFits
<1>5. ASSUME NEW d \in DocType, desk[k].at = "viewed", d \in desk[k].view[desk[k].company].links,
             t = Fetching(k, d)
      PROVE  t \in Desk /\ DeskFits(t)
  <2> DEFINE c == desk[k].company
  <2>1. c \in Company /\ desk[k] \in Desk /\ document[c][d] # None
    BY <1>5 DEF NoticesInv, NoticesTyped, DeskFits
  <2>2. document[c][d].key \in FileKey
    BY <2>1 DEF NoticesInv, RowsInv, RowsTypeOK, DocumentRow
  <2>3. t \in Desk /\ t.at = "fetching" /\ t.company = c
    BY <1>5, <2>1, <2>2 DEF Fetching, Desk
  <2> QED  BY <2>1, <2>3 DEF DeskFits
<1>6. ASSUME NEW status, t = Listing(status) PROVE t \in Desk /\ DeskFits(t)
  <2>1. \A c \in Company : RowOf(c) \in CompanyView
    BY ViewsTyped
  <2>2. ListCompanies(status) \in [Company -> CompanyView]
    BY <2>1 DEF ListCompanies
  <2>3. t \in Desk /\ t.at = "listing"
    BY <1>6, <2>2 DEF Listing, IdleDesk, Desk
  <2> QED  BY <2>3 DEF DeskFits
<1>7. ASSUME t = Listed(k) PROVE t \in Desk /\ DeskFits(t)
  <2>1. desk[k] \in Desk
    BY DEF NoticesInv, NoticesTyped
  <2>2. \A c \in Company : desk[k].view[c] \in CompanyView
    BY <2>1 DEF Desk
  <2>3. [c \in Company |-> WithApproval(desk[k].view[c], c)] \in [Company -> CompanyView]
    BY <2>2, ViewsTyped
  <2>4. t \in Desk /\ t.at = "listed"
    BY <1>7, <2>1, <2>3 DEF Listed, Desk
  <2> QED  BY <2>4 DEF DeskFits
<1> QED  BY <1>1, <1>2, <1>3, <1>4, <1>5, <1>6, <1>7 DEF Turns

LEMMA FitsStay ==
  ASSUME NoticesInv, [Next]_vars, NEW t \in Desk, DeskFits(t)
  PROVE  DeskFits(t)'
<1>1. linked \subseteq linked'
  BY LinkedGrows
<1>2. \A c \in Company, d \in DocType : document[c][d] # None => document'[c][d] # None
  BY DocumentsStay DEF NoticesInv
<1>3. \A c \in Company : t.view[c].links \subseteq DocType
  BY DEF Desk, CompanyView
<1> QED  BY <1>1, <1>2, <1>3 DEF DeskFits

LEMMA PasswordTyped ==
  ASSUME NoticesTyped, NEW p, NewPassword(p)
  PROVE  /\ password' \in [Contact -> 0..MaxPasswords]
         /\ issued + 1 \in 1..MaxPasswords /\ issued' = issued + 1
         /\ \A q \in Contact : password'[q] = IF q = p THEN issued + 1 ELSE password[q]
<1>1. /\ issued \in 0..MaxPasswords /\ issued < MaxPasswords /\ MaxPasswords \in Nat
      /\ issued' = issued + 1 /\ password' = [password EXCEPT ![p] = issued + 1]
      /\ password \in [Contact -> 0..MaxPasswords]
  BY NoticesAssumption DEF NoticesTyped, NewPassword
<1>2. issued + 1 \in 1..MaxPasswords /\ issued + 1 \in 0..MaxPasswords
  BY <1>1
<1> QED  BY <1>1, <1>2

LEMMA ReviewNoted ==
  ASSUME NoticesInv, linked \subseteq linked', NEW c \in Company, NEW d \in CompanyDecision,
         LastReview(c, d), d = "documents_requested" => c \in linked'
  PROVE  lastReview' \in [Company -> CompanyDecision \cup {None}] /\ AskedAreLinked'
<1>1. lastReview \in [Company -> CompanyDecision \cup {None}]
  BY DEF NoticesInv, NoticesTyped
<1>2. lastReview' = [lastReview EXCEPT ![c] = d]
  BY DEF LastReview
<1>3. \A b \in Company : lastReview'[b] = IF b = c THEN d ELSE lastReview[b]
  BY <1>1, <1>2
<1>4. AskedAreLinked'
  BY <1>3 DEF NoticesInv, AskedAreLinked
<1> QED  BY <1>1, <1>2, <1>4

LEMMA ContactTyped ==
  ASSUME NoticesTyped, NEW c \in Company, NEW p \in Contact \cup {None}, Admits(c, p)
  PROVE  contactAdmin' \in [Company -> Contact \cup {None}]
  BY DEF NoticesTyped, Admits

(* The clerks go on one at a time.                                         *)
LEMMA DesksFit ==
  ASSUME NoticesInv, [Next]_vars,
         UNCHANGED desk \/ \E k \in Clerk : \E t : Turns(k, t) /\ desk' = [desk EXCEPT ![k] = t]
  PROVE  desk' \in [Clerk -> Desk] /\ \A j \in Clerk : DeskFits(desk[j])'
<1>1. desk \in [Clerk -> Desk] /\ \A j \in Clerk : DeskFits(desk[j])
  BY DEF NoticesInv, NoticesTyped
<1>2. desk' \in [Clerk -> Desk] /\ \A j \in Clerk : DeskFits(desk'[j])
  <2>1. ASSUME NEW k \in Clerk, NEW t, Turns(k, t), desk' = [desk EXCEPT ![k] = t]
        PROVE  desk' \in [Clerk -> Desk] /\ \A j \in Clerk : DeskFits(desk'[j])
    <3>1. t \in Desk /\ DeskFits(t)
      BY <2>1, TurnsTyped
    <3> QED  BY <1>1, <2>1, <3>1, OneDesk
  <2> QED  BY <1>1, <2>1
<1>3. ASSUME NEW j \in Clerk PROVE DeskFits(desk[j])'
  <2>1. PICK t : t = desk'[j] /\ t \in Desk /\ DeskFits(t)
    BY <1>2
  <2>2. DeskFits(t)'
    BY <2>1, FitsStay
  <2> QED  BY <2>1, <2>2 DEF DeskFits
<1> QED  BY <1>2, <1>3

LEMMA NoticesStep ==
  ASSUME NoticesInv, [NoticesNext]_noticedVars
  PROVE  NoticesInv'
<1>1. [Next]_vars /\ linked \subseteq linked' /\ RowsInv'
  BY NoticesAreSteps, LinkedGrows, RowsStep DEF NoticesInv
<1> USE <1>1
<1>2. NoticesTyped /\ AskedAreLinked
  BY DEF NoticesInv
<1>3. ASSUME NEW x \in Txn, NEW c \in Company, Approve(x, c) PROVE NoticesInv'
  <2> DEFINE p == company[c].contact
  <2>1. p \in Contact \cup {None}
    BY DEF NoticesInv, RowsInv, RowsTypeOK, CompanyRow
  <2>2. /\ NewPassword(p) /\ Admits(c, p) /\ LastReview(c, "approved")
        /\ UNCHANGED <<covered, handed, desk>>
    BY <1>3 DEF Approve
  <2> HIDE DEF p
  <2>3. lastReview' \in [Company -> CompanyDecision \cup {None}] /\ AskedAreLinked'
    BY <2>2, ReviewNoted DEF CompanyDecision
  <2>4. NoticesTyped'
    BY <1>2, <2>1, <2>2, <2>3, PasswordTyped, ContactTyped, DesksFit DEF NoticesTyped
  <2>5. \A j \in Clerk : DeskFits(desk[j])'
    BY <2>2, DesksFit
  <2> QED  BY <2>3, <2>4, <2>5 DEF NoticesInv
<1>4. ASSUME UNCHANGED <<lastReview, desk>>, NoticesTyped' PROVE NoticesInv'
  <2>1. \A j \in Clerk : DeskFits(desk[j])'
    BY <1>4, DesksFit
  <2> QED  BY <1>2, <1>4, <2>1 DEF NoticesInv, AskedAreLinked
<1>5. ASSUME NEW c \in Company, NEW d \in {"rejected", "documents_requested"}, LastReview(c, d),
             d = "documents_requested" => c \in linked',
             UNCHANGED <<covered, passwords, desk>>
      PROVE  NoticesInv'
  <2>1. lastReview' \in [Company -> CompanyDecision \cup {None}] /\ AskedAreLinked'
    BY <1>5, ReviewNoted DEF CompanyDecision
  <2>2. NoticesTyped'
    BY <1>2, <1>5, <2>1 DEF NoticesTyped, passwords
  <2>3. \A j \in Clerk : DeskFits(desk[j])'
    BY <1>5, DesksFit
  <2> QED  BY <2>1, <2>2, <2>3 DEF NoticesInv
<1>6. ASSUME NEW x \in Txn, NEW c \in Company, NEW p \in Contact, ProvisionNew(x, c, p)
      PROVE  NoticesInv'
  <2>1. /\ NewPassword(p) /\ Admits(c, p) /\ handed' = handed \cup {issued + 1}
        /\ UNCHANGED <<covered, lastReview, desk>>
    BY <1>6 DEF ProvisionNew
  <2>2. NoticesTyped'
    BY <1>2, <2>1, PasswordTyped, ContactTyped DEF NoticesTyped
  <2> QED  BY <1>4, <2>1, <2>2
<1>7. ASSUME NEW c \in Company, Reject(c) PROVE NoticesInv'
  BY <1>5, <1>7 DEF Reject
<1>8. ASSUME NEW h \in Handler, AskForDocuments(h) PROVE NoticesInv'
  <2> DEFINE c == request[h].company
  <2>1. request[h].at = "requesting" /\ linked' = linked \cup {c}
    BY <1>8 DEF AskForDocuments, RequestDocuments
  <2>2. c \in Company
    BY <2>1, AboutCompany DEF NoticesInv, RowsInv
  <2>3. LastReview(c, "documents_requested") /\ UNCHANGED <<covered, passwords, desk>>
    BY <1>8 DEF AskForDocuments
  <2> HIDE DEF c
  <2> QED  BY <1>5, <2>1, <2>2, <2>3
<1>9. ASSUME NEW k \in Clerk, Console(k) PROVE NoticesInv'
  <2>1. \E t : Turns(k, t) /\ desk' = [desk EXCEPT ![k] = t]
    BY <1>9, ConsoleTurns
  <2>2. desk' \in [Clerk -> Desk] /\ \A j \in Clerk : DeskFits(desk[j])'
    BY <2>1, DesksFit
  <2>3. ASSUME ReissueCredentials(k) PROVE NoticesInv'
    <3> DEFINE c == desk[k].company
    <3>1. /\ desk[k].at = "resending" /\ NewPassword(contactAdmin[c])
          /\ LastReview(c, "credentials_reissued") /\ UNCHANGED <<covered, contactAdmin, handed>>
      BY <2>3 DEF ReissueCredentials
    <3>2. c \in Company
      BY <3>1 DEF NoticesInv, DeskFits
    <3> HIDE DEF c
    <3>3. lastReview' \in [Company -> CompanyDecision \cup {None}] /\ AskedAreLinked'
      BY <3>1, <3>2, ReviewNoted DEF CompanyDecision
    <3>4. NoticesTyped'
      BY <1>2, <2>2, <3>1, <3>3, PasswordTyped DEF NoticesTyped
    <3> QED  BY <2>2, <3>3, <3>4 DEF NoticesInv
  <2>4. ASSUME ~ReissueCredentials(k) PROVE NoticesInv'
    <3>1. UNCHANGED <<covered, lastReview, passwords>>
      BY <1>9, <2>4 DEF Console, GetLastReview, OpenDetail, ResendNotification, ReadDetail, Download,
                        List, FindApprovalDates, LeaveDesk
    <3>2. NoticesTyped'
      BY <1>2, <2>2, <3>1 DEF NoticesTyped, passwords
    <3> QED  BY <1>2, <2>2, <3>1, <3>2 DEF NoticesInv, AskedAreLinked
  <2> QED  BY <2>3, <2>4
<1>10. ASSUME NEW p \in Contact, RotateStaffPassword(p) PROVE NoticesInv'
  <2>1. /\ NewPassword(p) /\ handed' = handed \cup {issued + 1}
        /\ UNCHANGED <<covered, lastReview, contactAdmin, desk>>
    BY <1>10 DEF RotateStaffPassword
  <2>2. NoticesTyped'
    BY <1>2, <2>1, PasswordTyped DEF NoticesTyped
  <2> QED  BY <1>4, <2>1, <2>2
<1>11. ASSUME NEW t \in Town, ChangeCoverage(t) PROVE NoticesInv'
  <2>1. covered' = [covered EXCEPT ![t] = ~@] /\ UNCHANGED <<lastReview, passwords, desk>>
    BY <1>11 DEF ChangeCoverage
  <2>2. covered' \in [Town -> BOOLEAN]
    BY <1>2, <2>1 DEF NoticesTyped
  <2>3. NoticesTyped'
    BY <1>2, <2>1, <2>2 DEF NoticesTyped, passwords
  <2> QED  BY <1>4, <2>1, <2>3
<1>12. ASSUME UNCHANGED noticeVars \/ \E m \in outbox : SendSafely(m) PROVE NoticesInv'
  <2>1. UNCHANGED <<covered, lastReview, passwords, desk>>
    BY <1>12 DEF noticeVars, SendSafely, passwords
  <2>2. NoticesTyped'
    BY <1>2, <2>1 DEF NoticesTyped, passwords
  <2> QED  BY <1>4, <2>1, <2>2
<1>13. CASE Deciding
  BY <1>3, <1>6, <1>7, <1>8, <1>13 DEF Deciding
<1>14. CASE Apart
  BY <1>9, <1>10, <1>11, <1>12, <1>14 DEF Apart
<1>15. UNCHANGED noticedVars => UNCHANGED noticeVars
  BY DEF noticedVars
<1> QED  BY <1>12, <1>13, <1>14, <1>15 DEF NoticesNext

LEMMA NoticesHold == NoticesSpec => []NoticesInv
  BY NoticesStart, NoticesStep, PTL DEF NoticesSpec

(* What is told changes nothing of what it is about: whatever is sent, sent*)
(* again, shown or rotated, an affiliation goes on as Affiliation says, so *)
(* that what was proved of it holds here.                                  *)
THEOREM NoticesAffiliate == NoticesSpec => Spec
<1>1. NoticesInit => Init
  BY DEF NoticesInit
<1>2. NoticesInv /\ [NoticesNext]_noticedVars => [Next]_vars
  BY NoticesAreSteps
<1> QED  BY <1>1, <1>2, NoticesHold, PTL DEF NoticesSpec, Spec

(* The clerks go on one at a time.                                         *)
LEMMA DesksTurn ==
  ASSUME NoticesInv, [NoticesNext]_noticedVars
  PROVE  UNCHANGED desk \/ \E k \in Clerk : \E t : Turns(k, t) /\ desk' = [desk EXCEPT ![k] = t]
<1>1. ASSUME NEW k \in Clerk, Console(k) PROVE \E t : Turns(k, t) /\ desk' = [desk EXCEPT ![k] = t]
  BY <1>1, ConsoleTurns
<1>2. CASE Deciding
  BY <1>2 DEF Deciding, Approve, ProvisionNew, Reject, AskForDocuments
<1>3. ASSUME ~ \E k \in Clerk : Console(k), Apart PROVE UNCHANGED desk
  BY <1>3 DEF Apart, SendSafely, RotateStaffPassword, ChangeCoverage
<1>4. UNCHANGED noticeVars \/ UNCHANGED noticedVars => UNCHANGED desk
  BY DEF noticeVars, noticedVars
<1> QED  BY <1>1, <1>2, <1>3, <1>4 DEF NoticesNext

-----------------------------------------------------------------------------
(* Passwords. Nothing of what was handed over or mailed is forgotten, and  *)
(* whatever gives an account a new password hands it over or mails it.     *)

Mails == outbox \cup sent \cup failed

Reached(q, n) == n \in handed \/ \E m \in Mails : m.to = q /\ m.password = n

LEMMA ReachedStays ==
  ASSUME [NoticesNext]_noticedVars
  PROVE  handed \subseteq handed' /\ Mails \subseteq Mails'
<1>1. ASSUME (Silently /\ UNCHANGED noticeVars) \/ UNCHANGED noticedVars
      PROVE  UNCHANGED <<handed, mails>>
  BY <1>1 DEF noticeVars, noticedVars, mails
<1>2. ASSUME NEW x \in Txn, NEW c \in Company,
             Approve(x, c) \/ \E p \in Contact : ProvisionNew(x, c, p)
      PROVE  handed \subseteq handed' /\ Mails \subseteq Mails'
  BY <1>2 DEF Approve, ProvisionNew, Email, mails, Mails
<1>3. ASSUME Deciding, ~(\E x \in Txn, c \in Company :
                           Approve(x, c) \/ \E p \in Contact : ProvisionNew(x, c, p))
      PROVE  handed \subseteq handed' /\ Mails \subseteq Mails'
  BY <1>3 DEF Deciding, Reject, AskForDocuments, Email, passwords, Mails
<1>4. ASSUME NEW m \in outbox, SendSafely(m) PROVE handed = handed' /\ Mails = Mails'
  BY <1>4 DEF SendSafely, Send, passwords, Mails
<1>5. ASSUME NEW k \in Clerk, Console(k) PROVE handed \subseteq handed' /\ Mails \subseteq Mails'
  <2>1. ASSUME ResendNotification(k) \/ ReissueCredentials(k)
        PROVE  UNCHANGED <<handed, sent, failed>> /\ outbox \subseteq outbox'
    BY <2>1 DEF ResendNotification, ReissueCredentials, Email, passwords
  <2>2. ASSUME Console(k), ~(ResendNotification(k) \/ ReissueCredentials(k))
        PROVE  UNCHANGED <<passwords, mails>>
    BY <2>2 DEF Console, GetLastReview, OpenDetail, ReadDetail, Download, List, FindApprovalDates,
                LeaveDesk
  <2> QED  BY <1>5, <2>1, <2>2 DEF Mails, passwords, mails
<1>6. ASSUME \/ \E p \in Contact : RotateStaffPassword(p)
             \/ \E t \in Town : ChangeCoverage(t)
      PROVE  handed \subseteq handed' /\ UNCHANGED mails
  BY <1>6 DEF RotateStaffPassword, ChangeCoverage, passwords
<1> QED  BY <1>1, <1>2, <1>3, <1>4, <1>5, <1>6 DEF NoticesNext, Apart, mails, Mails

(* Accounts are made by the decisions that somebody is told of.            *)
LEMMA AccountsStay ==
  ASSUME Silently \/ (\E h \in Handler : AskForDocuments(h)) \/ \E c \in Company : Reject(c)
  PROVE  UNCHANGED account
<1>1. ASSUME NEW h \in Handler, RequestMoves(h) \/ RequestEnds(h) PROVE UNCHANGED account
  BY <1>1 DEF RequestMoves, BeginSubmission, BeginReplacement, BeginRequestDocuments, MovesDone,
              FindPendingCompany, RemoveStaged, tables, RequestEnds, RollbackPromoted,
              UpsertPendingCompany, ReplaceSingleDocument, RequestDocuments
<1>2. FilesStep \/ UNCHANGED affiliationVars => UNCHANGED account
  BY DEF FilesStep, Stage, PurgeStaging, CopyDocument, affiliationVars, tables
<1>3. ASSUME Silently
      PROVE  \/ \E h \in Handler : RequestMoves(h) \/ RequestEnds(h)
             \/ FilesStep \/ UNCHANGED affiliationVars
  <2>1. ASSUME \/ \E x \in Txn, c \in Company : BeginApproval(x, c) \/ BeginProvisionNew(x, c)
               \/ Configure
        PROVE  UNCHANGED affiliationVars
    BY <2>1 DEF BeginApproval, BeginProvisionNew, Configure
  <2> QED  BY <1>3, <2>1 DEF Silently, RequestMoves, RequestEnds, FilesStep
<1>4. ASSUME NEW h \in Handler, AskForDocuments(h) PROVE RequestEnds(h)
  BY <1>4 DEF AskForDocuments, RequestEnds
<1>5. ASSUME NEW c \in Company, Reject(c) PROVE UNCHANGED account
  BY <1>5 DEF Reject, RejectCompany
<1> QED  BY <1>1, <1>2, <1>3, <1>4, <1>5

LEMMA PasswordStep ==
  ASSUME NoticesInv, PasswordReaches, [NoticesNext]_noticedVars
  PROVE  PasswordReaches'
<1>1. NoticesTyped /\ RowsTypeOK
  BY DEF NoticesInv, RowsInv
<1>2. ASSUME UNCHANGED <<account, password>> PROVE PasswordReaches'
  BY <1>2, ReachedStays DEF PasswordReaches, Mails
(* One account has a new password, which is mailed or handed over.         *)
<1>3. ASSUME NEW p, NewPassword(p), \A q \in Contact : q # p => account'[q] = account[q],
             \/ handed' = handed \cup {issued + 1}
             \/ \E m \in Mails' : m.to = p /\ m.password = issued + 1
      PROVE  PasswordReaches'
  <2>1. \A q \in Contact : password'[q] = IF q = p THEN issued + 1 ELSE password[q]
    BY <1>1, <1>3, PasswordTyped
  <2> SUFFICES ASSUME NEW q \in Contact, account'[q] # None
               PROVE  \/ password'[q] \in handed'
                      \/ \E m \in Mails' : m.to = q /\ m.password = password'[q]
    BY DEF PasswordReaches, Mails
  <2>2. CASE q = p
    BY <1>3, <2>1, <2>2
  <2>3. CASE q # p
    <3>1. account[q] # None /\ password'[q] = password[q]
      BY <1>3, <2>1, <2>3
    <3>2. Reached(q, password[q])
      BY <3>1 DEF PasswordReaches, Reached, Mails
    <3> QED  BY <3>1, <3>2, ReachedStays DEF Reached
  <2> QED  BY <2>2, <2>3
<1>4. ASSUME NEW p, NEW c, NEW d, Email(p, c, d, issued + 1)
      PROVE  \E m \in Mails' : m.to = p /\ m.password = issued + 1
  <2> DEFINE n == issued + 1
             m == [to |-> p, company |-> c, decision |-> d, password |-> n]
  <2>1. m \in Mails'
    BY <1>4 DEF Email, Mails
  <2>2. m.to = p /\ m.password = n
    OBVIOUS
  <2> HIDE DEF m
  <2> QED  BY <2>1, <2>2
<1>5. ASSUME NEW c \in Company, NEW p, FinishProvisioning(c, p)
      PROVE  \A q \in Contact : q # p => account'[q] = account[q]
  BY <1>1, <1>5 DEF FinishProvisioning, RowsTypeOK
<1>6. ASSUME NEW x \in Txn, NEW c \in Company, Approve(x, c) PROVE PasswordReaches'
  <2> DEFINE p == company[c].contact
  <2>1. NewPassword(p) /\ Email(p, c, "approved", issued + 1) /\ FinishProvisioning(c, p)
    BY <1>6 DEF Approve, CommitApproval
  <2> HIDE DEF p
  <2> QED  BY <1>3, <1>4, <1>5, <2>1
<1>7. ASSUME NEW x \in Txn, NEW c \in Company, NEW p \in Contact, ProvisionNew(x, c, p)
      PROVE  PasswordReaches'
  <2>1. NewPassword(p) /\ handed' = handed \cup {issued + 1} /\ FinishProvisioning(c, p)
    BY <1>7 DEF ProvisionNew, CommitProvisionNew
  <2> QED  BY <1>3, <1>5, <2>1
<1>8. ASSUME NEW p \in Contact, RotateStaffPassword(p) PROVE PasswordReaches'
  <2>1. NewPassword(p) /\ handed' = handed \cup {issued + 1} /\ UNCHANGED account
    BY <1>8 DEF RotateStaffPassword, vars, affiliationVars
  <2> QED  BY <1>3, <2>1
<1>9. ASSUME NEW k \in Clerk, Console(k) PROVE PasswordReaches'
  <2>1. ASSUME ReissueCredentials(k) PROVE PasswordReaches'
    <3> DEFINE c == desk[k].company
               p == contactAdmin[c]
    <3>1. NewPassword(p) /\ Email(p, c, "credentials_reissued", issued + 1) /\ UNCHANGED account
      BY <2>1 DEF ReissueCredentials, AdminOf, vars, affiliationVars
    <3> HIDE DEF c, p
    <3> QED  BY <1>3, <1>4, <3>1
  <2>2. ASSUME ~ReissueCredentials(k) PROVE UNCHANGED <<account, password>>
    BY <1>9, <2>2 DEF Console, GetLastReview, OpenDetail, ResendNotification, ReadDetail, Download,
                      List, FindApprovalDates, LeaveDesk, passwords, tables, vars, affiliationVars
  <2> QED  BY <1>2, <2>1, <2>2
<1>10. ASSUME \/ Silently /\ UNCHANGED noticeVars
              \/ UNCHANGED noticedVars
              \/ \E c \in Company : Reject(c)
              \/ \E h \in Handler : AskForDocuments(h)
              \/ \E m \in outbox : SendSafely(m)
              \/ \E t \in Town : ChangeCoverage(t)
       PROVE  UNCHANGED <<account, password>>
  <2>1. UNCHANGED password
    BY <1>10 DEF noticeVars, noticedVars, Reject, AskForDocuments, SendSafely, ChangeCoverage,
                 passwords
  <2>2. \/ UNCHANGED vars
        \/ Silently \/ (\E h \in Handler : AskForDocuments(h)) \/ \E c \in Company : Reject(c)
    BY <1>10 DEF noticedVars, SendSafely, ChangeCoverage
  <2>3. UNCHANGED account
    BY <2>2, AccountsStay DEF vars, affiliationVars
  <2> QED  BY <2>1, <2>3
<1> QED
  BY <1>2, <1>6, <1>7, <1>8, <1>9, <1>10 DEF NoticesNext, Deciding, Apart

(* See PasswordReaches: the password in force of an account was handed over*)
(* or mailed to that account, for any companies, contacts, clerks and      *)
(* orders of decisions, re-issues and rotations.                           *)
THEOREM PasswordsReach == NoticesSpec => []PasswordReaches
<1>1. NoticesInit => PasswordReaches
  BY DEF NoticesInit, Init, PasswordReaches
<1> QED  BY <1>1, PasswordStep, NoticesHold, PTL DEF NoticesSpec

-----------------------------------------------------------------------------
(* Views. Reviews, versions and kept files only become more, so that what  *)
(* was true of a company when its row was read is so when the rest is.     *)

LEMMA ReviewsGrow ==
  ASSUME RowsInv, [Next]_vars, NEW c \in Company
  PROVE  ListReviews(c) \subseteq ListReviews(c)'
<1> DEFINE Decision == {"approved", "rejected", "documents_requested"}
<1>1. review \in [Company -> Seq(Decision)]
  BY DEF RowsInv, RowsTypeOK
<1>2. ASSUME NEW b \in Company, NEW d \in Decision, Reviewed(b, d)
      PROVE  ListReviews(c) \subseteq ListReviews(c)'
  <2>1. review' = [review EXCEPT ![b] = Append(review[b], d)]
    BY <1>2 DEF Reviewed
  <2>2. review'[c] = review[c] \/ review'[c] = Append(review[c], d)
    BY <1>1, <2>1
  <2>3. /\ review[c] \in Seq(Decision) /\ DOMAIN review[c] = 1..Len(review[c])
        /\ DOMAIN Append(review[c], d) = 1..(Len(review[c]) + 1) /\ Len(review[c]) \in Nat
        /\ \A i \in 1..Len(review[c]) : Append(review[c], d)[i] = review[c][i]
    BY <1>1
  <2>4. \A i \in DOMAIN review[c] : i \in DOMAIN review'[c] /\ review'[c][i] = review[c][i]
    BY <2>2, <2>3
  <2> QED  BY <2>4 DEF ListReviews, ToSet
<1>3. ASSUME UNCHANGED review PROVE ListReviews(c) \subseteq ListReviews(c)'
  BY <1>3 DEF ListReviews, ToSet
<1>4. ASSUME NEW h \in Handler,
             RequestMoves(h) \/ RollbackPromoted(h) \/ UpsertPendingCompany(h) \/ ReplaceSingleDocument(h)
      PROVE  UNCHANGED review
  BY <1>4 DEF RequestMoves, BeginSubmission, BeginReplacement, BeginRequestDocuments, MovesDone,
              FindPendingCompany, RemoveStaged, RollbackPromoted, UpsertPendingCompany,
              ReplaceSingleDocument, tables
<1>5. ASSUME NEW h \in Handler, RequestDocuments(h) PROVE ListReviews(c) \subseteq ListReviews(c)'
  <2>1. request[h].at = "requesting" /\ Reviewed(request[h].company, "documents_requested")
    BY <1>5 DEF RequestDocuments
  <2>2. request[h].company \in Company
    BY <2>1, AboutCompany DEF RowsInv
  <2> QED  BY <1>2, <2>1, <2>2
<1>6. FilesStep \/ UNCHANGED affiliationVars => UNCHANGED review
  BY DEF FilesStep, Stage, PurgeStaging, CopyDocument, affiliationVars, tables
<1>7. ASSUME NEW b \in Company, RejectCompany(b) PROVE Reviewed(b, "rejected")
  BY <1>7 DEF RejectCompany
<1>8. ASSUME NEW x \in Txn, NEW b \in Company, CommitApproval(x, b) PROVE Reviewed(b, "approved")
  BY <1>8 DEF CommitApproval
<1>9. ASSUME NEW x \in Txn, NEW b \in Company, NEW p \in Contact, CommitProvisionNew(x, b, p)
      PROVE  UNCHANGED review
  BY <1>9 DEF CommitProvisionNew
<1> QED
  BY <1>2, <1>3, <1>4, <1>5, <1>6, <1>7, <1>8, <1>9, KindsOfSteps DEF RequestEnds

(* A request that goes on takes up no upload that is gone.                 *)
LEMMA MovesTakeUp ==
  ASSUME RowsInv, NEW h \in Handler, RequestMoves(h)
  PROVE  \E r : /\ request' = [request EXCEPT ![h] = r]
                /\ \A d \in DocType :
                     r.files[d] \in {None, request[h].files[d]} \/ staged[r.files[d]] = "staged"
<1> DEFINE Goal ==
      \E r : /\ request' = [request EXCEPT ![h] = r]
             /\ \A d \in DocType :
                  r.files[d] \in {None, request[h].files[d]} \/ staged[r.files[d]] = "staged"
<1>0. request \in [Handler -> Request] /\ request[h] \in Request
  BY DEF RowsInv, RowsTypeOK
<1>1. ASSUME NEW c \in Company, NEW p \in Contact, NEW fs \in Injection(DocType, Upload),
             BeginSubmission(h, c, p, fs)
      PROVE  Goal
  <2> DEFINE r == [IdleRequest EXCEPT !.at = "moving", !.company = c, !.contact = p,
                                 !.found = company[c].status, !.files = fs, !.asOf = Decisions(c)]
  <2>1. request' = [request EXCEPT ![h] = r] /\ \A d \in DocType : staged[fs[d]] = "staged"
    BY <1>1 DEF BeginSubmission
  <2>2. r.files = fs
    BY DEF IdleRequest
  <2> HIDE DEF r
  <2> QED  BY <2>1, <2>2
<1>2. ASSUME NEW c \in Company, NEW e \in DocType, NEW f \in Upload, BeginReplacement(h, c, e, f)
      PROVE  Goal
  <2> DEFINE r == [IdleRequest EXCEPT !.at = "moving", !.company = c, !.types = {e},
                                 !.files = [NoFiles EXCEPT ![e] = f]]
  <2>1. request' = [request EXCEPT ![h] = r] /\ staged[f] = "staged"
    BY <1>2 DEF BeginReplacement
  <2>2. \A d \in DocType : r.files[d] \in {None, f}
    BY DEF IdleRequest, NoFiles
  <2> HIDE DEF r
  <2> QED  BY <2>1, <2>2
<1>3. ASSUME NEW c \in Company, NEW types \in (SUBSET DocType) \ {{}},
             BeginRequestDocuments(h, c, types)
      PROVE  Goal
  <2> DEFINE r == [IdleRequest EXCEPT !.at = "requesting", !.company = c,
                                 !.contact = company[c].contact, !.types = types,
                                 !.asOf = Decisions(c)]
  <2>1. request' = [request EXCEPT ![h] = r]
    BY <1>3 DEF BeginRequestDocuments
  <2>2. \A d \in DocType : r.files[d] = None
    BY DEF IdleRequest, NoFiles
  <2> HIDE DEF r
  <2> QED  BY <2>1, <2>2
<1>4. ASSUME NEW r, request' = [request EXCEPT ![h] = r], r.files = request[h].files PROVE Goal
  BY <1>4
<1>5. CASE MovesDone(h)
  <2>1. PICK place : request' = [request EXCEPT ![h] = [request[h] EXCEPT !.at = place]]
    BY <1>0, <1>5 DEF MovesDone
  <2>2. [request[h] EXCEPT !.at = place].files = request[h].files
    BY <1>0 DEF Request
  <2> QED  BY <1>4, <2>1, <2>2
<1>6. CASE FindPendingCompany(h)
  <2>1. PICK seen : request' = [request EXCEPT ![h] = [request[h] EXCEPT !.at = "upserting",
                                                                         !.asOf = seen]]
    BY <1>0, <1>6 DEF FindPendingCompany
  <2>2. [request[h] EXCEPT !.at = "upserting", !.asOf = seen].files = request[h].files
    BY <1>0 DEF Request
  <2> QED  BY <1>4, <2>1, <2>2
<1>7. ASSUME NEW d \in DocType, RemoveStaged(h, d) PROVE Goal
  <2>1. request' = [request EXCEPT ![h] = [request[h] EXCEPT !.moved = @ \cup {d}]]
    BY <1>0, <1>7 DEF RemoveStaged
  <2>2. [request[h] EXCEPT !.moved = @ \cup {d}].files = request[h].files
    BY <1>0 DEF Request
  <2> QED  BY <1>4, <2>1, <2>2
<1> QED  BY <1>1, <1>2, <1>3, <1>5, <1>6, <1>7 DEF RequestMoves

(* Nobody copies or removes a file that is kept.                           *)
LEMMA KeptForever ==
  ASSUME RowsInv, FilesKept, [Next]_vars, NEW key, Kept(key)
  PROVE  Kept(key)'
<1> USE DEF RowsInv
<1>1. /\ request \in [Handler -> Request] /\ staged \in [Upload -> {"new", "staged", "gone"}]
      /\ None \notin Upload
  BY AffiliationAssumption DEF RowsTypeOK
<1>2. ASSUME UNCHANGED request, promoted \subseteq promoted',
             \A f \in Upload : staged[f] = "gone" => staged'[f] = "gone"
      PROVE  Kept(key)'
  BY <1>2, KeptStays DEF Kept
<1>3. ASSUME NEW h \in Handler, RequestMoves(h) PROVE Kept(key)'
  <2>1. PICK r : /\ request' = [request EXCEPT ![h] = r]
                 /\ \A d \in DocType :
                      r.files[d] \in {None, request[h].files[d]} \/ staged[r.files[d]] = "staged"
    BY <1>3, MovesTakeUp
  <2>2. \A f \in Upload, g \in Handler : staged[f] = "gone" =>
          \A d \in DocType : request'[g].files[d] = f => request[g].files[d] = f
    BY <1>1, <2>1
  <2>3. UNCHANGED promoted /\ \A f \in Upload : staged[f] = "gone" => staged'[f] = "gone"
    BY <1>1, <1>3 DEF RequestMoves, BeginSubmission, BeginReplacement, BeginRequestDocuments, MovesDone,
                      FindPendingCompany, RemoveStaged, files
  <2> QED  BY <2>2, <2>3, KeptStays DEF Kept
<1>4. ASSUME NEW h \in Handler, RequestEnds(h) PROVE Kept(key)'
  <2>1. request' = [request EXCEPT ![h] = IdleRequest] /\ UNCHANGED staged
    BY <1>4 DEF RequestEnds, RollbackPromoted, UpsertPendingCompany, ReplaceSingleDocument,
                RequestDocuments, Finish, files
  <2>2. \A f \in Upload, g \in Handler, d \in DocType :
          request'[g].files[d] = f => request[g].files[d] = f
    BY <1>1, <2>1 DEF IdleRequest, NoFiles
  <2>3. key \in promoted'
    <3>1. CASE RollbackPromoted(h)
      <4>1. \A d \in request[h].moved : d \in DocType /\ request[h].files[d] \in Upload
        BY <1>1 DEF RequestsFit, Fits, Request
      <4>2. PICK kept \in {{}, request[h].moved} :
              promoted' = promoted \ { CompanyDocumentKey(h, request[h].files[d]) :
                                         d \in request[h].moved \ kept }
        BY <3>1 DEF RollbackPromoted
      <4>3. \A d \in request[h].moved : key # CompanyDocumentKey(h, request[h].files[d])
        BY <4>1 DEF Kept
      <4>4. key \in promoted
        BY DEF Kept
      <4> HIDE DEF CompanyDocumentKey
      <4> QED  BY <4>2, <4>3, <4>4
    <3>2. CASE ~RollbackPromoted(h)
      BY <1>4, <3>2 DEF RequestEnds, UpsertPendingCompany, ReplaceSingleDocument, RequestDocuments,
                        files, Kept
    <3> QED  BY <3>1, <3>2
  <2> QED  BY <2>1, <2>2, <2>3, KeptStays
<1>5. ASSUME FilesStep
      PROVE  /\ UNCHANGED request /\ promoted \subseteq promoted'
             /\ \A f \in Upload : staged[f] = "gone" => staged'[f] = "gone"
  BY <1>1, <1>5 DEF FilesStep, Stage, PurgeStaging, CopyDocument, tables
<1>6. ASSUME \/ UNCHANGED affiliationVars
             \/ \E c \in Company : RejectCompany(c)
             \/ \E x \in Txn, c \in Company :
                  CommitApproval(x, c) \/ \E p \in Contact : CommitProvisionNew(x, c, p)
      PROVE  UNCHANGED <<request, promoted, staged>>
  BY <1>6 DEF affiliationVars, RejectCompany, CommitApproval, CommitProvisionNew, files
<1> QED  BY <1>2, <1>3, <1>4, <1>5, <1>6, KindsOfSteps

(* A company is not rejected without a review, nor approved.               *)
RowsTold ==
  \A c \in Company :
    /\ company[c].status = "rejected" => "rejected" \in ListReviews(c)
    /\ Active(c) /\ company[c].contact # None => "approved" \in ListReviews(c)

LEMMA ReviewListed ==
  ASSUME RowsInv, NEW c \in Company, NEW d, Reviewed(c, d)
  PROVE  d \in ListReviews(c)'
<1>1. /\ review' = [review EXCEPT ![c] = Append(review[c], d)]
      /\ review \in [Company -> Seq({"approved", "rejected", "documents_requested"})]
  BY DEF Reviewed, RowsInv, RowsTypeOK
<1>2. review'[c] = Append(review[c], d) /\ review[c] \in Seq({"approved", "rejected", "documents_requested"})
  BY <1>1
<1>3. Len(review[c]) + 1 \in DOMAIN review'[c] /\ review'[c][Len(review[c]) + 1] = d
  BY <1>2
<1> QED  BY <1>3 DEF ListReviews, ToSet

LEMMA RowsToldStep ==
  ASSUME RowsInv, RowsTold, [Next]_vars
  PROVE  RowsTold'
<1>1. company \in [Company -> CompanyRow]
  BY DEF RowsInv, RowsTypeOK
<1>2. \A c \in Company : ListReviews(c) \subseteq ListReviews(c)'
  BY ReviewsGrow
<1>3. ASSUME NEW b \in Company, NEW row, company' = [company EXCEPT ![b] = row],
             row.status = "rejected" => "rejected" \in ListReviews(b)',
             row.status = "active" /\ row.contact # None => "approved" \in ListReviews(b)'
      PROVE  RowsTold'
  <2>1. \A c \in Company : company'[c] = IF c = b THEN row ELSE company[c]
    BY <1>1, <1>3
  <2> QED  BY <1>2, <1>3, <2>1 DEF RowsTold, Active
<1>4. ASSUME UNCHANGED company PROVE RowsTold'
  BY <1>2, <1>4 DEF RowsTold, Active
<1>5. ASSUME NEW h \in Handler, RequestMoves(h) PROVE UNCHANGED company
  BY <1>5 DEF RequestMoves, BeginSubmission, BeginReplacement, BeginRequestDocuments, MovesDone,
              FindPendingCompany, RemoveStaged, tables
<1>6. ASSUME NEW h \in Handler, RollbackPromoted(h) \/ ReplaceSingleDocument(h) \/ RequestDocuments(h)
      PROVE  UNCHANGED company
  BY <1>6 DEF RollbackPromoted, ReplaceSingleDocument, RequestDocuments, tables
<1>7. ASSUME NEW h \in Handler, UpsertPendingCompany(h) PROVE RowsTold'
  <2> DEFINE b == request[h].company
             row == [status |-> "pending", registered |-> company[b].registered + 1,
                     contact |-> request[h].contact]
  <2>1. company' = [company EXCEPT ![b] = row] /\ request[h].at = "submitting"
    BY <1>7 DEF UpsertPendingCompany
  <2>2. b \in Company
    BY <2>1, AboutCompany DEF RowsInv
  <2>3. row.status = "pending"
    OBVIOUS
  <2> HIDE DEF b, row
  <2> QED  BY <1>3, <2>1, <2>2, <2>3
<1>8. ASSUME NEW c \in Company, RejectCompany(c) PROVE RowsTold'
  <2> DEFINE row == [company[c] EXCEPT !.status = "rejected"]
  <2>1. company' = [company EXCEPT ![c] = row] /\ Reviewed(c, "rejected") /\ row.status = "rejected"
    BY <1>1, <1>8 DEF RejectCompany, CompanyRow
  <2>2. "rejected" \in ListReviews(c)'
    BY <2>1, ReviewListed
  <2> HIDE DEF row
  <2> QED  BY <1>3, <2>1, <2>2
<1>9. ASSUME NEW x \in Txn, NEW c \in Company, CommitApproval(x, c) PROVE RowsTold'
  <2> DEFINE row == [company[c] EXCEPT !.status = "active"]
  <2>1. company' = [company EXCEPT ![c] = row] /\ Reviewed(c, "approved") /\ row.status = "active"
    BY <1>1, <1>9 DEF CommitApproval, CompanyRow
  <2>2. "approved" \in ListReviews(c)'
    BY <2>1, ReviewListed
  <2> HIDE DEF row
  <2> QED  BY <1>3, <2>1, <2>2
<1>10. ASSUME NEW x \in Txn, NEW c \in Company, NEW p \in Contact, CommitProvisionNew(x, c, p)
       PROVE  RowsTold'
  <2> DEFINE row == [status |-> "active", registered |-> 1, contact |-> None]
  <2>1. company' = [company EXCEPT ![c] = row]
    BY <1>10 DEF CommitProvisionNew
  <2>2. row.status = "active" /\ row.contact = None
    OBVIOUS
  <2> HIDE DEF row
  <2> QED  BY <1>3, <2>1, <2>2
<1>11. FilesStep \/ UNCHANGED affiliationVars => UNCHANGED company
  BY DEF FilesStep, Stage, PurgeStaging, CopyDocument, affiliationVars, tables
<1> QED
  BY <1>4, <1>5, <1>6, <1>7, <1>8, <1>9, <1>10, <1>11, KindsOfSteps DEF RequestEnds

-----------------------------------------------------------------------------

(* What a row that was read promises of the reads to come.                 *)
Promised(c, view) ==
  /\ view.status = "rejected" => "rejected" \in ListReviews(c)
  /\ view.status = "active" => /\ \A key \in Needed(c) : history[key] # <<>>
                               /\ view.applied => "approved" \in ListReviews(c)

Dates(view) == Awaits(view) /\ view.applied => view.dated

DeskTrue(t) ==
  /\ t.at = "viewing" =>
       /\ \A b \in Company : b # t.company => Dates(t.view[b])
       /\ t.reads # 0 => Promised(t.company, t.view[t.company])
       /\ t.reads = 2 => Sound(t.view[t.company])
  /\ t.at \in {"viewed", "fetching"} => Sound(t.view[t.company])
  /\ t.at \in {"viewed", "listed"} => \A b \in Company : Dates(t.view[b])
  /\ t.at = "listing" => \A b \in Company : Promised(b, t.view[b])
  /\ t.at = "fetching" => Kept(t.key)

LEMMA PromisesStay ==
  ASSUME RowsInv, VersionsInv, [Next]_vars, NEW c \in Company, NEW view, Promised(c, view)
  PROVE  Promised(c, view)'
<1>1. [VersionsNext]_versionVars /\ Needed(c) \subseteq Key
  BY StepOfVersions, NeededAreKeys
<1>2. ListReviews(c) \subseteq ListReviews(c)'
  BY ReviewsGrow
<1>3. \A key \in Needed(c) : history[key] # <<>> => history'[key] # <<>>
  BY <1>1, HistoryGrows
<1>4. UNCHANGED Needed(c)
  BY DEF Needed, Commission, ToSet
<1> QED  BY <1>2, <1>3, <1>4 DEF Promised

LEMMA TrueStays ==
  ASSUME RowsInv, VersionsInv, FilesKept, [Next]_vars, NEW t \in Desk, DeskFits(t), DeskTrue(t)
  PROVE  DeskTrue(t)'
<1>1. t.at = "viewing" /\ t.reads # 0 => Promised(t.company, t.view[t.company])'
  BY PromisesStay DEF DeskTrue, DeskFits
<1>2. t.at = "listing" => \A b \in Company : Promised(b, t.view[b])'
  BY PromisesStay DEF DeskTrue
<1>3. t.at = "fetching" => Kept(t.key)'
  BY KeptForever DEF DeskTrue
<1> QED  BY <1>1, <1>2, <1>3 DEF DeskTrue, Dates, Awaits, Sound

ConsoleInv == NoticesInv /\ RowsTold /\ ProvisionInv /\ VersionsInv /\ FilesKept

LEMMA RowPromises ==
  ASSUME ConsoleInv, NEW c \in Company, NEW view,
         view.status = company[c].status, view.applied = (company[c].contact # None)
  PROVE  Promised(c, view)
  BY DEF ConsoleInv, RowsTold, ProvisionInv, Provisioned, Promised, Active

(* The three reads of a detail, each after what the one before promised.   *)
LEMMA ReadsTrue ==
  ASSUME ConsoleInv, NEW k \in Clerk, DeskTrue(desk[k]), ReadDetail(k)
  PROVE  DeskTrue(Reading(k))
<1> DEFINE c == desk[k].company
           view == desk[k].view[c]
           n == desk[k].reads
<1>0. PICK t : t = Reading(k)
  OBVIOUS
<1>1. /\ desk[k].at = "viewing" /\ c \in Company /\ n \in 0..2 /\ desk[k] \in Desk
      /\ t \in Desk /\ NoticesInv
  BY <1>0, DetailRead DEF ConsoleInv, NoticesInv, NoticesTyped
<1>2. /\ t.at = IF n = 2 THEN "viewed" ELSE "viewing"
      /\ t.company = c /\ t.reads = n + 1 /\ t.view[c] = NextView(k)
      /\ \A b \in Company : b # c => t.view[b] = desk[k].view[b]
  BY <1>0, <1>1 DEF Reading, Desk
<1>3. view \in CompanyView
  BY <1>1 DEF Desk
<1>4. /\ \A b \in Company : b # c => Dates(desk[k].view[b])
      /\ n # 0 => Promised(c, view)
      /\ n = 2 => Sound(view)
  BY <1>1 DEF DeskTrue
<1>5. CASE n = 0
  <2>1. NextView(k) = GetDetail(view, c)
    BY <1>5 DEF NextView
  <2>2. GetDetail(view, c).status = RowOf(c).status /\ GetDetail(view, c).applied = RowOf(c).applied
    BY <1>3 DEF GetDetail, CompanyView
  <2>3. RowOf(c).status = company[c].status /\ RowOf(c).applied = (company[c].contact # None)
    BY DEF RowOf, NoView
  <2>4. Promised(c, NextView(k))
    BY <1>1, <2>1, <2>2, <2>3, RowPromises
  <2> HIDE DEF c, view, n
  <2> QED  BY <1>0, <1>1, <1>2, <1>4, <1>5, <2>4 DEF DeskTrue
<1>6. CASE n = 1
  <2>1. NextView(k) = WithDetails(view, c)
    BY <1>6 DEF NextView
  <2>2. /\ NextView(k).status = view.status /\ NextView(k).applied = view.applied
        /\ NextView(k).decisions = ListReviews(c)
        /\ NextView(k).configured = (\A key \in Needed(c) : Current(key) # 0)
    <3> DEFINE ready == \A key \in Needed(c) : Current(key) # 0
               seen == ListReviews(c)
               r == Signed(view, c)
    <3>1. r.status = view.status /\ r.applied = view.applied
          /\ r = [r EXCEPT !.status = r.status] /\ r \in CompanyView
      <4>1. company[c].registered \in Nat /\ ListDocuments(c) \subseteq DocType
        BY <1>1 DEF NoticesInv, RowsInv, RowsTypeOK, CompanyRow, ListDocuments
      <4> QED  BY <1>3, <4>1 DEF Signed, CompanyView
    <3>2. NextView(k) = [r EXCEPT !.decisions = seen, !.configured = ready]
      BY <2>1 DEF WithDetails
    <3> HIDE DEF ready, seen, r
    <3>3. /\ NextView(k).status = r.status /\ NextView(k).applied = r.applied
          /\ NextView(k).decisions = seen /\ NextView(k).configured = ready
      BY <3>1, <3>2 DEF CompanyView
    <3> QED  BY <3>1, <3>3 DEF ready, seen
  <2>3. Needed(c) \subseteq Key /\ VersionsTypeOK /\ UnbrokenHistory
    BY <1>1, NeededAreKeys DEF ConsoleInv, VersionsInv
  <2>4. view.status = "active" => \A key \in Needed(c) : Current(key) # 0
    BY <1>4, <1>6, <2>3, CurrentMeansOpen DEF Promised
  <2>5. Promised(c, NextView(k)) /\ Sound(NextView(k))
    BY <1>4, <1>6, <2>2, <2>4 DEF Promised, Sound
  <2> HIDE DEF c, view, n
  <2> QED  BY <1>0, <1>1, <1>2, <1>4, <1>6, <2>5 DEF DeskTrue
<1>7. CASE n = 2
  <2> DEFINE dated == Awaits(view) /\ "approved" \in ListReviews(c)
  <2>1. NextView(k) = [view EXCEPT !.dated = dated]
    BY <1>7 DEF NextView, WithApproval
  <2>2. dated \in BOOLEAN
    BY DEF Awaits
  <2>3. view.applied /\ Awaits(view) => dated
    BY <1>4, <1>7 DEF Promised, Awaits
  <2> HIDE DEF dated
  <2>4. /\ NextView(k).status = view.status /\ NextView(k).applied = view.applied
        /\ NextView(k).covered = view.covered /\ NextView(k).decisions = view.decisions
        /\ NextView(k).configured = view.configured /\ NextView(k).dated = dated
    BY <1>3, <2>1 DEF CompanyView
  <2>5. Dates(NextView(k)) /\ Sound(NextView(k))
    BY <1>4, <1>7, <2>3, <2>4 DEF Dates, Awaits, Sound
  <2> HIDE DEF c, view, n
  <2> QED  BY <1>0, <1>1, <1>2, <1>4, <1>7, <2>5 DEF DeskTrue
<1> QED  BY <1>1, <1>5, <1>6, <1>7

LEMMA TurnsTrue ==
  ASSUME ConsoleInv, NEW k \in Clerk, DeskTrue(desk[k]), NEW t, Turns(k, t)
  PROVE  DeskTrue(t)
<1>0. NoticesInv /\ desk[k] \in Desk /\ DeskFits(desk[k])
  BY DEF ConsoleInv, NoticesInv, NoticesTyped
<1>1. CASE t = IdleDesk
  BY <1>1 DEF DeskTrue, IdleDesk
<1>2. ASSUME NEW c \in Company, t = Asking(c) PROVE DeskTrue(t)
  BY <1>2 DEF Asking, IdleDesk, DeskTrue
<1>3. ASSUME NEW c \in Company, t = Opening(c) PROVE DeskTrue(t)
  <2>1. t = [at |-> "viewing", company |-> c, reads |-> 0, view |-> [b \in Company |-> NoView],
             last |-> None, key |-> None]
    BY <1>3 DEF Opening, IdleDesk
  <2>2. Dates(NoView)
    BY DEF Dates, Awaits, NoView
  <2> QED  BY <2>1, <2>2 DEF DeskTrue
<1>4. ASSUME NEW d \in DocType, desk[k].at = "viewed", d \in desk[k].view[desk[k].company].links,
             t = Fetching(k, d)
      PROVE  DeskTrue(t)
  <2> DEFINE c == desk[k].company
  <2>1. c \in Company /\ document[c][d] # None /\ Sound(desk[k].view[c])
    BY <1>0, <1>4 DEF DeskFits, DeskTrue
  <2>2. Kept(document[c][d].key)
    BY <2>1 DEF ConsoleInv, FilesKept, RowsKept
  <2>3. t.at = "fetching" /\ t.company = c /\ t.view = desk[k].view /\ t.key = document[c][d].key
    BY <1>0, <1>4 DEF Fetching, Desk
  <2> HIDE DEF c
  <2> QED  BY <2>1, <2>2, <2>3 DEF DeskTrue
<1>5. ASSUME NEW status, t = Listing(status) PROVE DeskTrue(t)
  <2>1. t.at = "listing" /\ t.view = ListCompanies(status)
    BY <1>5 DEF Listing, IdleDesk
  <2>2. ASSUME NEW b \in Company PROVE Promised(b, t.view[b])
    <3>1. CASE t.view[b] = NoView
      BY <3>1 DEF Promised, NoView
    <3>2. CASE t.view[b] = RowOf(b)
      <4>1. RowOf(b).status = company[b].status /\ RowOf(b).applied = (company[b].contact # None)
        BY DEF RowOf, NoView
      <4> QED  BY <3>2, <4>1, RowPromises
    <3> QED  BY <2>1, <3>1, <3>2 DEF ListCompanies
  <2> QED  BY <2>1, <2>2 DEF DeskTrue
<1>6. ASSUME desk[k].at = "listing", t = Listed(k) PROVE DeskTrue(t)
  <2>1. t.at = "listed" /\ t.view = [c \in Company |-> WithApproval(desk[k].view[c], c)]
    BY <1>0, <1>6 DEF Listed, Desk
  <2>2. ASSUME NEW b \in Company PROVE Dates(t.view[b])
    <3> DEFINE view == desk[k].view[b]
               dated == Awaits(view) /\ "approved" \in ListReviews(b)
    <3>1. view \in CompanyView /\ Promised(b, view)
      BY <1>0, <1>6 DEF Desk, DeskTrue
    <3>2. t.view[b] = [view EXCEPT !.dated = dated] /\ dated \in BOOLEAN
      BY <2>1 DEF WithApproval, Awaits
    <3>3. view.applied /\ Awaits(view) => dated
      BY <3>1 DEF Promised, Awaits
    <3> HIDE DEF dated, view
    <3>4. /\ t.view[b].status = view.status /\ t.view[b].applied = view.applied
          /\ t.view[b].covered = view.covered /\ t.view[b].dated = dated
      BY <3>1, <3>2 DEF CompanyView
    <3> QED  BY <3>3, <3>4 DEF Dates, Awaits
  <2> QED  BY <2>1, <2>2 DEF DeskTrue
<1> QED  BY <1>1, <1>2, <1>3, <1>4, <1>5, <1>6, ReadsTrue DEF Turns

DesksTrue == \A k \in Clerk : DeskTrue(desk[k])

LEMMA DesksTrueStep ==
  ASSUME ConsoleInv, DesksTrue, [NoticesNext]_noticedVars
  PROVE  DesksTrue'
<1>1. /\ [Next]_vars /\ RowsInv /\ VersionsInv /\ FilesKept
      /\ desk \in [Clerk -> Desk] /\ \A j \in Clerk : DeskFits(desk[j])
  BY NoticesAreSteps DEF ConsoleInv, NoticesInv, NoticesTyped
<1>2. UNCHANGED desk \/ \E k \in Clerk : \E t : Turns(k, t) /\ desk' = [desk EXCEPT ![k] = t]
  BY DesksTurn DEF ConsoleInv
<1>3. \A j \in Clerk : desk'[j] \in Desk /\ DeskFits(desk'[j]) /\ DeskTrue(desk'[j])
  <2>1. ASSUME NEW k \in Clerk, NEW t, Turns(k, t), desk' = [desk EXCEPT ![k] = t], NEW j \in Clerk
        PROVE  desk'[j] \in Desk /\ DeskFits(desk'[j]) /\ DeskTrue(desk'[j])
    <3>1. t \in Desk /\ DeskFits(t)
      BY <2>1, TurnsTyped DEF ConsoleInv
    <3>2. DeskTrue(t)
      BY <2>1, TurnsTrue DEF DesksTrue
    <3>3. desk'[j] = IF j = k THEN t ELSE desk[j]
      BY <1>1, <2>1
    <3> QED  BY <1>1, <3>1, <3>2, <3>3 DEF DesksTrue
  <2> QED  BY <1>1, <1>2, <2>1 DEF DesksTrue
<1>4. ASSUME NEW j \in Clerk PROVE DeskTrue(desk[j])'
  <2>1. PICK t : t = desk'[j] /\ t \in Desk /\ DeskFits(t) /\ DeskTrue(t)
    BY <1>3
  <2>2. DeskTrue(t)'
    BY <1>1, <2>1, TrueStays
  <2> QED  BY <2>1, <2>2 DEF DeskTrue, Promised, Kept
<1> QED  BY <1>4 DEF DesksTrue

(* Whatever is decided between the reads of a view, it does not contradict *)
(* itself, and a document that is found has its file, for any number of    *)
(* clerks (detail, list, download).                                        *)
THEOREM ViewsConsistent == NoticesSpec => []ViewIsConsistent
<1>1. NoticesInit => RowsTold /\ DesksTrue
  <2> SUFFICES ASSUME NoticesInit PROVE RowsTold /\ DesksTrue
    OBVIOUS
  <2>1. RowsTold
    BY DEF NoticesInit, Init, RowsTold, Active
  <2>2. \A k \in Clerk : desk[k].at = "idle"
    BY DEF NoticesInit, IdleDesk
  <2> QED  BY <2>1, <2>2 DEF DesksTrue, DeskTrue
<1>2. NoticesSpec => [](NoticesInv /\ ProvisionInv /\ VersionsInv /\ FilesKept)
  BY NoticesHold, NoticesAffiliate, ProvisionHolds, FilesHold, PTL
<1>3. NoticesInv /\ RowsTold /\ [NoticesNext]_noticedVars => RowsTold'
  BY NoticesAreSteps, RowsToldStep DEF NoticesInv
<1>4. (NoticesInv /\ ProvisionInv /\ VersionsInv /\ FilesKept) /\ RowsTold /\ DesksTrue
        /\ [NoticesNext]_noticedVars => DesksTrue'
  BY DesksTrueStep DEF ConsoleInv
<1>5. DesksTrue => ViewIsConsistent
  BY DEF DesksTrue, DeskTrue, Dates, Kept, ViewIsConsistent
<1> QED  BY <1>1, <1>2, <1>3, <1>4, <1>5, PTL DEF NoticesSpec

-----------------------------------------------------------------------------
(* Every e-mail has somebody to go to: a company that was decided on had   *)
(* applied, and its row names a contact ever after.                        *)

Applied(c) == company[c].status # "none" /\ company[c].contact \in Contact

Addressed ==
  /\ \A c \in Company : lastReview[c] # None => Applied(c)
  /\ \A h \in Handler : request[h].at = "requesting" =>
       Applied(request[h].company) /\ request[h].contact \in Contact
  /\ \A k \in Clerk : desk[k].at = "resending" => Applied(desk[k].company)

LEMMA AppliedStays ==
  ASSUME RowsInv, [Next]_vars, NEW c \in Company, Applied(c)
  PROVE  Applied(c)'
<1>1. company \in [Company -> CompanyRow]
  BY DEF RowsInv, RowsTypeOK
<1>2. ASSUME NEW b \in Company, NEW row, company' = [company EXCEPT ![b] = row],
             b = c => row.status # "none" /\ row.contact \in Contact
      PROVE  Applied(c)'
  <2>1. company'[c] = IF c = b THEN row ELSE company[c]
    BY <1>1, <1>2
  <2> QED  BY <1>2, <2>1 DEF Applied
<1>3. ASSUME UNCHANGED company PROVE Applied(c)'
  BY <1>3 DEF Applied
<1>4. ASSUME NEW h \in Handler, RequestMoves(h) PROVE UNCHANGED company
  BY <1>4 DEF RequestMoves, BeginSubmission, BeginReplacement, BeginRequestDocuments, MovesDone,
              FindPendingCompany, RemoveStaged, tables
<1>5. ASSUME NEW h \in Handler, RollbackPromoted(h) \/ ReplaceSingleDocument(h) \/ RequestDocuments(h)
      PROVE  UNCHANGED company
  BY <1>5 DEF RollbackPromoted, ReplaceSingleDocument, RequestDocuments, tables
<1>6. ASSUME NEW h \in Handler, UpsertPendingCompany(h) PROVE Applied(c)'
  <2> DEFINE b == request[h].company
             row == [status |-> "pending", registered |-> company[b].registered + 1,
                     contact |-> request[h].contact]
  <2>1. company' = [company EXCEPT ![b] = row] /\ request[h].at = "submitting"
    BY <1>6 DEF UpsertPendingCompany
  <2>2. b \in Company /\ request[h].contact \in Contact
    BY <2>1, AboutCompany DEF RowsInv, Fits, Request
  <2>3. row.status = "pending" /\ row.contact \in Contact
    BY <2>2
  <2> HIDE DEF b, row
  <2> QED  BY <1>2, <2>1, <2>2, <2>3
<1>7. ASSUME NEW b \in Company, NEW s \in {"rejected", "active"},
             company' = [company EXCEPT ![b].status = s]
      PROVE  Applied(c)'
  <2> DEFINE row == [company[b] EXCEPT !.status = s]
  <2>1. company' = [company EXCEPT ![b] = row] /\ row.status = s /\ row.contact = company[b].contact
    BY <1>1, <1>7 DEF CompanyRow
  <2> HIDE DEF row
  <2> QED  BY <1>2, <2>1 DEF Applied
<1>8. ASSUME NEW b \in Company, RejectCompany(b) \/ \E x \in Txn : CommitApproval(x, b)
      PROVE  Applied(c)'
  BY <1>7, <1>8 DEF RejectCompany, CommitApproval
<1>9. ASSUME NEW x \in Txn, NEW b \in Company, NEW p \in Contact, CommitProvisionNew(x, b, p)
      PROVE  Applied(c)'
  <2>1. /\ company[b].status = "none"
        /\ company' = [company EXCEPT ![b] = [status |-> "active", registered |-> 1, contact |-> None]]
    BY <1>9 DEF CommitProvisionNew
  <2> QED  BY <1>2, <2>1 DEF Applied
<1>10. FilesStep \/ UNCHANGED affiliationVars => UNCHANGED company
  BY DEF FilesStep, Stage, PurgeStaging, CopyDocument, affiliationVars, tables
<1> QED
  BY <1>3, <1>4, <1>5, <1>6, <1>8, <1>9, <1>10, KindsOfSteps DEF RequestEnds

(* A request for documents is one that was, or has just read its company.  *)
LEMMA RequestsAsk ==
  ASSUME RowsInv, [Next]_vars, NEW g \in Handler, request'[g].at = "requesting"
  PROVE  \/ request'[g] = request[g]
         \/ \E c \in Company : /\ company[c].status = "pending"
                               /\ request'[g].company = c
                               /\ request'[g].contact = company[c].contact
<1> DEFINE Goal == \/ request'[g] = request[g]
                   \/ \E c \in Company : /\ company[c].status = "pending"
                                         /\ request'[g].company = c
                                         /\ request'[g].contact = company[c].contact
<1>1. request \in [Handler -> Request] /\ \A r \in Request : r = [r EXCEPT !.at = r.at]
  BY DEF RowsInv, RowsTypeOK, Request
<1>2. ASSUME NEW h \in Handler, NEW r, request' = [request EXCEPT ![h] = r], r.at # "requesting"
      PROVE  Goal
  BY <1>1, <1>2
<1>3. ASSUME NEW h \in Handler, NEW c \in Company, NEW p \in Contact,
             NEW fs \in Injection(DocType, Upload), BeginSubmission(h, c, p, fs)
      PROVE  Goal
  <2> DEFINE r == [IdleRequest EXCEPT !.at = "moving", !.company = c, !.contact = p,
                                 !.found = company[c].status, !.files = fs, !.asOf = Decisions(c)]
  <2>1. request' = [request EXCEPT ![h] = r]
    BY <1>3 DEF BeginSubmission
  <2>2. r.at = "moving"
    BY DEF IdleRequest
  <2> HIDE DEF r
  <2> QED  BY <1>2, <2>1, <2>2
<1>4. ASSUME NEW h \in Handler, NEW c \in Company, NEW d \in DocType, NEW f \in Upload,
             BeginReplacement(h, c, d, f)
      PROVE  Goal
  <2> DEFINE r == [IdleRequest EXCEPT !.at = "moving", !.company = c, !.types = {d},
                                 !.files = [NoFiles EXCEPT ![d] = f]]
  <2>1. request' = [request EXCEPT ![h] = r]
    BY <1>4 DEF BeginReplacement
  <2>2. r.at = "moving"
    BY DEF IdleRequest
  <2> HIDE DEF r
  <2> QED  BY <1>2, <2>1, <2>2
<1>5. ASSUME NEW h \in Handler, NEW c \in Company, NEW types \in (SUBSET DocType) \ {{}},
             BeginRequestDocuments(h, c, types)
      PROVE  Goal
  <2> DEFINE r == [IdleRequest EXCEPT !.at = "requesting", !.company = c,
                                 !.contact = company[c].contact, !.types = types,
                                 !.asOf = Decisions(c)]
  <2>1. request' = [request EXCEPT ![h] = r] /\ company[c].status = "pending"
    BY <1>5 DEF BeginRequestDocuments
  <2>2. r.company = c /\ r.contact = company[c].contact
    BY DEF IdleRequest
  <2> HIDE DEF r
  <2>3. request'[g] = request[g] \/ request'[g] = r
    BY <1>1, <2>1
  <2> QED  BY <2>1, <2>2, <2>3
<1>6. ASSUME NEW h \in Handler, MovesDone(h) PROVE Goal
  <2>1. PICK at \in {"replacing", "submitting"} : request' = [request EXCEPT ![h].at = at]
    BY <1>6 DEF MovesDone
  <2> DEFINE r == [request[h] EXCEPT !.at = at]
  <2>2. request' = [request EXCEPT ![h] = r] /\ r.at = at
    BY <1>1, <2>1 DEF Request
  <2> HIDE DEF r
  <2> QED  BY <1>2, <2>1, <2>2
<1>7. ASSUME NEW h \in Handler, FindPendingCompany(h) PROVE Goal
  <2> DEFINE seen == Decisions(request[h].company)
             r == [request[h] EXCEPT !.at = "upserting", !.asOf = seen]
  <2>1. request' = [request EXCEPT ![h] = r] /\ r.at = "upserting"
    BY <1>1, <1>7 DEF FindPendingCompany, Request
  <2> HIDE DEF r
  <2> QED  BY <1>2, <2>1
<1>8. ASSUME NEW h \in Handler, NEW d \in DocType, RemoveStaged(h, d) PROVE Goal
  <2> DEFINE r == [request[h] EXCEPT !.moved = @ \cup {d}]
  <2>1. request' = [request EXCEPT ![h] = r] /\ r.at = "moving"
    BY <1>1, <1>8 DEF RemoveStaged, Request
  <2> HIDE DEF r
  <2> QED  BY <1>2, <2>1
<1>9. ASSUME NEW h \in Handler, RequestEnds(h) PROVE Goal
  <2>1. request' = [request EXCEPT ![h] = IdleRequest] /\ IdleRequest.at = "idle"
    BY <1>9 DEF RequestEnds, RollbackPromoted, UpsertPendingCompany, ReplaceSingleDocument,
                RequestDocuments, Finish, IdleRequest
  <2> QED  BY <1>2, <2>1
<1>10. ASSUME \/ FilesStep \/ UNCHANGED affiliationVars
              \/ \E c \in Company : RejectCompany(c)
              \/ \E x \in Txn, c \in Company :
                   CommitApproval(x, c) \/ \E p \in Contact : CommitProvisionNew(x, c, p)
       PROVE  Goal
  BY <1>10 DEF FilesStep, Stage, PurgeStaging, CopyDocument, affiliationVars, RejectCompany,
               CommitApproval, CommitProvisionNew
<1> QED
  BY <1>3, <1>4, <1>5, <1>6, <1>7, <1>8, <1>9, <1>10, KindsOfSteps DEF RequestMoves

LEMMA EmailTyped ==
  ASSUME Mails \subseteq EmailMessage, NEW p \in Contact, NEW c \in Company,
         NEW d \in CompanyDecision, NEW n \in 0..MaxPasswords, Email(p, c, d, n),
         UNCHANGED <<sent, failed>>
  PROVE  Mails' \subseteq EmailMessage
<1>1. [to |-> p, company |-> c, decision |-> d, password |-> n] \in EmailMessage
  BY DEF EmailMessage
<1> QED  BY <1>1 DEF Email, Mails

LEMMA MailsStep ==
  ASSUME NoticesInv, ProvisionInv, Addressed, Mails \subseteq EmailMessage,
         [NoticesNext]_noticedVars
  PROVE  Mails' \subseteq EmailMessage
<1>1. /\ NoticesTyped /\ 0 \in 0..MaxPasswords
      /\ \A c \in Company : company[c].status = "pending" => company[c].contact \in Contact
  BY NoticesAssumption DEF NoticesInv, ProvisionInv
<1>2. ASSUME UNCHANGED mails PROVE Mails' \subseteq EmailMessage
  BY <1>2 DEF mails, Mails
<1>3. ASSUME NEW x \in Txn, NEW c \in Company, Approve(x, c) PROVE Mails' \subseteq EmailMessage
  <2> DEFINE p == company[c].contact
             n == issued + 1
  <2>1. /\ company[c].status = "pending" /\ NewPassword(p) /\ UNCHANGED <<sent, failed>>
        /\ Email(p, c, "approved", n)
    BY <1>3 DEF Approve, CommitApproval
  <2>2. p \in Contact /\ n \in 0..MaxPasswords
    BY <1>1, <2>1, PasswordTyped
  <2> HIDE DEF p, n
  <2> QED  BY <2>1, <2>2, EmailTyped DEF CompanyDecision
<1>4. ASSUME NEW c \in Company, Reject(c) PROVE Mails' \subseteq EmailMessage
  <2>1. /\ company[c].status = "pending" /\ UNCHANGED <<sent, failed>>
        /\ Email(company[c].contact, c, "rejected", 0)
    BY <1>4 DEF Reject, RejectCompany, Rejectable
  <2> QED  BY <1>1, <2>1, EmailTyped DEF CompanyDecision
<1>5. ASSUME NEW h \in Handler, AskForDocuments(h) PROVE Mails' \subseteq EmailMessage
  <2>1. /\ request[h].at = "requesting" /\ UNCHANGED <<sent, failed>>
        /\ Email(request[h].contact, request[h].company, "documents_requested", 0)
    BY <1>5 DEF AskForDocuments, RequestDocuments
  <2>2. request[h].company \in Company /\ request[h].contact \in Contact
    BY <2>1, AboutCompany DEF NoticesInv, RowsInv, Addressed
  <2> QED  BY <1>1, <2>1, <2>2, EmailTyped DEF CompanyDecision
<1>6. ASSUME NEW k \in Clerk, ResendNotification(k) PROVE Mails' \subseteq EmailMessage
  <2> DEFINE c == desk[k].company
  <2>1. /\ desk[k].at = "resending" /\ desk[k].last \in CompanyDecision
        /\ UNCHANGED <<sent, failed>>
        /\ Email(company[c].contact, c, desk[k].last, 0)
    BY <1>6 DEF ResendNotification, CompanyDecision
  <2>2. c \in Company /\ company[c].contact \in Contact
    BY <2>1 DEF NoticesInv, DeskFits, Addressed, Applied
  <2> HIDE DEF c
  <2> QED  BY <1>1, <2>1, <2>2, EmailTyped
<1>7. ASSUME NEW k \in Clerk, ReissueCredentials(k) PROVE Mails' \subseteq EmailMessage
  <2> DEFINE c == desk[k].company
             p == contactAdmin[c]
             n == issued + 1
  <2>1. /\ desk[k].at = "resending" /\ p # None /\ NewPassword(p) /\ UNCHANGED <<sent, failed>>
        /\ Email(p, c, "credentials_reissued", n)
    BY <1>7 DEF ReissueCredentials, AdminOf
  <2>2. c \in Company
    BY <2>1 DEF NoticesInv, DeskFits
  <2>3. p \in Contact /\ n \in 0..MaxPasswords
    BY <1>1, <2>1, <2>2, PasswordTyped DEF NoticesTyped
  <2> HIDE DEF c, p, n
  <2> QED  BY <2>1, <2>2, <2>3, EmailTyped DEF CompanyDecision
<1>8. ASSUME NEW k \in Clerk, Console(k), ~(ResendNotification(k) \/ ReissueCredentials(k))
      PROVE  UNCHANGED mails
  BY <1>8 DEF Console, GetLastReview, OpenDetail, ReadDetail, Download, List, FindApprovalDates,
              LeaveDesk
<1>9. ASSUME NEW m \in outbox, SendSafely(m) PROVE Mails' = Mails
  BY <1>9 DEF SendSafely, Send, Mails
<1>10. ASSUME \/ UNCHANGED noticeVars \/ UNCHANGED noticedVars
              \/ \E x \in Txn, c \in Company, p \in Contact : ProvisionNew(x, c, p)
              \/ \E p \in Contact : RotateStaffPassword(p)
              \/ \E t \in Town : ChangeCoverage(t)
       PROVE  UNCHANGED mails
  BY <1>10 DEF noticeVars, noticedVars, ProvisionNew, RotateStaffPassword, ChangeCoverage, mails
<1> QED
  BY <1>2, <1>3, <1>4, <1>5, <1>6, <1>7, <1>8, <1>9, <1>10 DEF NoticesNext, Deciding, Apart

(* Which decisions a step may note, and what is true of their companies.   *)
LEMMA NotedApplied ==
  ASSUME NoticesInv, ProvisionInv, Addressed, [NoticesNext]_noticedVars
  PROVE  \A c \in Company : lastReview'[c] # None => Applied(c)
<1>1. lastReview \in [Company -> CompanyDecision \cup {None}]
  BY DEF NoticesInv, NoticesTyped
<1>2. ASSUME NEW b \in Company, NEW d, LastReview(b, d), Applied(b)
      PROVE  \A c \in Company : lastReview'[c] # None => Applied(c)
  <2>1. \A c \in Company : lastReview'[c] = IF c = b THEN d ELSE lastReview[c]
    BY <1>1, <1>2 DEF LastReview
  <2> QED  BY <1>2, <2>1 DEF Addressed
<1>3. \A c \in Company : company[c].status = "pending" => Applied(c)
  BY DEF ProvisionInv, Applied
<1>4. ASSUME NEW c \in Company, Reject(c) \/ \E x \in Txn : Approve(x, c)
      PROVE  company[c].status = "pending" /\ \E d : LastReview(c, d)
  BY <1>4 DEF Reject, RejectCompany, Rejectable, Approve, CommitApproval
<1>5. ASSUME NEW h \in Handler, AskForDocuments(h)
      PROVE  \E b \in Company : \E d : LastReview(b, d) /\ Applied(b)
  <2>1. request[h].at = "requesting" /\ LastReview(request[h].company, "documents_requested")
    BY <1>5 DEF AskForDocuments, RequestDocuments
  <2> QED  BY <2>1, AboutCompany DEF NoticesInv, RowsInv, Addressed
<1>6. ASSUME NEW k \in Clerk, ReissueCredentials(k)
      PROVE  \E b \in Company : \E d : LastReview(b, d) /\ Applied(b)
  <2>1. desk[k].at = "resending" /\ LastReview(desk[k].company, "credentials_reissued")
    BY <1>6 DEF ReissueCredentials
  <2> QED  BY <2>1 DEF NoticesInv, DeskFits, Addressed
<1>7. ASSUME NEW k \in Clerk, Console(k), ~ReissueCredentials(k) PROVE UNCHANGED lastReview
  BY <1>7 DEF Console, GetLastReview, OpenDetail, ResendNotification, ReadDetail, Download, List,
              FindApprovalDates, LeaveDesk
<1>8. ASSUME \/ UNCHANGED noticeVars \/ UNCHANGED noticedVars
             \/ \E x \in Txn, c \in Company, p \in Contact : ProvisionNew(x, c, p)
             \/ \E m \in outbox : SendSafely(m)
             \/ \E p \in Contact : RotateStaffPassword(p)
             \/ \E t \in Town : ChangeCoverage(t)
      PROVE  UNCHANGED lastReview
  BY <1>8 DEF noticeVars, noticedVars, ProvisionNew, SendSafely, RotateStaffPassword, ChangeCoverage
<1>9. ASSUME UNCHANGED lastReview PROVE \A c \in Company : lastReview'[c] # None => Applied(c)
  BY <1>9 DEF Addressed
<1> QED
  BY <1>2, <1>3, <1>4, <1>5, <1>6, <1>7, <1>8, <1>9 DEF NoticesNext, Deciding, Apart

LEMMA AddressedStep ==
  ASSUME NoticesInv, ProvisionInv, Addressed, [NoticesNext]_noticedVars
  PROVE  Addressed'
<1>1. [Next]_vars /\ RowsInv /\ desk \in [Clerk -> Desk]
  BY NoticesAreSteps DEF NoticesInv, NoticesTyped
<1>2. \A c \in Company : lastReview'[c] # None => Applied(c)'
  BY <1>1, NotedApplied, AppliedStays
<1>3. ASSUME NEW g \in Handler, request'[g].at = "requesting"
      PROVE  Applied(request[g].company)' /\ request'[g].contact \in Contact
  <2>1. PICK r : r = request'[g]
    OBVIOUS
  <2>2. r.company \in Company /\ Applied(r.company) /\ r.contact \in Contact
    <3>1. CASE r = request[g]
      BY <1>1, <1>3, <2>1, <3>1, AboutCompany DEF RowsInv, Addressed
    <3>2. CASE \E c \in Company : /\ company[c].status = "pending"
                                  /\ r.company = c /\ r.contact = company[c].contact
      BY <3>2 DEF ProvisionInv, Applied
    <3> QED  BY <1>1, <1>3, <2>1, <3>1, <3>2, RequestsAsk
  <2>3. Applied(r.company)'
    BY <1>1, <2>2, AppliedStays
  <2> QED  BY <2>1, <2>2, <2>3 DEF Applied
<1>4. ASSUME NEW j \in Clerk, desk'[j].at = "resending" PROVE Applied(desk[j].company)'
  <2>1. PICK t : t = desk'[j]
    OBVIOUS
  <2>2. t.company \in Company /\ Applied(t.company)
    <3>1. ASSUME NEW k \in Clerk, NEW u, Turns(k, u), u.at = "resending"
          PROVE  \E c \in Company : lastReview[c] # None /\ u.company = c
      <4>1. IdleDesk.at = "idle"
        BY DEF IdleDesk
      <4>2. \A c \in Company : Asking(c).company = c /\ Opening(c).at = "viewing"
        BY DEF Asking, Opening, IdleDesk
      <4>3. Reading(k).at # "resending" /\ \A status : Listing(status).at = "listing"
        BY DEF Reading, Listing, IdleDesk
      <4>4. Listed(k).at = "listed" /\ \A d \in DocType : Fetching(k, d).at = "fetching"
        BY <1>1 DEF Listed, Fetching, Desk
      <4> QED  BY <3>1, <4>1, <4>2, <4>3, <4>4 DEF Turns
    <3>2. CASE desk'[j] = desk[j]
      BY <1>4, <2>1, <3>2 DEF NoticesInv, DeskFits, Addressed
    <3>3. CASE \E k \in Clerk : \E u : Turns(k, u) /\ desk'[j] = u
      BY <1>4, <2>1, <3>1, <3>3 DEF Addressed
    <3>4. UNCHANGED desk \/ \E k \in Clerk : \E u : Turns(k, u) /\ desk' = [desk EXCEPT ![k] = u]
      BY DesksTurn
    <3> QED  BY <1>1, <3>2, <3>3, <3>4
  <2>3. Applied(t.company)'
    BY <1>1, <2>2, AppliedStays
  <2> QED  BY <2>1, <2>3 DEF Applied
<1> QED  BY <1>2, <1>3, <1>4 DEF Addressed

(* All that is kept of affiliations and told of them is well typed, and    *)
(* every e-mail has a contact to go to (resendNotification,                *)
(* reissueCredentials).                                                    *)
THEOREM NoticesWellTyped == NoticesSpec => []NoticesTypeOK
<1>1. NoticesInit => Addressed /\ Mails \subseteq EmailMessage
  BY DEF NoticesInit, Init, Addressed, IdleRequest, IdleDesk, Mails
<1>2. NoticesSpec => [](NoticesInv /\ ProvisionInv /\ AffiliationTypeOK)
  BY NoticesHold, NoticesAffiliate, ProvisionHolds, AffiliationTyped, PTL
<1>3. NoticesInv /\ ProvisionInv /\ Addressed /\ Mails \subseteq EmailMessage
        /\ [NoticesNext]_noticedVars => Addressed' /\ Mails' \subseteq EmailMessage
  BY AddressedStep, MailsStep
<1>4. NoticesInv /\ AffiliationTypeOK /\ Mails \subseteq EmailMessage => NoticesTypeOK
  BY DEF NoticesInv, NoticesTyped, NoticesTypeOK, Mails
<1>5. (Mails \subseteq EmailMessage)' <=> Mails' \subseteq EmailMessage
  BY DEF Mails, EmailMessage, CompanyDecision
<1> QED  BY <1>1, <1>2, <1>3, <1>4, <1>5, PTL DEF NoticesSpec

=============================================================================

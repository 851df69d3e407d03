-------------------------- MODULE SettlementProofs --------------------------
(***************************************************************************)
(* What holds of the week of a driver for any trips, requests and bounds:  *)
(* no commission is remitted twice and nothing beyond what was collected,  *)
(* answers are true, and the ledger implements the account of the week.    *)
(* Whoever decides on a mark or a reversal decides on the whole ledger,    *)
(* because he holds the driver's row until he has written; a remittance is *)
(* reversed at most once; and so what the ledger adds up to is what its    *)
(* marks in force have paid.                                               *)
(***************************************************************************)
EXTENDS Settlement, FiniteSetTheorems, WellFoundedInduction, TLAPS

-----------------------------------------------------------------------------
(* Sums. MapThenSumSet is a recursive function over the subsets of a set:  *)
(* that there is one such function, and what it sums up to, is shown by    *)
(* least counterexamples among the finite subsets.                         *)

Some(s) == CHOOSE x \in s : TRUE

SumStep(f, iter, s) == IF s = {} THEN 0 ELSE f[Some(s)] + iter[s \ {Some(s)}]

IsSum(f, S, iter) == iter = [s \in SUBSET S |-> SumStep(f, iter, s)]

Iter(f, S) == CHOOSE iter : IsSum(f, S, iter)

SumOf(f, S) == Iter(f, S)[S]

(* A set of finite sets has a least member: no other is part of it.        *)
LEMMA Least ==
  ASSUME NEW S, IsFiniteSet(S), NEW B, B \subseteq SUBSET S, B # {}
  PROVE  \E T \in B : \A U \in B : U \subseteq T => U = T
<1>1. B \subseteq FiniteSubsetsOf(S)
  BY FS_Subset DEF FiniteSubsetsOf
<1>2. PICK T \in B : \A U \in B : <<U, T>> \notin StrictSubsetOrdering(S)
  BY <1>1, FS_StrictSubsetOrderingWellFounded, WFMin
<1> QED  BY <1>2 DEF StrictSubsetOrdering

LEMMA SomeIn == ASSUME NEW s, s # {} PROVE Some(s) \in s
BY DEF Some

LEMMA SumRestricts ==
  ASSUME NEW f, NEW S, NEW iter, IsSum(f, S, iter), NEW T \in SUBSET S
  PROVE  IsSum(f, T, [s \in SUBSET T |-> iter[s]])
<1> DEFINE h == [s \in SUBSET T |-> iter[s]]
<1>1. ASSUME NEW s \in SUBSET T PROVE h[s] = SumStep(f, h, s)
  <2>1. s \in SUBSET S /\ s \ {Some(s)} \in SUBSET T
    OBVIOUS
  <2>2. iter[s] = SumStep(f, iter, s)
    BY <2>1 DEF IsSum
  <2> QED  BY <2>1, <2>2 DEF SumStep
<1> HIDE DEF h
<1>2. h = [s \in SUBSET T |-> h[s]]
  BY DEF h
<1>3. h = [s \in SUBSET T |-> SumStep(f, h, s)]
  BY <1>1, <1>2
<1> QED  BY <1>3 DEF IsSum, h

LEMMA SumUnique ==
  ASSUME NEW f, NEW S, IsFiniteSet(S), NEW g, IsSum(f, S, g), NEW h, IsSum(f, S, h)
  PROVE  g = h
<1> DEFINE B == { s \in SUBSET S : g[s] # h[s] }
<1>1. /\ \A s \in SUBSET S : g[s] = SumStep(f, g, s) /\ h[s] = SumStep(f, h, s)
      /\ g = [s \in SUBSET S |-> g[s]] /\ h = [s \in SUBSET S |-> h[s]]
  BY DEF IsSum
<1>2. ASSUME B # {} PROVE FALSE
  <2>1. PICK s \in B : \A u \in B : u \subseteq s => u = s
    <3>1. B \subseteq SUBSET S
      OBVIOUS
    <3> HIDE DEF B
    <3> QED  BY <1>2, <3>1, Least
  <2>2. s # {}
    BY <1>1, <2>1 DEF SumStep
  <2>3. s \ {Some(s)} \notin B /\ s \ {Some(s)} \in SUBSET S
    BY <2>1, <2>2, SomeIn
  <2> QED  BY <1>1, <2>1, <2>2, <2>3 DEF SumStep
<1> QED  BY <1>1, <1>2

LEMMA SumExists ==
  ASSUME NEW f, NEW S, IsFiniteSet(S)
  PROVE  IsSum(f, S, Iter(f, S))
<1> DEFINE Has(T) == \E g : IsSum(f, T, g)
           B == { T \in SUBSET S : ~Has(T) }
           G(T) == Iter(f, T)
<1>1. ASSUME NEW T, Has(T) PROVE IsSum(f, T, G(T))
  BY <1>1 DEF Iter
<1>2. ASSUME B # {} PROVE FALSE
  <2>1. PICK T \in B : \A U \in B : U \subseteq T => U = T
    <3>1. B \subseteq SUBSET S
      OBVIOUS
    <3> HIDE DEF B
    <3> QED  BY <1>2, <3>1, Least
  <2>2. ASSUME NEW U \in SUBSET T, U # T PROVE IsSum(f, U, G(U)) /\ IsFiniteSet(U)
    <3>1. U \in SUBSET S /\ IsFiniteSet(U)
      BY <2>1, FS_Subset
    <3>2. Has(U)
      BY <2>1, <2>2, <3>1
    <3> HIDE DEF Has, G
    <3> QED  BY <1>1, <3>1, <3>2
  <2> DEFINE rest(s) == s \ {Some(s)}
             h == [s \in SUBSET T |-> IF s = {} THEN 0 ELSE f[Some(s)] + G(rest(s))[rest(s)]]
  <2>3. ASSUME NEW s \in SUBSET T, s # {} PROVE rest(s) \in SUBSET T /\ rest(s) # T
    BY <2>3, SomeIn
  <2>4. ASSUME NEW U \in SUBSET T, U # T PROVE h[U] = G(U)[U]
    <3>1. G(U)[U] = SumStep(f, G(U), U)
      BY <2>2, <2>4 DEF IsSum
    <3>2. CASE U = {}
      BY <3>1, <3>2 DEF SumStep
    <3>3. CASE U # {}
      <4>1. rest(U) \in SUBSET U /\ rest(U) \in SUBSET T /\ rest(U) # T
        BY <2>3, <3>3
      <4>2. IsSum(f, rest(U), [s \in SUBSET rest(U) |-> G(U)[s]])
        BY <2>2, <2>4, <4>1, SumRestricts
      <4> HIDE DEF G, rest
      <4>3. G(rest(U)) = [s \in SUBSET rest(U) |-> G(U)[s]]
        BY <2>2, <4>1, <4>2, SumUnique
      <4>4. G(rest(U))[rest(U)] = G(U)[rest(U)]
        BY <4>3
      <4> QED  BY <2>4, <3>1, <3>3, <4>4 DEF SumStep, rest
    <3> QED  BY <3>2, <3>3
  <2>5. ASSUME NEW s \in SUBSET T PROVE h[s] = SumStep(f, h, s)
    <3>1. CASE s = {}
      BY <3>1 DEF SumStep
    <3>2. CASE s # {}
      <4>1. h[rest(s)] = G(rest(s))[rest(s)]
        BY <2>3, <2>4, <3>2
      <4> HIDE DEF G
      <4> QED  BY <3>2, <4>1 DEF SumStep
    <3> QED  BY <3>1, <3>2
  <2>6. h = [s \in SUBSET T |-> h[s]]
    OBVIOUS
  <2> HIDE DEF h
  <2>7. IsSum(f, T, h)
    BY <2>5, <2>6 DEF IsSum
  <2> QED  BY <2>1, <2>7
<1>3. Has(S)
  BY <1>2
<1> QED  BY <1>1, <1>3

(* The sum over a set is defined step by step.                             *)
LEMMA SumUnfolds ==
  ASSUME NEW f, NEW S, IsFiniteSet(S)
  PROVE  SumOf(f, S) = IF S = {} THEN 0 ELSE f[Some(S)] + SumOf(f, S \ {Some(S)})
<1> DEFINE T == S \ {Some(S)}
           g == Iter(f, S)
<1>1. IsSum(f, S, g) /\ IsFiniteSet(T) /\ IsSum(f, T, Iter(f, T)) /\ T \in SUBSET S
  BY SumExists, FS_Subset
<1>2. g[S] = SumStep(f, g, S)
  BY <1>1 DEF IsSum
<1>3. IsSum(f, T, [s \in SUBSET T |-> g[s]])
  BY <1>1, SumRestricts
<1> HIDE DEF T, g
<1>4. Iter(f, T) = [s \in SUBSET T |-> g[s]]
  BY <1>1, <1>3, SumUnique
<1>5. Iter(f, T)[T] = g[T]
  BY <1>4
<1> QED  BY <1>2, <1>5 DEF SumOf, SumStep, g, T

LEMMA SumOfNone == \A f : SumOf(f, {}) = 0
BY SumUnfolds, FS_EmptySet

LEMMA SumInt ==
  ASSUME NEW S, IsFiniteSet(S), NEW f, \A x \in S : f[x] \in Int
  PROVE  SumOf(f, S) \in Int
<1> DEFINE B == { T \in SUBSET S : SumOf(f, T) \notin Int }
<1>1. ASSUME B # {} PROVE FALSE
  <2>1. PICK T \in B : \A U \in B : U \subseteq T => U = T
    <3>1. B \subseteq SUBSET S
      OBVIOUS
    <3> HIDE DEF B
    <3> QED  BY <1>1, <3>1, Least
  <2>2. IsFiniteSet(T)
    BY <2>1, FS_Subset
  <2>3. T # {}
    <3>1. SumOf(f, {}) = 0
      BY SumOfNone
    <3> QED  BY <2>1, <3>1
  <2>4. Some(T) \in T /\ f[Some(T)] \in Int
    BY <2>1, <2>3, SomeIn
  <2>5. SumOf(f, T \ {Some(T)}) \in Int
    BY <2>1, <2>4
  <2> QED  BY <2>1, <2>2, <2>3, <2>4, <2>5, SumUnfolds
<1> QED  BY <1>1

LEMMA SumNat ==
  ASSUME NEW S, IsFiniteSet(S), NEW f, \A x \in S : f[x] \in Nat
  PROVE  SumOf(f, S) \in Nat
<1> DEFINE B == { T \in SUBSET S : SumOf(f, T) \notin Nat }
<1>1. ASSUME B # {} PROVE FALSE
  <2>1. PICK T \in B : \A U \in B : U \subseteq T => U = T
    <3>1. B \subseteq SUBSET S
      OBVIOUS
    <3> HIDE DEF B
    <3> QED  BY <1>1, <3>1, Least
  <2>2. IsFiniteSet(T)
    BY <2>1, FS_Subset
  <2>3. T # {}
    <3>1. SumOf(f, {}) = 0
      BY SumOfNone
    <3> QED  BY <2>1, <3>1
  <2>4. Some(T) \in T /\ f[Some(T)] \in Nat
    BY <2>1, <2>3, SomeIn
  <2>5. SumOf(f, T \ {Some(T)}) \in Nat
    BY <2>1, <2>4
  <2> QED  BY <2>1, <2>2, <2>3, <2>4, <2>5, SumUnfolds
<1> QED  BY <1>1

(* Any member may be taken out first.                                      *)
LEMMA SumTakes ==
  ASSUME NEW S, IsFiniteSet(S), NEW f, \A x \in S : f[x] \in Int, NEW a \in S
  PROVE  SumOf(f, S) = f[a] + SumOf(f, S \ {a})
<1> DEFINE Takes(T) == \A x \in T : SumOf(f, T) = f[x] + SumOf(f, T \ {x})
           B == { T \in SUBSET S : ~Takes(T) }
<1>1. ASSUME B # {} PROVE FALSE
  <2>1. PICK T \in B : \A U \in B : U \subseteq T => U = T
    <3>1. B \subseteq SUBSET S
      OBVIOUS
    <3> HIDE DEF B
    <3> QED  BY <1>1, <3>1, Least
  <2>2. PICK x \in T : SumOf(f, T) # f[x] + SumOf(f, T \ {x})
    BY <2>1
  <2> DEFINE c == Some(T)
  <2>3. c \in T /\ IsFiniteSet(T) /\ IsFiniteSet(T \ {x}) /\ T # {} /\ T \in SUBSET S
    BY <2>1, <2>2, SomeIn, FS_Subset
  <2>4. SumOf(f, T) = f[c] + SumOf(f, T \ {c})
    BY <2>3, SumUnfolds
  <2>5. c # x
    BY <2>2, <2>4
  <2> HIDE DEF c
  <2>6. Takes(T \ {c}) /\ Takes(T \ {x})
    BY <2>1, <2>2, <2>3
  <2>7. (T \ {c}) \ {x} = (T \ {x}) \ {c} /\ x \in T \ {c} /\ c \in T \ {x}
    BY <2>2, <2>3, <2>5
  <2> DEFINE r == SumOf(f, (T \ {x}) \ {c})
  <2>8. SumOf(f, T \ {c}) = f[x] + r /\ SumOf(f, T \ {x}) = f[c] + r
    BY <2>6, <2>7
  <2>9. r \in Int /\ f[x] \in Int /\ f[c] \in Int
    <3>1. IsFiniteSet((T \ {x}) \ {c}) /\ \A y \in (T \ {x}) \ {c} : f[y] \in Int
      BY <2>3, FS_Subset
    <3> QED  BY <2>2, <2>3, <3>1, SumInt
  <2> HIDE DEF r
  <2> QED  BY <2>2, <2>4, <2>8, <2>9
<1> QED  BY <1>1

LEMMA SumAdds ==
  ASSUME NEW S, IsFiniteSet(S), NEW f, \A x \in S : f[x] \in Int, NEW a, a \notin S, f[a] \in Int
  PROVE  SumOf(f, S \cup {a}) = SumOf(f, S) + f[a]
<1>1. IsFiniteSet(S \cup {a}) /\ (S \cup {a}) \ {a} = S
  BY FS_AddElement
<1>2. SumOf(f, S) \in Int
  BY SumInt
<1>3. SumOf(f, S \cup {a}) = f[a] + SumOf(f, S)
  BY <1>1, SumTakes
<1> QED  BY <1>2, <1>3

(* A sum depends on what is summed only.                                   *)
LEMMA SumSame ==
  ASSUME NEW S, IsFiniteSet(S), NEW f, NEW g, \A x \in S : f[x] = g[x]
  PROVE  SumOf(f, S) = SumOf(g, S)
<1> DEFINE B == { T \in SUBSET S : SumOf(f, T) # SumOf(g, T) }
<1>1. ASSUME B # {} PROVE FALSE
  <2>1. PICK T \in B : \A U \in B : U \subseteq T => U = T
    <3>1. B \subseteq SUBSET S
      OBVIOUS
    <3> HIDE DEF B
    <3> QED  BY <1>1, <3>1, Least
  <2>2. IsFiniteSet(T)
    BY <2>1, FS_Subset
  <2>3. T # {}
    <3>1. SumOf(f, {}) = 0 /\ SumOf(g, {}) = 0
      BY SumOfNone
    <3> QED  BY <2>1, <3>1
  <2>4. Some(T) \in T /\ f[Some(T)] = g[Some(T)]
    BY <2>1, <2>3, SomeIn
  <2>5. SumOf(f, T \ {Some(T)}) = SumOf(g, T \ {Some(T)})
    BY <2>1, <2>4
  <2> QED  BY <2>1, <2>2, <2>3, <2>4, <2>5, SumUnfolds
<1> QED  BY <1>1

LEMMA SumGrows ==
  ASSUME NEW S, IsFiniteSet(S), NEW f, \A x \in S : f[x] \in Nat, NEW a \in S
  PROVE  f[a] <= SumOf(f, S)
<1>1. SumOf(f, S \ {a}) \in Nat /\ SumOf(f, S) = f[a] + SumOf(f, S \ {a})
  <2>1. IsFiniteSet(S \ {a}) /\ \A x \in S : f[x] \in Int
    BY FS_Subset
  <2> QED  BY <2>1, SumTakes, SumNat
<1> QED  BY <1>1

-----------------------------------------------------------------------------
(* The sums of the model.                                                  *)

LEMMA DueIs == Due = SumOf(Commission, collected)
BY DEF Due, MapThenSumSet, MapThenFoldSet, SumOf, Iter, IsSum, SumStep, Some

SignedOf(l) == [i \in DOMAIN l |-> Signed(l[i])]

LEMMA RemittedIs ==
  ASSUME NEW l
  PROVE  Remitted(l) = SumOf(SignedOf(l), DOMAIN l)
<1> DEFINE One(iter) == iter = [s \in SUBSET DOMAIN l |->
                                 IF s = {} THEN 0 ELSE Signed(l[Some(s)]) + iter[s \ {Some(s)}]]
           Other(iter) == IsSum(SignedOf(l), DOMAIN l, iter)
<1>1. ASSUME NEW iter, NEW s \in SUBSET DOMAIN l
      PROVE  (IF s = {} THEN 0 ELSE Signed(l[Some(s)]) + iter[s \ {Some(s)}])
               = SumStep(SignedOf(l), iter, s)
  <2>1. CASE s = {}
    BY <2>1 DEF SumStep
  <2>2. CASE s # {}
    <3>1. Some(s) \in DOMAIN l
      BY <2>2, SomeIn
    <3>2. SignedOf(l)[Some(s)] = Signed(l[Some(s)])
      BY <3>1 DEF SignedOf
    <3> QED  BY <2>2, <3>2 DEF SumStep
  <2> QED  BY <2>1, <2>2
<1>2. ASSUME NEW iter PROVE One(iter) <=> Other(iter)
  BY <1>1 DEF IsSum
<1>3. Remitted(l) = (CHOOSE iter : One(iter))[DOMAIN l]
  BY DEF Remitted, MapThenSumSet, MapThenFoldSet, Some
<1> HIDE DEF One, Other
<1>4. (CHOOSE iter : One(iter)) = (CHOOSE iter : Other(iter))
  BY <1>2
<1> QED  BY <1>3, <1>4 DEF SumOf, Iter, Other

LEMMA TotalIs ==
  ASSUME NEW p
  PROVE  Account!Total(p) = SumOf(p, DOMAIN p)
BY DEF Account!Total, Account!MapThenSumSet, Account!MapThenFoldSet, SumOf, Iter, IsSum, SumStep, Some

LEMMA DueTyped == TypeOK => Due \in Nat
<1> SUFFICES ASSUME TypeOK PROVE Due \in Nat
  OBVIOUS
<1>1. IsFiniteSet(collected) /\ \A t \in collected : Commission[t] \in Nat
  BY SettlementAssumption, FS_Subset DEF TypeOK
<1> QED  BY <1>1, SumNat, DueIs

LEMMA DueNext == Due' = SumOf(Commission, collected')
BY DEF Due, MapThenSumSet, MapThenFoldSet, SumOf, Iter, IsSum, SumStep, Some

(* A confirmation adds its commission.                                     *)
LEMMA DueGrows ==
  ASSUME TypeOK, NEW t \in Trip, MarkCashCollected(t)
  PROVE  Due' = Due + Commission[t] /\ Due \in Nat /\ Commission[t] \in Nat
<1>1. /\ IsFiniteSet(collected) /\ \A u \in collected : Commission[u] \in Int
      /\ t \notin collected /\ collected' = collected \cup {t} /\ Commission[t] \in Nat
  BY SettlementAssumption, FS_Subset DEF TypeOK, MarkCashCollected
<1>2. Due' = SumOf(Commission, collected')
  BY DueNext
<1>3. SumOf(Commission, collected \cup {t}) = SumOf(Commission, collected) + Commission[t]
  BY <1>1, SumAdds
<1> QED  BY <1>1, <1>2, <1>3, DueIs, DueTyped

LEMMA SignedTyped ==
  ASSUME NEW l \in Seq(Entry)
  PROVE  /\ Len(l) \in Nat /\ DOMAIN l = 1..Len(l) /\ IsFiniteSet(DOMAIN l)
         /\ \A i \in DOMAIN l : l[i] \in Entry /\ Signed(l[i]) \in Int /\ SignedOf(l)[i] = Signed(l[i])
         /\ Remitted(l) \in Int
<1>1. Len(l) \in Nat /\ DOMAIN l = 1..Len(l)
  OBVIOUS
<1>2. IsFiniteSet(DOMAIN l)
  BY <1>1, FS_Interval
<1>3. ASSUME NEW i \in DOMAIN l
      PROVE  l[i] \in Entry /\ Signed(l[i]) \in Int /\ SignedOf(l)[i] = Signed(l[i])
  <2>1. l[i] \in Entry
    OBVIOUS
  <2>2. l[i].amount \in Int
    BY <2>1 DEF Entry
  <2> QED  BY <2>1, <2>2 DEF Signed, SignedOf
<1>4. SumOf(SignedOf(l), DOMAIN l) \in Int
  BY <1>2, <1>3, SumInt
<1> QED  BY <1>1, <1>2, <1>3, <1>4, RemittedIs

(* The ledger after an insertion.                                          *)
LEMMA Appended ==
  ASSUME NEW l \in Seq(Entry), NEW e \in Entry, NEW m, m = Append(l, e)
  PROVE  /\ m \in Seq(Entry)
         /\ Len(l) \in Nat /\ Len(m) = Len(l) + 1
         /\ DOMAIN l = 1..Len(l) /\ DOMAIN m = 1..(Len(l) + 1)
         /\ \A i \in DOMAIN l : m[i] = l[i]
         /\ m[Len(l) + 1] = e
         /\ Remitted(m) = Remitted(l) + Signed(e)
<1>1. /\ m \in Seq(Entry)
      /\ Len(l) \in Nat /\ Len(m) = Len(l) + 1
      /\ DOMAIN l = 1..Len(l) /\ DOMAIN m = 1..(Len(l) + 1)
      /\ \A i \in DOMAIN l : m[i] = l[i]
      /\ m[Len(l) + 1] = e
  OBVIOUS
<1> DEFINE n == Len(l) + 1
           f == SignedOf(m)
<1>2. DOMAIN m = DOMAIN l \cup {n} /\ n \notin DOMAIN l /\ n \in DOMAIN m
  BY <1>1
<1>3. /\ IsFiniteSet(DOMAIN l)
      /\ \A i \in DOMAIN l : f[i] = SignedOf(l)[i] /\ f[i] \in Int
      /\ f[n] = Signed(e) /\ f[n] \in Int
  <2>1. \A i \in DOMAIN m : Signed(m[i]) \in Int /\ f[i] = Signed(m[i])
    BY <1>1, SignedTyped
  <2>2. IsFiniteSet(DOMAIN l) /\ \A i \in DOMAIN l : SignedOf(l)[i] = Signed(l[i])
    BY SignedTyped
  <2> HIDE DEF f
  <2> QED  BY <1>1, <1>2, <2>1, <2>2
<1> HIDE DEF f, n
<1>4. SumOf(f, DOMAIN l) = SumOf(SignedOf(l), DOMAIN l)
  BY <1>3, SumSame
<1>5. SumOf(f, DOMAIN l \cup {n}) = SumOf(f, DOMAIN l) + f[n]
  BY <1>2, <1>3, SumAdds
<1>6. Remitted(m) = Remitted(l) + Signed(e)
  BY <1>2, <1>3, <1>4, <1>5, RemittedIs DEF f
<1> QED  BY <1>1, <1>6

(* The driver's row is held by the one transaction between its lock and    *)
(* its end.                                                                *)
LockHolder ==
  \A c \in Call : call[c].at \in {"marking", "deciding", "reversing"} => lock = c

(* What a transaction read of the ledger under the lock is still all of it *)
(* when it decides.                                                        *)
DecidesOnAll ==
  \A c \in Call : call[c].at \in {"deciding", "reversing"} => call[c].seen = Len(ledger)

TargetExists ==
  \A c \in Call : call[c].at \in {"undoing", "reversing"} => call[c].target \in DOMAIN ledger

OnlyReversalsRefer ==
  \A i \in DOMAIN ledger : ledger[i].kind = "remittance" => ledger[i].reverses = None

(* What a request has counted was collected, and has not become less.      *)
CountedOfDue == \A c \in Call : call[c].due <= Due

AsksAnew == \A c \in Call : call[c].at \in {"marking", "deciding"} => call[c].answer = "none"

LedgerInv ==
  /\ TypeOK /\ LockHolder /\ DecidesOnAll /\ TargetExists /\ AsksAnew
  /\ OnlyReversalsRefer /\ ReversedOnce /\ CountedOfDue /\ Len(ledger) <= MaxEntries

-----------------------------------------------------------------------------

(* The empty ledger and the idle requests satisfy the invariant.           *)
LEMMA LedgerInvInit == Init => LedgerInv
<1> SUFFICES ASSUME Init PROVE LedgerInv
  OBVIOUS
<1>1. TypeOK
  BY DEF Init, TypeOK, Request, Blank
<1>2. LockHolder /\ DecidesOnAll /\ TargetExists /\ AsksAnew
  BY DEF Init, Blank, LockHolder, DecidesOnAll, TargetExists, AsksAnew
<1>3. OnlyReversalsRefer /\ ReversedOnce /\ Len(ledger) <= MaxEntries
  BY SettlementAssumption DEF Init, OnlyReversalsRefer, ReversedOnce
<1>4. CountedOfDue
  BY <1>1, DueTyped DEF Init, Blank, CountedOfDue
<1> QED
  BY <1>1, <1>2, <1>3, <1>4 DEF LedgerInv

(* A step writes the ledger only as an insertion of a transaction that     *)
(* holds the driver's row and has read all of it.                          *)
LEMMA LedgerWrites ==
  ASSUME [Next]_vars
  PROVE  \/ UNCHANGED ledger
         \/ \E c \in Call : EndRecord(c) /\ InsertRemittance(c)
         \/ \E c \in Call : EndReverse(c) /\ Reversible(c, call[c].target)
                                          /\ InsertReversal(call[c].target)
  BY DEF Next, vars, MarkCashCollected, CountCommissions, ShowReport, BeginRecord, ListLedger, EndRecord,
         SettledAlready, BalanceChanged, FindEntry, BeginReverse, EndReverse, Rollback

(* What a step of request c does to the requests, to the lock and to the   *)
(* ledger.                                                                 *)
Moves(c, to, due) ==
  /\ call' \in [Call -> Request]
  /\ call'[c].at = to /\ call'[c].due = due
  /\ \A d \in Call \ {c} : call'[d] = call[d]

Locks(c) == lock = None /\ lock' = c /\ ledger' = ledger

Reads(c) == lock' = lock /\ ledger' = ledger

Holds(c) == call[c].at \in {"marking", "deciding", "reversing"} /\ lock' = None

LEMMA CallSteps ==
  ASSUME LedgerInv, NEW c \in Call
  PROVE  /\ CountCommissions(c) => Moves(c, "counted", Due) /\ Reads(c)
         /\ ShowReport(c) => /\ Moves(c, "shown", 0) /\ Reads(c) /\ call[c].at = "counted"
                             /\ call'[c].expected = call[c].due - Remitted(ledger)
         /\ BeginRecord(c) => Moves(c, "marking", Due) /\ Locks(c) /\ call'[c].answer = "none"
         /\ ListLedger(c) => /\ Moves(c, "deciding", call[c].due) /\ Reads(c)
                             /\ call[c].at = "marking" /\ call'[c].seen = Len(ledger)
                             /\ call'[c].answer = call[c].answer
         /\ EndRecord(c) => Moves(c, "shown", 0) /\ Holds(c)
         /\ FindEntry(c) => Moves(c, "undoing", 0) /\ Reads(c) /\ call'[c].target \in DOMAIN ledger
         /\ BeginReverse(c) => /\ Moves(c, "reversing", call[c].due) /\ Locks(c)
                               /\ call[c].at = "undoing" /\ call'[c].target = call[c].target
                               /\ call'[c].seen = Len(ledger)
         /\ EndReverse(c) => Moves(c, "idle", 0) /\ Holds(c)
         /\ Rollback(c) => /\ Moves(c, "idle", 0) \/ Moves(c, "shown", 0)
                           /\ Holds(c) /\ ledger' = ledger
                           /\ call'[c].at = "shown" => call'[c].answer = call[c].answer
<1>0. ASSUME NEW r \in Request, call' = [call EXCEPT ![c] = r]
      PROVE  Moves(c, r.at, r.due) /\ call'[c] = r
  BY <1>0 DEF LedgerInv, TypeOK, Moves
<1>a. /\ call[c] \in Request /\ Due \in Nat /\ Remitted(ledger) \in Int /\ call[c].due \in Nat
      /\ Len(ledger) \in Nat /\ DOMAIN ledger = 1..Len(ledger) /\ ledger \in Seq(Entry)
  BY DueTyped, SignedTyped DEF LedgerInv, TypeOK, Request
<1>b. Blank \in Request /\ Blank.at = "idle" /\ Blank.due = 0
  BY DEF Blank, Request
<1>1. ASSUME CountCommissions(c) PROVE Moves(c, "counted", Due) /\ Reads(c)
  <2> DEFINE r == [Blank EXCEPT !.at = "counted", !.due = Due]
  <2>1. r \in Request /\ r.at = "counted" /\ r.due = Due
    BY <1>a, <1>b DEF Request
  <2>2. call' = [call EXCEPT ![c] = r] /\ Reads(c)
    BY <1>1 DEF CountCommissions, Reads
  <2> HIDE DEF r
  <2> QED  BY <1>0, <2>1, <2>2
<1>2. ASSUME ShowReport(c)
      PROVE  /\ Moves(c, "shown", 0) /\ Reads(c) /\ call[c].at = "counted"
             /\ call'[c].expected = call[c].due - Remitted(ledger)
  <2> DEFINE r == [call[c] EXCEPT !.at = "shown", !.due = 0, !.expected = Balance(call[c].due, ledger)]
  <2>0. Balance(call[c].due, ledger) = call[c].due - Remitted(ledger) /\ Balance(call[c].due, ledger) \in Int
    BY <1>a DEF Balance
  <2>1. r \in Request /\ r.at = "shown" /\ r.due = 0 /\ r.expected = Balance(call[c].due, ledger)
    BY <1>a, <2>0 DEF Request
  <2>2. call' = [call EXCEPT ![c] = r] /\ Reads(c) /\ call[c].at = "counted"
    BY <1>2 DEF ShowReport, Reads
  <2> HIDE DEF r
  <2> QED  BY <1>0, <2>0, <2>1, <2>2
<1>3. ASSUME BeginRecord(c) PROVE Moves(c, "marking", Due) /\ Locks(c) /\ call'[c].answer = "none"
  <2> DEFINE r == [call[c] EXCEPT !.at = "marking", !.due = Due, !.answer = "none", !.entry = None]
  <2>1. r \in Request /\ r.at = "marking" /\ r.due = Due /\ r.answer = "none"
    BY <1>a DEF Request
  <2>2. call' = [call EXCEPT ![c] = r] /\ Locks(c)
    BY <1>3 DEF BeginRecord, LockDriver, Locks
  <2> HIDE DEF r
  <2> QED  BY <1>0, <2>1, <2>2
<1>4. ASSUME ListLedger(c)
      PROVE  /\ Moves(c, "deciding", call[c].due) /\ Reads(c)
             /\ call[c].at = "marking" /\ call'[c].seen = Len(ledger)
             /\ call'[c].answer = call[c].answer
  <2> DEFINE r == [call[c] EXCEPT !.at = "deciding", !.seen = Len(ledger)]
  <2>1. /\ r \in Request /\ r.at = "deciding" /\ r.due = call[c].due
        /\ r.seen = Len(ledger) /\ r.answer = call[c].answer
    BY <1>a DEF Request
  <2>2. call' = [call EXCEPT ![c] = r] /\ Reads(c) /\ call[c].at = "marking"
    BY <1>4 DEF ListLedger, Reads
  <2> HIDE DEF r
  <2> QED  BY <1>0, <2>1, <2>2
<1>5. ASSUME EndRecord(c) PROVE Moves(c, "shown", 0) /\ Holds(c)
  <2>1. PICK answer \in {"none", "recorded", "same", "nothing", "changed"}, entry \in Nat \cup {None} :
          Answered(c, answer, entry)
    <3>1. ASSUME NEW i \in InForce(Seen(c)) PROVE i \in Nat
      BY <1>a DEF InForce, Seen, LedgerInv, TypeOK, Request
    <3>2. Len(ledger) + 1 \in Nat
      BY <1>a
    <3> QED  BY <1>5, <3>1, <3>2 DEF EndRecord, SettledAlready, BalanceChanged, InsertRemittance
  <2> DEFINE r == [call[c] EXCEPT !.at = "shown", !.due = 0, !.seen = 0, !.answer = answer, !.entry = entry]
  <2>2. r \in Request /\ r.at = "shown" /\ r.due = 0
    BY <1>a DEF Request
  <2>3. call' = [call EXCEPT ![c] = r]
    BY <2>1 DEF Answered
  <2> HIDE DEF r
  <2>4. Moves(c, "shown", 0)
    BY <1>0, <2>2, <2>3
  <2> QED  BY <1>5, <2>4 DEF EndRecord, Holds
<1>6. ASSUME FindEntry(c)
      PROVE  Moves(c, "undoing", 0) /\ Reads(c) /\ call'[c].target \in DOMAIN ledger
  <2>1. PICK i \in DOMAIN ledger :
          call' = [call EXCEPT ![c] = [Blank EXCEPT !.at = "undoing", !.target = i]]
    BY <1>6 DEF FindEntry
  <2> DEFINE r == [Blank EXCEPT !.at = "undoing", !.target = i]
  <2>2. i \in Nat
    BY <1>a
  <2>3. r \in Request /\ r.at = "undoing" /\ r.due = 0 /\ r.target = i
    BY <1>b, <2>2 DEF Request
  <2>4. Reads(c) /\ call' = [call EXCEPT ![c] = r]
    BY <1>6, <2>1 DEF FindEntry, Reads
  <2> HIDE DEF r
  <2> QED  BY <1>0, <2>3, <2>4
<1>7. ASSUME BeginReverse(c)
      PROVE  /\ Moves(c, "reversing", call[c].due) /\ Locks(c)
             /\ call[c].at = "undoing" /\ call'[c].target = call[c].target
             /\ call'[c].seen = Len(ledger)
  <2> DEFINE r == [call[c] EXCEPT !.at = "reversing", !.seen = Len(ledger)]
  <2>1. /\ r \in Request /\ r.at = "reversing" /\ r.due = call[c].due
        /\ r.seen = Len(ledger) /\ r.target = call[c].target
    BY <1>a DEF Request
  <2>2. call' = [call EXCEPT ![c] = r] /\ Locks(c) /\ call[c].at = "undoing"
    BY <1>7 DEF BeginReverse, LockDriver, Locks
  <2> HIDE DEF r
  <2> QED  BY <1>0, <2>1, <2>2
<1>8. ASSUME EndReverse(c) PROVE Moves(c, "idle", 0) /\ Holds(c)
  BY <1>0, <1>8, <1>b DEF EndReverse, Holds
<1>9. ASSUME Rollback(c)
      PROVE  /\ Moves(c, "idle", 0) \/ Moves(c, "shown", 0)
             /\ Holds(c) /\ ledger' = ledger
             /\ call'[c].at = "shown" => call'[c].answer = call[c].answer
  <2>1. CASE call[c].at = "reversing"
    BY <1>0, <1>9, <1>b, <2>1 DEF Rollback, Holds
  <2>2. CASE call[c].at # "reversing"
    <3> DEFINE r == [call[c] EXCEPT !.at = "shown", !.due = 0, !.seen = 0]
    <3>1. r \in Request /\ r.at = "shown" /\ r.due = 0 /\ r.answer = call[c].answer
      BY <1>a DEF Request
    <3>2. call' = [call EXCEPT ![c] = r] /\ Holds(c) /\ ledger' = ledger
      BY <1>9, <2>2 DEF Rollback, Holds
    <3> HIDE DEF r
    <3> QED  BY <1>0, <3>1, <3>2
  <2> QED
    BY <2>1, <2>2
<1> QED
  BY <1>1, <1>2, <1>3, <1>4, <1>5, <1>6, <1>7, <1>8, <1>9

(* The two ways the ledger is written, as the transaction that holds the   *)
(* driver's row knows it: of all that it read nothing has changed.         *)
Remits(due) ==
  /\ due \in Nat /\ due <= Due /\ due > Remitted(ledger)
  /\ Len(ledger) < MaxEntries
  /\ ledger' = Append(ledger, [kind |-> "remittance", amount |-> due - Remitted(ledger),
                               reverses |-> None, due |-> due])
  /\ UNCHANGED collected

TakesBack(t) ==
  /\ t \in DOMAIN ledger
  /\ ledger[t].kind = "remittance"
  /\ Reversals(ledger, t) = {}
  /\ Len(ledger) < MaxEntries
  /\ ledger' = Append(ledger, [kind |-> "reversal", amount |-> ledger[t].amount,
                               reverses |-> t, due |-> 0])
  /\ UNCHANGED collected

LEMMA SeesAll ==
  ASSUME LedgerInv, NEW c \in Call, call[c].at \in {"deciding", "reversing"}
  PROVE  Seen(c) = ledger
<1>1. call[c].seen = Len(ledger) /\ ledger \in Seq(Entry)
  BY DEF LedgerInv, TypeOK, DecidesOnAll
<1>2. SubSeq(ledger, 1, Len(ledger)) = ledger
  BY <1>1
<1> QED  BY <1>1, <1>2 DEF Seen

LEMMA LedgerWritten ==
  ASSUME LedgerInv, [Next]_vars
  PROVE  UNCHANGED ledger \/ (\E due \in Nat : Remits(due)) \/ (\E t \in DOMAIN ledger : TakesBack(t))
<1>1. ASSUME NEW c \in Call, EndRecord(c), InsertRemittance(c)
      PROVE  Remits(call[c].due)
  <2>1. call[c].at = "deciding" /\ UNCHANGED collected
    BY <1>1 DEF EndRecord
  <2>2. Owing(c) = call[c].due - Remitted(ledger)
    BY <2>1, SeesAll DEF Owing, Balance
  <2>3. call[c].due \in Nat /\ call[c].due <= Due /\ Remitted(ledger) \in Int
    BY SignedTyped DEF LedgerInv, TypeOK, Request, CountedOfDue
  <2>4. call[c].due > Remitted(ledger)
    BY <1>1, <2>2, <2>3 DEF InsertRemittance
  <2> QED  BY <1>1, <2>1, <2>2, <2>3, <2>4 DEF InsertRemittance, InsertEntry, Remits
<1>2. ASSUME NEW c \in Call, EndReverse(c), Reversible(c, call[c].target), InsertReversal(call[c].target)
      PROVE  call[c].target \in DOMAIN ledger /\ TakesBack(call[c].target)
  <2>1. call[c].at = "reversing" /\ UNCHANGED collected
    BY <1>2 DEF EndReverse
  <2>2. call[c].target \in DOMAIN ledger
    BY <2>1 DEF LedgerInv, TargetExists
  <2> QED  BY <1>2, <2>1, <2>2 DEF Reversible, InsertReversal, InsertEntry, TakesBack
<1>3. ASSUME NEW c \in Call PROVE call[c].due \in Nat
  BY DEF LedgerInv, TypeOK, Request
<1> QED  BY <1>1, <1>2, <1>3, LedgerWrites

(* The ledger after each.                                                  *)
LEMMA LedgerGrows ==
  ASSUME LedgerInv, NEW e \in Entry, ledger' = Append(ledger, e)
  PROVE  /\ ledger' \in Seq(Entry)
         /\ Len(ledger) \in Nat /\ Len(ledger') = Len(ledger) + 1
         /\ DOMAIN ledger = 1..Len(ledger) /\ DOMAIN ledger' = 1..(Len(ledger) + 1)
         /\ \A i \in DOMAIN ledger : ledger'[i] = ledger[i] /\ ledger[i] \in Entry
         /\ ledger'[Len(ledger) + 1] = e
         /\ Remitted(ledger') = Remitted(ledger) + Signed(e)
<1>1. ledger \in Seq(Entry)
  BY DEF LedgerInv, TypeOK
<1>2. \A i \in DOMAIN ledger : ledger[i] \in Entry
  BY <1>1
<1>3. /\ ledger' \in Seq(Entry)
      /\ Len(ledger) \in Nat /\ Len(ledger') = Len(ledger) + 1
      /\ DOMAIN ledger = 1..Len(ledger) /\ DOMAIN ledger' = 1..(Len(ledger) + 1)
      /\ \A i \in DOMAIN ledger : ledger'[i] = ledger[i]
      /\ ledger'[Len(ledger) + 1] = e
  BY <1>1
<1>4. Remitted(ledger') = Remitted(ledger) + Signed(e)
  BY <1>1, Appended
<1> QED  BY <1>2, <1>3, <1>4

LEMMA MarkAppended ==
  ASSUME LedgerInv, NEW due, Remits(due)
  PROVE  LET e == [kind |-> "remittance", amount |-> due - Remitted(ledger), reverses |-> None, due |-> due]
         IN  /\ e \in Entry /\ ledger' = Append(ledger, e)
             /\ due - Remitted(ledger) \in Nat \ {0} /\ Signed(e) = due - Remitted(ledger)
<1>1. Remitted(ledger) \in Int
  BY SignedTyped DEF LedgerInv, TypeOK
<1> QED  BY <1>1 DEF Remits, Entry, Signed

LEMMA ReversalAppended ==
  ASSUME LedgerInv, NEW t, TakesBack(t)
  PROVE  LET e == [kind |-> "reversal", amount |-> ledger[t].amount, reverses |-> t, due |-> 0]
         IN  /\ e \in Entry /\ ledger' = Append(ledger, e)
             /\ ledger[t].amount \in Int /\ Signed(e) = -ledger[t].amount
<1>1. ledger[t] \in Entry /\ t \in Nat
  BY DEF LedgerInv, TypeOK, TakesBack
<1>2. ledger[t].amount \in Int
  BY <1>1 DEF Entry
<1> QED  BY <1>1, <1>2 DEF TakesBack, Entry, Signed

ReversalAt(l, i) ==
  /\ l[i].reverses \in 1..(i - 1)
  /\ l[l[i].reverses].kind = "remittance"
  /\ l[l[i].reverses].amount = l[i].amount
  /\ Reversals(l, l[i].reverses) = {i}

LEMMA ReversedOnceEach ==
  ReversedOnce <=> \A i \in DOMAIN ledger : ledger[i].kind = "reversal" => ReversalAt(ledger, i)
BY DEF ReversedOnce, ReversalAt

(* A remittance is appended.                                               *)
LEMMA RemittanceKeeps ==
  ASSUME LedgerInv, NEW due, Remits(due)
  PROVE  /\ OnlyReversalsRefer' /\ ReversedOnce'
         /\ InForce(ledger') = InForce(ledger) \cup {Len(ledger) + 1}
<1> DEFINE e == [kind |-> "remittance", amount |-> due - Remitted(ledger), reverses |-> None, due |-> due]
           n == Len(ledger) + 1
<1>0. e \in Entry /\ ledger' = Append(ledger, e)
  BY MarkAppended
<1>1. /\ Len(ledger) \in Nat
      /\ DOMAIN ledger = 1..Len(ledger) /\ DOMAIN ledger' = 1..n
      /\ \A i \in DOMAIN ledger : ledger'[i] = ledger[i]
      /\ ledger'[n] = e
  BY <1>0, LedgerGrows
<1>2. OnlyReversalsRefer'
  BY <1>1 DEF LedgerInv, OnlyReversalsRefer
<1>3. ASSUME NEW r \in Nat PROVE Reversals(ledger', r) = Reversals(ledger, r)
  BY <1>1, SettlementAssumption DEF Reversals
<1>4. ASSUME NEW i \in DOMAIN ledger', ledger'[i].kind = "reversal"
      PROVE  ReversalAt(ledger', i)
  <2>1. i \in DOMAIN ledger /\ ledger'[i] = ledger[i]
    BY <1>1, <1>4
  <2>2. ReversalAt(ledger, i)
    BY <1>4, <2>1, ReversedOnceEach DEF LedgerInv
  <2>3. ledger[i].reverses \in DOMAIN ledger /\ ledger[i].reverses \in Nat
    BY <1>1, <2>1, <2>2 DEF ReversalAt
  <2>4. Reversals(ledger', ledger[i].reverses) = {i}
    BY <1>3, <2>2, <2>3 DEF ReversalAt
  <2> QED
    BY <1>1, <2>1, <2>2, <2>3, <2>4 DEF ReversalAt
<1>5. ReversedOnce'
  BY <1>4 DEF ReversedOnce, ReversalAt
<1>6. ASSUME NEW i PROVE i \in InForce(ledger') <=> i \in InForce(ledger) \cup {n}
  <2>1. CASE i \in DOMAIN ledger
    BY <1>1, <1>3, <2>1 DEF InForce
  <2>2. CASE i = n
    <3>1. Reversals(ledger', n) = Reversals(ledger, n)
      BY <1>1, <1>3
    <3>2. ASSUME NEW j \in Reversals(ledger, n) PROVE FALSE
      <4>1. j \in DOMAIN ledger /\ ledger[j].reverses = n
        BY <3>2 DEF Reversals
      <4>2. ledger[j].kind \in {"remittance", "reversal"} /\ n # None
        <5>1. ledger[j] \in Entry
          BY <4>1 DEF LedgerInv, TypeOK
        <5> QED  BY <1>1, <5>1, SettlementAssumption DEF Entry
      <4>3. ledger[j].kind = "reversal"
        BY <4>1, <4>2 DEF LedgerInv, OnlyReversalsRefer
      <4> QED  BY <1>1, <4>1, <4>3 DEF LedgerInv, ReversedOnce
    <3> QED  BY <1>1, <2>2, <3>1, <3>2 DEF InForce
  <2>3. CASE i \notin DOMAIN ledger /\ i # n
    BY <1>1, <2>3 DEF InForce
  <2> QED  BY <2>1, <2>2, <2>3
<1> QED
  BY <1>2, <1>5, <1>6

(* The reversal of a remittance nobody reversed is appended.               *)
LEMMA ReversalKeeps ==
  ASSUME LedgerInv, NEW t, TakesBack(t)
  PROVE  /\ OnlyReversalsRefer' /\ ReversedOnce'
         /\ t \in InForce(ledger) /\ InForce(ledger') = InForce(ledger) \ {t}
<1> DEFINE e == [kind |-> "reversal", amount |-> ledger[t].amount, reverses |-> t, due |-> 0]
           n == Len(ledger) + 1
<1>0. /\ e \in Entry /\ ledger' = Append(ledger, e)
      /\ t \in DOMAIN ledger /\ ledger[t].kind = "remittance" /\ Reversals(ledger, t) = {}
  BY ReversalAppended DEF TakesBack
<1>1. /\ Len(ledger) \in Nat
      /\ DOMAIN ledger = 1..Len(ledger) /\ DOMAIN ledger' = 1..n
      /\ \A i \in DOMAIN ledger : ledger'[i] = ledger[i]
      /\ ledger'[n] = e
  BY <1>0, LedgerGrows
<1>2. OnlyReversalsRefer'
  BY <1>1 DEF LedgerInv, OnlyReversalsRefer
<1>3. ASSUME NEW r \in Nat, r # t PROVE Reversals(ledger', r) = Reversals(ledger, r)
  BY <1>1, <1>3 DEF Reversals
<1>4. Reversals(ledger', t) = {n}
  BY <1>0, <1>1 DEF Reversals
<1>5. ASSUME NEW i \in DOMAIN ledger, ledger[i].kind = "reversal"
      PROVE  ledger[i].reverses # t
  BY <1>0, <1>5 DEF LedgerInv, ReversedOnce, Reversals
<1>6. ASSUME NEW i \in DOMAIN ledger', ledger'[i].kind = "reversal", i # n
      PROVE  ReversalAt(ledger', i)
  <2>1. i \in DOMAIN ledger /\ ledger'[i] = ledger[i]
    BY <1>1, <1>6
  <2>2. ReversalAt(ledger, i)
    BY <1>6, <2>1, ReversedOnceEach DEF LedgerInv
  <2>3. ledger[i].reverses \in DOMAIN ledger /\ ledger[i].reverses \in Nat
    BY <1>1, <2>1, <2>2 DEF ReversalAt
  <2>4. Reversals(ledger', ledger[i].reverses) = {i}
    BY <1>3, <1>5, <1>6, <2>1, <2>2, <2>3 DEF ReversalAt
  <2> QED
    BY <1>1, <2>1, <2>2, <2>3, <2>4 DEF ReversalAt
<1>7. ReversalAt(ledger', n)
  BY <1>0, <1>1, <1>4 DEF ReversalAt
<1>8. ReversedOnce'
  BY <1>6, <1>7 DEF ReversedOnce, ReversalAt
<1>9. ASSUME NEW i PROVE i \in InForce(ledger') <=> i \in InForce(ledger) /\ i # t
  <2>1. CASE i \in DOMAIN ledger
    <3>1. i \in Nat /\ i \in DOMAIN ledger' /\ ledger'[i] = ledger[i]
      BY <1>1, <2>1
    <3>2. CASE i = t
      BY <1>4, <3>2 DEF InForce
    <3>3. CASE i # t
      BY <1>3, <2>1, <3>1, <3>3 DEF InForce
    <3> QED  BY <3>2, <3>3
  <2>2. CASE i \notin DOMAIN ledger
    BY <1>1, <2>2 DEF InForce
  <2> QED  BY <2>1, <2>2
<1> QED
  BY <1>0, <1>2, <1>8, <1>9 DEF InForce

LEMMA LedgerStep ==
  ASSUME LedgerInv, [Next]_vars
  PROVE  ledger' \in Seq(Entry) /\ Len(ledger') <= MaxEntries /\ OnlyReversalsRefer' /\ ReversedOnce'
<1>0. MaxEntries \in Nat
  BY SettlementAssumption
<1>1. CASE UNCHANGED ledger
  BY <1>1 DEF LedgerInv, TypeOK, OnlyReversalsRefer, ReversedOnce, Reversals
<1>2. ASSUME NEW due \in Nat, Remits(due)
      PROVE  ledger' \in Seq(Entry) /\ Len(ledger') <= MaxEntries /\ OnlyReversalsRefer' /\ ReversedOnce'
  BY <1>0, <1>2, MarkAppended, LedgerGrows, RemittanceKeeps DEF Remits
<1>3. ASSUME NEW t \in DOMAIN ledger, TakesBack(t)
      PROVE  ledger' \in Seq(Entry) /\ Len(ledger') <= MaxEntries /\ OnlyReversalsRefer' /\ ReversedOnce'
  BY <1>0, <1>3, ReversalAppended, LedgerGrows, ReversalKeeps DEF TakesBack
<1> QED
  BY <1>1, <1>2, <1>3, LedgerWritten

LEMMA AsksAnewStep ==
  ASSUME LedgerInv, [Next]_vars
  PROVE  AsksAnew'
<1> USE DEF LedgerInv, AsksAnew, Moves, Reads, Locks, Holds
<1>1. ASSUME NEW c \in Call, \/ CountCommissions(c) \/ ShowReport(c) \/ BeginRecord(c)
                             \/ ListLedger(c) \/ FindEntry(c) \/ BeginReverse(c)
      PROVE  AsksAnew'
  BY <1>1, CallSteps
<1>2. ASSUME NEW c \in Call, EndRecord(c) \/ EndReverse(c) \/ Rollback(c)
      PROVE  AsksAnew'
  BY <1>2, CallSteps
<1>3. CASE UNCHANGED vars \/ \E t \in Trip : MarkCashCollected(t)
  BY <1>3 DEF vars, MarkCashCollected
<1> QED
  BY <1>1, <1>2, <1>3 DEF Next

(* What is due only grows, and what requests have counted is no more.      *)
LEMMA DueStep ==
  ASSUME LedgerInv, [Next]_vars
  PROVE  Due' \in Nat /\ Due <= Due' /\ Due \in Nat
<1>1. Due \in Nat
  BY DueTyped DEF LedgerInv
<1>2. CASE UNCHANGED collected
  BY <1>1, <1>2, DueIs, DueNext
<1>3. ASSUME NEW t \in Trip, MarkCashCollected(t) PROVE Due' \in Nat /\ Due <= Due'
  BY <1>3, DueGrows DEF LedgerInv
<1>4. UNCHANGED collected \/ \E t \in Trip : MarkCashCollected(t)
  BY DEF Next, vars, CountCommissions, ShowReport, BeginRecord, ListLedger, EndRecord, FindEntry,
         BeginReverse, EndReverse, Rollback
<1> QED  BY <1>1, <1>2, <1>3, <1>4

LEMMA CallTypedStep ==
  ASSUME LedgerInv, [Next]_vars
  PROVE  /\ call' \in [Call -> Request] /\ lock' \in Call \cup {None} /\ collected' \subseteq Trip
         /\ CountedOfDue'
<1> DEFINE Kept == /\ call' \in [Call -> Request] /\ lock' \in Call \cup {None}
                   /\ \A c \in Call : call'[c].due \in {0, Due, call[c].due}
<1>1. ASSUME NEW c \in Call,
             \/ CountCommissions(c) \/ ShowReport(c) \/ BeginRecord(c) \/ ListLedger(c) \/ EndRecord(c)
             \/ FindEntry(c) \/ BeginReverse(c) \/ EndReverse(c) \/ Rollback(c)
      PROVE  Kept
  <2>1. \E to : \E due \in {0, Due, call[c].due} : Moves(c, to, due)
    BY <1>1, CallSteps
  <2>2. lock' \in Call \cup {None}
    BY <1>1, CallSteps DEF Reads, Locks, Holds, LedgerInv, TypeOK
  <2> QED  BY <2>1, <2>2 DEF Moves
<1>2. ASSUME UNCHANGED vars \/ \E t \in Trip : MarkCashCollected(t) PROVE Kept
  <2>1. call' = call /\ lock' = lock
    BY <1>2 DEF vars, MarkCashCollected
  <2> QED  BY <2>1 DEF LedgerInv, TypeOK
<1>3. Kept
  BY <1>1, <1>2 DEF Next
<1>4. collected' \subseteq Trip
  BY DEF LedgerInv, TypeOK, Next, vars, MarkCashCollected, CountCommissions, ShowReport, BeginRecord,
         ListLedger, EndRecord, FindEntry, BeginReverse, EndReverse, Rollback
<1>5. CountedOfDue'
  <2>1. \A c \in Call : call[c].due <= Due /\ call[c].due \in Nat
    BY DEF LedgerInv, CountedOfDue, TypeOK, Request
  <2>2. ASSUME NEW c \in Call PROVE call'[c].due <= Due'
    BY <1>3, <2>1, DueStep
  <2> QED  BY <2>2 DEF CountedOfDue
<1> QED  BY <1>3, <1>4, <1>5

LEMMA LockHolderStep ==
  ASSUME LedgerInv, [Next]_vars
  PROVE  LockHolder'
<1> USE DEF LedgerInv, LockHolder, Moves, Reads, Locks, Holds
<1>1. ASSUME NEW c \in Call, CountCommissions(c) \/ ShowReport(c) \/ ListLedger(c) \/ FindEntry(c)
      PROVE  LockHolder'
  BY <1>1, CallSteps
<1>2. ASSUME NEW c \in Call, BeginRecord(c) \/ BeginReverse(c)
      PROVE  LockHolder'
  BY <1>2, CallSteps, SettlementAssumption
<1>3. ASSUME NEW c \in Call, EndRecord(c) \/ EndReverse(c) \/ Rollback(c)
      PROVE  LockHolder'
  BY <1>3, CallSteps
<1>4. CASE UNCHANGED vars \/ \E t \in Trip : MarkCashCollected(t)
  BY <1>4 DEF vars, MarkCashCollected
<1> QED
  BY <1>1, <1>2, <1>3, <1>4 DEF Next

(* Nobody else writes the ledger before he who read it under the lock.     *)
LEMMA DecidesOnAllStep ==
  ASSUME LedgerInv, [Next]_vars
  PROVE  DecidesOnAll'
<1> USE DEF LedgerInv, LockHolder, DecidesOnAll, Moves, Reads, Locks, Holds
<1>1. ASSUME NEW c \in Call, CountCommissions(c) \/ ShowReport(c) \/ ListLedger(c) \/ FindEntry(c)
      PROVE  DecidesOnAll'
  BY <1>1, CallSteps
<1>2. ASSUME NEW c \in Call, BeginRecord(c) \/ BeginReverse(c)
      PROVE  DecidesOnAll'
  BY <1>2, CallSteps
<1>3. ASSUME NEW c \in Call, EndRecord(c) \/ EndReverse(c) \/ Rollback(c)
      PROVE  DecidesOnAll'
  BY <1>3, CallSteps
<1>4. CASE UNCHANGED vars \/ \E t \in Trip : MarkCashCollected(t)
  BY <1>4 DEF vars, MarkCashCollected
<1> QED
  BY <1>1, <1>2, <1>3, <1>4 DEF Next

LEMMA TargetExistsStep ==
  ASSUME LedgerInv, [Next]_vars
  PROVE  TargetExists'
<1> USE DEF LedgerInv, TargetExists, Moves, Reads, Locks, Holds
<1>1. DOMAIN ledger \subseteq DOMAIN ledger'
  <2>1. ASSUME NEW e \in Entry, ledger' = Append(ledger, e)
        PROVE  DOMAIN ledger \subseteq DOMAIN ledger'
    BY <2>1, LedgerGrows
  <2> QED
    BY <2>1, LedgerWritten, MarkAppended, ReversalAppended
<1>2. ASSUME NEW c \in Call, CountCommissions(c) \/ ShowReport(c) \/ ListLedger(c) \/ FindEntry(c)
      PROVE  TargetExists'
  BY <1>2, CallSteps
<1>3. ASSUME NEW c \in Call, BeginRecord(c) \/ BeginReverse(c)
      PROVE  TargetExists'
  BY <1>3, CallSteps
<1>4. ASSUME NEW c \in Call, EndRecord(c) \/ EndReverse(c) \/ Rollback(c)
      PROVE  TargetExists'
  BY <1>1, <1>4, CallSteps
<1>5. CASE UNCHANGED vars \/ \E t \in Trip : MarkCashCollected(t)
  BY <1>5 DEF vars, MarkCashCollected
<1> QED
  BY <1>2, <1>3, <1>4, <1>5 DEF Next

(* What the ledger keeps through every report, remittance and reversal,    *)
(* with what the holder of its lock knows of it.                           *)
THEOREM LedgerInvariant == Spec => []LedgerInv
<1>1. ASSUME LedgerInv, [Next]_vars PROVE LedgerInv'
  <2>1. TypeOK'
    BY <1>1, CallTypedStep, LedgerStep DEF TypeOK
  <2> QED  BY <1>1, <2>1, LockHolderStep, DecidesOnAllStep, TargetExistsStep, AsksAnewStep,
              LedgerStep, CallTypedStep
           DEF LedgerInv
<1> QED
  BY <1>1, LedgerInvInit, PTL DEF Spec

(* Every reversal takes back one whole remittance that no other reversal   *)
(* takes back: findReversalOf under the lock and the unique index of       *)
(* reverses_remittance_id.                                                 *)
THEOREM EachReversedOnce == Spec => []ReversedOnce
BY LedgerInvariant, PTL DEF LedgerInv

(* A transaction that is about to write has the driver's row, alone, and   *)
(* has read every entry there is.                                          *)
WritesAreSerial ==
  \A c \in Call : call[c].at \in {"deciding", "reversing"} =>
    /\ Seen(c) = ledger
    /\ \A d \in Call \ {c} : call[d].at \notin {"marking", "deciding", "reversing"}

(* Marks and reversals of one driver are decided one after the other, each *)
(* on the whole ledger (lockOwnedDriver before listLedger).                *)
THEOREM MarksAreSerial == Spec => []WritesAreSerial
<1>1. ASSUME LedgerInv PROVE WritesAreSerial
  <2> SUFFICES ASSUME NEW c \in Call, call[c].at \in {"deciding", "reversing"}
               PROVE  /\ Seen(c) = ledger
                      /\ \A d \in Call \ {c} : call[d].at \notin {"marking", "deciding", "reversing"}
    BY DEF WritesAreSerial
  <2>1. lock = c /\ call[c].seen = Len(ledger)
    BY <1>1 DEF LedgerInv, LockHolder, DecidesOnAll
  <2>2. SubSeq(ledger, 1, Len(ledger)) = ledger
    BY <1>1 DEF LedgerInv, TypeOK
  <2>3. Seen(c) = ledger
    BY <2>1, <2>2 DEF Seen
  <2> QED
    BY <1>1, <2>1, <2>3 DEF LedgerInv, LockHolder
<1> QED
  BY <1>1, LedgerInvariant, PTL

-----------------------------------------------------------------------------
(* The money. A mark pays all that is due at its moment, so that the next  *)
(* one finds new commissions or a reversal; and the ledger adds up to what *)
(* its marks in force have paid.                                           *)

Paid(l) == [i \in InForce(l) |-> l[i].amount]

AmountsPositive ==
  \A i \in DOMAIN ledger : ledger[i].kind = "remittance" => ledger[i].amount > 0

HeldIsRemitted == Remitted(ledger) = SumOf(Paid(ledger), InForce(ledger))

LastPaysAll ==
  LET n == Len(ledger)
  IN  n > 0 /\ ledger[n].kind = "remittance" => Remitted(ledger) = ledger[n].due

MoneyInv ==
  /\ LedgerInv /\ AmountsPositive /\ HeldIsRemitted /\ WithinDue /\ LastPaysAll /\ NewDebtOnly

LEMMA MoneyInvInit == Init => MoneyInv
<1> SUFFICES ASSUME Init PROVE MoneyInv
  OBVIOUS
<1>1. LedgerInv /\ Due \in Nat
  BY LedgerInvInit, DueTyped DEF LedgerInv
<1>2. ledger = <<>> /\ DOMAIN ledger = {} /\ InForce(ledger) = {} /\ Len(ledger) = 0
  BY DEF Init, InForce
<1>3. Remitted(ledger) = 0 /\ SumOf(Paid(ledger), InForce(ledger)) = 0
  BY <1>2, RemittedIs, SumOfNone
<1>4. AmountsPositive /\ HeldIsRemitted /\ LastPaysAll
  BY <1>2, <1>3 DEF AmountsPositive, HeldIsRemitted, LastPaysAll
<1>5. WithinDue /\ NewDebtOnly
  BY <1>1, <1>2, <1>3 DEF WithinDue, NewDebtOnly
<1> QED  BY <1>1, <1>4, <1>5 DEF MoneyInv

LEMMA InForceTyped ==
  ASSUME MoneyInv
  PROVE  /\ IsFiniteSet(InForce(ledger)) /\ InForce(ledger) \subseteq 1..Len(ledger) /\ Len(ledger) \in Nat
         /\ \A i \in InForce(ledger) : /\ ledger[i].amount \in Nat \ {0}
                                       /\ Paid(ledger)[i] = ledger[i].amount
<1>1. /\ Len(ledger) \in Nat /\ DOMAIN ledger = 1..Len(ledger) /\ IsFiniteSet(DOMAIN ledger)
      /\ \A i \in DOMAIN ledger : ledger[i] \in Entry
  BY SignedTyped DEF MoneyInv, LedgerInv, TypeOK
<1>2. InForce(ledger) \subseteq DOMAIN ledger
  BY DEF InForce
<1>3. IsFiniteSet(InForce(ledger))
  BY <1>1, <1>2, FS_Subset
<1>4. ASSUME NEW i \in InForce(ledger)
      PROVE  ledger[i].amount \in Nat \ {0} /\ Paid(ledger)[i] = ledger[i].amount
  <2>1. ledger[i].amount \in Int /\ ledger[i].amount > 0
    BY <1>1, <1>2 DEF InForce, MoneyInv, AmountsPositive, Entry
  <2> QED  BY <2>1 DEF Paid
<1> QED  BY <1>1, <1>2, <1>3, <1>4

(* The amounts of a mark in force are part of what is remitted.            *)
LEMMA PartOfRemitted ==
  ASSUME MoneyInv, NEW t \in InForce(ledger)
  PROVE  ledger[t].amount <= Remitted(ledger) /\ ledger[t].amount \in Nat
<1>1. Paid(ledger)[t] <= SumOf(Paid(ledger), InForce(ledger))
  BY InForceTyped, SumGrows
<1> QED  BY <1>1, InForceTyped DEF MoneyInv, HeldIsRemitted

LEMMA MarkPays ==
  ASSUME MoneyInv, NEW due, Remits(due)
  PROVE  /\ Remitted(ledger') = due /\ Due' = Due /\ due \in Nat /\ due <= Due /\ due > Remitted(ledger)
         /\ AmountsPositive' /\ HeldIsRemitted' /\ LastPaysAll' /\ NewDebtOnly'
         /\ LET n == Len(ledger) + 1
            IN  /\ n \in 1..MaxEntries /\ n \notin InForce(ledger)
                /\ DOMAIN Paid(ledger') = InForce(ledger) \cup {n}
                /\ \A i \in InForce(ledger) : Paid(ledger')[i] = Paid(ledger)[i]
                /\ Paid(ledger')[n] > 0
<1> DEFINE e == [kind |-> "remittance", amount |-> due - Remitted(ledger), reverses |-> None, due |-> due]
           n == Len(ledger) + 1
<1>1. /\ LedgerInv /\ e \in Entry /\ ledger' = Append(ledger, e)
      /\ due - Remitted(ledger) \in Nat \ {0} /\ Signed(e) = due - Remitted(ledger)
      /\ e.amount = due - Remitted(ledger) /\ e.due = due /\ e.kind = "remittance"
      /\ due \in Nat /\ due <= Due /\ due > Remitted(ledger) /\ collected' = collected
      /\ Len(ledger) < MaxEntries
  BY MarkAppended DEF MoneyInv, Remits
<1> HIDE DEF e
<1>2. /\ Len(ledger) \in Nat /\ Len(ledger') = n
      /\ DOMAIN ledger = 1..Len(ledger) /\ DOMAIN ledger' = 1..n
      /\ \A i \in DOMAIN ledger : ledger'[i] = ledger[i] /\ ledger[i] \in Entry
      /\ ledger'[n] = e /\ Remitted(ledger') = Remitted(ledger) + Signed(e)
  BY <1>1, LedgerGrows
<1>3. Remitted(ledger) \in Int /\ MaxEntries \in Nat
  BY SignedTyped, SettlementAssumption DEF MoneyInv, LedgerInv, TypeOK
<1>4. Remitted(ledger') = due
  BY <1>1, <1>2, <1>3
<1>5. Due' = Due
  BY <1>1, DueIs, DueNext
<1>6. AmountsPositive'
  BY <1>1, <1>2, <1>3 DEF MoneyInv, AmountsPositive
<1>7. LastPaysAll'
  BY <1>1, <1>2, <1>4 DEF LastPaysAll
<1>8. NewDebtOnly'
  <2>1. ASSUME NEW i \in 1..Len(ledger), \A k \in i..n : ledger'[k].kind = "remittance"
        PROVE  ledger[i].due < due
    <3>1. \A k \in i..Len(ledger) : k \in DOMAIN ledger /\ k \in i..n /\ ledger[k].kind = "remittance"
      BY <1>2, <2>1
    <3>2. Len(ledger) \in DOMAIN ledger /\ ledger[Len(ledger)].kind = "remittance"
      BY <1>2, <3>1
    <3>3. ledger[Len(ledger)].due < due
      BY <1>1, <1>2, <3>2 DEF MoneyInv, LastPaysAll
    <3>4. CASE i = Len(ledger)
      BY <3>3, <3>4
    <3>5. CASE i < Len(ledger)
      <4>1. ledger[i].due < ledger[Len(ledger)].due
        BY <1>2, <3>1, <3>2, <3>5 DEF MoneyInv, NewDebtOnly
      <4>2. ledger[i] \in Entry /\ ledger[Len(ledger)] \in Entry
        BY <1>2, <3>1, <3>2
      <4>3. ledger[i].due \in Nat /\ ledger[Len(ledger)].due \in Nat
        BY <4>2 DEF Entry
      <4> QED  BY <1>1, <3>3, <4>1, <4>3
    <3>6. i = Len(ledger) \/ i < Len(ledger)
      <4>1. Len(ledger) \in Nat
        BY <1>2
      <4> QED  BY <4>1
    <3> QED  BY <3>4, <3>5, <3>6
  <2>2. ASSUME NEW i \in DOMAIN ledger', NEW j \in DOMAIN ledger', i < j,
               \A k \in i..j : ledger'[k].kind = "remittance"
        PROVE  ledger'[i].due < ledger'[j].due
    <3>1. CASE j = n
      BY <1>1, <1>2, <2>1, <2>2, <3>1
    <3>2. CASE j # n
      <4>1. i \in DOMAIN ledger /\ j \in DOMAIN ledger
        BY <1>2, <2>2, <3>2
      <4>2. \A k \in i..j : ledger[k].kind = "remittance"
        BY <1>2, <2>2, <4>1
      <4> QED  BY <1>2, <2>2, <4>1, <4>2 DEF MoneyInv, NewDebtOnly
    <3> QED  BY <3>1, <3>2
  <2> QED  BY <2>2 DEF NewDebtOnly
<1>9. /\ n \in 1..MaxEntries /\ n \notin InForce(ledger)
      /\ DOMAIN Paid(ledger') = InForce(ledger) \cup {n}
      /\ \A i \in InForce(ledger) : Paid(ledger')[i] = Paid(ledger)[i]
      /\ Paid(ledger')[n] = due - Remitted(ledger)
  <2>1. InForce(ledger') = InForce(ledger) \cup {n} /\ InForce(ledger) \subseteq DOMAIN ledger
    BY <1>1, RemittanceKeeps DEF InForce
  <2> QED  BY <1>1, <1>2, <1>3, <2>1 DEF Paid
<1>10. HeldIsRemitted'
  <2> DEFINE p == Paid(ledger')
             q == Paid(ledger)
             F == InForce(ledger)
  <2>1. IsFiniteSet(F) /\ \A i \in F : p[i] = q[i] /\ q[i] \in Int
    BY <1>9, InForceTyped
  <2>2. p[n] = due - Remitted(ledger) /\ p[n] \in Int /\ n \notin F /\ DOMAIN p = F \cup {n}
    BY <1>1, <1>9
  <2>3. InForce(ledger') = DOMAIN p /\ SumOf(q, F) = Remitted(ledger)
    BY DEF Paid, MoneyInv, HeldIsRemitted
  <2> HIDE DEF p, q, F, n
  <2>4. SumOf(p, F) = SumOf(q, F)
    BY <2>1, SumSame
  <2>5. SumOf(p, F \cup {n}) = SumOf(p, F) + p[n]
    BY <2>1, <2>2, SumAdds
  <2>6. SumOf(p, InForce(ledger')) = due
    BY <1>1, <1>3, <2>2, <2>3, <2>4, <2>5
  <2> QED  BY <1>4, <2>6 DEF HeldIsRemitted, p
<1> QED  BY <1>1, <1>4, <1>5, <1>6, <1>7, <1>8, <1>9, <1>10

LEMMA ReversalTakesBack ==
  ASSUME MoneyInv, NEW t, TakesBack(t)
  PROVE  /\ Remitted(ledger') = Remitted(ledger) - ledger[t].amount /\ Due' = Due
         /\ AmountsPositive' /\ HeldIsRemitted' /\ LastPaysAll' /\ NewDebtOnly'
         /\ t \in InForce(ledger) /\ t \in 1..MaxEntries
         /\ Paid(ledger') = [i \in InForce(ledger) \ {t} |-> Paid(ledger)[i]]
<1> DEFINE e == [kind |-> "reversal", amount |-> ledger[t].amount, reverses |-> t, due |-> 0]
           n == Len(ledger) + 1
<1>1. /\ LedgerInv /\ e \in Entry /\ ledger' = Append(ledger, e)
      /\ ledger[t].amount \in Int /\ Signed(e) = -ledger[t].amount
      /\ e.kind = "reversal" /\ collected' = collected
      /\ Len(ledger) < MaxEntries /\ t \in DOMAIN ledger
  BY ReversalAppended DEF MoneyInv, TakesBack
<1> HIDE DEF e
<1>2. /\ Len(ledger) \in Nat /\ Len(ledger') = n
      /\ DOMAIN ledger = 1..Len(ledger) /\ DOMAIN ledger' = 1..n
      /\ \A i \in DOMAIN ledger : ledger'[i] = ledger[i] /\ ledger[i] \in Entry
      /\ ledger'[n] = e /\ Remitted(ledger') = Remitted(ledger) + Signed(e)
  BY <1>1, LedgerGrows
<1>3. Remitted(ledger) \in Int /\ MaxEntries \in Nat
  BY SignedTyped, SettlementAssumption DEF MoneyInv, LedgerInv, TypeOK
<1>4. Remitted(ledger') = Remitted(ledger) - ledger[t].amount
  BY <1>1, <1>2, <1>3
<1>5. Due' = Due
  BY <1>1, DueIs, DueNext
<1>6. AmountsPositive'
  BY <1>1, <1>2 DEF MoneyInv, AmountsPositive
<1>7. LastPaysAll'
  BY <1>1, <1>2 DEF LastPaysAll
<1>8. NewDebtOnly'
  <2>1. ASSUME NEW i \in DOMAIN ledger', NEW j \in DOMAIN ledger', i < j,
               \A k \in i..j : ledger'[k].kind = "remittance"
        PROVE  ledger'[i].due < ledger'[j].due
    <3>1. j # n
      BY <1>1, <1>2, <2>1
    <3>2. i \in DOMAIN ledger /\ j \in DOMAIN ledger
      BY <1>2, <2>1, <3>1
    <3>3. \A k \in i..j : ledger[k].kind = "remittance"
      BY <1>2, <2>1, <3>2
    <3> QED  BY <1>2, <2>1, <3>2, <3>3 DEF MoneyInv, NewDebtOnly
  <2> QED  BY <2>1 DEF NewDebtOnly
<1>9. /\ t \in InForce(ledger) /\ t \in 1..MaxEntries
      /\ Paid(ledger') = [i \in InForce(ledger) \ {t} |-> Paid(ledger)[i]]
  <2>1. /\ t \in InForce(ledger) /\ InForce(ledger') = InForce(ledger) \ {t}
        /\ InForce(ledger) \subseteq DOMAIN ledger
    BY <1>1, ReversalKeeps DEF InForce
  <2> QED  BY <1>1, <1>2, <1>3, <2>1 DEF Paid
<1>10. HeldIsRemitted'
  <2> DEFINE p == Paid(ledger')
             q == Paid(ledger)
             F == InForce(ledger)
  <2>1. IsFiniteSet(F) /\ t \in F /\ q[t] = ledger[t].amount /\ \A i \in F : q[i] \in Int
    BY <1>9, InForceTyped
  <2>2. /\ InForce(ledger') = F \ {t} /\ SumOf(q, F) = Remitted(ledger)
        /\ \A i \in F \ {t} : p[i] = q[i]
    BY <1>1, <1>9, ReversalKeeps DEF MoneyInv, HeldIsRemitted
  <2> HIDE DEF p, q, F
  <2>3. SumOf(q, F) = q[t] + SumOf(q, F \ {t})
    BY <2>1, SumTakes
  <2>4. IsFiniteSet(F \ {t}) /\ \A i \in F \ {t} : q[i] \in Int
    BY <2>1, FS_Subset
  <2>5. SumOf(p, F \ {t}) = SumOf(q, F \ {t}) /\ SumOf(q, F \ {t}) \in Int
    BY <2>2, <2>4, SumSame, SumInt
  <2>6. SumOf(p, InForce(ledger')) = Remitted(ledger')
    BY <1>1, <1>3, <1>4, <2>1, <2>2, <2>3, <2>5
  <2> QED  BY <2>6 DEF HeldIsRemitted, p
<1> QED  BY <1>4, <1>5, <1>6, <1>7, <1>8, <1>9, <1>10

LEMMA MoneyStep ==
  ASSUME MoneyInv, [Next]_vars
  PROVE  AmountsPositive' /\ HeldIsRemitted' /\ WithinDue' /\ LastPaysAll' /\ NewDebtOnly'
<1>1. Due' \in Nat /\ Due <= Due' /\ Due \in Nat /\ Remitted(ledger) \in 0..Due
  BY DueStep DEF MoneyInv, WithinDue
<1>2. CASE UNCHANGED ledger
  <2>1. Remitted(ledger') = Remitted(ledger) /\ Remitted(ledger') \in 0..Due'
    BY <1>1, <1>2
  <2> QED  BY <1>2, <2>1 DEF MoneyInv, AmountsPositive, HeldIsRemitted, WithinDue, LastPaysAll, NewDebtOnly
<1>3. ASSUME NEW due \in Nat, Remits(due)
      PROVE  AmountsPositive' /\ HeldIsRemitted' /\ WithinDue' /\ LastPaysAll' /\ NewDebtOnly'
  <2>1. Remitted(ledger') \in 0..Due'
    BY <1>1, <1>3, MarkPays
  <2> QED  BY <1>3, <2>1, MarkPays DEF WithinDue
<1>4. ASSUME NEW t \in DOMAIN ledger, TakesBack(t)
      PROVE  AmountsPositive' /\ HeldIsRemitted' /\ WithinDue' /\ LastPaysAll' /\ NewDebtOnly'
  <2>1. Remitted(ledger') \in 0..Due'
    <3>1. t \in InForce(ledger) /\ Remitted(ledger') = Remitted(ledger) - ledger[t].amount
      BY <1>4, ReversalTakesBack
    <3>2. ledger[t].amount <= Remitted(ledger) /\ ledger[t].amount \in Nat
      BY <3>1, PartOfRemitted
    <3> QED  BY <1>1, <3>1, <3>2
  <2> QED  BY <1>4, <2>1, ReversalTakesBack DEF WithinDue
<1> QED  BY <1>2, <1>3, <1>4, LedgerWritten DEF MoneyInv

(* The inductive invariant of the money.                                   *)
THEOREM MoneyHolds == Spec => []MoneyInv
<1>1. MoneyInv /\ [Next]_vars
      => AmountsPositive' /\ HeldIsRemitted' /\ WithinDue' /\ LastPaysAll' /\ NewDebtOnly'
  BY MoneyStep
<1>2. /\ LedgerInv' /\ AmountsPositive' /\ HeldIsRemitted' /\ WithinDue' /\ LastPaysAll'
      /\ NewDebtOnly'
      => MoneyInv'
  BY DEF MoneyInv
<1> QED  BY <1>1, <1>2, MoneyInvInit, LedgerInvariant, PTL DEF Spec

(* No commission is remitted twice: what is remitted in total is within    *)
(* what was collected, and a second mark pays new commissions only.        *)
THEOREM NothingPaidTwice == Spec => []PaidOnce
<1>1. MoneyInv => PaidOnce
  BY DEF MoneyInv, PaidOnce
<1> QED  BY <1>1, MoneyHolds, PTL

(* A report never asks for more than the driver then owes, although trips  *)
(* are confirmed and marks are made between its two reads.                 *)
LEMMA ReportStep ==
  ASSUME MoneyInv, [Next]_vars, NEW c \in Call, call[c].at = "counted", call'[c].at = "shown"
  PROVE  call'[c].expected <= Due - Remitted(ledger)
<1>1. LedgerInv /\ Due \in Nat /\ Remitted(ledger) \in Int /\ call[c].due \in Nat /\ call[c].due <= Due
  BY DueTyped, SignedTyped DEF MoneyInv, LedgerInv, TypeOK, CountedOfDue, Request
<1>2. ShowReport(c)
  <2>1. ASSUME NEW d \in Call, CountCommissions(d) \/ BeginRecord(d) \/ ListLedger(d) \/ FindEntry(d)
                                 \/ BeginReverse(d) \/ EndReverse(d)
        PROVE  FALSE
    BY <1>1, <2>1, CallSteps DEF Moves
  <2>2. ASSUME NEW d \in Call, EndRecord(d) \/ Rollback(d) PROVE FALSE
    BY <1>1, <2>2, CallSteps DEF Moves, Holds
  <2>3. ASSUME NEW d \in Call, ShowReport(d) PROVE d = c
    BY <1>1, <2>3, CallSteps DEF Moves
  <2>4. CASE UNCHANGED vars \/ \E t \in Trip : MarkCashCollected(t)
    BY <2>4 DEF vars, MarkCashCollected
  <2> QED  BY <2>1, <2>2, <2>3, <2>4 DEF Next
<1>3. call'[c].expected = call[c].due - Remitted(ledger)
  BY <1>1, <1>2, CallSteps
<1> QED  BY <1>1, <1>3

(* The answer to a mark that adds nothing is true when it is given.        *)
LEMMA AnswerStep ==
  ASSUME MoneyInv, [Next]_vars, NEW c \in Call, call[c].at = "deciding", call'[c].at = "shown"
  PROVE  /\ call'[c].answer = "same" =>
              /\ ledger'[call'[c].entry].kind = "remittance"
              /\ \A j \in DOMAIN ledger' : ledger'[j].reverses # call'[c].entry
              /\ call[c].due <= Remitted(ledger')
         /\ call'[c].answer = "nothing" => call[c].due = 0
<1> DEFINE Goal ==
             /\ call'[c].answer = "same" =>
                  /\ ledger'[call'[c].entry].kind = "remittance"
                  /\ \A j \in DOMAIN ledger' : ledger'[j].reverses # call'[c].entry
                  /\ call[c].due <= Remitted(ledger')
             /\ call'[c].answer = "nothing" => call[c].due = 0
<1>1. /\ LedgerInv /\ call \in [Call -> Request] /\ Remitted(ledger) \in Int
      /\ call[c].due \in Nat /\ call[c].answer = "none"
  BY SignedTyped DEF MoneyInv, LedgerInv, TypeOK, AsksAnew, Request
<1>2. EndRecord(c) \/ Rollback(c)
  <2>1. ASSUME NEW d \in Call, CountCommissions(d) \/ ShowReport(d) \/ BeginRecord(d) \/ ListLedger(d)
                                 \/ FindEntry(d) \/ BeginReverse(d) \/ EndReverse(d)
        PROVE  FALSE
    BY <1>1, <2>1, CallSteps DEF Moves, Holds
  <2>2. ASSUME NEW d \in Call, EndRecord(d) \/ Rollback(d) PROVE d = c
    BY <1>1, <2>2, CallSteps DEF Moves
  <2>3. CASE UNCHANGED vars \/ \E t \in Trip : MarkCashCollected(t)
    BY <2>3 DEF vars, MarkCashCollected
  <2> QED  BY <2>1, <2>2, <2>3 DEF Next
<1>3. CASE Rollback(c)
  <2>1. call'[c].answer = "none"
    BY <1>1, <1>3, CallSteps
  <2> QED  BY <2>1
<1>4. CASE EndRecord(c)
  <2>1. Owing(c) = call[c].due - Remitted(ledger) /\ Seen(c) = ledger
    BY <1>1, SeesAll DEF Owing, Balance
  <2>2. ASSUME NEW answer, NEW entry, Answered(c, answer, entry)
        PROVE  call'[c].answer = answer /\ call'[c].entry = entry
    <3> DEFINE r == [call[c] EXCEPT !.at = "shown", !.due = 0, !.seen = 0, !.answer = answer, !.entry = entry]
    <3>1. call' = [call EXCEPT ![c] = r]
      BY <2>2 DEF Answered
    <3>2. r.answer = answer /\ r.entry = entry
      BY <1>1 DEF Request
    <3> HIDE DEF r
    <3>3. call'[c] = r
      BY <1>1, <3>1
    <3> QED  BY <3>2, <3>3
  <2>3. CASE BalanceChanged(c) \/ InsertRemittance(c)
    <3>1. call'[c].answer = "changed" \/ call'[c].answer = "recorded"
      BY <2>2, <2>3 DEF BalanceChanged, InsertRemittance
    <3> QED  BY <3>1
  <2>4. CASE SettledAlready(c)
    <3>1. ledger' = ledger /\ call[c].due <= Remitted(ledger)
      BY <1>1, <2>1, <2>4 DEF SettledAlready
    <3>2. ASSUME NEW i \in InForce(ledger), Answered(c, "same", i) PROVE Goal
      <4>1. call'[c].answer = "same" /\ call'[c].entry = i
        BY <2>2, <3>2
      <4>2. ledger[i].kind = "remittance" /\ \A j \in DOMAIN ledger : ledger[j].reverses # i
        BY DEF InForce, Reversals
      <4> QED  BY <3>1, <4>1, <4>2
    <3>3. ASSUME InForce(ledger) = {}, Answered(c, "nothing", None) PROVE Goal
      <4>1. call'[c].answer = "nothing"
        BY <2>2, <3>3
      <4>2. Remitted(ledger) = 0
        BY <3>3, SumOfNone DEF MoneyInv, HeldIsRemitted
      <4> QED  BY <1>1, <3>1, <4>1, <4>2
    <3> QED  BY <2>1, <2>4, <3>2, <3>3 DEF SettledAlready
  <2> QED  BY <1>4, <2>3, <2>4 DEF EndRecord
<1> QED  BY <1>2, <1>3, <1>4

(* What the console is told of a balance is true: by a report, which may   *)
(* be stale, and by a mark that adds nothing.                              *)
THEOREM BalancesAreTrue == Spec => AnswersAreTrue
<1>1. MoneyInv /\ [Next]_vars =>
        [\A c \in Call : call[c].at = "counted" /\ call'[c].at = "shown"
           => call'[c].expected <= Due - Remitted(ledger)]_vars
  BY ReportStep
<1>2. MoneyInv /\ [Next]_vars =>
        [\A c \in Call : call[c].at = "deciding" /\ call'[c].at = "shown" =>
           /\ call'[c].answer = "same" =>
                /\ ledger'[call'[c].entry].kind = "remittance"
                /\ \A j \in DOMAIN ledger' : ledger'[j].reverses # call'[c].entry
                /\ call[c].due <= Remitted(ledger')
           /\ call'[c].answer = "nothing" => call[c].due = 0]_vars
  BY AnswerStep
<1> QED  BY <1>1, <1>2, MoneyHolds, PTL DEF Spec, AnswersAreTrue, ReportNeverOverstates, AnsweredTruly

-----------------------------------------------------------------------------
(* The account of the week.                                                *)

LEMMA StartsAccount == Init => Account!Init
<1> SUFFICES ASSUME Init PROVE Account!Init
  OBVIOUS
<1>1. Due \in Nat
  BY LedgerInvInit, DueTyped DEF LedgerInv
<1>2. InForce(ledger) = {}
  BY DEF Init, InForce
<1> QED  BY <1>1, <1>2 DEF Account!Init

LEMMA AccountStep ==
  ASSUME MoneyInv, [Next]_vars
  PROVE  [Account!Next]_(Account!accountVars)
<1>1. Due' \in Nat /\ Due <= Due' /\ Due \in Nat
  BY DueStep DEF MoneyInv
<1>2. CASE UNCHANGED ledger
  <2>1. Paid(ledger') = Paid(ledger)
    BY <1>2
  <2>2. CASE Due' = Due
    BY <2>1, <2>2 DEF Account!accountVars, Paid
  <2>3. CASE Due' # Due
    <3>1. Account!Owe
      BY <1>1, <2>1, <2>3 DEF Account!Owe, Paid
    <3> QED  BY <3>1 DEF Account!Next
  <2> QED  BY <2>2, <2>3
<1>3. ASSUME NEW due \in Nat, Remits(due) PROVE Account!Next
  <2> DEFINE n == Len(ledger) + 1
  <2>1. /\ n \in 1..MaxEntries /\ n \notin InForce(ledger)
        /\ DOMAIN Paid(ledger') = InForce(ledger) \cup {n}
        /\ \A i \in InForce(ledger) : Paid(ledger')[i] = Paid(ledger)[i]
        /\ Paid(ledger')[n] > 0
        /\ Due' = Due /\ Remitted(ledger') = due /\ due <= Due
    BY <1>3, MarkPays
  <2>2. DOMAIN Paid(ledger) = InForce(ledger) /\ DOMAIN Paid(ledger') = InForce(ledger')
    BY DEF Paid
  <2>3. Account!Total(Paid(ledger')) <= Due
    <3>1. Remitted(ledger') = SumOf(Paid(ledger'), InForce(ledger'))
      BY <1>3, MarkPays DEF HeldIsRemitted
    <3>2. Account!Total(Paid(ledger')) = SumOf(Paid(ledger'), DOMAIN Paid(ledger'))
      BY TotalIs
    <3> QED  BY <2>1, <2>2, <3>1, <3>2
  <2> HIDE DEF n
  <2>4. PICK m \in 1..MaxEntries : m = n
    BY <2>1
  <2>5. Account!Pay(m)
    BY <2>1, <2>2, <2>3, <2>4 DEF Account!Pay, Paid
  <2> QED  BY <2>4, <2>5 DEF Account!Next
<1>4. ASSUME NEW t \in DOMAIN ledger, TakesBack(t) PROVE Account!Next
  <2>1. /\ t \in InForce(ledger) /\ t \in 1..MaxEntries /\ Due' = Due
        /\ Paid(ledger') = [i \in InForce(ledger) \ {t} |-> Paid(ledger)[i]]
    BY <1>4, ReversalTakesBack
  <2>2. DOMAIN Paid(ledger) = InForce(ledger)
    BY DEF Paid
  <2>3. Account!TakeBack(t)
    BY <2>1, <2>2 DEF Account!TakeBack, Paid
  <2> QED  BY <2>1, <2>3 DEF Account!Next
<1> QED  BY <1>2, <1>3, <1>4, LedgerWritten DEF MoneyInv

(* The ledger, its locks and its repeated requests implement the account:  *)
(* what is owed only grows, a mark pays some of it and no more than all,   *)
(* and is taken back as a whole.                                           *)
THEOREM LedgerIsAccount == Spec => ImplementsAccount
<1>1. MoneyInv /\ [Next]_vars => [Account!Next]_(Account!accountVars)
  BY AccountStep
<1> QED  BY <1>1, StartsAccount, MoneyHolds, PTL DEF Spec, ImplementsAccount, Account!Spec

=============================================================================

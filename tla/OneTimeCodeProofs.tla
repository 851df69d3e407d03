------------------------- MODULE OneTimeCodeProofs -------------------------
(***************************************************************************)
(* What holds of one-time codes for any phones, processes, requests, caps  *)
(* and windows: a phone has one code alive, a code is spent within its     *)
(* attempts, what is delivered keeps the caps of its phone and of the      *)
(* service although refunds and purges remove what the caps count, and who *)
(* waits as long as told is not refused. And of the limiter of a process:  *)
(* the turns taken are the calls at work.                                  *)
(***************************************************************************)
EXTENDS OneTimeCode, IssueLimiter, FiniteSetTheorems, WellFoundedInduction, TLAPS

-----------------------------------------------------------------------------
(* The waits. Among finitely many rows there is a latest and an earliest.  *)

LEMMA Greatest ==
  ASSUME NEW S, IsFiniteSet(S), S # {}, NEW f, \A i \in S : f[i] \in Int
  PROVE  \E i \in S : \A j \in S : f[j] <= f[i]
<1> DEFINE Above(i) == { j \in S : f[j] >= f[i] }
           Sets == { Above(i) : i \in S }
<1>1. Sets \subseteq FiniteSubsetsOf(S) /\ Sets # {}
  <2>1. ASSUME NEW i \in S PROVE Above(i) \in FiniteSubsetsOf(S)
    BY FS_Subset DEF FiniteSubsetsOf
  <2> QED  BY <2>1
<1>2. PICK A \in Sets : \A B \in Sets : <<B, A>> \notin StrictSubsetOrdering(S)
  <2> HIDE DEF Sets
  <2> QED  BY <1>1, FS_StrictSubsetOrderingWellFounded, WFMin
<1>3. PICK i \in S : A = Above(i)
  OBVIOUS
<1>4. ASSUME NEW j \in S, f[j] > f[i] PROVE FALSE
  <2>1. Above(j) \subseteq Above(i) /\ i \in Above(i) /\ i \notin Above(j)
    BY <1>4
  <2>2. Above(j) \in Sets
    OBVIOUS
  <2> QED  BY <1>2, <1>3, <2>1, <2>2 DEF StrictSubsetOrdering
<1>5. \A j \in S : f[j] <= f[i]
  BY <1>4
<1> QED  BY <1>5

LEMMA MaxOf ==
  ASSUME NEW S, IsFiniteSet(S), S # {}, S \subseteq Int
  PROVE  Max(S) \in S /\ \A x \in S : x <= Max(S)
<1> DEFINE f == [x \in S |-> x]
<1>1. \E i \in S : \A j \in S : f[j] <= f[i]
  <2> HIDE DEF f
  <2>1. \A i \in S : f[i] \in Int
    BY DEF f
  <2> QED  BY <2>1, Greatest
<1>2. \E x \in S : \A y \in S : x >= y
  BY <1>1
<1> QED  BY <1>2 DEF Max

(* The rows a cap counts, and how long until they are fewer than k.        *)
Recent(S, window, t) == { i \in S : otp[i].at > t - window }

Decisive(S, window, k, t) ==
  { i \in Recent(S, window, t) :
      k <= Cardinality({ j \in Recent(S, window, t) : otp[j].at >= otp[i].at }) }

LEMMA RecentFinite ==
  ASSUME NEW S, S \subseteq OtpId, NEW w, NEW t
  PROVE  IsFiniteSet(S) /\ IsFiniteSet(Recent(S, w, t))
<1>1. IsFiniteSet(OtpId)
  BY CodeAssumption, FS_Interval DEF OtpId
<1> QED  BY <1>1, FS_Subset DEF Recent

LEMMA EarliestDecides ==
  ASSUME NEW S, S \subseteq OtpId, \A i \in S : otp[i].at \in Nat,
         NEW w \in Nat, NEW k \in Nat \ {0}, NEW t \in Nat,
         NEW u \in Nat, t <= u, k <= Cardinality(Recent(S, w, u))
  PROVE  \E i \in Decisive(S, w, k, t) : i \in Recent(S, w, u)
<1> DEFINE R == Recent(S, w, u)
           f == [i \in R |-> 0 - otp[i].at]
<1>1. IsFiniteSet(R) /\ IsFiniteSet(Recent(S, w, t)) /\ R \subseteq Recent(S, w, t)
  BY RecentFinite DEF Recent
<1>2. R # {}
  BY <1>1, FS_EmptySet
<1>3. PICK i \in R : \A j \in R : f[j] <= f[i]
  <2>1. \A i \in R : f[i] \in Int
    BY DEF Recent
  <2> HIDE DEF f, R
  <2> QED  BY <1>1, <1>2, <2>1, Greatest
<1>4. \A j \in R : otp[j].at >= otp[i].at
  BY <1>3 DEF Recent
<1> DEFINE D == { j \in Recent(S, w, t) : otp[j].at >= otp[i].at }
<1>5. R \subseteq D /\ D \subseteq Recent(S, w, t)
  BY <1>1, <1>4
<1>6. IsFiniteSet(D)
  BY <1>1, <1>5, FS_Subset
<1>7. k <= Cardinality(D)
  <2>1. Cardinality(R) <= Cardinality(D) /\ Cardinality(R) \in Nat /\ Cardinality(D) \in Nat
    BY <1>1, <1>5, <1>6, FS_Subset, FS_CardinalityType
  <2> QED  BY <2>1
<1>8. i \in Decisive(S, w, k, t)
  BY <1>1, <1>3, <1>7 DEF Decisive
<1> QED  BY <1>3, <1>8

(* A cap that is not reached makes nobody wait; one that is reached does.  *)
LEMMA WaitIs ==
  ASSUME NEW S, S \subseteq OtpId, \A i \in S : otp[i].at \in Nat,
         NEW w \in Nat, NEW k \in Nat \ {0}, NEW t \in Nat
  PROVE  /\ WaitFor(S, w, k, t) \in Nat
         /\ WaitFor(S, w, k, t) = 0 <=> Cardinality(Recent(S, w, t)) < k
         /\ \A i \in Decisive(S, w, k, t) :
              k <= Cardinality(Recent(S, w, t)) => otp[i].at + w - t <= WaitFor(S, w, k, t)
<1> DEFINE Times == { otp[i].at : i \in Decisive(S, w, k, t) }
<1>0. Cardinality(Recent(S, w, t)) \in Nat
  BY RecentFinite, FS_CardinalityType
<1>1. CASE Cardinality(Recent(S, w, t)) < k
  <2>1. WaitFor(S, w, k, t) = 0
    BY <1>1 DEF WaitFor, Recent
  <2> QED  BY <1>0, <1>1, <2>1
<1>2. CASE ~(Cardinality(Recent(S, w, t)) < k)
  <2>1. WaitFor(S, w, k, t) = Max(Times) + w - t
    BY <1>2 DEF WaitFor, Recent, Decisive
  <2>2. Decisive(S, w, k, t) # {}
    <3>1. k <= Cardinality(Recent(S, w, t)) /\ t <= t
      BY <1>0, <1>2
    <3>2. \E i \in Decisive(S, w, k, t) : i \in Recent(S, w, t)
      BY <3>1, EarliestDecides
    <3> QED  BY <3>2
  <2>3. Decisive(S, w, k, t) \subseteq Recent(S, w, t)
    BY DEF Decisive
  <2>4. IsFiniteSet(Times)
    <3>1. IsFiniteSet(Decisive(S, w, k, t))
      BY <2>3, RecentFinite, FS_Subset
    <3>2. [i \in Decisive(S, w, k, t) |-> otp[i].at] \in Surjection(Decisive(S, w, k, t), Times)
      BY DEF Surjection
    <3> QED  BY <3>1, <3>2, FS_Surjection
  <2>5. Times \subseteq Int /\ Times # {}
    BY <2>2, <2>3 DEF Recent
  <2>6. Max(Times) \in Times /\ \A x \in Times : x <= Max(Times)
    <3> HIDE DEF Times
    <3> QED  BY <2>4, <2>5, MaxOf
  <2>7. Max(Times) \in Nat /\ Max(Times) > t - w
    BY <2>3, <2>6 DEF Recent
  <2>8. \A i \in Decisive(S, w, k, t) : otp[i].at \in Nat /\ otp[i].at <= Max(Times)
    BY <2>3, <2>6 DEF Recent
  <2> HIDE DEF Times
  <2> QED  BY <1>2, <2>1, <2>7, <2>8
<1> QED  BY <1>1, <1>2

(* Once the wait is over, the cap is not reached.                          *)
LEMMA WaitIsEnough ==
  ASSUME NEW S, S \subseteq OtpId, \A i \in S : otp[i].at \in Nat,
         NEW w \in Nat, NEW k \in Nat \ {0}, NEW t \in Nat,
         NEW u \in Nat, t + WaitFor(S, w, k, t) <= u
  PROVE  WaitFor(S, w, k, u) = 0
<1>0. WaitFor(S, w, k, t) \in Nat /\ Cardinality(Recent(S, w, t)) \in Nat /\ Cardinality(Recent(S, w, u)) \in Nat
  BY WaitIs, RecentFinite, FS_CardinalityType
<1>a. Cardinality(Recent(S, w, u)) < k => WaitFor(S, w, k, u) = 0
  BY WaitIs
<1>1. SUFFICES ASSUME k <= Cardinality(Recent(S, w, u)) PROVE FALSE
  BY <1>0, <1>a
<1>2. PICK i \in Decisive(S, w, k, t) : i \in Recent(S, w, u)
  BY <1>0, <1>1, EarliestDecides
<1>3. k <= Cardinality(Recent(S, w, t))
  <2>1. Recent(S, w, u) \subseteq Recent(S, w, t)
    BY <1>0 DEF Recent
  <2>2. Cardinality(Recent(S, w, u)) <= Cardinality(Recent(S, w, t))
    BY <2>1, RecentFinite, FS_Subset
  <2> QED  BY <1>0, <1>1, <2>2
<1>4. otp[i].at + w - t <= WaitFor(S, w, k, t) /\ otp[i].at \in Nat
  BY <1>2, <1>3, WaitIs DEF Decisive, Recent
<1> QED  BY <1>0, <1>2, <1>4 DEF Recent

Caps == {<<Cooldown, 1>>, <<HourWindow, HourlyLimit>>, <<DayWindow, DailyLimit>>}

LEMMA CapsTyped ==
  \A cap \in Caps : cap[1] \in Nat \ {0} /\ cap[2] \in Nat \ {0} /\ cap[1] <= DayWindow
BY CodeAssumption DEF Caps

LEMMA RowsAreDated ==
  ASSUME TypeOK
  PROVE  /\ Present \subseteq OtpId
         /\ \A i \in Present : otp[i] \in Row /\ otp[i].at \in Nat
         /\ \A p \in Phone : RowsOf(p) \subseteq Present
BY CodeAssumption DEF TypeOK, Present, RowsOf, Row, Moment

LEMMA RetryIs ==
  ASSUME TypeOK, NEW p \in Phone, NEW t \in Nat
  PROVE  /\ RetryIn(p, t) \in Nat
         /\ WaitFor(Present, DayWindow, GlobalLimit, t) <= RetryIn(p, t)
         /\ \A cap \in Caps : WaitFor(RowsOf(p), cap[1], cap[2], t) <= RetryIn(p, t)
         /\ \/ RetryIn(p, t) = WaitFor(Present, DayWindow, GlobalLimit, t)
            \/ \E cap \in Caps : RetryIn(p, t) = WaitFor(RowsOf(p), cap[1], cap[2], t)
<1> DEFINE g == WaitFor(Present, DayWindow, GlobalLimit, t)
           d == WaitFor(RowsOf(p), DayWindow, DailyLimit, t)
           h == WaitFor(RowsOf(p), HourWindow, HourlyLimit, t)
           c == WaitFor(RowsOf(p), Cooldown, 1, t)
           waits == {g, d, h, c}
<1>1. g \in Nat
  BY RowsAreDated, CodeAssumption, WaitIs
<1>2. d \in Nat /\ h \in Nat /\ c \in Nat
  <2>1. RowsOf(p) \subseteq OtpId /\ \A i \in RowsOf(p) : otp[i].at \in Nat
    BY RowsAreDated
  <2>2. \A cap \in Caps : WaitFor(RowsOf(p), cap[1], cap[2], t) \in Nat
    BY <2>1, CapsTyped, WaitIs
  <2> QED  BY <2>2 DEF Caps
<1>3. RetryIn(p, t) = Max(waits)
  <2>1. { CapWaits(p, t)[cap] : cap \in DOMAIN CapWaits(p, t) } = waits
    BY DEF CapWaits
  <2> QED  BY <2>1 DEF RetryIn
<1>4. Max(waits) \in waits /\ \A x \in waits : x <= Max(waits)
  <2>1. waits \subseteq Int /\ waits # {}
    BY <1>1, <1>2
  <2>2. IsFiniteSet(waits)
    <3>1. waits = (({g} \cup {d}) \cup {h}) \cup {c}
      OBVIOUS
    <3> HIDE DEF g, d, h, c
    <3>2. IsFiniteSet({g})
      BY FS_Singleton
    <3>3. IsFiniteSet({g} \cup {d})
      BY <3>2, FS_AddElement
    <3>4. IsFiniteSet(({g} \cup {d}) \cup {h})
      BY <3>3, FS_AddElement
    <3> QED  BY <3>1, <3>4, FS_AddElement
  <2> HIDE DEF waits
  <2> QED  BY <2>1, <2>2, MaxOf
<1> HIDE DEF g, d, h, c
<1>5. /\ RetryIn(p, t) \in Nat
      /\ g <= RetryIn(p, t) /\ d <= RetryIn(p, t) /\ h <= RetryIn(p, t) /\ c <= RetryIn(p, t)
      /\ RetryIn(p, t) \in {g, d, h, c}
  BY <1>1, <1>2, <1>3, <1>4
<1> QED  BY <1>5 DEF Caps, g, d, h, c

(* With no wait no cap is reached, and after it none.                      *)
LEMMA NoCapReached ==
  ASSUME TypeOK, NEW p \in Phone, NEW t \in Nat, RetryIn(p, t) = 0
  PROVE  /\ Cardinality(Recent(Present, DayWindow, t)) < GlobalLimit
         /\ \A cap \in Caps : Cardinality(Recent(RowsOf(p), cap[1], t)) < cap[2]
<1>1. Cardinality(Recent(Present, DayWindow, t)) < GlobalLimit
  <2>1. WaitFor(Present, DayWindow, GlobalLimit, t) \in Nat
    BY RowsAreDated, CodeAssumption, WaitIs
  <2>2. WaitFor(Present, DayWindow, GlobalLimit, t) = 0
    BY <2>1, RetryIs
  <2> QED  BY <2>2, RowsAreDated, CodeAssumption, WaitIs
<1>2. ASSUME NEW cap \in Caps PROVE Cardinality(Recent(RowsOf(p), cap[1], t)) < cap[2]
  <2>0. /\ RowsOf(p) \subseteq OtpId /\ \A i \in RowsOf(p) : otp[i].at \in Nat
        /\ cap[1] \in Nat /\ cap[2] \in Nat \ {0}
    BY RowsAreDated, CapsTyped
  <2>1. WaitFor(RowsOf(p), cap[1], cap[2], t) \in Nat
    BY <2>0, WaitIs
  <2>2. WaitFor(RowsOf(p), cap[1], cap[2], t) = 0
    BY <2>1, RetryIs
  <2> QED  BY <2>0, <2>2, WaitIs
<1> QED  BY <1>1, <1>2

LEMMA RetryIsEnough == ASSUME TypeOK PROVE RetrySuffices
<1> SUFFICES ASSUME NEW p \in Phone PROVE RetryIn(p, now + RetryIn(p, now)) = 0
  BY DEF RetrySuffices
<1>0. now \in Nat
  BY CodeAssumption DEF TypeOK, Moment
<1> DEFINE u == now + RetryIn(p, now)
<1>1. u \in Nat /\ RetryIn(p, now) \in Nat
  BY <1>0, RetryIs
<1>2. WaitFor(Present, DayWindow, GlobalLimit, u) = 0
  <2>1. WaitFor(Present, DayWindow, GlobalLimit, now) \in Nat
    BY <1>0, RowsAreDated, CodeAssumption, WaitIs
  <2>2. now + WaitFor(Present, DayWindow, GlobalLimit, now) <= u
    BY <1>0, <1>1, <2>1, RetryIs
  <2> HIDE DEF u
  <2> QED  BY <1>0, <1>1, <2>2, RowsAreDated, CodeAssumption, WaitIsEnough
<1>3. ASSUME NEW cap \in Caps PROVE WaitFor(RowsOf(p), cap[1], cap[2], u) = 0
  <2>0. /\ RowsOf(p) \subseteq OtpId /\ \A i \in RowsOf(p) : otp[i].at \in Nat
        /\ cap[1] \in Nat /\ cap[2] \in Nat \ {0}
    BY RowsAreDated, CapsTyped
  <2>1. WaitFor(RowsOf(p), cap[1], cap[2], now) \in Nat
    BY <1>0, <2>0, WaitIs
  <2>2. now + WaitFor(RowsOf(p), cap[1], cap[2], now) <= u
    BY <1>0, <1>1, <2>1, RetryIs
  <2> HIDE DEF u
  <2> QED  BY <1>0, <1>1, <2>0, <2>2, WaitIsEnough
<1> HIDE DEF u
<1>4. RetryIn(p, u) = 0
  BY <1>1, <1>2, <1>3, RetryIs
<1> QED  BY <1>4 DEF u

-----------------------------------------------------------------------------
(* The codes. Those that count are the rows, those that were delivered,    *)
(* and those about to be: each is <<phone, created_at, id>>.               *)

Sending == { h \in Issuer : issuer[h].op = "sending" }

Inserted == { h \in Issuer : issuer[h].op = "inserted" }

CodeOf(h) == <<issuer[h].phone, issuer[h].at, issuer[h].id>>

RowCode(i) == <<otp[i].phone, otp[i].at, i>>

Outgoing == sent \cup { CodeOf(h) : h \in Sending }

Issued == { RowCode(i) : i \in Present } \cup Outgoing

(* A code is known by its id; new ids are new.                             *)
Numbered ==
  /\ \A c \in Issued : c[3] < nextId /\ c[2] <= now
  /\ \A c, d \in Issued : c[3] = d[3] => c = d
  /\ \A g, h \in Sending : issuer[g].id = issuer[h].id => g = h
  /\ \A h \in Sending : CodeOf(h) \notin sent

(* Nobody gives back a code that was delivered, or may be.                 *)
Refunds ==
  \A h \in Issuer : issuer[h].op = "refunding" =>
    issuer[h].id < nextId /\ \A c \in Outgoing : c[3] # issuer[h].id

(* What goes out is missing from the table only when no cap counts it.     *)
StillCounted == \A c \in Outgoing : c[2] > now - DayWindow => c[3] \in Present

(* A phone is locked by one request, a turn taken by one; whoever has the  *)
(* lock inserts the latest code of the phone, and there is room for it.    *)
Locks ==
  /\ \A g, h \in Inserted : issuer[g].phone = issuer[h].phone => g = h
  /\ \A g, h \in Issuer :
       (/\ {issuer[g].op, issuer[h].op} \subseteq {"hashing", "inserted"}
        /\ NodeOf[g] = NodeOf[h]) => g = h

Within(w, at, t) == at <= t /\ at > t - w

IssuedWithin(p, w, t) == { c \in Issued : c[1] = p /\ Within(w, c[2], t) }

HasRoom ==
  \A h \in Inserted :
    LET at == issuer[h].at
        p  == issuer[h].phone
    IN  /\ at <= now
        /\ \A c \in Issued : c[1] = p => c[2] <= at
        /\ \A cap \in Caps : Cardinality(IssuedWithin(p, cap[1], at)) < cap[2]

PhonesKeepCaps ==
  \A p \in Phone : \A cap \in Caps : \A last \in Issued :
    last[1] = p => Cardinality(IssuedWithin(p, cap[1], last[2])) <= cap[2]

(* Of the whole service, the codes of a day and those about to be.         *)
CodesOfDay(t) == { c \in Issued : Within(DayWindow, c[2], t) }

PendingOfDay(t) == { h \in Inserted : Within(DayWindow, issuer[h].at, t) }

ServiceKeepsCap ==
  \A t \in Moment :
    Cardinality(CodesOfDay(t)) + Cardinality(PendingOfDay(t)) <= GlobalLimit + Cardinality(Node) - 1

(* The attempts of a row are the comparisons with it, and who opened a     *)
(* session consumed it.                                                    *)
Spent ==
  \A i \in OtpId :
    /\ compared[i] <= MaxAttempts /\ opened[i] <= 1
    /\ otp[i] # NoRow => compared[i] = otp[i].attempts
    /\ otp[i] # NoRow /\ ~otp[i].consumed => opened[i] = 0
    /\ i >= nextId => otp[i] = NoRow /\ compared[i] = 0 /\ opened[i] = 0

LiveAlone ==
  \A i, j \in Present :
    (/\ otp[i].phone = otp[j].phone
     /\ ~otp[i].consumed /\ otp[i].until > now
     /\ ~otp[j].consumed /\ otp[j].until > now) => i = j

CodeInv ==
  /\ TypeOK
  /\ Numbered /\ Refunds /\ StillCounted
  /\ Locks /\ HasRoom /\ PhonesKeepCaps /\ ServiceKeepsCap
  /\ Spent /\ LiveAlone

LEMMA NoRowIsNone == NoRow \notin Row
<1>1. ASSUME NEW r \in Row PROVE r # NoRow
  <2>1. DOMAIN r = {"phone", "at", "until", "consumed", "attempts"}
    BY DEF Row
  <2>2. DOMAIN NoRow = {"phone"}
    BY DEF NoRow
  <2> QED  BY <2>1, <2>2
<1> QED  BY <1>1

LEMMA RequestShapes ==
  ASSUME TypeOK, NEW h \in Issuer
  PROVE  /\ issuer[h].op \in {"idle", "waiting", "hashing", "inserted", "sending", "refunding"}
         /\ issuer[h].op = "idle" => issuer[h] = Idle
         /\ issuer[h].op \in {"waiting", "hashing", "inserted", "sending"} => issuer[h].phone \in Phone
         /\ issuer[h].op \in {"inserted", "sending"} => issuer[h].at \in Moment
         /\ issuer[h].op \in {"sending", "refunding"} => issuer[h].id \in OtpId
<1>1. issuer[h] \in {Idle} \cup [op : {"waiting", "hashing"}, phone : Phone]
                     \cup [op : {"inserted"}, phone : Phone, at : Moment]
                     \cup [op : {"sending"}, id : OtpId, phone : Phone, at : Moment]
                     \cup [op : {"refunding"}, id : OtpId]
  BY DEF TypeOK
<1> QED  BY <1>1 DEF Idle

LEMMA VerifierShapes ==
  ASSUME TypeOK, NEW v \in Verifier
  PROVE  /\ verifier[v].op \in {"idle", "found", "matched"}
         /\ verifier[v].op \in {"found", "matched"} => verifier[v].id \in OtpId
<1>1. verifier[v] \in {Idle} \cup [op : {"found"}, id : OtpId, right : BOOLEAN]
                             \cup [op : {"matched"}, id : OtpId]
  BY DEF TypeOK
<1> QED  BY <1>1 DEF Idle

LEMMA NumbersTyped ==
  TypeOK => /\ nextId \in Int /\ OtpId \subseteq Int /\ now \in Nat
            /\ compared \in [OtpId -> Nat] /\ opened \in [OtpId -> Nat]
<1>1. OtpId \subseteq Int /\ Moment \subseteq Nat /\ MaxOtp \in Nat
  BY CodeAssumption DEF OtpId, Moment
<1> QED  BY <1>1 DEF TypeOK

LEMMA IssuedTyped == TypeOK => Issued \subseteq Phone \X Moment \X OtpId
<1> SUFFICES ASSUME TypeOK PROVE Issued \subseteq Phone \X Moment \X OtpId
  OBVIOUS
<1>1. \A i \in Present : RowCode(i) \in Phone \X Moment \X OtpId
  BY DEF TypeOK, Present, RowCode, Row
<1>2. \A h \in Sending : CodeOf(h) \in Phone \X Moment \X OtpId
  BY RequestShapes DEF Sending, CodeOf
<1>3. sent \subseteq Phone \X Moment \X OtpId
  BY DEF TypeOK
<1> QED  BY <1>1, <1>2, <1>3 DEF Issued, Outgoing

(* Codes are finitely many, since their ids are.                           *)
LEMMA FewIssued ==
  ASSUME TypeOK, Numbered, NEW S, S \subseteq Issued
  PROVE  IsFiniteSet(S) /\ Cardinality(S) \in Nat
<1>1. IsFiniteSet(OtpId)
  BY CodeAssumption, FS_Interval DEF OtpId
<1>2. [c \in S |-> c[3]] \in Injection(S, OtpId)
  BY IssuedTyped DEF Numbered, Injection, IsInjective
<1> QED  BY <1>1, <1>2, FS_Injection, FS_CardinalityType

-----------------------------------------------------------------------------
(* What a step does to requests and codes.                                 *)

NewCode(h) == <<issuer[h].phone, issuer[h].at, nextId>>

LEMMA RequestSteps ==
  ASSUME TypeOK, [Next]_vars
  PROVE  \/ issuer' = issuer
         \/ \E g \in Issuer : /\ Issue(g)
                              /\ \A h \in Issuer \ {g} : issuer'[h] = issuer[h]
<1>2. ASSUME NEW g \in Issuer, Issue(g) PROVE \A h \in Issuer \ {g} : issuer'[h] = issuer[h]
  <2>1. issuer \in [Issuer -> {Idle} \cup [op : {"waiting", "hashing"}, phone : Phone]
                                  \cup [op : {"inserted"}, phone : Phone, at : Moment]
                                  \cup [op : {"sending"}, id : OtpId, phone : Phone, at : Moment]
                                  \cup [op : {"refunding"}, id : OtpId]]
    BY DEF TypeOK
  <2>2. \E x : issuer' = [issuer EXCEPT ![g] = x]
    BY <1>2 DEF Issue, RequestOtp, EvaluateIssuance, InsertOtp, CommitOtp, SmsDelivered, SmsFails,
                RefundOtpIssuance, Refuse, Become
  <2> QED  BY <2>1, <2>2
<1>3. issuer' = issuer \/ \E g \in Issuer : Issue(g)
  BY DEF Next, vars, Tick, Cleanup, Verify, FindLiveOtp, ReserveOtpAttempt, ConsumeOtp, Unverified
<1> QED  BY <1>2, <1>3

LEMMA RequestMoves ==
  ASSUME TypeOK, [Next]_vars, NEW h \in Issuer
  PROVE  \/ issuer'[h] = issuer[h]
         \/ issuer'[h] = Idle
         \/ issuer'[h].op = "waiting"
         \/ EvaluateIssuance(h) /\ issuer'[h] = [op |-> "hashing", phone |-> issuer[h].phone]
         \/ InsertOtp(h) /\ issuer'[h] = [op |-> "inserted", phone |-> issuer[h].phone, at |-> now]
         \/ CommitOtp(h) /\ issuer'[h] = [op |-> "sending", id |-> nextId,
                                          phone |-> issuer[h].phone, at |-> issuer[h].at]
         \/ SmsFails(h) /\ issuer'[h] = [op |-> "refunding", id |-> issuer[h].id]
<1>1. CASE issuer'[h] = issuer[h]
  BY <1>1
<1>2. CASE Issue(h)
  <2>1. \A x : Become(h, x) => issuer'[h] = x
    BY DEF TypeOK, Become
  <2>2. CASE \E p \in Phone : RequestOtp(h, p)
    BY <2>1, <2>2 DEF RequestOtp
  <2>3. CASE EvaluateIssuance(h)
    BY <2>1, <2>3 DEF EvaluateIssuance
  <2>4. CASE InsertOtp(h)
    BY <2>1, <2>4 DEF InsertOtp
  <2>5. CASE CommitOtp(h)
    BY <2>1, <2>5 DEF CommitOtp
  <2>6. CASE SmsFails(h)
    BY <2>1, <2>6 DEF SmsFails
  <2>7. CASE SmsDelivered(h) \/ RefundOtpIssuance(h) \/ Refuse(h)
    BY <2>1, <2>7 DEF SmsDelivered, RefundOtpIssuance, Refuse
  <2> QED  BY <1>2, <2>2, <2>3, <2>4, <2>5, <2>6, <2>7 DEF Issue
<1> QED  BY <1>1, <1>2, RequestSteps

(* How a request came to be where it is.                                   *)
LEMMA RequestCame ==
  ASSUME TypeOK, [Next]_vars, NEW h \in Issuer, issuer'[h] # issuer[h]
  PROVE  /\ issuer'[h].op = "hashing" => EvaluateIssuance(h)
         /\ issuer'[h].op = "inserted" =>
              InsertOtp(h) /\ issuer'[h].phone = issuer[h].phone /\ issuer'[h].at = now
         /\ issuer'[h].op = "sending" =>
              /\ CommitOtp(h) /\ issuer'[h].id = nextId
              /\ issuer'[h].phone = issuer[h].phone /\ issuer'[h].at = issuer[h].at
         /\ issuer'[h].op = "refunding" => SmsFails(h) /\ issuer'[h].id = issuer[h].id
<1>1. Idle.op = "idle"
  BY DEF Idle
<1>2. CASE issuer'[h] = Idle \/ issuer'[h].op = "waiting"
  BY <1>1, <1>2
<1>3. CASE EvaluateIssuance(h) /\ issuer'[h] = [op |-> "hashing", phone |-> issuer[h].phone]
  BY <1>3
<1>4. CASE InsertOtp(h) /\ issuer'[h] = [op |-> "inserted", phone |-> issuer[h].phone, at |-> now]
  BY <1>4
<1>5. CASE CommitOtp(h) /\ issuer'[h] = [op |-> "sending", id |-> nextId,
                                         phone |-> issuer[h].phone, at |-> issuer[h].at]
  BY <1>5
<1>6. CASE SmsFails(h) /\ issuer'[h] = [op |-> "refunding", id |-> issuer[h].id]
  BY <1>6
<1> QED  BY <1>2, <1>3, <1>4, <1>5, <1>6, RequestMoves

(* A commit ends the live codes of the phone and adds one.                 *)
LEMMA CommitRows ==
  ASSUME TypeOK, NEW h \in Issuer, CommitOtp(h)
  PROVE  /\ nextId \in OtpId /\ nextId' = nextId + 1 /\ otp'[nextId] \in Row
         /\ otp'[nextId] = [phone |-> issuer[h].phone, at |-> issuer[h].at, until |-> issuer[h].at + Ttl,
                            consumed |-> FALSE, attempts |-> 0]
         /\ \A i \in OtpId \ {nextId} :
              /\ otp[i] = NoRow => otp'[i] = NoRow
              /\ otp[i] # NoRow =>
                   /\ otp'[i] \in Row
                   /\ otp'[i].phone = otp[i].phone /\ otp'[i].at = otp[i].at
                   /\ otp'[i].consumed = otp[i].consumed /\ otp'[i].attempts = otp[i].attempts
                   /\ IF otp[i].phone = issuer[h].phone /\ ~otp[i].consumed /\ otp[i].until > issuer[h].at
                      THEN otp'[i].until = issuer[h].at ELSE otp'[i].until = otp[i].until
<1> DEFINE p   == issuer[h].phone
           at  == issuer[h].at
           row == [phone |-> p, at |-> at, until |-> at + Ttl, consumed |-> FALSE, attempts |-> 0]
           old == ExpireLive(p, at)
<1>0. /\ otp \in [OtpId -> Row \cup {NoRow}] /\ nextId \in OtpId
      /\ at \in Moment /\ at \in 0..(MaxTime + Ttl) /\ row \in Row
  <2>1. otp \in [OtpId -> Row \cup {NoRow}]
    BY DEF TypeOK
  <2>2. nextId \in OtpId
    BY CodeAssumption DEF CommitOtp, TypeOK, OtpId
  <2>3. at \in Moment /\ p \in Phone
    BY RequestShapes DEF CommitOtp
  <2>4. at \in 0..(MaxTime + Ttl) /\ at + Ttl \in 0..(MaxTime + Ttl) /\ 0 \in 0..MaxAttempts
    BY <2>3, CodeAssumption DEF Moment
  <2> QED  BY <2>1, <2>2, <2>3, <2>4 DEF Row
<1>1. otp' = [old EXCEPT ![nextId] = row] /\ nextId' = nextId + 1
  BY DEF CommitOtp
<1>2. DOMAIN old = OtpId
  BY DEF ExpireLive
<1>3. ASSUME NEW i \in OtpId, otp[i] = NoRow PROVE old[i] = NoRow
  BY <1>3 DEF ExpireLive, RowsOf, Present
<1>4. ASSUME NEW i \in OtpId, otp[i] # NoRow
      PROVE  /\ otp[i] \in Row
             /\ old[i] = IF otp[i].phone = p /\ ~otp[i].consumed /\ otp[i].until > at
                         THEN [otp[i] EXCEPT !.until = at] ELSE otp[i]
  BY <1>0, <1>4 DEF ExpireLive, RowsOf, Present
<1>5. \A r \in Row : /\ [r EXCEPT !.until = at] \in Row
                     /\ [r EXCEPT !.until = at].phone = r.phone /\ [r EXCEPT !.until = at].at = r.at
                     /\ [r EXCEPT !.until = at].consumed = r.consumed
                     /\ [r EXCEPT !.until = at].attempts = r.attempts
                     /\ [r EXCEPT !.until = at].until = at
  BY <1>0 DEF Row
<1>6. ASSUME NEW i \in OtpId, otp[i] # NoRow
      PROVE  /\ old[i] \in Row
             /\ old[i].phone = otp[i].phone /\ old[i].at = otp[i].at
             /\ old[i].consumed = otp[i].consumed /\ old[i].attempts = otp[i].attempts
             /\ IF otp[i].phone = p /\ ~otp[i].consumed /\ otp[i].until > at
                THEN old[i].until = at ELSE old[i].until = otp[i].until
  <2> HIDE DEF old, p, at
  <2> QED  BY <1>4, <1>5, <1>6
<1>7. \A i \in OtpId \ {nextId} : otp'[i] = old[i]
  <2> HIDE DEF old, row
  <2> QED  BY <1>1, <1>2
<1>8. otp'[nextId] = row
  <2> HIDE DEF old, row
  <2> QED  BY <1>0, <1>1, <1>2
<1> HIDE DEF old
<1> QED  BY <1>0, <1>1, <1>3, <1>6, <1>7, <1>8

LEMMA RowKinds ==
  ASSUME TypeOK, [Next]_vars
  PROVE  \/ otp' = otp /\ nextId' = nextId /\ compared' = compared /\ opened' = opened
         \/ Cleanup
         \/ \E h \in Issuer : CommitOtp(h)
         \/ \E h \in Issuer : RefundOtpIssuance(h)
         \/ \E v \in Verifier : ReserveOtpAttempt(v)
         \/ \E v \in Verifier : ConsumeOtp(v)
BY DEF Next, vars, otpVars, histVars, Issue, Verify, Tick, RequestOtp, EvaluateIssuance, InsertOtp,
       SmsDelivered, SmsFails, Refuse, FindLiveOtp, Unverified

(* A verification changes the attempts of a row, or consumes it.           *)
LEMMA ReserveRows ==
  ASSUME TypeOK, NEW v \in Verifier, ReserveOtpAttempt(v)
  PROVE  LET id == verifier[v].id
         IN  /\ id \in OtpId /\ otp[id] \in Row /\ otp'[id] \in Row
             /\ otp[id].attempts < MaxAttempts /\ otp'[id].attempts = otp[id].attempts + 1
             /\ otp'[id].phone = otp[id].phone /\ otp'[id].at = otp[id].at
             /\ otp'[id].until = otp[id].until /\ otp'[id].consumed = otp[id].consumed
             /\ \A i \in OtpId \ {id} : otp'[i] = otp[i]
             /\ nextId' = nextId /\ opened' = opened
             /\ compared' = [compared EXCEPT ![id] = compared[id] + 1]
<1> DEFINE id == verifier[v].id
<1>1. /\ otp \in [OtpId -> Row \cup {NoRow}] /\ id \in OtpId /\ otp[id] \in Row
      /\ otp[id].attempts < MaxAttempts
  BY VerifierShapes DEF TypeOK, ReserveOtpAttempt, AttemptLeft
<1>2. otp' = [otp EXCEPT ![id] = [otp[id] EXCEPT !.attempts = otp[id].attempts + 1]]
  BY <1>1 DEF ReserveOtpAttempt, CountAttempt
<1>3. compared' = [compared EXCEPT ![id] = compared[id] + 1]
  BY <1>1 DEF ReserveOtpAttempt, TypeOK
<1>4. otp[id].attempts \in 0..MaxAttempts /\ otp[id].attempts + 1 \in 0..MaxAttempts
  BY CodeAssumption, <1>1 DEF Row
<1>5. nextId' = nextId /\ opened' = opened
  BY DEF ReserveOtpAttempt
<1> HIDE DEF id
<1> QED  BY <1>1, <1>2, <1>3, <1>4, <1>5 DEF Row, id

LEMMA ConsumeRows ==
  ASSUME TypeOK, NEW v \in Verifier, ConsumeOtp(v)
  PROVE  LET id == verifier[v].id
         IN  /\ id \in OtpId /\ otp[id] \in Row /\ otp'[id] \in Row
             /\ ~otp[id].consumed /\ otp'[id].consumed
             /\ otp'[id].phone = otp[id].phone /\ otp'[id].at = otp[id].at
             /\ otp'[id].until = otp[id].until /\ otp'[id].attempts = otp[id].attempts
             /\ \A i \in OtpId \ {id} : otp'[i] = otp[i]
             /\ nextId' = nextId /\ compared' = compared
             /\ opened' = [opened EXCEPT ![id] = opened[id] + 1]
<1> DEFINE id == verifier[v].id
<1>1. otp \in [OtpId -> Row \cup {NoRow}] /\ id \in OtpId /\ otp[id] \in Row /\ ~otp[id].consumed
  BY VerifierShapes DEF TypeOK, ConsumeOtp, Unconsumed
<1>2. otp' = [otp EXCEPT ![id] = [otp[id] EXCEPT !.consumed = TRUE]]
  BY <1>1 DEF ConsumeOtp
<1>3. opened' = [opened EXCEPT ![id] = opened[id] + 1]
  BY <1>1 DEF ConsumeOtp, TypeOK
<1>4. nextId' = nextId /\ compared' = compared
  BY DEF ConsumeOtp
<1> HIDE DEF id
<1> QED  BY <1>1, <1>2, <1>3, <1>4 DEF Row, id

LEMMA RefundRows ==
  ASSUME TypeOK, NEW h \in Issuer, RefundOtpIssuance(h)
  PROVE  /\ issuer[h].op = "refunding" /\ nextId' = nextId /\ compared' = compared /\ opened' = opened
         /\ \A i \in OtpId : otp'[i] = otp[i] \/ (i = issuer[h].id /\ otp'[i] = NoRow)
BY DEF TypeOK, RefundOtpIssuance, histVars

LEMMA CleanupRows ==
  ASSUME TypeOK, Cleanup
  PROVE  /\ nextId' = nextId /\ compared' = compared /\ opened' = opened
         /\ \A i \in OtpId : otp'[i] = otp[i] \/ (otp[i].at <= now - DayWindow /\ otp'[i] = NoRow)
BY DEF TypeOK, Cleanup, histVars

(* The rows after a step: as they were, but for the new one.               *)
LEMMA RowSteps ==
  ASSUME TypeOK, [Next]_vars
  PROVE  /\ \A i \in Present' : \/ i \in Present /\ RowCode(i)' = RowCode(i)
                                \/ \E h \in Issuer : CommitOtp(h) /\ i = nextId /\ RowCode(i)' = NewCode(h)
         /\ nextId' = nextId \/ (\E h \in Issuer : CommitOtp(h) /\ nextId' = nextId + 1)
         /\ \A i \in Present \ Present' :
              \/ otp[i].at <= now - DayWindow
              \/ \E h \in Issuer : issuer[h].op = "refunding" /\ issuer[h].id = i
<1> DEFINE Stays(i) == i \in Present /\ RowCode(i)' = RowCode(i)
           Goes(i)  == \/ otp[i].at <= now - DayWindow
                       \/ \E h \in Issuer : issuer[h].op = "refunding" /\ issuer[h].id = i
<1>0. /\ \A i : i \in Present' <=> i \in OtpId /\ otp'[i] # NoRow
      /\ \A i \in OtpId : RowCode(i)' = <<otp'[i].phone, otp'[i].at, i>>
      /\ \A i \in Present : otp[i] \in Row
  BY RowsAreDated DEF Present, RowCode
<1>1. CASE otp' = otp /\ nextId' = nextId
  BY <1>1 DEF Present, RowCode
<1>2. ASSUME NEW h \in Issuer, CommitOtp(h)
      PROVE  /\ \A i \in Present' : Stays(i) \/ (i = nextId /\ RowCode(i)' = NewCode(h))
             /\ nextId' = nextId + 1 /\ Present \subseteq Present'
  <2>1. otp'[nextId].phone = issuer[h].phone /\ otp'[nextId].at = issuer[h].at
    <3>1. otp'[nextId] = [phone |-> issuer[h].phone, at |-> issuer[h].at, until |-> issuer[h].at + Ttl,
                          consumed |-> FALSE, attempts |-> 0]
      BY <1>2, CommitRows
    <3> QED  BY <3>1
  <2>2. otp'[nextId] # NoRow
    BY <1>2, CommitRows, NoRowIsNone
  <2>3. nextId' = nextId + 1 /\ nextId \in OtpId
    BY <1>2, CommitRows
  <2>4. ASSUME NEW i \in OtpId, i # nextId
        PROVE  /\ otp[i] # NoRow => otp'[i] # NoRow /\ RowCode(i)' = RowCode(i)
               /\ otp[i] = NoRow => otp'[i] = NoRow
    BY <1>0, <1>2, <2>4, CommitRows, NoRowIsNone DEF RowCode
  <2> QED  BY <1>0, <2>1, <2>2, <2>3, <2>4 DEF Present, NewCode
<1>3. CASE Cleanup
  <2>1. \A i \in Present' : Stays(i)
    BY <1>0, <1>3, CleanupRows DEF Present, RowCode
  <2>2. \A i \in Present \ Present' : Goes(i)
    BY <1>0, <1>3, CleanupRows DEF Present
  <2> QED  BY <1>3, <2>1, <2>2, CleanupRows
<1>4. CASE \E h \in Issuer : RefundOtpIssuance(h)
  <2>1. \A i \in Present' : Stays(i)
    BY <1>0, <1>4, RefundRows DEF Present, RowCode
  <2>2. \A i \in Present \ Present' : Goes(i)
    BY <1>0, <1>4, RefundRows DEF Present
  <2> QED  BY <1>4, <2>1, <2>2, RefundRows
<1>5. CASE \E v \in Verifier : ReserveOtpAttempt(v)
  <2>1. \A i \in Present' : Stays(i)
    BY <1>0, <1>5, ReserveRows, NoRowIsNone DEF Present, RowCode
  <2>2. Present \subseteq Present'
    BY <1>0, <1>5, ReserveRows, NoRowIsNone DEF Present
  <2> QED  BY <1>5, <2>1, <2>2, ReserveRows
<1>6. CASE \E v \in Verifier : ConsumeOtp(v)
  <2>1. \A i \in Present' : Stays(i)
    BY <1>0, <1>6, ConsumeRows, NoRowIsNone DEF Present, RowCode
  <2>2. Present \subseteq Present'
    BY <1>0, <1>6, ConsumeRows, NoRowIsNone DEF Present
  <2> QED  BY <1>6, <2>1, <2>2, ConsumeRows
<1>7. CASE \E h \in Issuer : CommitOtp(h)
  BY <1>2, <1>7
<1> QED  BY <1>1, <1>3, <1>4, <1>5, <1>6, <1>7, RowKinds

LEMMA OneMoves ==
  ASSUME TypeOK, [Next]_vars, NEW g \in Issuer, NEW h \in Issuer,
         issuer'[g] # issuer[g], issuer'[h] # issuer[h]
  PROVE  g = h
BY RequestSteps

LEMMA CommitsOne ==
  ASSUME TypeOK, [Next]_vars, NEW g \in Issuer, NEW h \in Issuer, CommitOtp(g), CommitOtp(h)
  PROVE  g = h
<1>1. \A k \in {g, h} : issuer'[k] # issuer[k]
  <2>1. \A k \in {g, h} : issuer[k].op = "inserted" /\ issuer'[k].op = "sending"
    BY DEF TypeOK, CommitOtp, Become
  <2> QED  BY <2>1
<1> QED  BY <1>1, OneMoves

LEMMA SentSteps ==
  ASSUME TypeOK, [Next]_vars, NEW c \in sent'
  PROVE  \/ c \in sent
         \/ \E h \in Sending : SmsDelivered(h) /\ c = CodeOf(h) /\ issuer'[h] = Idle
<1>1. CASE sent' = sent
  BY <1>1
<1>2. ASSUME NEW h \in Issuer, SmsDelivered(h)
      PROVE  h \in Sending /\ issuer'[h] = Idle /\ sent' = sent \cup {CodeOf(h)}
  BY <1>2 DEF SmsDelivered, Sending, CodeOf, Become, TypeOK
<1>3. sent' = sent \/ \E h \in Issuer : SmsDelivered(h)
  BY DEF Next, vars, histVars, Tick, Cleanup, Issue, RequestOtp, EvaluateIssuance, InsertOtp, CommitOtp,
         SmsFails, RefundOtpIssuance, Refuse, Verify, FindLiveOtp, ReserveOtpAttempt, ConsumeOtp, Unverified
<1> QED  BY <1>1, <1>2, <1>3

(* The codes that count become fewer, but for the one that is committed.   *)
LEMMA CodeSteps ==
  ASSUME TypeOK, [Next]_vars
  PROVE  /\ \A c \in Outgoing' : c \in Outgoing \/ \E h \in Inserted : CommitOtp(h) /\ c = NewCode(h)
         /\ \A c \in Issued' : c \in Issued \/ \E h \in Inserted : CommitOtp(h) /\ c = NewCode(h)
<1>0. \A h \in Issuer : CommitOtp(h) => h \in Inserted
  BY DEF CommitOtp, Inserted
<1>1. ASSUME NEW h \in Sending'
      PROVE  \/ h \in Sending /\ CodeOf(h)' = CodeOf(h)
             \/ CommitOtp(h) /\ CodeOf(h)' = NewCode(h)
  <2>1. h \in Issuer /\ issuer'[h].op = "sending"
    BY <1>1 DEF Sending
  <2>2. \/ issuer'[h] = issuer[h]
        \/ /\ CommitOtp(h) /\ issuer'[h].id = nextId
           /\ issuer'[h].phone = issuer[h].phone /\ issuer'[h].at = issuer[h].at
    BY <2>1, RequestCame
  <2>3. CodeOf(h)' = <<issuer'[h].phone, issuer'[h].at, issuer'[h].id>>
    BY DEF CodeOf
  <2> QED  BY <2>1, <2>2, <2>3 DEF Sending, CodeOf, NewCode
<1>2. ASSUME NEW c \in Outgoing'
      PROVE  c \in Outgoing \/ \E h \in Inserted : CommitOtp(h) /\ c = NewCode(h)
  <2>1. CASE c \in sent'
    BY <2>1, SentSteps DEF Outgoing
  <2>2. CASE \E h \in Sending' : c = CodeOf(h)'
    <3>1. PICK h \in Sending' : c = CodeOf(h)'
      BY <2>2
    <3>2. h \in Issuer
      BY DEF Sending
    <3> QED  BY <1>0, <1>1, <3>1, <3>2 DEF Outgoing
  <2> QED  BY <1>2, <2>1, <2>2 DEF Outgoing
<1>3. ASSUME NEW c \in Issued'
      PROVE  c \in Issued \/ \E h \in Inserted : CommitOtp(h) /\ c = NewCode(h)
  <2>1. CASE c \in Outgoing'
    BY <1>2, <2>1 DEF Issued
  <2>2. CASE \E i \in Present' : c = RowCode(i)'
    BY <1>0, <2>2, RowSteps DEF Issued
  <2> QED  BY <1>3, <2>1, <2>2 DEF Issued
<1> QED  BY <1>2, <1>3

-----------------------------------------------------------------------------
(* The invariant holds at first.                                           *)

LEMMA NothingIssued == Init => TypeOK /\ Issued = {} /\ Present = {} /\ Sending = {} /\ Inserted = {}
<1> SUFFICES ASSUME Init PROVE TypeOK /\ Issued = {} /\ Present = {} /\ Sending = {} /\ Inserted = {}
  OBVIOUS
<1>1. Present = {}
  BY DEF Init, Present
<1>2. \A h \in Issuer : issuer[h] = Idle /\ issuer[h].op = "idle"
  BY DEF Init, Idle
<1>3. Sending = {} /\ Inserted = {}
  BY <1>2 DEF Sending, Inserted
<1>4. Issued = {}
  BY <1>1, <1>3 DEF Init, Issued, Outgoing
<1>5. TypeOK
  BY CodeAssumption DEF Init, TypeOK, OtpId, Moment
<1> QED  BY <1>1, <1>3, <1>4, <1>5

LEMMA CodesStart == Init => CodeInv
<1> SUFFICES ASSUME Init PROVE CodeInv
  OBVIOUS
<1>0. TypeOK /\ Issued = {} /\ Present = {} /\ Sending = {} /\ Inserted = {}
  BY NothingIssued
<1>1. \A h \in Issuer : issuer[h].op = "idle"
  BY DEF Init, Idle
<1>2. Numbered /\ Refunds /\ StillCounted /\ Locks /\ HasRoom /\ PhonesKeepCaps /\ LiveAlone
  BY <1>0, <1>1 DEF Numbered, Refunds, StillCounted, Locks, HasRoom, PhonesKeepCaps, LiveAlone, Issued
<1>3. Spent
  BY CodeAssumption DEF Init, Spent, OtpId
<1>4. ServiceKeepsCap
  <2> SUFFICES ASSUME NEW t \in Moment
               PROVE  Cardinality(CodesOfDay(t)) + Cardinality(PendingOfDay(t)) <= GlobalLimit + Cardinality(Node) - 1
    BY DEF ServiceKeepsCap
  <2>1. CodesOfDay(t) = {} /\ PendingOfDay(t) = {}
    BY <1>0 DEF CodesOfDay, PendingOfDay
  <2>2. Cardinality({}) = 0 /\ Cardinality(Node) \in Nat
    BY FS_EmptySet, FS_CardinalityType, CodeAssumption
  <2> QED  BY <2>1, <2>2, CodeAssumption
<1> QED  BY <1>0, <1>2, <1>3, <1>4 DEF CodeInv

-----------------------------------------------------------------------------
(* Each of its parts is kept.                                              *)

LEMMA ClockSteps ==
  ASSUME TypeOK, [Next]_vars
  PROVE  now \in Nat /\ now' \in Moment /\ now' \in Nat /\ now <= now'
<1>1. now \in Moment /\ now \in Nat /\ MaxTime \in Nat
  BY CodeAssumption DEF TypeOK, Moment
<1>2. now' = now \/ Tick
  BY DEF Next, vars, Cleanup, Issue, RequestOtp, EvaluateIssuance, InsertOtp, CommitOtp, SmsDelivered,
         SmsFails, RefundOtpIssuance, Refuse, Verify, FindLiveOtp, ReserveOtpAttempt, ConsumeOtp, Unverified
<1>3. now' \in Moment /\ now <= now'
  BY <1>1, <1>2 DEF Tick, Moment
<1> QED  BY <1>1, <1>3 DEF Moment

LEMMA TypesKept == ASSUME TypeOK, [Next]_vars PROVE TypeOK'
<1>1. otp' \in [OtpId -> Row \cup {NoRow}] /\ nextId' \in 1..(MaxOtp + 1)
  <2>0. otp \in [OtpId -> Row \cup {NoRow}] /\ nextId \in 1..(MaxOtp + 1)
    BY DEF TypeOK
  <2>1. DOMAIN otp' = OtpId /\ otp' = [i \in OtpId |-> otp'[i]]
    <3>1. CASE otp' = otp
      BY <2>0, <3>1
    <3>2. CASE Cleanup
      BY <3>2 DEF Cleanup
    <3>3. CASE \E h \in Issuer : CommitOtp(h)
      BY <3>3 DEF CommitOtp, ExpireLive
    <3>4. CASE \E h \in Issuer : RefundOtpIssuance(h)
      BY <2>0, <3>4 DEF RefundOtpIssuance
    <3>5. CASE \E v \in Verifier : ReserveOtpAttempt(v)
      BY <2>0, <3>5 DEF ReserveOtpAttempt, CountAttempt
    <3>6. CASE \E v \in Verifier : ConsumeOtp(v)
      BY <2>0, <3>6 DEF ConsumeOtp
    <3> QED  BY <3>1, <3>2, <3>3, <3>4, <3>5, <3>6, RowKinds
  <2>2. \A i \in OtpId : otp'[i] \in Row \cup {NoRow}
    <3>1. CASE otp' = otp
      BY <2>0, <3>1
    <3>2. CASE Cleanup
      BY <2>0, <3>2, CleanupRows
    <3>3. ASSUME NEW h \in Issuer, CommitOtp(h), NEW i \in OtpId PROVE otp'[i] \in Row \cup {NoRow}
      <4>1. CASE i = nextId
        BY <3>3, <4>1, CommitRows
      <4>2. CASE i # nextId
        BY <3>3, <4>2, CommitRows
      <4> QED  BY <4>1, <4>2
    <3>4. CASE \E h \in Issuer : RefundOtpIssuance(h)
      BY <2>0, <3>4, RefundRows
    <3>5. CASE \E v \in Verifier : ReserveOtpAttempt(v)
      BY <2>0, <3>5, ReserveRows
    <3>6. CASE \E v \in Verifier : ConsumeOtp(v)
      BY <2>0, <3>6, ConsumeRows
    <3> QED  BY <3>1, <3>2, <3>3, <3>4, <3>5, <3>6, RowKinds
  <2>3. nextId' \in 1..(MaxOtp + 1)
    <3>1. ASSUME NEW h \in Issuer, CommitOtp(h) PROVE nextId' \in 1..(MaxOtp + 1)
      BY <2>0, <3>1, CodeAssumption DEF CommitOtp
    <3> QED  BY <2>0, <3>1, RowSteps
  <2> QED  BY <2>1, <2>2, <2>3
<1>2. now' \in Moment
  BY ClockSteps
<1>3. sent' \subseteq Phone \X Moment \X OtpId
  <2>1. \A h \in Sending : CodeOf(h) \in Phone \X Moment \X OtpId
    BY IssuedTyped DEF Issued, Outgoing
  <2>2. sent \subseteq Phone \X Moment \X OtpId
    BY DEF TypeOK
  <2> QED  BY <2>1, <2>2, SentSteps
<1> DEFINE States == {Idle} \cup [op : {"waiting", "hashing"}, phone : Phone]
                            \cup [op : {"inserted"}, phone : Phone, at : Moment]
                            \cup [op : {"sending"}, id : OtpId, phone : Phone, at : Moment]
                            \cup [op : {"refunding"}, id : OtpId]
<1>4. issuer' \in [Issuer -> States]
  <2>0. issuer \in [Issuer -> States] /\ now \in Moment
    BY DEF TypeOK
  <2>1. CASE issuer' = issuer
    BY <2>0, <2>1
  <2>2. ASSUME NEW h \in Issuer, NEW x \in States, Become(h, x) PROVE issuer' \in [Issuer -> States]
    <3> HIDE DEF States
    <3> QED  BY <2>0, <2>2 DEF Become
  <2>3. ASSUME NEW h \in Issuer, NEW p \in Phone, RequestOtp(h, p) PROVE issuer' \in [Issuer -> States]
    <3>1. [op |-> "waiting", phone |-> p] \in States
      OBVIOUS
    <3> QED  BY <2>2, <2>3, <3>1 DEF RequestOtp
  <2>4. ASSUME NEW h \in Issuer, EvaluateIssuance(h) PROVE issuer' \in [Issuer -> States]
    <3>1. [op |-> "hashing", phone |-> issuer[h].phone] \in States
      BY <2>4, RequestShapes DEF EvaluateIssuance
    <3> QED  BY <2>2, <2>4, <3>1 DEF EvaluateIssuance
  <2>5. ASSUME NEW h \in Issuer, InsertOtp(h) PROVE issuer' \in [Issuer -> States]
    <3>1. [op |-> "inserted", phone |-> issuer[h].phone, at |-> now] \in States
      BY <2>0, <2>5, RequestShapes DEF InsertOtp
    <3> QED  BY <2>2, <2>5, <3>1 DEF InsertOtp
  <2>6. ASSUME NEW h \in Issuer, CommitOtp(h) PROVE issuer' \in [Issuer -> States]
    <3>1. nextId \in OtpId
      BY <2>6, CommitRows
    <3>2. issuer[h].phone \in Phone /\ issuer[h].at \in Moment
      BY <2>6, RequestShapes DEF CommitOtp
    <3>3. [op |-> "sending", id |-> nextId, phone |-> issuer[h].phone, at |-> issuer[h].at] \in States
      BY <3>1, <3>2
    <3> QED  BY <2>2, <2>6, <3>3 DEF CommitOtp
  <2>7. ASSUME NEW h \in Issuer, SmsFails(h) PROVE issuer' \in [Issuer -> States]
    <3>1. [op |-> "refunding", id |-> issuer[h].id] \in States
      BY <2>7, RequestShapes DEF SmsFails
    <3> QED  BY <2>2, <2>7, <3>1 DEF SmsFails
  <2>8. ASSUME NEW h \in Issuer, SmsDelivered(h) \/ RefundOtpIssuance(h) \/ Refuse(h)
        PROVE  issuer' \in [Issuer -> States]
    BY <2>2, <2>8 DEF SmsDelivered, RefundOtpIssuance, Refuse
  <2> QED  BY <2>1, <2>3, <2>4, <2>5, <2>6, <2>7, <2>8, RequestSteps DEF Issue
<1>5. verifier' \in [Verifier -> {Idle} \cup [op : {"found"}, id : OtpId, right : BOOLEAN]
                                        \cup [op : {"matched"}, id : OtpId]]
  <2> DEFINE Trials == {Idle} \cup [op : {"found"}, id : OtpId, right : BOOLEAN]
                              \cup [op : {"matched"}, id : OtpId]
  <2>0. verifier \in [Verifier -> Trials]
    BY DEF TypeOK
  <2>1. ASSUME NEW v \in Verifier, NEW x \in Trials, verifier' = [verifier EXCEPT ![v] = x]
        PROVE  verifier' \in [Verifier -> Trials]
    <3> HIDE DEF Trials
    <3> QED  BY <2>0, <2>1
  <2>2. ASSUME NEW v \in Verifier, NEW p \in Phone, NEW right \in BOOLEAN, FindLiveOtp(v, p, right)
        PROVE  verifier' \in [Verifier -> Trials]
    <3>1. IsFiniteSet(Live(p)) /\ Live(p) \subseteq OtpId /\ Live(p) \subseteq Int /\ Live(p) # {}
      <4>1. IsFiniteSet(OtpId) /\ OtpId \subseteq Int
        <5>1. 1 \in Int /\ MaxOtp \in Int
          BY CodeAssumption
        <5>2. IsFiniteSet(1..MaxOtp)
          BY <5>1, FS_Interval
        <5> QED  BY <5>1, <5>2 DEF OtpId
      <4>2. Live(p) \subseteq OtpId
        BY DEF Live, RowsOf, Present
      <4> QED  BY <2>2, <4>1, <4>2, FS_Subset DEF FindLiveOtp
    <3>2. Max(Live(p)) \in OtpId
      BY <3>1, MaxOf
    <3>3. [op |-> "found", id |-> Max(Live(p)), right |-> right] \in Trials
      BY <3>2
    <3> QED  BY <2>1, <2>2, <3>3 DEF FindLiveOtp
  <2>3. ASSUME NEW v \in Verifier, ReserveOtpAttempt(v) PROVE verifier' \in [Verifier -> Trials]
    <3>1. verifier[v].id \in OtpId
      BY <2>3, ReserveRows
    <3>2. (IF verifier[v].right THEN [op |-> "matched", id |-> verifier[v].id] ELSE Idle) \in Trials
      BY <3>1
    <3> QED  BY <2>1, <2>3, <3>2 DEF ReserveOtpAttempt
  <2>4. ASSUME NEW v \in Verifier, ConsumeOtp(v) \/ Unverified(v) PROVE verifier' \in [Verifier -> Trials]
    BY <2>1, <2>4 DEF ConsumeOtp, Unverified
  <2>5. verifier' = verifier \/ \E v \in Verifier : Verify(v)
    BY DEF Next, vars, Tick, Cleanup, Issue, RequestOtp, EvaluateIssuance, InsertOtp, CommitOtp,
           SmsDelivered, SmsFails, RefundOtpIssuance, Refuse
  <2> QED  BY <2>0, <2>2, <2>3, <2>4, <2>5 DEF Verify
<1>6. compared' \in [OtpId -> Nat] /\ opened' \in [OtpId -> Nat]
  <2>0. compared \in [OtpId -> Nat] /\ opened \in [OtpId -> Nat]
    BY DEF TypeOK
  <2>1. ASSUME NEW h \in Issuer, CommitOtp(h) PROVE compared' = compared /\ opened' = opened
    BY <2>1 DEF CommitOtp, histVars
  <2>2. ASSUME NEW v \in Verifier, ReserveOtpAttempt(v)
        PROVE  compared' \in [OtpId -> Nat] /\ opened' = opened
    <3>1. opened' = opened /\ compared' = [compared EXCEPT ![verifier[v].id] = compared[verifier[v].id] + 1]
          /\ verifier[v].id \in OtpId
      BY <2>2, ReserveRows
    <3> QED  BY <2>0, <3>1
  <2>3. ASSUME NEW v \in Verifier, ConsumeOtp(v)
        PROVE  compared' = compared /\ opened' \in [OtpId -> Nat]
    <3>1. compared' = compared /\ opened' = [opened EXCEPT ![verifier[v].id] = opened[verifier[v].id] + 1]
          /\ verifier[v].id \in OtpId
      BY <2>3, ConsumeRows
    <3> QED  BY <2>0, <3>1
  <2> QED  BY <2>0, <2>1, <2>2, <2>3, RowKinds, CleanupRows, RefundRows
<1> QED  BY <1>1, <1>2, <1>3, <1>4, <1>5, <1>6 DEF TypeOK

LEMMA NumbersKept == ASSUME CodeInv, [Next]_vars PROVE Numbered'
<1>0. /\ TypeOK /\ Numbered /\ HasRoom /\ nextId \in Int
      /\ \A h \in Issuer : CommitOtp(h) => NewCode(h)[3] = nextId /\ NewCode(h)[2] = issuer[h].at
  BY CodeAssumption DEF CodeInv, TypeOK, NewCode
<1>1. ASSUME NEW c \in Issued'
      PROVE  \/ c \in Issued /\ c[3] \in Int /\ c[3] < nextId /\ c[2] <= now
             \/ \E h \in Inserted : CommitOtp(h) /\ c = NewCode(h) /\ c[3] = nextId /\ c[2] <= now
  <2>1. CASE c \in Issued
    BY <1>0, <2>1, IssuedTyped, CodeAssumption DEF Numbered, OtpId
  <2>2. ASSUME NEW h \in Inserted, CommitOtp(h), c = NewCode(h) PROVE c[3] = nextId /\ c[2] <= now
    BY <1>0, <2>2 DEF HasRoom, Inserted
  <2> QED  BY <1>0, <1>1, <2>1, <2>2, CodeSteps
<1>2. nextId' \in Int /\ nextId <= nextId' /\ \A h \in Issuer : CommitOtp(h) => nextId < nextId'
  <2>1. \A h \in Issuer : CommitOtp(h) => nextId' = nextId + 1
    BY <1>0, CommitRows
  <2>2. nextId' = nextId \/ nextId' = nextId + 1
    BY <1>0, RowSteps
  <2> QED  BY <1>0, <2>1, <2>2
<1>3. ASSUME NEW c \in Issued' PROVE c[3] < nextId' /\ c[2] <= now'
  <2>1. \A c2 \in Issued : c2[2] \in Int
    BY <1>0, IssuedTyped, CodeAssumption DEF Moment
  <2>2. \A h \in Inserted : issuer[h].at \in Int /\ h \in Issuer
    BY <1>0, RequestShapes, CodeAssumption DEF Inserted, Moment
  <2>3. now \in Int /\ now' \in Int /\ now <= now'
    BY <1>0, ClockSteps
  <2>4. c[2] <= now /\ c[2] \in Int
    BY <1>0, <1>1, <2>1, <2>2 DEF NewCode
  <2>5. c[3] < nextId'
    BY <1>1, <1>2, <2>2, <1>0
  <2> QED  BY <2>3, <2>4, <2>5
<1>4. ASSUME NEW c \in Issued', NEW d \in Issued', c[3] = d[3] PROVE c = d
  <2>1. CASE c \in Issued /\ d \in Issued
    BY <1>0, <1>4, <2>1 DEF Numbered
  <2>2. CASE c \notin Issued \/ d \notin Issued
    <3>1. c[3] = nextId /\ d[3] = nextId
      BY <1>0, <1>1, <1>4, <2>2
    <3>2. \E g, h \in Inserted : CommitOtp(g) /\ c = NewCode(g) /\ CommitOtp(h) /\ d = NewCode(h)
      BY <1>0, <1>1, <3>1
    <3> QED  BY <1>0, <3>2, CommitsOne DEF Inserted
  <2> QED  BY <2>1, <2>2
<1>5. ASSUME NEW h \in Sending'
      PROVE  /\ h \in Issuer
             /\ \/ h \in Sending /\ issuer'[h] = issuer[h] /\ CodeOf(h)' = CodeOf(h)
                   /\ CodeOf(h) \in Issued /\ issuer[h].id \in Int /\ issuer[h].id < nextId
                \/ CommitOtp(h) /\ issuer'[h].id = nextId /\ CodeOf(h)'[3] = nextId
  <2>1. h \in Issuer /\ issuer'[h].op = "sending"
    BY <1>5 DEF Sending
  <2>2. CASE issuer'[h] = issuer[h]
    <3>1. h \in Sending /\ CodeOf(h)' = CodeOf(h) /\ CodeOf(h) \in Issued /\ CodeOf(h)[3] = issuer[h].id
      BY <2>1, <2>2 DEF Sending, CodeOf, Issued, Outgoing
    <3>2. CodeOf(h)[3] \in Int /\ CodeOf(h)[3] < nextId
      BY <1>0, <3>1, IssuedTyped, CodeAssumption DEF Numbered, OtpId
    <3> QED  BY <2>1, <2>2, <3>1, <3>2
  <2>3. CASE issuer'[h] # issuer[h]
    <3>1. CommitOtp(h) /\ issuer'[h].id = nextId
      BY <1>0, <2>1, <2>3, RequestCame
    <3>2. CodeOf(h)' = <<issuer'[h].phone, issuer'[h].at, issuer'[h].id>>
      BY DEF CodeOf
    <3> QED  BY <2>1, <3>1, <3>2
  <2> QED  BY <2>2, <2>3
<1>6. ASSUME NEW g \in Sending', NEW h \in Sending', issuer'[g].id = issuer'[h].id PROVE g = h
  <2>1. CASE g \in Sending /\ h \in Sending /\ issuer'[g] = issuer[g] /\ issuer'[h] = issuer[h]
    BY <1>0, <1>6, <2>1 DEF Numbered
  <2>2. CASE CommitOtp(g) /\ CommitOtp(h)
    BY <1>0, <1>5, <2>2, CommitsOne
  <2> QED  BY <1>0, <1>5, <1>6, <2>1, <2>2
<1>7. ASSUME NEW h \in Sending', CodeOf(h)' \in sent' PROVE FALSE
  <2>1. CASE CodeOf(h)' \in sent
    <3>1. CodeOf(h)' \in Issued /\ CodeOf(h)'[3] < nextId
      BY <1>0, <2>1 DEF Issued, Outgoing, Numbered
    <3>2. h \in Sending /\ CodeOf(h)' = CodeOf(h)
      BY <1>0, <1>5, <3>1
    <3> QED  BY <1>0, <2>1, <3>2 DEF Numbered
  <2>2. ASSUME NEW g \in Sending, CodeOf(h)' = CodeOf(g), issuer'[g] = Idle PROVE FALSE
    <3>1. CodeOf(g) \in Issued /\ CodeOf(g)[3] < nextId /\ CodeOf(g)[3] = issuer[g].id
      BY <1>0 DEF Issued, Outgoing, Numbered, CodeOf
    <3>0. CodeOf(h)'[3] # nextId /\ CodeOf(h)[3] = issuer[h].id
      BY <1>0, <2>2, <3>1 DEF CodeOf
    <3>2. h \in Sending /\ CodeOf(h)' = CodeOf(h) /\ issuer'[h] = issuer[h]
      BY <1>5, <3>0
    <3>3. g = h
      BY <1>0, <2>2, <3>0, <3>1, <3>2 DEF Numbered
    <3>4. issuer[h].op = "sending"
      BY <3>2 DEF Sending
    <3> QED  BY <2>2, <3>2, <3>3, <3>4 DEF Idle
  <2> QED  BY <1>0, <1>7, <2>1, <2>2, SentSteps
<1> QED  BY <1>3, <1>4, <1>6, <1>7 DEF Numbered

LEMMA RefundsKept == ASSUME CodeInv, [Next]_vars PROVE Refunds'
<1>0. TypeOK /\ Numbered /\ Refunds /\ nextId \in Int /\ nextId' \in Int /\ nextId <= nextId'
  BY CodeAssumption, RowSteps DEF CodeInv, TypeOK
<1> SUFFICES ASSUME NEW h \in Issuer, issuer'[h].op = "refunding"
             PROVE  issuer'[h].id < nextId' /\ \A c \in Outgoing' : c[3] # issuer'[h].id
  BY DEF Refunds
<1>1. CASE issuer'[h] = issuer[h]
  <2>1. issuer[h].id \in Int /\ issuer[h].id < nextId /\ \A c \in Outgoing : c[3] # issuer[h].id
    BY <1>0, <1>1, RequestShapes, CodeAssumption DEF Refunds, OtpId
  <2>2. \A c \in Outgoing' : c \in Outgoing \/ c[3] = nextId
    BY <1>0, CodeSteps DEF NewCode
  <2> QED  BY <1>0, <1>1, <2>1, <2>2
<1>2. CASE SmsFails(h) /\ issuer'[h].id = issuer[h].id /\ issuer'[h] # issuer[h]
  <2>1. /\ h \in Sending /\ CodeOf(h) \in Issued /\ CodeOf(h)[3] = issuer[h].id
        /\ sent' = sent /\ nextId' = nextId /\ issuer'[h].id = issuer[h].id
    BY <1>2 DEF SmsFails, Sending, Issued, Outgoing, CodeOf, histVars, otpVars
  <2>2. issuer[h].id < nextId
    BY <1>0, <2>1 DEF Numbered
  <2>3. ASSUME NEW c \in sent PROVE c[3] # issuer[h].id
    <3>1. c \in Issued
      BY DEF Issued, Outgoing
    <3> QED  BY <1>0, <2>1, <3>1 DEF Numbered
  <2>4. ASSUME NEW g \in Sending' PROVE CodeOf(g)'[3] # issuer[h].id
    <3>1. g \in Issuer /\ issuer'[g].op = "sending" /\ CodeOf(g)'[3] = issuer'[g].id
      BY DEF Sending, CodeOf
    <3>2. issuer'[g] = issuer[g] /\ g # h
      BY <1>0, <1>2, <3>1, OneMoves
    <3> QED  BY <1>0, <2>1, <3>1, <3>2 DEF Numbered, Sending
  <2> QED  BY <2>1, <2>2, <2>3, <2>4 DEF Outgoing
<1> QED  BY <1>0, <1>1, <1>2, RequestCame

LEMMA CountedKept == ASSUME CodeInv, [Next]_vars PROVE StillCounted'
<1>0. TypeOK /\ Numbered /\ Refunds /\ StillCounted /\ DayWindow \in Nat
  BY CodeAssumption DEF CodeInv
<1> SUFFICES ASSUME NEW c \in Outgoing', c[2] > now' - DayWindow PROVE c[3] \in Present'
  BY DEF StillCounted
<1>1. CASE c \in Outgoing
  <2>1. c \in Issued /\ c[2] \in Int /\ c[3] \in OtpId
    BY <1>0, <1>1, IssuedTyped, CodeAssumption DEF Issued, Moment
  <2>2. c[2] > now - DayWindow
    BY <1>0, <2>1, ClockSteps
  <2>3. c[3] \in Present
    BY <1>0, <1>1, <2>2 DEF StillCounted
  <2>4. RowCode(c[3]) \in Issued /\ RowCode(c[3])[3] = c[3] /\ RowCode(c[3])[2] = otp[c[3]].at
    BY <2>3 DEF Issued, RowCode
  <2>5. otp[c[3]].at = c[2]
    BY <1>0, <2>1, <2>4 DEF Numbered
  <2>6. SUFFICES ASSUME c[3] \notin Present' PROVE FALSE
    OBVIOUS
  <2>7. \/ otp[c[3]].at <= now - DayWindow
        \/ \E h \in Issuer : issuer[h].op = "refunding" /\ issuer[h].id = c[3]
    BY <1>0, <2>3, <2>6, RowSteps
  <2>8. now \in Nat
    BY <1>0, ClockSteps
  <2> QED  BY <1>0, <1>1, <2>1, <2>2, <2>5, <2>7, <2>8 DEF Refunds
<1>2. ASSUME NEW h \in Inserted, CommitOtp(h), c = NewCode(h) PROVE c[3] \in Present'
  BY <1>0, <1>2, CommitRows, NoRowIsNone DEF Present, NewCode, Inserted
<1> QED  BY <1>0, <1>1, <1>2, CodeSteps

LEMMA LocksKept == ASSUME CodeInv, [Next]_vars PROVE Locks'
<1>0. TypeOK /\ Locks
  BY DEF CodeInv
<1>1. ASSUME NEW h \in Issuer, issuer'[h].op = "inserted"
      PROVE  \/ issuer'[h] = issuer[h]
             \/ /\ issuer'[h] # issuer[h] /\ InsertOtp(h)
                /\ issuer[h].op = "hashing" /\ issuer'[h].phone = issuer[h].phone
  BY <1>0, <1>1, RequestCame DEF InsertOtp
<1>2. ASSUME NEW h \in Issuer, issuer'[h].op = "hashing"
      PROVE  issuer'[h] = issuer[h] \/ (issuer'[h] # issuer[h] /\ ~TurnTaken(NodeOf[h]))
  BY <1>0, <1>2, RequestCame DEF EvaluateIssuance
<1>3. ASSUME NEW g \in Inserted', NEW h \in Inserted', issuer'[g].phone = issuer'[h].phone PROVE g = h
  <2>0. g \in Issuer /\ h \in Issuer /\ issuer'[g].op = "inserted" /\ issuer'[h].op = "inserted"
    BY DEF Inserted
  <2>1. CASE issuer'[g] = issuer[g] /\ issuer'[h] = issuer[h]
    BY <1>0, <1>3, <2>0, <2>1 DEF Locks, Inserted
  <2>2. CASE issuer'[g] # issuer[g] /\ issuer'[h] # issuer[h]
    BY <1>0, <2>0, <2>2, OneMoves
  <2>3. ASSUME NEW a \in Issuer, NEW b \in Issuer, issuer'[a].op = "inserted", issuer'[b].op = "inserted",
               issuer'[a].phone = issuer'[b].phone, issuer'[a] = issuer[a], issuer'[b] # issuer[b]
        PROVE  FALSE
    <3>1. InsertOtp(b) /\ issuer'[b].phone = issuer[b].phone
      BY <1>1, <2>3
    <3>2. PhoneLocked(issuer[b].phone)
      BY <2>3, <3>1 DEF PhoneLocked
    <3> QED  BY <3>1, <3>2 DEF InsertOtp
  <2> QED  BY <1>3, <2>0, <2>1, <2>2, <2>3
<1>4. ASSUME NEW g \in Issuer, NEW h \in Issuer, NodeOf[g] = NodeOf[h],
             issuer'[g].op \in {"hashing", "inserted"}, issuer'[h].op \in {"hashing", "inserted"}
      PROVE  g = h
  <2>1. ASSUME NEW a \in Issuer, issuer'[a].op \in {"hashing", "inserted"}
        PROVE  issuer[a].op \in {"hashing", "inserted"} \/ (issuer'[a] # issuer[a] /\ ~TurnTaken(NodeOf[a]))
    BY <1>1, <1>2, <2>1
  <2>2. CASE issuer[g].op \in {"hashing", "inserted"} /\ issuer[h].op \in {"hashing", "inserted"}
    BY <1>0, <1>4, <2>2 DEF Locks
  <2>3. CASE issuer'[g] # issuer[g] /\ issuer'[h] # issuer[h]
    BY <1>0, <2>3, OneMoves
  <2> QED  BY <1>4, <2>1, <2>2, <2>3 DEF TurnTaken
<1> QED  BY <1>3, <1>4 DEF Locks

(* The caps count every code within their window.                          *)
LEMMA CapsCountAll ==
  ASSUME TypeOK, Numbered, StillCounted, NEW w \in Nat, w <= DayWindow,
         NEW c \in Issued, c[2] > now - w
  PROVE  c[3] \in Recent(RowsOf(c[1]), w, now) /\ c[3] \in Recent(Present, w, now)
<1>0. c[2] \in Int /\ now \in Int /\ DayWindow \in Int
  BY IssuedTyped, CodeAssumption DEF Moment, TypeOK
<1>1. c[3] \in Present
  <2>1. CASE c \in Outgoing
    BY <1>0, <2>1 DEF StillCounted
  <2>2. CASE \E i \in Present : c = RowCode(i)
    BY <2>2 DEF RowCode
  <2> QED  BY <2>1, <2>2 DEF Issued
<1>2. RowCode(c[3]) \in Issued /\ RowCode(c[3])[3] = c[3]
  BY <1>1 DEF Issued, RowCode
<1>3. c = RowCode(c[3])
  BY <1>2 DEF Numbered
<1>4. otp[c[3]].phone = c[1] /\ otp[c[3]].at = c[2]
  <2>1. RowCode(c[3])[1] = otp[c[3]].phone /\ RowCode(c[3])[2] = otp[c[3]].at
    BY DEF RowCode
  <2> QED  BY <1>3, <2>1
<1> QED  BY <1>1, <1>4 DEF Recent, RowsOf

LEMMA CountedByIds ==
  ASSUME TypeOK, Numbered, NEW S, S \subseteq Issued, NEW T, IsFiniteSet(T), \A c \in S : c[3] \in T
  PROVE  Cardinality(S) <= Cardinality(T)
<1>1. [c \in S |-> c[3]] \in Injection(S, T)
  BY DEF Numbered, Injection, IsInjective
<1> QED  BY <1>1, FS_Injection

(* So who is not refused finds room, for his phone and for the service.    *)
LEMMA RoomIfNoWait ==
  ASSUME TypeOK, Numbered, StillCounted, NEW p \in Phone, RetryIn(p, now) = 0
  PROVE  /\ \A cap \in Caps : Cardinality(IssuedWithin(p, cap[1], now)) < cap[2]
         /\ Cardinality(CodesOfDay(now)) < GlobalLimit
<1>0. now \in Nat /\ DayWindow \in Nat /\ GlobalLimit \in Nat
  BY CodeAssumption DEF TypeOK, Moment
<1>1. ASSUME NEW cap \in Caps PROVE Cardinality(IssuedWithin(p, cap[1], now)) < cap[2]
  <2> DEFINE R == Recent(RowsOf(p), cap[1], now)
             S == IssuedWithin(p, cap[1], now)
  <2>1. cap[1] \in Nat /\ cap[1] <= DayWindow /\ cap[2] \in Nat
    BY CapsTyped
  <2>2. RowsOf(p) \subseteq OtpId
    BY RowsAreDated
  <2>3. IsFiniteSet(R) /\ Cardinality(R) \in Nat /\ Cardinality(R) < cap[2]
    BY <1>0, <2>1, <2>2, RecentFinite, FS_CardinalityType, NoCapReached
  <2>4. S \subseteq Issued /\ \A c \in S : c[1] = p /\ c[2] > now - cap[1]
    BY DEF IssuedWithin, Within
  <2>5. \A c \in S : c[3] \in R
    BY <2>1, <2>4, CapsCountAll
  <2> HIDE DEF R, S
  <2>6. Cardinality(S) <= Cardinality(R) /\ Cardinality(S) \in Nat
    BY <2>3, <2>4, <2>5, CountedByIds, FewIssued
  <2> QED  BY <2>1, <2>3, <2>6 DEF S
<1>2. Cardinality(CodesOfDay(now)) < GlobalLimit
  <2> DEFINE R == Recent(Present, DayWindow, now)
             S == CodesOfDay(now)
  <2>2. Present \subseteq OtpId
    BY RowsAreDated
  <2>3. IsFiniteSet(R) /\ Cardinality(R) \in Nat /\ Cardinality(R) < GlobalLimit
    BY <1>0, <2>2, RecentFinite, FS_CardinalityType, NoCapReached
  <2>4. S \subseteq Issued /\ \A c \in S : c[2] > now - DayWindow
    BY DEF CodesOfDay, Within
  <2>5. \A c \in S : c[3] \in R
    BY <1>0, <2>4, CapsCountAll
  <2> HIDE DEF R, S
  <2>6. Cardinality(S) <= Cardinality(R) /\ Cardinality(S) \in Nat
    BY <2>3, <2>4, <2>5, CountedByIds, FewIssued
  <2> QED  BY <1>0, <2>3, <2>6 DEF S
<1> QED  BY <1>1, <1>2

(* While a phone is locked, nobody else gives it a code.                   *)
LEMMA LockedAlone ==
  ASSUME TypeOK, Locks, [Next]_vars, NEW h \in Inserted, issuer'[h] = issuer[h],
         NEW c \in Issued', c[1] = issuer[h].phone
  PROVE  c \in Issued
<1> SUFFICES ASSUME NEW g \in Inserted, CommitOtp(g), c = NewCode(g) PROVE FALSE
  BY CodeSteps
<1>1. issuer[g].phone = issuer[h].phone
  BY DEF NewCode
<1>2. g = h /\ h \in Issuer /\ issuer[h].op = "inserted"
  BY <1>1 DEF Locks, Inserted
<1>3. issuer'[h].op = "sending"
  BY <1>2 DEF CommitOtp, Become, TypeOK
<1> QED  BY <1>2, <1>3

LEMMA RoomKept == ASSUME CodeInv, [Next]_vars PROVE HasRoom'
<1>0. TypeOK /\ Numbered /\ StillCounted /\ Locks /\ HasRoom /\ now \in Nat /\ now' \in Nat /\ now <= now'
  BY ClockSteps DEF CodeInv
<1> DEFINE After(h, w) == { c \in Issued' : c[1] = issuer'[h].phone /\ Within(w, c[2], issuer'[h].at) }
<1>1. ASSUME NEW h \in Inserted'
      PROVE  /\ issuer'[h].at <= now'
             /\ \A c \in Issued' : c[1] = issuer'[h].phone => c[2] <= issuer'[h].at
             /\ \A cap \in Caps : Cardinality(After(h, cap[1])) < cap[2]
  <2>0. h \in Issuer /\ issuer'[h].op = "inserted"
    BY DEF Inserted
  <2>1. CASE issuer'[h] = issuer[h]
    <3> DEFINE p  == issuer[h].phone
               at == issuer[h].at
    <3>1. h \in Inserted /\ at \in Nat
      BY <1>0, <2>0, <2>1, RequestShapes, CodeAssumption DEF Inserted, Moment
    <3>2. at <= now'
      BY <1>0, <3>1 DEF HasRoom
    <3>3. \A c \in Issued' : c[1] = p => c \in Issued
      BY <1>0, <2>1, <3>1, LockedAlone
    <3>4. \A c \in Issued' : c[1] = p => c[2] <= at
      BY <1>0, <3>1, <3>3 DEF HasRoom
    <3>5. ASSUME NEW cap \in Caps PROVE Cardinality(After(h, cap[1])) < cap[2]
      <4> DEFINE S == IssuedWithin(p, cap[1], at)
                 Q == After(h, cap[1])
      <4>1. Q \subseteq S /\ S \subseteq Issued
        BY <2>1, <3>3 DEF IssuedWithin
      <4>2. Cardinality(S) < cap[2] /\ cap[2] \in Nat
        BY <1>0, <3>1, CapsTyped DEF HasRoom
      <4> HIDE DEF S, Q, p, at
      <4>3. Cardinality(Q) <= Cardinality(S) /\ Cardinality(Q) \in Nat /\ Cardinality(S) \in Nat
        <5>1. IsFiniteSet(S) /\ Cardinality(S) \in Nat
          BY <1>0, <4>1, FewIssued
        <5> QED  BY <4>1, <5>1, FS_Subset, FS_CardinalityType
      <4>4. Cardinality(Q) < cap[2]
        BY <4>2, <4>3
      <4> QED  BY <4>4 DEF Q
    <3> QED  BY <2>1, <3>2, <3>4, <3>5
  <2>2. CASE issuer'[h] # issuer[h]
    <3>1. InsertOtp(h) /\ issuer'[h].phone = issuer[h].phone /\ issuer'[h].at = now
      BY <1>0, <2>0, <2>2, RequestCame
    <3> DEFINE p == issuer[h].phone
    <3>2. RetryIn(p, now) = 0 /\ p \in Phone /\ now' = now
      BY <1>0, <2>0, <3>1, RequestShapes DEF InsertOtp
    <3>3. \A c \in Issued' : c \in Issued
      <4>1. ASSUME NEW g \in Inserted, CommitOtp(g) PROVE FALSE
        BY <3>1, <4>1 DEF CommitOtp, InsertOtp, otpVars, TypeOK
      <4> QED  BY <1>0, <4>1, CodeSteps
    <3>4. \A c \in Issued' : c[2] <= now
      BY <1>0, <3>3 DEF Numbered
    <3>5. ASSUME NEW cap \in Caps PROVE Cardinality(After(h, cap[1])) < cap[2]
      <4> DEFINE S == IssuedWithin(p, cap[1], now)
                 Q == After(h, cap[1])
      <4>1. Q \subseteq S /\ S \subseteq Issued
        BY <3>1, <3>3 DEF IssuedWithin
      <4>2. Cardinality(S) < cap[2] /\ cap[2] \in Nat
        BY <1>0, <3>2, RoomIfNoWait, CapsTyped
      <4> HIDE DEF S, Q
      <4>3. Cardinality(Q) <= Cardinality(S) /\ Cardinality(Q) \in Nat /\ Cardinality(S) \in Nat
        <5>1. IsFiniteSet(S) /\ Cardinality(S) \in Nat
          BY <1>0, <4>1, FewIssued
        <5> QED  BY <4>1, <5>1, FS_Subset, FS_CardinalityType
      <4>4. Cardinality(Q) < cap[2]
        BY <4>2, <4>3
      <4> QED  BY <4>4 DEF Q
    <3> QED  BY <1>0, <3>1, <3>2, <3>4, <3>5
  <2> QED  BY <2>1, <2>2
<1> QED  BY <1>1 DEF HasRoom, IssuedWithin, Within

LEMMA PhonesKept == ASSUME CodeInv, [Next]_vars PROVE PhonesKeepCaps'
<1>0. TypeOK /\ Numbered /\ HasRoom /\ PhonesKeepCaps /\ Issued' \subseteq Phone \X Moment \X OtpId
  <2>1. TypeOK /\ TypeOK' /\ Numbered /\ HasRoom /\ PhonesKeepCaps
    BY TypesKept DEF CodeInv
  <2>2. TypeOK' => (Issued \subseteq Phone \X Moment \X OtpId)'
    BY IssuedTyped, PTL
  <2> QED  BY <2>1, <2>2
<1>1. MaxTime \in Nat /\ Moment \subseteq Nat
  BY CodeAssumption DEF Moment
<1> DEFINE After(p, w, t) == { c \in Issued' : c[1] = p /\ Within(w, c[2], t) }
<1> SUFFICES ASSUME NEW cap \in Caps, NEW last \in Issued'
             PROVE  Cardinality(After(last[1], cap[1], last[2])) <= cap[2]
  BY DEF PhonesKeepCaps, IssuedWithin, Within
<1> DEFINE p == last[1]
           t == last[2]
           Q == After(p, cap[1], t)
           S == IssuedWithin(p, cap[1], t)
<1>2. p \in Phone /\ t \in Nat /\ S \subseteq Issued /\ cap[2] \in Nat /\ cap[1] \in Nat
  BY <1>0, <1>1, CapsTyped DEF IssuedWithin
<1>3. IsFiniteSet(S) /\ Cardinality(S) \in Nat
  BY <1>0, <1>2, FewIssued
<1>4. CASE Issued' \subseteq Issued
  <2>1. Q \subseteq S
    BY <1>4 DEF IssuedWithin
  <2>2. Cardinality(S) <= cap[2]
    BY <1>0, <1>2, <1>4 DEF PhonesKeepCaps
  <2> HIDE DEF Q, S, p, t
  <2>3. Cardinality(Q) <= Cardinality(S) /\ Cardinality(Q) \in Nat
    BY <1>3, <2>1, FS_Subset, FS_CardinalityType
  <2>4. Cardinality(Q) <= cap[2]
    BY <1>2, <1>3, <2>2, <2>3
  <2> QED  BY <2>4 DEF Q, p, t
<1>5. ASSUME NEW h \in Inserted, CommitOtp(h) PROVE Cardinality(Q) <= cap[2]
  <2> DEFINE n  == NewCode(h)
             at == issuer[h].at
  <2>1. Issued' \subseteq Issued \cup {n}
    <3>1. \A g \in Inserted : CommitOtp(g) => g = h
      BY <1>0, <1>5, CommitsOne DEF Inserted
    <3> QED  BY <1>0, <3>1, CodeSteps
  <2>2. n[1] = issuer[h].phone /\ n[2] = at /\ at \in Nat /\ h \in Issuer
    BY <1>0, <1>1, RequestShapes DEF NewCode, Inserted
  <2>3. \A c \in Issued : c[1] = n[1] => c[2] <= at /\ c[2] \in Nat
    BY <1>0, <1>1, <2>2, IssuedTyped DEF HasRoom
  <2>4. CASE p = n[1] /\ t = at
    <3>1. Q \subseteq S \cup {n}
      BY <2>1 DEF IssuedWithin
    <3>2. Cardinality(S) < cap[2]
      BY <1>0, <2>2, <2>4 DEF HasRoom
    <3> HIDE DEF Q, S, n
    <3>3. IsFiniteSet(S \cup {n}) /\ Cardinality(S \cup {n}) <= Cardinality(S) + 1
      <4>1. /\ IsFiniteSet(S \cup {n})
            /\ Cardinality(S \cup {n}) = IF n \in S THEN Cardinality(S) ELSE Cardinality(S) + 1
        BY <1>3, FS_AddElement, Zenon
      <4> QED  BY <1>3, <4>1
    <3>4. Cardinality(Q) <= Cardinality(S \cup {n}) /\ Cardinality(Q) \in Nat /\ Cardinality(S \cup {n}) \in Nat
      BY <3>1, <3>3, FS_Subset, FS_CardinalityType
    <3> QED  BY <1>2, <1>3, <3>2, <3>3, <3>4
  <2>5. CASE ~(p = n[1] /\ t = at)
    <3>1. last \in Issued /\ (p = n[1] => t <= at /\ t # at)
      BY <2>1, <2>2, <2>3, <2>5
    <3>2. p = n[1] => ~Within(cap[1], n[2], t)
      BY <1>2, <2>2, <3>1 DEF Within
    <3>3. Q \subseteq S
      BY <2>1, <3>2 DEF IssuedWithin
    <3>4. Cardinality(S) <= cap[2]
      BY <1>0, <1>2, <3>1 DEF PhonesKeepCaps
    <3> HIDE DEF Q, S
    <3>5. Cardinality(Q) <= Cardinality(S) /\ Cardinality(Q) \in Nat
      BY <1>3, <3>3, FS_Subset, FS_CardinalityType
    <3> QED  BY <1>2, <1>3, <3>4, <3>5
  <2> QED  BY <2>4, <2>5
<1> QED  BY <1>0, <1>4, <1>5, CodeSteps

(* A process has one code pending.                                         *)
LEMMA FewPending ==
  ASSUME TypeOK, Locks, NEW S, S \subseteq Inserted
  PROVE  IsFiniteSet(S) /\ Cardinality(S) \in Nat /\ Cardinality(S) <= Cardinality(Node)
<1>1. IsFiniteSet(Node) /\ NodeOf \in [Issuer -> Node]
  BY CodeAssumption
<1>2. [h \in S |-> NodeOf[h]] \in Injection(S, Node)
  BY <1>1 DEF Locks, Inserted, Injection, IsInjective
<1> QED  BY <1>1, <1>2, FS_Injection, FS_CardinalityType

LEMMA ServiceKept == ASSUME CodeInv, [Next]_vars PROVE ServiceKeepsCap'
<1>0. TypeOK /\ Numbered /\ StillCounted /\ Locks /\ Locks' /\ HasRoom /\ ServiceKeepsCap
  BY LocksKept DEF CodeInv
<1>1. /\ Moment \subseteq Nat /\ GlobalLimit \in Nat \ {0} /\ DayWindow \in Nat /\ now \in Nat
      /\ IsFiniteSet(Node) /\ Cardinality(Node) \in Nat
  BY <1>0, CodeAssumption, FS_CardinalityType DEF Moment, TypeOK
<1> SUFFICES ASSUME NEW t \in Moment
             PROVE  Cardinality(CodesOfDay(t)') + Cardinality(PendingOfDay(t)') <= GlobalLimit + Cardinality(Node) - 1
  BY DEF ServiceKeepsCap
<1> DEFINE C == CodesOfDay(t)
           P == PendingOfDay(t)
           D == { c \in Issued' : Within(DayWindow, c[2], t) }
           Q == { h \in Inserted' : Within(DayWindow, issuer'[h].at, t) }
<1>2. CodesOfDay(t)' = D /\ PendingOfDay(t)' = Q
  BY DEF CodesOfDay, PendingOfDay, Within
<1>3. /\ IsFiniteSet(C) /\ Cardinality(C) \in Nat /\ IsFiniteSet(P) /\ Cardinality(P) \in Nat
      /\ Cardinality(C) + Cardinality(P) <= GlobalLimit + Cardinality(Node) - 1
  <2>1. C \subseteq Issued /\ P \subseteq Inserted
    BY DEF CodesOfDay, PendingOfDay
  <2> HIDE DEF C, P
  <2>2. IsFiniteSet(C) /\ Cardinality(C) \in Nat /\ IsFiniteSet(P) /\ Cardinality(P) \in Nat
    BY <1>0, <2>1, FewIssued, FewPending
  <2> QED  BY <1>0, <2>2 DEF ServiceKeepsCap, C, P
<1>4. ASSUME NEW S, NEW T, S \subseteq T, IsFiniteSet(T)
      PROVE  Cardinality(S) \in Nat /\ Cardinality(S) <= Cardinality(T) /\ IsFiniteSet(S)
  BY <1>4, FS_Subset, FS_CardinalityType
<1>5. ASSUME NEW h \in Inserted', issuer'[h] = issuer[h] PROVE h \in Inserted
  BY <1>5 DEF Inserted
(* Nothing is inserted or committed: both become fewer.                    *)
<1>6. CASE Issued' \subseteq Issued /\ \A h \in Inserted' : issuer'[h] = issuer[h]
  <2>1. D \subseteq C /\ Q \subseteq P
    BY <1>5, <1>6 DEF CodesOfDay, PendingOfDay
  <2> HIDE DEF C, P, D, Q
  <2>2. /\ Cardinality(D) \in Nat /\ Cardinality(D) <= Cardinality(C)
        /\ Cardinality(Q) \in Nat /\ Cardinality(Q) <= Cardinality(P)
    BY <1>3, <1>4, <2>1
  <2> QED  BY <1>1, <1>2, <1>3, <2>2
(* A commit makes a code of one that was pending.                          *)
<1>7. ASSUME NEW h \in Inserted, CommitOtp(h)
      PROVE  Cardinality(D) + Cardinality(Q) <= GlobalLimit + Cardinality(Node) - 1
  <2> DEFINE n  == NewCode(h)
  <2>1. Issued' \subseteq Issued \cup {n}
    <3>1. \A g \in Inserted : CommitOtp(g) => g = h
      BY <1>0, <1>7, CommitsOne DEF Inserted
    <3> QED  BY <1>0, <3>1, CodeSteps
  <2>2. h \in Issuer /\ issuer'[h].op = "sending" /\ issuer'[h] # issuer[h] /\ n[2] = issuer[h].at
    BY <1>0, <1>7 DEF CommitOtp, Become, TypeOK, NewCode, Inserted
  <2>3. \A g \in Inserted' : issuer'[g] = issuer[g] /\ g # h
    <3>1. ASSUME NEW g \in Inserted' PROVE g # h /\ g \in Issuer
      BY <2>2 DEF Inserted
    <3> QED  BY <1>0, <2>2, <3>1, OneMoves
  <2>4. Q \subseteq P \ {h}
    BY <1>5, <2>3 DEF PendingOfDay
  <2>5. CASE Within(DayWindow, issuer[h].at, t)
    <3>1. h \in P
      BY <2>5 DEF PendingOfDay
    <3>2. D \subseteq C \cup {n}
      BY <2>1 DEF CodesOfDay
    <3> HIDE DEF C, P, D, Q, n
    <3>3. IsFiniteSet(P \ {h}) /\ Cardinality(P \ {h}) = Cardinality(P) - 1
      BY <1>3, <3>1, FS_RemoveElement
    <3>4. IsFiniteSet(C \cup {n}) /\ Cardinality(C \cup {n}) <= Cardinality(C) + 1 /\ Cardinality(C \cup {n}) \in Nat
      <4>1. /\ IsFiniteSet(C \cup {n})
            /\ Cardinality(C \cup {n}) = IF n \in C THEN Cardinality(C) ELSE Cardinality(C) + 1
        BY <1>3, FS_AddElement
      <4>2. Cardinality(C) \in Nat
        BY <1>3
      <4> QED  BY <4>1, <4>2
    <3>5. /\ Cardinality(D) \in Nat /\ Cardinality(D) <= Cardinality(C \cup {n})
          /\ Cardinality(Q) \in Nat /\ Cardinality(Q) <= Cardinality(P \ {h})
      BY <1>4, <2>4, <3>2, <3>3, <3>4
    <3> QED  BY <1>1, <1>3, <3>3, <3>4, <3>5
  <2>6. CASE ~Within(DayWindow, issuer[h].at, t)
    <3>1. D \subseteq C /\ Q \subseteq P
      BY <2>1, <2>2, <2>4, <2>6 DEF CodesOfDay
    <3> HIDE DEF C, P, D, Q
    <3>2. /\ Cardinality(D) \in Nat /\ Cardinality(D) <= Cardinality(C)
          /\ Cardinality(Q) \in Nat /\ Cardinality(Q) <= Cardinality(P)
      BY <1>3, <1>4, <3>1
    <3> QED  BY <1>1, <1>3, <3>2
  <2> QED  BY <2>5, <2>6
(* Who inserts found room, but for the codes pending with other processes. *)
<1>8. ASSUME NEW h \in Issuer, InsertOtp(h)
      PROVE  Cardinality(D) + Cardinality(Q) <= GlobalLimit + Cardinality(Node) - 1
  <2>1. issuer[h].phone \in Phone /\ RetryIn(issuer[h].phone, now) = 0 /\ otp' = otp /\ nextId' = nextId
    BY <1>0, <1>8, RequestShapes DEF InsertOtp, otpVars
  <2>2. issuer'[h].at = now /\ issuer'[h].op = "inserted" /\ issuer[h].op = "hashing"
    BY <1>0, <1>8 DEF InsertOtp, Become, TypeOK
  <2>3. Issued' \subseteq Issued
    <3>1. ASSUME NEW g \in Inserted, CommitOtp(g) PROVE FALSE
      <4>1. g \in Issuer /\ nextId \in Int
        BY <1>0, NumbersTyped DEF Inserted
      <4>2. nextId' = nextId + 1
        BY <1>0, <3>1, <4>1, CommitRows
      <4> QED  BY <2>1, <4>1, <4>2
    <3> QED  BY <1>0, <3>1, CodeSteps
  <2>4. \A g \in Inserted' : g # h => issuer'[g] = issuer[g]
    <3>1. issuer'[h] # issuer[h]
      BY <2>2
    <3> QED  BY <1>0, <3>1, OneMoves DEF Inserted
  <2>5. CASE t < now
    <3>1. ~Within(DayWindow, issuer'[h].at, t)
      BY <1>1, <2>2, <2>5 DEF Within
    <3>2. D \subseteq C /\ Q \subseteq P
      BY <1>5, <2>3, <2>4, <3>1 DEF CodesOfDay, PendingOfDay
    <3> HIDE DEF C, P, D, Q
    <3>3. /\ Cardinality(D) \in Nat /\ Cardinality(D) <= Cardinality(C)
          /\ Cardinality(Q) \in Nat /\ Cardinality(Q) <= Cardinality(P)
      BY <1>3, <1>4, <3>2
    <3> QED  BY <1>1, <1>3, <3>3
  <2>6. CASE ~(t < now)
    <3> DEFINE N == CodesOfDay(now)
    <3>1. \A c \in Issued : c[2] \in Nat /\ c[2] <= now
      BY <1>0, <1>1, IssuedTyped DEF Numbered
    <3>2. D \subseteq N
      BY <1>1, <2>3, <2>6, <3>1 DEF CodesOfDay, Within
    <3>3. IsFiniteSet(N) /\ Cardinality(N) \in Nat /\ Cardinality(N) < GlobalLimit
      BY <1>0, <2>1, RoomIfNoWait, FewIssued DEF CodesOfDay
    <3>4. IsFiniteSet(Q) /\ Cardinality(Q) \in Nat /\ Cardinality(Q) <= Cardinality(Node)
      <4>1. \A g \in Q : g \in Issuer /\ issuer'[g].op = "inserted" /\ NodeOf[g] \in Node
        BY CodeAssumption DEF Inserted
      <4>2. \A f, g \in Q : NodeOf[f] = NodeOf[g] => f = g
        BY <1>0, <4>1 DEF Locks
      <4> HIDE DEF Q
      <4>3. [g \in Q |-> NodeOf[g]] \in Injection(Q, Node)
        BY <4>1, <4>2 DEF Injection, IsInjective
      <4> QED  BY <1>1, <4>3, FS_Injection, FS_CardinalityType
    <3> HIDE DEF D, Q, N
    <3>5. Cardinality(D) \in Nat /\ Cardinality(D) <= Cardinality(N)
      BY <1>4, <3>2, <3>3
    <3> QED  BY <1>1, <3>3, <3>4, <3>5
  <2> QED  BY <2>5, <2>6
<1>9. \/ Issued' \subseteq Issued /\ \A h \in Inserted' : issuer'[h] = issuer[h]
      \/ \E h \in Inserted : CommitOtp(h)
      \/ \E h \in Issuer : InsertOtp(h)
  BY <1>0, CodeSteps, RequestCame DEF Inserted
<1> HIDE DEF D, Q
<1> QED  BY <1>2, <1>6, <1>7, <1>8, <1>9

LEMMA AttemptsKept == ASSUME CodeInv, [Next]_vars PROVE Spent'
<1>0. /\ TypeOK /\ Spent /\ nextId \in Int /\ OtpId \subseteq Int /\ MaxAttempts \in Nat \ {0}
      /\ compared \in [OtpId -> Nat] /\ opened \in [OtpId -> Nat]
  BY CodeAssumption, NumbersTyped DEF CodeInv
<1> SUFFICES ASSUME NEW i \in OtpId
             PROVE  /\ compared'[i] <= MaxAttempts /\ opened'[i] <= 1
                    /\ otp'[i] # NoRow => compared'[i] = otp'[i].attempts
                    /\ otp'[i] # NoRow /\ ~otp'[i].consumed => opened'[i] = 0
                    /\ i >= nextId' => otp'[i] = NoRow /\ compared'[i] = 0 /\ opened'[i] = 0
  BY DEF Spent
<1>1. /\ compared[i] <= MaxAttempts /\ opened[i] <= 1
      /\ otp[i] # NoRow => compared[i] = otp[i].attempts
      /\ otp[i] # NoRow /\ ~otp[i].consumed => opened[i] = 0
      /\ i >= nextId => otp[i] = NoRow /\ compared[i] = 0 /\ opened[i] = 0
  BY <1>0 DEF Spent
<1>2. CASE otp' = otp /\ nextId' = nextId /\ compared' = compared /\ opened' = opened
  BY <1>1, <1>2
<1>3. CASE Cleanup
  BY <1>0, <1>1, <1>3, CleanupRows
<1>4. CASE \E h \in Issuer : RefundOtpIssuance(h)
  BY <1>0, <1>1, <1>4, RefundRows
<1>5. ASSUME NEW h \in Issuer, CommitOtp(h)
      PROVE  /\ compared' = compared /\ opened' = opened /\ nextId' = nextId + 1
             /\ i = nextId => otp'[i].attempts = 0
             /\ i # nextId => /\ otp[i] = NoRow => otp'[i] = NoRow
                              /\ otp[i] # NoRow => otp'[i].attempts = otp[i].attempts
                                                   /\ otp'[i].consumed = otp[i].consumed
  <2>1. compared' = compared /\ opened' = opened
    BY <1>5 DEF CommitOtp, histVars
  <2>2. nextId' = nextId + 1
    BY <1>0, <1>5, CommitRows
  <2>3. ASSUME i = nextId PROVE otp'[i].attempts = 0
    <3>1. otp'[nextId] = [phone |-> issuer[h].phone, at |-> issuer[h].at, until |-> issuer[h].at + Ttl,
                          consumed |-> FALSE, attempts |-> 0]
      BY <1>0, <1>5, CommitRows
    <3> QED  BY <2>3, <3>1
  <2>4. ASSUME i # nextId
        PROVE  /\ otp[i] = NoRow => otp'[i] = NoRow
               /\ otp[i] # NoRow => otp'[i].attempts = otp[i].attempts /\ otp'[i].consumed = otp[i].consumed
    BY <1>0, <1>5, <2>4, CommitRows
  <2> QED  BY <2>1, <2>2, <2>3, <2>4
<1>6. CASE \E h \in Issuer : CommitOtp(h)
  BY <1>0, <1>1, <1>5, <1>6
<1>7. ASSUME NEW v \in Verifier, ReserveOtpAttempt(v)
      PROVE  LET id == verifier[v].id
             IN  /\ nextId' = nextId /\ opened' = opened /\ otp[id] # NoRow
                 /\ i # id => otp'[i] = otp[i] /\ compared'[i] = compared[i]
                 /\ i = id => /\ otp'[i].attempts = otp[i].attempts + 1 /\ otp[i].attempts < MaxAttempts
                              /\ compared'[i] = compared[i] + 1 /\ otp'[i].consumed = otp[i].consumed
  BY <1>0, <1>7, ReserveRows, NoRowIsNone
<1>8. CASE \E v \in Verifier : ReserveOtpAttempt(v)
  BY <1>0, <1>1, <1>7, <1>8
<1>9. ASSUME NEW v \in Verifier, ConsumeOtp(v)
      PROVE  LET id == verifier[v].id
             IN  /\ nextId' = nextId /\ compared' = compared /\ otp[id] # NoRow
                 /\ i # id => otp'[i] = otp[i] /\ opened'[i] = opened[i]
                 /\ i = id => /\ otp'[i].attempts = otp[i].attempts /\ ~otp[i].consumed /\ otp'[i].consumed
                              /\ opened'[i] = opened[i] + 1
  BY <1>0, <1>9, ConsumeRows, NoRowIsNone
<1>10. CASE \E v \in Verifier : ConsumeOtp(v)
  BY <1>0, <1>1, <1>9, <1>10
<1> QED  BY <1>0, <1>2, <1>3, <1>4, <1>6, <1>8, <1>10, RowKinds

LEMMA LiveKept == ASSUME CodeInv, [Next]_vars PROVE LiveAlone'
<1>0. TypeOK /\ LiveAlone /\ HasRoom /\ now \in Nat /\ now' \in Nat /\ now <= now'
  BY ClockSteps DEF CodeInv
<1>1. \A i \in Present : otp[i] \in Row /\ otp[i].until \in Int /\ i \in OtpId
  BY <1>0, RowsAreDated, CodeAssumption DEF Row
(* A row that is live after the step was, or is the new one.               *)
<1>2. ASSUME NEW i \in Present', ~otp'[i].consumed, otp'[i].until > now'
      PROVE  \/ /\ i \in Present /\ otp[i].phone = otp'[i].phone /\ ~otp[i].consumed /\ otp[i].until > now
                /\ \A h \in Issuer : CommitOtp(h) => issuer[h].phone # otp[i].phone
             \/ \E h \in Issuer : CommitOtp(h) /\ i = nextId /\ otp'[i].phone = issuer[h].phone
  <2>0. i \in OtpId /\ otp'[i] # NoRow
    BY DEF Present
  <2>1. ASSUME NEW h \in Issuer, CommitOtp(h)
        PROVE  \/ /\ i \in Present /\ otp[i].phone = otp'[i].phone /\ ~otp[i].consumed /\ otp[i].until > now
                  /\ issuer[h].phone # otp[i].phone
               \/ i = nextId /\ otp'[i].phone = issuer[h].phone
    <3>1. CASE i = nextId
      <4>1. otp'[nextId] = [phone |-> issuer[h].phone, at |-> issuer[h].at, until |-> issuer[h].at + Ttl,
                            consumed |-> FALSE, attempts |-> 0]
        BY <1>0, <2>1, CommitRows
      <4> QED  BY <3>1, <4>1
    <3>2. CASE i # nextId
      <4>1. i \in Present
        BY <1>0, <2>0, <2>1, <3>2, CommitRows DEF Present
      <4>2. issuer[h].at <= now /\ issuer[h].at \in Nat
        BY <1>0, <2>1, RequestShapes, CodeAssumption DEF HasRoom, Inserted, CommitOtp, Moment
      <4>3. /\ otp'[i].phone = otp[i].phone /\ otp'[i].consumed = otp[i].consumed
            /\ IF otp[i].phone = issuer[h].phone /\ ~otp[i].consumed /\ otp[i].until > issuer[h].at
               THEN otp'[i].until = issuer[h].at ELSE otp'[i].until = otp[i].until
        BY <1>0, <2>0, <2>1, <3>2, <4>1, CommitRows DEF Present
      <4> QED  BY <1>0, <1>1, <1>2, <4>1, <4>2, <4>3
    <3> QED  BY <3>1, <3>2
  <2>2. CASE \E h \in Issuer : CommitOtp(h)
    BY <1>0, <2>1, <2>2, CommitsOne
  <2>3. ASSUME i \in Present, otp'[i].phone = otp[i].phone, otp'[i].until = otp[i].until,
               ~otp'[i].consumed => ~otp[i].consumed, \A h \in Issuer : ~CommitOtp(h)
        PROVE  /\ i \in Present /\ otp[i].phone = otp'[i].phone /\ ~otp[i].consumed /\ otp[i].until > now
               /\ \A h \in Issuer : CommitOtp(h) => issuer[h].phone # otp[i].phone
    BY <1>0, <1>1, <1>2, <2>3
  <2>4. CASE \A h \in Issuer : ~CommitOtp(h)
    <3>1. CASE otp' = otp
      BY <2>0, <2>3, <2>4, <3>1 DEF Present
    <3>2. CASE Cleanup
      BY <1>0, <2>0, <2>3, <2>4, <3>2, CleanupRows DEF Present
    <3>3. CASE \E h \in Issuer : RefundOtpIssuance(h)
      BY <1>0, <2>0, <2>3, <2>4, <3>3, RefundRows DEF Present
    <3>4. CASE \E v \in Verifier : ReserveOtpAttempt(v)
      BY <1>0, <2>0, <2>3, <2>4, <3>4, ReserveRows, NoRowIsNone DEF Present
    <3>5. CASE \E v \in Verifier : ConsumeOtp(v)
      BY <1>0, <2>0, <2>3, <2>4, <3>5, ConsumeRows, NoRowIsNone DEF Present
    <3> QED  BY <1>0, <2>4, <3>1, <3>2, <3>3, <3>4, <3>5, RowKinds
  <2> QED  BY <2>2, <2>4
<1>3. ASSUME NEW i \in Present', NEW j \in Present', otp'[i].phone = otp'[j].phone,
             ~otp'[i].consumed, otp'[i].until > now', ~otp'[j].consumed, otp'[j].until > now'
      PROVE  i = j
  <2>1. CASE \E h \in Issuer : CommitOtp(h)
    <3>1. PICK h \in Issuer : CommitOtp(h)
      BY <2>1
    <3>2. \A g \in Issuer : CommitOtp(g) => g = h
      BY <1>0, <3>1, CommitsOne
    <3>3. \A k \in {i, j} : \/ /\ k \in Present /\ otp[k].phone = otp'[k].phone /\ ~otp[k].consumed
                               /\ otp[k].until > now /\ issuer[h].phone # otp[k].phone
                            \/ k = nextId /\ otp'[k].phone = issuer[h].phone
      BY <1>2, <1>3, <3>1, <3>2
    <3> QED  BY <1>0, <1>3, <3>3 DEF LiveAlone
  <2>2. CASE \A h \in Issuer : ~CommitOtp(h)
    <3>1. \A k \in {i, j} : k \in Present /\ otp[k].phone = otp'[k].phone /\ ~otp[k].consumed /\ otp[k].until > now
      BY <1>2, <1>3, <2>2
    <3> QED  BY <1>0, <1>3, <3>1 DEF LiveAlone
  <2> QED  BY <2>1, <2>2
<1> QED  BY <1>3 DEF LiveAlone

-----------------------------------------------------------------------------
(* The inductive invariant of the codes: types, ids, what caps still       *)
(* count, who has a lock or a turn and has found room, and the attempts.   *)
THEOREM CodesHold == Spec => []CodeInv
<1>1. CodeInv /\ [Next]_vars => CodeInv'
  <2> SUFFICES ASSUME CodeInv, [Next]_vars PROVE CodeInv'
    OBVIOUS
  <2>1. TypeOK'
    BY TypesKept DEF CodeInv
  <2>2. Numbered' /\ Refunds' /\ StillCounted' /\ Locks' /\ HasRoom'
    BY NumbersKept, RefundsKept, CountedKept, LocksKept, RoomKept
  <2>3. PhonesKeepCaps' /\ ServiceKeepsCap' /\ Spent' /\ LiveAlone'
    BY PhonesKept, ServiceKept, AttemptsKept, LiveKept
  <2> QED  BY <2>1, <2>2, <2>3 DEF CodeInv
<1> QED  BY <1>1, CodesStart, PTL DEF Spec

(* A phone has one code that a verification would accept, although its     *)
(* requests are served by several processes, and codes are refunded and    *)
(* purged (expireLive in the transaction that holds the lock of the phone).*)
THEOREM PhoneHasOneCode == Spec => []OneLiveCode
<1>1. CodeInv => OneLiveCode
  <2> SUFFICES ASSUME CodeInv, NEW p \in Phone PROVE Cardinality(Live(p)) <= 1
    BY DEF OneLiveCode
  <2>1. \A i, j \in Live(p) : i = j
    BY DEF CodeInv, LiveAlone, Live, RowsOf
  <2>2. CASE Live(p) = {}
    BY <2>2, FS_EmptySet
  <2>3. CASE \E i : Live(p) = {i}
    BY <2>3, FS_Singleton
  <2> HIDE DEF Live
  <2>4. Live(p) = {} \/ \E i : Live(p) = {i}
    BY <2>1
  <2> QED  BY <2>2, <2>3, <2>4
<1> QED  BY <1>1, CodesHold, PTL

(* A code is compared as often as it has attempts and opens one session,   *)
(* however many verifications have found it at once (reserveAttempt and    *)
(* consume are conditional updates).                                       *)
THEOREM CodesAreSpent == Spec => []CodeIsSpent
<1>1. CodeInv => CodeIsSpent
  BY DEF CodeInv, Spent, CodeIsSpent
<1> QED  BY <1>1, CodesHold, PTL

(* Codes delivered keep the cooldown, the hourly and the daily cap of      *)
(* their phone, and the cap of the service but for one code per further    *)
(* process, whatever is refunded, purged or pending meanwhile.             *)
THEOREM CapsAreKept == Spec => []DeliveredWithinCaps
<1>1. CodeInv => DeliveredWithinCaps
  <2> SUFFICES ASSUME CodeInv PROVE PhoneCaps /\ GlobalCap
    BY DEF DeliveredWithinCaps
  <2>0. /\ TypeOK /\ Numbered /\ Locks /\ PhonesKeepCaps /\ ServiceKeepsCap
        /\ sent \subseteq Issued /\ sent \subseteq Phone \X Moment \X OtpId
        /\ IsFiniteSet(Node) /\ Cardinality(Node) \in Nat
    BY CodeAssumption, FS_CardinalityType DEF CodeInv, Issued, Outgoing, TypeOK
  <2>1. PhoneCaps
    <3>1. ASSUME NEW p \in Phone, NEW cap \in Caps
          PROVE  Spread({ s \in sent : s[1] = p }, cap[1], cap[2])
      <4> DEFINE codes == { s \in sent : s[1] = p }
      <4> SUFFICES ASSUME NEW last \in codes
                   PROVE  Cardinality({ s \in codes : s[2] <= last[2] /\ s[2] > last[2] - cap[1] }) <= cap[2]
        BY DEF Spread
      <4> DEFINE S == { s \in codes : s[2] <= last[2] /\ s[2] > last[2] - cap[1] }
                 T == IssuedWithin(p, cap[1], last[2])
      <4>1. S \subseteq T /\ T \subseteq Issued
        BY <2>0 DEF IssuedWithin, Within
      <4>2. Cardinality(T) <= cap[2] /\ cap[2] \in Nat
        BY <2>0, CapsTyped DEF PhonesKeepCaps
      <4> HIDE DEF S, T
      <4>3. IsFiniteSet(T) /\ Cardinality(T) \in Nat
        BY <2>0, <4>1, FewIssued
      <4>4. Cardinality(S) <= Cardinality(T) /\ Cardinality(S) \in Nat
        BY <4>1, <4>3, FS_Subset, FS_CardinalityType
      <4>5. Cardinality(S) <= cap[2]
        BY <4>2, <4>3, <4>4
      <4> QED  BY <4>5 DEF S
    <3> QED  BY <3>1 DEF PhoneCaps, Caps
  <2>2. GlobalCap
    <3> SUFFICES ASSUME NEW last \in sent
                 PROVE  Cardinality({ s \in sent : s[2] <= last[2] /\ s[2] > last[2] - DayWindow })
                          <= GlobalLimit + Cardinality(Node) - 1
      BY DEF GlobalCap, Spread
    <3> DEFINE S == { s \in sent : s[2] <= last[2] /\ s[2] > last[2] - DayWindow }
               T == CodesOfDay(last[2])
               P == PendingOfDay(last[2])
    <3>1. S \subseteq T /\ T \subseteq Issued /\ P \subseteq Inserted /\ last[2] \in Moment
      BY <2>0 DEF CodesOfDay, PendingOfDay, Within
    <3>2. Cardinality(T) + Cardinality(P) <= GlobalLimit + Cardinality(Node) - 1
      BY <2>0, <3>1 DEF ServiceKeepsCap
    <3> HIDE DEF S, T, P
    <3>3. IsFiniteSet(T) /\ Cardinality(T) \in Nat /\ Cardinality(P) \in Nat
      BY <2>0, <3>1, FewIssued, FewPending
    <3>4. Cardinality(S) <= Cardinality(T) /\ Cardinality(S) \in Nat
      BY <3>1, <3>3, FS_Subset, FS_CardinalityType
    <3>5. Cardinality(S) <= GlobalLimit + Cardinality(Node) - 1
      BY <2>0, <3>2, <3>3, <3>4, CodeAssumption
    <3> QED  BY <3>5 DEF S
  <2> QED  BY <2>1, <2>2
<1> QED  BY <1>1, CodesHold, PTL

(* Who asks again after the seconds he was told is not refused, if nothing *)
(* was issued meanwhile, whatever the caps are (decideRefusal answers the  *)
(* longest of the waits).                                                  *)
THEOREM RetriesSuffice == Spec => []RetrySuffices
<1>1. CodeInv => RetrySuffices
  BY RetryIsEnough DEF CodeInv
<1> QED  BY <1>1, CodesHold, PTL

-----------------------------------------------------------------------------
(* The limiter. Who leaves the queue was in it once; the others keep their *)
(* order.                                                                  *)

Once(s) == \A i, j \in 1..Len(s) : s[i] = s[j] => i = j

LEMMA LeavingOnce ==
  ASSUME NEW S, NEW s \in Seq(S), Once(s), NEW e, NEW r, r = RemoveFirst(s, e)
  PROVE  /\ r \in Seq(S) /\ Once(r) /\ Len(r) <= Len(s)
         /\ \A i \in 1..Len(r) : \E j \in 1..Len(s) : r[i] = s[j] /\ s[j] # e
<1>0. Len(s) \in Nat
  OBVIOUS
<1>1. CASE \A i \in 1..Len(s) : s[i] # e
  <2>1. r = s
    BY <1>1 DEF RemoveFirst
  <2> QED  BY <1>0, <1>1, <2>1
<1>2. ASSUME NEW k \in 1..Len(s), s[k] = e
      PROVE  /\ r \in Seq(S) /\ Len(r) = Len(s) - 1
             /\ \A i \in 1..Len(r) : r[i] = IF i < k THEN s[i] ELSE s[i + 1]
  <2>1. { i \in 1..Len(s) : s[i] = e } = {k}
    BY <1>2 DEF Once
  <2>2. Min({k}) = k
    BY <1>0 DEF Min
  <2>3. SelectInSeq(s, LAMBDA v : v = e) = k
    BY <2>1, <2>2 DEF SelectInSeq
  <2>4. r = SubSeq(s, 1, k - 1) \o SubSeq(s, k + 1, Len(s))
    BY <1>2, <2>3 DEF RemoveFirst, RemoveAt
  <2> DEFINE a == SubSeq(s, 1, k - 1)
             b == SubSeq(s, k + 1, Len(s))
  <2>5. /\ a \in Seq(S) /\ Len(a) = k - 1 /\ \A i \in 1..k - 1 : a[i] = s[i]
        /\ b \in Seq(S) /\ Len(b) = Len(s) - k /\ \A i \in 1..Len(s) - k : b[i] = s[i + k]
    BY <1>0
  <2>6. r = a \o b
    BY <2>4
  <2> HIDE DEF a, b
  <2>7. r \in Seq(S) /\ Len(r) = Len(s) - 1
    BY <1>0, <2>5, <2>6
  <2>8. ASSUME NEW i \in 1..Len(r) PROVE r[i] = IF i < k THEN s[i] ELSE s[i + 1]
    <3>1. r[i] = IF i <= Len(a) THEN a[i] ELSE b[i - Len(a)]
      BY <2>5, <2>6, <2>7
    <3>2. CASE i < k
      BY <1>0, <2>5, <2>7, <3>1, <3>2
    <3>3. CASE ~(i < k)
      <4>1. i - (k - 1) \in 1..Len(s) - k /\ (i - (k - 1)) + k = i + 1
        BY <1>0, <2>7, <3>3
      <4> QED  BY <1>0, <2>5, <2>7, <3>1, <3>3, <4>1
    <3> QED  BY <3>2, <3>3
  <2> QED  BY <2>7, <2>8
<1>3. CASE \E k \in 1..Len(s) : s[k] = e
  <2>1. PICK k \in 1..Len(s) : s[k] = e
    BY <1>3
  <2>2. /\ r \in Seq(S) /\ Len(r) = Len(s) - 1
        /\ \A i \in 1..Len(r) : r[i] = IF i < k THEN s[i] ELSE s[i + 1]
    BY <1>2, <2>1
  <2>3. Once(r)
    <3>1. ASSUME NEW i \in 1..Len(r), NEW j \in 1..Len(r), r[i] = r[j], i < j PROVE FALSE
      <4>1. CASE j < k
        BY <1>0, <2>2, <3>1, <4>1 DEF Once
      <4>2. CASE i < k /\ ~(j < k)
        BY <1>0, <2>2, <3>1, <4>2 DEF Once
      <4>3. CASE ~(i < k)
        BY <1>0, <2>2, <3>1, <4>3 DEF Once
      <4> QED  BY <1>0, <2>2, <4>1, <4>2, <4>3
    <3>2. Len(r) \in Nat
      BY <2>2
    <3>3. ASSUME NEW i \in 1..Len(r), NEW j \in 1..Len(r), r[i] = r[j] PROVE i = j
      <4>1. ~(i < j) /\ ~(j < i)
        BY <3>1, <3>3
      <4> QED  BY <3>2, <4>1
    <3> QED  BY <3>3 DEF Once
  <2>4. ASSUME NEW i \in 1..Len(r) PROVE \E j \in 1..Len(s) : r[i] = s[j] /\ s[j] # e
    <3>1. CASE i < k
      <4>1. i \in 1..Len(s) /\ i # k /\ r[i] = s[i]
        BY <1>0, <2>2, <3>1
      <4> QED  BY <2>1, <4>1 DEF Once
    <3>2. CASE ~(i < k)
      <4>1. i + 1 \in 1..Len(s) /\ i + 1 # k /\ r[i] = s[i + 1]
        BY <1>0, <2>2, <3>2
      <4> QED  BY <2>1, <4>1 DEF Once
    <3> QED  BY <3>1, <3>2
  <2> QED  BY <1>0, <2>2, <2>3, <2>4
<1> QED  BY <1>1, <1>3

(* The queue is of callers that wait, each once, with deadlines for no one *)
(* else.                                                                   *)
LimiterInv ==
  /\ LimiterTypeOK /\ TurnsAreWork
  /\ Once(queue)
  /\ \A i \in 1..Len(queue) : call[queue[i]] = "waiting"
  /\ \A c \in armed : call[c] = "waiting"

LEMMA LimiterStarts == LimiterInit => LimiterInv
<1> SUFFICES ASSUME LimiterInit PROVE LimiterInv
  OBVIOUS
<1>1. Working = {}
  BY DEF LimiterInit, Working
<1>2. Cardinality({}) = 0
  BY FS_EmptySet
<1> QED  BY <1>1, <1>2, LimiterAssumption
         DEF LimiterAssumption, LimiterInit, LimiterInv, LimiterTypeOK, TurnsAreWork, Once

LEMMA LimiterKeeps ==
  ASSUME LimiterInv, [LimiterNext]_limiterVars PROVE LimiterInv'
<1>0. /\ IsFiniteSet(Caller) /\ Concurrency \in Nat \ {0}
      /\ active \in 0..Concurrency /\ queue \in Seq(Caller) /\ armed \subseteq Caller
      /\ call \in [Caller -> {"new", "waiting", "working", "done", "refused"}]
      /\ active = Cardinality(Working) /\ (queue # <<>> => active = Concurrency)
      /\ Once(queue) /\ (\A i \in 1..Len(queue) : call[queue[i]] = "waiting")
      /\ (\A c \in armed : call[c] = "waiting")
  BY LimiterAssumption DEF LimiterAssumption, LimiterInv, LimiterTypeOK, TurnsAreWork
<1>1. IsFiniteSet(Working) /\ Cardinality(Working) \in Nat
  <2>1. Working \subseteq Caller
    BY DEF Working
  <2> QED  BY <1>0, <2>1, FS_Subset, FS_CardinalityType
<1>2. ASSUME active' \in 0..Concurrency, queue' \in Seq(Caller), armed' \subseteq Caller,
             call' \in [Caller -> {"new", "waiting", "working", "done", "refused"}],
             active' = Cardinality(Working'), queue' # <<>> => active' = Concurrency,
             Once(queue'), \A i \in 1..Len(queue') : call'[queue'[i]] = "waiting",
             \A c \in armed' : call'[c] = "waiting"
      PROVE  LimiterInv'
  BY <1>2 DEF LimiterInv, LimiterTypeOK, TurnsAreWork, Once
<1>3. CASE UNCHANGED limiterVars
  BY <1>0, <1>2, <1>3 DEF limiterVars, Working
<1>4. ASSUME NEW c \in Caller, TakeTurn(c) PROVE LimiterInv'
  <2>1. /\ active' = active + 1 /\ call' = [call EXCEPT ![c] = "working"] /\ call[c] = "new"
        /\ active < Concurrency /\ queue' = queue /\ armed' = armed
    BY <1>4 DEF TakeTurn
  <2>2. Working' = Working \cup {c} /\ c \notin Working
    BY <1>0, <2>1 DEF Working
  <2>3. Cardinality(Working \cup {c}) = active + 1
    BY <1>0, <1>1, <2>2, FS_AddElement
  <2>4. queue = <<>>
    BY <1>0, <2>1
  <2> QED  BY <1>0, <1>2, <2>1, <2>2, <2>3, <2>4
<1>5. ASSUME NEW c \in Caller, Saturated(c) PROVE LimiterInv'
  <2>1. /\ call' = [call EXCEPT ![c] = "refused"] /\ call[c] = "new"
        /\ active' = active /\ queue' = queue /\ armed' = armed
    BY <1>5 DEF Saturated
  <2>2. Working' = Working
    BY <1>0, <2>1 DEF Working
  <2>3. \A d \in Caller : call[d] = "waiting" => call'[d] = "waiting"
    BY <1>0, <2>1
  <2> QED  BY <1>0, <1>2, <2>1, <2>2, <2>3
<1>6. ASSUME NEW c \in Caller, Wait(c) PROVE LimiterInv'
  <2>1. /\ call' = [call EXCEPT ![c] = "waiting"] /\ call[c] = "new" /\ active = Concurrency
        /\ active' = active /\ queue' = Append(queue, c) /\ armed' = armed \cup {c}
    BY <1>6 DEF Wait
  <2>2. Working' = Working
    BY <1>0, <2>1 DEF Working
  <2>3. \A d \in Caller : call[d] = "waiting" => call'[d] = "waiting"
    BY <1>0, <2>1
  <2>4. /\ queue' \in Seq(Caller) /\ Len(queue') = Len(queue) + 1
        /\ \A i \in 1..Len(queue) : queue'[i] = queue[i] /\ queue[i] # c
        /\ queue'[Len(queue) + 1] = c
    BY <1>0, <2>1
  <2>5. Once(queue') /\ \A i \in 1..Len(queue') : call'[queue'[i]] = "waiting"
    <3>1. Len(queue) \in Nat
      BY <1>0
    <3>2. \A i \in 1..Len(queue) : queue[i] \in Caller
      BY <1>0
    <3>3. \A i \in 1..Len(queue') : i \in 1..Len(queue) \/ i = Len(queue) + 1
      BY <2>4, <3>1
    <3> QED  BY <1>0, <2>1, <2>3, <2>4, <3>1, <3>2, <3>3 DEF Once
  <2> QED  BY <1>0, <1>2, <2>1, <2>2, <2>3, <2>4, <2>5
<1>7. ASSUME NEW c \in Caller, Deadline(c) PROVE LimiterInv'
  <2>1. /\ c \in armed /\ armed' = armed \ {c} /\ queue' = RemoveFirst(queue, c)
        /\ call' = [call EXCEPT ![c] = "refused"] /\ active' = active
    BY <1>7 DEF Deadline, LeaveQueue
  <2>2. Working' = Working
    BY <1>0, <2>1 DEF Working
  <2>3. /\ queue' \in Seq(Caller) /\ Once(queue') /\ Len(queue') <= Len(queue)
        /\ \A i \in 1..Len(queue') : \E j \in 1..Len(queue) : queue'[i] = queue[j] /\ queue[j] # c
    <3>1. queue \in Seq(Caller) /\ Once(queue) /\ queue' = RemoveFirst(queue, c)
      BY <1>0, <2>1
    <3> QED  BY <3>1, LeavingOnce
  <2>4. \A i \in 1..Len(queue') : call'[queue'[i]] = "waiting"
    BY <1>0, <2>1, <2>3
  <2>5. queue' # <<>> => queue # <<>>
    BY <1>0, <2>3
  <2> QED  BY <1>0, <1>2, <2>1, <2>2, <2>3, <2>4, <2>5
<1>8. ASSUME NEW c \in Caller, Finish(c) PROVE LimiterInv'
  <2>1. c \in Working /\ call[c] = "working"
    BY <1>8 DEF Finish, Working
  <2>2. /\ IsFiniteSet(Working \ {c}) /\ Cardinality(Working \ {c}) = active - 1
        /\ active >= 1
    <3>1. /\ IsFiniteSet(Working \ {c})
          /\ Cardinality(Working \ {c}) = Cardinality(Working) - 1
      BY <1>1, <2>1, FS_RemoveElement
    <3>2. Cardinality(Working \ {c}) \in Nat
      BY <3>1, FS_CardinalityType
    <3> QED  BY <1>0, <3>1, <3>2
  <2>3. CASE HandOver(c)
    <3> DEFINE d == Head(queue)
    <3>1. /\ queue # <<>> /\ queue' = Tail(queue) /\ armed' = armed \ {d} /\ active' = active
          /\ call' = [call EXCEPT ![c] = "done", ![d] = "working"]
      BY <2>3 DEF HandOver
    <3>2. d \in Caller /\ d = queue[1] /\ call[d] = "waiting" /\ d # c
      BY <1>0, <2>1, <3>1
    <3>3. /\ queue' \in Seq(Caller) /\ Len(queue') = Len(queue) - 1
          /\ \A i \in 1..Len(queue') : queue'[i] = queue[i + 1] /\ i + 1 \in 1..Len(queue)
      BY <1>0, <3>1
    <3> HIDE DEF d
    <3>4. Working' = (Working \ {c}) \cup {d} /\ d \notin Working \ {c}
      BY <1>0, <3>1, <3>2 DEF Working
    <3>5. Cardinality((Working \ {c}) \cup {d}) = active
      <4> DEFINE W == Working \ {c}
      <4>1. Cardinality(W \cup {d}) = Cardinality(W) + 1
        BY <2>2, <3>4, FS_AddElement
      <4> HIDE DEF W
      <4>2. Cardinality(W) = active - 1 /\ active \in Int
        BY <1>0, <2>2 DEF W
      <4> QED  BY <4>1, <4>2 DEF W
    <3>6. \A a \in Caller : call[a] = "waiting" /\ a # d => call'[a] = "waiting"
      BY <1>0, <2>1, <3>1, <3>2
    <3>7. Once(queue') /\ \A i \in 1..Len(queue') : call'[queue'[i]] = "waiting"
      <4>1. \A i \in 1..Len(queue') : queue[i + 1] # d /\ queue[i + 1] \in Caller
        BY <1>0, <3>1, <3>2, <3>3 DEF Once
      <4>2. Once(queue')
        <5>1. ASSUME NEW i \in 1..Len(queue'), NEW j \in 1..Len(queue'), queue'[i] = queue'[j]
              PROVE  i = j
          <6>1. i + 1 = j + 1
            BY <1>0, <3>3, <5>1 DEF Once
          <6> QED  BY <6>1
        <5> QED  BY <5>1 DEF Once
      <4>3. ASSUME NEW i \in 1..Len(queue') PROVE call'[queue'[i]] = "waiting"
        <5>1. queue'[i] = queue[i + 1] /\ call[queue[i + 1]] = "waiting"
          BY <1>0, <3>3
        <5> QED  BY <3>6, <4>1, <5>1
      <4> QED  BY <4>2, <4>3
    <3>8. call' \in [Caller -> {"new", "waiting", "working", "done", "refused"}]
      BY <1>0, <3>1
    <3> QED  BY <1>0, <1>2, <3>1, <3>3, <3>4, <3>5, <3>6, <3>7, <3>8
  <2>4. CASE GiveBack /\ call' = [call EXCEPT ![c] = "done"]
    <3>1. queue = <<>> /\ active' = active - 1 /\ queue' = queue /\ armed' = armed
      BY <2>4 DEF GiveBack
    <3>2. Working' = Working \ {c}
      BY <1>0, <2>4 DEF Working
    <3>3. \A a \in Caller : call[a] = "waiting" => call'[a] = "waiting"
      BY <1>0, <2>1, <2>4
    <3> QED  BY <1>0, <1>2, <2>2, <2>4, <3>1, <3>2, <3>3
  <2> QED  BY <1>8, <2>3, <2>4 DEF Finish
<1> QED  BY <1>3, <1>4, <1>5, <1>6, <1>7, <1>8 DEF LimiterNext

(* The turns taken are the calls at work, and none is free while a caller  *)
(* waits: no refusal, exception, deadline or hand-over loses a turn or     *)
(* adds one (acquire and release).                                         *)
THEOREM NoTurnIsLost == LimiterSpec => []TurnsAreWork
<1>1. LimiterInit => LimiterInv
  BY LimiterStarts
<1>2. LimiterInv /\ [LimiterNext]_limiterVars => LimiterInv'
  BY LimiterKeeps
<1>3. LimiterInv => TurnsAreWork
  BY DEF LimiterInv
<1> QED  BY <1>1, <1>2, <1>3, PTL DEF LimiterSpec

=============================================================================

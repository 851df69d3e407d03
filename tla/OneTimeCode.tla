---------------------------- MODULE OneTimeCode ----------------------------
(***************************************************************************)
(* The one-time codes passengers log in with: the table auth.otp_code, the *)
(* requests that issue a code within the caps of its phone and of the      *)
(* whole service, the refund of a code whose SMS failed, the purge, and    *)
(* the verifications that spend the attempts of a code.                    *)
(*                                                                         *)
(* A process of the service (Node) holds a request back while another one  *)
(* for the same phone is being issued, and its limiter (OtpIssueLimiter)   *)
(* gives one request at a time the turn to evaluate the caps, hash and     *)
(* insert. Processes exclude each other by phone, with an advisory lock    *)
(* held to the end of the transaction; the rows of a transaction are seen  *)
(* by others when it commits. Two phones never share the key of that lock. *)
(***************************************************************************)
EXTENDS Integers, FiniteSets, FiniteSetsExt

CONSTANTS
  Phone, Node,
  Issuer,       \* identities of requests for a code
  Verifier,     \* identities of verifications
  NodeOf,       \* the process that serves each request for a code
  Ttl, Cooldown, HourWindow, DayWindow,
  HourlyLimit, DailyLimit, GlobalLimit,
  MaxAttempts,
  MaxTime,      \* bound: the clock stops here
  MaxOtp        \* bound: rows ever inserted

ASSUME CodeAssumption ==
  /\ IsFiniteSet(Node) /\ NodeOf \in [Issuer -> Node]
  /\ {Ttl, Cooldown, HourWindow, DayWindow} \subseteq Nat \ {0}
  /\ {HourlyLimit, DailyLimit, GlobalLimit, MaxAttempts} \subseteq Nat \ {0}
  /\ Cooldown <= HourWindow /\ HourWindow <= DayWindow
  /\ MaxTime \in Nat /\ MaxOtp \in Nat

VARIABLES
  otp,        \* auth.otp_code
  nextId,     \* its sequence
  issuer,     \* what each request for a code is doing
  verifier,   \* what each verification is doing
  now,
  sent,       \* history: <<phone, created_at, id>> of the codes delivered by SMS
  compared,   \* history: how often a code was compared with the hash of a row
  opened      \* history: sessions opened by each row

otpVars  == <<otp, nextId>>
histVars == <<sent, compared, opened>>
vars == <<otpVars, issuer, verifier, now, histVars>>

OtpId  == 1..MaxOtp
Moment == 0..MaxTime
NoRow  == [phone |-> "none"]
Idle   == [op |-> "idle"]

Row == [phone : Phone, at : Moment, until : 0..(MaxTime + Ttl),
        consumed : BOOLEAN, attempts : 0..MaxAttempts]

TypeOK ==
  /\ otp \in [OtpId -> Row \cup {NoRow}]
  /\ nextId \in 1..(MaxOtp + 1)
  /\ issuer \in [Issuer -> {Idle} \cup [op : {"waiting", "hashing"}, phone : Phone]
                                  \cup [op : {"inserted"}, phone : Phone, at : Moment]
                                  \cup [op : {"sending"}, id : OtpId, phone : Phone, at : Moment]
                                  \cup [op : {"refunding"}, id : OtpId]]
  /\ verifier \in [Verifier -> {Idle} \cup [op : {"found"}, id : OtpId, right : BOOLEAN]
                                      \cup [op : {"matched"}, id : OtpId]]
  /\ now \in Moment
  /\ sent \subseteq Phone \X Moment \X OtpId
  /\ compared \in [OtpId -> Nat] /\ opened \in [OtpId -> Nat]

Init ==
  /\ otp = [i \in OtpId |-> NoRow]
  /\ nextId = 1
  /\ issuer = [h \in Issuer |-> Idle]
  /\ verifier = [v \in Verifier |-> Idle]
  /\ now = 0
  /\ sent = {}
  /\ compared = [i \in OtpId |-> 0] /\ opened = [i \in OtpId |-> 0]

Tick ==
  /\ now < MaxTime
  /\ now' = now + 1
  /\ UNCHANGED <<otpVars, issuer, verifier, histVars>>

-----------------------------------------------------------------------------
(* The verdict on a request: how long each cap makes it wait, 0 for a cap  *)
(* that is not reached.                                                    *)

Present == { i \in OtpId : otp[i] # NoRow }
RowsOf(p) == { i \in Present : otp[i].phone = p }

(* The wait until fewer than k of the rows in S are younger than window.   *)
WaitFor(S, window, k, t) ==
  LET recent    == { i \in S : otp[i].at > t - window }
      decisive  == { i \in recent : k <= Cardinality({ j \in recent : otp[j].at >= otp[i].at }) }
  IN  IF Cardinality(recent) < k
      THEN 0
      ELSE Max({ otp[i].at : i \in decisive }) + window - t

CapWaits(p, t) ==
  [global   |-> WaitFor(Present, DayWindow, GlobalLimit, t),
   daily    |-> WaitFor(RowsOf(p), DayWindow, DailyLimit, t),
   hourly   |-> WaitFor(RowsOf(p), HourWindow, HourlyLimit, t),
   cooldown |-> WaitFor(RowsOf(p), Cooldown, 1, t)]

(* Mutant: the first cap by precedence is answered, not the longest wait.  *)
FirstWait(p, t) ==
  LET waits == CapWaits(p, t)
  IN  IF waits.cooldown > 0 THEN waits.cooldown
      ELSE IF waits.hourly > 0 THEN waits.hourly
      ELSE IF waits.daily > 0 THEN waits.daily ELSE waits.global

(* decideRefusal: the seconds answered with a refusal, 0 for none.         *)
RetryIn(p, t) ==
  LET waits == CapWaits(p, t)
  IN  Max({ waits[cap] : cap \in DOMAIN waits })

-----------------------------------------------------------------------------
(* Issuing a code.                                                         *)

Become(h, state) == issuer' = [issuer EXCEPT ![h] = state]

Issuing(p, n) ==
  \E h \in Issuer : /\ NodeOf[h] = n
                    /\ issuer[h].op \in {"waiting", "hashing", "inserted"}
                    /\ issuer[h].phone = p

TurnTaken(n) == \E h \in Issuer : NodeOf[h] = n /\ issuer[h].op \in {"hashing", "inserted"}

(* Mutant: nobody holds the lock of a phone.                               *)
NeverLocked(p) == FALSE

PhoneLocked(p) == \E h \in Issuer : issuer[h].op = "inserted" /\ issuer[h].phone = p

RequestOtp(h, p) ==
  /\ issuer[h] = Idle
  /\ ~Issuing(p, NodeOf[h])
  /\ Become(h, [op |-> "waiting", phone |-> p])
  /\ UNCHANGED <<otpVars, verifier, now, histVars>>

(* The turn of the limiter, and the evaluation that spares a hash.         *)
EvaluateIssuance(h) ==
  /\ issuer[h].op = "waiting"
  /\ ~TurnTaken(NodeOf[h])
  /\ RetryIn(issuer[h].phone, now) = 0
  /\ Become(h, [op |-> "hashing", phone |-> issuer[h].phone])
  /\ UNCHANGED <<otpVars, verifier, now, histVars>>

(* The statement of the transaction: the caps are evaluated again under    *)
(* the lock of the phone.                                                  *)
InsertOtp(h) ==
  LET p == issuer[h].phone
  IN  /\ issuer[h].op = "hashing"
      /\ ~PhoneLocked(p)
      /\ RetryIn(p, now) = 0
      /\ Become(h, [op |-> "inserted", phone |-> p, at |-> now])
      /\ UNCHANGED <<otpVars, verifier, now, histVars>>

(* Mutant: the codes before the new one stay alive.                        *)
ExpireNone(p, at) == otp

(* The live codes of the phone end when the new one is created.            *)
ExpireLive(p, at) ==
  [i \in OtpId |-> IF i \in RowsOf(p) /\ ~otp[i].consumed /\ otp[i].until > at
                   THEN [otp[i] EXCEPT !.until = at] ELSE otp[i]]

CommitOtp(h) ==
  LET p  == issuer[h].phone
      at == issuer[h].at
  IN  /\ issuer[h].op = "inserted"
      /\ nextId <= MaxOtp
      /\ otp' = [ExpireLive(p, at) EXCEPT
                   ![nextId] = [phone |-> p, at |-> at, until |-> at + Ttl,
                                consumed |-> FALSE, attempts |-> 0]]
      /\ nextId' = nextId + 1
      /\ Become(h, [op |-> "sending", id |-> nextId, phone |-> p, at |-> at])
      /\ UNCHANGED <<verifier, now, histVars>>

SmsDelivered(h) ==
  /\ issuer[h].op = "sending"
  /\ sent' = sent \cup {<<issuer[h].phone, issuer[h].at, issuer[h].id>>}
  /\ Become(h, Idle)
  /\ UNCHANGED <<otpVars, verifier, now, compared, opened>>

SmsFails(h) ==
  /\ issuer[h].op = "sending"
  /\ Become(h, [op |-> "refunding", id |-> issuer[h].id])
  /\ UNCHANGED <<otpVars, verifier, now, histVars>>

Refundable(row) == row # NoRow /\ row.attempts = 0 /\ ~row.consumed

RefundOtpIssuance(h) ==
  LET id == issuer[h].id
  IN  /\ issuer[h].op = "refunding"
      /\ otp' = IF Refundable(otp[id]) THEN [otp EXCEPT ![id] = NoRow] ELSE otp
      /\ Become(h, Idle)
      /\ UNCHANGED <<nextId, verifier, now, histVars>>

(* A request ends without going on: refused by a cap, by the limiter or by *)
(* the lock, a failed hash, a rolled back transaction, a failed refund, or *)
(* a restart of its process.                                               *)
Refuse(h) ==
  /\ issuer[h] # Idle
  /\ Become(h, Idle)
  /\ UNCHANGED <<otpVars, verifier, now, histVars>>

(* The daily purge of AuthCleanupService: otpRetentionSeconds is a day.    *)
Cleanup ==
  /\ otp' = [i \in OtpId |-> IF i \in Present /\ otp[i].at <= now - DayWindow
                             THEN NoRow ELSE otp[i]]
  /\ UNCHANGED <<nextId, issuer, verifier, now, histVars>>

-----------------------------------------------------------------------------
(* Verifying a code: the attempt is reserved before the code is compared,  *)
(* and the row is consumed after it.                                       *)

Live(p) == { i \in RowsOf(p) : ~otp[i].consumed /\ otp[i].until > now }

FindLiveOtp(v, p, right) ==
  /\ verifier[v] = Idle
  /\ Live(p) # {}
  /\ verifier' = [verifier EXCEPT ![v] = [op |-> "found", id |-> Max(Live(p)), right |-> right]]
  /\ UNCHANGED <<otpVars, issuer, now, histVars>>

AttemptLeft(row) ==
  /\ row # NoRow
  /\ ~row.consumed
  /\ row.until > now
  /\ row.attempts < MaxAttempts

CountAttempt(id) == [otp EXCEPT ![id].attempts = @ + 1]

ReserveOtpAttempt(v) ==
  LET id == verifier[v].id
  IN  /\ verifier[v].op = "found"
      /\ AttemptLeft(otp[id])
      /\ otp' = CountAttempt(id)
      /\ compared' = [compared EXCEPT ![id] = @ + 1]
      /\ verifier' = [verifier EXCEPT ![v] = IF verifier[v].right
                                             THEN [op |-> "matched", id |-> id] ELSE Idle]
      /\ UNCHANGED <<nextId, issuer, now, sent, opened>>

(* Mutant: the code is marked used whether or not it was.                  *)
StillThere(row) == row # NoRow

Unconsumed(row) == row # NoRow /\ ~row.consumed

ConsumeOtp(v) ==
  LET id == verifier[v].id
  IN  /\ verifier[v].op = "matched"
      /\ Unconsumed(otp[id])
      /\ otp' = [otp EXCEPT ![id].consumed = TRUE]
      /\ opened' = [opened EXCEPT ![id] = @ + 1]
      /\ verifier' = [verifier EXCEPT ![v] = Idle]
      /\ UNCHANGED <<nextId, issuer, now, sent, compared>>

(* No attempt was left, the code was used or expired, or the request died. *)
Unverified(v) ==
  /\ verifier[v] # Idle
  /\ verifier' = [verifier EXCEPT ![v] = Idle]
  /\ UNCHANGED <<otpVars, issuer, now, histVars>>

-----------------------------------------------------------------------------

Issue(h) ==
  \/ \E p \in Phone : RequestOtp(h, p)
  \/ EvaluateIssuance(h) \/ InsertOtp(h) \/ CommitOtp(h)
  \/ SmsDelivered(h) \/ SmsFails(h) \/ RefundOtpIssuance(h) \/ Refuse(h)

Verify(v) ==
  \/ \E p \in Phone, right \in BOOLEAN : FindLiveOtp(v, p, right)
  \/ ReserveOtpAttempt(v) \/ ConsumeOtp(v) \/ Unverified(v)

Next ==
  \/ Tick \/ Cleanup
  \/ \E h \in Issuer : Issue(h)
  \/ \E v \in Verifier : Verify(v)

Spec == Init /\ [][Next]_vars

-----------------------------------------------------------------------------
(* A phone has at most one code that a verification would accept, though   *)
(* several processes issue for it and codes are refunded and purged.       *)
OneLiveCode == \A p \in Phone : Cardinality(Live(p)) <= 1

(* At most k of the codes in S were created within any window.             *)
Spread(S, window, k) ==
  \A last \in S :
    Cardinality({ s \in S : s[2] <= last[2] /\ s[2] > last[2] - window }) <= k

(* The codes delivered to a phone keep its cooldown, its hourly and its    *)
(* daily cap, counted over what was really sent and not over the rows that *)
(* refunds and purges left.                                                *)
PhoneCaps ==
  \A p \in Phone :
    LET codes == { s \in sent : s[1] = p }
    IN  /\ Spread(codes, Cooldown, 1)
        /\ Spread(codes, HourWindow, HourlyLimit)
        /\ Spread(codes, DayWindow, DailyLimit)

(* The daily cap of the whole service has no lock across phones: each      *)
(* process beyond the first may exceed it by one code, and no more.        *)
GlobalCap == Spread(sent, DayWindow, GlobalLimit + Cardinality(Node) - 1)

(* Both at once, however issues, refunds, purges and processes overlap.    *)
DeliveredWithinCaps == PhoneCaps /\ GlobalCap

(* The seconds answered with a refusal are enough: if no code is issued    *)
(* meanwhile, the next request is not refused.                             *)
RetrySuffices ==
  \A p \in Phone : RetryIn(p, now + RetryIn(p, now)) = 0

(* However many verifications present a code at once, it is compared at    *)
(* most as often as it has attempts, and it opens one session.             *)
CodeIsSpent == \A i \in OtpId : compared[i] <= MaxAttempts /\ opened[i] <= 1

=============================================================================

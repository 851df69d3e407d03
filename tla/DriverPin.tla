----------------------------- MODULE DriverPin -----------------------------
(***************************************************************************)
(* The PIN of one driver in fleet.driver: how the company resets it and    *)
(* sends it by SMS, how the driver changes it, and how wrong PINs at the   *)
(* login and at the change are counted and block both.                     *)
(*                                                                         *)
(* A change compares the PIN while it holds the lock of the row, and is    *)
(* one step. A login reads the row, compares, and writes: what it writes   *)
(* rests on what it read ("seen"). A reset is three steps: the new PIN,    *)
(* the SMS, and the mark that it was delivered. What becomes of sessions   *)
(* is in RefreshTokens.                                                    *)
(***************************************************************************)
EXTENDS Naturals, FiniteSets

CONSTANTS
  Pin,           \* PINs
  MaxAttempts,   \* LOGIN_MAX_ATTEMPTS
  Block,         \* LOGIN_BLOCK_MINUTES
  TempTtl,       \* DRIVER_TEMPORARY_PIN_TTL_HOURS
  RetryWindow,   \* IDEMPOTENT_RETRY_WINDOW_MS
  Handler,       \* identities of requests that may be in flight
  MaxTime,       \* bound: the clock stops here
  MaxFailed,     \* bound: failures counted in a row
  None

ASSUME PinAssumption ==
  /\ MaxAttempts \in Nat \ {0}
  /\ {Block, TempTtl, RetryWindow, MaxTime, MaxFailed} \subseteq Nat
  /\ None \notin Nat

VARIABLES
  pin, mustChange, tempUntil, changedAt, delivered,
  failed, blockedUntil,
  enabled,      \* neither the driver nor his account is suspended
  loggedIn,     \* the driver has had a session
  now,
  request,      \* requests in flight
  known,        \* history: PINs the driver got by SMS or chose
  wrong,        \* history: wrong PINs since the count was last reset
  serial        \* history: no request has begun while another was in flight

pinVars   == <<pin, mustChange, tempUntil, changedAt, delivered>>
countVars == <<failed, blockedUntil, wrong>>
vars == <<pinVars, countVars, enabled, loggedIn, now, request, known, serial>>

Moment   == 0..MaxTime
Deadline == 0..(MaxTime + Block + TempTtl)
Idle     == [op |-> "idle"]

Seen == [right : BOOLEAN, failed : 0..MaxFailed, admitted : BOOLEAN, until : Deadline \cup {None}]

TypeOK ==
  /\ pin \in Pin /\ known \subseteq Pin
  /\ mustChange \in BOOLEAN /\ delivered \in BOOLEAN /\ enabled \in BOOLEAN
  /\ loggedIn \in BOOLEAN /\ serial \in BOOLEAN
  /\ tempUntil \in Deadline \cup {None} /\ blockedUntil \in Deadline \cup {None}
  /\ mustChange <=> tempUntil # None
  /\ changedAt \in Moment \cup {None}
  /\ failed \in 0..MaxFailed /\ wrong \in 0..MaxFailed
  /\ now \in Moment
  /\ request \in [Handler -> {Idle} \cup [op : {"login"}, seen : Seen]
                               \cup [op : {"send"}, pin : Pin] \cup [op : {"mark"}]]

NewDriver ==
  /\ pin \in Pin
  /\ mustChange = TRUE /\ tempUntil = TempTtl /\ changedAt = None
  /\ delivered = FALSE
  /\ failed = 0 /\ blockedUntil = None /\ wrong = 0
  /\ enabled = TRUE /\ loggedIn = FALSE
  /\ now = 0
  /\ known = {} /\ serial = TRUE

Sending(h) == [g \in Handler |-> IF g = h THEN [op |-> "send", pin |-> pin] ELSE Idle]

(* The driver was just created, and his first PIN is about to be sent.     *)
Init == NewDriver /\ \E h \in Handler : request = Sending(h)

Tick ==
  /\ now < MaxTime
  /\ now' = now + 1
  /\ UNCHANGED <<pinVars, countVars, enabled, loggedIn, request, known>>

Suspend ==
  /\ enabled
  /\ enabled' = FALSE
  /\ UNCHANGED <<pinVars, countVars, loggedIn, now, request, known>>

Answered(h) == request' = [request EXCEPT ![h] = Idle]

(* The request fails at its next statement, or its process stops.          *)
Fails(h) ==
  /\ request[h] # Idle
  /\ Answered(h)
  /\ UNCHANGED <<pinVars, countVars, enabled, loggedIn, now, known>>

-----------------------------------------------------------------------------
(* Counting wrong PINs. A completed change that is sent again within its   *)
(* window is not counted, and changes nothing here.                        *)

Blocked == blockedUntil # None /\ blockedUntil > now

LockoutAfterFailure(f) == IF f + 1 < MaxAttempts THEN None ELSE now + Block

(* Mutant: the count is written from what was read.                        *)
LostUpdate(f) ==
  /\ failed' = f + 1
  /\ blockedUntil' = LockoutAfterFailure(f)
  /\ wrong' = wrong + 1

(* The database increments the count; f is the count that was read.        *)
RegisterFailure(f) ==
  /\ failed' = failed + 1
  /\ blockedUntil' = LockoutAfterFailure(f)
  /\ wrong' = wrong + 1

ResetAttempts == failed' = 0 /\ blockedUntil' = None /\ wrong' = 0

-----------------------------------------------------------------------------
(* The login.                                                              *)

ReadDriver(h, entered) ==
  /\ request[h] = Idle
  /\ ~Blocked
  /\ request' = [request EXCEPT ![h] =
       [op |-> "login",
        seen |-> [right |-> entered = pin, failed |-> failed,
                  admitted |-> delivered /\ enabled, until |-> tempUntil]]]
  /\ UNCHANGED <<pinVars, countVars, enabled, loggedIn, now, known>>

LoginFails(h) ==
  /\ request[h].op = "login"
  /\ ~request[h].seen.right
  /\ failed < MaxFailed
  /\ RegisterFailure(request[h].seen.failed)
  /\ Answered(h)
  /\ UNCHANGED <<pinVars, enabled, loggedIn, now, known>>

(* A PIN that was not delivered, has expired or belongs to a suspended     *)
(* driver is refused and not counted (Fails).                              *)
LoginSucceeds(h) ==
  LET seen == request[h].seen
  IN  /\ request[h].op = "login"
      /\ seen.right /\ seen.admitted
      /\ seen.until # None => seen.until > now
      /\ ResetAttempts
      /\ loggedIn' = TRUE
      /\ Answered(h)
      /\ UNCHANGED <<pinVars, enabled, now, known>>

-----------------------------------------------------------------------------
(* The change of the PIN by the driver, who has a session; a reset leaves  *)
(* him the access token he has.                                            *)

IsRepeatOfCompletedChange(new) ==
  /\ ~mustChange
  /\ changedAt # None /\ now < changedAt + RetryWindow
  /\ new = pin

WrongCurrentPin(entered, new) ==
  /\ loggedIn
  /\ ~Blocked
  /\ entered # pin
  /\ ~IsRepeatOfCompletedChange(new)
  /\ failed < MaxFailed
  /\ RegisterFailure(failed)
  /\ UNCHANGED <<pinVars, enabled, loggedIn, now, request, known>>

ApplyNewPin(new) ==
  /\ pin' = new
  /\ mustChange' = FALSE /\ tempUntil' = None /\ changedAt' = now
  /\ ResetAttempts
  /\ UNCHANGED delivered

ChangePin(entered, new) ==
  /\ loggedIn
  /\ ~Blocked
  /\ entered = pin /\ new # entered
  /\ enabled
  /\ mustChange => tempUntil > now
  /\ ApplyNewPin(new)
  /\ known' = known \cup {new}
  /\ UNCHANGED <<enabled, loggedIn, now, request>>

-----------------------------------------------------------------------------
(* The reset by the company.                                               *)

(* Mutant: the reset leaves the mark of the earlier delivery.              *)
RotateKeepingMark(h, new) ==
  /\ pin' = new
  /\ mustChange' = TRUE /\ tempUntil' = now + TempTtl
  /\ UNCHANGED <<changedAt, delivered>>
  /\ ResetAttempts
  /\ request' = [request EXCEPT ![h] = [op |-> "send", pin |-> new]]

RotatePin(h, new) ==
  /\ pin' = new
  /\ mustChange' = TRUE /\ tempUntil' = now + TempTtl
  /\ delivered' = FALSE
  /\ UNCHANGED changedAt
  /\ ResetAttempts
  /\ request' = [request EXCEPT ![h] = [op |-> "send", pin |-> new]]

ResendPin(h) ==
  /\ request[h] = Idle
  /\ \E new \in Pin : RotatePin(h, new)
  /\ UNCHANGED <<enabled, loggedIn, now, known>>

(* A failed SMS ends the request (Fails).                                  *)
SmsSent(h) ==
  /\ request[h].op = "send"
  /\ known' = known \cup {request[h].pin}
  /\ request' = [request EXCEPT ![h] = [op |-> "mark"]]
  /\ UNCHANGED <<pinVars, countVars, enabled, loggedIn, now>>

MarkPinDelivered(h) ==
  /\ request[h].op = "mark"
  /\ delivered' = TRUE
  /\ Answered(h)
  /\ UNCHANGED <<pin, mustChange, tempUntil, changedAt, countVars, enabled, loggedIn, now, known>>

-----------------------------------------------------------------------------

Start ==
  \/ \E h \in Handler : ResendPin(h) \/ \E entered \in Pin : ReadDriver(h, entered)
  \/ \E entered, new \in Pin : ChangePin(entered, new) \/ WrongCurrentPin(entered, new)

Proceed ==
  \/ Tick \/ Suspend
  \/ \E h \in Handler :
       LoginFails(h) \/ LoginSucceeds(h) \/ SmsSent(h) \/ MarkPinDelivered(h) \/ Fails(h)

Next ==
  \/ Start /\ serial' = (serial /\ \A h \in Handler : request[h] = Idle)
  \/ Proceed /\ UNCHANGED serial

Spec == Init /\ [][Next]_vars

-----------------------------------------------------------------------------
(* Wrong PINs at the login and at the change add up in one count, however  *)
(* they overlap, and no success or reset is forgotten.                     *)
FailuresAddUp == failed = wrong

(* If requests come one at a time, the driver is blocked by as many        *)
(* failures as the limit and not by fewer, at the login and at the change  *)
(* alike.                                                                  *)
BlockMatchesCount == serial => (blockedUntil # None <=> failed >= MaxAttempts)

(* Wrong PINs are counted once each, and block at the limit.               *)
FailuresCount == FailuresAddUp /\ BlockMatchesCount

(* If requests come one at a time, a PIN marked as delivered is one the    *)
(* driver got or chose: the mark does not outlive a reset or precede the   *)
(* SMS.                                                                    *)
DeliveredIsCurrent == serial /\ delivered => pin \in known

(* A block needs the failures that earn it: a new PIN starts unblocked.    *)
(* Requests that overlap break this.                                       *)
BlockIsEarned == blockedUntil # None => failed >= MaxAttempts

=============================================================================

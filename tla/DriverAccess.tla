---------------------------- MODULE DriverAccess ----------------------------
(***************************************************************************)
(* The account of one driver: his creation (FleetEnrolment), his PIN       *)
(* (DriverPin) and his sessions (RefreshTokens). The request that creates  *)
(* the first driver of the fleet goes on to send his PIN. A right login    *)
(* begins the issue of a session; a change of the PIN revokes all sessions *)
(* and issues one; a reset revokes them before its SMS is sent; a          *)
(* suspension revokes them.                                                *)
(*                                                                         *)
(* A handler of the three modules with one identity is one request: it is  *)
(* in one of them at a time, except that a reset waits for its revocation. *)
(***************************************************************************)
EXTENDS DriverPin

CONSTANTS MaxToken, DocType, Identity, Upload, MaxFleet

ASSUME AccessAssumption ==
  /\ {MaxToken, MaxFleet} \subseteq Nat
  /\ None \notin Upload \cup Handler
  /\ IsFiniteSet(DocType) /\ IsFiniteSet(Handler)

VARIABLES
  row, origin, held, call, ended, underWay, cut,
  declared, fleet, lock, staged, promoted, creation, left, inDoubt

Tokens    == INSTANCE RefreshTokens
Enrolment == INSTANCE FleetEnrolment

tokenVars  == <<row, origin, held, call, ended, underWay, cut>>
fleetVars  == <<declared, fleet, lock, staged, promoted, creation, left, inDoubt>>
accessVars == <<vars, tokenVars>>

(* The PIN of the driver to be is made before he is created.               *)
AccessInit ==
  /\ NewDriver /\ request = [h \in Handler |-> Idle]
  /\ Tokens!Init /\ Enrolment!Init

Created == fleet # {}

(* Whoever creates the first driver goes on to send him the PIN.           *)
EnrolStep ==
  /\ Enrolment!Next
  /\ IF ~Created /\ fleet' # {}
     THEN \E h \in Handler : creation'[h] # creation[h] /\ request' = Sending(h)
     ELSE UNCHANGED request
  /\ UNCHANGED <<pinVars, countVars, enabled, loggedIn, now, known, serial, tokenVars>>

InCall(h) == call[h].op # "idle"

(* The driver was read before the comparison of the hash: a suspension in  *)
(* between does not stop the session.                                      *)
Login(h) ==
  /\ LoginSucceeds(h)
  /\ Tokens!Begin(h, [op |-> "issue"])

(* A completed change that is sent again leaves the PIN alone, but its     *)
(* answer is a session of its own.                                         *)
RepeatChange(h, entered, new) ==
  /\ loggedIn /\ ~Blocked
  /\ entered # pin /\ IsRepeatOfCompletedChange(new)
  /\ Tokens!ChangePin(h)
  /\ UNCHANGED vars

Change(h, entered, new) ==
  /\ ChangePin(entered, new)
  /\ Tokens!ChangePin(h)

Reset(h) == ResendPin(h) /\ Tokens!ResendPin(h)

SuspendDriver(h) == Suspend /\ Tokens!Suspend(h)

(* Steps on the PIN alone, and on the sessions alone.                      *)
PinStart(h) ==
  \E entered \in Pin :
    ReadDriver(h, entered) \/ \E new \in Pin : WrongCurrentPin(entered, new)

PinProceed(h) ==
  LoginFails(h) \/ SmsSent(h) \/ MarkPinDelivered(h) \/ Fails(h)

TokenStep(h) ==
  \/ Tokens!IssueToken(h)
  \/ request[h] = Idle /\ \E t \in Tokens!Token : Tokens!FindToken(h, t)
  \/ Tokens!SwapToken(h) \/ Tokens!CreateNext(h) \/ Tokens!CheckUser(h)
  \/ Tokens!RevokeAllForUser(h) \/ Tokens!Fails(h)

SessionStep ==
  \/ \E h \in Handler : TokenStep(h)
  \/ \E t \in Tokens!Token : Tokens!Logout(t) \/ Tokens!Expire(t)
  \/ Tokens!Cleanup

Begun == serial' = (serial /\ \A h \in Handler : request[h] = Idle)

PinStep(h) ==
  \/ PinStart(h) /\ Begun /\ UNCHANGED tokenVars
  \/ PinProceed(h) /\ UNCHANGED <<serial, tokenVars>>
  \/ Login(h) /\ UNCHANGED serial
  \/ Reset(h) /\ Begun
  \/ request[h] = Idle /\ SuspendDriver(h) /\ UNCHANGED serial
  \/ /\ request[h] = Idle
     /\ \E entered, new \in Pin :
          \/ Change(h, entered, new) /\ Begun
          \/ RepeatChange(h, entered, new)

AccessStep ==
  /\ \/ \E h \in Handler : ~InCall(h) /\ PinStep(h)
     \/ Tick /\ UNCHANGED <<serial, tokenVars>>
     \/ SessionStep /\ UNCHANGED vars
  /\ UNCHANGED fleetVars

AccessNext ==
  \/ EnrolStep
  \/ Created /\ AccessStep

AccessSpec == AccessInit /\ [][AccessNext]_<<accessVars, fleetVars>>

-----------------------------------------------------------------------------
(* The properties of the two instances.                                    *)

(* See RefreshTokens: a token is replaced at most once; a revocation       *)
(* misses only tokens being replaced, and a suspension not even those.     *)
TokensEnd ==
  Tokens!OneSuccessor /\ Tokens!OnlySwappedOutlive /\ Tokens!SuspendedKeepsNoRefresh

(* See RefreshTokens: nothing outlives a revocation. A refresh under way   *)
(* does.                                                                   *)
RevocationIsFinal == Tokens!RevocationIsFinal

(* See FleetEnrolment: nobody is created beyond the quota in force.        *)
QuotaKept == Enrolment!QuotaKept

(* See FleetEnrolment: drivers have the files of their documents, and no   *)
(* other file is left unless something stopped or could not be removed.    *)
FilesMatchDrivers == Enrolment!DriverIsDocumented /\ Enrolment!FilesAccounted

=============================================================================

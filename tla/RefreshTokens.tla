--------------------------- MODULE RefreshTokens ---------------------------
(***************************************************************************)
(* The sessions of one driver: the rows of auth.refresh_token, the refresh *)
(* that replaces a token by its successor, and what revokes them all: a    *)
(* token used twice, a changed or reset PIN, a suspension.                 *)
(*                                                                         *)
(* No transaction spans these statements. Each is one step, and a call is  *)
(* at one of them: "issue" a token, replace one ("swap", "create",         *)
(* "check"), or "revoke" all. What a call read before (the driver's state  *)
(* at a login, the row at a refresh) may have changed.                     *)
(***************************************************************************)
EXTENDS Naturals, FiniteSets

CONSTANTS
  MaxToken,    \* bound: tokens ever created
  Handler      \* identities of calls that may be in flight

VARIABLES
  row,        \* the state of each row of refresh_token
  origin,     \* history: the token a token replaced, 0 for a new session
  held,       \* tokens that were answered to the driver's devices
  enabled,    \* account, status and company let the driver work
  call,       \* what each call does next
  ended,      \* history: tokens that existed at the last revocation
  underWay,   \* history: those a refresh was replacing at that moment
  cut         \* history: the revocation of a suspension was carried out

rowVars == <<row, origin>>
histVars == <<ended, underWay, cut>>
vars == <<rowVars, held, enabled, call, histVars>>

Token == 1..MaxToken
Absent == {"none", "purged"}
Created == { t \in Token : row[t] # "none" }
Live    == { t \in Token : row[t] = "live" }

Call == {[op |-> "idle"], [op |-> "issue"]}
          \cup [op : {"swap", "create", "check"}, token : Token]
          \cup [op : {"revoke"}, next : {"idle", "issue", "cut"}]

TypeOK ==
  /\ row \in [Token -> {"live", "expired", "revoked"} \cup Absent]
  /\ origin \in [Token -> Token \cup {0}]
  /\ held \subseteq Created /\ ended \subseteq Created /\ underWay \subseteq ended
  /\ enabled \in BOOLEAN /\ cut \in BOOLEAN
  /\ call \in [Handler -> Call]

Init ==
  /\ row = [t \in Token |-> "none"]
  /\ origin = [t \in Token |-> 0]
  /\ held = {} /\ ended = {} /\ underWay = {}
  /\ enabled = TRUE /\ cut = FALSE
  /\ call = [h \in Handler |-> [op |-> "idle"]]

-----------------------------------------------------------------------------

Continue(h, c) == call' = [call EXCEPT ![h] = c]
Answer(h) == Continue(h, [op |-> "idle"])
RevokeThen(h, next) == Continue(h, [op |-> "revoke", next |-> next])

Begin(h, c) ==
  /\ call[h].op = "idle"
  /\ Continue(h, c)
  /\ UNCHANGED <<rowVars, held, histVars>>

(* The right credentials of an enabled driver. The comparison of the hash  *)
(* lies between the read of his state and the new token.                   *)
DriverLogin(h) ==
  /\ enabled
  /\ Begin(h, [op |-> "issue"])
  /\ UNCHANGED enabled

(* The PIN was changed: older sessions end and a new one begins.           *)
ChangePin(h) ==
  /\ enabled
  /\ Begin(h, [op |-> "revoke", next |-> "issue"])
  /\ UNCHANGED enabled

(* The PIN was reset by the company.                                       *)
ResendPin(h) ==
  /\ Begin(h, [op |-> "revoke", next |-> "idle"])
  /\ UNCHANGED enabled

Suspend(h) ==
  /\ Begin(h, [op |-> "revoke", next |-> "cut"])
  /\ enabled' = FALSE

NextToken == CHOOSE t \in Token : row[t] = "none" /\ \A u \in 1..(t - 1) : row[u] # "none"

CreateToken(from) ==
  /\ \E t \in Token : row[t] = "none"
  /\ row' = [row EXCEPT ![NextToken] = "live"]
  /\ origin' = [origin EXCEPT ![NextToken] = from]

IssueToken(h) ==
  /\ call[h].op = "issue"
  /\ CreateToken(0)
  /\ held' = held \cup {NextToken}
  /\ Answer(h)
  /\ UNCHANGED <<enabled, histVars>>

-----------------------------------------------------------------------------
(* A refresh: rotate, and the check of the user after it.                  *)

FindToken(h, t) ==
  /\ t \in held
  /\ \/ row[t] = "live"    /\ Begin(h, [op |-> "swap", token |-> t])
     \/ row[t] = "revoked" /\ Begin(h, [op |-> "revoke", next |-> "idle"])
  /\ UNCHANGED enabled

SwapToken(h) ==
  LET t == call[h].token
  IN  /\ call[h].op = "swap"
      /\ IF row[t] \in {"live", "expired"}
         THEN /\ row' = [row EXCEPT ![t] = "revoked"]
              /\ Continue(h, [op |-> "create", token |-> t])
         ELSE RevokeThen(h, "idle") /\ UNCHANGED row
      /\ UNCHANGED <<origin, held, enabled, histVars>>

(* Mutant: the new token is answered at once; the user was checked before. *)
CreateAnswered(h) ==
  /\ call[h].op = "create"
  /\ CreateToken(call[h].token)
  /\ held' = held \cup {NextToken}
  /\ Answer(h)
  /\ UNCHANGED <<enabled, histVars>>

CreateNext(h) ==
  /\ call[h].op = "create"
  /\ CreateToken(call[h].token)
  /\ Continue(h, [op |-> "check", token |-> NextToken])
  /\ UNCHANGED <<held, enabled, histVars>>

CheckUser(h) ==
  /\ call[h].op = "check"
  /\ IF enabled
     THEN Answer(h) /\ held' = held \cup {call[h].token}
     ELSE RevokeThen(h, "idle") /\ UNCHANGED held
  /\ UNCHANGED <<rowVars, enabled, histVars>>

-----------------------------------------------------------------------------

Revoked == [t \in Token |-> IF row[t] \in {"live", "expired"} THEN "revoked" ELSE row[t]]

RevokeAllForUser(h) ==
  /\ call[h].op = "revoke"
  /\ row' = Revoked
  /\ ended' = Created
  /\ underWay' = { t \in Token : \E g \in Handler : call[g] = [op |-> "create", token |-> t] }
  /\ Continue(h, [op |-> IF call[h].next = "issue" THEN "issue" ELSE "idle"])
  /\ cut' = (cut \/ call[h].next = "cut")
  /\ UNCHANGED <<origin, held, enabled>>

Logout(t) ==
  /\ t \in held
  /\ row[t] \in {"live", "expired"}
  /\ row' = [row EXCEPT ![t] = "revoked"]
  /\ UNCHANGED <<origin, held, enabled, call, histVars>>

Expire(t) ==
  /\ row[t] = "live"
  /\ row' = [row EXCEPT ![t] = "expired"]
  /\ UNCHANGED <<origin, held, enabled, call, histVars>>

(* The daily purge.                                                        *)
Cleanup ==
  /\ row' = [t \in Token |-> IF row[t] \in {"expired", "revoked"} THEN "purged" ELSE row[t]]
  /\ UNCHANGED <<origin, held, enabled, call, histVars>>

(* A call fails at its next statement, or its process stops.               *)
Fails(h) ==
  /\ call[h].op # "idle"
  /\ Answer(h)
  /\ UNCHANGED <<rowVars, held, enabled, histVars>>

Next ==
  \/ \E h \in Handler :
       \/ DriverLogin(h) \/ ChangePin(h) \/ ResendPin(h) \/ Suspend(h)
       \/ IssueToken(h)
       \/ \E t \in Token : FindToken(h, t)
       \/ SwapToken(h) \/ CreateNext(h) \/ CheckUser(h)
       \/ RevokeAllForUser(h) \/ Fails(h)
  \/ \E t \in Token : Logout(t) \/ Expire(t)
  \/ Cleanup

Spec == Init /\ [][Next]_vars

-----------------------------------------------------------------------------
(* However often a token is presented, it is replaced at most once, and    *)
(* what was replaced is never accepted again.                              *)
OneSuccessor ==
  \A t, u \in Created :
    /\ origin[u] # 0 => row[origin[u]] \in {"revoked", "purged"}
    /\ origin[t] = origin[u] /\ t # u => origin[t] = 0

(* Once the revocation of a suspension was carried out, no device holds a  *)
(* live token it got by a refresh: the user is checked after the new token *)
(* is stored, so a suspension in between is not missed. (A login that was  *)
(* under way leaves its token, whose first refresh is refused.)            *)
SuspendedKeepsNoRefresh ==
  cut => \A t \in held : origin[t] # 0 => row[t] # "live"

(* All that a revocation misses are the successors of tokens that were     *)
(* being replaced at that moment.                                          *)
OnlySwappedOutlive ==
  \A t \in Live : origin[t] \in ended => origin[t] \in underWay

(* A revocation ends every session, with the successors of its tokens.     *)
RevocationIsFinal == \A t \in Live : origin[t] \notin ended

=============================================================================

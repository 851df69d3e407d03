---------------------------- MODULE IssueLimiter ----------------------------
(***************************************************************************)
(* OtpIssueLimiter: at most Concurrency pieces of work run at once, at     *)
(* most QueueMax callers wait for a turn, in the order they came, and a    *)
(* caller whose turn does not come before his deadline is refused. A turn  *)
(* is handed over to the first in the queue without being given back.      *)
(* Deadlines are timers: they go off at any moment after the call.         *)
(***************************************************************************)
EXTENDS Naturals, Sequences, FiniteSets, SequencesExt

CONSTANTS
  Caller,         \* calls of run
  Concurrency,    \* OTP_ISSUE_CONCURRENCY
  QueueMax        \* OTP_ISSUE_QUEUE_MAX

ASSUME LimiterAssumption ==
  /\ IsFiniteSet(Caller)
  /\ Concurrency \in Nat \ {0}
  /\ QueueMax \in Nat

VARIABLES
  active,   \* turns taken
  queue,    \* callers that wait for one
  armed,    \* callers whose deadline timer is set
  call      \* what became of each call

limiterVars == <<active, queue, armed, call>>

LimiterTypeOK ==
  /\ active \in 0..Concurrency
  /\ queue \in Seq(Caller)
  /\ armed \subseteq Caller
  /\ call \in [Caller -> {"new", "waiting", "working", "done", "refused"}]

LimiterInit ==
  /\ active = 0
  /\ queue = <<>>
  /\ armed = {}
  /\ call = [c \in Caller |-> "new"]

Working == { c \in Caller : call[c] = "working" }

(* The three outcomes of acquire.                                          *)
TakeTurn(c) ==
  /\ call[c] = "new"
  /\ active < Concurrency
  /\ active' = active + 1
  /\ call' = [call EXCEPT ![c] = "working"]
  /\ UNCHANGED <<queue, armed>>

QueueFull == Len(queue) >= QueueMax

Saturated(c) ==
  /\ call[c] = "new"
  /\ active = Concurrency
  /\ QueueFull
  /\ call' = [call EXCEPT ![c] = "refused"]
  /\ UNCHANGED <<active, queue, armed>>

(* Mutant: a caller waits without a deadline.                              *)
WaitForever(c) ==
  /\ call[c] = "new"
  /\ active = Concurrency
  /\ ~QueueFull
  /\ queue' = Append(queue, c)
  /\ call' = [call EXCEPT ![c] = "waiting"]
  /\ UNCHANGED <<active, armed>>

Wait(c) ==
  /\ call[c] = "new"
  /\ active = Concurrency
  /\ ~QueueFull
  /\ queue' = Append(queue, c)
  /\ armed' = armed \cup {c}
  /\ call' = [call EXCEPT ![c] = "waiting"]
  /\ UNCHANGED active

LeaveQueue(c) == RemoveFirst(queue, c)

(* The deadline of a caller goes off.                                      *)
Deadline(c) ==
  /\ c \in armed
  /\ armed' = armed \ {c}
  /\ queue' = LeaveQueue(c)
  /\ call' = [call EXCEPT ![c] = "refused"]
  /\ UNCHANGED active

(* release: the turn passes to the first who waits, or is given back.      *)
GiveBack ==
  /\ queue = <<>>
  /\ active' = active - 1
  /\ UNCHANGED <<queue, armed>>

(* Mutant: the turn passes on and is given back as well.                   *)
HandOverTwice(c) ==
  /\ queue # <<>>
  /\ queue' = Tail(queue)
  /\ armed' = armed \ {Head(queue)}
  /\ active' = active - 1
  /\ call' = [call EXCEPT ![c] = "done", ![Head(queue)] = "working"]

HandOver(c) ==
  /\ queue # <<>>
  /\ queue' = Tail(queue)
  /\ armed' = armed \ {Head(queue)}
  /\ call' = [call EXCEPT ![c] = "done", ![Head(queue)] = "working"]
  /\ UNCHANGED active

(* The work ends, with a result or an exception.                           *)
Finish(c) ==
  /\ call[c] = "working"
  /\ \/ HandOver(c)
     \/ GiveBack /\ call' = [call EXCEPT ![c] = "done"]

LimiterNext ==
  \E c \in Caller : TakeTurn(c) \/ Saturated(c) \/ Wait(c) \/ Deadline(c) \/ Finish(c)

(* A timer that is set goes off. Nothing is assumed of the work.           *)
LimiterSpec ==
  /\ LimiterInit /\ [][LimiterNext]_limiterVars
  /\ \A c \in Caller : WF_limiterVars(Deadline(c))

-----------------------------------------------------------------------------
(* The turns taken are the calls at work, and none is free while a caller  *)
(* waits: no refusal, exception or hand-over loses a turn or adds one.     *)
TurnsAreWork ==
  /\ active = Cardinality(Working)
  /\ queue # <<>> => active = Concurrency

(* The queue is who waits, each caller once and with his deadline armed:   *)
(* a deadline can neither refuse a caller at work nor miss one who waits.  *)
QueueIsWaiting ==
  /\ ToSet(queue) = { c \in Caller : call[c] = "waiting" }
  /\ Len(queue) = Cardinality(ToSet(queue))
  /\ armed = ToSet(queue)

(* Everyone who waits is served or refused, even if the work never ends.   *)
WaitEnds == \A c \in Caller : call[c] = "waiting" ~> call[c] \in {"working", "refused", "done"}

=============================================================================

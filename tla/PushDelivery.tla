---------------------------- MODULE PushDelivery ----------------------------
(***************************************************************************)
(* The notices pushed to the passengers' phones.                           *)
(*                                                                         *)
(* When something has happened to a trip (committed), the call that did it *)
(* emits an event; the events that make a notice are handled one tick      *)
(* later, in the order they were emitted. A ledger in memory, bounded and  *)
(* of limited age, counts the notices of a trip, remembers that a driver   *)
(* gave it back, and chains its notices: each is sent when the one before  *)
(* it has been sent, or has taken too long. A send that has taken too long *)
(* goes on.                                                                *)
(***************************************************************************)
EXTENDS Naturals, Sequences, SequencesExt, FiniteSets

CONSTANTS
  Trip, User, Token,
  MaxPerTrip,   \* PASSENGER_PUSH_MAX_PER_TRIP
  MaxEntries,   \* PASSENGER_PUSH_LEDGER_MAX_ENTRIES
  MaxTokens     \* MAX_PUSH_TOKENS_PER_USER

VARIABLES
  committed,  \* facts whose event is still to be emitted
  events,     \* events whose handlers wait for their tick
  ledger,     \* the entries of the ledger, oldest first
  notices,    \* the notices of each trip, as they were submitted
  drops,      \* tokens that are being dropped
  devices,    \* auth.push_token, the one seen last in the end
  trimming,   \* registrations that have still to trim the user's devices
  emitted,    \* history: the events emitted of each trip
  lost,       \* history: how many of them were handled when its entry was lost
  received,   \* history: the notices in the order Expo received them
  untrimmed   \* history: registrations that failed to trim, since one did

ledgerVars == <<committed, events, ledger, emitted, lost>>
deviceVars == <<devices, trimming, untrimmed>>
pushVars == <<ledgerVars, notices, drops, received, deviceVars>>

Noticed == {"assigned", "searching", "ended", "arrived", "no_driver"}

Fact == [trip : Trip, to : User, kind : Noticed \cup {"closed"}]

Event == [trip : Trip, to : User, kind : Noticed, nth : Nat]

TripEntry == [trip : Trip, chain : Nat, sent : Nat, driverCancelled : BOOLEAN, expired : BOOLEAN]

(* at is the event a notice is about, chain the first event of its entry.  *)
Notice ==
  [at : Nat, chain : Nat, type : Noticed \cup {"reassigned"}, to : User,
   tokens : SUBSET Token, stage : {"submitted", "listed", "done"}, late : BOOLEAN]

PushTypeOK ==
  /\ committed \in Seq(Fact) /\ events \in Seq(Event) /\ ledger \in Seq(TripEntry)
  /\ notices \in [Trip -> Seq(Notice)]
  /\ drops \subseteq Token
  /\ devices \in Seq([token : Token, user : User])
  /\ trimming \in [User -> Nat] /\ untrimmed \in [User -> Nat]
  /\ emitted \in [Trip -> Seq(Noticed)]
  /\ lost \in [Trip -> SUBSET Nat]
  /\ received \in [Trip -> Seq(Nat)]

PushInit ==
  /\ committed = <<>> /\ events = <<>> /\ ledger = <<>>
  /\ notices = [t \in Trip |-> <<>>]
  /\ drops = {} /\ devices = <<>>
  /\ trimming = [u \in User |-> 0] /\ untrimmed = [u \in User |-> 0]
  /\ emitted = [t \in Trip |-> <<>>] /\ lost = [t \in Trip |-> {}]
  /\ received = [t \in Trip |-> <<>>]

-----------------------------------------------------------------------------
(* The ledger. What an entry knew is lost when it is deleted, whatever the *)
(* reason; lost notes how many events of the trip were handled by then.    *)

Handled(t) == Len(emitted[t]) - Cardinality({ i \in 1..Len(events) : events[i].trip = t })

Losing(trips) == [t \in Trip |-> IF t \in trips THEN lost[t] \cup {Handled(t)} ELSE lost[t]]

(* A row of a table, or an entry of the ledger, goes if there is one.      *)
Deleted(s, places) == IF places = {} THEN s ELSE RemoveAt(s, CHOOSE i \in places : TRUE)

Of(t, entries) == { i \in 1..Len(entries) : entries[i].trip = t }

Without(t, entries) == Deleted(entries, Of(t, entries))

(* An entry that has expired is deleted by who looks for it.               *)
Found(t) == { i \in Of(t, ledger) : ~ledger[i].expired }

(* Ages follow the order of the entries: the expired ones come first. Then *)
(* the oldest have to go.                                                  *)
RoomIn(entries) ==
  LET expired == Cardinality({ i \in 1..Len(entries) : entries[i].expired })
      leaving == IF Len(entries) - expired < MaxEntries THEN expired
                 ELSE Len(entries) - MaxEntries + 1
  IN  SubSeq(entries, leaving + 1, Len(entries))

EntryFor(ev) ==
  IF Found(ev.trip) # {} THEN ledger[CHOOSE i \in Found(ev.trip) : TRUE]
  ELSE [trip |-> ev.trip, chain |-> ev.nth, sent |-> 0, driverCancelled |-> FALSE, expired |-> FALSE]

LedgerFor(ev) ==
  IF Found(ev.trip) # {} THEN ledger
  ELSE Append(RoomIn(Without(ev.trip, ledger)), EntryFor(ev))

(* The trips whose entries LedgerFor had to delete.                        *)
ForgottenFor(ev) ==
  { ledger[i].trip : i \in { k \in 1..Len(ledger) : \A j \in 1..Len(LedgerFor(ev)) :
                                                      LedgerFor(ev)[j] # ledger[k] } }

Replacing(entries, e) == [i \in 1..Len(entries) |-> IF entries[i].trip = e.trip THEN e ELSE entries[i]]

GrowOld(i) ==
  /\ i \in 1..Len(ledger) /\ ~ledger[i].expired
  /\ \A j \in 1..(i - 1) : ledger[j].expired
  /\ ledger' = [ledger EXCEPT ![i].expired = TRUE]
  /\ UNCHANGED <<committed, events, emitted, lost, notices, drops, received, deviceVars>>

-----------------------------------------------------------------------------
(* Events.                                                                 *)

(* Something has happened to a trip.                                       *)
Happens(t, u, kind) ==
  /\ committed' = Append(committed, [trip |-> t, to |-> u, kind |-> kind])
  /\ UNCHANGED <<events, ledger, emitted, lost, notices, drops, received, deviceVars>>

(* Calls that have committed emit in whatever order they go on.            *)
Emit(i) ==
  /\ i \in 1..Len(committed)
  /\ committed[i].kind # "closed"
  /\ LET f == committed[i]
     IN  /\ emitted' = [emitted EXCEPT ![f.trip] = Append(@, f.kind)]
         /\ events' = Append(events, [trip |-> f.trip, to |-> f.to, kind |-> f.kind,
                                      nth |-> Len(emitted[f.trip]) + 1])
  /\ committed' = RemoveAt(committed, i)
  /\ UNCHANGED <<ledger, lost, notices, drops, received, deviceVars>>

(* That the passenger cancelled, that the trip is completed or that he did *)
(* not show up makes no notice; the trip is forgotten at once.             *)
EmitClosed(i) ==
  /\ i \in 1..Len(committed)
  /\ committed[i].kind = "closed"
  /\ LET t == committed[i].trip
     IN  /\ lost' = Losing({ ledger[k].trip : k \in Of(t, ledger) })
         /\ ledger' = Without(t, ledger)
  /\ committed' = RemoveAt(committed, i)
  /\ UNCHANGED <<events, emitted, notices, drops, received, deviceVars>>

TypeFor(ev) ==
  IF ev.kind # "assigned" THEN ev.kind
  ELSE IF \E i \in Found(ev.trip) : ledger[i].driverCancelled THEN "reassigned" ELSE "assigned"

Capped(entry) == entry.sent >= MaxPerTrip

(* The handler of an event: it notes that a driver gave the trip back,     *)
(* submits the notice unless the trip has had all of its notices, and      *)
(* forgets a trip that is over.                                            *)
HandleEvent ==
  /\ events # <<>>
  /\ LET ev     == Head(events)
         entry  == [EntryFor(ev) EXCEPT !.driverCancelled = @ \/ ev.kind = "searching"]
         sent   == IF Capped(entry) THEN entry ELSE [entry EXCEPT !.sent = @ + 1]
         after  == Replacing(LedgerFor(ev), sent)
         before == Losing(ForgottenFor(ev))
         closes == ev.kind \in {"ended", "no_driver"}
     IN  /\ ledger' = IF closes THEN Without(ev.trip, after) ELSE after
         /\ lost' = IF closes
                    THEN [before EXCEPT ![ev.trip] = @ \cup {ev.nth}] ELSE before
         /\ notices' = IF Capped(entry) THEN notices ELSE
              [notices EXCEPT ![ev.trip] = Append(@,
                 [at |-> ev.nth, chain |-> entry.chain, type |-> TypeFor(ev), to |-> ev.to,
                  tokens |-> {}, stage |-> "submitted", late |-> FALSE])]
  /\ events' = Tail(events)
  /\ UNCHANGED <<committed, emitted, drops, received, deviceVars>>

(* Everything but the table of devices is in memory.                       *)
Restart ==
  /\ committed' = <<>> /\ events' = <<>> /\ ledger' = <<>>
  /\ lost' = [t \in Trip |-> lost[t] \cup {Len(emitted[t])}]
  /\ notices' = [t \in Trip |-> [i \in 1..Len(notices[t]) |->
                   [notices[t][i] EXCEPT !.stage = "done", !.tokens = {}]]]
  /\ drops' = {} /\ trimming' = [u \in User |-> 0]
  /\ untrimmed' = [u \in User |-> untrimmed[u] + trimming[u]]
  /\ UNCHANGED <<emitted, received, devices>>

-----------------------------------------------------------------------------
(* The sending of the i-th notice of a trip.                               *)

(* Mutant: the next notice does not wait for the one before.               *)
AtOnce(t, i) == TRUE

InTurn(t, i) ==
  \A j \in 1..(i - 1) : notices[t][j].chain = notices[t][i].chain
                          => notices[t][j].stage = "done" \/ notices[t][j].late

Sending(t, i, stage) ==
  /\ i \in 1..Len(notices[t])
  /\ notices[t][i].stage = stage
  /\ InTurn(t, i)

Devices(u) == { devices[i].token : i \in { k \in 1..Len(devices) : devices[k].user = u } }

Moves(t, i, n) == notices' = [notices EXCEPT ![t][i] = n]

Finished(t, i) == Moves(t, i, [notices[t][i] EXCEPT !.stage = "done", !.tokens = {}])

ListByUser(t, i) ==
  /\ Sending(t, i, "submitted")
  /\ IF Devices(notices[t][i].to) = {}
     THEN Finished(t, i)
     ELSE Moves(t, i, [notices[t][i] EXCEPT !.stage = "listed", !.tokens = Devices(notices[t][i].to)])
  /\ UNCHANGED <<ledgerVars, drops, received, deviceVars>>

(* Expo receives the notice; tokens of phones that are gone come back, and *)
(* are dropped by calls nobody waits for.                                  *)
SendPushNotifications(t, i, gone) ==
  /\ Sending(t, i, "listed")
  /\ gone \subseteq notices[t][i].tokens
  /\ Finished(t, i)
  /\ received' = [received EXCEPT ![t] = Append(@, i)]
  /\ drops' = drops \cup gone
  /\ UNCHANGED <<ledgerVars, deviceVars>>

SendFails(t, i) ==
  /\ Sending(t, i, "submitted") \/ Sending(t, i, "listed")
  /\ Finished(t, i)
  /\ UNCHANGED <<ledgerVars, drops, received, deviceVars>>

(* PUSH_SEND_TIMEOUT_MS have passed: the chain goes on, and the send too.  *)
SendTimesOut(t, i) ==
  /\ Sending(t, i, "submitted") \/ Sending(t, i, "listed")
  /\ ~notices[t][i].late
  /\ Moves(t, i, [notices[t][i] EXCEPT !.late = TRUE])
  /\ UNCHANGED <<ledgerVars, drops, received, deviceVars>>

-----------------------------------------------------------------------------
(* The devices.                                                            *)

WithoutToken(tok) == Deleted(devices, { i \in 1..Len(devices) : devices[i].token = tok })

(* A registration is two statements: the token becomes the user's, then    *)
(* all but his latest devices go.                                          *)
Register(u, tok) ==
  /\ devices' = Append(WithoutToken(tok), [token |-> tok, user |-> u])
  /\ trimming' = [trimming EXCEPT ![u] = @ + 1]
  /\ UNCHANGED <<ledgerVars, notices, drops, received, untrimmed>>

(* At the end of devices are the latest.                                   *)
AmongLatest(u, i) ==
  Cardinality({ j \in (i + 1)..Len(devices) : devices[j].user = u }) < MaxTokens

Ascending(f) == \A i, j \in DOMAIN f : i < j => f[i] < f[j]

Trim(u) ==
  LET kept == { i \in 1..Len(devices) : devices[i].user = u => AmongLatest(u, i) }
  IN  /\ trimming[u] > 0
      /\ \E place \in [1..Cardinality(kept) -> kept] :
           /\ Ascending(place)
           /\ devices' = [k \in DOMAIN place |-> devices[place[k]]]
      /\ trimming' = [trimming EXCEPT ![u] = @ - 1]
      /\ untrimmed' = [untrimmed EXCEPT ![u] = 0]
      /\ UNCHANGED <<ledgerVars, notices, drops, received>>

TrimFails(u) ==
  /\ trimming[u] > 0
  /\ trimming' = [trimming EXCEPT ![u] = @ - 1]
  /\ untrimmed' = [untrimmed EXCEPT ![u] = @ + 1]
  /\ UNCHANGED <<ledgerVars, notices, drops, received, devices>>

Revoke(u, tok) ==
  /\ \E i \in 1..Len(devices) : devices[i] = [token |-> tok, user |-> u]
  /\ devices' = WithoutToken(tok)
  /\ UNCHANGED <<ledgerVars, notices, drops, received, trimming, untrimmed>>

(* A drop may also fail, and is not tried again.                           *)
Drop(tok) ==
  /\ tok \in drops
  /\ drops' = drops \ {tok}
  /\ devices' \in {WithoutToken(tok), devices}
  /\ UNCHANGED <<ledgerVars, notices, received, trimming, untrimmed>>

(* Devices that were not seen for PUSH_TOKEN_TTL_DAYS.                     *)
PurgeStale(n) ==
  /\ n \in 1..Len(devices)
  /\ devices' = SubSeq(devices, n + 1, Len(devices))
  /\ UNCHANGED <<ledgerVars, notices, drops, received, trimming, untrimmed>>

-----------------------------------------------------------------------------
PushNext ==
  \/ \E i \in 1..Len(committed) : Emit(i) \/ EmitClosed(i)
  \/ HandleEvent \/ Restart
  \/ \E i \in 1..Len(ledger) : GrowOld(i)
  \/ \E t \in Trip : \E i \in 1..Len(notices[t]) :
       \/ ListByUser(t, i) \/ SendFails(t, i) \/ SendTimesOut(t, i)
       \/ \E gone \in SUBSET notices[t][i].tokens : SendPushNotifications(t, i, gone)
  \/ \E u \in User : Trim(u) \/ TrimFails(u) \/ \E tok \in Token : Register(u, tok) \/ Revoke(u, tok)
  \/ \E tok \in Token : Drop(tok)
  \/ \E n \in 1..Len(devices) : PurgeStale(n)

-----------------------------------------------------------------------------
LostBetween(t, m, n) == \E k \in lost[t] : m <= k /\ k < n

(* The notices of a trip reach Expo once each, in the order of the events  *)
(* they are about, however long each takes: unless one took longer than    *)
(* the others wait, or the ledger lost the trip in between.                *)
NoticesInOrder ==
  \A t \in Trip : \A b \in 1..Len(received[t]) : \A a \in 1..(b - 1) :
    LET first == received[t][a]
        then  == received[t][b]
    IN  /\ first # then
        /\ \/ first < then
           \/ notices[t][then].late
           \/ LostBetween(t, notices[t][then].at, notices[t][first].at)

(* A passenger is told of another driver only if one gave his trip back,   *)
(* and then always; and a trip has no more notices than allowed. Both are  *)
(* only as good as the memory of the ledger.                               *)
NoticesFitTrip ==
  \A t \in Trip : \A i \in 1..Len(notices[t]) :
    LET n == notices[t][i]
        GivenBack(m) == m < n.at /\ emitted[t][m] = "searching"
        counted == { j \in 1..i : ~LostBetween(t, notices[t][j].at, n.at) }
    IN  /\ n.type = "reassigned" => \E m \in 1..Len(emitted[t]) : GivenBack(m)
        /\ n.type = "assigned" =>
             \A m \in 1..Len(emitted[t]) : GivenBack(m) => LostBetween(t, m, n.at)
        /\ Cardinality(counted) <= MaxPerTrip

(* However registrations of a user's phones overlap, he is left with no    *)
(* more than MaxTokens of them, but for those that have still to trim, or  *)
(* failed to.                                                              *)
DevicesBounded ==
  \A u \in User : Cardinality(Devices(u)) <= MaxTokens + trimming[u] + untrimmed[u]

=============================================================================

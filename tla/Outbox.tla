------------------------------- MODULE Outbox -------------------------------
(***************************************************************************)
(* The offline queue of the mobile app (mobile/src/offline/outbox.ts).     *)
(*                                                                         *)
(* The queue is one JSON file per user.  Every change reads the whole file *)
(* and later writes the whole file; between the two the app may do         *)
(* anything else, another synchronisation included: the records screen and *)
(* the outbox screen start one without asking whether one is running.      *)
(* The backend is what its answers show: it carries a request out or       *)
(* refuses it, and the answer may not arrive.                              *)
(***************************************************************************)
EXTENDS Naturals, Sequences, FiniteSets, Functions

CONSTANTS Items,        \* the requests the user makes while offline
          Idempotent,   \* those the backend accepts again: the records
          Syncs,        \* calls of syncOutbox in flight
          MaxItems      \* maxItems

ASSUME OutboxAssumption == Idempotent \subseteq Items /\ MaxItems \in Nat \ {0}

VARIABLES file,      \* status of each item in the file, or ABSENT
          created,   \* the items by createdAt
          adding,    \* enqueueOutboxItem between its read and its write
          sync,      \* the calls of syncOutbox
          applied,   \* requests the backend carried out
          refused,   \* requests the backend has answered with an error
          cleared    \* items the user threw away

outboxVars == <<file, created, adding, sync, applied, refused, cleared>>
backendVars == <<applied, refused>>

Absent == "ABSENT"
OutboxStatus == {"PENDING", "SENDING", "FAILED"}
File == [Items -> OutboxStatus \union {Absent}]
NoFile == [i \in Items |-> Absent]

\* at: the update that is due, or the request.  A snap is the file as the
\* update read it.
Updating == {"mark", "sent", "refused", "unreached"}
Lists == UNION {[1..n -> Items] : n \in 0..MaxItems}
Sync == [at : Updating \union {"idle", "send"}, todo : Lists,
         snap : {<<>>} \union {<<f>> : f \in File}]

IdleSync == [at |-> "idle", todo |-> <<>>, snap |-> <<>>]

OutboxTypeOK ==
  /\ file \in File
  /\ created \in Seq(Items) /\ IsInjective(created)
  /\ adding \in {<<>>} \union (Items \X File)
  /\ sync \in [Syncs -> Sync]
  /\ applied \subseteq Items /\ refused \subseteq Items /\ cleared \subseteq Items

OutboxInit ==
  /\ file = NoFile
  /\ created = <<>>
  /\ adding = <<>>
  /\ sync = [s \in Syncs |-> IdleSync]
  /\ applied = {} /\ refused = {} /\ cleared = {}

-----------------------------------------------------------------------------
(* enqueueOutboxItem and clearOutbox *)

\* The call that could not reach the backend, which may have carried it out.
ReadEnqueue(i) ==
  /\ adding = <<>>
  /\ i \notin Range(created)
  /\ adding' = <<i, file>>
  /\ applied' \in {applied, applied \union {i}}
  /\ UNCHANGED <<file, created, sync, refused, cleared>>

\* After this the screen says that the request is saved.
WriteEnqueue ==
  /\ adding # <<>>
  /\ file' = [adding[2] EXCEPT ![adding[1]] = "PENDING"]
  /\ created' = Append(created, adding[1])
  /\ adding' = <<>>
  /\ UNCHANGED <<sync, cleared, backendVars>>

Queued == {i \in Items : file[i] # Absent}

ClearOutbox ==
  /\ file' = NoFile
  /\ cleared' = cleared \union Queued
  /\ UNCHANGED <<created, adding, sync, backendVars>>

-----------------------------------------------------------------------------
(* syncOutbox *)

\* By createdAt.
Older(i, j) == \E k, l \in DOMAIN created : k < l /\ created[k] = i /\ created[l] = j

\* What is being sent is left out.
Due == {i \in Range(created) : file[i] \in {"PENDING", "FAILED"}}

\* What one call tries: what is due, oldest first, and not more than MaxItems.
Candidates(todo) ==
  /\ Range(todo) \subseteq Due
  /\ \A p, q \in DOMAIN todo : p < q => Older(todo[p], todo[q])
  /\ \A i \in Due, p \in DOMAIN todo : Older(i, todo[p]) => \E q \in 1..(p - 1) : todo[q] = i
  /\ Len(todo) = MaxItems \/ Due \subseteq Range(todo)

StartSync(s) ==
  /\ sync[s].at = "idle"
  /\ \E todo \in Lists \ {<<>>} :
       /\ Candidates(todo)
       /\ sync' = [sync EXCEPT ![s] = [at |-> "mark", todo |-> todo, snap |-> <<>>]]
  /\ UNCHANGED <<file, created, adding, cleared, backendVars>>

Current(s) == Head(sync[s].todo)

\* Mutant of AfterUpdate: without the break on a network error.
AfterUpdateGoesOn(c) ==
  IF c.at = "mark" THEN [at |-> "send", todo |-> c.todo, snap |-> <<>>]
  ELSE IF Len(c.todo) = 1 THEN IdleSync
  ELSE [at |-> "mark", todo |-> Tail(c.todo), snap |-> <<>>]

\* Where a call is after the update it has just made.
AfterUpdate(c) ==
  IF c.at = "mark" THEN [at |-> "send", todo |-> c.todo, snap |-> <<>>]
  ELSE IF c.at = "unreached" \/ Len(c.todo) = 1 THEN IdleSync
  ELSE [at |-> "mark", todo |-> Tail(c.todo), snap |-> <<>>]

\* updateItem and removeItem, read.
ReadForUpdate(s) ==
  /\ sync[s].at \in Updating
  /\ sync[s].snap = <<>>
  /\ sync' = [sync EXCEPT ![s].snap = <<file>>]
  /\ UNCHANGED <<file, created, adding, cleared, backendVars>>

\* Mutant of Patch: a sent item is kept, marked SENT.
PatchSent ==
  [mark |-> "SENDING", sent |-> "SENT", refused |-> "FAILED", unreached |-> "PENDING"]

\* Mutant of Patch: an unreached item stays SENDING.
PatchUnreached ==
  [mark |-> "SENDING", sent |-> Absent, refused |-> "FAILED", unreached |-> "SENDING"]

Patch == [mark |-> "SENDING", sent |-> Absent, refused |-> "FAILED", unreached |-> "PENDING"]

\* updateItem and removeItem, write: an item that is no longer there is not
\* updated, and the call goes on.
WriteUpdate(s) ==
  LET snap == sync[s].snap[1]
  IN  /\ sync[s].at \in Updating
      /\ sync[s].snap # <<>>
      /\ file' = IF snap[Current(s)] = Absent /\ sync[s].at # "sent" THEN file
                 ELSE [snap EXCEPT ![Current(s)] = Patch[sync[s].at]]
      /\ sync' = [sync EXCEPT ![s] = AfterUpdate(@)]
      /\ UNCHANGED <<created, adding, cleared, backendVars>>

-----------------------------------------------------------------------------
(* sendOne: the answer, or none. *)

Answered(s, at) ==
  /\ sync[s].at = "send"
  /\ sync' = [sync EXCEPT ![s].at = at]
  /\ UNCHANGED <<file, created, adding, cleared>>

Repeatable(i) == i \in applied => i \in Idempotent

CarriedOut(s) ==
  /\ Answered(s, "sent")
  /\ Repeatable(Current(s))
  /\ applied' = applied \union {Current(s)}
  /\ UNCHANGED refused

\* Mutant of Refuse: the item a refusal is about is removed like a sent one.
RefuseRemoves(s) ==
  /\ Answered(s, "sent")
  /\ refused' = refused \union {Current(s)}
  /\ UNCHANGED applied

\* An error answer, or one of the app itself before the request is sent.
Refuse(s) ==
  /\ Answered(s, "refused")
  /\ refused' = refused \union {Current(s)}
  /\ UNCHANGED applied

\* TimeoutInterceptor answers with an error after 15 seconds; the handler goes
\* on nevertheless.
TimedOut(s) ==
  /\ Answered(s, "refused")
  /\ Repeatable(Current(s))
  /\ applied' = applied \union {Current(s)}
  /\ refused' = refused \union {Current(s)}

AnswerFor(s, i) ==
  sync[s].at = "send" /\ Current(s) = i /\ (CarriedOut(s) \/ Refuse(s) \/ TimedOut(s))

\* No connection.
NoConnection(s) == Answered(s, "unreached") /\ UNCHANGED backendVars

\* The request arrives, its answer does not.
AnswerLost(s) ==
  /\ Answered(s, "unreached")
  /\ Repeatable(Current(s))
  /\ applied' = applied \union {Current(s)}
  /\ UNCHANGED refused

-----------------------------------------------------------------------------
\* The app is closed: the file stays.
AppClosed ==
  /\ adding' = <<>>
  /\ sync' = [s \in Syncs |-> IdleSync]
  /\ UNCHANGED <<file, created, cleared, backendVars>>

UserStep == ClearOutbox \/ \E i \in Items : ReadEnqueue(i)

SyncStep(s) ==
  \/ ReadForUpdate(s) \/ WriteUpdate(s)
  \/ CarriedOut(s) \/ Refuse(s) \/ TimedOut(s) \/ NoConnection(s) \/ AnswerLost(s)

OutboxNext ==
  \/ UserStep \/ WriteEnqueue \/ AppClosed
  \/ \E s \in Syncs : StartSync(s) \/ SyncStep(s)

OutboxSpec == OutboxInit /\ [][OutboxNext]_outboxVars

NothingRuns == \A s \in Syncs : sync[s].at = "idle"

\* The user adds and clears only while nothing is being sent.
ApartNext ==
  \/ NothingRuns /\ UserStep
  \/ WriteEnqueue \/ AppClosed
  \/ \E s \in Syncs : (adding = <<>> /\ StartSync(s)) \/ SyncStep(s)

ApartSpec == OutboxInit /\ [][ApartNext]_outboxVars

\* The steps of a call follow one another, the user keeps opening the records
\* screen, and the connection does not fail every time it is some item's turn.
OutboxFairness ==
  /\ WF_outboxVars(WriteEnqueue)
  /\ \A s \in Syncs :
       /\ WF_outboxVars(SyncStep(s))
       /\ SF_outboxVars(StartSync(s))
       /\ \A i \in Items : SF_outboxVars(AnswerFor(s, i))

\* From some time on the app is no longer closed in the middle of its work.
FairApartSpec ==
  ApartSpec /\ OutboxFairness /\ <>[][adding # <<>> \/ ~NothingRuns => ~AppClosed]_outboxVars

\* One synchronisation at a time, to its end.
AloneNext ==
  \/ NothingRuns /\ UserStep
  \/ WriteEnqueue
  \/ \E s \in Syncs : (adding = <<>> /\ NothingRuns /\ StartSync(s)) \/ SyncStep(s)

AloneSpec == OutboxInit /\ [][AloneNext]_outboxVars /\ OutboxFairness

-----------------------------------------------------------------------------
(* Properties *)

\* What the user was told is saved is in the file until the backend has
\* carried it out or the user throws it away, wherever the app is closed and
\* however many synchronisations overlap: a stale write of one of them only
\* brings items back.
NothingLost ==
  \A i \in Range(created) : file[i] # Absent \/ i \in applied \/ i \in cleared

\* The backend carries the items out in the order the user made them, except
\* for those it refuses: a synchronisation stops where the connection does.
InOrder ==
  [][\A k \in DOMAIN created : created[k] \in applied' \ applied =>
       \A j \in 1..(k - 1) : created[j] \in applied \union refused \union cleared]_outboxVars

\* As many refused items as one call tries are older than i: no call reaches i, and
\* only an answer other than the last one, or the user, takes them away.
Crowded(i) ==
  Cardinality({j \in refused \intersect Queued : Older(j, i)}) >= MaxItems

\* What is saved is sent once there is a connection, and gets an answer, unless
\* refused items crowd it out.
EventuallyAnswered ==
  \A i \in Items : i \in Range(created) ~>
    i \in applied \union refused \union cleared \/ Crowded(i)

=============================================================================

---------------------------- MODULE SimInventory ----------------------------
(***************************************************************************)
(* The list of SIM cards an operator carries, kept on the phone for work   *)
(* without a connection (mobile/src/offline/offline-cache.ts,              *)
(* sim-inventory-reconcile.ts, api/sim-cards.api.ts), beside the table     *)
(* sim_cards other people change meanwhile.                                *)
(*                                                                         *)
(* The list is a file read and rewritten as a whole.  Scanning a card,     *)
(* claiming one, removing one and the reconciliation with the backend are  *)
(* jobs that interleave at every await, so that a job writes a list it     *)
(* read some steps ago.  A claim made without a connection is marked in    *)
(* the list and queued; module Outbox has the queue in full, here it is    *)
(* the set of SIMs to claim.                                               *)
(***************************************************************************)
EXTENDS SimCards, Sequences, SequencesExt

CONSTANTS Me,           \* the operator whose phone it is
          Jobs,         \* slots for jobs of the phone; a job's claim has its SIM slot
          MaxItems      \* entries a reconciliation asks about

ASSUME InventoryAssumption ==
  /\ Me \in Users
  /\ Jobs \subseteq SimRequests
  /\ MaxItems \in Nat \ {0}

VARIABLES list,         \* the file, newest first: Seq(Entry)
          queued,       \* SIMs claimed without a connection, claim not sent yet
          online,       \* the backend can be reached
          job           \* [Jobs -> Job]

phone == <<list, queued, online, job>>
inventoryVars == <<simVars, phone>>

\* The row as the backend last answered it, or as a claim marked it.
Entry == [sim : Sims, row : SimRow]

\* at: the next step.  First line: requests of the user, then the queue, then
\* the reconciliation.
Job == [at : {"idle", "scan", "upsert", "claim", "claimWrite", "enqueue", "mark",
              "remove", "write", "send", "sendWrite", "read", "ask", "rewrite"},
        sim : Sims \union {None},       \* what is scanned, claimed or removed
        row : SimRow \union {None},     \* the row the backend answered
        copy : Seq(Entry),              \* the list read, or the list to write
        seen : SUBSET Entry,            \* rows the reconciliation was answered
        pos : Nat,                      \* entry it asks about next
        todo : SUBSET Sims,             \* queued claims still to be sent
        then : {"stop", "refresh", "sync"}]   \* whether a reconciliation follows

NoJob == [at |-> "idle", sim |-> None, row |-> None, copy |-> <<>>, seen |-> {}, pos |-> 1,
          todo |-> {}, then |-> "stop"]

Distinct(l) == \A i, k \in DOMAIN l : l[i].sim = l[k].sim => i = k

PhoneTypeOK ==
  /\ SimTypeOK
  /\ list \in Seq(Entry) /\ Distinct(list)
  /\ queued \subseteq Sims
  /\ online \in BOOLEAN
  /\ job \in [Jobs -> Job]
  /\ \A j \in Jobs : Distinct(job[j].copy)

InventoryInit ==
  /\ SimInit
  /\ list = <<>>
  /\ queued = {}
  /\ online = TRUE
  /\ job = [j \in Jobs |-> NoJob]

-----------------------------------------------------------------------------
(* What is done to the list (offlineSimInventory in offline-cache.ts). *)

\* The indices of I in their order.
InOrderOf(I) ==
  CHOOSE f \in [1..Cardinality(I) -> I] : \A p, q \in DOMAIN f : p < q => f[p] < f[q]

\* filter: the other cards keep their order.
Kept(l, gone) ==
  LET at == InOrderOf({i \in DOMAIN l : l[i].sim \notin gone})
  IN  [p \in DOMAIN at |-> l[at[p]]]

Without(s, l) == Kept(l, {s})

\* Mutant of Fronted: the old entry of the card stays.
FrontedTwice(e, l) == <<e>> \o l

\* upsert: to the front, in place of an older entry.
Fronted(e, l) == <<e>> \o Without(e.sim, l)

\* A claim that could not be sent.
Marked(s, l) ==
  [i \in DOMAIN l |-> IF l[i].sim = s THEN [l[i] EXCEPT !.row = AssignedTo(Me)] ELSE l[i]]

\* reconcileOfflineSimInventory: cards that are neither in store nor the operator's.
ShouldRemove(row) ==
  /\ row.status # "AVAILABLE"
  /\ ~(row.status = "ASSIGNED" /\ row.by = Me)

Fresh(e, seen) ==
  IF \E f \in seen : f.sim = e.sim THEN CHOOSE f \in seen : f.sim = e.sim ELSE e

\* The list written back: the one read, without the cards to be removed and with
\* the rows answered.
Reconciled(l, seen) ==
  LET kept == Kept(l, {f.sim : f \in {g \in seen : ShouldRemove(g.row)}})
  IN [i \in DOMAIN kept |-> Fresh(kept[i], seen)]

-----------------------------------------------------------------------------
Begin(j, at, s, then) ==
  job' = [job EXCEPT ![j] = [NoJob EXCEPT !.at = at, !.sim = s, !.then = then]]

Idle(j) == job[j].at = "idle"
Goes(j, at) == job' = [job EXCEPT ![j].at = at]
Answered(j, row) == job' = [job EXCEPT ![j].at = "upsert", ![j].row = row]

\* The job is over, or goes on to a reconciliation: that of the inventory
\* screen needs a connection, that of the synchronisation does not ask.
Ends(j) ==
  job' = [job EXCEPT ![j] =
            IF job[j].then = "sync" \/ (job[j].then = "refresh" /\ online)
              THEN [NoJob EXCEPT !.at = "read", !.then = job[j].then]
              ELSE NoJob]

Tables == UNCHANGED simVars
Files == UNCHANGED <<list, queued, online>>

(* Scanning and claiming (simCardsApi). *)

StartScan(j, s, then) ==
  /\ Idle(j)
  /\ Begin(j, "scan", s, then)
  /\ Tables /\ Files

\* The backend answers with the row it has now, whatever its status.
ScanAnswered(j) ==
  /\ job[j].at = "scan"
  /\ online /\ sim[job[j].sim].status # "DELETED"
  /\ Answered(j, sim[job[j].sim])
  /\ Tables /\ Files

\* No such card, or no connection: the list is only read.
ScanFails(j) ==
  /\ job[j].at = "scan"
  /\ ~online \/ sim[job[j].sim].status = "DELETED"
  /\ Ends(j)
  /\ Tables /\ Files

StartClaim(j, s) ==
  /\ Idle(j)
  /\ Begin(j, "claim", s, "stop")
  /\ Tables /\ Files

\* The backend's two steps are those of SimCards, in the job's own slot.
ClaimRead(j) ==
  /\ job[j].at = "claim" /\ online
  /\ ReadClaim(j, job[j].sim, Me)
  /\ Goes(j, "claimWrite")
  /\ Files

ClaimAnswered(j) ==
  /\ job[j].at = "claim" /\ online
  /\ AlreadyClaimed(job[j].sim, Me)
  /\ Answered(j, AssignedTo(Me))
  /\ Tables /\ Files

ClaimIsRefused(j) ==
  LET s == job[j].sim IN
  /\ \/ /\ job[j].at = "claim" /\ online
        /\ ~Claimable(s) /\ ~AlreadyClaimed(s, Me)
        /\ Tables
     \/ job[j].at = "claimWrite" /\ SimRefused(j)
  /\ Ends(j)
  /\ Files

\* The answer to a claim that was carried out may be lost.
ClaimWritten(j) ==
  /\ job[j].at = "claimWrite"
  /\ WriteClaim(j)
  /\ IF online THEN Answered(j, AssignedTo(Me)) ELSE Goes(j, "enqueue")
  /\ Files

ClaimUnsent(j) ==
  /\ job[j].at = "claim" /\ ~online
  /\ Goes(j, "enqueue")
  /\ Tables /\ Files

Enqueue(j) ==
  /\ job[j].at = "enqueue"
  /\ queued' = queued \union {job[j].sim}
  /\ Goes(j, "mark")
  /\ Tables /\ UNCHANGED <<list, online>>

StartRemove(j, s) ==
  /\ Idle(j)
  /\ Begin(j, "remove", s, "refresh")
  /\ Tables /\ Files

\* The list is read, and what will be written is made of it.
ReadList(j) ==
  LET s == job[j].sim
      make(next) == job' = [job EXCEPT ![j].at = "write", ![j].copy = next]
  IN /\ \/ job[j].at = "upsert" /\ make(Fronted([sim |-> s, row |-> job[j].row], list))
        \/ job[j].at = "mark" /\ make(Marked(s, list))
        \/ job[j].at = "remove" /\ make(Without(s, list))
     /\ Tables /\ Files

WriteList(j) ==
  /\ job[j].at = "write"
  /\ list' = job[j].copy
  /\ Ends(j)
  /\ Tables /\ UNCHANGED <<queued, online>>

\* clear deletes the file.
ClearList(j) ==
  /\ Idle(j)
  /\ list' = <<>>
  /\ job' = [job EXCEPT ![j] = IF online THEN [NoJob EXCEPT !.at = "read", !.then = "refresh"]
                               ELSE NoJob]
  /\ Tables /\ UNCHANGED <<queued, online>>

-----------------------------------------------------------------------------
(* The connection, the queue (useOfflineSync, syncOutbox). *)

GoOffline ==
  /\ online
  /\ online' = FALSE
  /\ Tables /\ UNCHANGED <<list, queued, job>>

Syncing == \E j \in Jobs : job[j].then = "sync"

\* Back online: one synchronisation starts, unless one is still at work.
GoOnline ==
  /\ ~online
  /\ online' = TRUE
  /\ IF Syncing THEN UNCHANGED job
     ELSE \E j \in Jobs :
            /\ Idle(j)
            /\ job' = [job EXCEPT ![j] = [NoJob EXCEPT !.at = "send", !.todo = queued,
                                                       !.then = "sync"]]
  /\ Tables /\ UNCHANGED <<list, queued>>

\* A queued claim is sent; one the backend refuses stays in the queue.
SendRead(j, s) ==
  /\ job[j].at = "send" /\ online /\ s \in job[j].todo
  /\ ReadClaim(j, s, Me)
  /\ job' = [job EXCEPT ![j].at = "sendWrite", ![j].todo = @ \ {s}, ![j].sim = s]
  /\ Files

SendAnswered(j, s) ==
  /\ job[j].at = "send" /\ online /\ s \in job[j].todo
  /\ ~Claimable(s)
  /\ queued' = IF AlreadyClaimed(s, Me) THEN queued \ {s} ELSE queued
  /\ job' = [job EXCEPT ![j].todo = @ \ {s}]
  /\ Tables /\ UNCHANGED <<list, online>>

SendWritten(j) ==
  /\ job[j].at = "sendWrite"
  /\ WriteClaim(j)
  /\ queued' = IF online THEN queued \ {job[j].sim} ELSE queued
  /\ job' = [job EXCEPT ![j].at = "send", ![j].sim = None,
                        ![j].todo = IF online THEN @ ELSE {}]
  /\ UNCHANGED <<list, online>>

SendIsRefused(j) ==
  /\ job[j].at = "sendWrite"
  /\ SimRefused(j)
  /\ job' = [job EXCEPT ![j].at = "send", ![j].sim = None]
  /\ Files

\* All claims are sent, or the connection is lost: the list is next.
SendEnds(j) ==
  /\ job[j].at = "send"
  /\ job[j].todo = {} \/ ~online
  /\ Ends(j)
  /\ Tables /\ Files

-----------------------------------------------------------------------------
(* The reconciliation (sim-inventory-reconcile.ts). *)

\* Pulled by the user on the inventory screen.
StartReconcile(j) ==
  /\ Idle(j) /\ online
  /\ Begin(j, "read", None, "refresh")
  /\ Tables /\ Files

ReadForReconcile(j) ==
  /\ job[j].at = "read"
  /\ job' = [job EXCEPT ![j] = IF list = <<>> THEN NoJob
                               ELSE [@ EXCEPT !.at = "ask", !.copy = list]]
  /\ Tables /\ Files

Asked(j) == job[j].copy[job[j].pos].sim
AskedAll(j) == job[j].pos > Len(job[j].copy) \/ job[j].pos > MaxItems

\* A row is answered; a card that no longer exists (404) is passed over.
AskRow(j) ==
  /\ job[j].at = "ask" /\ ~AskedAll(j) /\ online
  /\ job' = [job EXCEPT
       ![j].pos = @ + 1,
       ![j].seen = IF sim[Asked(j)].status = "DELETED" THEN @
                   ELSE @ \union {[sim |-> Asked(j), row |-> sim[Asked(j)]]}]
  /\ Tables /\ Files

\* Every entry was asked about, or the connection is lost.
AskEnds(j) ==
  /\ job[j].at = "ask" /\ (AskedAll(j) \/ ~online)
  /\ Goes(j, "rewrite")
  /\ Tables /\ Files

\* Mutant of WriteReconciled: the list is written only if a card goes.
WriteIfRemoved(j) ==
  /\ job[j].at = "rewrite"
  /\ list' = IF \E f \in job[j].seen : ShouldRemove(f.row)
             THEN Reconciled(job[j].copy, job[j].seen) ELSE list
  /\ job' = [job EXCEPT ![j] = NoJob]
  /\ Tables /\ UNCHANGED <<queued, online>>

\* Nothing is written if nothing was answered.
WriteReconciled(j) ==
  /\ job[j].at = "rewrite"
  /\ list' = IF job[j].seen = {} THEN list ELSE Reconciled(job[j].copy, job[j].seen)
  /\ job' = [job EXCEPT ![j] = NoJob]
  /\ Tables /\ UNCHANGED <<queued, online>>

-----------------------------------------------------------------------------
\* What a job does once it has begun.
JobStep(j) ==
  \/ ScanAnswered(j) \/ ScanFails(j)
  \/ ClaimRead(j) \/ ClaimAnswered(j) \/ ClaimIsRefused(j) \/ ClaimWritten(j)
  \/ ClaimUnsent(j) \/ Enqueue(j)
  \/ ReadList(j) \/ WriteList(j)
  \/ \E s \in Sims : SendRead(j, s) \/ SendAnswered(j, s)
  \/ SendWritten(j) \/ SendIsRefused(j) \/ SendEnds(j)
  \/ ReadForReconcile(j) \/ AskRow(j) \/ AskEnds(j) \/ WriteReconciled(j)

UserStep(j) ==
  \/ \E s \in Sims :
       \/ \E then \in {"stop", "refresh"} : StartScan(j, s, then)
       \/ StartClaim(j, s)
       \/ StartRemove(j, s)
  \/ ClearList(j)
  \/ StartReconcile(j)

InventoryNext ==
  \/ \E j \in Jobs : JobStep(j) \/ UserStep(j)
  \/ GoOffline
  \/ GoOnline
  \/ \E r \in SimRequests \ Jobs : SimRequestNext(r) /\ UNCHANGED phone

\* A job that has begun goes on: the JavaScript loop runs every continuation, and
\* every request ends with an answer or an error.  What the user or the others do
\* is never owed.
InventoryFairness == \A j \in Jobs : WF_inventoryVars(JobStep(j))

InventorySpec == InventoryInit /\ [][InventoryNext]_inventoryVars /\ InventoryFairness

-----------------------------------------------------------------------------
(* Properties. *)

\* The entries a reconciliation looks at show the rows there are.
Agrees ==
  \A i \in DOMAIN list :
    /\ i <= MaxItems
    /\ sim[list[i].sim].status # "DELETED"
    => list[i].row = sim[list[i].sim]

\* On a phone that stays connected, once the SIM rows stop changing, a list that
\* is reconciled again and again is right again and again, however scans, claims
\* and several reconciliations overwrite each other's lists.
ListCatchesUp ==
  (<>[]online /\ <>[][FALSE]_sim /\ []<>(\E j \in Jobs : job[j].at = "read")) => []<>Agrees
=============================================================================

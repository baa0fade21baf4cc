# SIM Tracker: TLA+ models and proofs

SIM Tracker keeps track of SIM cards and electricity meters: which SIM is in which
meter, who carries the spare ones, which work orders are open, and what was
installed when. A NestJS backend (`src/backend`) works on PostgreSQL through
Prisma; office staff use a React frontend (`src/frontend`), technicians an Expo app
(`src/mobile`) that queues its requests while there is no connection.

The database runs at its default isolation (READ COMMITTED). Every awaited Prisma
call outside a `$transaction` is one atomic step, a `$transaction` is one atomic
step, and whatever a handler read in an earlier step may be stale when it writes.
Most handlers read, check, and write by id without asking again. That gap is what
these models are about.

Paths below are relative to `src/backend/src/modules` unless they start otherwise.

## 1. The system's parts

| part | state | operations | correct when |
|---|---|---|---|
| SIM and meter tables (`prisma/schema.prisma`) | `sim_cards`: status, assignee; `meters`: unique `simCardId`, `simCardState`, `status`, two task locks | written by all parts below | no SIM in two meters; `simCardState` says whether the link is set; a SIM is INSTALLED exactly when it is in a meter |
| SIM cards (`sim-cards`) | the above | create, claim, assign, unassign, remove, update | handed out, a SIM has an owner, and back in store it has none; nobody loses a SIM to somebody else's claim |
| Demount tasks (`demount-tasks`) | `demount_tasks`, `meters.hasOpenDemountTask` | create, updateStatus, cancel, reassign, complete (replace, remove, full demount) | one open task per meter; the lock is set only with an open task; closed is closed; a meter's SIM changes only with a completion |
| Install tasks (`install-tasks`) | `install_tasks`, `meters.hasOpenInstallTask` | create, updateStatus, cancel, reassign, complete (claim, location, record, task, lock) | as above; a completed task has its record and its SIM |
| Installation records (`installation-records`) | `installation_records`: unique number, unique `clientRequestId` | create in seven database steps, update | one record per key however often it is sent; a repeated request gets the record it made |
| Record numbers (`common/utils/record-number.generator.ts`) | none of its own | generate | never twice the same, never stuck |
| Record status and mail (`installation-records`, `mail`) | record status; the mail switches in the settings | create's background mail, retry, activation, removal | the transition table of `StatusTransitionGuard`; SENT only after a mail; no record stays a draft |
| Meters (`meters`) | `meters` | create (with a SIM: two service calls), update, deleteWithConfirm with its three ways to treat the SIM and two to treat the records | the same invariants of the two tables; a deleted meter leaves no SIM installed nowhere |
| Shipments (`shipments`) | `shipments`: status, total; `sim_cards.shipmentId` | create, importExcel, remove (three database steps each), a single card by hand (two) | no card outlives its shipment; a removed shipment takes no SIM out of a meter or off a record |
| Push campaigns (`push-campaigns`, `push-tokens`) | `push_campaigns`, `push_deliveries`, `push_tokens`, `notifications`; what the push service made of each message | create, sendCampaign (one long handler without a transaction), pollReceiptsOnce on a timer, register and sign out a device | once per device; a delivery says what the push service said; the final status is true; every accepted message learns its fate |
| SIM list of the phone (`src/mobile/src/offline`: `offline-cache.ts`, `sim-inventory-reconcile.ts`) | one JSON file of SIM rows, beside the queue | scan, claim with and without a connection, remove, clear, reconcile | the list catches up with the backend |
| Mobile outbox (`src/mobile/src/offline/outbox.ts`) | one JSON file per user; calls of `syncOutbox` in memory | enqueue, synchronise, clear | nothing saved is lost; order kept; what is saved is answered in the end |
| Settings, templates, sessions | settings rows, template cache, hash of the refresh token | switches, tour state; compile; refresh | only the switches are modelled, where they are read (section 7) |
| Users, branches, distributions, moderators, recipients, meter types, notifications, analytics, releases, files, PDF, screens, deployment | master data, files | one query each, or reading only | left out (section 7) |

How they meet. The mobile outbox calls the records and task endpoints and may repeat
a call whose answer it never saw, or that `TimeoutInterceptor` answered with 408
after 15 s while the handler went on. `InstallTasks.complete` calls
`SimCards.claim` and `InstallationRecords.create`; so does `Meters.create` with the
latter. `create` leaves the mail running after its answer. The phone's SIM list calls
`sim-cards/scan`, which only reads, and `SimCards.claim`. Field operations and shipments meet only in the rows
of `meters`, `sim_cards` and, through foreign keys, `installation_records`; campaigns
share nothing with them but the settings.

What is hard: handlers interleave at every await; a backend stopped between two
awaits leaves half of a multi-step operation; foreign keys are ON DELETE SET NULL,
so removing a SIM writes other tables; the outbox and the SIM list write back a whole
file read earlier; mails and push messages are taken although their answer is lost; a
timer starts a poll while the one before is at work. `PROJECT.json` lists these
hazards at their lines.

## 2. The modules

| module | models | how it corresponds to the code |
|---|---|---|
| `Registry` | the two tables | `meter`, `sim` are the rows, restricted to the columns handlers branch on; `LinkAllowed` is the unique index with the foreign key; status DELETED means that there is no row |
| `DemountTasks` | `demount-tasks.service.ts` | `Read…` actions are a handler up to its first write, `Write…`/`Commit…` the write; between them the request waits in `demountReq` with what it read. `CheckReplacement` is the query of its own before the transaction. `create` takes its lock with a conditional `updateMany` in a transaction and is one step |
| `WorkOrder` | abstract specification | tasks and links only: opened, moved, cancelled, completed once, and a link changes only with the completion |
| `InstallOrder` | abstract specification | tasks, links and records, with no requests and locks: opened, moved, cancelled, a SIM put in, a record written of what is so, completed once with a record no other task has |
| `SimCards` | `sim-cards.service.ts` | claim, assign, unassign, remove as read and later unconditional write |
| `InstallationRecords` | `create`, `update` and the number generator | one action per database step, `installReq[r].at` names the next one; the errors that leave what was written are `RefuseSim` and `RecordRefused`. `EditRecord` is the PATCH, whose body may name another key, meter and SIM and is written as it is |
| `InstallTasks` | `install-tasks.service.ts` | extends the previous module; `complete` walks claim, location, the steps of `create`, task, lock |
| `MeterAdmin` | `meters.service.ts`, `meters.controller.ts` | a meter entered with a SIM takes a request slot of `InstallTasks` and walks the steps of `create`; `update` and `deleteWithConfirm` are read, check and write; a deleted meter is `fresh` again, its tasks go with it (ON DELETE CASCADE) |
| `Shipments` | `shipments.service.ts`, create and update of `sim-cards.service.ts` | an import is find, insert, finish; a card by hand is find the shipment, insert with the status of the request; `EditSimCard` is the administrator's PATCH, which writes status and shipment and asks neither meter nor owner; a removal is read, look for uses, delete; `Unlinked` and `Detached` are the foreign keys ON DELETE SET NULL |
| `FieldWork` | all of these on the same rows | composes the modules above; `NoInterference` says what a quiet day looks like |
| `RecordEmail` | mail and record status | a mail is prepare, mail, write; the server takes it, refuses it, or takes it and its answer is lost (`lost` remembers that); mail switched off counts as success, as in `sendMail` |
| `PushTokens` | `push-tokens.service.ts` | register is one write whatever its query found; signing out is a query and an update by id; `overtaken` remembers the sign-outs in flight whose device somebody else has registered since their query |
| `PushCampaigns` | `push-campaigns.service.ts` | `send[r].at` names the next step of `sendCampaign`, from the settings to the final status; tickets reach rows by position, as in the code; `expo` is what the push service made of each message; a poll reads the newest `PollMax` rows, fetches, writes row by row |
| `SimInventory` | `offline-cache.ts`, `sim-inventory-reconcile.ts`, `api/sim-cards.api.ts` | a job reads the file and writes it some steps later; the rows of other people's requests come from `SimCards` |
| `Outbox` | `outbox.ts` | each `updateItem`/`removeItem` is `ReadForUpdate` and a later `WriteUpdate` of the whole file; the backend carries out, refuses, times out or is not reached |
| `MCDemount`, `MCInstall`, `MCField`, `MCCampaigns` | instances | outcomes and deletions written out, symmetry sets |
| `DemountTasks_proofs`, `SimCards_proofs`, `InstallTasks_proofs`, `RecordEmail_proofs`, `Outbox_proofs`, `PushCampaigns_proofs`, `FieldWork_proofs`, `SimInventory_proofs` | proofs | section 6 |

Abstractions. Roles, scopes and form validation only narrow who may call and are
left out; what remains of them is that a task has an assignee. Texts, photos, GPS
and dynamic fields are payload. A demount task's outcome is fixed when it is created
because `complete` refuses a body that differs from it (`demount-tasks.service.ts`,
the checks after line 411). A record number is a number, not five digits.
A SIM id of `NewSims` stands for the row a card of a file still to be imported will get.
`InstallCrash`, `DemountCrash`, `SimCrash`, `EmailAbandoned`, `ShipmentFails`,
`MeterLinkFails`, `DeletionFails`, `SendStops`, `PollFails` and `AppClosed` stand for a
process that stops, or a failed call, between two steps.

Operators called "Mutant of …" are wrong variants of the definition that follows
them. They are used nowhere; substituting one must break a property, which shows
that the property depends on that piece of code.

## 3. Ways of working

Under all interleavings several statements the code makes about itself fail
(section 5). The passing runs therefore check some properties in every interleaving
and others under a named assumption. The code enforces none of these assumptions:

- `OneRequestPerMeter` (`SerialDemountSpec`): requests about one meter follow one
  another; requests about different meters still compete for the same SIMs.
- `NoInterference` (`FieldSpec` with `Orderly`) and `InstallsApart` (`CalmInstallSpec`):
  no two requests in flight share a meter or a SIM, in `FieldSpec` nor a shipment (the
  removal of a SIM is about its shipment too). In `CalmInstallSpec` no request is cut
  short either; in `FieldSpec` any may be. Deletions of meters are part of `Orderly`
  runs only: the modules do not say what a request does with a row it read whose meter
  is gone since. Of the deletions, LEAVE_AS_IS leaves a SIM INSTALLED without a meter on
  purpose and is no part of a run that checks the agreement (`ReturnOrDelete`). PATCH of a
  SIM, of a meter's SIM and of a record write what they are sent without looking at the
  other tables; the first two are in `OverrideSpec`, the last in `InstallSpec`, and none is
  in `FieldSpec` or `CalmInstallSpec`, where any of them would break the agreement. A card
  posted with status INSTALLED would as well: `PostedStatus` is AVAILABLE and ASSIGNED in
  `field_serial`.
- `SimSpec` and `InventorySpec`: SIMs are handed out, taken back and removed. POST
  (`sim-cards.service.ts:98`) and PATCH (`:205`) write a status without an owner to go with
  it, so one POST with ASSIGNED breaks `StockHasOwner`; they are left out where that is
  stated.
- `CampaignsApart` (`ApartCampaignSpec`): one request at a time sends a campaign.
  Requests may stop anywhere, their campaigns may be sent again, polls overlap them and
  each other, and devices change hands at any time.
- `CalmEmailSpec`: a record is left alone while somebody mails or activates it, and no
  request stops half way; the mail server may refuse a mail, and its answer may be lost.
- `ApartSpec`: the user adds and clears while no synchronisation runs;
  synchronisations may overlap and the app may be closed anywhere. `AloneSpec`: one
  synchronisation at a time, to its end.

## 4. The runs that pass

| run | specification | what it shows | bounds |
|---|---|---|---|
| `demount_serial` | `SerialDemountSpec` | refinement of `WorkOrder`, SIM/meter agreement, types | 2 meters, 2 SIMs, 2 tasks, 2 requests, 1 operator, the four kinds of outcome |
| `install_race` | `InstallSpec` | types, one record per key, no number twice, with every step interleaved and cut short and records edited in between | 1 meter, 1 SIM, 1 task, 1 outbox key, 2 requests, record numbers up to 2 |
| `install_calm` | `CalmInstallSpec` | the untransacted steps of `complete` and `cancel` add up: lock, agreement, refinement of `InstallOrder` | 2 meters, 2 SIMs, 2 tasks, 2 requests, numbers up to 2 |
| `field_serial` | `FieldSpec`, `Orderly` | demount tasks, records, SIM hand-out, shipments, meters entered and deleted: the two tables agree, a locked meter keeps its SIM, a removed shipment takes no used SIM with it | 2 meters, 2 SIMs (one not imported yet), 2 operators, 1 shipment, 1 demount task, 1 request of each kind, 1 record |
| `field_race` | `OverrideSpec`, not `Orderly` | the unique index and the demount lock hold, and no card outlives its shipment, against every interleaving with imports, new cards, removals of the shipment and direct edits of both tables | 2 meters, 2 SIMs (one not imported yet), 1 shipment, 1 demount task, 1 demount request, 2 imports, new cards or removals, 1 edit of a meter in flight; administrators set ACTIVE, AVAILABLE and DEACTIVATED by hand |
| `email_calm` | `CalmEmailSpec` | no false SENT, mailed twice only after a lost answer, transition table, no record stays a draft | 2 records, 2 requests, mails counted up to "more than one" |
| `outbox_alone` | `AloneSpec` | nothing lost, order kept, everything answered that is not crowded out by refused items | 3 items, one of which the backend accepts again, calls of at most 2 items |
| `phone` | `InventorySpec` | the list catches up however jobs overwrite each other; status and owner of a SIM fit, with claims sent at once, late or twice | 1 SIM, 2 operators, 2 jobs of the phone, 1 request of somebody else, 1 entry per reconciliation |
| `campaigns` | `ApartCampaignSpec` | deliveries say what the push service said and never go back; once per device; final status true; who may take a device out of use | 1 campaign, 3 tokens (one malformed, one of a device that changes hands), 2 users, 2 senders, 2 polls, 1 message per call, 1 row per poll |
| `receipts` | `FairCampaignSpec` | a campaign does not stay SENDING while its request is at work; every accepted message learns its fate though a poll sees one row | as above with 1 user, 1 poll, devices that keep their user |

Every run begins with every stock the bounds allow: meters with and without a SIM, on
site or taken from it, SIMs in store or with an operator (`Stock`).

Why the bounds suffice. The errors these models exist to find need two actors on one
row and one row to compete for: two requests, two SIMs (the old and the new one),
and a second meter for the unique index. A second task id is what creating a task after
another needs, a third one what `demount_double` needs (one task cancelled twice, one whose
lock goes, one that is admitted after it), and a second record number is what two inserts
need. Three items are one more than a call of the outbox tries, so that refused ones can
stand in the way of a younger one. `field_race` has one shipment; a card moved to another
one is left to the theorem `CardsHaveShipmentHolds`, as are hand-out and removal of single
SIMs beside the edits. Chunks of one
message and polls of one row are the case in which positions and the newest-first order
matter at all; two well-formed tokens and a malformed one are what can be mixed up.
`field_serial` has the record steps of `create` (for a new meter with its SIM, and for a
meter of its own) but no install task, which `install_race` and `install_calm` have: with
an install task as well the run fits only in smaller variants: one meter and both
deletions, or two meters and a swap as the only outcome. These were checked and hold, as does `phone` with two SIMs and one job, and with two SIMs
and two jobs but nobody else. Record
numbers, ids and campaigns run out; then nothing more happens, hence
`CHECK_DEADLOCK FALSE` in those configurations. The mail count is capped because only "more than once" matters.
Symmetry is used only in runs without liveness properties.

Fairness. `CalmEmailSpec`: weak fairness of each mail's own steps, since nothing but a
stopped process keeps an awaiting function from going on. `OutboxFairness`: weak
fairness of a call's own steps for the same reason; strong fairness of starting a
synchronisation, which happens whenever the records screen is opened or the
connection returns; strong fairness of an answer, that is, the connection does not
fail every time it is some item's turn. `CampaignFairness`: weak fairness of a
handler's and a poll's own steps and of the timer that starts polls (`setInterval`); of
the push service and the network that a call tried again and again succeeds some time
(strong fairness of the fetch and of the write to one device's row), and that a ticket
gets its receipt. `InventoryFairness`: weak fairness of a job's own steps; that the phone
stays connected, that the SIM rows stop changing and that reconciliations begin again
and again are premises of `ListCatchesUp`, not assumptions of the run. No fairness is
assumed of users who create, clear, cancel, retry or sign in.

## 5. The runs that find the code at odds with itself

| run | what happens | what the code says |
|---|---|---|
| `demount_double` | cancel accepts a task that is already cancelled and clears the lock of a newer one, so `create` admits a second open task; requests about the meter follow one another (`SerialDemountSpec`), so nothing else is to blame: with a cancel that refuses CANCELLED (`demount-tasks.service.ts:261`) the run finds nothing | "Za ovo brojilo već postoji aktivan nalog za demontažu." |
| `outbox_stuck` | the app is closed while an item is SENDING; no later synchronisation takes it | "Zapisnik će biti automatski poslan kada se veza uspostavi." |

Further interleavings the models contain and that are not given a run of their own:
`updateStatus` or `reassign` of a task read before it was cancelled, which write it open
again (`demount-tasks.service.ts:215`, `:339`); as many refused items as a call of the
outbox tries (`outbox.ts:186-189`), which are tried first every time, so that no younger item
is ever sent: TLC finds it in `outbox_alone` when `Crowded` is taken out of
`EventuallyAnswered`; a repeated request that passes the key lookup while the first is at work and is
told that its SIM, installed by the first, is not available; a backend stopped between
closing an install task and clearing the lock, after which the meter refuses every
further task; two claims of one SIM (the second takes it from the first); a replacement SIM claimed
by somebody else between the check and the transaction of a demount; cancelling a
cancelled install task; a SIM deleted while it is being installed (the meter says
INSTALLED without a SIM); PATCH of a meter's SIM, which does not tell the SIM; a card posted or patched to a
status its owner and its meter do not fit; PATCH of a record while an install task or the
removal of a shipment relies on its SIM or meter; two
overlapping retries, which write a status the transition table forbids; a PDF that
cannot be made, which leaves a draft nobody can send; mail switched off, which still
ends in SENT; two requests that both read a campaign as DRAFT and send it twice; a backend
stopped while a campaign is SENDING, which no later request takes up; a device registered
by its new user while the old one is signing out, which is then out of use (`overtaken`); a
record mailed again because the answer to its mail was lost; a scan or claim whose entry in
the phone's list a reconciliation writes over; a number of cards counted by an import while
another inserts (`totalCards`, not modelled); an item added while a synchronisation is between reading and writing the
file, which is lost.

## 6. What is proved

TLC checks the instances above; the following hold for every value of the constants.
The constants' assumptions are `NoneAssumption`, `NewSimsAssumption`, `OutcomesAssumption`,
`DemountNoneAssumption`, `InstallAssumption`, `AdminAssumption`, `ShipmentAssumption`,
`FieldAssumption`, `OutboxAssumption`, `TokenAssumption`, `CampaignAssumption` and
`InventoryAssumption`: NULL is no row, the phone's operator is an operator, outcomes and
kinds of deletion are those the code knows, the bounds are numbers, and meters are deleted
only where requests keep apart. Where something is counted (tokens of
a campaign) the set is finite, as a table is; no other set needs to be.

| theorem | statement | argument |
|---|---|---|
| `DemountTypeCorrect`, `DemountLockAlwaysHasTask`, `DemountOneMeterPerSim` | `DemountSpec` implies types, lock and unique index in every interleaving | `DemountInv`: a request in flight carries the meter of the task it read, and a task's meter never changes. So whoever closes a task releases the lock of that very meter, and a task closed by somebody else is reopened, never forgotten with the lock set |
| `SerialSimMeterAgreement` | `SerialDemountSpec` implies that a SIM is INSTALLED exactly when it is in a meter | `SerialInv` adds that a request's task, meter and SIM are still as it read them, which is what one request per meter buys; the new SIM alone may have moved, and there the unique index and the check decide |
| `SerialImplementsWorkOrder` | `SerialDemountSpec` implements `WorkOrder` | each write maps to the abstract step of its task (`MoveStep`, `CompleteStep`), each read, refusal and stop to a stutter |
| `SimStockHasOwner`, `InventoryStockHasOwner` | `SimSpec` and, with the claims of a phone, `InventorySpec` keep status and owner together in every interleaving | writes overtake each other, but each of claim, assign, unassign and remove sets both columns; the claims a phone repeats are such requests |
| `InstallTypesHold`, `OneRecordPerKeyHolds`, `RecordNumbersUniqueHolds` | `InstallSpec`: in every interleaving, with requests cut short anywhere and records edited at any time, rows keep their types, a key has one record and a number one | `InstallInv` (theorem `InstallInvariant`): a request for a task carries the meter of that task; a record enters by the unique indexes only, a link by the unique index. The greatest record number exists because numbers are well-founded |
| `InstallAgreement`, `InstallLockReleased`, `CompletedInstalled` | `CalmInstallSpec`: SIM and meter agree, the lock is set only with an open task, a task is completed with its record and its SIM in the meter | `CalmInv`: what a request read of its meter, SIM, task and record is still so, because requests keep apart and each step touches only rows of its own; each step of `complete` hands the next what it needs |
| `CalmImplementsInstallOrder` | `CalmInstallSpec` implements `InstallOrder` | `PromiseInv` adds to `CalmInv` that a task stands in the status its request has read (IN_PROGRESS from the first query of `complete` to its last write) and that the number a request brings to its task is in no other task and in no other request (`OwnPaper`): the insert is refused unless the number is in no record, and every task's record is there. The link is `PutIn`, the insert `Write`, the last write `Complete`; a cancel or a hand-over that changes nothing, the claim, the lock and every read stutter. Checked with TLC on `install_calm` first. `CompletedInstalled` says in the tables' own columns what `Complete` does |
| `FieldTypesHold`, `NoSimInTwoMeters`, `FieldLockHasTask`, `CardsHaveShipmentHolds` | `OverrideSpec`: with all modules on the same rows and the administrator editing them, types, unique index and demount lock hold and no card outlives its shipment, in every interleaving | `FieldInv` (theorem `FieldInvariant`) puts the invariants of the modules side by side. A step keeps the one of its own module by the lemmas proved there, and the others because it leaves the columns they rest on. Only the deletion of a meter takes rows away from under requests; there, and nowhere else, requests have to keep apart |
| `OrderlyStateMatchesLink`, `OrderlySimMeterAgreement`, `OrderlyLockedMeterHasSim`, `OrderlyRemovalSparesUsed` | `FieldSpec` under `OrderlyWork`, that is, `Orderly`, no deletion with LEAVE_AS_IS and no card posted as INSTALLED: the two tables agree, a locked meter has its SIM, a removed shipment takes no used SIM along | `OrderlyInv` (theorem `OrderlyInvariant`) adds to `FieldInv` what each request in flight still knows: of its meter, of its SIMs, of its shipment's cards. Every step writes only rows its own request is about, and new rows (`Frame`), so by `NoInterference` it leaves the knowledge of all others alone. Checked with TLC in the instance of `field_serial` before it was proved |
| `CampaignPushedOnce` | `ApartCampaignSpec`: no device gets a campaign twice, whatever stops and whoever tries again | `PushInv`: a campaign leaves DRAFT before its first message and a request that has marked it is the only one to have sent of it; requests that have not marked it yet still find it DRAFT, since they keep apart |
| `CampaignTypes`, `CampaignDeliveriesTrue`, `CampaignStatusFits`, `CampaignDeliveriesMove`, `CampaignInUse` | `ApartCampaignSpec`: a delivery row says what the push service said and never goes back, the final status is true of the messages, a device in use stays so until its user leaves, the service refuses it or it is registered during the sign-out of its last user, however polls overlap each other and the sender | `CampaignInv` (theorem `CampaignInvariant`): a request knows how far down its list of messages it has come and which ticket belongs to which row; a row knows by its ticket which receipts to believe, so that a receipt read some time ago is still the last word on that row's ticket; a sign-out in flight is about the user the device has, or is overtaken |
| `EmailTypeCorrect`, `EmailNoFalseSent` | `EmailSpec`: no false SENT however mails, retries, activations and removals overlap or stop | `EmailInv`: a request about to write SENT knows that the record is settled, and what is settled stays so |
| `CalmMailedOnce`, `CalmLegalTransitions` | the safety part of `CalmEmailSpec`: mailed twice only after a lost answer, along the transition table | `CalmInv`: what a request read of its record is still so when it writes, because nobody else is at work on it |
| `OutboxTypes` | `OutboxSpec`: the file and every copy of it keep their types, whatever the user does | `OutboxShape`: an item is saved once, and a call at work has something left to try |
| `OutboxInOrder` | the safety part of `AloneSpec`: items are carried out in the order they were saved in, but for those refused, for any number of items and any `maxItems` | `AloneInv`: what the one call holds is the file itself, nothing else is marked SENDING, and what is older than an item it tries is handled, or is tried before it. Checked with TLC on `outbox_alone` first |
| `OutboxNothingLost` | `ApartSpec`: nothing saved is lost with any number of overlapping synchronisations | `OutboxInv`: every copy of the file anybody holds has all that is saved and neither carried out nor thrown away |
| `PhoneTypes` | `InventorySpec`: no card is in the phone's list twice, in any copy of it | `InventoryInv` (theorem `InventoryInvariant`): the file, and every list a job has read or is about to write, is made of the backend's rows, one for a card. What the filters leave of a list (`KeptLists`) rests on numbers below a bound being put in order in one way, by the least bound for which they could not |

The properties alone are not inductive: a write's effect depends on what its request
read some steps ago, so each invariant states what requests in flight still know.

`Candidates` of the outbox and `Kept` of the phone's list say which items a filter leaves
and in which order, instead of calling `SelectSeq`, which is recursive and which the
prover cannot unfold; `SelectSeq` and `Kept` were compared with TLC on all lists of up to
four entries.

With this every safety and action property the passing runs check is also a theorem. Left
to TLC is liveness (`LeavesDraft`, `EventuallyAnswered`, `SendingEnds`, `ReceiptsArrive`,
`ListCatchesUp`): it needs ENABLED, which the prover does not handle, and stays with TLC
for good. A theorem about one of the specifications of section 3 holds under the way of
working named there and claims nothing beyond it: section 5 lists interleavings that break
such properties.

## 7. Not modelled, and why

`PROJECT.json` lists every part. Most lines of the repository are screens, forms,
translations and print layouts of the two front ends; they hold no state that another
actor sees, and whatever they change goes through the handlers above. Master data
(users, branches, distributions, moderators, recipients, meter types) is one query per
operation with uniqueness left to the database; in-app notifications beyond a campaign's
and the activity log are written once and never branched on; analytics and the dashboard
only read; `shipments.totalCards`, which create, update and the import write, is only shown;
releases, photos, files and PDF are input and output; deployment scripts run
once, by hand. The template cache changes only the wording of a mail, the tour state only
which hints are shown. Sessions: the hash of a refresh token is read by nothing but the
next refresh; two refreshes at once cost the loser a sign-in. The remaining mobile caches
(tasks, meters, photos) are overwritten whole by the next answer and read by nothing that
writes. Record numbers are numbers here and not five digits, so the string order beyond
99999 is not seen. How much of a file a phone has written when it dies is up to the platform.

## 8. Plan

Done: the two tables, SIM cards, demount tasks with `WorkOrder`, records, install tasks
with `InstallOrder`, mail, outbox; meters, shipments and their composition with the field
operations; push tokens and campaigns; the phone's SIM list; proofs of all of these, of the
composition and of both refinements.

Left, in this order:

1. `RecordNumber`: five digits and string order against plain arithmetic.
2. `Sessions`: refresh rotation with several tabs; the template cache next to edits of
   templates.

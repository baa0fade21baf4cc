------------------------- MODULE InstallationRecords -------------------------
(***************************************************************************)
(* Putting a SIM into a meter and writing the record of it                 *)
(* (create in backend/src/modules/installation-records/                    *)
(* installation-records.service.ts, numbers from                           *)
(* common/utils/record-number.generator.ts).                               *)
(*                                                                         *)
(* create is seven database steps: look the idempotency key up, create the *)
(* meter if it is new, read the SIM, read the meter, link the two in a     *)
(* transaction, take the next record number, insert the record.  Only the  *)
(* link is atomic; a request that dies after it leaves an installed SIM    *)
(* with no record.  InstallTasks.complete runs the same steps for a task.  *)
(***************************************************************************)
EXTENDS SimCards

CONSTANTS Keys,             \* clientRequestId values of the mobile outbox
          InstallIds,       \* install tasks (module InstallTasks)
          InstallRequests,  \* slots for installation requests in flight
          MaxRecords        \* bound on record numbers

ASSUME InstallAssumption ==
  /\ MaxRecords \in Nat
  /\ None \notin Keys \union InstallIds

VARIABLES fresh,            \* meters that have no row yet
          form,             \* what each outbox item submits: [Keys -> Form]
          records,          \* table installation_records: SUBSET Record
          installReq        \* requests in flight: [InstallRequests -> InstallRequest]

recordVars == <<registryVars, simReq, fresh, form, records, installReq>>

Form == [meter : Meters, sim : Sims, user : Users, new : BOOLEAN]

Record == [num : 1 .. MaxRecords, key : Keys \union {None},
           meter : Meters, sim : Sims \union {None}]

\* at: the next database step.  The first line are the steps of create, the
\* second those of InstallTasks.
InstallRequest == [at : {"idle", "row", "sim", "meter", "link", "number", "record",
                         "start", "return", "recheck", "relock", "cancel", "unlock",
                         "reassign", "claimRead", "claim", "location", "complete"},
                   task : InstallIds \union {None},
                   key : Keys \union {None},
                   meter : Meters \union {None},
                   sim : Sims \union {None},
                   user : Users \union {None},
                   old : Sims \union {None},        \* meter.simCardId when read
                   offSite : BOOLEAN,               \* isDemountedFromLocation when read
                   num : 0 .. MaxRecords]           \* record number taken

IdleInstall == [at |-> "idle", task |-> None, key |-> None, meter |-> None,
                sim |-> None, user |-> None, old |-> None, offSite |-> FALSE, num |-> 0]

RecordTypeOK ==
  /\ SimTypeOK
  /\ fresh \subseteq Meters
  /\ form \in [Keys -> Form]
  /\ records \subseteq Record
  /\ installReq \in [InstallRequests -> InstallRequest]

\* An outbox item names either a meter of the list or a meter to be created;
\* two items do not create the same meter.
RecordInit ==
  /\ SimInit
  /\ fresh \in SUBSET {m \in Meters : meter[m].sim = None /\ ~meter[m].offSite}
  /\ form \in [Keys -> Form]
  /\ \A k \in Keys : form[k].new <=> form[k].meter \in fresh
  /\ records = {}
  /\ installReq = [r \in InstallRequests |-> IdleInstall]

-----------------------------------------------------------------------------
LastNumber == IF records = {} THEN 0
              ELSE CHOOSE n \in {rec.num : rec \in records} :
                     \A rec \in records : rec.num <= n

\* Request r goes on to its next step.
GoTo(r, at) == installReq' = [installReq EXCEPT ![r].at = at]
InstallDone(r) == installReq' = [installReq EXCEPT ![r] = IdleInstall]

\* create, first query: an item whose key has a record is answered with that
\* record (no step).  A meter that should be new must not exist, any other must.
SubmitItem(r, k) ==
  /\ installReq[r].at = "idle"
  /\ \A rec \in records : rec.key # k
  /\ form[k].new <=> form[k].meter \in fresh
  /\ installReq' = [installReq EXCEPT ![r] =
       [IdleInstall EXCEPT !.at = IF form[k].new THEN "row" ELSE "sim",
                           !.key = k, !.meter = form[k].meter,
                           !.sim = form[k].sim, !.user = form[k].user]]
  /\ UNCHANGED <<registryVars, simReq, fresh, form, records>>

\* The same from the web form: no key.
SubmitForm(r, m, s, u) ==
  /\ installReq[r].at = "idle"
  /\ m \notin fresh
  /\ installReq' = [installReq EXCEPT ![r] =
       [IdleInstall EXCEPT !.at = "sim", !.meter = m, !.sim = s, !.user = u]]
  /\ UNCHANGED <<registryVars, simReq, fresh, form, records>>

\* meter.create: the row gets the column defaults (ACTIVE, NO_SIM).
CreateMeterRow(r) ==
  /\ installReq[r].at = "row"
  /\ installReq[r].meter \in fresh
  /\ fresh' = fresh \ {installReq[r].meter}
  /\ GoTo(r, "sim")
  /\ UNCHANGED <<registryVars, simReq, form, records>>

ReadSim(r) ==
  /\ installReq[r].at = "sim"
  /\ UsableBy(installReq[r].sim, installReq[r].user)
  /\ GoTo(r, "meter")
  /\ UNCHANGED <<registryVars, simReq, fresh, form, records>>

\* 'SIM kartica nije dostupna za ugradnju.'
RefuseSim(r) ==
  /\ installReq[r].at = "sim"
  /\ ~UsableBy(installReq[r].sim, installReq[r].user)
  /\ InstallDone(r)
  /\ UNCHANGED <<registryVars, simReq, fresh, form, records>>

ReadMeter(r) ==
  LET m == installReq[r].meter IN
  /\ installReq[r].at = "meter"
  /\ meter[m].status = "ACTIVE"
  /\ installReq' = [installReq EXCEPT ![r].at = "link", ![r].old = meter[m].sim]
  /\ UNCHANGED <<registryVars, simReq, fresh, form, records>>

\* The transaction: the meter gets the SIM, the SIM the meter read before, if
\* any, becomes DEMOUNTED.  Assignees stay.
InstallAllowed(q) ==
  /\ LinkAllowed(q.meter, q.sim)
  /\ q.old # None => sim[q.old].status # "DELETED"

\* Mutant of MetersAfterLink: simCardState is not written.
MetersAfterLinkOnly(q) == [meter EXCEPT ![q.meter].sim = q.sim]

MetersAfterLink(q) ==
  [meter EXCEPT ![q.meter].sim = q.sim, ![q.meter].state = "INSTALLED"]

\* Mutant of SimsAfterLink: the SIM that was in the meter is not written.
SimsAfterLinkOnly(q) == [sim EXCEPT ![q.sim].status = "INSTALLED"]

SimsAfterLink(q) ==
  [s \in Sims |->
     CASE s = q.sim -> [sim[s] EXCEPT !.status = "INSTALLED"]
       [] s = q.old /\ s # q.sim -> [sim[s] EXCEPT !.status = "DEMOUNTED"]
       [] OTHER -> sim[s]]

LinkSim(r) ==
  LET q == installReq[r] IN
  /\ q.at = "link"
  /\ InstallAllowed(q)
  /\ meter' = MetersAfterLink(q)
  /\ sim' = SimsAfterLink(q)
  /\ GoTo(r, "number")
  /\ UNCHANGED <<simReq, fresh, form, records>>

\* Mutant of TakeNumber: the highest number in use is taken again.
TakeLastNumber(r) ==
  /\ installReq[r].at = "number"
  /\ installReq' = [installReq EXCEPT ![r].at = "record", ![r].num = LastNumber]
  /\ UNCHANGED <<registryVars, simReq, fresh, form, records>>

\* recordNumberGenerator.generate: one more than the highest number in use.
TakeNumber(r) ==
  /\ installReq[r].at = "number"
  /\ LastNumber < MaxRecords
  /\ installReq' = [installReq EXCEPT ![r].at = "record", ![r].num = LastNumber + 1]
  /\ UNCHANGED <<registryVars, simReq, fresh, form, records>>

\* Mutant of InsertAllowed: no unique index on recordNumber.
InsertUncheckedNumber(q) ==
  /\ sim[q.sim].status # "DELETED"
  /\ \A rec \in records : q.key # None => rec.key # q.key

\* Mutant of InsertAllowed: no unique index on clientRequestId.
InsertUncheckedKey(q) ==
  /\ sim[q.sim].status # "DELETED"
  /\ \A rec \in records : rec.num # q.num

\* The insert fails if the SIM has no row any more, or if recordNumber or
\* clientRequestId is already there.
InsertAllowed(q) ==
  /\ sim[q.sim].status # "DELETED"
  /\ \A rec \in records : rec.num # q.num /\ (q.key # None => rec.key # q.key)

InsertRecord(r) ==
  LET q == installReq[r] IN
  /\ q.at = "record"
  /\ InsertAllowed(q)
  /\ records' = records \union
                  {[num |-> q.num, key |-> q.key, meter |-> q.meter, sim |-> q.sim]}
  /\ IF q.task = None THEN InstallDone(r) ELSE GoTo(r, "complete")
  /\ UNCHANGED <<registryVars, simReq, fresh, form>>

\* The other ways create ends with an error.  What it has written stays.
RecordRefused(r) ==
  LET q == installReq[r] IN
  /\ \/ q.at = "row" /\ q.meter \notin fresh
     \/ q.at = "meter" /\ meter[q.meter].status # "ACTIVE"
     \/ q.at = "link" /\ ~InstallAllowed(q)
     \/ q.at = "record" /\ ~InsertAllowed(q)
  /\ InstallDone(r)
  /\ UNCHANGED <<registryVars, simReq, fresh, form, records>>

\* The backend stops between two steps, or a database call fails.
InstallCrash(r) ==
  /\ installReq[r].at # "idle"
  /\ InstallDone(r)
  /\ UNCHANGED <<registryVars, simReq, fresh, form, records>>

\* PATCH /installation-records/:id: the body goes to the row as it is, so key, meter
\* and SIM of a record may be replaced; meters and sim_cards are not looked at.  The
\* row refuses a meter or a SIM that is not there and a key another record has.
EditRecord(rec, key, m, s) ==
  /\ m \notin fresh
  /\ s # None => sim[s].status # "DELETED"
  /\ key # None => \A other \in records \ {rec} : other.key # key
  /\ records' = (records \ {rec})
                 \union {[rec EXCEPT !.key = key, !.meter = m, !.sim = s]}
  /\ UNCHANGED <<registryVars, simReq, fresh, form, installReq>>

RecordStep(r) ==
  \/ CreateMeterRow(r)
  \/ ReadSim(r)
  \/ RefuseSim(r)
  \/ ReadMeter(r)
  \/ LinkSim(r)
  \/ TakeNumber(r)
  \/ InsertRecord(r)
  \/ RecordRefused(r)

SubmitNext ==
  \E r \in InstallRequests :
    \/ \E k \in Keys : SubmitItem(r, k)
    \/ \E m \in Meters, s \in Sims, u \in Users : SubmitForm(r, m, s, u)

RecordNext ==
  \/ SubmitNext
  \/ \E r \in InstallRequests : RecordStep(r) \/ InstallCrash(r)

\* Kept out of RecordNext.
EditNext ==
  \E rec \in records, key \in Keys \union {None}, m \in Meters, s \in Sims \union {None} :
    EditRecord(rec, key, m, s)

-----------------------------------------------------------------------------
(* Properties. *)

\* No two records have the same number ("recordNumber String @unique"), although
\* requests at the same time read the same highest number and each adds one.
RecordNumbersUnique == \A a, b \in records : a.num = b.num => a = b

\* However often an outbox item is sent, and whatever the requests for it do to
\* each other, it gets at most one record.
OneRecordPerKey ==
  \A a, b \in records : a.key = b.key /\ a.key # None => a = b
=============================================================================

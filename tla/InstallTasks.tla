---------------------------- MODULE InstallTasks ----------------------------
(***************************************************************************)
(* Work orders for putting a SIM into a meter                              *)
(* (backend/src/modules/install-tasks/install-tasks.service.ts).           *)
(*                                                                         *)
(* Unlike demount tasks, no handler but create uses a transaction: the     *)
(* task and the meter's hasOpenInstallTask are written in separate steps,  *)
(* and complete claims the SIM, writes the meter, runs all of              *)
(* InstallationRecords.create, closes the task and releases the lock one   *)
(* database step after the other.                                          *)
(***************************************************************************)
EXTENDS InstallationRecords

VARIABLE installTask        \* table install_tasks: [InstallIds -> InstallTask]

installVars == <<recordVars, installTask>>

OpenInstall == {"PENDING", "IN_PROGRESS"}

InstallTask == [status : OpenInstall \union {"NONE", "COMPLETED", "CANCELLED"},
                meter : Meters \union {None},
                by : Users \union {None},           \* assignedToId
                record : 0 .. MaxRecords]           \* installationRecordId, 0 for NULL

InstallTypeOK ==
  /\ RecordTypeOK
  /\ installTask \in [InstallIds -> InstallTask]

InstallInit ==
  /\ RecordInit
  /\ installTask = [t \in InstallIds |->
                      [status |-> "NONE", meter |-> None, by |-> None, record |-> 0]]

-----------------------------------------------------------------------------
\* What an action on tasks and requests alone leaves as it is.
TablesUnchanged == UNCHANGED <<registryVars, simReq, fresh, form, records>>

\* create: one step, as for demount tasks.
CreateInstall(t, m, u) ==
  /\ installTask[t].status = "NONE"
  /\ m \notin fresh
  /\ ~meter[m].openInstall
  /\ meter[m].state = "NO_SIM"
  /\ meter[m].sim = None
  /\ meter[m].status = "ACTIVE"
  /\ meter' = [meter EXCEPT ![m].openInstall = TRUE]
  /\ installTask' = [installTask EXCEPT ![t] =
                       [status |-> "PENDING", meter |-> m, by |-> u, record |-> 0]]
  /\ UNCHANGED <<sim, simReq, fresh, form, records, installReq>>

\* A handler has read task t and goes on to the step `at`.
InstallRead(r, t, at, u, s) ==
  LET m == installTask[t].meter IN
  /\ installReq[r].at = "idle"
  /\ installReq' = [installReq EXCEPT ![r] =
       [IdleInstall EXCEPT !.at = at, !.task = t, !.meter = m, !.user = u, !.sim = s,
                           !.offSite = meter[m].offSite]]
  /\ UNCHANGED installTask
  /\ TablesUnchanged

ReadInstallStatus(r, t) ==
  /\ installTask[t].by # None
  /\ \/ installTask[t].status = "PENDING"
        /\ InstallRead(r, t, "start", installTask[t].by, None)
     \/ installTask[t].status = "IN_PROGRESS"
        /\ InstallRead(r, t, "return", installTask[t].by, None)

\* cancel refuses only a COMPLETED task.
ReadInstallCancel(r, t) ==
  /\ installTask[t].status \in OpenInstall \union {"CANCELLED"}
  /\ InstallRead(r, t, "cancel", None, None)

ReadInstallReassign(r, t, u) ==
  /\ installTask[t].status \in OpenInstall
  /\ InstallRead(r, t, "reassign", u, None)

\* complete, first query: task and meter.  A COMPLETED task is answered as it is.
ReadInstallComplete(r, t, s) ==
  /\ installTask[t].status = "IN_PROGRESS"
  /\ installTask[t].by # None
  /\ LET m == installTask[t].meter IN
       /\ meter[m].state = "NO_SIM"
       /\ meter[m].sim = None
       /\ meter[m].status = "ACTIVE"
  /\ InstallRead(r, t, "claimRead", installTask[t].by, s)

\* updateStatus, first write: the task, unconditionally.
WriteInstallStatus(r) ==
  LET q == installReq[r] IN
  /\ \/ q.at = "start"
        /\ installTask' = [installTask EXCEPT ![q.task].status = "IN_PROGRESS"]
     \/ q.at = "return"
        /\ installTask' = [installTask EXCEPT ![q.task].status = "PENDING",
                                              ![q.task].by = None]
  /\ GoTo(r, "recheck")
  /\ TablesUnchanged

\* updateStatus, second query: another open task of the meter is an error, though
\* the status is written by then.
RecheckOpen(r) ==
  LET q == installReq[r] IN
  /\ q.at = "recheck"
  /\ IF \E t \in InstallIds \ {q.task} : /\ installTask[t].meter = q.meter
                                         /\ installTask[t].status \in OpenInstall
     THEN InstallDone(r)
     ELSE GoTo(r, "relock")
  /\ UNCHANGED installTask
  /\ TablesUnchanged

\* updateStatus, last write: the lock is set again.
Relock(r) ==
  /\ installReq[r].at = "relock"
  /\ meter' = [meter EXCEPT ![installReq[r].meter].openInstall = TRUE]
  /\ InstallDone(r)
  /\ UNCHANGED <<sim, simReq, fresh, form, records, installTask>>

WriteInstallCancel(r) ==
  LET q == installReq[r] IN
  /\ q.at = "cancel"
  /\ installTask' = [installTask EXCEPT ![q.task].status = "CANCELLED"]
  /\ GoTo(r, "unlock")
  /\ TablesUnchanged

\* Mutant of Unlock: the lock is forgotten.
UnlockNothing(r) ==
  /\ installReq[r].at = "unlock"
  /\ InstallDone(r)
  /\ UNCHANGED installTask
  /\ TablesUnchanged

\* The last step of cancel and of complete: the lock is released.
Unlock(r) ==
  /\ installReq[r].at = "unlock"
  /\ meter' = [meter EXCEPT ![installReq[r].meter].openInstall = FALSE]
  /\ InstallDone(r)
  /\ UNCHANGED <<sim, simReq, fresh, form, records, installTask>>

WriteInstallReassign(r) ==
  LET q == installReq[r] IN
  /\ q.at = "reassign"
  /\ installTask' = [installTask EXCEPT ![q.task].status = "PENDING",
                                        ![q.task].by = q.user]
  /\ InstallDone(r)
  /\ TablesUnchanged

\* After the claim: the meter's location if it was demounted from one, then the
\* steps of InstallationRecords.create.
AfterClaim(q) == IF q.offSite THEN "location" ELSE "sim"

\* complete, SimCardsService.claim: query, then write.
ReadClaimForTask(r) ==
  LET q == installReq[r] IN
  /\ q.at = "claimRead"
  /\ \/ AlreadyClaimed(q.sim, q.user) /\ GoTo(r, AfterClaim(q))
     \/ Claimable(q.sim) /\ GoTo(r, "claim")
  /\ UNCHANGED installTask
  /\ TablesUnchanged

\* claim is refused, or its row is gone.
ClaimRefused(r) ==
  LET q == installReq[r] IN
  /\ \/ q.at = "claimRead" /\ ~AlreadyClaimed(q.sim, q.user) /\ ~Claimable(q.sim)
     \/ q.at = "claim" /\ sim[q.sim].status = "DELETED"
  /\ InstallDone(r)
  /\ UNCHANGED installTask
  /\ TablesUnchanged

WriteClaimForTask(r) ==
  LET q == installReq[r] IN
  /\ q.at = "claim"
  /\ sim[q.sim].status # "DELETED"
  /\ sim' = [sim EXCEPT ![q.sim] = AssignedTo(q.user)]
  /\ GoTo(r, AfterClaim(q))
  /\ UNCHANGED <<meter, simReq, fresh, form, records, installTask>>

WriteLocation(r) ==
  /\ installReq[r].at = "location"
  /\ meter' = [meter EXCEPT ![installReq[r].meter].offSite = FALSE]
  /\ GoTo(r, "sim")
  /\ UNCHANGED <<sim, simReq, fresh, form, records, installTask>>

\* Mutant of WriteInstallComplete: the task is not connected to its record.
CompleteWithoutRecord(r) ==
  LET q == installReq[r] IN
  /\ q.at = "complete"
  /\ installTask' = [installTask EXCEPT ![q.task].status = "COMPLETED"]
  /\ GoTo(r, "unlock")
  /\ TablesUnchanged

\* complete, the task: unconditional, with the number of the record just inserted.
WriteInstallComplete(r) ==
  LET q == installReq[r] IN
  /\ q.at = "complete"
  /\ installTask' = [installTask EXCEPT ![q.task].status = "COMPLETED",
                                        ![q.task].record = q.num]
  /\ GoTo(r, "unlock")
  /\ TablesUnchanged

InstallTaskStep(r) ==
  \/ WriteInstallStatus(r)
  \/ RecheckOpen(r)
  \/ Relock(r)
  \/ WriteInstallCancel(r)
  \/ Unlock(r)
  \/ WriteInstallReassign(r)
  \/ ReadClaimForTask(r)
  \/ WriteClaimForTask(r)
  \/ ClaimRefused(r)
  \/ WriteLocation(r)
  \/ WriteInstallComplete(r)

InstallTaskNext ==
  \/ \E t \in InstallIds, m \in Meters, u \in Users : CreateInstall(t, m, u)
  \/ \E r \in InstallRequests, t \in InstallIds :
       \/ ReadInstallStatus(r, t)
       \/ ReadInstallCancel(r, t)
       \/ \E u \in Users : ReadInstallReassign(r, t, u)
       \/ \E s \in Sims : ReadInstallComplete(r, t, s)
  \/ \E r \in InstallRequests : InstallTaskStep(r)

InstallNext ==
  \/ InstallTaskNext
  \/ RecordNext /\ UNCHANGED installTask

\* Records may be edited at any time.
InstallSpec ==
  InstallInit /\ [][InstallNext \/ (EditNext /\ UNCHANGED installTask)]_installVars

(***************************************************************************)
(* The same when no record is edited, no request is cut short and no two   *)
(* requests in flight are about the same meter or the same SIM.            *)
(***************************************************************************)
CalmInstallNext ==
  \/ InstallTaskNext
  \/ SubmitNext /\ UNCHANGED installTask
  \/ \E r \in InstallRequests : RecordStep(r) /\ UNCHANGED installTask

SimsOf(q) == {q.sim, q.old} \ {None}

InstallsApart ==
  \A r, q \in InstallRequests :
    r # q /\ installReq[r].at # "idle" /\ installReq[q].at # "idle" =>
      /\ installReq[r].meter # installReq[q].meter
      /\ SimsOf(installReq[r]) \cap SimsOf(installReq[q]) = {}

CalmInstallSpec ==
  InstallInit /\ [][CalmInstallNext /\ InstallsApart']_installVars

-----------------------------------------------------------------------------
(* Properties. *)

\* "Za ovo brojilo vec postoji aktivan nalog za ugradnju SIM-a": a meter whose lock
\* is set has an open install task, or a request about to release the lock.
InstallLockHasTask ==
  \A m \in Meters : meter[m].openInstall =>
    \/ \E t \in InstallIds : /\ installTask[t].meter = m
                              /\ installTask[t].status \in OpenInstall
    \/ \E r \in InstallRequests : installReq[r].at = "unlock" /\ installReq[r].meter = m

\* A task that is completed in this step gets a record of its own meter, and the meter
\* then holds the SIM of that record.
CompletesInstalled ==
  \A t \in InstallIds :
    installTask[t].status # "COMPLETED" /\ installTask'[t].status = "COMPLETED" =>
      \E rec \in records : /\ rec.num = installTask'[t].record
                           /\ rec.meter = installTask[t].meter
                           /\ meter[rec.meter].sim = rec.sim

\* A completed install task was completed with a record of its own meter, and the
\* meter then holds the SIM of that record.
CompletedTaskInstalled == [][CompletesInstalled]_installVars

\* The handlers implement InstallOrder: a task completed is not cancelled or started
\* again, and it is completed with a record of its own, which names its meter and the
\* SIM there, although link, record and task are written in three steps.
Promise == INSTANCE InstallOrder WITH
  Tasks <- InstallIds, Records <- Record,
  status <- [t \in InstallIds |-> installTask[t].status],
  place <- [t \in InstallIds |-> installTask[t].meter],
  paper <- [t \in InstallIds |-> installTask[t].record],
  link <- [m \in Meters |-> meter[m].sim],
  written <- records

ImplementsInstallOrder == Promise!OrderSpec
=============================================================================

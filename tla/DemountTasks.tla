---------------------------- MODULE DemountTasks ----------------------------
(***************************************************************************)
(* Work orders for taking a SIM out of a meter                             *)
(* (backend/src/modules/demount-tasks/demount-tasks.service.ts).           *)
(*                                                                         *)
(* A handler reads the task (and the meter behind it), checks what it      *)
(* read, and writes in a later database step.  Between the two the request *)
(* waits in demountReq with the values it read; any other request may run. *)
(* An initiator fixes the outcome of a task when creating it, and complete *)
(* refuses a body that differs from it, so the outcome is a field of the   *)
(* task.                                                                   *)
(***************************************************************************)
EXTENDS Registry

CONSTANTS DemountIds,       \* ids of the rows of table demount_tasks
          DemountRequests,  \* slots for requests in flight
          Outcomes          \* the outcomes initiators ask for

Resolutions == {"FULL_DEMOUNT", "REPLACE_SIM", "REMOVE_SIM_ONLY"}
Dispositions == {"MARK_DEFECTIVE", "RETURN_TO_STOCK"}
Categories == {"METER_FAULTY", "TEMPORARY_REMOVAL", "MAINTENANCE", "OTHER"}

ASSUME OutcomesAssumption ==
  Outcomes \subseteq [resolution : Resolutions, disposition : Dispositions,
                      category : Categories]

ASSUME DemountNoneAssumption == None \notin DemountIds \union Outcomes

VARIABLES demountTask,      \* table demount_tasks: [DemountIds -> DemountTask]
          demountReq        \* requests in flight: [DemountRequests -> DemountRequest]

demountVars == <<meter, sim, demountTask, demountReq>>

OpenStatus == {"PENDING", "IN_PROGRESS"}
TaskStatus == OpenStatus \union {"NONE", "COMPLETED", "CANCELLED"}   \* NONE: no such row

DemountTask == [status : TaskStatus,
                meter : Meters \union {None},
                by : Users \union {None},               \* assignedToId
                outcome : Outcomes \union {None}]       \* the requested* columns

\* at: the write the request is about to do, named after it.
DemountRequest == [at : {"idle", "start", "return", "cancel", "reassign",
                         "check", "replace", "remove"},
                   task : DemountIds \union {None},
                   meter : Meters \union {None},
                   user : Users \union {None},
                   old : Sims \union {None},            \* meter.simCardId when read
                   new : Sims \union {None}]            \* newSimCardId of the body

Idle == [at |-> "idle", task |-> None, meter |-> None, user |-> None,
         old |-> None, new |-> None]

DemountTypeOK ==
  /\ RegistryTypeOK
  /\ demountTask \in [DemountIds -> DemountTask]
  /\ demountReq \in [DemountRequests -> DemountRequest]

DemountInit ==
  /\ RegistryInit
  /\ demountTask = [t \in DemountIds |->
                      [status |-> "NONE", meter |-> None, by |-> None, outcome |-> None]]
  /\ demountReq = [r \in DemountRequests |-> Idle]

-----------------------------------------------------------------------------
(* What an outcome does to the meter and to the SIM that leaves it. *)

LeavesLocation(o) ==
  o.resolution = "FULL_DEMOUNT" \/ o.category # "TEMPORARY_REMOVAL"

\* Mutant of StatusAfterRemoval: the meter gets the status of the SIM.
StatusOfRemovedSim(o) ==
  IF o.disposition = "MARK_DEFECTIVE" THEN "DEFECTIVE" ELSE "AVAILABLE"

StatusAfterRemoval(o) ==
  IF o.category = "MAINTENANCE" THEN "IN_CALIBRATION"
  ELSE IF o.resolution = "FULL_DEMOUNT" THEN "INACTIVE"
  ELSE IF o.category = "METER_FAULTY" THEN "DEFECTIVE" ELSE "ACTIVE"

\* Mutant of RemovedSim: only the assignee is cleared.
RemovedSimStaysInstalled(o) == [status |-> "INSTALLED", by |-> None]

\* Either disposition also clears the assignee.
RemovedSim(o) ==
  [status |-> IF o.disposition = "MARK_DEFECTIVE" THEN "DEFECTIVE" ELSE "AVAILABLE",
   by |-> None]

-----------------------------------------------------------------------------
(* Requests. *)

\* create: the meter is checked again inside the transaction by the
\* conditional updateMany that takes the lock, so the earlier read adds
\* nothing and the handler is one step.
CreateDemount(t, m, u, o) ==
  /\ demountTask[t].status = "NONE"
  /\ ~meter[m].openDemount
  /\ meter[m].state = "INSTALLED"
  /\ meter[m].sim # None
  /\ meter[m].status = "ACTIVE"
  /\ meter' = [meter EXCEPT ![m].openDemount = TRUE]
  /\ demountTask' = [demountTask EXCEPT ![t] =
                       [status |-> "PENDING", meter |-> m, by |-> u, outcome |-> o]]
  /\ UNCHANGED <<sim, demountReq>>

\* A handler has read task t and goes on to the write `at`.
DemountRead(r, t, at, u, old, new) ==
  /\ demountReq[r].at = "idle"
  /\ demountReq' = [demountReq EXCEPT ![r] =
                      [at |-> at, task |-> t, meter |-> demountTask[t].meter,
                       user |-> u, old |-> old, new |-> new]]
  /\ UNCHANGED <<meter, sim, demountTask>>

\* updateStatus, read: only the assignee, only PENDING -> IN_PROGRESS (start)
\* and IN_PROGRESS -> PENDING (return to the initiator).
ReadDemountStatus(r, t) ==
  /\ demountTask[t].by # None
  /\ \/ demountTask[t].status = "PENDING"
        /\ DemountRead(r, t, "start", demountTask[t].by, None, None)
     \/ demountTask[t].status = "IN_PROGRESS"
        /\ DemountRead(r, t, "return", demountTask[t].by, None, None)

\* Mutant of ReadDemountCancel: a COMPLETED task may be cancelled too.
CancelAnyTask(r, t) ==
  /\ demountTask[t].status # "NONE"
  /\ DemountRead(r, t, "cancel", None, None, None)

\* cancel, read: a COMPLETED task is refused, a CANCELLED one is not.
ReadDemountCancel(r, t) ==
  /\ demountTask[t].status \in OpenStatus \union {"CANCELLED"}
  /\ DemountRead(r, t, "cancel", None, None, None)

\* reassign, read.
ReadDemountReassign(r, t, u) ==
  /\ demountTask[t].status \in OpenStatus
  /\ DemountRead(r, t, "reassign", u, None, None)

\* complete, read: task and meter in one query.  A COMPLETED task is answered
\* with the task as it is (no step).  For REPLACE_SIM the body names the new SIM.
ReadDemountComplete(r, t) ==
  LET old == meter[demountTask[t].meter].sim IN
  /\ demountTask[t].status = "IN_PROGRESS"
  /\ demountTask[t].by # None
  /\ old # None
  /\ IF demountTask[t].outcome.resolution = "REPLACE_SIM"
     THEN \E new \in Sims \ {old} : DemountRead(r, t, "check", demountTask[t].by, old, new)
     ELSE DemountRead(r, t, "remove", demountTask[t].by, old, None)

\* complete, assertSimUsableForReplace: a query of its own, before the transaction.
Replaceable(q) == ~InMeter(q.new) /\ UsableBy(q.new, q.user)

CheckReplacement(r) ==
  /\ demountReq[r].at = "check"
  /\ Replaceable(demountReq[r])
  /\ demountReq' = [demountReq EXCEPT ![r].at = "replace"]
  /\ UNCHANGED <<meter, sim, demountTask>>

\* The request is answered: its slot is free again.
DemountDone(r) == demountReq' = [demountReq EXCEPT ![r] = Idle]

\* updateStatus, write: unconditional, on the task the request read earlier.
WriteDemountStatus(r) ==
  LET q == demountReq[r] IN
  /\ \/ q.at = "start"
        /\ demountTask' = [demountTask EXCEPT ![q.task].status = "IN_PROGRESS"]
     \/ q.at = "return"
        /\ demountTask' = [demountTask EXCEPT ![q.task].status = "PENDING",
                                              ![q.task].by = None]
  /\ DemountDone(r)
  /\ UNCHANGED <<meter, sim>>

\* Mutant of WriteDemountCancel: the lock of the meter is forgotten.
CancelKeepsLock(r) ==
  LET q == demountReq[r] IN
  /\ q.at = "cancel"
  /\ demountTask' = [demountTask EXCEPT ![q.task].status = "CANCELLED"]
  /\ DemountDone(r)
  /\ UNCHANGED <<meter, sim>>

\* cancel, transaction: the task is closed and the meter's lock released.
WriteDemountCancel(r) ==
  LET q == demountReq[r] IN
  /\ q.at = "cancel"
  /\ demountTask' = [demountTask EXCEPT ![q.task].status = "CANCELLED"]
  /\ meter' = [meter EXCEPT ![q.meter].openDemount = FALSE]
  /\ DemountDone(r)
  /\ UNCHANGED sim

\* reassign, write: unconditional.
WriteDemountReassign(r) ==
  LET q == demountReq[r] IN
  /\ q.at = "reassign"
  /\ demountTask' = [demountTask EXCEPT ![q.task].status = "PENDING",
                                        ![q.task].by = q.user]
  /\ DemountDone(r)
  /\ UNCHANGED <<meter, sim>>

\* complete with REPLACE_SIM, transaction.  The old SIM is the one read with
\* the task, whatever the meter holds by now; it must still have a row.
ReplaceAllowed(q) == LinkAllowed(q.meter, q.new) /\ sim[q.old].status # "DELETED"

CommitReplace(r) ==
  LET q == demountReq[r] IN
  /\ q.at = "replace"
  /\ ReplaceAllowed(q)
  /\ meter' = [meter EXCEPT ![q.meter].sim = q.new,
                            ![q.meter].state = "INSTALLED",
                            ![q.meter].openDemount = FALSE]
  /\ sim' = [sim EXCEPT ![q.old] = RemovedSim(demountTask[q.task].outcome),
                        ![q.new].status = "INSTALLED"]
  /\ demountTask' = [demountTask EXCEPT ![q.task].status = "COMPLETED"]
  /\ DemountDone(r)

\* complete with FULL_DEMOUNT or REMOVE_SIM_ONLY, transaction.
CommitRemove(r) ==
  LET q == demountReq[r]
      o == demountTask[q.task].outcome
  IN
  /\ q.at = "remove"
  /\ sim[q.old].status # "DELETED"
  /\ meter' = [meter EXCEPT ![q.meter].sim = None,
                            ![q.meter].state = "NO_SIM",
                            ![q.meter].offSite = LeavesLocation(o),
                            ![q.meter].openDemount = FALSE,
                            ![q.meter].status = StatusAfterRemoval(o)]
  /\ sim' = [sim EXCEPT ![q.old] = RemovedSim(o)]
  /\ demountTask' = [demountTask EXCEPT ![q.task].status = "COMPLETED"]
  /\ DemountDone(r)

\* The SIM check refuses, or the transaction is rolled back: the new SIM is in
\* another meter or one of the SIMs has no row any more.
DemountRefused(r) ==
  LET q == demountReq[r] IN
  /\ \/ q.at = "check" /\ ~Replaceable(q)
     \/ q.at = "replace" /\ ~ReplaceAllowed(q)
     \/ q.at = "remove" /\ sim[q.old].status = "DELETED"
  /\ DemountDone(r)
  /\ UNCHANGED <<meter, sim, demountTask>>

\* The backend stops before the write.
DemountCrash(r) ==
  /\ demountReq[r].at # "idle"
  /\ DemountDone(r)
  /\ UNCHANGED <<meter, sim, demountTask>>

DemountNext ==
  \/ \E t \in DemountIds, m \in Meters, u \in Users, o \in Outcomes :
       CreateDemount(t, m, u, o)
  \/ \E r \in DemountRequests, t \in DemountIds :
       \/ ReadDemountStatus(r, t)
       \/ ReadDemountCancel(r, t)
       \/ ReadDemountComplete(r, t)
       \/ \E u \in Users : ReadDemountReassign(r, t, u)
  \/ \E r \in DemountRequests :
       \/ CheckReplacement(r)
       \/ WriteDemountStatus(r)
       \/ WriteDemountCancel(r)
       \/ WriteDemountReassign(r)
       \/ CommitReplace(r)
       \/ CommitRemove(r)
       \/ DemountRefused(r)
       \/ DemountCrash(r)

DemountSpec == DemountInit /\ [][DemountNext]_demountVars

(***************************************************************************)
(* The same handlers when no two requests are in flight for one meter at a *)
(* time.  Nothing in the code enforces it: this is the way of working the  *)
(* handlers need (one technician at a meter, the initiator not cancelling  *)
(* while the technician completes).  Requests for different meters still   *)
(* interleave and still compete for the same SIMs.                         *)
(***************************************************************************)
OneRequestPerMeter ==
  \A r, q \in DemountRequests :
    demountReq[r].at # "idle" /\ demountReq[r].meter = demountReq[q].meter => r = q

SerialDemountSpec ==
  DemountInit /\ [][DemountNext /\ OneRequestPerMeter']_demountVars

-----------------------------------------------------------------------------
(* Properties. *)

\* hasOpenDemountTask is never left set with no task behind it, in any
\* interleaving: otherwise the meter could never be demounted again, because
\* create refuses it and there is no task to cancel.
DemountLockHasTask ==
  \A m \in Meters : meter[m].openDemount =>
    \E t \in DemountIds : demountTask[t].meter = m /\ demountTask[t].status \in OpenStatus

\* With one request per meter at a time the handlers implement WorkOrder: a
\* closed task stays closed, and a meter's SIM changes exactly when a task in
\* progress on it is completed.
Order == INSTANCE WorkOrder WITH
           Tasks <- DemountIds,
           status <- [t \in DemountIds |-> demountTask[t].status],
           place <- [t \in DemountIds |-> demountTask[t].meter],
           link <- [m \in Meters |-> meter[m].sim]
ImplementsWorkOrder == Order!OrderSpec

\* "Za ovo brojilo vec postoji aktivan nalog za demontazu": a meter has at most
\* one open demount task.
AtMostOneOpenDemount ==
  \A t, u \in DemountIds :
    /\ demountTask[t].status \in OpenStatus
    /\ demountTask[u].status \in OpenStatus
    /\ demountTask[t].meter = demountTask[u].meter
    => t = u
=============================================================================

----------------------------- MODULE MeterAdmin -----------------------------
(***************************************************************************)
(* What administrators do to a meter: enter it, with or without a SIM,     *)
(* edit it and delete it (backend/src/modules/meters/meters.service.ts and *)
(* meters.controller.ts).                                                  *)
(*                                                                         *)
(* A deleted meter has no row, like one that is not entered yet, so it is  *)
(* fresh again.  Its tasks go with it (ON DELETE CASCADE), its records     *)
(* only if the administrator asked for that.                               *)
(***************************************************************************)
EXTENDS DemountTasks, InstallTasks

CONSTANTS EditedStatus,     \* the statuses administrators give a meter by hand
          Deletions         \* the ways in which they delete a meter

SimActions == {"RETURN_SIM_TO_AVAILABLE", "DELETE_SIM", "LEAVE_AS_IS"}
RecordsActions == {"DELETE_ALL", "ABORT_IF_EXISTS"}

ASSUME AdminAssumption ==
  /\ EditedStatus \subseteq MeterStatus
  /\ Deletions \subseteq SimActions \X RecordsActions

VARIABLES editReq,      \* the edit of a meter in flight, or None
          deleteReq     \* the deletion in flight, or None

adminVars == <<editReq, deleteReq>>

AdminTypeOK ==
  /\ editReq \in [meter : Meters, sim : Sims] \union {None}
  /\ deleteReq \in [at : {"records", "delete"}, meter : Meters, sim : Sims \union {None},
                    simAction : SimActions, recordsAction : RecordsActions] \union {None}

AdminInit == editReq = None /\ deleteReq = None

NoTaskChanges == UNCHANGED <<installTask, demountTask, demountReq>>

-----------------------------------------------------------------------------
(* MetersController.create: two service calls. *)

\* MetersService.create: a status, ACTIVE by default, and otherwise the column
\* defaults, never a SIM.
CreateMeter(m, status) ==
  /\ m \in fresh
  /\ fresh' = fresh \ {m}
  /\ meter' = [meter EXCEPT ![m].status = status]
  /\ UNCHANGED <<sim, simReq, form, records, installReq, adminVars>>
  /\ NoTaskChanges

\* With a SIM: InstallationRecordsService.create goes on with the new meter, for
\* the administrator, who has no SIMs of his own.  If it fails the meter stays.
CreateMeterWithSim(r, m, s, status) ==
  /\ m \in fresh
  /\ installReq[r].at = "idle"
  /\ fresh' = fresh \ {m}
  /\ meter' = [meter EXCEPT ![m].status = status]
  /\ installReq' = [installReq EXCEPT ![r] =
                      [IdleInstall EXCEPT !.at = "sim", !.meter = m, !.sim = s]]
  /\ UNCHANGED <<sim, simReq, form, records, adminVars>>
  /\ NoTaskChanges

-----------------------------------------------------------------------------
(* MetersService.update, PATCH /meters/:id.  The SIM rows are not touched. *)

OnlyMeters ==
  /\ UNCHANGED <<sim, simReq, fresh, form, records, installReq, deleteReq>>
  /\ NoTaskChanges

\* A new status; the link to the SIM is not looked at.
EditMeterStatus(m, status) ==
  /\ m \notin fresh
  /\ meter' = [meter EXCEPT ![m].status = status]
  /\ OnlyMeters
  /\ UNCHANGED editReq

\* simCardId null or simCardState NO_SIM, with or without a new status.
EditMeterClear(m, status) ==
  /\ m \notin fresh
  /\ meter' = [meter EXCEPT ![m].sim = None, ![m].state = "NO_SIM", ![m].status = status]
  /\ OnlyMeters
  /\ UNCHANGED editReq

\* A new simCardId, query: the meter must be active.
ReadMeterLink(m, s) ==
  /\ editReq = None
  /\ m \notin fresh
  /\ meter[m].status = "ACTIVE"
  /\ editReq' = [meter |-> m, sim |-> s]
  /\ OnlyMeters
  /\ UNCHANGED meter

\* A new simCardId, write, with or without a new status.
WriteMeterLink(status) ==
  /\ editReq # None
  /\ LinkAllowed(editReq.meter, editReq.sim)
  /\ meter' = [meter EXCEPT ![editReq.meter].sim = editReq.sim,
                            ![editReq.meter].state = "INSTALLED",
                            ![editReq.meter].status = status]
  /\ editReq' = None
  /\ OnlyMeters

\* The write fails, or the backend stops before it.
MeterLinkFails ==
  /\ editReq # None
  /\ editReq' = None
  /\ OnlyMeters
  /\ UNCHANGED meter

EditedStatuses(m) == EditedStatus \union {meter[m].status}

-----------------------------------------------------------------------------
(* MetersService.deleteWithConfirm. *)

OnlyDeletion ==
  /\ UNCHANGED <<registryVars, simReq, fresh, form, records, installReq, editReq>>
  /\ NoTaskChanges

\* First query: the link to the SIM.
ReadMeterDelete(m, simAction, recordsAction) ==
  /\ deleteReq = None
  /\ m \notin fresh
  /\ deleteReq' = [at |-> "records", meter |-> m, sim |-> meter[m].sim,
                   simAction |-> simAction, recordsAction |-> recordsAction]
  /\ OnlyDeletion

RecordsOf(m) == {rec \in records : rec.meter = m}

\* Second query: 'Brojilo ima zapisnike' unless they are to be deleted too.
ReadMeterRecords ==
  /\ deleteReq # None /\ deleteReq.at = "records"
  /\ deleteReq.recordsAction = "DELETE_ALL" \/ RecordsOf(deleteReq.meter) = {}
  /\ deleteReq' = [deleteReq EXCEPT !.at = "delete"]
  /\ OnlyDeletion

BlankMeter == [sim |-> None, state |-> "NO_SIM", status |-> "ACTIVE", offSite |-> FALSE,
               openInstall |-> FALSE, openDemount |-> FALSE]

\* Mutant of SimAfterDeletion: the SIM of the deleted meter stays as it is.
SimStaysInstalled(q) == sim

\* What becomes of the SIM the meter had when it was read.
SimAfterDeletion(q) ==
  IF q.sim = None \/ q.simAction = "LEAVE_AS_IS" THEN sim
  ELSE [sim EXCEPT ![q.sim] =
          [status |-> IF q.simAction = "DELETE_SIM" THEN "DELETED" ELSE "AVAILABLE",
           by |-> None]]

\* The rows that refer to a SIM deleted with the meter lose it (ON DELETE SET NULL).
Forgets(q, s) == q.simAction = "DELETE_SIM" /\ s # None /\ s = q.sim

\* The transaction fails if the SIM to be written has no row any more, or if
\* records have come to a meter whose records were not to be deleted.
DeletionAllowed(q) ==
  /\ q.meter \notin fresh
  /\ q.sim # None /\ q.simAction # "LEAVE_AS_IS" => sim[q.sim].status # "DELETED"
  /\ q.recordsAction = "DELETE_ALL" \/ RecordsOf(q.meter) = {}

DeleteMeter ==
  LET q == deleteReq
      m == q.meter
  IN
  /\ q # None /\ q.at = "delete"
  /\ DeletionAllowed(q)
  /\ fresh' = fresh \union {m}
  /\ meter' = [n \in Meters |-> IF n = m THEN BlankMeter
                                ELSE IF Forgets(q, meter[n].sim)
                                     THEN [meter[n] EXCEPT !.sim = None] ELSE meter[n]]
  /\ sim' = SimAfterDeletion(q)
  /\ records' = {IF Forgets(q, rec.sim) THEN [rec EXCEPT !.sim = None] ELSE rec :
                   rec \in records \ RecordsOf(m)}
  /\ installTask' = [t \in InstallIds |->
                       IF installTask[t].meter = m
                       THEN [status |-> "NONE", meter |-> None, by |-> None, record |-> 0]
                       ELSE installTask[t]]
  /\ demountTask' = [t \in DemountIds |->
                       IF demountTask[t].meter = m
                       THEN [status |-> "NONE", meter |-> None, by |-> None, outcome |-> None]
                       ELSE demountTask[t]]
  /\ deleteReq' = None
  /\ UNCHANGED <<simReq, form, installReq, demountReq, editReq>>

\* The meter has records after all, the transaction is rolled back, or the backend
\* stops before it.
DeletionFails ==
  /\ deleteReq # None
  /\ deleteReq' = None
  /\ OnlyDeletion

DeleteNext ==
  \/ \E m \in Meters, d \in Deletions : ReadMeterDelete(m, d[1], d[2])
  \/ ReadMeterRecords
  \/ DeleteMeter
  \/ DeletionFails
=============================================================================

------------------------- MODULE DemountTasks_proofs -------------------------
(***************************************************************************)
(* Proofs about demount tasks for any number of meters, SIMs, operators,   *)
(* tasks and requests in flight.                                           *)
(*                                                                         *)
(* DemountInv holds in every interleaving.  It ties a request in flight to *)
(* the task it read, which is what the lock's invariant rests on: a        *)
(* request releases the lock of the very meter of the task it closes.      *)
(***************************************************************************)
EXTENDS DemountTasks, TLAPS

\* A task with a row has a meter and an outcome.
TaskHasMeter ==
  \A t \in DemountIds : demountTask[t].status # "NONE" =>
    /\ demountTask[t].meter \in Meters
    /\ demountTask[t].outcome \in Outcomes

\* A request in flight carries the meter of its task, and the fields its next
\* write needs.
RequestMatchesTask ==
  \A r \in DemountRequests :
    LET q == demountReq[r] IN
    q.at # "idle" =>
      /\ q.task \in DemountIds
      /\ q.meter \in Meters
      /\ demountTask[q.task].status # "NONE"
      /\ demountTask[q.task].meter = q.meter
      /\ q.at = "reassign" => q.user \in Users
      /\ q.at \in {"check", "replace"} => q.old \in Sims /\ q.new \in Sims /\ q.new # q.old
      /\ q.at = "remove" => q.old \in Sims

DemountInv ==
  /\ DemountTypeOK
  /\ TaskHasMeter
  /\ RequestMatchesTask
  /\ OneMeterPerSim
  /\ DemountLockHasTask

-----------------------------------------------------------------------------
\* The tables before the first task, with no request being handled.
LEMMA InitDemountInv == DemountInit => DemountInv
PROOF
  <1> SUFFICES ASSUME DemountInit PROVE DemountInv
    OBVIOUS
  <1> USE NoneAssumption DEF DemountInit, RegistryInit, Stock
  <1>1. PICK held \in [Meters -> Sims \union {None}],
             owner \in [Sims -> Users \union {None}],
             away \in SUBSET Meters : Stock(held, owner, away)
    OBVIOUS
  <1>2. meter \in [Meters -> MeterRow]
    BY <1>1 DEF MeterRow, MeterStatus
  <1>3. sim \in [Sims -> SimRow]
    BY <1>1 DEF SimRow, SimStatus
  <1>4. demountTask \in [DemountIds -> DemountTask]
    BY DEF DemountTask, TaskStatus, OpenStatus
  <1>5. demountReq \in [DemountRequests -> DemountRequest]
    BY DEF DemountRequest, Idle
  <1>6. TaskHasMeter /\ RequestMatchesTask
    BY DEF TaskHasMeter, RequestMatchesTask, Idle
  <1>7. OneMeterPerSim /\ DemountLockHasTask
    BY <1>1 DEF OneMeterPerSim, DemountLockHasTask
  <1> QED
    BY <1>2, <1>3, <1>4, <1>5, <1>6, <1>7 DEF DemountInv, DemountTypeOK, RegistryTypeOK

\* The SIM a meter loses: whatever the outcome, a row of the SIM table.
LEMMA RemovedSimIsRow ==
  ASSUME NEW o \in Outcomes
  PROVE  RemovedSim(o) \in SimRow
PROOF BY DEF RemovedSim, SimRow, SimStatus

\* What complete writes into Meter.status is one of the enum's values.
LEMMA StatusAfterRemovalType ==
  ASSUME NEW o \in Outcomes
  PROVE  StatusAfterRemoval(o) \in MeterStatus /\ LeavesLocation(o) \in BOOLEAN
PROOF BY DEF StatusAfterRemoval, MeterStatus, LeavesLocation

\* Taking or releasing the lock of a meter leaves a row of the meter table.
LEMMA OpenDemountIsRow ==
  ASSUME meter \in [Meters -> MeterRow], NEW m, NEW b \in BOOLEAN
  PROVE  [meter EXCEPT ![m].openDemount = b] \in [Meters -> MeterRow]
PROOF BY DEF MeterRow

\* A write of the status column leaves a row of the task table.
LEMMA TaskStatusIsRow ==
  ASSUME demountTask \in [DemountIds -> DemountTask], NEW t, NEW st \in TaskStatus
  PROVE  [demountTask EXCEPT ![t].status = st] \in [DemountIds -> DemountTask]
PROOF BY DEF DemountTask

\* What complete writes into the meter's columns leaves a row.
LEMMA RemovalIsRow ==
  ASSUME NEW w \in MeterRow, NEW off \in BOOLEAN, NEW st \in MeterStatus
  PROVE  [w EXCEPT !.sim = None, !.state = "NO_SIM", !.offSite = off,
                   !.openDemount = FALSE, !.status = st] \in MeterRow
PROOF BY DEF MeterRow

\* What reassign writes into the task's columns leaves a row.
LEMMA ReassignIsRow ==
  ASSUME NEW w \in DemountTask, NEW u \in Users
  PROVE  [w EXCEPT !.status = "PENDING", !.by = u] \in DemountTask
PROOF BY DEF DemountTask, TaskStatus, OpenStatus

-----------------------------------------------------------------------------
(* Type correctness, action by action. *)

\* Every step of every handler keeps the columns and the local variables in
\* their types.
LEMMA NextTypeOK == DemountInv /\ [DemountNext]_demountVars => DemountTypeOK'
PROOF
  <1> SUFFICES ASSUME DemountInv, [DemountNext]_demountVars PROVE DemountTypeOK'
    OBVIOUS
  <1> USE NoneAssumption, DemountNoneAssumption
      DEF DemountInv, DemountTypeOK, RegistryTypeOK
  <1>1. ASSUME NEW t \in DemountIds, NEW m \in Meters, NEW u \in Users, NEW o \in Outcomes,
               CreateDemount(t, m, u, o)
        PROVE  DemountTypeOK'
    <2>1. meter' \in [Meters -> MeterRow]
      BY <1>1, OpenDemountIsRow DEF CreateDemount
    <2>2. [status |-> "PENDING", meter |-> m, by |-> u, outcome |-> o] \in DemountTask
      BY DEF DemountTask, TaskStatus, OpenStatus
    <2>3. demountTask' \in [DemountIds -> DemountTask]
      BY <1>1, <2>2 DEF CreateDemount
    <2> QED
      BY <1>1, <2>1, <2>3 DEF CreateDemount
  <1>2. ASSUME NEW r \in DemountRequests, NEW t \in DemountIds,
               NEW at \in {"start", "return", "cancel", "reassign", "check", "remove"},
               NEW u \in Users \union {None}, NEW old \in Sims \union {None},
               NEW new \in Sims \union {None},
               DemountRead(r, t, at, u, old, new)
        PROVE  DemountTypeOK'
    <2>1. demountTask[t].meter \in Meters \union {None}
      BY DEF DemountTask
    <2> QED
      BY <1>2, <2>1 DEF DemountRead, DemountRequest
  <1>3. ASSUME NEW r \in DemountRequests, NEW t \in DemountIds, ReadDemountStatus(r, t)
        PROVE  DemountTypeOK'
    BY <1>2, <1>3 DEF ReadDemountStatus, DemountTask
  <1>4. ASSUME NEW r \in DemountRequests, NEW t \in DemountIds, ReadDemountCancel(r, t)
        PROVE  DemountTypeOK'
    BY <1>2, <1>4 DEF ReadDemountCancel
  <1>5. ASSUME NEW r \in DemountRequests, NEW t \in DemountIds, NEW u \in Users,
               ReadDemountReassign(r, t, u)
        PROVE  DemountTypeOK'
    BY <1>2, <1>5 DEF ReadDemountReassign
  <1>6. ASSUME NEW r \in DemountRequests, NEW t \in DemountIds, ReadDemountComplete(r, t)
        PROVE  DemountTypeOK'
    <2>1. demountTask[t].meter \in Meters /\ demountTask[t].by \in Users \union {None}
      BY <1>6 DEF ReadDemountComplete, TaskHasMeter, DemountTask
    <2>2. meter[demountTask[t].meter].sim \in Sims \union {None}
      BY <2>1 DEF MeterRow
    <2> QED
      BY <1>2, <1>6, <2>1, <2>2 DEF ReadDemountComplete
  <1>7. ASSUME NEW r \in DemountRequests, CheckReplacement(r)
        PROVE  DemountTypeOK'
    BY <1>7 DEF CheckReplacement, DemountRequest
  <1>8. ASSUME NEW r \in DemountRequests, DemountDone(r)
        PROVE  demountReq' \in [DemountRequests -> DemountRequest]
    BY <1>8 DEF DemountDone, Idle, DemountRequest
  <1>9. ASSUME NEW r \in DemountRequests, WriteDemountStatus(r)
        PROVE  DemountTypeOK'
    BY <1>8, <1>9 DEF WriteDemountStatus, DemountTask, TaskStatus, OpenStatus
  <1>10. ASSUME NEW r \in DemountRequests, WriteDemountCancel(r)
         PROVE  DemountTypeOK'
    <2>1. "CANCELLED" \in TaskStatus
      BY DEF TaskStatus
    <2>2. demountTask' \in [DemountIds -> DemountTask]
      BY <1>10, <2>1, TaskStatusIsRow DEF WriteDemountCancel
    <2>3. meter' \in [Meters -> MeterRow]
      BY <1>10, OpenDemountIsRow DEF WriteDemountCancel
    <2>4. DemountDone(r) /\ UNCHANGED sim
      BY <1>10 DEF WriteDemountCancel
    <2> QED
      BY <1>8, <2>2, <2>3, <2>4
  <1>11. ASSUME NEW r \in DemountRequests, WriteDemountReassign(r)
         PROVE  DemountTypeOK'
    <2>1. demountReq[r].user \in Users
      BY <1>11 DEF WriteDemountReassign, RequestMatchesTask
    <2>2. demountTask' \in [DemountIds -> DemountTask]
      <3> DEFINE q == demountReq[r]
                 row == [demountTask[q.task] EXCEPT !.status = "PENDING", !.by = q.user]
      <3>1. demountTask' = [demountTask EXCEPT ![q.task] = row]
        BY <1>11 DEF WriteDemountReassign
      <3>2. q.task \in DemountIds => row \in DemountTask
        BY <2>1, ReassignIsRow
      <3> HIDE DEF row, q
      <3> QED
        BY <3>1, <3>2
    <2>3. DemountDone(r) /\ UNCHANGED <<meter, sim>>
      BY <1>11 DEF WriteDemountReassign
    <2> QED
      BY <1>8, <2>2, <2>3
  <1>12. ASSUME NEW r \in DemountRequests, CommitReplace(r)
         PROVE  DemountTypeOK'
    <2> DEFINE q == demountReq[r]
    <2>1. /\ q.old \in Sims /\ q.new \in Sims /\ q.meter \in Meters /\ q.task \in DemountIds
          /\ demountTask[q.task].outcome \in Outcomes
      BY <1>12 DEF CommitReplace, RequestMatchesTask, TaskHasMeter
    <2>2. RemovedSim(demountTask[q.task].outcome) \in SimRow
      BY <2>1, RemovedSimIsRow
    <2>3. sim' \in [Sims -> SimRow]
      BY <1>12, <2>1, <2>2 DEF CommitReplace, SimRow, SimStatus
    <2>4. meter' \in [Meters -> MeterRow]
      BY <1>12, <2>1 DEF CommitReplace, MeterRow
    <2>5. demountTask' \in [DemountIds -> DemountTask]
      <3>1. "COMPLETED" \in TaskStatus
        BY DEF TaskStatus
      <3> QED
        BY <1>12, <3>1, TaskStatusIsRow DEF CommitReplace
    <2> QED
      BY <1>8, <1>12, <2>3, <2>4, <2>5 DEF CommitReplace
  <1>13. ASSUME NEW r \in DemountRequests, CommitRemove(r)
         PROVE  DemountTypeOK'
    <2> DEFINE q == demountReq[r]
               o == demountTask[q.task].outcome
    <2>1. q.old \in Sims /\ q.meter \in Meters /\ q.task \in DemountIds /\ o \in Outcomes
      BY <1>13 DEF CommitRemove, RequestMatchesTask, TaskHasMeter
    <2>2. RemovedSim(o) \in SimRow
      BY <2>1, RemovedSimIsRow
    <2>3. StatusAfterRemoval(o) \in MeterStatus /\ LeavesLocation(o) \in BOOLEAN
      BY <2>1, StatusAfterRemovalType
    <2>4. sim' \in [Sims -> SimRow]
      BY <1>13, <2>1, <2>2 DEF CommitRemove
    <2>5. meter' \in [Meters -> MeterRow]
      <3> DEFINE row == [meter[q.meter] EXCEPT
                           !.sim = None, !.state = "NO_SIM", !.offSite = LeavesLocation(o),
                           !.openDemount = FALSE, !.status = StatusAfterRemoval(o)]
      <3>1. row \in MeterRow
        BY <2>1, <2>3, RemovalIsRow
      <3>2. meter' = [meter EXCEPT ![q.meter] = row]
        BY <1>13 DEF CommitRemove
      <3> HIDE DEF row, q
      <3> QED
        BY <3>1, <3>2
    <2>6. demountTask' \in [DemountIds -> DemountTask]
      <3>1. "COMPLETED" \in TaskStatus
        BY DEF TaskStatus
      <3> QED
        BY <1>13, <3>1, TaskStatusIsRow DEF CommitRemove
    <2> QED
      BY <1>8, <1>13, <2>4, <2>5, <2>6 DEF CommitRemove
  <1>14. ASSUME NEW r \in DemountRequests, DemountRefused(r) \/ DemountCrash(r)
         PROVE  DemountTypeOK'
    BY <1>8, <1>14 DEF DemountRefused, DemountCrash
  <1>15. CASE UNCHANGED demountVars
    BY <1>15 DEF demountVars
  <1> QED
    BY <1>1, <1>3, <1>4, <1>5, <1>6, <1>7, <1>9, <1>10, <1>11, <1>12, <1>13, <1>14, <1>15
       DEF DemountNext

-----------------------------------------------------------------------------
(* The rest of DemountInv, action by action. *)

\* Every step of every handler keeps DemountInv, whatever was read before it.
LEMMA NextDemountInv == DemountInv /\ [DemountNext]_demountVars => DemountInv'
PROOF
  <1> SUFFICES ASSUME DemountInv, [DemountNext]_demountVars PROVE DemountInv'
    OBVIOUS
  <1> DEFINE Rest == TaskHasMeter' /\ RequestMatchesTask' /\ OneMeterPerSim'
                       /\ DemountLockHasTask'
  <1>0. DemountTypeOK'
    BY NextTypeOK
  <1> USE NoneAssumption, DemountNoneAssumption
      DEF DemountInv, DemountTypeOK, RegistryTypeOK
  <1>1. ASSUME NEW t \in DemountIds, NEW m \in Meters, NEW u \in Users, NEW o \in Outcomes,
               CreateDemount(t, m, u, o)
        PROVE  Rest
    <2>1. TaskHasMeter' /\ RequestMatchesTask'
      BY <1>1 DEF CreateDemount, TaskHasMeter, RequestMatchesTask
    <2>2. OneMeterPerSim'
      BY <1>1 DEF CreateDemount, OneMeterPerSim, MeterRow
    <2>3. DemountLockHasTask'
      BY <1>1 DEF CreateDemount, DemountLockHasTask, MeterRow, OpenStatus, DemountTask
    <2> QED
      BY <2>1, <2>2, <2>3
  <1>2. ASSUME UNCHANGED <<meter, demountTask>>
        PROVE  TaskHasMeter' /\ OneMeterPerSim' /\ DemountLockHasTask'
    BY <1>2 DEF TaskHasMeter, OneMeterPerSim, DemountLockHasTask
  <1>3. ASSUME NEW r \in DemountRequests, NEW t \in DemountIds,
               ReadDemountStatus(r, t) \/ ReadDemountCancel(r, t)
        PROVE  Rest
    <2>1. RequestMatchesTask'
      BY <1>3 DEF ReadDemountStatus, ReadDemountCancel, DemountRead, RequestMatchesTask,
                  TaskHasMeter, OpenStatus
    <2> QED
      BY <1>2, <1>3, <2>1 DEF ReadDemountStatus, ReadDemountCancel, DemountRead
  <1>4. ASSUME NEW r \in DemountRequests, NEW t \in DemountIds, NEW u \in Users,
               ReadDemountReassign(r, t, u)
        PROVE  Rest
    <2>1. RequestMatchesTask'
      BY <1>4 DEF ReadDemountReassign, DemountRead, RequestMatchesTask, TaskHasMeter,
                  OpenStatus
    <2> QED
      BY <1>2, <1>4, <2>1 DEF ReadDemountReassign, DemountRead
  <1>5. ASSUME NEW r \in DemountRequests, NEW t \in DemountIds, ReadDemountComplete(r, t)
        PROVE  Rest
    <2>1. demountTask[t].meter \in Meters
      BY <1>5 DEF ReadDemountComplete, TaskHasMeter
    <2>2. meter[demountTask[t].meter].sim \in Sims
      BY <1>5, <2>1 DEF ReadDemountComplete, MeterRow
    <2>3. RequestMatchesTask'
      BY <1>5, <2>1, <2>2 DEF ReadDemountComplete, DemountRead, RequestMatchesTask
    <2> QED
      BY <1>2, <1>5, <2>3 DEF ReadDemountComplete, DemountRead
  <1>6. ASSUME NEW r \in DemountRequests, CheckReplacement(r)
        PROVE  Rest
    <2>1. RequestMatchesTask'
      BY <1>6 DEF CheckReplacement, RequestMatchesTask, DemountRequest
    <2> QED
      BY <1>2, <1>6, <2>1 DEF CheckReplacement
  <1>7. ASSUME NEW r \in DemountRequests, DemountDone(r),
               \A t \in DemountIds : /\ demountTask[t].status # "NONE"
                                          => demountTask'[t].status # "NONE"
                                     /\ demountTask'[t].meter = demountTask[t].meter
        PROVE  RequestMatchesTask'
    BY <1>7 DEF DemountDone, Idle, RequestMatchesTask
  <1>8. ASSUME NEW r \in DemountRequests, WriteDemountStatus(r)
        PROVE  Rest
    <2>1. demountReq[r].task \in DemountIds /\ demountTask[demountReq[r].task].status # "NONE"
      BY <1>8 DEF WriteDemountStatus, RequestMatchesTask
    <2>2. \A t \in DemountIds : /\ demountTask[t].status # "NONE"
                                     => demountTask'[t].status # "NONE"
                                /\ demountTask'[t].meter = demountTask[t].meter
                                /\ demountTask'[t].outcome = demountTask[t].outcome
                                /\ demountTask[t].status = "NONE"
                                     => demountTask'[t].status = "NONE"
                                /\ demountTask[t].status \in OpenStatus
                                     => demountTask'[t].status \in OpenStatus
      BY <1>8, <2>1 DEF WriteDemountStatus, DemountTask, OpenStatus
    <2>3. TaskHasMeter' /\ RequestMatchesTask'
      BY <1>7, <1>8, <2>2 DEF WriteDemountStatus, TaskHasMeter
    <2>4. OneMeterPerSim' /\ DemountLockHasTask'
      BY <1>8, <2>2 DEF WriteDemountStatus, OneMeterPerSim, DemountLockHasTask
    <2> QED
      BY <2>3, <2>4
  <1>9. ASSUME NEW r \in DemountRequests, WriteDemountReassign(r)
        PROVE  Rest
    <2>1. demountReq[r].task \in DemountIds /\ demountTask[demountReq[r].task].status # "NONE"
      BY <1>9 DEF WriteDemountReassign, RequestMatchesTask
    <2>2. \A t \in DemountIds : /\ demountTask[t].status # "NONE"
                                     => demountTask'[t].status # "NONE"
                                /\ demountTask'[t].meter = demountTask[t].meter
                                /\ demountTask'[t].outcome = demountTask[t].outcome
                                /\ demountTask[t].status = "NONE"
                                     => demountTask'[t].status = "NONE"
                                /\ demountTask[t].status \in OpenStatus
                                     => demountTask'[t].status \in OpenStatus
      BY <1>9, <2>1 DEF WriteDemountReassign, DemountTask, OpenStatus
    <2>3. TaskHasMeter' /\ RequestMatchesTask'
      BY <1>7, <1>9, <2>2 DEF WriteDemountReassign, TaskHasMeter
    <2>4. OneMeterPerSim' /\ DemountLockHasTask'
      BY <1>9, <2>2 DEF WriteDemountReassign, OneMeterPerSim, DemountLockHasTask
    <2> QED
      BY <2>3, <2>4
  <1>10. ASSUME NEW r \in DemountRequests,
                demountReq[r].at \in {"cancel", "replace", "remove"},
                NEW closed \in {"CANCELLED", "COMPLETED"},
                demountTask' = [demountTask EXCEPT ![demountReq[r].task].status = closed],
                DemountDone(r),
                ~meter'[demountReq[r].meter].openDemount,
                \A m \in Meters \ {demountReq[r].meter} : meter'[m] = meter[m]
         PROVE  TaskHasMeter' /\ RequestMatchesTask' /\ DemountLockHasTask'
    <2> DEFINE q == demountReq[r]
    <2>1. /\ q.task \in DemountIds /\ demountTask[q.task].status # "NONE"
          /\ q.meter \in Meters /\ demountTask[q.task].meter = q.meter
      BY <1>10 DEF RequestMatchesTask
    <2>2. \A t \in DemountIds : /\ demountTask[t].status # "NONE"
                                     => demountTask'[t].status # "NONE"
                                /\ demountTask'[t].meter = demountTask[t].meter
                                /\ demountTask'[t].outcome = demountTask[t].outcome
                                /\ t # q.task => demountTask'[t] = demountTask[t]
      BY <1>10, <2>1 DEF DemountTask
    <2>3. TaskHasMeter'
      BY <1>10, <2>1, <2>2 DEF TaskHasMeter
    <2>4. RequestMatchesTask'
      BY <1>7, <1>10, <2>2
    <2>5. DemountLockHasTask'
      <3> SUFFICES ASSUME NEW m \in Meters, meter'[m].openDemount
                   PROVE  \E t \in DemountIds : /\ demountTask'[t].meter = m
                                                /\ demountTask'[t].status \in OpenStatus
        BY DEF DemountLockHasTask
      <3>1. m # q.meter /\ meter[m].openDemount
        BY <1>10
      <3>2. PICK t \in DemountIds : /\ demountTask[t].meter = m
                                    /\ demountTask[t].status \in OpenStatus
        BY <3>1 DEF DemountLockHasTask
      <3> QED
        BY <2>1, <2>2, <3>1, <3>2
    <2> QED
      BY <2>3, <2>4, <2>5
  <1>11. ASSUME NEW r \in DemountRequests, WriteDemountCancel(r)
         PROVE  Rest
    <2>1. demountReq[r].meter \in Meters
      BY <1>11 DEF WriteDemountCancel, RequestMatchesTask
    <2>2. OneMeterPerSim'
      BY <1>11, <2>1 DEF WriteDemountCancel, OneMeterPerSim, MeterRow
    <2>3. ~meter'[demountReq[r].meter].openDemount
      BY <1>11, <2>1 DEF WriteDemountCancel, MeterRow
    <2>4. \A m \in Meters \ {demountReq[r].meter} : meter'[m] = meter[m]
      BY <1>11, <2>1 DEF WriteDemountCancel, MeterRow
    <2> QED
      BY <1>10, <1>11, <2>2, <2>3, <2>4 DEF WriteDemountCancel
  <1>12. ASSUME NEW r \in DemountRequests, CommitReplace(r)
         PROVE  Rest
    <2> DEFINE q == demountReq[r]
    <2>1. q.meter \in Meters /\ q.new \in Sims
      BY <1>12 DEF CommitReplace, RequestMatchesTask
    <2>2. ~meter'[q.meter].openDemount /\ meter'[q.meter].sim = q.new
      BY <1>12, <2>1 DEF CommitReplace, MeterRow
    <2>3. \A m \in Meters \ {q.meter} : meter'[m] = meter[m]
      BY <1>12, <2>1 DEF CommitReplace, MeterRow
    <2>4. \A m \in Meters \ {q.meter} : meter[m].sim # q.new
      BY <1>12 DEF CommitReplace, ReplaceAllowed, LinkAllowed
    <2>5. OneMeterPerSim'
      BY <2>1, <2>2, <2>3, <2>4 DEF OneMeterPerSim
    <2> QED
      BY <1>10, <1>12, <2>2, <2>3, <2>5 DEF CommitReplace
  <1>13. ASSUME NEW r \in DemountRequests, CommitRemove(r)
         PROVE  Rest
    <2> DEFINE q == demountReq[r]
    <2>1. q.meter \in Meters
      BY <1>13 DEF CommitRemove, RequestMatchesTask
    <2>2. ~meter'[q.meter].openDemount /\ meter'[q.meter].sim = None
      BY <1>13, <2>1 DEF CommitRemove, MeterRow
    <2>3. \A m \in Meters \ {q.meter} : meter'[m] = meter[m]
      BY <1>13, <2>1 DEF CommitRemove, MeterRow
    <2>4. OneMeterPerSim'
      BY <2>1, <2>2, <2>3 DEF OneMeterPerSim
    <2> QED
      BY <1>10, <1>13, <2>2, <2>3, <2>4 DEF CommitRemove
  <1>14. ASSUME NEW r \in DemountRequests, DemountRefused(r) \/ DemountCrash(r)
         PROVE  Rest
    BY <1>2, <1>7, <1>14 DEF DemountRefused, DemountCrash
  <1>15. CASE UNCHANGED demountVars
    BY <1>2, <1>15 DEF demountVars, RequestMatchesTask
  <1> QED
    BY <1>0, <1>1, <1>3, <1>4, <1>5, <1>6, <1>8, <1>9, <1>11, <1>12, <1>13, <1>14, <1>15
       DEF DemountNext

\* Type correctness and the three facts the lock rests on hold in every
\* interleaving of any number of requests.
THEOREM DemountInvariant == DemountSpec => []DemountInv
PROOF
  <1>1. DemountInit => DemountInv
    BY InitDemountInv
  <1>2. DemountInv /\ [DemountNext]_demountVars => DemountInv'
    BY NextDemountInv
  <1> QED
    BY <1>1, <1>2, PTL DEF DemountSpec

\* Every column of the two tables, of the tasks and of the requests keeps its
\* type.
THEOREM DemountTypeCorrect == DemountSpec => []DemountTypeOK
PROOF
  <1>1. DemountInv => DemountTypeOK
    BY DEF DemountInv
  <1> QED
    BY <1>1, DemountInvariant, PTL

\* A meter marked hasOpenDemountTask has an open task, whatever races: cancel
\* and complete release the lock of the meter of the task they close.
THEOREM DemountLockAlwaysHasTask == DemountSpec => []DemountLockHasTask
PROOF
  <1>1. DemountInv => DemountLockHasTask
    BY DEF DemountInv
  <1> QED
    BY <1>1, DemountInvariant, PTL

\* No replacement puts a SIM into a second meter: the unique index on
\* meters.sim_card_id is enough, although the check before it may be stale.
THEOREM DemountOneMeterPerSim == DemountSpec => []OneMeterPerSim
PROOF
  <1>1. DemountInv => OneMeterPerSim
    BY DEF DemountInv
  <1> QED
    BY <1>1, DemountInvariant, PTL

-----------------------------------------------------------------------------
(***************************************************************************)
(* Proofs about demount tasks when no two requests are in flight for one   *)
(* meter (SerialDemountSpec).  SerialInv adds to DemountInv that what a    *)
(* request read is still so when it writes; SIM and meter then agree, and  *)
(* every step is a step of WorkOrder or changes nothing WorkOrder sees.    *)
(***************************************************************************)

\* What a request read about its task and its meter is still true.
RequestIsCurrent ==
  \A r \in DemountRequests :
    LET q == demountReq[r]
        now == demountTask[q.task].status
    IN
    /\ q.at = "start" => now = "PENDING"
    /\ q.at = "return" => now = "IN_PROGRESS"
    /\ q.at = "cancel" => now \in OpenStatus \union {"CANCELLED"}
    /\ q.at = "reassign" => now \in OpenStatus
    /\ q.at \in {"check", "replace", "remove"} =>
         now = "IN_PROGRESS" /\ meter[q.meter].sim = q.old

SerialInv ==
  /\ DemountInv
  /\ OneRequestPerMeter
  /\ SimMeterAgreement
  /\ RequestIsCurrent

SerialNext == DemountNext /\ OneRequestPerMeter'

-----------------------------------------------------------------------------
\* The state in which no task was ever created: nothing is locked and nobody
\* is at work.
LEMMA InitSerialInv == DemountInit => SerialInv
PROOF
  <1> SUFFICES ASSUME DemountInit PROVE SerialInv
    OBVIOUS
  <1>1. DemountInv
    BY InitDemountInv
  <1>2. OneRequestPerMeter /\ RequestIsCurrent
    BY DEF DemountInit, OneRequestPerMeter, RequestIsCurrent, Idle
  <1>3. PICK held \in [Meters -> Sims \union {None}],
             owner \in [Sims -> Users \union {None}],
             away \in SUBSET Meters : Stock(held, owner, away)
    BY DEF DemountInit, RegistryInit
  <1>4. SimMeterAgreement
    BY <1>3 DEF Stock, SimMeterAgreement, InMeter
  <1> QED
    BY <1>1, <1>2, <1>4 DEF SerialInv

\* A write to one task and one meter leaves the requests for other meters
\* current: they are for other tasks.
LEMMA OthersStayCurrent ==
  ASSUME SerialInv,
         NEW r \in DemountRequests,
         demountReq[r].at # "idle",
         demountReq' = [demountReq EXCEPT ![r] = Idle],
         \A t \in DemountIds \ {demountReq[r].task} : demountTask'[t] = demountTask[t],
         \A m \in Meters \ {demountReq[r].meter} : meter'[m] = meter[m]
  PROVE  RequestIsCurrent'
PROOF
  <1> SUFFICES ASSUME NEW w \in DemountRequests, demountReq'[w].at # "idle"
               PROVE  /\ w # r
                      /\ demountReq'[w] = demountReq[w]
                      /\ demountTask'[demountReq[w].task] = demountTask[demountReq[w].task]
                      /\ meter'[demountReq[w].meter] = meter[demountReq[w].meter]
    BY DEF SerialInv, RequestIsCurrent
  <1>1. w # r /\ demountReq'[w] = demountReq[w]
    BY DEF SerialInv, DemountInv, DemountTypeOK, Idle
  <1>2. demountReq[w].meter # demountReq[r].meter
    BY <1>1 DEF SerialInv, OneRequestPerMeter
  <1>3. demountReq[w].task # demountReq[r].task
    BY <1>1, <1>2 DEF SerialInv, DemountInv, RequestMatchesTask
  <1>4. demountReq[w].task \in DemountIds /\ demountReq[w].meter \in Meters
    BY <1>1 DEF SerialInv, DemountInv, RequestMatchesTask
  <1> QED
    BY <1>1, <1>2, <1>3, <1>4

\* Every step of the handlers keeps SerialInv when a request has its meter to
\* itself: what it read is still what it writes over.
LEMMA NextSerialInv == SerialInv /\ [SerialNext]_demountVars => SerialInv'
PROOF
  <1> SUFFICES ASSUME SerialInv, [SerialNext]_demountVars PROVE SerialInv'
    OBVIOUS
  <1>1. DemountInv'
    BY NextDemountInv DEF SerialInv, SerialNext
  <1>2. OneRequestPerMeter'
    BY DEF SerialInv, SerialNext, OneRequestPerMeter, demountVars
  <1> USE NoneAssumption, DemountNoneAssumption
      DEF SerialInv, DemountInv, DemountTypeOK, RegistryTypeOK
  <1>3. ASSUME sim' = sim, \A m \in Meters : meter'[m].sim = meter[m].sim
        PROVE  SimMeterAgreement'
    BY <1>3 DEF SimMeterAgreement, InMeter
  <1>4. ASSUME NEW t \in DemountIds, NEW m \in Meters, NEW u \in Users, NEW o \in Outcomes,
               CreateDemount(t, m, u, o)
        PROVE  SimMeterAgreement' /\ RequestIsCurrent'
    <2>1. \A n \in Meters : meter'[n].sim = meter[n].sim
      BY <1>4 DEF CreateDemount, MeterRow
    <2>2. \A w \in DemountRequests : demountReq[w].at # "idle" =>
             /\ demountTask'[demountReq[w].task] = demountTask[demountReq[w].task]
             /\ demountReq[w].meter \in Meters
      BY <1>4 DEF CreateDemount, RequestMatchesTask
    <2>3. RequestIsCurrent'
      BY <1>4, <2>1, <2>2 DEF CreateDemount, RequestIsCurrent
    <2> QED
      BY <1>3, <1>4, <2>1, <2>3 DEF CreateDemount
  <1>5. ASSUME NEW r \in DemountRequests, NEW t \in DemountIds,
               \/ ReadDemountStatus(r, t)
               \/ ReadDemountCancel(r, t)
               \/ ReadDemountComplete(r, t)
               \/ \E u \in Users : ReadDemountReassign(r, t, u)
        PROVE  SimMeterAgreement' /\ RequestIsCurrent'
    <2>1. UNCHANGED <<meter, sim, demountTask>>
      BY <1>5 DEF ReadDemountStatus, ReadDemountCancel, ReadDemountComplete,
                  ReadDemountReassign, DemountRead
    <2>2. \A w \in DemountRequests \ {r} : demountReq'[w] = demountReq[w]
      BY <1>5 DEF ReadDemountStatus, ReadDemountCancel, ReadDemountComplete,
                  ReadDemountReassign, DemountRead
    <2> DEFINE q == demountReq'[r]
               now == demountTask[q.task].status
    <2>3. /\ q.at = "start" => now = "PENDING"
          /\ q.at = "return" => now = "IN_PROGRESS"
          /\ q.at = "cancel" => now \in OpenStatus \union {"CANCELLED"}
          /\ q.at = "reassign" => now \in OpenStatus
          /\ q.at \in {"check", "replace", "remove"} =>
               now = "IN_PROGRESS" /\ meter[q.meter].sim = q.old
      <3>1. CASE ReadDemountStatus(r, t)
        BY <3>1 DEF ReadDemountStatus, DemountRead
      <3>2. CASE ReadDemountCancel(r, t)
        BY <3>2 DEF ReadDemountCancel, DemountRead
      <3>3. CASE ReadDemountComplete(r, t)
        BY <3>3 DEF ReadDemountComplete, DemountRead
      <3>4. CASE \E u \in Users : ReadDemountReassign(r, t, u)
        BY <3>4 DEF ReadDemountReassign, DemountRead
      <3> QED
        BY <1>5, <3>1, <3>2, <3>3, <3>4
    <2>4. RequestIsCurrent'
      BY <2>1, <2>2, <2>3 DEF RequestIsCurrent
    <2> QED
      BY <1>3, <2>1, <2>4
  <1>6. ASSUME NEW r \in DemountRequests, CheckReplacement(r)
        PROVE  SimMeterAgreement' /\ RequestIsCurrent'
    <2>1. RequestIsCurrent'
      BY <1>6 DEF CheckReplacement, RequestIsCurrent, DemountRequest
    <2> QED
      BY <1>3, <1>6, <2>1 DEF CheckReplacement
  <1>7. ASSUME NEW r \in DemountRequests,
               WriteDemountStatus(r) \/ WriteDemountCancel(r) \/ WriteDemountReassign(r)
        PROVE  SimMeterAgreement' /\ RequestIsCurrent'
    <2> DEFINE q == demountReq[r]
    <2>1. q.at # "idle" /\ DemountDone(r) /\ sim' = sim
      BY <1>7 DEF WriteDemountStatus, WriteDemountCancel, WriteDemountReassign
    <2>2. \A t \in DemountIds \ {q.task} : demountTask'[t] = demountTask[t]
      BY <1>7 DEF WriteDemountStatus, WriteDemountCancel, WriteDemountReassign
    <2>3. \A m \in Meters \ {q.meter} : meter'[m] = meter[m]
      BY <1>7 DEF WriteDemountStatus, WriteDemountCancel, WriteDemountReassign
    <2>4. \A m \in Meters : meter'[m].sim = meter[m].sim
      BY <1>7 DEF WriteDemountStatus, WriteDemountCancel, WriteDemountReassign, MeterRow
    <2>5. RequestIsCurrent'
      BY <2>1, <2>2, <2>3, OthersStayCurrent DEF DemountDone
    <2> QED
      BY <1>3, <2>1, <2>4, <2>5
  <1>8. ASSUME NEW r \in DemountRequests, CommitReplace(r)
        PROVE  SimMeterAgreement' /\ RequestIsCurrent'
    <2> DEFINE q == demountReq[r]
               o == demountTask[q.task].outcome
    <2>1. /\ q.meter \in Meters /\ q.old \in Sims /\ q.new \in Sims /\ q.new # q.old
          /\ q.task \in DemountIds /\ o \in Outcomes /\ meter[q.meter].sim = q.old
      BY <1>8 DEF CommitReplace, RequestMatchesTask, TaskHasMeter, RequestIsCurrent
    <2>2. RequestIsCurrent'
      <3>1. q.at # "idle" /\ DemountDone(r)
        BY <1>8 DEF CommitReplace
      <3>2. \A t \in DemountIds \ {q.task} : demountTask'[t] = demountTask[t]
        BY <1>8 DEF CommitReplace
      <3>3. \A m \in Meters \ {q.meter} : meter'[m] = meter[m]
        BY <1>8 DEF CommitReplace
      <3> QED
        BY <3>1, <3>2, <3>3, OthersStayCurrent DEF DemountDone
    <2>3. /\ meter'[q.meter].sim = q.new
          /\ \A m \in Meters \ {q.meter} : meter'[m].sim = meter[m].sim
      BY <1>8, <2>1 DEF CommitReplace, MeterRow
    <2>4. /\ sim'[q.old].status # "INSTALLED" /\ sim'[q.new].status = "INSTALLED"
          /\ \A s \in Sims \ {q.old, q.new} : sim'[s] = sim[s]
      BY <1>8, <2>1 DEF CommitReplace, RemovedSim, SimRow
    <2>5. SimMeterAgreement'
      <3> SUFFICES ASSUME NEW s \in Sims
                   PROVE  sim'[s].status = "INSTALLED" <=> \E m \in Meters : meter'[m].sim = s
        BY DEF SimMeterAgreement, InMeter
      <3>1. CASE s = q.new
        BY <2>1, <2>3, <2>4, <3>1
      <3>2. CASE s = q.old
        BY <2>1, <2>3, <2>4, <3>2 DEF OneMeterPerSim
      <3>3. CASE s \notin {q.old, q.new}
        BY <2>1, <2>3, <2>4, <3>3 DEF SimMeterAgreement, InMeter
      <3> QED
        BY <3>1, <3>2, <3>3
    <2> QED
      BY <2>2, <2>5
  <1>9. ASSUME NEW r \in DemountRequests, CommitRemove(r)
        PROVE  SimMeterAgreement' /\ RequestIsCurrent'
    <2> DEFINE q == demountReq[r]
               o == demountTask[q.task].outcome
    <2>1. /\ q.meter \in Meters /\ q.old \in Sims /\ q.task \in DemountIds
          /\ o \in Outcomes /\ meter[q.meter].sim = q.old
      BY <1>9 DEF CommitRemove, RequestMatchesTask, TaskHasMeter, RequestIsCurrent
    <2>2. RequestIsCurrent'
      <3>1. q.at # "idle" /\ DemountDone(r)
        BY <1>9 DEF CommitRemove
      <3>2. \A t \in DemountIds \ {q.task} : demountTask'[t] = demountTask[t]
        BY <1>9 DEF CommitRemove
      <3>3. \A m \in Meters \ {q.meter} : meter'[m] = meter[m]
        BY <1>9 DEF CommitRemove
      <3> QED
        BY <3>1, <3>2, <3>3, OthersStayCurrent DEF DemountDone
    <2>3. /\ meter'[q.meter].sim = None
          /\ \A m \in Meters \ {q.meter} : meter'[m].sim = meter[m].sim
      <3> DEFINE row == [meter[q.meter] EXCEPT
                           !.sim = None, !.state = "NO_SIM", !.offSite = LeavesLocation(o),
                           !.openDemount = FALSE, !.status = StatusAfterRemoval(o)]
      <3>1. meter[q.meter] \in MeterRow
        BY <2>1
      <3>2. row.sim = None
        BY <3>1 DEF MeterRow
      <3>3. meter' = [meter EXCEPT ![q.meter] = row]
        BY <1>9 DEF CommitRemove
      <3> QED
        BY <2>1, <3>2, <3>3
    <2>4. /\ sim'[q.old].status # "INSTALLED"
          /\ \A s \in Sims \ {q.old} : sim'[s] = sim[s]
      BY <1>9, <2>1 DEF CommitRemove, RemovedSim, SimRow
    <2>5. SimMeterAgreement'
      <3> SUFFICES ASSUME NEW s \in Sims
                   PROVE  sim'[s].status = "INSTALLED" <=> \E m \in Meters : meter'[m].sim = s
        BY DEF SimMeterAgreement, InMeter
      <3>1. CASE s = q.old
        BY <2>1, <2>3, <2>4, <3>1 DEF OneMeterPerSim
      <3>2. CASE s # q.old
        BY <2>1, <2>3, <2>4, <3>2 DEF SimMeterAgreement, InMeter
      <3> QED
        BY <3>1, <3>2
    <2> QED
      BY <2>2, <2>5
  <1>10. ASSUME NEW r \in DemountRequests, DemountRefused(r) \/ DemountCrash(r)
         PROVE  SimMeterAgreement' /\ RequestIsCurrent'
    <2>1. demountReq[r].at # "idle" /\ DemountDone(r) /\ UNCHANGED <<meter, sim, demountTask>>
      BY <1>10 DEF DemountRefused, DemountCrash
    <2> QED
      BY <1>3, <2>1, OthersStayCurrent DEF DemountDone
  <1>11. ASSUME UNCHANGED demountVars
         PROVE  SimMeterAgreement' /\ RequestIsCurrent'
    BY <1>3, <1>11 DEF demountVars, RequestIsCurrent
  <1> QED
    BY <1>1, <1>2, <1>4, <1>5, <1>6, <1>7, <1>8, <1>9, <1>10, <1>11
       DEF SerialNext, DemountNext

\* SerialInv holds throughout when a meter has one request at a time.
THEOREM SerialInvariant == SerialDemountSpec => []SerialInv
PROOF
  <1>1. DemountInit => SerialInv
    BY InitSerialInv
  <1>2. SerialInv /\ [DemountNext /\ OneRequestPerMeter']_demountVars => SerialInv'
    BY NextSerialInv DEF SerialNext
  <1> QED
    BY <1>1, <1>2, PTL DEF SerialDemountSpec

\* With one request per meter at a time, a SIM is INSTALLED exactly when it is
\* in a meter: complete moves both tables in one transaction, from a state that
\* is still the one it read.
THEOREM SerialSimMeterAgreement == SerialDemountSpec => []SimMeterAgreement
PROOF
  <1>1. SerialInv => SimMeterAgreement
    BY DEF SerialInv
  <1> QED
    BY <1>1, SerialInvariant, PTL
-----------------------------------------------------------------------------
(* Refinement: the handlers, seen through the mapping of Order. *)

\* The first state of the tables is, through the mapping, one of WorkOrder.
LEMMA InitOrder == DemountInit => Order!OrderInit
PROOF
  <1> SUFFICES ASSUME DemountInit PROVE Order!OrderInit
    OBVIOUS
  <1>1. PICK held \in [Meters -> Sims \union {None}],
             owner \in [Sims -> Users \union {None}],
             away \in SUBSET Meters : Stock(held, owner, away)
    BY DEF DemountInit, RegistryInit
  <1>2. [m \in Meters |-> meter[m].sim] = held
    BY <1>1 DEF Stock
  <1> QED
    BY <1>1, <1>2 DEF DemountInit, Stock, Order!OrderInit, Order!NoTwoMeters

\* A write that moves one task and leaves the SIMs in the meters is a Move.
LEMMA MoveStep ==
  ASSUME DemountTypeOK,
         NEW t \in DemountIds, NEW to \in TaskStatus, NEW from,
         demountTask[t].status \in from,
         demountTask' \in [DemountIds -> DemountTask],
         demountTask'[t].status = to,
         demountTask'[t].meter = demountTask[t].meter,
         \A d \in DemountIds \ {t} : demountTask'[d] = demountTask[d],
         \A m \in Meters : meter'[m].sim = meter[m].sim
  PROVE  Order!Move(t, from, to)
PROOF
  <1>1. [d \in DemountIds |-> demountTask'[d].status]
          = [[d \in DemountIds |-> demountTask[d].status] EXCEPT ![t] = to]
    OBVIOUS
  <1>2. [d \in DemountIds |-> demountTask'[d].meter] = [d \in DemountIds |-> demountTask[d].meter]
    OBVIOUS
  <1>3. [m \in Meters |-> meter'[m].sim] = [m \in Meters |-> meter[m].sim]
    OBVIOUS
  <1> QED
    BY <1>1, <1>2, <1>3 DEF Order!Move

\* A committed completion, whichever SIM ends up in the meter, is a Complete.
LEMMA CompleteStep ==
  ASSUME SerialInv, OneMeterPerSim',
         NEW t \in DemountIds, NEW s \in Sims \union {None},
         demountTask[t].status = "IN_PROGRESS",
         demountTask'[t].status = "COMPLETED",
         demountTask'[t].meter = demountTask[t].meter,
         \A d \in DemountIds \ {t} : demountTask'[d] = demountTask[d],
         demountTask[t].meter \in Meters,
         meter[demountTask[t].meter].sim # None,
         meter[demountTask[t].meter].sim # s,
         meter'[demountTask[t].meter].sim = s,
         \A m \in Meters \ {demountTask[t].meter} : meter'[m] = meter[m]
  PROVE  Order!Complete(t)
PROOF
  <1> DEFINE status == [d \in DemountIds |-> demountTask[d].status]
             place == [d \in DemountIds |-> demountTask[d].meter]
             link == [m \in Meters |-> meter[m].sim]
  <1>1. status' = [status EXCEPT ![t] = "COMPLETED"]
    OBVIOUS
  <1>2. place' = place
    OBVIOUS
  <1>3. link' = [link EXCEPT ![place[t]] = s]
    OBVIOUS
  <1>4. \A m, n \in Meters : link'[m] = link'[n] /\ link'[m] # None => m = n
    BY DEF OneMeterPerSim
  <1>5. status[t] = "IN_PROGRESS" /\ link[place[t]] # None /\ s # link[place[t]]
    OBVIOUS
  <1> QED
    BY <1>1, <1>2, <1>3, <1>4, <1>5 DEF Order!Complete, Order!NoTwoMeters

\* Every step of the handlers is a step of WorkOrder or a stutter: reads and
\* refusals stutter, creations open, writes move, commits complete.
LEMMA NextOrder == SerialInv /\ [SerialNext]_demountVars => [Order!OrderNext]_(Order!orderVars)
PROOF
  <1> SUFFICES ASSUME SerialInv, [SerialNext]_demountVars
               PROVE  Order!OrderNext \/ UNCHANGED Order!orderVars
    OBVIOUS
  <1> DEFINE status == [d \in DemountIds |-> demountTask[d].status]
             place == [d \in DemountIds |-> demountTask[d].meter]
             link == [m \in Meters |-> meter[m].sim]
  <1>0. DemountInv' /\ DemountTypeOK' /\ OneMeterPerSim'
    BY NextDemountInv DEF SerialInv, SerialNext, DemountInv
  <1>1. ASSUME NEW t \in DemountIds, NEW m \in Meters, NEW u \in Users, NEW o \in Outcomes,
               CreateDemount(t, m, u, o)
        PROVE  Order!Open(t)
    <2> USE DEF SerialInv, DemountInv, DemountTypeOK, RegistryTypeOK
    <2>1. status[t] = "NONE" /\ link[m] # None
      BY <1>1 DEF CreateDemount
    <2>2. status' = [status EXCEPT ![t] = "PENDING"]
      BY <1>1 DEF CreateDemount
    <2>3. place' = [place EXCEPT ![t] = m]
      BY <1>1 DEF CreateDemount
    <2>4. link' = link
      BY <1>1 DEF CreateDemount, MeterRow
    <2> QED
      BY <2>1, <2>2, <2>3, <2>4 DEF Order!Open
  <1>2. ASSUME NEW r \in DemountRequests, WriteDemountStatus(r)
        PROVE  Order!OrderNext
    <2> DEFINE q == demountReq[r]
    <2>1. q.task \in DemountIds
      BY <1>2 DEF WriteDemountStatus, SerialInv, DemountInv, RequestMatchesTask
    <2>2. meter' = meter /\ \A d \in DemountIds \ {q.task} : demountTask'[d] = demountTask[d]
      BY <1>2 DEF WriteDemountStatus, SerialInv, DemountInv, DemountTypeOK
    <2>3. CASE q.at = "start"
      <3>1. /\ demountTask[q.task].status = "PENDING"
            /\ demountTask'[q.task].status = "IN_PROGRESS"
            /\ demountTask'[q.task].meter = demountTask[q.task].meter
        BY <1>2, <2>1, <2>3 DEF WriteDemountStatus, SerialInv, RequestIsCurrent, DemountInv,
                                DemountTypeOK, DemountTask
      <3>2. Order!Move(q.task, {"PENDING"}, "IN_PROGRESS")
        BY <1>0, <2>1, <2>2, <3>1, MoveStep
           DEF SerialInv, DemountInv, DemountTypeOK, TaskStatus, OpenStatus
      <3> QED
        BY <2>1, <3>2 DEF Order!OrderNext
    <2>4. CASE q.at = "return"
      <3>1. /\ demountTask[q.task].status = "IN_PROGRESS"
            /\ demountTask'[q.task].status = "PENDING"
            /\ demountTask'[q.task].meter = demountTask[q.task].meter
        BY <1>2, <2>1, <2>4 DEF WriteDemountStatus, SerialInv, RequestIsCurrent, DemountInv,
                                DemountTypeOK, DemountTask
      <3>2. Order!Move(q.task, {"IN_PROGRESS"}, "PENDING")
        BY <1>0, <2>1, <2>2, <3>1, MoveStep
           DEF SerialInv, DemountInv, DemountTypeOK, TaskStatus, OpenStatus
      <3> QED
        BY <2>1, <3>2 DEF Order!OrderNext
    <2> QED
      BY <1>2, <2>3, <2>4 DEF WriteDemountStatus
  <1>3. ASSUME NEW r \in DemountRequests,
               WriteDemountCancel(r) \/ WriteDemountReassign(r)
        PROVE  Order!OrderNext \/ UNCHANGED Order!orderVars
    <2> DEFINE q == demountReq[r]
               to == IF q.at = "cancel" THEN "CANCELLED" ELSE "PENDING"
    <2>1. q.task \in DemountIds /\ q.meter \in Meters
      BY <1>3 DEF WriteDemountCancel, WriteDemountReassign, SerialInv, DemountInv,
                  RequestMatchesTask
    <2>2. \A d \in DemountIds \ {q.task} : demountTask'[d] = demountTask[d]
      BY <1>3 DEF WriteDemountCancel, WriteDemountReassign, SerialInv, DemountInv,
                  DemountTypeOK
    <2>3. \A m \in Meters : meter'[m].sim = meter[m].sim
      BY <1>3, <2>1 DEF WriteDemountCancel, WriteDemountReassign, SerialInv, DemountInv,
                        DemountTypeOK, RegistryTypeOK, MeterRow
    <2>4. /\ demountTask'[q.task].status = to
          /\ demountTask'[q.task].meter = demountTask[q.task].meter
      BY <1>3, <2>1 DEF WriteDemountCancel, WriteDemountReassign, SerialInv, DemountInv,
                        DemountTypeOK, DemountTask
    <2>5. CASE demountTask[q.task].status = to
      <3>1. status' = status
        BY <2>2, <2>4, <2>5
      <3>2. place' = place
        BY <2>2, <2>4
      <3>3. link' = link
        BY <2>3
      <3> QED
        BY <3>1, <3>2, <3>3 DEF Order!orderVars
    <2>6. CASE demountTask[q.task].status # to /\ q.at = "cancel"
      <3>1. demountTask[q.task].status \in {"PENDING", "IN_PROGRESS"}
        BY <2>6 DEF SerialInv, RequestIsCurrent, OpenStatus
      <3>2. Order!Move(q.task, {"PENDING", "IN_PROGRESS"}, "CANCELLED")
        BY <1>0, <2>1, <2>2, <2>3, <2>4, <2>6, <3>1, MoveStep
           DEF SerialInv, DemountInv, DemountTypeOK, TaskStatus, OpenStatus
      <3> QED
        BY <2>1, <3>2 DEF Order!OrderNext
    <2>7. CASE demountTask[q.task].status # to /\ q.at # "cancel"
      <3>1. demountTask[q.task].status \in {"IN_PROGRESS"}
        BY <1>3, <2>7 DEF WriteDemountCancel, WriteDemountReassign, SerialInv,
                          RequestIsCurrent, OpenStatus
      <3>2. Order!Move(q.task, {"IN_PROGRESS"}, "PENDING")
        BY <1>0, <2>1, <2>2, <2>3, <2>4, <2>7, <3>1, MoveStep
           DEF SerialInv, DemountInv, DemountTypeOK, TaskStatus, OpenStatus
      <3> QED
        BY <2>1, <3>2 DEF Order!OrderNext
    <2> QED
      BY <2>5, <2>6, <2>7
  <1>4. ASSUME NEW r \in DemountRequests, CommitReplace(r) \/ CommitRemove(r)
        PROVE  Order!OrderNext
    <2> DEFINE q == demountReq[r]
               s == IF q.at = "replace" THEN q.new ELSE None
    <2>1. /\ q.task \in DemountIds /\ q.meter \in Meters /\ q.old \in Sims
          /\ demountTask[q.task].meter = q.meter
          /\ s \in Sims \union {None} /\ s # q.old
      BY <1>4, NoneAssumption
         DEF CommitReplace, CommitRemove, SerialInv, DemountInv, RequestMatchesTask
    <2>2. demountTask[q.task].status = "IN_PROGRESS" /\ meter[q.meter].sim = q.old
      BY <1>4 DEF CommitReplace, CommitRemove, SerialInv, RequestIsCurrent
    <2>3. \A d \in DemountIds \ {q.task} : demountTask'[d] = demountTask[d]
      BY <1>4 DEF CommitReplace, CommitRemove, SerialInv, DemountInv, DemountTypeOK
    <2>4. /\ demountTask'[q.task].status = "COMPLETED"
          /\ demountTask'[q.task].meter = demountTask[q.task].meter
      <3>1. demountTask' = [demountTask EXCEPT ![q.task].status = "COMPLETED"]
        BY <1>4 DEF CommitReplace, CommitRemove
      <3>2. demountTask \in [DemountIds -> DemountTask]
        BY DEF SerialInv, DemountInv, DemountTypeOK
      <3> QED
        BY <2>1, <3>1, <3>2 DEF DemountTask
    <2>5. \A m \in Meters \ {q.meter} : meter'[m] = meter[m]
      BY <1>4 DEF CommitReplace, CommitRemove, SerialInv, DemountInv, DemountTypeOK,
                  RegistryTypeOK
    <2>6. meter'[q.meter].sim = s
      <3>1. meter \in [Meters -> MeterRow] /\ meter[q.meter] \in MeterRow
        BY <2>1 DEF SerialInv, DemountInv, DemountTypeOK, RegistryTypeOK
      <3>2. CASE CommitReplace(r)
        BY <2>1, <3>1, <3>2 DEF CommitReplace, MeterRow
      <3>3. CASE CommitRemove(r)
        BY <2>1, <3>1, <3>3 DEF CommitRemove, MeterRow
      <3> QED
        BY <1>4, <3>2, <3>3
    <2>7. q.old # None
      BY <2>1, NoneAssumption
    <2>8. PICK t \in DemountIds : t = q.task
      BY <2>1
    <2>9. Order!Complete(t)
      <3> HIDE DEF q, s
      <3> QED
        BY <1>0, <2>1, <2>2, <2>3, <2>4, <2>5, <2>6, <2>7, <2>8, CompleteStep
    <2> QED
      BY <2>9 DEF Order!OrderNext
  <1>5. ASSUME UNCHANGED <<meter, demountTask>>
        PROVE  UNCHANGED Order!orderVars
    BY <1>5 DEF Order!orderVars
  <1>6. ASSUME NEW r \in DemountRequests, NEW t \in DemountIds,
               \/ ReadDemountStatus(r, t)
               \/ ReadDemountCancel(r, t)
               \/ ReadDemountComplete(r, t)
               \/ \E u \in Users : ReadDemountReassign(r, t, u)
        PROVE  UNCHANGED Order!orderVars
    BY <1>5, <1>6 DEF ReadDemountStatus, ReadDemountCancel, ReadDemountComplete,
                      ReadDemountReassign, DemountRead
  <1>7. ASSUME NEW r \in DemountRequests,
               CheckReplacement(r) \/ DemountRefused(r) \/ DemountCrash(r)
        PROVE  UNCHANGED Order!orderVars
    BY <1>5, <1>7 DEF CheckReplacement, DemountRefused, DemountCrash
  <1>8. ASSUME UNCHANGED demountVars
        PROVE  UNCHANGED Order!orderVars
    BY <1>5, <1>8 DEF demountVars
  <1>9. ASSUME NEW t \in DemountIds, Order!Open(t)
        PROVE  Order!OrderNext
    BY <1>9 DEF Order!OrderNext
  <1> QED
    BY <1>1, <1>2, <1>3, <1>4, <1>6, <1>7, <1>8, <1>9 DEF SerialNext, DemountNext

\* With one request per meter at a time the six handlers implement WorkOrder:
\* COMPLETED and CANCELLED are final, and a meter's SIM changes only when a
\* task in progress on that meter is completed.
THEOREM SerialImplementsWorkOrder == SerialDemountSpec => ImplementsWorkOrder
PROOF
  <1>1. DemountInit => Order!OrderInit
    BY InitOrder
  <1>2. SerialInv /\ [DemountNext /\ OneRequestPerMeter']_demountVars
          => [Order!OrderNext]_(Order!orderVars)
    BY NextOrder DEF SerialNext
  <1> QED
    BY <1>1, <1>2, SerialInvariant, PTL
       DEF SerialDemountSpec, ImplementsWorkOrder, Order!OrderSpec
=============================================================================

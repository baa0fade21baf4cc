------------------------- MODULE InstallTasks_proofs -------------------------
(***************************************************************************)
(* Proofs about install tasks and installation records for any number of   *)
(* meters, SIMs, operators, tasks, keys and requests in flight.            *)
(*                                                                         *)
(* InstallInv holds in every interleaving and with requests cut short      *)
(* anywhere.  CalmInv adds what a request still knows about the rows it    *)
(* read when nobody else is at work on its meter or its SIMs; that is what *)
(* makes the steps that are not in a transaction add up.                   *)
(***************************************************************************)
EXTENDS InstallTasks, WellFoundedInduction, TLAPS

\* A task with a row has a meter.
InstallTaskHasMeter ==
  \A t \in InstallIds : installTask[t].status # "NONE" => installTask[t].meter \in Meters

\* The steps that are about a SIM, and those only a request for a task comes to.
SimSteps == {"row", "sim", "meter", "link", "number", "record", "claimRead", "claim",
             "location", "complete"}
TaskSteps == {"start", "return", "recheck", "relock", "cancel", "unlock", "reassign",
              "claimRead", "claim", "location", "complete"}

\* What a request needs for its next step; it carries the meter of its task.
Ready(q, tasks) ==
  /\ IF q.at = "idle" THEN q.task = None ELSE q.meter \in Meters
  /\ q.at \in SimSteps => q.sim \in Sims
  /\ q.at \in TaskSteps => q.task # None
  /\ q.at = "record" => q.num # 0
  /\ q.task # None => /\ tasks[q.task].status # "NONE"
                      /\ tasks[q.task].meter = q.meter

\* What the tables of tasks and requests owe each other.
TasksReady ==
  /\ installTask \in [InstallIds -> InstallTask]
  /\ installReq \in [InstallRequests -> InstallRequest]
  /\ InstallTaskHasMeter
  /\ \A r \in InstallRequests : Ready(installReq[r], installTask)

\* The invariant of every interleaving, with other writers of meters as well.
InstallBase ==
  /\ RecordTypeOK
  /\ TasksReady
  /\ OneRecordPerKey
  /\ RecordNumbersUnique
  /\ OneMeterPerSim

InstallInv == InstallBase /\ StateMatchesLink

-----------------------------------------------------------------------------
\* A bounded set of numbers has a greatest element.
LEMMA Greatest ==
  ASSUME NEW n \in Nat, NEW S \in SUBSET (0 .. n), S # {}
  PROVE  \E x \in S : \A y \in S : y <= x
PROOF
  <1> DEFINE T == {k \in Nat : \E x \in S : k = n - x}
  <1>1. T \subseteq Nat /\ T # {}
    <2>1. PICK x \in S : TRUE
      OBVIOUS
    <2>2. n - x \in Nat
      OBVIOUS
    <2> QED
      BY <2>2
  <1>2. PICK t \in T : \A u \in T : ~(<<u, t>> \in OpToRel(<, Nat))
    BY <1>1, NatLessThanWellFounded, WFMin
  <1>3. \A u \in T : ~(u < t)
    BY <1>1, <1>2 DEF OpToRel
  <1>4. PICK x \in S : t = n - x
    BY <1>2
  <1>5. SUFFICES ASSUME NEW y \in S PROVE y <= x
    BY <1>4
  <1>6. n - y \in T
    <2>1. n - y \in Nat
      OBVIOUS
    <2> QED
      BY <2>1
  <1>7. ~(n - y < n - x)
    BY <1>3, <1>4, <1>6
  <1> HIDE DEF T
  <1> QED
    BY <1>7

\* The number the generator finds is one a record has, or 0.
LEMMA LastNumberType ==
  ASSUME records \subseteq Record
  PROVE  LastNumber \in 0 .. MaxRecords
PROOF
  <1> USE InstallAssumption
  <1>1. CASE records = {}
    BY <1>1 DEF LastNumber
  <1>2. CASE records # {}
    <2> DEFINE S == {rec.num : rec \in records}
    <2>1. S \subseteq 0 .. MaxRecords /\ S # {}
      BY <1>2 DEF Record
    <2>2. PICK x \in S : \A y \in S : y <= x
      BY <2>1, Greatest
    <2>3. \A rec \in records : rec.num <= x
      BY <2>2
    <2>4. LastNumber \in S
      BY <1>2, <2>2, <2>3 DEF LastNumber
    <2> QED
      BY <2>1, <2>4
  <1> QED
    BY <1>1, <1>2

-----------------------------------------------------------------------------
(* Every interleaving. *)

\* Before the first request.
LEMMA InitInstallInv == InstallInit => InstallInv
PROOF
  <1> SUFFICES ASSUME InstallInit PROVE InstallInv
    OBVIOUS
  <1> USE NoneAssumption DEF InstallInit, RecordInit, SimInit, RegistryInit, Stock
  <1>1. PICK held \in [Meters -> Sims \union {None}],
             owner \in [Sims -> Users \union {None}],
             away \in SUBSET Meters : Stock(held, owner, away)
    OBVIOUS
  <1>2. RegistryTypeOK
    <2>1. meter \in [Meters -> MeterRow]
      BY <1>1 DEF MeterRow, MeterStatus
    <2>2. sim \in [Sims -> SimRow]
      BY <1>1 DEF SimRow, SimStatus
    <2> QED
      BY <2>1, <2>2 DEF RegistryTypeOK
  <1>3. RecordTypeOK
    <2>1. IdleInstall \in InstallRequest
      BY InstallAssumption DEF IdleInstall, InstallRequest
    <2>2. simReq \in [SimRequests -> SimRequest]
      BY DEF IdleSim, SimRequest
    <2> QED
      BY <1>2, <2>1, <2>2 DEF RecordTypeOK, SimTypeOK
  <1>4. installTask \in [InstallIds -> InstallTask] /\ InstallTaskHasMeter
    BY InstallAssumption DEF InstallTask, OpenInstall, InstallTaskHasMeter
  <1>5. \A r \in InstallRequests : Ready(installReq[r], installTask)
    BY DEF Ready, IdleInstall, SimSteps, TaskSteps
  <1>6. OneRecordPerKey /\ RecordNumbersUnique
    BY DEF OneRecordPerKey, RecordNumbersUnique
  <1>7. StateMatchesLink /\ OneMeterPerSim
    BY <1>1 DEF StateMatchesLink, OneMeterPerSim
  <1> QED
    BY <1>3, <1>4, <1>5, <1>6, <1>7 DEF InstallInv, InstallBase, TasksReady, RecordTypeOK

\* A task once created stays a task of its meter.
TasksKept ==
  /\ installTask' \in [InstallIds -> InstallTask]
  /\ \A t \in InstallIds : installTask[t].status # "NONE" =>
       installTask'[t].status # "NONE" /\ installTask'[t].meter = installTask[t].meter
  /\ \A t \in InstallIds : installTask[t].status = "NONE" =>
       installTask'[t].status = "NONE" \/ installTask'[t].meter \in Meters

\* Only the request that takes the step has to be looked at.
LEMMA OneAdvances ==
  ASSUME TasksReady, TasksKept, NEW r \in InstallRequests, NEW q \in InstallRequest,
         installReq' = [installReq EXCEPT ![r] = q], Ready(q, installTask')
  PROVE  TasksReady'
PROOF
  <1>1. InstallTaskHasMeter'
    BY DEF TasksReady, TasksKept, InstallTaskHasMeter
  <1>2. ASSUME NEW p \in InstallRequests, p # r
        PROVE  Ready(installReq'[p], installTask')
    <2>1. installReq'[p] = installReq[p] /\ installReq[p] \in InstallRequest
      BY <1>2 DEF TasksReady
    <2>2. installReq[p].task # None => installReq[p].task \in InstallIds
      BY <2>1 DEF InstallRequest
    <2> QED
      BY <2>1, <2>2 DEF TasksReady, TasksKept, Ready
  <1> QED
    BY <1>1, <1>2 DEF TasksReady, TasksKept

\* A request that goes on does so from a step that knew as much.
LEMMA GoesOn ==
  ASSUME TasksReady, TasksKept, NEW r \in InstallRequests, installReq[r].at # "idle",
         NEW at \in (SimSteps \union TaskSteps) \ {"record"},
         at \in SimSteps => installReq[r].at \in SimSteps,
         at \in TaskSteps => installReq[r].task # None,
         GoTo(r, at)
  PROVE  TasksReady'
PROOF
  <1> DEFINE q == [installReq[r] EXCEPT !.at = at]
  <1>1. installReq[r] \in InstallRequest
    BY DEF TasksReady
  <1>2. q \in InstallRequest
    BY <1>1 DEF InstallRequest, SimSteps, TaskSteps
  <1>3. /\ q.at = at /\ q.task = installReq[r].task /\ q.meter = installReq[r].meter
        /\ q.sim = installReq[r].sim /\ q.num = installReq[r].num
    BY <1>1 DEF InstallRequest
  <1>4. installReq[r].task # None => installReq[r].task \in InstallIds
    BY <1>1 DEF InstallRequest
  <1>5. Ready(installReq[r], installTask)
    BY DEF TasksReady
  <1>6. installReq' = [installReq EXCEPT ![r] = q]
    BY DEF GoTo
  <1> HIDE DEF q
  <1>7. Ready(q, installTask')
    <2>1. at # "idle"
      BY DEF SimSteps, TaskSteps
    <2> QED
      BY <1>3, <1>4, <1>5, <2>1 DEF Ready, TasksKept
  <1> QED
    BY <1>2, <1>6, <1>7, OneAdvances

\* A request that ends needs nothing.
LEMMA Ends ==
  ASSUME TasksReady, TasksKept, NEW r \in InstallRequests, InstallDone(r)
  PROVE  TasksReady'
PROOF
  <1>1. IdleInstall \in InstallRequest
    BY InstallAssumption DEF IdleInstall, InstallRequest
  <1>2. Ready(IdleInstall, installTask')
    BY DEF Ready, IdleInstall, SimSteps, TaskSteps
  <1> QED
    BY <1>1, <1>2, OneAdvances DEF InstallDone

\* Tasks that are left alone are kept.
LEMMA SameTasks ==
  ASSUME TasksReady, UNCHANGED installTask
  PROVE  TasksKept
PROOF
  BY DEF TasksReady, TasksKept

\* A step that begins or ends no request.
LEMMA NoneAdvances ==
  ASSUME TasksReady, TasksKept, UNCHANGED installReq
  PROVE  TasksReady'
PROOF
  <1>1. InstallTaskHasMeter'
    BY DEF TasksReady, TasksKept, InstallTaskHasMeter
  <1>2. ASSUME NEW p \in InstallRequests
        PROVE  Ready(installReq'[p], installTask')
    <2>1. installReq'[p] = installReq[p] /\ installReq[p] \in InstallRequest
      BY DEF TasksReady
    <2>2. installReq[p].task # None => installReq[p].task \in InstallIds
      BY <2>1 DEF InstallRequest
    <2> QED
      BY <2>1, <2>2 DEF TasksReady, TasksKept, Ready
  <1> QED
    BY <1>1, <1>2 DEF TasksReady, TasksKept

\* The handlers that read a task take its meter along.
LEMMA ReadTask ==
  ASSUME TasksReady, RegistryTypeOK, NEW r \in InstallRequests, NEW t \in InstallIds,
         installTask[t].status # "NONE", NEW at \in TaskSteps,
         NEW u \in Users \union {None}, NEW s \in Sims \union {None},
         at \in SimSteps => s \in Sims, InstallRead(r, t, at, u, s)
  PROVE  TasksReady'
PROOF
  <1> DEFINE m == installTask[t].meter
             q == [IdleInstall EXCEPT !.at = at, !.task = t, !.meter = m, !.user = u,
                                      !.sim = s, !.offSite = meter[m].offSite]
  <1>1. m \in Meters
    BY DEF TasksReady, InstallTaskHasMeter
  <1>2. IdleInstall \in InstallRequest
    BY InstallAssumption DEF IdleInstall, InstallRequest
  <1>3. q \in InstallRequest
    <2>1. meter[m].offSite \in BOOLEAN
      BY <1>1 DEF RegistryTypeOK, MeterRow
    <2> HIDE DEF m
    <2> QED
      BY <1>1, <1>2, <2>1 DEF InstallRequest, TaskSteps
  <1>4. installReq' = [installReq EXCEPT ![r] = q] /\ UNCHANGED installTask
    BY DEF InstallRead
  <1>5. TasksKept
    BY <1>4, SameTasks
  <1>6. /\ q.at = at /\ q.task = t /\ q.meter = m /\ q.sim = s
    BY <1>2
  <1>7. at \notin {"idle", "record"}
    BY DEF TaskSteps
  <1> HIDE DEF q
  <1>8. Ready(q, installTask')
    BY <1>1, <1>4, <1>6, <1>7, NoneAssumption, InstallAssumption DEF Ready
  <1> QED
    BY <1>3, <1>4, <1>5, <1>8, OneAdvances

\* A write to the task a request is about keeps every task.
LEMMA WriteKeepsTasks ==
  ASSUME TasksReady, NEW r \in InstallRequests, installReq[r].at \in TaskSteps,
         NEW row \in InstallTask, row.status # "NONE", row.meter = installReq[r].meter,
         installTask' = [installTask EXCEPT ![installReq[r].task] = row]
  PROVE  TasksKept
PROOF
  <1>1. Ready(installReq[r], installTask) /\ installReq[r] \in InstallRequest
    BY DEF TasksReady
  <1>2. installReq[r].task \in InstallIds
    BY <1>1 DEF Ready, InstallRequest
  <1>3. /\ installTask[installReq[r].task].meter = installReq[r].meter
        /\ installReq[r].meter \in Meters
    BY <1>1, <1>2 DEF Ready, TaskSteps
  <1> QED
    BY <1>2, <1>3 DEF TasksReady, TasksKept

\* The steps of the handlers of install tasks.
LEMMA TaskStepReady ==
  ASSUME TasksReady, RegistryTypeOK, NEW r \in InstallRequests, InstallTaskStep(r)
  PROVE  TasksReady'
PROOF
  <1> DEFINE q == installReq[r]
             row == installTask[q.task]
  <1>1. q \in InstallRequest /\ Ready(q, installTask)
    BY DEF TasksReady
  <1>2. q.at \in TaskSteps => q.task \in InstallIds /\ q.task # None /\ row \in InstallTask
                             /\ row.status # "NONE" /\ row.meter = q.meter
    BY <1>1 DEF Ready, InstallRequest, TasksReady
  <1>3. CASE WriteInstallStatus(r)
    <2>1. TasksKept
      <3>1. CASE q.at = "start"
        BY <1>2, <1>3, <3>1, WriteKeepsTasks
           DEF WriteInstallStatus, TaskSteps, InstallTask, OpenInstall
      <3>2. CASE q.at = "return"
        <4> DEFINE new == [row EXCEPT !.status = "PENDING", !.by = None]
        <4>1. new \in InstallTask /\ new.status # "NONE" /\ new.meter = q.meter
          BY <1>2, <3>2 DEF TaskSteps, InstallTask, OpenInstall
        <4>2. installTask' = [installTask EXCEPT ![q.task] = new]
          BY <1>2, <1>3, <3>2 DEF WriteInstallStatus, TasksReady, TaskSteps
        <4> HIDE DEF new
        <4> QED
          BY <3>2, <4>1, <4>2, WriteKeepsTasks DEF TaskSteps
      <3> QED
        BY <1>3, <3>1, <3>2 DEF WriteInstallStatus
    <2> QED
      BY <1>2, <1>3, <2>1, GoesOn DEF WriteInstallStatus, TaskSteps, SimSteps
  <1>4. CASE RecheckOpen(r)
    BY <1>2, <1>4, SameTasks, GoesOn, Ends DEF RecheckOpen, TaskSteps, SimSteps
  <1>5. CASE Relock(r) \/ Unlock(r) \/ ClaimRefused(r)
    BY <1>5, SameTasks, Ends DEF Relock, Unlock, ClaimRefused
  <1>6. CASE WriteInstallCancel(r)
    <2>1. TasksKept
      <3> DEFINE new == [row EXCEPT !.status = "CANCELLED"]
      <3>1. q.at = "cancel"
        BY <1>6 DEF WriteInstallCancel
      <3>2. new \in InstallTask /\ new.status # "NONE" /\ new.meter = q.meter
        BY <1>2, <3>1 DEF TaskSteps, InstallTask, OpenInstall
      <3>3. installTask' = [installTask EXCEPT ![q.task] = new]
        BY <1>6, <3>1 DEF WriteInstallCancel
      <3> HIDE DEF new
      <3> QED
        BY <3>1, <3>2, <3>3, WriteKeepsTasks DEF TaskSteps
    <2> QED
      BY <1>2, <1>6, <2>1, GoesOn DEF WriteInstallCancel, TaskSteps, SimSteps
  <1>7. CASE WriteInstallReassign(r)
    <2>1. TasksKept
      <3> DEFINE new == [row EXCEPT !.status = "PENDING", !.by = q.user]
      <3>1. q.at = "reassign"
        BY <1>7 DEF WriteInstallReassign
      <3>2. new \in InstallTask /\ new.status # "NONE" /\ new.meter = q.meter
        BY <1>1, <1>2, <3>1 DEF TaskSteps, InstallTask, OpenInstall, InstallRequest
      <3>3. installTask' = [installTask EXCEPT ![q.task] = new]
        BY <1>2, <1>7, <3>1 DEF WriteInstallReassign, TasksReady, TaskSteps
      <3> HIDE DEF new
      <3> QED
        BY <3>1, <3>2, <3>3, WriteKeepsTasks DEF TaskSteps
    <2> QED
      BY <1>7, <2>1, Ends DEF WriteInstallReassign
  <1>8. CASE ReadClaimForTask(r)
    <2>1. CASE GoTo(r, AfterClaim(q))
      BY <1>2, <1>8, <2>1, SameTasks, GoesOn
         DEF ReadClaimForTask, AfterClaim, TaskSteps, SimSteps
    <2>2. CASE GoTo(r, "claim")
      BY <1>2, <1>8, <2>2, SameTasks, GoesOn DEF ReadClaimForTask, TaskSteps, SimSteps
    <2> QED
      BY <1>8, <2>1, <2>2 DEF ReadClaimForTask
  <1>9. CASE WriteClaimForTask(r)
    BY <1>2, <1>9, SameTasks, GoesOn DEF WriteClaimForTask, AfterClaim, TaskSteps, SimSteps
  <1>10. CASE WriteLocation(r)
    BY <1>2, <1>10, SameTasks, GoesOn DEF WriteLocation, TaskSteps, SimSteps
  <1>11. CASE WriteInstallComplete(r)
    <2>1. TasksKept
      <3> DEFINE new == [row EXCEPT !.status = "COMPLETED", !.record = q.num]
      <3>1. q.at = "complete"
        BY <1>11 DEF WriteInstallComplete
      <3>2. new \in InstallTask /\ new.status # "NONE" /\ new.meter = q.meter
        BY <1>1, <1>2, <3>1 DEF TaskSteps, InstallTask, OpenInstall, InstallRequest
      <3>3. installTask' = [installTask EXCEPT ![q.task] = new]
        BY <1>2, <1>11, <3>1 DEF WriteInstallComplete, TasksReady, TaskSteps
      <3> HIDE DEF new
      <3> QED
        BY <3>1, <3>2, <3>3, WriteKeepsTasks DEF TaskSteps
    <2> QED
      BY <1>2, <1>11, <2>1, GoesOn DEF WriteInstallComplete, TaskSteps, SimSteps
  <1> QED
    BY <1>3, <1>4, <1>5, <1>6, <1>7, <1>8, <1>9, <1>10, <1>11 DEF InstallTaskStep

\* The steps of create, with or without a task.
LEMMA RecordStepReady ==
  ASSUME TasksReady, RegistryTypeOK, records \subseteq Record, UNCHANGED installTask,
         NEW r \in InstallRequests, RecordStep(r) \/ InstallCrash(r)
  PROVE  TasksReady'
PROOF
  <1> DEFINE q == installReq[r]
  <1>1. q \in InstallRequest /\ Ready(q, installTask) /\ TasksKept
    BY SameTasks DEF TasksReady
  <1>2. q.task # None => q.task \in InstallIds
    BY <1>1 DEF InstallRequest
  <1>3. CASE CreateMeterRow(r) \/ ReadSim(r)
    BY <1>1, <1>3, GoesOn DEF CreateMeterRow, ReadSim, TaskSteps, SimSteps
  <1>4. CASE RefuseSim(r) \/ RecordRefused(r) \/ InstallCrash(r)
    BY <1>1, <1>4, Ends DEF RefuseSim, RecordRefused, InstallCrash
  <1>5. CASE ReadMeter(r)
    <2> DEFINE new == [q EXCEPT !.at = "link", !.old = meter[q.meter].sim]
    <2>1. q.at = "meter" /\ q.meter \in Meters /\ q.sim \in Sims
      BY <1>1, <1>5 DEF ReadMeter, Ready, SimSteps
    <2>2. meter[q.meter].sim \in Sims \union {None}
      BY <2>1 DEF RegistryTypeOK, MeterRow
    <2>3. new \in InstallRequest
      BY <1>1, <2>2 DEF InstallRequest
    <2>4. new.at = "link" /\ new.task = q.task /\ new.meter = q.meter /\ new.sim = q.sim
      BY <1>1 DEF InstallRequest
    <2>5. installReq' = [installReq EXCEPT ![r] = new]
      BY <1>5 DEF ReadMeter, TasksReady
    <2> HIDE DEF new
    <2>6. Ready(new, installTask')
      BY <1>1, <1>2, <2>1, <2>4 DEF Ready, TaskSteps
    <2> QED
      BY <1>1, <2>3, <2>5, <2>6, OneAdvances
  <1>6. CASE LinkSim(r)
    <2>1. q.at = "link" /\ GoTo(r, "number")
      BY <1>6 DEF LinkSim
    <2> QED
      BY <1>1, <2>1, GoesOn DEF TaskSteps, SimSteps
  <1>7. CASE TakeNumber(r)
    <2> DEFINE new == [q EXCEPT !.at = "record", !.num = LastNumber + 1]
    <2>1. q.at = "number" /\ q.meter \in Meters /\ q.sim \in Sims
      BY <1>1, <1>7 DEF TakeNumber, Ready, SimSteps
    <2>2. LastNumber \in 0 .. MaxRecords /\ LastNumber < MaxRecords
      BY <1>7, LastNumberType DEF TakeNumber
    <2>3. LastNumber + 1 \in 0 .. MaxRecords /\ LastNumber + 1 # 0
      BY <2>2, InstallAssumption
    <2>4. new \in InstallRequest
      BY <1>1, <2>3 DEF InstallRequest
    <2>5. /\ new.at = "record" /\ new.task = q.task /\ new.meter = q.meter
          /\ new.sim = q.sim /\ new.num # 0
      BY <1>1, <2>3 DEF InstallRequest
    <2>6. installReq' = [installReq EXCEPT ![r] = new]
      BY <1>7 DEF TakeNumber, TasksReady
    <2> HIDE DEF new
    <2>7. Ready(new, installTask')
      BY <1>1, <1>2, <2>1, <2>5 DEF Ready, TaskSteps
    <2> QED
      BY <1>1, <2>4, <2>6, <2>7, OneAdvances
  <1>8. CASE InsertRecord(r)
    <2>1. q.at = "record"
      BY <1>8 DEF InsertRecord
    <2>2. CASE q.task = None
      BY <1>1, <1>8, <2>2, Ends DEF InsertRecord
    <2>3. CASE q.task # None
      BY <1>1, <1>8, <2>1, <2>3, GoesOn DEF InsertRecord, TaskSteps, SimSteps
    <2> QED
      BY <2>2, <2>3
  <1> QED
    BY <1>3, <1>4, <1>5, <1>6, <1>7, <1>8 DEF RecordStep

\* A form or an outbox item that comes in names a meter and a SIM.
LEMMA SubmitReady ==
  ASSUME TasksReady, form \in [Keys -> Form], SubmitNext, UNCHANGED installTask
  PROVE  TasksReady'
PROOF
  <1>1. IdleInstall \in InstallRequest /\ IdleInstall.task = None
    BY InstallAssumption DEF IdleInstall, InstallRequest
  <1>2. TasksKept
    BY SameTasks
  <1>3. ASSUME NEW r \in InstallRequests, NEW k \in Keys, SubmitItem(r, k)
        PROVE  TasksReady'
    <2> DEFINE at == IF form[k].new THEN "row" ELSE "sim"
               new == [IdleInstall EXCEPT !.at = at, !.key = k, !.meter = form[k].meter,
                                          !.sim = form[k].sim, !.user = form[k].user]
    <2>1. form[k].meter \in Meters /\ form[k].sim \in Sims /\ form[k].user \in Users
      BY DEF Form
    <2>2. at \in {"row", "sim"}
      OBVIOUS
    <2>3. installReq' = [installReq EXCEPT ![r] = new]
      BY <1>3 DEF SubmitItem
    <2> HIDE DEF at
    <2>4. new \in InstallRequest
      BY <1>1, <2>1, <2>2 DEF InstallRequest
    <2>5. /\ new.at = at /\ new.task = None
          /\ new.meter = form[k].meter /\ new.sim = form[k].sim
      BY <1>1, <2>1, <2>2 DEF InstallRequest
    <2> HIDE DEF new
    <2>6. Ready(new, installTask')
      BY <2>1, <2>2, <2>5 DEF Ready, TaskSteps
    <2> QED
      BY <1>2, <2>3, <2>4, <2>6, OneAdvances
  <1>4. ASSUME NEW r \in InstallRequests, NEW m \in Meters, NEW s \in Sims, NEW u \in Users,
               SubmitForm(r, m, s, u)
        PROVE  TasksReady'
    <2> DEFINE new == [IdleInstall EXCEPT !.at = "sim", !.meter = m, !.sim = s, !.user = u]
    <2>1. installReq' = [installReq EXCEPT ![r] = new]
      BY <1>4 DEF SubmitForm
    <2>2. new \in InstallRequest
      BY <1>1 DEF InstallRequest
    <2>3. new.at = "sim" /\ new.task = None /\ new.meter = m /\ new.sim = s
      BY <1>1 DEF InstallRequest
    <2> HIDE DEF new
    <2>4. Ready(new, installTask')
      BY <2>3 DEF Ready, TaskSteps
    <2> QED
      BY <1>2, <2>1, <2>2, <2>4, OneAdvances
  <1> QED
    BY <1>3, <1>4 DEF SubmitNext

\* Every step keeps tasks and requests together.
LEMMA NextTasksReady ==
  ASSUME TasksReady, RecordTypeOK, InstallNext
  PROVE  TasksReady'
PROOF
  <1> USE DEF RecordTypeOK, SimTypeOK
  <1>1. ASSUME NEW t \in InstallIds, NEW m \in Meters, NEW u \in Users, CreateInstall(t, m, u)
        PROVE  TasksReady'
    <2> DEFINE row == [status |-> "PENDING", meter |-> m, by |-> u, record |-> 0]
    <2>1. row \in InstallTask
      BY InstallAssumption DEF InstallTask, OpenInstall
    <2>2. TasksKept
      BY <1>1, <2>1 DEF CreateInstall, TasksReady, TasksKept
    <2> QED
      BY <1>1, <2>2, NoneAdvances DEF CreateInstall
  <1>2. ASSUME NEW r \in InstallRequests, NEW t \in InstallIds, ReadInstallStatus(r, t)
        PROVE  TasksReady'
    <2>1. installTask[t].by \in Users \union {None}
      BY DEF TasksReady, InstallTask
    <2> QED
      BY <1>2, <2>1, ReadTask DEF ReadInstallStatus, TaskSteps, SimSteps
  <1>3. ASSUME NEW r \in InstallRequests, NEW t \in InstallIds, ReadInstallCancel(r, t)
        PROVE  TasksReady'
    <2>1. installTask[t].status # "NONE" /\ InstallRead(r, t, "cancel", None, None)
      BY <1>3 DEF ReadInstallCancel, OpenInstall
    <2> QED
      BY <2>1, ReadTask DEF TaskSteps, SimSteps
  <1>4. ASSUME NEW r \in InstallRequests, NEW t \in InstallIds, NEW u \in Users,
               ReadInstallReassign(r, t, u)
        PROVE  TasksReady'
    <2>1. installTask[t].status # "NONE" /\ InstallRead(r, t, "reassign", u, None)
      BY <1>4 DEF ReadInstallReassign, OpenInstall
    <2> QED
      BY <2>1, ReadTask DEF TaskSteps, SimSteps
  <1>5. ASSUME NEW r \in InstallRequests, NEW t \in InstallIds, NEW s \in Sims,
               ReadInstallComplete(r, t, s)
        PROVE  TasksReady'
    <2>1. installTask[t].by \in Users \union {None}
      BY DEF TasksReady, InstallTask
    <2>2. /\ installTask[t].status # "NONE"
          /\ InstallRead(r, t, "claimRead", installTask[t].by, s)
      BY <1>5 DEF ReadInstallComplete
    <2> QED
      BY <2>1, <2>2, ReadTask DEF TaskSteps
  <1> QED
    BY <1>1, <1>2, <1>3, <1>4, <1>5, TaskStepReady, SubmitReady, RecordStepReady
       DEF InstallNext, InstallTaskNext, RecordNext

\* Taking or releasing the lock, and writing the location, leave the link as it is.
LEMMA FlagWritten ==
  ASSUME RegistryTypeOK, NEW m \in Meters, NEW b \in BOOLEAN,
         \/ meter' = [meter EXCEPT ![m].openInstall = b]
         \/ meter' = [meter EXCEPT ![m].offSite = b]
  PROVE  /\ meter' \in [Meters -> MeterRow]
         /\ \A n \in Meters : meter'[n].sim = meter[n].sim /\ meter'[n].state = meter[n].state
         /\ \A n \in Meters : meter'[n].openDemount = meter[n].openDemount
PROOF
  <1> USE DEF RegistryTypeOK, MeterRow
  <1>1. CASE meter' = [meter EXCEPT ![m].openInstall = b]
    BY <1>1
  <1>2. CASE meter' = [meter EXCEPT ![m].offSite = b]
    BY <1>2
  <1> QED
    BY <1>1, <1>2

\* What a step does to the meters: it links one, by the unique index, or leaves
\* every link.
LinkOnly ==
  /\ meter' \in [Meters -> MeterRow]
  /\ \A n \in Meters : meter'[n].openDemount = meter[n].openDemount
  /\ \/ \A n \in Meters : meter'[n].sim = meter[n].sim /\ meter'[n].state = meter[n].state
     \/ \E m \in Meters, s \in Sims :
          /\ LinkAllowed(m, s)
          /\ meter'[m].sim = s /\ meter'[m].state = "INSTALLED"
          /\ \A n \in Meters \ {m} :
               meter'[n].sim = meter[n].sim /\ meter'[n].state = meter[n].state

\* The transaction of create writes both columns.
LEMMA LinkWritten ==
  ASSUME InstallBase, NEW r \in InstallRequests, LinkSim(r)
  PROVE  LinkOnly /\ sim' \in [Sims -> SimRow]
PROOF
  <1> DEFINE q == installReq[r]
  <1>1. Ready(q, installTask) /\ q.at = "link"
    BY DEF InstallInv, InstallBase, TasksReady, LinkSim
  <1>2. q.meter \in Meters /\ q.sim \in Sims /\ LinkAllowed(q.meter, q.sim)
    BY <1>1 DEF Ready, SimSteps, LinkSim, InstallAllowed
  <1>3. meter \in [Meters -> MeterRow] /\ sim \in [Sims -> SimRow]
    BY DEF InstallInv, InstallBase, RecordTypeOK, SimTypeOK, RegistryTypeOK
  <1>4. meter' = MetersAfterLink(q) /\ sim' = SimsAfterLink(q)
    BY DEF LinkSim
  <1> HIDE DEF q
  <1>5. meter' \in [Meters -> MeterRow]
    BY <1>2, <1>3, <1>4 DEF MetersAfterLink, MeterRow
  <1>6. /\ meter'[q.meter].sim = q.sim /\ meter'[q.meter].state = "INSTALLED"
        /\ \A n \in Meters : meter'[n].openDemount = meter[n].openDemount
        /\ \A n \in Meters \ {q.meter} :
             meter'[n].sim = meter[n].sim /\ meter'[n].state = meter[n].state
    BY <1>2, <1>3, <1>4 DEF MetersAfterLink, MeterRow
  <1>7. sim' \in [Sims -> SimRow]
    BY <1>2, <1>3, <1>4 DEF SimsAfterLink, SimRow, SimStatus
  <1> QED
    BY <1>2, <1>5, <1>6, <1>7 DEF LinkOnly

\* The rows of SIMs and meters keep their types, and links come by the index only.
LEMMA NextRegistry ==
  ASSUME InstallBase, [InstallNext]_installVars
  PROVE  LinkOnly /\ sim' \in [Sims -> SimRow]
PROOF
  <1>1. meter \in [Meters -> MeterRow] /\ sim \in [Sims -> SimRow] /\ RegistryTypeOK
    BY DEF InstallInv, InstallBase, RecordTypeOK, SimTypeOK, RegistryTypeOK
  <1>2. CASE UNCHANGED registryVars
    BY <1>1, <1>2 DEF registryVars, LinkOnly
  <1>3. ASSUME NEW t \in InstallIds, NEW m \in Meters, NEW u \in Users, CreateInstall(t, m, u)
        PROVE  LinkOnly /\ sim' \in [Sims -> SimRow]
    BY <1>1, <1>3, FlagWritten DEF CreateInstall, LinkOnly
  <1>4. ASSUME NEW r \in InstallRequests, Relock(r) \/ Unlock(r) \/ WriteLocation(r)
        PROVE  LinkOnly /\ sim' \in [Sims -> SimRow]
    <2>1. installReq[r].meter \in Meters
      BY <1>4 DEF Relock, Unlock, WriteLocation, InstallInv, InstallBase, TasksReady, Ready
    <2> QED
      BY <1>1, <1>4, <2>1, FlagWritten DEF Relock, Unlock, WriteLocation, LinkOnly
  <1>5. ASSUME NEW r \in InstallRequests, WriteClaimForTask(r)
        PROVE  LinkOnly /\ sim' \in [Sims -> SimRow]
    <2>1. installReq[r].user \in Users \union {None}
      BY DEF InstallInv, InstallBase, TasksReady, InstallRequest
    <2>2. AssignedTo(installReq[r].user) \in SimRow
      BY <2>1 DEF AssignedTo, SimRow, SimStatus
    <2> QED
      BY <1>1, <1>5, <2>2 DEF WriteClaimForTask, LinkOnly
  <1>6. ASSUME NEW r \in InstallRequests, InstallTaskStep(r)
        PROVE  LinkOnly /\ sim' \in [Sims -> SimRow]
    BY <1>2, <1>4, <1>5, <1>6
       DEF InstallTaskStep, WriteInstallStatus, RecheckOpen, WriteInstallCancel,
           WriteInstallReassign, ReadClaimForTask, ClaimRefused, WriteInstallComplete,
           TablesUnchanged
  <1>7. ASSUME NEW r \in InstallRequests, NEW t \in InstallIds,
               \/ ReadInstallStatus(r, t)
               \/ ReadInstallCancel(r, t)
               \/ \E u \in Users : ReadInstallReassign(r, t, u)
               \/ \E s \in Sims : ReadInstallComplete(r, t, s)
        PROVE  LinkOnly /\ sim' \in [Sims -> SimRow]
    BY <1>2, <1>7
       DEF ReadInstallStatus, ReadInstallCancel, ReadInstallReassign, ReadInstallComplete,
           InstallRead, TablesUnchanged
  <1>8. ASSUME RecordNext
        PROVE  LinkOnly /\ sim' \in [Sims -> SimRow]
    BY <1>2, <1>8, LinkWritten
       DEF RecordNext, SubmitNext, SubmitItem, SubmitForm, RecordStep, CreateMeterRow,
           ReadSim, RefuseSim, ReadMeter, TakeNumber, InsertRecord, RecordRefused,
           InstallCrash
  <1>9. CASE UNCHANGED installVars
    BY <1>2, <1>9 DEF installVars, recordVars, registryVars
  <1> QED
    BY <1>3, <1>6, <1>7, <1>8, <1>9 DEF InstallNext, InstallTaskNext

\* Records and the rest of the tables.
LEMMA NextRecords ==
  ASSUME InstallBase, [InstallNext]_installVars
  PROVE  /\ OneRecordPerKey' /\ RecordNumbersUnique'
         /\ records' \subseteq Record
         /\ simReq' \in [SimRequests -> SimRequest]
         /\ fresh' \subseteq Meters
         /\ form' \in [Keys -> Form]
         /\ UNCHANGED <<simReq, form>>
PROOF
  <1>1. /\ OneRecordPerKey /\ RecordNumbersUnique /\ records \subseteq Record
        /\ simReq \in [SimRequests -> SimRequest] /\ fresh \subseteq Meters
        /\ form \in [Keys -> Form]
    BY DEF InstallInv, InstallBase, RecordTypeOK, SimTypeOK
  <1>2. UNCHANGED <<simReq, form>> /\ fresh' \subseteq fresh
    <2>1. ASSUME NEW r \in InstallRequests, InstallTaskStep(r)
          PROVE  UNCHANGED <<simReq, form>> /\ fresh' \subseteq fresh
      BY <2>1
         DEF InstallTaskStep, WriteInstallStatus, RecheckOpen, Relock, WriteInstallCancel,
             Unlock, WriteInstallReassign, ReadClaimForTask, WriteClaimForTask, ClaimRefused,
             WriteLocation, WriteInstallComplete, TablesUnchanged
    <2>2. ASSUME InstallTaskNext
          PROVE  UNCHANGED <<simReq, form>> /\ fresh' \subseteq fresh
      BY <2>1, <2>2
         DEF InstallTaskNext, CreateInstall, ReadInstallStatus, ReadInstallCancel,
             ReadInstallReassign, ReadInstallComplete, InstallRead, TablesUnchanged
    <2>3. ASSUME RecordNext
          PROVE  UNCHANGED <<simReq, form>> /\ fresh' \subseteq fresh
      BY <2>3
         DEF RecordNext, SubmitNext, SubmitItem, SubmitForm, RecordStep, CreateMeterRow,
             ReadSim, RefuseSim, ReadMeter, LinkSim, TakeNumber, InsertRecord,
             RecordRefused, InstallCrash
    <2> QED
      BY <2>2, <2>3 DEF InstallNext, installVars, recordVars
  <1>3. ASSUME NEW r \in InstallRequests, InsertRecord(r)
        PROVE  records' \subseteq Record /\ OneRecordPerKey' /\ RecordNumbersUnique'
    <2> DEFINE q == installReq[r]
               new == [num |-> q.num, key |-> q.key, meter |-> q.meter, sim |-> q.sim]
    <2>1. q \in InstallRequest /\ Ready(q, installTask) /\ q.at = "record"
      BY <1>3 DEF InsertRecord, InstallInv, InstallBase, TasksReady
    <2>2. q.meter \in Meters /\ q.sim \in Sims /\ q.num # 0
      BY <2>1 DEF Ready, SimSteps
    <2>3. q.num \in 1 .. MaxRecords /\ q.key \in Keys \union {None}
      BY <2>1, <2>2, InstallAssumption DEF InstallRequest
    <2>4. new \in Record
      BY <2>2, <2>3 DEF Record
    <2>5. records' = records \union {new}
      BY <1>3 DEF InsertRecord
    <2>6. \A rec \in records : rec.num # new.num /\ (q.key # None => rec.key # new.key)
      BY <1>3 DEF InsertRecord, InsertAllowed
    <2> HIDE DEF new
    <2>7. new.key = q.key
      BY DEF new
    <2>8. OneRecordPerKey'
      BY <1>1, <2>4, <2>5, <2>6, <2>7 DEF OneRecordPerKey
    <2>9. RecordNumbersUnique'
      BY <1>1, <2>4, <2>5, <2>6 DEF RecordNumbersUnique
    <2> QED
      BY <1>1, <2>4, <2>5, <2>8, <2>9
  <1>4. ASSUME ~\E r \in InstallRequests : InsertRecord(r)
        PROVE  UNCHANGED records
    <2>1. ASSUME NEW r \in InstallRequests, InstallTaskStep(r)
          PROVE  UNCHANGED records
      BY <2>1
         DEF InstallTaskStep, WriteInstallStatus, RecheckOpen, Relock, WriteInstallCancel,
             Unlock, WriteInstallReassign, ReadClaimForTask, WriteClaimForTask, ClaimRefused,
             WriteLocation, WriteInstallComplete, TablesUnchanged
    <2>2. ASSUME InstallTaskNext
          PROVE  UNCHANGED records
      BY <2>1, <2>2
         DEF InstallTaskNext, CreateInstall, ReadInstallStatus, ReadInstallCancel,
             ReadInstallReassign, ReadInstallComplete, InstallRead, TablesUnchanged
    <2>3. ASSUME RecordNext
          PROVE  UNCHANGED records
      BY <1>4, <2>3
         DEF RecordNext, SubmitNext, SubmitItem, SubmitForm, RecordStep, CreateMeterRow,
             ReadSim, RefuseSim, ReadMeter, LinkSim, TakeNumber,
             RecordRefused, InstallCrash
    <2> QED
      BY <2>2, <2>3 DEF InstallNext, installVars, recordVars
  <1> QED
    BY <1>1, <1>2, <1>3, <1>4 DEF OneRecordPerKey, RecordNumbersUnique

\* Every step, of a request or cutting one short, keeps what does not need that the
\* state column matches the link.
LEMMA NextInstallBase == InstallBase /\ [InstallNext]_installVars => InstallBase'
PROOF
  <1> SUFFICES ASSUME InstallBase, [InstallNext]_installVars PROVE InstallBase'
    OBVIOUS
  <1>1. LinkOnly /\ sim' \in [Sims -> SimRow]
    BY NextRegistry
  <1>2. TasksReady'
    <2>1. CASE InstallNext
      BY <2>1, NextTasksReady DEF InstallBase
    <2>2. CASE UNCHANGED installVars
      <3>1. UNCHANGED installReq /\ UNCHANGED installTask
        BY <2>2 DEF installVars, recordVars
      <3> QED
        BY <3>1, SameTasks, NoneAdvances DEF InstallBase
    <2> QED
      BY <2>1, <2>2
  <1>3. RecordTypeOK'
    BY <1>1, <1>2, NextRecords
       DEF RecordTypeOK, SimTypeOK, RegistryTypeOK, LinkOnly, TasksReady
  <1>4. OneMeterPerSim'
    BY <1>1, NoneAssumption DEF InstallBase, OneMeterPerSim, LinkOnly, LinkAllowed
  <1> QED
    BY <1>2, <1>3, <1>4, NextRecords DEF InstallBase

\* Both columns are written together.
LEMMA NextInstallInv == InstallInv /\ [InstallNext]_installVars => InstallInv'
PROOF
  <1> SUFFICES ASSUME InstallInv, [InstallNext]_installVars PROVE InstallInv'
    OBVIOUS
  <1>1. LinkOnly
    BY NextRegistry DEF InstallInv
  <1>2. StateMatchesLink'
    BY <1>1, NoneAssumption DEF InstallInv, StateMatchesLink, LinkOnly
  <1> QED
    BY <1>2, NextInstallBase DEF InstallInv

\* An edit replaces key, meter and SIM of one record; its number stays.
LEMMA EditInstallInv ==
  InstallInv /\ EditNext /\ UNCHANGED installTask => InstallInv'
PROOF
  <1> SUFFICES ASSUME InstallInv, EditNext, UNCHANGED installTask PROVE InstallInv'
    OBVIOUS
  <1>1. PICK rec \in records, key \in Keys \union {None}, m \in Meters,
             s \in Sims \union {None} : EditRecord(rec, key, m, s)
    BY DEF EditNext
  <1> DEFINE new == [rec EXCEPT !.key = key, !.meter = m, !.sim = s]
  <1>2. /\ UNCHANGED <<meter, sim, simReq, fresh, form, installReq>>
        /\ records' = (records \ {rec}) \union {new}
        /\ key # None => \A other \in records \ {rec} : other.key # key
    BY <1>1 DEF EditRecord, registryVars
  <1>3. /\ records \subseteq Record /\ OneRecordPerKey /\ RecordNumbersUnique
        /\ SimTypeOK /\ fresh \subseteq Meters /\ form \in [Keys -> Form]
        /\ TasksReady /\ OneMeterPerSim /\ StateMatchesLink
    BY DEF InstallInv, InstallBase, RecordTypeOK
  <1>4. new \in Record /\ new.num = rec.num /\ new.key = key
    BY <1>3 DEF Record
  <1> HIDE DEF new
  <1>5. records' \subseteq Record
    BY <1>2, <1>3, <1>4
  <1>6. OneRecordPerKey'
    BY <1>2, <1>3, <1>4 DEF OneRecordPerKey
  <1>7. RecordNumbersUnique'
    BY <1>2, <1>3, <1>4 DEF RecordNumbersUnique
  <1>8. SimTypeOK' /\ OneMeterPerSim' /\ StateMatchesLink'
    BY <1>2, <1>3 DEF SimTypeOK, RegistryTypeOK, OneMeterPerSim, StateMatchesLink
  <1>9. TasksReady'
    BY <1>2, <1>3 DEF TasksReady, InstallTaskHasMeter, Ready
  <1>10. RecordTypeOK'
    BY <1>2, <1>3, <1>5, <1>8, <1>9 DEF RecordTypeOK, TasksReady
  <1> QED
    BY <1>6, <1>7, <1>8, <1>9, <1>10 DEF InstallInv, InstallBase

\* What the invariant says at every state.
THEOREM InstallInvariant == InstallSpec => []InstallInv
PROOF
  <1>1. InstallInv /\ [InstallNext \/ (EditNext /\ UNCHANGED installTask)]_installVars
          => InstallInv'
    BY NextInstallInv, EditInstallInv
  <1> QED
    BY <1>1, InitInstallInv, PTL DEF InstallSpec

\* The types of tasks, records and requests (installation-records.service.ts create,
\* install-tasks.service.ts): a request on its way always has the rows it works on.
THEOREM InstallTypesHold == InstallSpec => []InstallTypeOK
PROOF
  <1>1. InstallInv => InstallTypeOK
    BY DEF InstallInv, InstallBase, InstallTypeOK, TasksReady
  <1> QED
    BY <1>1, InstallInvariant, PTL

\* An outbox item gets at most one record, however often it is sent and wherever a
\* request for it is cut short (create looks the key up and inserts in two steps).
THEOREM OneRecordPerKeyHolds == InstallSpec => []OneRecordPerKey
PROOF
  <1>1. InstallInv => OneRecordPerKey
    BY DEF InstallInv, InstallBase
  <1> QED
    BY <1>1, InstallInvariant, PTL

\* Record numbers stay unique although requests read the same highest number
\* (RecordNumberGenerator.generate before the insert) and records are edited.
THEOREM RecordNumbersUniqueHolds == InstallSpec => []RecordNumbersUnique
PROOF
  <1>1. InstallInv => RecordNumbersUnique
    BY DEF InstallInv, InstallBase
  <1> QED
    BY <1>1, InstallInvariant, PTL

-----------------------------------------------------------------------------
(* Requests that are not cut short and keep apart. *)

\* What a request still knows of the rows it has read or written.
Knows(q, mt, sm, tasks, recs) ==
  /\ q.at = "claim" => sm[q.sim].status = "AVAILABLE"
  /\ q.at = "link" => mt[q.meter].sim = q.old
  /\ q.at \in {"number", "record", "complete"} => mt[q.meter].sim = q.sim
  /\ q.at = "complete" =>
       \E rec \in recs : rec.num = q.num /\ rec.meter = q.meter /\ rec.sim = q.sim
  /\ q.at \in {"recheck", "relock"} => tasks[q.task].status \in OpenInstall

RequestsKnow ==
  \A r \in InstallRequests : Knows(installReq[r], meter, sim, installTask, records)

\* The invariant of requests that keep apart.
CalmInv ==
  /\ InstallInv
  /\ InstallsApart
  /\ RequestsKnow
  /\ SimMeterAgreement
  /\ InstallLockHasTask

\* Before the first request everybody keeps apart.
LEMMA InitCalmInv == InstallInit => CalmInv
PROOF
  <1> SUFFICES ASSUME InstallInit PROVE CalmInv
    OBVIOUS
  <1>1. InstallInv
    BY InitInstallInv
  <1>2. \A r \in InstallRequests : installReq[r].at = "idle"
    BY DEF InstallInit, RecordInit, IdleInstall
  <1>3. InstallsApart
    BY <1>2 DEF InstallsApart
  <1>4. RequestsKnow
    BY <1>2 DEF RequestsKnow, Knows
  <1>5. PICK held \in [Meters -> Sims \union {None}],
             owner \in [Sims -> Users \union {None}],
             away \in SUBSET Meters : Stock(held, owner, away)
    BY DEF InstallInit, RecordInit, SimInit, RegistryInit
  <1>6. SimMeterAgreement
    BY <1>5, NewSimsAssumption DEF SimMeterAgreement, InMeter, Stock
  <1>7. InstallLockHasTask
    BY <1>5 DEF InstallLockHasTask, Stock
  <1> QED
    BY <1>1, <1>3, <1>4, <1>6, <1>7 DEF CalmInv

\* A step of request r leaves alone what is not its own.
OwnRowsOnly(r) ==
  LET q == installReq[r] IN
  /\ q.at # "idle"
  /\ \A p \in InstallRequests \ {r} : installReq'[p] = installReq[p]
  /\ \A m \in Meters \ {q.meter} : meter'[m] = meter[m]
  /\ \A s \in Sims \ SimsOf(q) : sim'[s] = sim[s]
  /\ \A t \in InstallIds : t # q.task => installTask'[t] = installTask[t]
  /\ records \subseteq records'

\* It does, whatever the step.
LEMMA StepsTouchOwnRows ==
  ASSUME InstallInv, NEW r \in InstallRequests,
         InstallTaskStep(r) \/ (RecordStep(r) /\ UNCHANGED installTask)
  PROVE  OwnRowsOnly(r)
PROOF
  <1> DEFINE q == installReq[r]
  <1>1. /\ installReq \in [InstallRequests -> InstallRequest]
        /\ installTask \in [InstallIds -> InstallTask]
        /\ meter \in [Meters -> MeterRow] /\ sim \in [Sims -> SimRow]
        /\ Ready(q, installTask) /\ q \in InstallRequest
    BY DEF InstallInv, InstallBase, TasksReady, RecordTypeOK, SimTypeOK, RegistryTypeOK
  <1>2. ASSUME NEW at, GoTo(r, at)
        PROVE  \A p \in InstallRequests \ {r} : installReq'[p] = installReq[p]
    BY <1>1, <1>2 DEF GoTo
  <1>3. ASSUME InstallDone(r)
        PROVE  \A p \in InstallRequests \ {r} : installReq'[p] = installReq[p]
    BY <1>1, <1>3 DEF InstallDone
  <1>4. CASE WriteInstallStatus(r) \/ WriteInstallCancel(r) \/ WriteInstallReassign(r)
               \/ WriteInstallComplete(r)
    BY <1>1, <1>2, <1>3, <1>4
       DEF OwnRowsOnly, WriteInstallStatus, WriteInstallCancel, WriteInstallReassign,
           WriteInstallComplete, TablesUnchanged, registryVars
  <1>5. CASE RecheckOpen(r) \/ ReadClaimForTask(r) \/ ClaimRefused(r)
    BY <1>2, <1>3, <1>5
       DEF OwnRowsOnly, RecheckOpen, ReadClaimForTask, ClaimRefused, TablesUnchanged,
           registryVars
  <1>6. CASE Relock(r) \/ Unlock(r) \/ WriteLocation(r)
    BY <1>1, <1>2, <1>3, <1>6 DEF OwnRowsOnly, Relock, Unlock, WriteLocation
  <1>7. CASE WriteClaimForTask(r)
    <2>1. q.sim \in SimsOf(q)
      BY <1>1, <1>7, NoneAssumption DEF WriteClaimForTask, SimsOf, Ready, SimSteps
    <2> QED
      BY <1>1, <1>2, <1>7, <2>1 DEF OwnRowsOnly, WriteClaimForTask
  <1>8. CASE LinkSim(r) /\ UNCHANGED installTask
    <2>1. \A s \in Sims \ SimsOf(q) : s # q.sim /\ s # q.old
      BY NoneAssumption DEF SimsOf
    <2> QED
      BY <1>1, <1>2, <1>8, <2>1
         DEF OwnRowsOnly, LinkSim, MetersAfterLink, SimsAfterLink
  <1>9. CASE (CreateMeterRow(r) \/ ReadSim(r) \/ RefuseSim(r) \/ InsertRecord(r)
               \/ RecordRefused(r)) /\ UNCHANGED installTask
    BY <1>2, <1>3, <1>9
       DEF OwnRowsOnly, CreateMeterRow, ReadSim, RefuseSim, InsertRecord, RecordRefused,
           registryVars
  <1>10. CASE (ReadMeter(r) \/ TakeNumber(r)) /\ UNCHANGED installTask
    BY <1>1, <1>10 DEF OwnRowsOnly, ReadMeter, TakeNumber, registryVars
  <1> QED
    BY <1>4, <1>5, <1>6, <1>7, <1>8, <1>9, <1>10 DEF InstallTaskStep, RecordStep

\* So what the others know stays true.
LEMMA OthersKnow ==
  ASSUME CalmInv, NEW r \in InstallRequests, OwnRowsOnly(r),
         NEW p \in InstallRequests, p # r
  PROVE  Knows(installReq'[p], meter', sim', installTask', records')
PROOF
  <1> DEFINE q == installReq[p]
  <1>1. installReq'[p] = q /\ q.at # "idle" => q.meter # installReq[r].meter
    BY DEF OwnRowsOnly, CalmInv, InstallsApart
  <1>2. installReq'[p] = q /\ Knows(q, meter, sim, installTask, records)
    BY DEF OwnRowsOnly, CalmInv, RequestsKnow
  <1>3. Ready(q, installTask) /\ Ready(installReq[r], installTask) /\ q \in InstallRequest
    BY DEF CalmInv, InstallInv, InstallBase, TasksReady
  <1>4. q.at \in SimSteps => q.sim \notin SimsOf(installReq[r])
    BY <1>3, NoneAssumption
       DEF OwnRowsOnly, CalmInv, InstallsApart, SimsOf, Ready, SimSteps
  <1>5. q.at \in TaskSteps => q.task \in InstallIds /\ q.task # installReq[r].task
    BY <1>1, <1>2, <1>3 DEF Ready, TaskSteps, InstallRequest
  <1>6. q.at \in SimSteps => /\ sim'[q.sim] = sim[q.sim]
                            /\ meter'[q.meter] = meter[q.meter]
    BY <1>1, <1>2, <1>3, <1>4 DEF OwnRowsOnly, Ready, SimSteps
  <1>7. q.at \in TaskSteps => installTask'[q.task] = installTask[q.task]
    BY <1>5 DEF OwnRowsOnly
  <1>8. records \subseteq records'
    BY DEF OwnRowsOnly
  <1> HIDE DEF q
  <1> QED
    BY <1>2, <1>6, <1>7, <1>8 DEF Knows, SimSteps, TaskSteps

\* What the request itself knows after a step of an install task.
LEMMA TaskStepKnows ==
  ASSUME CalmInv, NEW r \in InstallRequests, InstallTaskStep(r)
  PROVE  Knows(installReq'[r], meter', sim', installTask', records')
PROOF
  <1> DEFINE q == installReq[r]
  <1>1. /\ installReq \in [InstallRequests -> InstallRequest]
        /\ installTask \in [InstallIds -> InstallTask]
        /\ sim \in [Sims -> SimRow]
        /\ Ready(q, installTask) /\ q \in InstallRequest
        /\ Knows(q, meter, sim, installTask, records)
    BY DEF CalmInv, RequestsKnow, InstallInv, InstallBase, TasksReady, RecordTypeOK, SimTypeOK,
           RegistryTypeOK
  <1>2. ASSUME InstallDone(r)
        PROVE  Knows(installReq'[r], meter', sim', installTask', records')
    <2>1. installReq'[r].at = "idle"
      BY <1>1, <1>2 DEF InstallDone, IdleInstall
    <2> QED
      BY <2>1 DEF Knows
  <1>3. ASSUME NEW at, GoTo(r, at)
        PROVE  installReq'[r].at = at /\ installReq'[r].task = q.task
               /\ installReq'[r].sim = q.sim
    BY <1>1, <1>3 DEF GoTo, InstallRequest
  <1>4. CASE WriteInstallStatus(r)
    <2>1. q.at \in {"start", "return"} /\ q.task \in InstallIds
      BY <1>1, <1>4 DEF WriteInstallStatus, Ready, TaskSteps, InstallRequest
    <2>2. installTask'[q.task].status \in OpenInstall
      BY <1>1, <1>4, <2>1 DEF WriteInstallStatus, OpenInstall, InstallTask
    <2>3. installReq'[r].at = "recheck" /\ installReq'[r].task = q.task
      BY <1>3, <1>4 DEF WriteInstallStatus
    <2> QED
      BY <2>2, <2>3 DEF Knows
  <1>5. CASE RecheckOpen(r)
    <2>1. CASE GoTo(r, "relock")
      BY <1>1, <1>3, <1>5, <2>1 DEF RecheckOpen, Knows
    <2> QED
      BY <1>2, <1>5, <2>1 DEF RecheckOpen
  <1>6. CASE Relock(r) \/ Unlock(r) \/ WriteInstallReassign(r) \/ ClaimRefused(r)
    BY <1>2, <1>6 DEF Relock, Unlock, WriteInstallReassign, ClaimRefused
  <1>7. CASE WriteInstallCancel(r) \/ WriteInstallComplete(r)
    BY <1>3, <1>7 DEF WriteInstallCancel, WriteInstallComplete, Knows
  <1>8. CASE ReadClaimForTask(r)
    <2>1. CASE GoTo(r, AfterClaim(q))
      <3>1. installReq'[r].at \in {"location", "sim"}
        BY <1>3, <2>1 DEF AfterClaim
      <3> QED
        BY <3>1 DEF Knows
    <2>2. CASE GoTo(r, "claim") /\ Claimable(q.sim)
      BY <1>3, <1>8, <2>2 DEF ReadClaimForTask, Claimable, Knows, TablesUnchanged, registryVars
    <2> QED
      BY <1>8, <2>1, <2>2 DEF ReadClaimForTask
  <1>9. CASE WriteClaimForTask(r)
    <2>1. installReq'[r].at \in {"location", "sim"}
      BY <1>3, <1>9 DEF WriteClaimForTask, AfterClaim
    <2> QED
      BY <2>1 DEF Knows
  <1>10. CASE WriteLocation(r)
    BY <1>3, <1>10 DEF WriteLocation, Knows
  <1> QED
    BY <1>4, <1>5, <1>6, <1>7, <1>8, <1>9, <1>10 DEF InstallTaskStep

\* And after a step of create.
LEMMA RecordStepKnows ==
  ASSUME CalmInv, NEW r \in InstallRequests, RecordStep(r)
  PROVE  Knows(installReq'[r], meter', sim', installTask', records')
PROOF
  <1> DEFINE q == installReq[r]
  <1>1. /\ installReq \in [InstallRequests -> InstallRequest]
        /\ meter \in [Meters -> MeterRow]
        /\ Ready(q, installTask) /\ q \in InstallRequest
        /\ Knows(q, meter, sim, installTask, records)
    BY DEF CalmInv, RequestsKnow, InstallInv, InstallBase, TasksReady, RecordTypeOK, SimTypeOK,
           RegistryTypeOK
  <1>2. ASSUME InstallDone(r)
        PROVE  Knows(installReq'[r], meter', sim', installTask', records')
    <2>1. installReq'[r].at = "idle"
      BY <1>1, <1>2 DEF InstallDone, IdleInstall
    <2> QED
      BY <2>1 DEF Knows
  <1>3. ASSUME NEW at, GoTo(r, at)
        PROVE  /\ installReq'[r].at = at /\ installReq'[r].sim = q.sim
               /\ installReq'[r].meter = q.meter /\ installReq'[r].num = q.num
    BY <1>1, <1>3 DEF GoTo, InstallRequest
  <1>4. CASE CreateMeterRow(r) \/ ReadSim(r)
    BY <1>3, <1>4 DEF CreateMeterRow, ReadSim, Knows
  <1>5. CASE RefuseSim(r) \/ RecordRefused(r)
    BY <1>2, <1>5 DEF RefuseSim, RecordRefused
  <1>6. CASE ReadMeter(r)
    <2>1. /\ installReq'[r].at = "link" /\ installReq'[r].old = meter[q.meter].sim
          /\ installReq'[r].meter = q.meter /\ UNCHANGED meter
      BY <1>1, <1>6 DEF ReadMeter, InstallRequest, registryVars
    <2> QED
      BY <2>1 DEF Knows
  <1>7. CASE LinkSim(r)
    <2>1. q.meter \in Meters /\ q.sim \in Sims
      BY <1>1, <1>7 DEF LinkSim, Ready, SimSteps
    <2>2. meter'[q.meter].sim = q.sim
      BY <1>1, <1>7, <2>1 DEF LinkSim, MetersAfterLink, MeterRow
    <2>3. /\ installReq'[r].at = "number" /\ installReq'[r].sim = q.sim
          /\ installReq'[r].meter = q.meter
      BY <1>3, <1>7 DEF LinkSim
    <2> QED
      BY <2>2, <2>3 DEF Knows
  <1>8. CASE TakeNumber(r)
    <2>1. /\ installReq'[r].at = "record" /\ installReq'[r].sim = q.sim
          /\ installReq'[r].meter = q.meter /\ UNCHANGED meter
      BY <1>1, <1>8 DEF TakeNumber, InstallRequest, registryVars
    <2>2. meter[q.meter].sim = q.sim
      BY <1>1, <1>8 DEF TakeNumber, Knows
    <2> QED
      BY <2>1, <2>2 DEF Knows
  <1>9. CASE InsertRecord(r)
    <2> DEFINE rec == [num |-> q.num, key |-> q.key, meter |-> q.meter, sim |-> q.sim]
    <2>1. CASE GoTo(r, "complete")
      <3>1. rec \in records' /\ rec.num = q.num /\ rec.meter = q.meter /\ rec.sim = q.sim
        BY <1>9 DEF InsertRecord
      <3>2. meter[q.meter].sim = q.sim /\ UNCHANGED meter
        BY <1>1, <1>9 DEF InsertRecord, Knows, registryVars
      <3> HIDE DEF rec
      <3> QED
        BY <1>3, <2>1, <3>1, <3>2 DEF Knows
    <2> QED
      BY <1>2, <1>9, <2>1 DEF InsertRecord
  <1> QED
    BY <1>4, <1>5, <1>6, <1>7, <1>8, <1>9 DEF RecordStep

\* A status changes together with the link, when the row read is the row written.
LEMMA AgreementKept ==
  ASSUME CalmInv, CalmInstallNext \/ UNCHANGED installVars
  PROVE  SimMeterAgreement'
PROOF
  <1>1. /\ meter \in [Meters -> MeterRow] /\ sim \in [Sims -> SimRow] /\ RegistryTypeOK
        /\ SimMeterAgreement /\ OneMeterPerSim
    BY DEF CalmInv, InstallInv, InstallBase, RecordTypeOK, SimTypeOK, RegistryTypeOK
  <1>2. ASSUME UNCHANGED sim, \A m \in Meters : meter'[m].sim = meter[m].sim
        PROVE  SimMeterAgreement'
    BY <1>1, <1>2 DEF SimMeterAgreement, InMeter
  <1>3. ASSUME NEW r \in InstallRequests, LinkSim(r)
        PROVE  SimMeterAgreement'
    <2> DEFINE q == installReq[r]
    <2>1. /\ q.at = "link" /\ Ready(q, installTask) /\ q \in InstallRequest
          /\ Knows(q, meter, sim, installTask, records)
      BY <1>3 DEF LinkSim, CalmInv, RequestsKnow, InstallInv, InstallBase, TasksReady
    <2>2. q.meter \in Meters /\ q.sim \in Sims /\ meter[q.meter].sim = q.old
      BY <2>1 DEF Ready, Knows, SimSteps
    <2>3. /\ \A n \in Meters \ {q.meter} : meter[n].sim # q.sim
          /\ meter' = MetersAfterLink(q) /\ sim' = SimsAfterLink(q)
      BY <1>3 DEF LinkSim, InstallAllowed, LinkAllowed
    <2> HIDE DEF q
    <2>4. \A n \in Meters : meter'[n].sim = IF n = q.meter THEN q.sim ELSE meter[n].sim
      BY <1>1, <2>2, <2>3 DEF MetersAfterLink, MeterRow
    <2>5. \A s \in Sims : sim'[s].status = IF s = q.sim THEN "INSTALLED"
                                          ELSE IF s = q.old THEN "DEMOUNTED"
                                          ELSE sim[s].status
      BY <1>1, <2>3 DEF SimsAfterLink, SimRow
    <2>6. ASSUME NEW s \in Sims
          PROVE  sim'[s].status = "INSTALLED" <=> \E m \in Meters : meter'[m].sim = s
      <3>1. CASE s = q.sim
        BY <2>2, <2>4, <2>5, <3>1
      <3>2. CASE s # q.sim /\ s = q.old
        <4>1. \A n \in Meters \ {q.meter} : meter[n].sim # s
          BY <1>1, <2>2, <3>2, NoneAssumption DEF OneMeterPerSim
        <4> QED
          BY <2>4, <2>5, <3>2, <4>1
      <3>3. CASE s # q.sim /\ s # q.old
        BY <1>1, <2>2, <2>4, <2>5, <3>3 DEF SimMeterAgreement, InMeter
      <3> QED
        BY <3>1, <3>2, <3>3
    <2> QED
      BY <2>6 DEF SimMeterAgreement, InMeter
  <1>4. ASSUME NEW r \in InstallRequests, WriteClaimForTask(r)
        PROVE  SimMeterAgreement'
    <2> DEFINE q == installReq[r]
    <2>1. /\ q.at = "claim" /\ Knows(q, meter, sim, installTask, records)
          /\ UNCHANGED meter /\ sim' = [sim EXCEPT ![q.sim] = AssignedTo(q.user)]
      BY <1>4 DEF WriteClaimForTask, CalmInv, RequestsKnow
    <2>2. sim[q.sim].status = "AVAILABLE"
      BY <2>1 DEF Knows
    <2> HIDE DEF q
    <2>3. \A s \in Sims : sim'[s].status = "INSTALLED" <=> sim[s].status = "INSTALLED"
      BY <1>1, <2>1, <2>2 DEF AssignedTo
    <2> QED
      BY <1>1, <2>1, <2>3 DEF SimMeterAgreement, InMeter
  <1>5. ASSUME NEW r \in InstallRequests, Relock(r) \/ Unlock(r) \/ WriteLocation(r)
        PROVE  SimMeterAgreement'
    <2>1. installReq[r].meter \in Meters
      BY <1>5 DEF Relock, Unlock, WriteLocation, CalmInv, InstallInv, InstallBase, TasksReady, Ready
    <2> QED
      BY <1>1, <1>2, <1>5, <2>1, FlagWritten DEF Relock, Unlock, WriteLocation
  <1>6. ASSUME NEW r \in InstallRequests, InstallTaskStep(r)
        PROVE  SimMeterAgreement'
    BY <1>2, <1>4, <1>5, <1>6
       DEF InstallTaskStep, WriteInstallStatus, RecheckOpen, WriteInstallCancel,
           WriteInstallReassign, ReadClaimForTask, ClaimRefused, WriteInstallComplete,
           TablesUnchanged, registryVars
  <1>7. ASSUME NEW t \in InstallIds, NEW m \in Meters, NEW u \in Users, CreateInstall(t, m, u)
        PROVE  SimMeterAgreement'
    BY <1>1, <1>2, <1>7, FlagWritten DEF CreateInstall
  <1>8. ASSUME NEW r \in InstallRequests, NEW t \in InstallIds,
               \/ ReadInstallStatus(r, t)
               \/ ReadInstallCancel(r, t)
               \/ \E u \in Users : ReadInstallReassign(r, t, u)
               \/ \E s \in Sims : ReadInstallComplete(r, t, s)
        PROVE  SimMeterAgreement'
    BY <1>2, <1>8
       DEF ReadInstallStatus, ReadInstallCancel, ReadInstallReassign, ReadInstallComplete,
           InstallRead, TablesUnchanged, registryVars
  <1>9. ASSUME NEW r \in InstallRequests, RecordStep(r)
        PROVE  SimMeterAgreement'
    BY <1>2, <1>3, <1>9
       DEF RecordStep, CreateMeterRow, ReadSim, RefuseSim, ReadMeter, TakeNumber,
           InsertRecord, RecordRefused, registryVars
  <1>10. CASE SubmitNext \/ UNCHANGED installVars
    BY <1>2, <1>10
       DEF SubmitNext, SubmitItem, SubmitForm, installVars, recordVars, registryVars
  <1> QED
    BY <1>6, <1>7, <1>8, <1>9, <1>10 DEF CalmInstallNext, InstallTaskNext

\* Meter m may keep its lock: there is an open task, or a request that will release it.
Locked(m, tasks, reqs) ==
  \/ \E t \in InstallIds : tasks[t].meter = m /\ tasks[t].status \in OpenInstall
  \/ \E r \in InstallRequests : reqs[r].at = "unlock" /\ reqs[r].meter = m

\* A step of request r has to answer for the lock of its own meter only.
LEMMA OwnLock ==
  ASSUME CalmInv, NEW r \in InstallRequests, OwnRowsOnly(r),
         meter'[installReq[r].meter].openInstall =>
           Locked(installReq[r].meter, installTask', installReq')
  PROVE  InstallLockHasTask'
PROOF
  <1> SUFFICES ASSUME NEW m \in Meters, meter'[m].openInstall, m # installReq[r].meter
               PROVE  Locked(m, installTask', installReq')
    <2>1. ASSUME \A m \in Meters : meter'[m].openInstall => Locked(m, installTask', installReq')
          PROVE  InstallLockHasTask'
      BY <2>1 DEF InstallLockHasTask, Locked
    <2> QED
      BY <2>1
  <1>1. meter[m].openInstall
    BY DEF OwnRowsOnly
  <1>2. Ready(installReq[r], installTask)
    BY DEF CalmInv, InstallInv, InstallBase, TasksReady
  <1>3. CASE \E t \in InstallIds : /\ installTask[t].meter = m
                                    /\ installTask[t].status \in OpenInstall
    <2>1. PICK t \in InstallIds : /\ installTask[t].meter = m
                                  /\ installTask[t].status \in OpenInstall
      BY <1>3
    <2>2. t # installReq[r].task
      BY <1>2, <2>1, InstallAssumption DEF Ready
    <2> QED
      BY <2>1, <2>2 DEF OwnRowsOnly, Locked
  <1>4. CASE \E p \in InstallRequests : installReq[p].at = "unlock" /\ installReq[p].meter = m
    BY <1>4 DEF OwnRowsOnly, Locked
  <1> QED
    BY <1>1, <1>3, <1>4 DEF CalmInv, InstallLockHasTask

\* A lock that was there for somebody else's sake is still there for it.
LEMMA SameLock ==
  ASSUME CalmInv, NEW r \in InstallRequests, OwnRowsOnly(r), installReq[r].at # "unlock",
         UNCHANGED installTask,
         meter'[installReq[r].meter].openInstall = meter[installReq[r].meter].openInstall
  PROVE  InstallLockHasTask'
PROOF
  <1> DEFINE m == installReq[r].meter
  <1>1. m \in Meters
    BY DEF OwnRowsOnly, CalmInv, InstallInv, InstallBase, TasksReady, Ready
  <1>2. ASSUME meter'[m].openInstall
        PROVE  Locked(m, installTask', installReq')
    <2>1. Locked(m, installTask, installReq)
      BY <1>1, <1>2 DEF CalmInv, InstallLockHasTask, Locked
    <2> HIDE DEF m
    <2> QED
      BY <2>1 DEF Locked, OwnRowsOnly
  <1> QED
    BY <1>2, OwnLock

\* The lock of a meter is released by the request that closes its task.
LEMMA LockKept ==
  ASSUME CalmInv, CalmInstallNext \/ UNCHANGED installVars
  PROVE  InstallLockHasTask'
PROOF
  <1>1. /\ meter \in [Meters -> MeterRow] /\ RegistryTypeOK
        /\ installReq \in [InstallRequests -> InstallRequest]
        /\ installTask \in [InstallIds -> InstallTask]
        /\ InstallInv
    BY DEF CalmInv, InstallInv, InstallBase, TasksReady, RecordTypeOK, SimTypeOK, RegistryTypeOK
  <1>2. ASSUME NEW r \in InstallRequests, InstallTaskStep(r)
        PROVE  InstallLockHasTask'
    <2> DEFINE q == installReq[r]
    <2>1. OwnRowsOnly(r)
      BY <1>1, <1>2, StepsTouchOwnRows
    <2>2. /\ q \in InstallRequest /\ Ready(q, installTask)
          /\ Knows(q, meter, sim, installTask, records)
      BY DEF CalmInv, RequestsKnow, InstallInv, InstallBase, TasksReady
    <2>3. q.meter \in Meters
      BY <2>1, <2>2 DEF OwnRowsOnly, Ready
    <2>4. q.at \in TaskSteps => q.task \in InstallIds /\ installTask[q.task].meter = q.meter
      BY <2>2 DEF Ready, InstallRequest
    <2>5. CASE WriteInstallStatus(r) \/ WriteInstallReassign(r)
      <3>1. q.at \in TaskSteps
        BY <2>5 DEF WriteInstallStatus, WriteInstallReassign, TaskSteps
      <3>2. /\ installTask'[q.task].status \in OpenInstall
            /\ installTask'[q.task].meter = q.meter
        BY <1>1, <2>4, <2>5, <3>1
           DEF WriteInstallStatus, WriteInstallReassign, OpenInstall, InstallTask
      <3> QED
        BY <2>1, <2>4, <3>1, <3>2, OwnLock DEF Locked
    <2>6. CASE Relock(r)
      <3>1. q.at = "relock" /\ q.at \in TaskSteps /\ UNCHANGED installTask
        BY <2>6 DEF Relock, TaskSteps
      <3>2. installTask'[q.task].status \in OpenInstall /\ installTask'[q.task].meter = q.meter
        BY <2>2, <2>4, <3>1 DEF Knows
      <3> QED
        BY <2>1, <2>4, <3>1, <3>2, OwnLock DEF Locked
    <2>7. CASE WriteInstallCancel(r) \/ WriteInstallComplete(r)
      <3>1. installReq'[r].at = "unlock" /\ installReq'[r].meter = q.meter
        BY <1>1, <2>7 DEF WriteInstallCancel, WriteInstallComplete, GoTo, InstallRequest
      <3> QED
        BY <2>1, <3>1, OwnLock DEF Locked
    <2>8. CASE Unlock(r)
      <3>1. meter'[q.meter].openInstall = FALSE
        BY <1>1, <2>3, <2>8 DEF Unlock, MeterRow
      <3> QED
        BY <2>1, <3>1, OwnLock
    <2>9. CASE WriteLocation(r)
      <3>1. meter'[q.meter].openInstall = meter[q.meter].openInstall
        BY <1>1, <2>3, <2>9 DEF WriteLocation, MeterRow
      <3> QED
        BY <2>1, <2>9, <3>1, SameLock DEF WriteLocation
    <2>10. CASE RecheckOpen(r) \/ ReadClaimForTask(r) \/ WriteClaimForTask(r) \/ ClaimRefused(r)
      <3>1. UNCHANGED <<meter, installTask>> /\ q.at # "unlock"
        BY <2>10 DEF RecheckOpen, ReadClaimForTask, WriteClaimForTask, ClaimRefused,
                     TablesUnchanged, registryVars
      <3> QED
        BY <2>1, <3>1, SameLock
    <2> QED
      BY <1>2, <2>5, <2>6, <2>7, <2>8, <2>9, <2>10 DEF InstallTaskStep
  <1>3. ASSUME NEW r \in InstallRequests, RecordStep(r), UNCHANGED installTask
        PROVE  InstallLockHasTask'
    <2> DEFINE q == installReq[r]
    <2>1. OwnRowsOnly(r)
      BY <1>1, <1>3, StepsTouchOwnRows
    <2>2. q.meter \in Meters
      BY <2>1 DEF OwnRowsOnly, CalmInv, InstallInv, InstallBase, TasksReady, Ready
    <2>3. CASE LinkSim(r)
      <3>1. meter'[q.meter].openInstall = meter[q.meter].openInstall
        BY <1>1, <2>2, <2>3 DEF LinkSim, MetersAfterLink, MeterRow
      <3> QED
        BY <1>3, <2>1, <2>3, <3>1, SameLock DEF LinkSim
    <2>4. CASE ~LinkSim(r)
      <3>1. UNCHANGED meter /\ q.at # "unlock"
        BY <1>3, <2>4
           DEF RecordStep, CreateMeterRow, ReadSim, RefuseSim, ReadMeter, TakeNumber,
               InsertRecord, RecordRefused, registryVars
      <3> QED
        BY <1>3, <2>1, <3>1, SameLock
    <2> QED
      BY <2>3, <2>4
  \* What begins takes no lock away, and create brings the task along.
  <1>4. ASSUME NEW t \in InstallIds, NEW m \in Meters, NEW u \in Users, CreateInstall(t, m, u)
        PROVE  InstallLockHasTask'
    <2>1. /\ installTask'[t].meter = m /\ installTask'[t].status \in OpenInstall
          /\ \A n \in InstallIds \ {t} : installTask'[n] = installTask[n]
          /\ installTask[t].status = "NONE" /\ UNCHANGED installReq
      BY <1>1, <1>4 DEF CreateInstall, OpenInstall
    <2>2. \A n \in Meters \ {m} : meter'[n] = meter[n]
      BY <1>1, <1>4 DEF CreateInstall
    <2>3. \A n \in Meters \ {m} : Locked(n, installTask, installReq)
                                 => Locked(n, installTask', installReq')
      BY <2>1 DEF Locked, OpenInstall
    <2> QED
      BY <2>1, <2>2, <2>3 DEF CalmInv, InstallLockHasTask, Locked
  <1>5. ASSUME NEW r \in InstallRequests, installReq[r].at = "idle",
               \A p \in InstallRequests \ {r} : installReq'[p] = installReq[p],
               UNCHANGED <<meter, installTask>>
        PROVE  InstallLockHasTask'
    <2>1. \A m \in Meters : Locked(m, installTask, installReq)
                           => Locked(m, installTask', installReq')
      BY <1>5 DEF Locked
    <2> QED
      BY <1>5, <2>1 DEF CalmInv, InstallLockHasTask, Locked
  <1>6. ASSUME NEW r \in InstallRequests, NEW t \in InstallIds,
               \/ ReadInstallStatus(r, t)
               \/ ReadInstallCancel(r, t)
               \/ \E u \in Users : ReadInstallReassign(r, t, u)
               \/ \E s \in Sims : ReadInstallComplete(r, t, s)
        PROVE  InstallLockHasTask'
    BY <1>1, <1>5, <1>6
       DEF ReadInstallStatus, ReadInstallCancel, ReadInstallReassign, ReadInstallComplete,
           InstallRead, TablesUnchanged, registryVars
  <1>7. CASE SubmitNext /\ UNCHANGED installTask
    BY <1>1, <1>5, <1>7 DEF SubmitNext, SubmitItem, SubmitForm, registryVars
  <1>8. CASE UNCHANGED installVars
    BY <1>8 DEF installVars, recordVars, registryVars, CalmInv, InstallLockHasTask
  <1> QED
    BY <1>2, <1>3, <1>4, <1>6, <1>7, <1>8 DEF CalmInstallNext, InstallTaskNext

\* A calm step is a step of the system.
LEMMA CalmStep == CalmInstallNext => InstallNext
PROOF
  BY DEF CalmInstallNext, InstallNext, RecordNext

\* What all requests know after a step.
LEMMA RequestsKeepKnowing ==
  ASSUME CalmInv, CalmInstallNext \/ UNCHANGED installVars
  PROVE  RequestsKnow'
PROOF
  <1>1. /\ InstallInv /\ RequestsKnow
        /\ installReq \in [InstallRequests -> InstallRequest]
        /\ meter \in [Meters -> MeterRow]
    BY DEF CalmInv, InstallInv, InstallBase, TasksReady, RecordTypeOK, SimTypeOK, RegistryTypeOK
  <1>2. ASSUME NEW r \in InstallRequests,
               InstallTaskStep(r) \/ (RecordStep(r) /\ UNCHANGED installTask)
        PROVE  RequestsKnow'
    <2>1. OwnRowsOnly(r)
      BY <1>1, <1>2, StepsTouchOwnRows
    <2>2. Knows(installReq'[r], meter', sim', installTask', records')
      BY <1>2, TaskStepKnows, RecordStepKnows
    <2> QED
      BY <2>1, <2>2, OthersKnow DEF RequestsKnow
  <1>3. ASSUME NEW t \in InstallIds, NEW m \in Meters, NEW u \in Users, CreateInstall(t, m, u)
        PROVE  RequestsKnow'
    <2>1. /\ UNCHANGED <<sim, records, installReq>>
          /\ \A n \in Meters : meter'[n].sim = meter[n].sim
      BY <1>1, <1>3 DEF CreateInstall, MeterRow
    <2>2. \A n \in InstallIds : installTask[n].status # "NONE" => installTask'[n] = installTask[n]
      BY <1>3 DEF CreateInstall, CalmInv, InstallInv, InstallBase, TasksReady
    <2>3. ASSUME NEW p \in InstallRequests
          PROVE  Knows(installReq'[p], meter', sim', installTask', records')
      <3> DEFINE q == installReq[p]
      <3>1. Ready(q, installTask) /\ Knows(q, meter, sim, installTask, records)
            /\ q \in InstallRequest
        BY DEF CalmInv, InstallInv, InstallBase, TasksReady, RequestsKnow
      <3>2. q.at \in SimSteps => meter'[q.meter].sim = meter[q.meter].sim
        BY <2>1, <3>1 DEF Ready, SimSteps
      <3>3. q.at \in TaskSteps => installTask'[q.task] = installTask[q.task]
        BY <2>2, <3>1 DEF Ready, InstallRequest
      <3> HIDE DEF q
      <3>4. Knows(q, meter', sim', installTask', records')
        BY <2>1, <3>1, <3>2, <3>3 DEF Knows, SimSteps, TaskSteps
      <3> QED
        BY <2>1, <3>4 DEF q
    <2> QED
      BY <2>3 DEF RequestsKnow
  <1>4. ASSUME NEW r \in InstallRequests,
               installReq'[r].at \in {"start", "return", "cancel", "reassign", "claimRead",
                                     "row", "sim"},
               \A p \in InstallRequests \ {r} : installReq'[p] = installReq[p],
               UNCHANGED <<meter, sim, installTask, records>>
        PROVE  RequestsKnow'
    <2>1. Knows(installReq'[r], meter', sim', installTask', records')
      BY <1>4 DEF Knows
    <2> QED
      BY <1>1, <1>4, <2>1 DEF RequestsKnow
  <1>5. ASSUME NEW r \in InstallRequests, NEW t \in InstallIds,
               NEW at \in {"start", "return", "cancel", "reassign", "claimRead"},
               NEW u, NEW s, InstallRead(r, t, at, u, s)
        PROVE  RequestsKnow'
    <2>1. /\ installReq'[r].at = at
          /\ \A p \in InstallRequests \ {r} : installReq'[p] = installReq[p]
          /\ UNCHANGED <<meter, sim, installTask, records>>
      BY <1>1, <1>5 DEF InstallRead, TablesUnchanged, registryVars, IdleInstall
    <2> QED
      BY <1>4, <2>1
  <1>6. ASSUME NEW r \in InstallRequests, NEW t \in InstallIds,
               \/ ReadInstallStatus(r, t)
               \/ ReadInstallCancel(r, t)
               \/ \E u \in Users : ReadInstallReassign(r, t, u)
               \/ \E s \in Sims : ReadInstallComplete(r, t, s)
        PROVE  RequestsKnow'
    BY <1>5, <1>6
       DEF ReadInstallStatus, ReadInstallCancel, ReadInstallReassign, ReadInstallComplete
  <1>7. CASE SubmitNext /\ UNCHANGED installTask
    <2>1. \A r \in InstallRequests, k \in Keys : SubmitItem(r, k) => RequestsKnow'
      BY <1>1, <1>4, <1>7 DEF SubmitItem, registryVars, IdleInstall
    <2>2. \A r \in InstallRequests, m \in Meters, s \in Sims, u \in Users :
            SubmitForm(r, m, s, u) => RequestsKnow'
      BY <1>1, <1>4, <1>7 DEF SubmitForm, registryVars, IdleInstall
    <2> QED
      BY <1>7, <2>1, <2>2 DEF SubmitNext
  <1>8. CASE UNCHANGED installVars
    BY <1>1, <1>8 DEF installVars, recordVars, registryVars, RequestsKnow
  <1> QED
    BY <1>2, <1>3, <1>6, <1>7, <1>8 DEF CalmInstallNext, InstallTaskNext

\* Every step of requests that keep apart keeps the invariant.
LEMMA NextCalmInv ==
  CalmInv /\ [CalmInstallNext /\ InstallsApart']_installVars => CalmInv'
PROOF
  <1> SUFFICES ASSUME CalmInv, [CalmInstallNext /\ InstallsApart']_installVars
               PROVE  CalmInv'
    OBVIOUS
  <1>1. InstallInv'
    BY CalmStep, NextInstallInv DEF CalmInv
  <1>2. InstallsApart'
    BY DEF CalmInv, InstallsApart, installVars, recordVars
  <1> QED
    BY <1>1, <1>2, RequestsKeepKnowing, AgreementKept, LockKept DEF CalmInv

\* What that invariant says at every state.
LEMMA InstallsKeepApart == CalmInstallSpec => []CalmInv
PROOF
  BY InitCalmInv, NextCalmInv, PTL DEF CalmInstallSpec

\* Installations that are not cut short and keep apart leave a SIM INSTALLED exactly
\* when it is in a meter, though claim, link and record are separate steps
\* (install-tasks.service.ts complete, installation-records.service.ts create).
THEOREM InstallAgreement == CalmInstallSpec => []SimMeterAgreement
PROOF
  <1>1. CalmInv => SimMeterAgreement
    BY DEF CalmInv
  <1> QED
    BY <1>1, InstallsKeepApart, PTL

\* hasOpenInstallTask is set only while an open install task has the meter, or the
\* request that closed it is about to clear it.
THEOREM InstallLockReleased == CalmInstallSpec => []InstallLockHasTask
PROOF
  <1>1. CalmInv => InstallLockHasTask
    BY DEF CalmInv
  <1> QED
    BY <1>1, InstallsKeepApart, PTL

\* Only complete closes a task, and it knows the record and the meter then.
LEMMA CompletionInstalled ==
  ASSUME CalmInv, CalmInstallNext, NEW t \in InstallIds,
         installTask[t].status # "COMPLETED", installTask'[t].status = "COMPLETED"
  PROVE  \E rec \in records : /\ rec.num = installTask'[t].record
                               /\ rec.meter = installTask[t].meter
                               /\ meter[rec.meter].sim = rec.sim
PROOF
  <1>1. /\ installTask \in [InstallIds -> InstallTask]
        /\ \A r \in InstallRequests : /\ Ready(installReq[r], installTask)
                                      /\ Knows(installReq[r], meter, sim, installTask, records)
                                      /\ installReq[r] \in InstallRequest
    BY DEF CalmInv, RequestsKnow, InstallInv, InstallBase, TasksReady
  <1>2. PICK r \in InstallRequests : WriteInstallComplete(r)
    <2>1. ASSUME NEW r \in InstallRequests,
                 \/ WriteInstallStatus(r)
                 \/ WriteInstallCancel(r)
                 \/ WriteInstallReassign(r)
          PROVE  FALSE
      <3> DEFINE id == installReq[r].task
      <3>1. PICK st \in {"IN_PROGRESS", "PENDING", "CANCELLED"} :
               \/ installTask' = [installTask EXCEPT ![id].status = st]
               \/ \E u : installTask' = [installTask EXCEPT ![id].status = st, ![id].by = u]
        BY <2>1 DEF WriteInstallStatus, WriteInstallCancel, WriteInstallReassign
      <3> HIDE DEF id
      <3>2. installTask'[t].status = installTask[t].status \/ installTask'[t].status = st
        BY <1>1, <3>1 DEF InstallTask
      <3> QED
        BY <3>2
    <2>2. ASSUME NEW r \in InstallRequests, InstallTaskStep(r)
          PROVE  WriteInstallComplete(r)
      BY <2>1, <2>2
         DEF InstallTaskStep, RecheckOpen, Relock, Unlock, ReadClaimForTask,
             WriteClaimForTask, ClaimRefused, WriteLocation
    <2>3. ASSUME NEW i \in InstallIds, NEW m \in Meters, NEW u \in Users, CreateInstall(i, m, u)
          PROVE  FALSE
      BY <1>1, <2>3 DEF CreateInstall
    <2>4. ASSUME InstallTaskNext
          PROVE  \E r \in InstallRequests : WriteInstallComplete(r)
      BY <2>2, <2>3, <2>4
         DEF InstallTaskNext, ReadInstallStatus, ReadInstallCancel,
             ReadInstallReassign, ReadInstallComplete, InstallRead
    <2> QED
      BY <2>4 DEF CalmInstallNext
  <1> DEFINE q == installReq[r]
  <1>3. q.at = "complete" /\ q.task \in InstallIds /\ installTask[q.task].meter = q.meter
    BY <1>1, <1>2 DEF WriteInstallComplete, Ready, TaskSteps, InstallRequest
  <1>4. t = q.task
    BY <1>1, <1>2 DEF WriteInstallComplete
  <1>5. installTask'[t].record = q.num
    BY <1>1, <1>2, <1>3, <1>4 DEF WriteInstallComplete, InstallTask
  <1>6. /\ meter[q.meter].sim = q.sim
        /\ \E rec \in records : rec.num = q.num /\ rec.meter = q.meter /\ rec.sim = q.sim
    BY <1>1, <1>3 DEF Knows
  <1> HIDE DEF q
  <1> QED
    BY <1>3, <1>4, <1>5, <1>6

\* A completed install task has the record it was completed with, and the SIM of that
\* record is in its meter at that moment.
THEOREM CompletedInstalled == CalmInstallSpec => CompletedTaskInstalled
PROOF
  <1>1. CalmInv /\ [CalmInstallNext /\ InstallsApart']_installVars
          => [CompletesInstalled]_installVars
    BY CompletionInstalled DEF CompletesInstalled
  <1> QED
    BY <1>1, InstallsKeepApart, PTL DEF CalmInstallSpec, CompletedTaskInstalled

-----------------------------------------------------------------------------
(* Refinement: the handlers and create, seen through the mapping of Promise. *)

\* A request for a task stands at a task that is still in the status it read; past the
\* first query of complete that is IN_PROGRESS.
StillAt(q, tasks) ==
  /\ q.at = "start" => tasks[q.task].status = "PENDING"
  /\ q.at = "return" => tasks[q.task].status = "IN_PROGRESS"
  /\ q.at = "reassign" => tasks[q.task].status \in OpenInstall
  /\ q.at = "cancel" => tasks[q.task].status \in OpenInstall \union {"CANCELLED"}
  /\ q.at \in SimSteps /\ q.task # None => tasks[q.task].status = "IN_PROGRESS"

TasksStill == \A r \in InstallRequests : StillAt(installReq[r], installTask)

\* Every task's record is there, and a task without a row has none; the number a request
\* is about to write into its task is in no task yet and in no other request that has
\* come as far.
OwnPaper ==
  /\ \A t \in InstallIds : installTask[t].record # 0 =>
       /\ installTask[t].status # "NONE"
       /\ \E rec \in records : rec.num = installTask[t].record
  /\ \A r \in InstallRequests : installReq[r].at = "complete" =>
       /\ \A t \in InstallIds : installTask[t].record # installReq[r].num
       /\ \A p \in InstallRequests \ {r} :
            installReq[p].at = "complete" => installReq[p].num # installReq[r].num

\* The invariant under which every step is a step of InstallOrder.
PromiseInv == CalmInv /\ TasksStill /\ OwnPaper

\* Before the first request no task is opened and nothing is written.
LEMMA InitPromiseInv == InstallInit => PromiseInv /\ Promise!OrderInit
PROOF
  <1> SUFFICES ASSUME InstallInit PROVE PromiseInv /\ Promise!OrderInit
    OBVIOUS
  <1>1. CalmInv
    BY InitCalmInv
  <1>2. \A r \in InstallRequests : installReq[r].at = "idle"
    BY DEF InstallInit, RecordInit, IdleInstall
  <1>3. TasksStill
    BY <1>2 DEF TasksStill, StillAt, SimSteps
  <1>4. OwnPaper
    BY <1>2 DEF OwnPaper, InstallInit
  <1>5. PICK held \in [Meters -> Sims \union {None}],
             owner \in [Sims -> Users \union {None}],
             away \in SUBSET Meters : Stock(held, owner, away)
    BY DEF InstallInit, RecordInit, SimInit, RegistryInit
  <1>6. [m \in Meters |-> meter[m].sim] = held
    BY <1>5 DEF Stock
  <1>7. Promise!OrderInit
    BY <1>5, <1>6 DEF InstallInit, RecordInit, Stock, Promise!OrderInit, Promise!NoTwoMeters
  <1> QED
    BY <1>1, <1>3, <1>4, <1>7 DEF PromiseInv

\* A step of one request changes no task another request is about.
LEMMA OthersStill ==
  ASSUME CalmInv, TasksStill, NEW r \in InstallRequests, OwnRowsOnly(r),
         NEW p \in InstallRequests, p # r
  PROVE  StillAt(installReq'[p], installTask')
PROOF
  <1> DEFINE q == installReq[p]
  <1>1. installReq'[p] = q /\ StillAt(q, installTask)
    BY DEF OwnRowsOnly, TasksStill
  <1>2. q.at # "idle" => q.meter # installReq[r].meter
    BY DEF OwnRowsOnly, CalmInv, InstallsApart
  <1>3. Ready(q, installTask) /\ Ready(installReq[r], installTask) /\ q \in InstallRequest
    BY DEF CalmInv, InstallInv, InstallBase, TasksReady
  <1>4. q.at # "idle" /\ q.task # None =>
          q.task \in InstallIds /\ installTask'[q.task] = installTask[q.task]
    <2>1. q.at # "idle" /\ q.task # None => q.task \in InstallIds /\ q.task # installReq[r].task
      BY <1>2, <1>3 DEF Ready, InstallRequest
    <2> QED
      BY <2>1 DEF OwnRowsOnly
  <1>5. q.at \in TaskSteps => q.task # None /\ q.at # "idle"
    BY <1>3 DEF Ready, TaskSteps
  <1> HIDE DEF q
  <1> QED
    BY <1>1, <1>4, <1>5 DEF StillAt, SimSteps, TaskSteps

\* A request that goes on leaves its task as it was, or is past the steps that ask.
LEMMA OwnStill ==
  ASSUME CalmInv, TasksStill, NEW r \in InstallRequests,
         InstallTaskStep(r) \/ (RecordStep(r) /\ UNCHANGED installTask)
  PROVE  StillAt(installReq'[r], installTask')
PROOF
  <1> DEFINE q == installReq[r]
  <1>1. /\ installReq \in [InstallRequests -> InstallRequest]
        /\ Ready(q, installTask) /\ q \in InstallRequest /\ StillAt(q, installTask)
    BY DEF CalmInv, TasksStill, InstallInv, InstallBase, TasksReady
  <1>2. ASSUME InstallDone(r)
        PROVE  StillAt(installReq'[r], installTask')
    <2>1. installReq'[r].at = "idle"
      BY <1>1, <1>2 DEF InstallDone, IdleInstall
    <2> QED
      BY <2>1 DEF StillAt, SimSteps
  <1>3. ASSUME NEW at, GoTo(r, at)
        PROVE  installReq'[r].at = at /\ installReq'[r].task = q.task
    BY <1>1, <1>3 DEF GoTo, InstallRequest
  <1>4. ASSUME UNCHANGED installTask, q.at \in SimSteps, installReq'[r].at \in SimSteps,
               installReq'[r].task = q.task
        PROVE  StillAt(installReq'[r], installTask')
    BY <1>1, <1>4 DEF StillAt, SimSteps
  <1>5. ASSUME NEW at \in {"recheck", "unlock", "relock"}, GoTo(r, at)
        PROVE  StillAt(installReq'[r], installTask')
    <2>1. installReq'[r].at = at
      BY <1>3, <1>5
    <2> QED
      BY <2>1 DEF StillAt, SimSteps
  <1>6. CASE InstallTaskStep(r)
    <2>1. CASE WriteInstallStatus(r) \/ RecheckOpen(r) \/ WriteInstallCancel(r)
                 \/ WriteInstallComplete(r)
      BY <1>2, <1>5, <2>1
         DEF WriteInstallStatus, RecheckOpen, WriteInstallCancel, WriteInstallComplete
    <2>2. CASE Relock(r) \/ Unlock(r) \/ WriteInstallReassign(r) \/ ClaimRefused(r)
      BY <1>2, <2>2 DEF Relock, Unlock, WriteInstallReassign, ClaimRefused
    <2>3. CASE ReadClaimForTask(r) \/ WriteClaimForTask(r) \/ WriteLocation(r)
      BY <1>3, <1>4, <2>3
         DEF ReadClaimForTask, WriteClaimForTask, WriteLocation, AfterClaim, SimSteps
    <2> QED
      BY <1>6, <2>1, <2>2, <2>3 DEF InstallTaskStep
  <1>7. CASE RecordStep(r) /\ UNCHANGED installTask
    <2>1. CASE CreateMeterRow(r) \/ ReadSim(r) \/ LinkSim(r)
      BY <1>3, <1>4, <1>7, <2>1 DEF CreateMeterRow, ReadSim, LinkSim, SimSteps
    <2>2. CASE RefuseSim(r) \/ RecordRefused(r)
      BY <1>2, <2>2 DEF RefuseSim, RecordRefused
    <2>3. CASE ReadMeter(r) \/ TakeNumber(r)
      <3>1. /\ q.at \in SimSteps /\ installReq'[r].at \in SimSteps
            /\ installReq'[r].task = q.task
        BY <1>1, <2>3 DEF ReadMeter, TakeNumber, SimSteps, InstallRequest
      <3> QED
        BY <1>4, <1>7, <3>1
    <2>4. CASE InsertRecord(r)
      BY <1>2, <1>3, <1>4, <1>7, <2>4 DEF InsertRecord, SimSteps
    <2> QED
      BY <1>7, <2>1, <2>2, <2>3, <2>4 DEF RecordStep
  <1> QED
    BY <1>6, <1>7

\* What begins stands at the status it has just read.
LEMMA TasksStayStill ==
  ASSUME CalmInv, TasksStill, CalmInstallNext \/ UNCHANGED installVars
  PROVE  TasksStill'
PROOF
  <1>1. /\ InstallInv /\ TasksReady
        /\ installReq \in [InstallRequests -> InstallRequest]
    BY DEF CalmInv, InstallInv, InstallBase, TasksReady
  <1>2. ASSUME NEW r \in InstallRequests,
               InstallTaskStep(r) \/ (RecordStep(r) /\ UNCHANGED installTask)
        PROVE  TasksStill'
    <2>1. OwnRowsOnly(r) /\ StillAt(installReq'[r], installTask')
      BY <1>1, <1>2, StepsTouchOwnRows, OwnStill
    <2> QED
      BY <2>1, OthersStill DEF TasksStill
  <1>3. ASSUME NEW t \in InstallIds, NEW m \in Meters, NEW u \in Users, CreateInstall(t, m, u)
        PROVE  TasksStill'
    <2>1. UNCHANGED installReq
      BY <1>3 DEF CreateInstall
    <2>2. \A n \in InstallIds : installTask[n].status # "NONE" => installTask'[n] = installTask[n]
      BY <1>1, <1>3 DEF CreateInstall, TasksReady
    <2>3. ASSUME NEW p \in InstallRequests
          PROVE  StillAt(installReq'[p], installTask')
      <3> DEFINE q == installReq[p]
      <3>1. Ready(q, installTask) /\ StillAt(q, installTask) /\ q \in InstallRequest
        BY <1>1 DEF TasksReady, TasksStill
      <3>2. q.task # None => installTask'[q.task] = installTask[q.task]
        BY <2>2, <3>1 DEF Ready, InstallRequest
      <3>3. q.at \in TaskSteps => q.task # None
        BY <3>1 DEF Ready
      <3> HIDE DEF q
      <3>4. StillAt(q, installTask')
        BY <3>1, <3>2, <3>3 DEF StillAt, TaskSteps, SimSteps
      <3> QED
        BY <2>1, <3>4 DEF q
    <2> QED
      BY <2>3 DEF TasksStill
  <1>4. ASSUME NEW r \in InstallRequests, StillAt(installReq'[r], installTask),
               \A p \in InstallRequests \ {r} : installReq'[p] = installReq[p],
               UNCHANGED installTask
        PROVE  TasksStill'
    BY <1>4 DEF TasksStill
  <1>5. ASSUME NEW r \in InstallRequests, NEW t \in InstallIds,
               \/ ReadInstallStatus(r, t)
               \/ ReadInstallCancel(r, t)
               \/ \E u \in Users : ReadInstallReassign(r, t, u)
               \/ \E s \in Sims : ReadInstallComplete(r, t, s)
        PROVE  TasksStill'
    <2>1. PICK at \in {"start", "return", "cancel", "reassign", "claimRead"} :
            /\ \E u, s : InstallRead(r, t, at, u, s)
            /\ at = "start" => installTask[t].status = "PENDING"
            /\ at \in {"return", "claimRead"} => installTask[t].status = "IN_PROGRESS"
            /\ at = "reassign" => installTask[t].status \in OpenInstall
            /\ at = "cancel" => installTask[t].status \in OpenInstall \union {"CANCELLED"}
      BY <1>5 DEF ReadInstallStatus, ReadInstallCancel, ReadInstallReassign,
                  ReadInstallComplete
    <2>2. /\ installReq'[r].at = at /\ installReq'[r].task = t
          /\ \A p \in InstallRequests \ {r} : installReq'[p] = installReq[p]
          /\ UNCHANGED installTask
      BY <1>1, <2>1 DEF InstallRead, IdleInstall
    <2>3. StillAt(installReq'[r], installTask)
      BY <2>1, <2>2 DEF StillAt, SimSteps
    <2> QED
      BY <1>4, <2>2, <2>3
  <1>6. CASE SubmitNext /\ UNCHANGED installTask
    <2>1. PICK r \in InstallRequests :
            \/ \E k \in Keys : SubmitItem(r, k)
            \/ \E m \in Meters, s \in Sims, u \in Users : SubmitForm(r, m, s, u)
      BY <1>6 DEF SubmitNext
    <2>2. /\ installReq'[r].at \in {"row", "sim"} /\ installReq'[r].task = None
          /\ \A p \in InstallRequests \ {r} : installReq'[p] = installReq[p]
      <3>1. CASE \E k \in Keys : SubmitItem(r, k)
        BY <1>1, <3>1 DEF SubmitItem, IdleInstall
      <3>2. CASE \E m \in Meters, s \in Sims, u \in Users : SubmitForm(r, m, s, u)
        BY <1>1, <3>2 DEF SubmitForm, IdleInstall
      <3> QED
        BY <2>1, <3>1, <3>2
    <2>3. StillAt(installReq'[r], installTask)
      BY <2>2 DEF StillAt
    <2> QED
      BY <1>4, <1>6, <2>2, <2>3
  <1>7. CASE UNCHANGED installVars
    BY <1>7 DEF installVars, recordVars, TasksStill
  <1> QED
    BY <1>2, <1>3, <1>5, <1>6, <1>7 DEF CalmInstallNext, InstallTaskNext

\* Where no record is written and none is connected, OwnPaper stays.
LEMMA SamePaper ==
  ASSUME OwnPaper, records \subseteq records',
         \A t \in InstallIds : installTask[t].status # "NONE" => installTask'[t].status # "NONE",
         \A t \in InstallIds : installTask'[t].record = installTask[t].record,
         \A r \in InstallRequests : installReq'[r].at = "complete" =>
           installReq[r].at = "complete" /\ installReq'[r].num = installReq[r].num
  PROVE  OwnPaper'
PROOF
  BY DEF OwnPaper

\* The number inserted is in no record yet, so in no task and no other request.
LEMMA InsertKeepsPaper ==
  ASSUME CalmInv, OwnPaper, NEW r \in InstallRequests, InsertRecord(r), UNCHANGED installTask
  PROVE  OwnPaper'
PROOF
  <1> DEFINE q == installReq[r]
  <1>1. /\ installReq \in [InstallRequests -> InstallRequest]
        /\ Ready(q, installTask) /\ q.at = "record" /\ InsertAllowed(q)
        /\ records \subseteq records'
    BY DEF InsertRecord, CalmInv, InstallInv, InstallBase, TasksReady
  <1>2. \A rec \in records : rec.num # q.num
    BY <1>1 DEF InsertAllowed
  <1>3. \A t \in InstallIds : installTask[t].record # q.num
    BY <1>1, <1>2 DEF OwnPaper, Ready
  <1>4. \A p \in InstallRequests : installReq[p].at = "complete" => installReq[p].num # q.num
    BY <1>2 DEF CalmInv, RequestsKnow, Knows
  <1>5. \A p \in InstallRequests \ {r} : installReq'[p] = installReq[p]
    BY <1>1 DEF InsertRecord, InstallDone, GoTo
  <1>6. installReq'[r].at = "complete" => installReq'[r].num = q.num
    BY <1>1 DEF InsertRecord, InstallDone, IdleInstall, GoTo, InstallRequest
  <1> HIDE DEF q
  <1> QED
    BY <1>1, <1>3, <1>4, <1>5, <1>6 DEF OwnPaper

\* The task gets the number; the request has no more use for it.
LEMMA CompleteKeepsPaper ==
  ASSUME CalmInv, OwnPaper, NEW r \in InstallRequests, WriteInstallComplete(r)
  PROVE  OwnPaper'
PROOF
  <1> DEFINE q == installReq[r]
  <1>1. /\ installReq \in [InstallRequests -> InstallRequest]
        /\ installTask \in [InstallIds -> InstallTask]
        /\ Ready(q, installTask) /\ q \in InstallRequest /\ q.at = "complete"
        /\ Knows(q, meter, sim, installTask, records) /\ UNCHANGED records
    BY DEF WriteInstallComplete, TablesUnchanged, CalmInv, RequestsKnow, InstallInv,
           InstallBase, TasksReady
  <1>2. \E rec \in records : rec.num = q.num
    BY <1>1 DEF Knows
  <1>3. q.task \in InstallIds
    BY <1>1 DEF Ready, TaskSteps, InstallRequest
  <1>4. /\ installTask'[q.task].record = q.num /\ installTask'[q.task].status = "COMPLETED"
        /\ \A t \in InstallIds \ {q.task} : installTask'[t] = installTask[t]
    BY <1>1, <1>3 DEF WriteInstallComplete, InstallTask
  <1>5. /\ installReq'[r].at = "unlock"
        /\ \A p \in InstallRequests \ {r} : installReq'[p] = installReq[p]
    BY <1>1 DEF WriteInstallComplete, GoTo
  <1>6. /\ \A t \in InstallIds : installTask[t].record # q.num
        /\ \A p \in InstallRequests \ {r} :
             installReq[p].at = "complete" => installReq[p].num # q.num
    BY <1>1 DEF OwnPaper
  <1> HIDE DEF q
  <1>7. \A t \in InstallIds : installTask'[t].record # 0 =>
          /\ installTask'[t].status # "NONE"
          /\ \E rec \in records' : rec.num = installTask'[t].record
    BY <1>1, <1>2, <1>4 DEF OwnPaper
  <1>8. \A p \in InstallRequests : installReq'[p].at = "complete" =>
          /\ p # r /\ installReq'[p] = installReq[p]
          /\ \A t \in InstallIds : installTask'[t].record # installReq'[p].num
    BY <1>4, <1>5, <1>6 DEF OwnPaper
  <1> QED
    BY <1>7, <1>8 DEF OwnPaper

\* No step gives a task a record that another one has or will get.
LEMMA PaperKept ==
  ASSUME CalmInv, OwnPaper, CalmInstallNext \/ UNCHANGED installVars
  PROVE  OwnPaper'
PROOF
  <1>1. /\ installReq \in [InstallRequests -> InstallRequest]
        /\ installTask \in [InstallIds -> InstallTask] /\ records \subseteq Record
    BY DEF CalmInv, InstallInv, InstallBase, TasksReady, RecordTypeOK
  <1>2. ASSUME NEW r \in InstallRequests, InstallDone(r) \/ \E at : at # "complete" /\ GoTo(r, at)
        PROVE  \A p \in InstallRequests : installReq'[p].at = "complete" =>
                 installReq[p].at = "complete" /\ installReq'[p].num = installReq[p].num
    <2>1. installReq'[r].at # "complete"
      <3>1. CASE InstallDone(r)
        BY <1>1, <3>1 DEF InstallDone, IdleInstall
      <3>2. ASSUME NEW at, at # "complete", GoTo(r, at)
            PROVE  installReq'[r].at = at
        BY <1>1, <3>2 DEF GoTo, InstallRequest
      <3> QED
        BY <1>2, <3>1, <3>2
    <2>2. \A p \in InstallRequests \ {r} : installReq'[p] = installReq[p]
      BY <1>1, <1>2 DEF InstallDone, GoTo
    <2> QED
      BY <2>1, <2>2
  <1>3. ASSUME NEW r \in InstallRequests, WriteInstallStatus(r) \/ WriteInstallCancel(r)
                                            \/ WriteInstallReassign(r)
        PROVE  OwnPaper'
    <2>1. \A t \in InstallIds :
            /\ installTask'[t].record = installTask[t].record
            /\ installTask[t].status # "NONE" => installTask'[t].status # "NONE"
      BY <1>1, <1>3
         DEF WriteInstallStatus, WriteInstallCancel, WriteInstallReassign, InstallTask
    <2>2. UNCHANGED records /\ (InstallDone(r) \/ \E at : at # "complete" /\ GoTo(r, at))
      BY <1>3 DEF WriteInstallStatus, WriteInstallCancel, WriteInstallReassign,
                  TablesUnchanged
    <2> QED
      BY <1>2, <2>1, <2>2, SamePaper
  <1>4. ASSUME NEW r \in InstallRequests,
               \/ RecheckOpen(r) \/ Relock(r) \/ Unlock(r) \/ ReadClaimForTask(r)
               \/ WriteClaimForTask(r) \/ ClaimRefused(r) \/ WriteLocation(r)
        PROVE  OwnPaper'
    <2>1. /\ UNCHANGED <<records, installTask>>
          /\ InstallDone(r) \/ \E at : at # "complete" /\ GoTo(r, at)
      BY <1>4
         DEF RecheckOpen, Relock, Unlock, ReadClaimForTask, WriteClaimForTask, ClaimRefused,
             WriteLocation, AfterClaim, TablesUnchanged
    <2> QED
      BY <1>2, <2>1, SamePaper
  <1>5. ASSUME NEW r \in InstallRequests, RecordStep(r), UNCHANGED installTask
        PROVE  OwnPaper'
    <2>1. CASE CreateMeterRow(r) \/ ReadSim(r) \/ LinkSim(r) \/ RefuseSim(r) \/ RecordRefused(r)
      <3>1. UNCHANGED records /\ (InstallDone(r) \/ \E at : at # "complete" /\ GoTo(r, at))
        BY <2>1 DEF CreateMeterRow, ReadSim, LinkSim, RefuseSim, RecordRefused
      <3> QED
        BY <1>2, <1>5, <3>1, SamePaper
    <2>2. CASE ReadMeter(r) \/ TakeNumber(r)
      <3>1. /\ UNCHANGED records /\ installReq'[r].at # "complete"
            /\ \A p \in InstallRequests \ {r} : installReq'[p] = installReq[p]
        BY <1>1, <2>2 DEF ReadMeter, TakeNumber, InstallRequest
      <3> QED
        BY <1>5, <3>1, SamePaper
    <2> QED
      BY <1>5, <2>1, <2>2, InsertKeepsPaper DEF RecordStep
  <1>6. ASSUME NEW t \in InstallIds, NEW m \in Meters, NEW u \in Users, CreateInstall(t, m, u)
        PROVE  OwnPaper'
    <2>1. /\ UNCHANGED <<records, installReq>> /\ installTask'[t].record = 0
          /\ \A n \in InstallIds \ {t} : installTask'[n] = installTask[n]
      BY <1>1, <1>6 DEF CreateInstall
    <2>2. \A r \in InstallRequests : installReq[r].at = "complete" => installReq[r].num # 0
      <3>1. \A rec \in records : rec.num # 0
        BY <1>1 DEF Record
      <3> QED
        BY <3>1 DEF CalmInv, RequestsKnow, Knows
    <2> QED
      BY <2>1, <2>2 DEF OwnPaper
  <1>7. ASSUME NEW r \in InstallRequests, installReq'[r].at # "complete",
               \A p \in InstallRequests \ {r} : installReq'[p] = installReq[p],
               UNCHANGED <<records, installTask>>
        PROVE  OwnPaper'
    BY <1>7, SamePaper
  <1>8. ASSUME NEW r \in InstallRequests, NEW t \in InstallIds,
               \/ ReadInstallStatus(r, t)
               \/ ReadInstallCancel(r, t)
               \/ \E u \in Users : ReadInstallReassign(r, t, u)
               \/ \E s \in Sims : ReadInstallComplete(r, t, s)
        PROVE  OwnPaper'
    <2>1. \E at \in {"start", "return", "cancel", "reassign", "claimRead"} :
            \E u, s : InstallRead(r, t, at, u, s)
      BY <1>8 DEF ReadInstallStatus, ReadInstallCancel, ReadInstallReassign,
                  ReadInstallComplete
    <2>2. /\ installReq'[r].at # "complete"
          /\ \A p \in InstallRequests \ {r} : installReq'[p] = installReq[p]
          /\ UNCHANGED <<records, installTask>>
      BY <1>1, <2>1 DEF InstallRead, TablesUnchanged, IdleInstall
    <2> QED
      BY <1>7, <2>2
  <1>9. CASE SubmitNext /\ UNCHANGED installTask
    <2>1. PICK r \in InstallRequests :
            \/ \E k \in Keys : SubmitItem(r, k)
            \/ \E m \in Meters, s \in Sims, u \in Users : SubmitForm(r, m, s, u)
      BY <1>9 DEF SubmitNext
    <2>2. /\ installReq'[r].at # "complete" /\ UNCHANGED records
          /\ \A p \in InstallRequests \ {r} : installReq'[p] = installReq[p]
      <3>1. CASE \E k \in Keys : SubmitItem(r, k)
        BY <1>1, <3>1 DEF SubmitItem, IdleInstall
      <3>2. CASE \E m \in Meters, s \in Sims, u \in Users : SubmitForm(r, m, s, u)
        BY <1>1, <3>2 DEF SubmitForm, IdleInstall
      <3> QED
        BY <2>1, <3>1, <3>2
    <2> QED
      BY <1>7, <1>9, <2>2
  <1>10. CASE UNCHANGED installVars
    BY <1>10, SamePaper DEF installVars, recordVars
  <1> QED
    BY <1>3, <1>4, <1>5, <1>6, <1>8, <1>9, <1>10, CompleteKeepsPaper
       DEF CalmInstallNext, InstallTaskNext, InstallTaskStep

\* Every step of requests that keep apart keeps the invariant.
LEMMA NextPromiseInv ==
  PromiseInv /\ [CalmInstallNext /\ InstallsApart']_installVars => PromiseInv'
PROOF
  BY NextCalmInv, TasksStayStill, PaperKept DEF PromiseInv

\* A write that moves one task and connects no record is a Move, or nothing at all.
LEMMA TaskMoves ==
  ASSUME InstallBase, UNCHANGED <<meter, records>>,
         NEW t \in InstallIds, NEW to, NEW from,
         installTask[t].status \in from \union {to},
         installTask'[t].status = to,
         installTask'[t].meter = installTask[t].meter,
         installTask'[t].record = installTask[t].record,
         \A i \in InstallIds \ {t} : installTask'[i] = installTask[i]
  PROVE  Promise!Move(t, from, to) \/ UNCHANGED Promise!orderVars
PROOF
  <1>1. [i \in InstallIds |-> installTask'[i].status]
          = [[i \in InstallIds |-> installTask[i].status] EXCEPT ![t] = to]
    OBVIOUS
  <1>2. [i \in InstallIds |-> installTask'[i].meter] = [i \in InstallIds |-> installTask[i].meter]
    OBVIOUS
  <1>3. [i \in InstallIds |-> installTask'[i].record]
          = [i \in InstallIds |-> installTask[i].record]
    OBVIOUS
  <1>4. CASE installTask[t].status \in from
    BY <1>1, <1>2, <1>3, <1>4 DEF Promise!Move
  <1>5. CASE installTask[t].status = to
    <2>1. [i \in InstallIds |-> installTask'[i].status]
            = [i \in InstallIds |-> installTask[i].status]
      BY <1>5
    <2> QED
      BY <1>2, <1>3, <2>1 DEF Promise!orderVars
  <1> QED
    BY <1>4, <1>5

\* start, return, cancel and reassign write a status the abstract task may take.
LEMMA StatusWrites ==
  ASSUME PromiseInv, NEW r \in InstallRequests,
         WriteInstallStatus(r) \/ WriteInstallCancel(r) \/ WriteInstallReassign(r)
  PROVE  Promise!OrderNext \/ UNCHANGED Promise!orderVars
PROOF
  <1> DEFINE q == installReq[r]
  <1>1. /\ installTask \in [InstallIds -> InstallTask] /\ InstallBase
        /\ Ready(q, installTask) /\ q \in InstallRequest /\ StillAt(q, installTask)
    BY DEF PromiseInv, TasksStill, CalmInv, InstallInv, InstallBase, TasksReady
  <1>2. q.at \in {"start", "return", "cancel", "reassign"} /\ UNCHANGED <<meter, records>>
    BY DEF WriteInstallStatus, WriteInstallCancel, WriteInstallReassign, TablesUnchanged,
           registryVars
  <1>3. PICK t \in InstallIds : t = q.task
    BY <1>1, <1>2 DEF Ready, TaskSteps, InstallRequest
  <1>4. /\ installTask'[t].meter = installTask[t].meter
        /\ installTask'[t].record = installTask[t].record
        /\ \A i \in InstallIds \ {t} : installTask'[i] = installTask[i]
    BY <1>1, <1>3
       DEF WriteInstallStatus, WriteInstallCancel, WriteInstallReassign, InstallTask
  <1>5. CASE q.at = "start"
    <2>1. installTask[t].status \in {"PENDING"} /\ installTask'[t].status = "IN_PROGRESS"
      BY <1>1, <1>3, <1>5
         DEF StillAt, WriteInstallStatus, WriteInstallCancel, WriteInstallReassign, InstallTask
    <2>2. \/ Promise!Move(t, {"PENDING"}, "IN_PROGRESS")
          \/ UNCHANGED Promise!orderVars
      BY <1>1, <1>2, <1>4, <2>1, TaskMoves
    <2> QED
      BY <2>2 DEF Promise!OrderNext
  <1>6. CASE q.at \in {"return", "reassign"}
    <2>1. /\ installTask[t].status \in {"IN_PROGRESS"} \union {"PENDING"}
          /\ installTask'[t].status = "PENDING"
      BY <1>1, <1>3, <1>6
         DEF StillAt, OpenInstall, WriteInstallStatus, WriteInstallCancel,
             WriteInstallReassign, InstallTask
    <2>2. \/ Promise!Move(t, {"IN_PROGRESS"}, "PENDING")
          \/ UNCHANGED Promise!orderVars
      BY <1>1, <1>2, <1>4, <2>1, TaskMoves
    <2> QED
      BY <2>2 DEF Promise!OrderNext
  <1>7. CASE q.at = "cancel"
    <2>1. /\ installTask[t].status \in {"PENDING", "IN_PROGRESS"} \union {"CANCELLED"}
          /\ installTask'[t].status = "CANCELLED"
      BY <1>1, <1>3, <1>7
         DEF StillAt, OpenInstall, WriteInstallStatus, WriteInstallCancel,
             WriteInstallReassign, InstallTask
    <2>2. \/ Promise!Move(t, {"PENDING", "IN_PROGRESS"}, "CANCELLED")
          \/ UNCHANGED Promise!orderVars
      BY <1>1, <1>2, <1>4, <2>1, TaskMoves
    <2> QED
      BY <2>2 DEF Promise!OrderNext
  <1> QED
    BY <1>2, <1>5, <1>6, <1>7

\* The last write of complete closes the task with a record of its own.
LEMMA CompletionKept ==
  ASSUME PromiseInv, NEW r \in InstallRequests, WriteInstallComplete(r)
  PROVE  Promise!OrderNext
PROOF
  <1> DEFINE q == installReq[r]
             paper == [i \in InstallIds |-> installTask[i].record]
             status == [i \in InstallIds |-> installTask[i].status]
             place == [i \in InstallIds |-> installTask[i].meter]
             link == [m \in Meters |-> meter[m].sim]
  <1>1. /\ installTask \in [InstallIds -> InstallTask]
        /\ Ready(q, installTask) /\ q \in InstallRequest /\ StillAt(q, installTask)
        /\ Knows(q, meter, sim, installTask, records)
        /\ q.at = "complete" /\ UNCHANGED <<meter, records>>
        /\ installTask' = [installTask EXCEPT ![q.task].status = "COMPLETED",
                                              ![q.task].record = q.num]
    BY DEF WriteInstallComplete, TablesUnchanged, registryVars, PromiseInv, TasksStill,
           CalmInv, RequestsKnow, InstallInv, InstallBase, TasksReady
  <1>2. PICK t \in InstallIds : t = q.task
    BY <1>1 DEF Ready, TaskSteps, InstallRequest
  <1>3. PICK rec \in records : rec.num = q.num /\ rec.meter = q.meter /\ rec.sim = q.sim
    BY <1>1 DEF Knows
  <1>4. /\ installTask[t].status = "IN_PROGRESS" /\ installTask[t].meter = q.meter
        /\ q.meter \in Meters /\ meter[q.meter].sim = q.sim
    BY <1>1, <1>2 DEF StillAt, SimSteps, TaskSteps, Ready, Knows
  <1>5. \A i \in InstallIds : installTask[i].record # rec.num
    BY <1>1, <1>3 DEF PromiseInv, OwnPaper
  <1>6. /\ installTask'[t].status = "COMPLETED" /\ installTask'[t].record = rec.num
        /\ installTask'[t].meter = installTask[t].meter
        /\ \A i \in InstallIds \ {t} : installTask'[i] = installTask[i]
    BY <1>1, <1>2, <1>3 DEF InstallTask
  <1> HIDE DEF q
  <1>7. status' = [status EXCEPT ![t] = "COMPLETED"] /\ place' = place
    BY <1>6
  <1>8. paper' = [paper EXCEPT ![t] = rec.num]
    BY <1>6
  <1>9. link' = link /\ UNCHANGED records
    BY <1>1
  <1>10. /\ status[t] = "IN_PROGRESS" /\ rec.meter = place[t] /\ rec.sim = link[place[t]]
         /\ \A i \in InstallIds : paper[i] # rec.num
    BY <1>3, <1>4, <1>5
  <1>11. Promise!Complete(t)
    BY <1>7, <1>8, <1>9, <1>10 DEF Promise!Complete
  <1> QED
    BY <1>11 DEF Promise!OrderNext

\* Where no SIM moves, no record is written and no task changes, nothing is seen.
LEMMA NothingSeen ==
  ASSUME UNCHANGED <<records, installTask>>, \A m \in Meters : meter'[m].sim = meter[m].sim
  PROVE  UNCHANGED Promise!orderVars
PROOF
  <1>1. [m \in Meters |-> meter'[m].sim] = [m \in Meters |-> meter[m].sim]
    OBVIOUS
  <1> QED
    BY <1>1 DEF Promise!orderVars

\* create puts the SIM in and writes what it then knows.
LEMMA CreateSteps ==
  ASSUME PromiseInv, InstallInv', NEW r \in InstallRequests, RecordStep(r),
         UNCHANGED installTask
  PROVE  Promise!OrderNext \/ UNCHANGED Promise!orderVars
PROOF
  <1> DEFINE q == installReq[r]
             link == [m \in Meters |-> meter[m].sim]
  <1>1. /\ installReq \in [InstallRequests -> InstallRequest]
        /\ meter \in [Meters -> MeterRow] /\ records' \subseteq Record
        /\ Ready(q, installTask) /\ q \in InstallRequest
        /\ Knows(q, meter, sim, installTask, records)
    BY DEF PromiseInv, CalmInv, RequestsKnow, InstallInv, InstallBase, TasksReady,
           RecordTypeOK, SimTypeOK, RegistryTypeOK
  <1>2. CASE LinkSim(r)
    <2>1. PICK m \in Meters, s \in Sims : m = q.meter /\ s = q.sim
      BY <1>1, <1>2 DEF LinkSim, Ready, SimSteps
    <2>2. /\ meter'[m].sim = s /\ UNCHANGED records
          /\ \A n \in Meters \ {m} : meter'[n] = meter[n]
      BY <1>1, <1>2, <2>1 DEF LinkSim, MetersAfterLink, MeterRow
    <2>3. link' = [link EXCEPT ![m] = s]
      BY <2>2
    <2>4. \A n, o \in Meters : link'[n] = link'[o] /\ link'[n] # None => n = o
      BY DEF InstallInv, InstallBase, OneMeterPerSim
    <2>5. Promise!PutIn(m, s)
      BY <2>2, <2>3, <2>4 DEF Promise!PutIn, Promise!NoTwoMeters
    <2> QED
      BY <2>5 DEF Promise!OrderNext
  <1>3. CASE InsertRecord(r)
    <2> DEFINE rec == [num |-> q.num, key |-> q.key, meter |-> q.meter, sim |-> q.sim]
    <2>1. /\ q.at = "record" /\ InsertAllowed(q) /\ UNCHANGED meter
          /\ records' = records \union {rec}
      BY <1>3 DEF InsertRecord, registryVars
    <2>2. /\ rec.num = q.num /\ rec.meter = q.meter /\ rec.sim = q.sim /\ q.meter \in Meters
          /\ meter[q.meter].sim = q.sim
      BY <1>1, <2>1 DEF Ready, Knows
    <2>3. \A old \in records : old.num # q.num
      BY <2>1 DEF InsertAllowed
    <2> HIDE DEF rec, q
    <2>4. rec \in Record
      BY <1>1, <2>1
    <2>5. link[rec.meter] = rec.sim /\ link' = link
      BY <2>1, <2>2
    <2>6. Promise!Write(rec)
      BY <2>1, <2>2, <2>3, <2>5 DEF Promise!Write
    <2> QED
      BY <2>4, <2>6 DEF Promise!OrderNext
  <1>4. CASE ~LinkSim(r) /\ ~InsertRecord(r)
    <2>1. UNCHANGED <<meter, records>>
      BY <1>4 DEF RecordStep, CreateMeterRow, ReadSim, RefuseSim, ReadMeter, TakeNumber,
                  RecordRefused, registryVars
    <2> QED
      BY <2>1, NothingSeen
  <1> QED
    BY <1>2, <1>3, <1>4

\* Every step of requests that keep apart is a step of InstallOrder or is not seen.
LEMMA NextPromise ==
  PromiseInv /\ [CalmInstallNext /\ InstallsApart']_installVars
    => [Promise!OrderNext]_(Promise!orderVars)
PROOF
  <1> SUFFICES ASSUME PromiseInv, [CalmInstallNext /\ InstallsApart']_installVars
               PROVE  Promise!OrderNext \/ UNCHANGED Promise!orderVars
    OBVIOUS
  <1>1. /\ InstallInv' /\ RegistryTypeOK /\ TasksReady
        /\ meter \in [Meters -> MeterRow] /\ installTask \in [InstallIds -> InstallTask]
    <2>1. InstallInv'
      BY CalmStep, NextInstallInv DEF PromiseInv, CalmInv
    <2> QED
      BY <2>1 DEF PromiseInv, CalmInv, InstallInv, InstallBase, TasksReady, RecordTypeOK,
                  SimTypeOK, RegistryTypeOK
  <1>2. ASSUME NEW t \in InstallIds, NEW m \in Meters, NEW u \in Users, CreateInstall(t, m, u)
        PROVE  Promise!OrderNext
    <2> DEFINE paper == [i \in InstallIds |-> installTask[i].record]
               status == [i \in InstallIds |-> installTask[i].status]
               place == [i \in InstallIds |-> installTask[i].meter]
               link == [n \in Meters |-> meter[n].sim]
    <2>1. status[t] = "NONE" /\ link[m] = None /\ UNCHANGED records
      BY <1>2 DEF CreateInstall
    <2>2. /\ status' = [status EXCEPT ![t] = "PENDING"]
          /\ place' = [place EXCEPT ![t] = m]
      BY <1>1, <1>2 DEF CreateInstall
    <2>3. paper' = paper
      <3>1. installTask[t].record = 0
        BY <1>2 DEF CreateInstall, PromiseInv, OwnPaper
      <3> QED
        BY <1>1, <1>2, <3>1 DEF CreateInstall
    <2>4. link' = link
      BY <1>1, <1>2 DEF CreateInstall, MeterRow
    <2>5. Promise!Open(t)
      BY <2>1, <2>2, <2>3, <2>4 DEF Promise!Open
    <2> QED
      BY <2>5 DEF Promise!OrderNext
  <1>3. ASSUME NEW r \in InstallRequests,
               \/ RecheckOpen(r) \/ Relock(r) \/ Unlock(r) \/ ReadClaimForTask(r)
               \/ WriteClaimForTask(r) \/ ClaimRefused(r) \/ WriteLocation(r)
        PROVE  UNCHANGED Promise!orderVars
    <2>1. UNCHANGED <<records, installTask>>
      BY <1>3 DEF RecheckOpen, Relock, Unlock, ReadClaimForTask, WriteClaimForTask,
                  ClaimRefused, WriteLocation, TablesUnchanged
    <2>2. \A m \in Meters : meter'[m].sim = meter[m].sim
      <3>1. CASE Relock(r) \/ Unlock(r) \/ WriteLocation(r)
        <4>1. installReq[r].meter \in Meters
          BY <1>1, <3>1 DEF Relock, Unlock, WriteLocation, TasksReady, Ready
        <4> QED
          BY <1>1, <3>1, <4>1, FlagWritten DEF Relock, Unlock, WriteLocation
      <3> QED
        BY <1>3, <3>1 DEF RecheckOpen, ReadClaimForTask, WriteClaimForTask, ClaimRefused,
                          TablesUnchanged, registryVars
    <2> QED
      BY <2>1, <2>2, NothingSeen
  <1>4. ASSUME NEW r \in InstallRequests, NEW t \in InstallIds,
               \/ ReadInstallStatus(r, t)
               \/ ReadInstallCancel(r, t)
               \/ \E u \in Users : ReadInstallReassign(r, t, u)
               \/ \E s \in Sims : ReadInstallComplete(r, t, s)
        PROVE  UNCHANGED Promise!orderVars
    BY <1>4, NothingSeen
       DEF ReadInstallStatus, ReadInstallCancel, ReadInstallReassign, ReadInstallComplete,
           InstallRead, TablesUnchanged, registryVars
  <1>5. CASE (SubmitNext /\ UNCHANGED installTask) \/ UNCHANGED installVars
    BY <1>5, NothingSeen
       DEF SubmitNext, SubmitItem, SubmitForm, installVars, recordVars, registryVars
  <1> QED
    BY <1>1, <1>2, <1>3, <1>4, <1>5, StatusWrites, CompletionKept, CreateSteps
       DEF CalmInstallNext, InstallTaskNext, InstallTaskStep

\* What the invariant says at every state.
LEMMA PromiseKept == CalmInstallSpec => []PromiseInv
PROOF
  BY InitPromiseInv, NextPromiseInv, PTL DEF CalmInstallSpec

\* Installations that are not cut short and keep apart implement InstallOrder: a task
\* completed or cancelled stays so, and it is completed with a record no other task
\* has, of its own meter and the SIM that is there, though complete is up to eleven
\* database steps (install-tasks.service.ts complete, installation-records.service.ts create).
THEOREM CalmImplementsInstallOrder == CalmInstallSpec => ImplementsInstallOrder
PROOF
  BY InitPromiseInv, NextPromise, PromiseKept, PTL
     DEF CalmInstallSpec, ImplementsInstallOrder, Promise!OrderSpec
=============================================================================

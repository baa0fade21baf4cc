-------------------------- MODULE FieldWork_proofs --------------------------
(***************************************************************************)
(* Proofs about the field operations together, for any number of meters,   *)
(* SIMs, shipments, operators, tasks and requests in flight.               *)
(*                                                                         *)
(* FieldInv holds in every interleaving, the administrator's corrections   *)
(* included.  It puts the invariants of the modules side by side: each     *)
(* step of one keeps its own, and of the columns the others rest on it     *)
(* touches none.  Only the deletion of a meter takes rows away from under  *)
(* requests; there the requests have to keep apart.                        *)
(***************************************************************************)
EXTENDS FieldWork, SimCards_proofs, DemountTasks_proofs, InstallTasks_proofs

\* What the requests of shipments and the deletion in flight carry.
ShipmentReady ==
  /\ ShipmentTypeOK
  /\ \A r \in ShipmentRequests : shipReq[r].at # "idle" => shipReq[r].shipment \in Shipments

AdminReady ==
  /\ AdminTypeOK
  /\ deleteReq # None => <<deleteReq.simAction, deleteReq.recordsAction>> \in Deletions

FieldInv ==
  /\ SimBase
  /\ DemountInv
  /\ InstallBase
  /\ ShipmentReady
  /\ AdminReady
  /\ CardsHaveShipment
  /\ RequestsApart

-----------------------------------------------------------------------------
(* What most steps leave to the other modules. *)

\* The demount tasks, under a step that is not theirs.
LEMMA DemountKept ==
  ASSUME DemountInv, RegistryTypeOK', OneMeterPerSim', UNCHANGED <<demountTask, demountReq>>,
         \A m \in Meters : meter'[m].openDemount = meter[m].openDemount
  PROVE  DemountInv'
PROOF
  <1>1. DemountTypeOK' /\ TaskHasMeter' /\ RequestMatchesTask'
    BY DEF DemountInv, DemountTypeOK, TaskHasMeter, RequestMatchesTask
  <1>2. DemountLockHasTask'
    BY DEF DemountInv, DemountLockHasTask
  <1> QED
    BY <1>1, <1>2 DEF DemountInv

\* The install tasks and the records.
LEMMA InstallKept ==
  ASSUME InstallBase, SimTypeOK', OneMeterPerSim', fresh' \subseteq Meters,
         records' \subseteq Record, RecordNumbersUnique', OneRecordPerKey',
         UNCHANGED <<form, installReq, installTask>>
  PROVE  InstallBase'
PROOF
  <1>1. RecordTypeOK'
    BY DEF InstallBase, RecordTypeOK
  <1>2. TasksReady'
    BY SameTasks, NoneAdvances DEF InstallBase
  <1> QED
    BY <1>1, <1>2 DEF InstallBase

\* Records that lose their SIM are still records, and no two of them get one number
\* or one key.
LEMMA DetachedRecords ==
  ASSUME records \subseteq Record, RecordNumbersUnique, OneRecordPerKey, NEW gone,
         records' = Detached(gone)
  PROVE  records' \subseteq Record /\ RecordNumbersUnique' /\ OneRecordPerKey'
PROOF
  <1> DEFINE Kept(rec) == IF rec.sim \in gone THEN [rec EXCEPT !.sim = None] ELSE rec
  <1>1. \A rec \in records :
          Kept(rec) \in Record /\ Kept(rec).num = rec.num /\ Kept(rec).key = rec.key
    BY DEF Record
  <1>2. \A x \in records' : \E rec \in records : x = Kept(rec)
    BY DEF Detached
  <1> HIDE DEF Kept
  <1> QED
    BY <1>1, <1>2 DEF RecordNumbersUnique, OneRecordPerKey

\* A meter's link only disappears.
LEMMA LinksOnlyGo ==
  ASSUME OneMeterPerSim, \A m \in Meters : meter'[m].sim \in {meter[m].sim, None}
  PROVE  OneMeterPerSim'
PROOF
  BY DEF OneMeterPerSim


\* The types of all tables and requests, gathered from the modules.
LEMMA FieldTypes ==
  ASSUME FieldInv
  PROVE  /\ meter \in [Meters -> MeterRow] /\ sim \in [Sims -> SimRow]
         /\ RegistryTypeOK /\ SimTypeOK /\ OneMeterPerSim
         /\ simReq \in [SimRequests -> SimRequest] /\ fresh \subseteq Meters
         /\ records \subseteq Record /\ RecordNumbersUnique /\ OneRecordPerKey
         /\ form \in [Keys -> Form]
         /\ installReq \in [InstallRequests -> InstallRequest]
         /\ installTask \in [InstallIds -> InstallTask]
         /\ demountTask \in [DemountIds -> DemountTask]
         /\ demountReq \in [DemountRequests -> DemountRequest]
         /\ shipment \in [Shipments -> ShipmentStatus]
         /\ box \in [Sims -> Shipments \union {None}]
         /\ shipReq \in [ShipmentRequests -> ShipmentRequest]
PROOF
  BY DEF FieldInv, SimBase, SimTypeOK, RegistryTypeOK, InstallBase, RecordTypeOK, TasksReady,
         DemountInv, DemountTypeOK, ShipmentReady, ShipmentTypeOK
-----------------------------------------------------------------------------
(* Keeping apart. *)

\* A slot has one request.
OneBySlot == \A a, b \in InFlight : a.slot = b.slot => a = b

LEMMA SlotsAreApart == OneBySlot
PROOF
  BY DEF OneBySlot, InFlight, Deletion, SimWork, InstallWork, DemountWork, ShipmentWork

LEMMA SlotsStayApart == OneBySlot'
PROOF
  BY DEF OneBySlot, InFlight, Deletion, SimWork, InstallWork, DemountWork, ShipmentWork

\* A step that neither begins, moves nor ends a request.
LEMMA SameRequests ==
  ASSUME RequestsApart, UNCHANGED <<deleteReq, simReq, installReq, demountReq, shipReq, box>>
  PROVE  RequestsApart'
PROOF
  <1>1. InFlight' = InFlight
    BY DEF InFlight, Deletion, SimWork, InstallWork, DemountWork, ShipmentWork, SimsOf
  <1> QED
    BY <1>1 DEF RequestsApart, NoInterference


\* Before the first request.
LEMMA InitFieldInv == FieldInit => FieldInv
PROOF
  <1> SUFFICES ASSUME FieldInit PROVE FieldInv
    OBVIOUS
  <1>1. InstallBase
    BY InitInstallInv DEF FieldInit, InstallInv
  <1>2. RegistryInit /\ \A r \in SimRequests : simReq[r] = IdleSim
    BY DEF FieldInit, InstallInit, RecordInit, SimInit
  <1>3. DemountInv
    BY <1>2, InitDemountInv DEF FieldInit, DemountInit
  <1>4. SimBase
    BY <1>1, <1>2 DEF SimBase, SimRequestComplete, IdleSim, InstallBase, RecordTypeOK
  <1>5. ShipmentReady
    <2> USE DEF FieldInit, ShipmentStock
    <2>1. shipment \in [Shipments -> ShipmentStatus]
      BY DEF ShipmentStatus
    <2>2. IdleShipment \in ShipmentRequest
      BY DEF IdleShipment, ShipmentRequest
    <2> QED
      BY <2>1, <2>2 DEF ShipmentReady, ShipmentTypeOK, IdleShipment
  <1>6. AdminReady
    BY DEF FieldInit, AdminInit, AdminReady, AdminTypeOK
  <1>7. InFlight = {}
    <2>1. deleteReq = None
      BY DEF FieldInit, AdminInit
    <2>2. /\ \A r \in SimRequests : simReq[r].at = "idle"
          /\ \A r \in InstallRequests : installReq[r].at = "idle"
          /\ \A r \in DemountRequests : demountReq[r].at = "idle"
          /\ \A r \in ShipmentRequests : shipReq[r].at = "idle"
      BY <1>2 DEF FieldInit, InstallInit, RecordInit, ShipmentStock, IdleSim, IdleInstall,
                  Idle, IdleShipment
    <2> QED
      BY <2>1, <2>2 DEF InFlight
  <1>8. CardsHaveShipment
    BY <1>5 DEF FieldInit, ShipmentStock, CardsHaveShipment, CardsOf, Present, ShipmentReady,
                ShipmentTypeOK
  <1> QED
    BY <1>1, <1>3, <1>4, <1>5, <1>6, <1>7, <1>8 DEF FieldInv, RequestsApart, NoInterference

-----------------------------------------------------------------------------
(* A SIM that is gone stays away; only new rows come, and they come into a shipment. *)

GoneStayGone == \A s \in Sims : sim[s].status = "DELETED" => sim'[s].status = "DELETED"

\* As long as no shipment goes, cards keep theirs.
LEMMA CardsKeepShipment ==
  ASSUME FieldInv, GoneStayGone, UNCHANGED <<box, shipment>>
  PROVE  CardsHaveShipment'
PROOF
  BY DEF FieldInv, CardsHaveShipment, GoneStayGone, Present

\* The row of one SIM is written, and it was there.
LEMMA RowWritten ==
  ASSUME FieldInv, NEW s, NEW row, sim[s].status # "DELETED", sim' = [sim EXCEPT ![s] = row]
  PROVE  GoneStayGone
PROOF
  BY FieldTypes DEF GoneStayGone

\* claim, assign, unassign and remove look for the row they write.
LEMMA SimStepsMakeNoCards ==
  ASSUME FieldInv, SimNext
  PROVE  GoneStayGone
PROOF
  <1>1. PICK r \in SimRequests : SimRequestNext(r)
    BY DEF SimNext
  <1>2. CASE WriteClaim(r) \/ WriteAssign(r) \/ WriteUnassign(r) \/ WriteRemove(r)
    BY <1>2, RowWritten DEF WriteClaim, WriteAssign, WriteUnassign, WriteRemove
  <1>3. CASE UNCHANGED sim
    BY <1>3 DEF GoneStayGone
  <1> QED
    BY <1>1, <1>2, <1>3 DEF SimRequestNext, ReadClaim, ReadAssign, ReadUnassign, ReadRemove,
                            ReadSimRow, SimRefused, SimCrash

\* So do the link and the claim of an installation.
LEMMA InstallStepsMakeNoCards ==
  ASSUME FieldInv, InstallNext
  PROVE  GoneStayGone
PROOF
  <1>1. ASSUME NEW r \in InstallRequests, WriteClaimForTask(r)
        PROVE  GoneStayGone
    BY <1>1, RowWritten DEF WriteClaimForTask
  <1>2. ASSUME NEW r \in InstallRequests, LinkSim(r)
        PROVE  GoneStayGone
    <2>1. \A s \in {installReq[r].sim, installReq[r].old} : s \in Sims => sim[s].status # "DELETED"
      BY <1>2, NoneAssumption DEF LinkSim, InstallAllowed, LinkAllowed
    <2>2. \A s \in Sims \ {installReq[r].sim, installReq[r].old} : sim'[s] = sim[s]
      BY <1>2 DEF LinkSim, SimsAfterLink
    <2> QED
      BY <2>1, <2>2 DEF GoneStayGone
  <1>3. CASE UNCHANGED sim
    BY <1>3 DEF GoneStayGone
  <1>4. ASSUME NEW r \in InstallRequests, InstallTaskStep(r)
        PROVE  WriteClaimForTask(r) \/ UNCHANGED sim
    BY <1>4 DEF InstallTaskStep, WriteInstallStatus, RecheckOpen, Relock, WriteInstallCancel,
                Unlock, WriteInstallReassign, ReadClaimForTask, ClaimRefused, WriteLocation,
                WriteInstallComplete, TablesUnchanged, registryVars
  <1>5. ASSUME NEW r \in InstallRequests, RecordStep(r)
        PROVE  LinkSim(r) \/ UNCHANGED sim
    BY <1>5 DEF RecordStep, CreateMeterRow, ReadSim, RefuseSim, ReadMeter, TakeNumber,
                InsertRecord, RecordRefused, registryVars
  <1>6. SubmitNext \/ (\E r \in InstallRequests : InstallCrash(r)) => UNCHANGED sim
    BY DEF SubmitNext, SubmitItem, SubmitForm, InstallCrash, registryVars
  <1>7. InstallTaskNext => UNCHANGED sim \/ \E r \in InstallRequests : InstallTaskStep(r)
    BY DEF InstallTaskNext, CreateInstall, ReadInstallStatus, ReadInstallCancel,
           ReadInstallReassign, ReadInstallComplete, InstallRead, TablesUnchanged, registryVars
  <1> QED
    BY <1>1, <1>2, <1>3, <1>4, <1>5, <1>6, <1>7 DEF InstallNext, RecordNext

\* And the two transactions of a demounting.
LEMMA DemountStepsMakeNoCards ==
  ASSUME FieldInv, DemountNext
  PROVE  GoneStayGone
PROOF
  <1>1. ASSUME NEW r \in DemountRequests, CommitReplace(r)
        PROVE  GoneStayGone
    <2>1. \A s \in {demountReq[r].old, demountReq[r].new} : sim[s].status # "DELETED"
      BY <1>1 DEF CommitReplace, ReplaceAllowed, LinkAllowed
    <2>2. \A s \in Sims \ {demountReq[r].old, demountReq[r].new} : sim'[s] = sim[s]
      BY <1>1, FieldTypes DEF CommitReplace
    <2> QED
      BY <2>1, <2>2 DEF GoneStayGone
  <1>2. ASSUME NEW r \in DemountRequests, CommitRemove(r)
        PROVE  GoneStayGone
    BY <1>2, RowWritten DEF CommitRemove
  <1>3. CASE UNCHANGED sim
    BY <1>3 DEF GoneStayGone
  <1> QED
    BY <1>1, <1>2, <1>3
       DEF DemountNext, CreateDemount, ReadDemountStatus, ReadDemountCancel,
           ReadDemountComplete, ReadDemountReassign, DemountRead, CheckReplacement,
           WriteDemountStatus, WriteDemountCancel, WriteDemountReassign, DemountRefused,
           DemountCrash

-----------------------------------------------------------------------------
(* Every interleaving, component by component. *)

\* Handing out SIMs: a SIM that is removed disappears from its meter and from its
\* records.
LEMMA SimStepKeeps ==
  ASSUME FieldInv, RequestsApart', SimNext,
         records' = Detached({s \in Sims : sim'[s].status = "DELETED"}),
         UNCHANGED <<fresh, form, installReq, adminVars>>, NoTaskChanges, NoShipmentChanges
  PROVE  FieldInv'
PROOF
  <1>1. /\ SimBase'
        /\ \A m \in Meters : \/ meter'[m] = meter[m]
                             \/ meter'[m] = [meter[m] EXCEPT !.sim = None]
    BY NextSimBase DEF FieldInv
  <1>2. /\ \A m \in Meters : meter'[m].openDemount = meter[m].openDemount
        /\ \A m \in Meters : meter'[m].sim \in {meter[m].sim, None}
    BY <1>1, FieldTypes DEF MeterRow
  <1>3. OneMeterPerSim'
    BY <1>2, FieldTypes, LinksOnlyGo
  <1>4. DemountInv'
    BY <1>1, <1>2, <1>3, DemountKept DEF FieldInv, SimBase, SimTypeOK, NoTaskChanges
  <1>5. InstallBase'
    <2>1. records' \subseteq Record /\ RecordNumbersUnique' /\ OneRecordPerKey'
      BY FieldTypes, DetachedRecords
    <2> QED
      BY <1>1, <1>3, <2>1, FieldTypes, InstallKept DEF FieldInv, SimBase, NoTaskChanges
  <1>6. ShipmentReady' /\ AdminReady'
    BY DEF FieldInv, ShipmentReady, ShipmentTypeOK, NoShipmentChanges, AdminReady, AdminTypeOK,
           adminVars
  <1>7. CardsHaveShipment'
    BY SimStepsMakeNoCards, CardsKeepShipment DEF NoShipmentChanges
  <1> QED
    BY <1>1, <1>4, <1>5, <1>6, <1>7 DEF FieldInv

\* Install tasks and installation records.
LEMMA InstallStepKeeps ==
  ASSUME FieldInv, RequestsApart', InstallNext,
         UNCHANGED <<demountTask, demountReq, adminVars>>, NoShipmentChanges
  PROVE  FieldInv'
PROOF
  <1>1. InstallBase' /\ LinkOnly /\ UNCHANGED simReq
    BY NextInstallBase, NextRegistry, NextRecords DEF FieldInv
  <1>2. SimTypeOK' /\ RegistryTypeOK' /\ OneMeterPerSim'
    BY <1>1 DEF InstallBase, RecordTypeOK, SimTypeOK
  <1>3. DemountInv'
    BY <1>1, <1>2, DemountKept DEF FieldInv, LinkOnly
  <1>4. SimBase'
    BY <1>1, <1>2 DEF FieldInv, SimBase, SimRequestComplete
  <1>5. ShipmentReady' /\ AdminReady'
    BY DEF FieldInv, ShipmentReady, ShipmentTypeOK, NoShipmentChanges, AdminReady, AdminTypeOK,
           adminVars
  <1>6. CardsHaveShipment'
    BY InstallStepsMakeNoCards, CardsKeepShipment DEF NoShipmentChanges
  <1> QED
    BY <1>1, <1>3, <1>4, <1>5, <1>6 DEF FieldInv

\* Demount tasks.
LEMMA DemountStepKeeps ==
  ASSUME FieldInv, RequestsApart', DemountNext,
         UNCHANGED <<simReq, fresh, form, records, installReq, installTask, adminVars>>,
         NoShipmentChanges
  PROVE  FieldInv'
PROOF
  <1>1. DemountInv'
    BY NextDemountInv DEF FieldInv
  <1>2. SimBase'
    BY <1>1 DEF FieldInv, SimBase, SimRequestComplete, SimTypeOK, DemountInv, DemountTypeOK
  <1>3. InstallBase'
    <2>1. SimTypeOK' /\ OneMeterPerSim' /\ RecordNumbersUnique' /\ OneRecordPerKey'
      BY <1>1, <1>2, FieldTypes DEF SimBase, DemountInv, RecordNumbersUnique, OneRecordPerKey
    <2> QED
      BY <2>1, FieldTypes, InstallKept DEF FieldInv
  <1>4. ShipmentReady' /\ AdminReady'
    BY DEF FieldInv, ShipmentReady, ShipmentTypeOK, NoShipmentChanges, AdminReady, AdminTypeOK,
           adminVars
  <1>5. CardsHaveShipment'
    BY DemountStepsMakeNoCards, CardsKeepShipment DEF NoShipmentChanges
  <1> QED
    BY <1>1, <1>2, <1>3, <1>4, <1>5 DEF FieldInv

\* What a step that leaves tasks and requests of the others alone has to show.
LEMMA TablesKeep ==
  ASSUME FieldInv, RequestsApart', ShipmentReady', AdminReady', RegistryTypeOK',
         \A m \in Meters : meter'[m].openDemount = meter[m].openDemount,
         OneMeterPerSim', CardsHaveShipment', fresh' \subseteq Meters,
         records' \subseteq Record, RecordNumbersUnique', OneRecordPerKey',
         UNCHANGED <<simReq, form, installReq, installTask, demountTask, demountReq>>
  PROVE  FieldInv'
PROOF
  <1>1. SimBase'
    BY FieldTypes DEF FieldInv, SimBase, SimRequestComplete, SimTypeOK
  <1>2. DemountInv'
    BY DemountKept DEF FieldInv
  <1>3. InstallBase'
    BY <1>1, InstallKept DEF FieldInv, SimBase
  <1> QED
    BY <1>1, <1>2, <1>3 DEF FieldInv

\* One request of shipments goes on or ends.
LEMMA ShipmentReqWritten ==
  ASSUME ShipmentReady, NEW r \in ShipmentRequests, NEW q \in ShipmentRequest,
         q.at # "idle" => q.shipment \in Shipments,
         shipReq' = [shipReq EXCEPT ![r] = q],
         shipment' \in [Shipments -> ShipmentStatus],
         box' \in [Sims -> Shipments \union {None}]
  PROVE  ShipmentReady'
PROOF
  BY DEF ShipmentReady, ShipmentTypeOK

LEMMA ShipmentEnds ==
  ASSUME ShipmentReady, NEW r \in ShipmentRequests, ShipmentDone(r),
         shipment' \in [Shipments -> ShipmentStatus],
         box' \in [Sims -> Shipments \union {None}]
  PROVE  ShipmentReady'
PROOF
  <1>1. IdleShipment \in ShipmentRequest /\ IdleShipment.at = "idle"
    BY DEF IdleShipment, ShipmentRequest
  <1> QED
    BY <1>1, ShipmentReqWritten DEF ShipmentDone

LEMMA ShipmentGoesOn ==
  ASSUME ShipmentReady, NEW r \in ShipmentRequests, shipReq[r].at # "idle",
         NEW at \in {"finish", "delete"}, ShipmentGoesTo(r, at),
         shipment' \in [Shipments -> ShipmentStatus],
         box' \in [Sims -> Shipments \union {None}]
  PROVE  ShipmentReady'
PROOF
  <1> DEFINE q == [shipReq[r] EXCEPT !.at = at]
  <1>1. shipReq[r] \in ShipmentRequest /\ shipReq[r].shipment \in Shipments
    BY DEF ShipmentReady, ShipmentTypeOK
  <1>2. q \in ShipmentRequest /\ q.shipment \in Shipments
    BY <1>1 DEF ShipmentRequest
  <1>3. shipReq' = [shipReq EXCEPT ![r] = q]
    BY DEF ShipmentReady, ShipmentTypeOK, ShipmentGoesTo
  <1> HIDE DEF q
  <1> QED
    BY <1>2, <1>3, ShipmentReqWritten

\* New rows are rows, and so are those of deleted cards.
LEMMA CardRows ==
  ASSUME sim \in [Sims -> SimRow], NEW cards, NEW status \in SimStatus
  PROVE  [s \in Sims |-> IF s \in cards THEN [status |-> status, by |-> None] ELSE sim[s]]
           \in [Sims -> SimRow]
PROOF
  BY DEF SimRow

\* Inserting the rows of a request.
LEMMA InsertKeeps ==
  ASSUME FieldInv, NEW r \in ShipmentRequests, shipReq[r].at # "idle",
         NEW status \in SimStatus, InsertRows(shipReq[r], status)
  PROVE  /\ sim' \in [Sims -> SimRow] /\ box' \in [Sims -> Shipments \union {None}]
         /\ CardsHaveShipment' /\ UNCHANGED <<meter, records, shipment>>
PROOF
  <1>1. shipReq[r].shipment \in Shipments /\ Present(shipReq[r].shipment)
    BY DEF FieldInv, ShipmentReady, InsertRows, RowsAllowed
  <1>2. sim' \in [Sims -> SimRow]
    BY FieldTypes, CardRows DEF InsertRows
  <1>3. box' \in [Sims -> Shipments \union {None}]
    BY <1>1, FieldTypes DEF InsertRows
  <1>4. CardsHaveShipment'
    BY <1>1 DEF InsertRows, FieldInv, CardsHaveShipment, Present
  <1> QED
    BY <1>2, <1>3, <1>4 DEF InsertRows

\* A removal takes the cards the shipment has by then with it.
LEMMA RemovalLeavesNoCards ==
  ASSUME FieldInv, NEW r \in ShipmentRequests,
         DeleteShipment(r) \/ DeleteEmptyShipment(r)
  PROVE  CardsHaveShipment'
PROOF
  <1> DEFINE h == shipReq[r].shipment
  <1> SUFFICES ASSUME NEW s \in Sims, sim'[s].status # "DELETED", box'[s] # None
               PROVE  Present(box[s])'
    BY DEF CardsHaveShipment, DeleteShipment, DeleteEmptyShipment
  <1>1. shipment' = [shipment EXCEPT ![h] = "DELETED"] /\ box' = box
    BY DEF DeleteShipment, DeleteEmptyShipment
  <1>2. s \notin CardsOf(h) /\ sim'[s] = sim[s]
    <2>1. CASE DeleteShipment(r)
      BY <2>1 DEF DeleteShipment
    <2>2. CASE DeleteEmptyShipment(r)
      BY <2>2 DEF DeleteEmptyShipment, registryVars
    <2> QED
      BY <2>1, <2>2
  <1>3. box[s] # h /\ Present(box[s]) /\ box[s] \in Shipments
    BY <1>1, <1>2, FieldTypes DEF CardsOf, FieldInv, CardsHaveShipment
  <1> HIDE DEF h
  <1> QED
    BY <1>1, <1>3, FieldTypes DEF Present

\* Shipments: creation, import, new cards and removal.
LEMMA ShipmentStepKeeps ==
  ASSUME FieldInv, RequestsApart', ShipmentNext, NoTaskChanges, UNCHANGED adminVars
  PROVE  FieldInv'
PROOF
  <1>1. /\ UNCHANGED <<simReq, fresh, form, installReq, installTask, demountTask, demountReq>>
        /\ AdminReady'
    BY DEF ShipmentNext, CreateShipment, ReadImport, ReadCardShipment, ReadShipmentRemove,
           InsertCards, InsertCard, InsertRows, FinishImport, CheckUse, DeleteShipment,
           DeleteEmptyShipment, ShipmentFails, NoRow,
           OtherTables, NoTaskChanges, FieldInv, AdminReady, AdminTypeOK, adminVars
  <1>2. \* The tables and the requests of shipments.
        SUFFICES /\ ShipmentReady' /\ CardsHaveShipment' /\ sim' \in [Sims -> SimRow]
                 /\ \E gone : meter' = Unlinked(gone)
                 /\ records' = records \/ \E gone : records' = Detached(gone)
    <2>1. meter' \in [Meters -> MeterRow]
      BY FieldTypes DEF Unlinked, MeterRow
    <2>2. /\ \A m \in Meters : meter'[m].openDemount = meter[m].openDemount
          /\ \A m \in Meters : meter'[m].sim \in {meter[m].sim, None}
      BY FieldTypes DEF Unlinked, MeterRow
    <2>3. OneMeterPerSim'
      BY <2>2, FieldTypes, LinksOnlyGo
    <2>4. records' \subseteq Record /\ RecordNumbersUnique' /\ OneRecordPerKey'
      BY FieldTypes, DetachedRecords DEF RecordNumbersUnique, OneRecordPerKey
    <2> QED
      BY <1>1, <2>1, <2>2, <2>3, <2>4, FieldTypes, TablesKeep DEF RegistryTypeOK
  <1>3. UNCHANGED meter => \E gone : meter' = Unlinked(gone)
    <2>1. UNCHANGED meter => meter' = Unlinked({})
      BY FieldTypes DEF Unlinked
    <2> QED
      BY <2>1
  <1>4. ShipmentReady /\ ShipmentTypeOK /\ CardsHaveShipment
    BY DEF FieldInv, ShipmentReady
  <1>5. ASSUME NEW h \in Shipments, CreateShipment(h)
        PROVE  ShipmentReady' /\ CardsHaveShipment' /\ UNCHANGED <<registryVars, records>>
    <2>1. shipment' \in [Shipments -> ShipmentStatus]
      BY <1>5, FieldTypes DEF CreateShipment, ShipmentStatus
    <2>2. CardsHaveShipment'
      BY <1>4, <1>5, FieldTypes DEF CreateShipment, CardsHaveShipment, Present, registryVars
    <2> QED
      BY <1>4, <1>5, <2>1, <2>2 DEF CreateShipment, ShipmentReady, ShipmentTypeOK
  <1>6. ASSUME NoRow PROVE CardsHaveShipment'
    BY <1>4, <1>6 DEF NoRow, CardsHaveShipment, Present, registryVars
  <1>7. ASSUME NEW h \in Shipments, NEW r \in ShipmentRequests,
               NEW at \in {"insert", "card", "use", "deleteEmpty"}, NEW cards \in SUBSET Sims,
               shipReq' = [shipReq EXCEPT ![r] =
                             [at |-> at, shipment |-> h, cards |-> cards]], NoRow
        PROVE  ShipmentReady' /\ CardsHaveShipment' /\ UNCHANGED <<registryVars, records>>
    <2> DEFINE q == [at |-> at, shipment |-> h, cards |-> cards]
    <2>1. q \in ShipmentRequest /\ q.shipment = h
      BY DEF ShipmentRequest
    <2> HIDE DEF q
    <2>2. shipReq' = [shipReq EXCEPT ![r] = q]
      BY <1>7 DEF q
    <2> QED
      BY <1>4, <1>6, <1>7, <2>1, <2>2, FieldTypes, ShipmentReqWritten DEF NoRow
  <1>8. ASSUME NEW h \in Shipments, NEW r \in ShipmentRequests,
               \/ \E cards \in SUBSET Sims : ReadImport(r, h, cards)
               \/ \E s \in Sims : ReadCardShipment(r, h, s)
               \/ ReadShipmentRemove(r, h)
        PROVE  ShipmentReady' /\ CardsHaveShipment' /\ UNCHANGED <<registryVars, records>>
    <2>1. CardsOf(h) \in SUBSET Sims /\ \A s \in Sims : {s} \in SUBSET Sims
      BY DEF CardsOf
    <2> QED
      BY <1>7, <1>8, <2>1 DEF ReadImport, ReadCardShipment, ReadShipmentRemove
  <1>9. ASSUME NEW r \in ShipmentRequests,
               InsertCards(r) \/ \E status \in PostedStatus : InsertCard(r, status)
        PROVE  /\ ShipmentReady' /\ CardsHaveShipment' /\ sim' \in [Sims -> SimRow]
               /\ UNCHANGED <<meter, records>>
    <2>1. PICK status \in SimStatus :
            /\ InsertRows(shipReq[r], status) /\ shipReq[r].at # "idle"
            /\ ShipmentGoesTo(r, "finish") \/ ShipmentDone(r)
      BY <1>9, ShipmentAssumption DEF InsertCards, InsertCard, SimStatus
    <2>2. /\ sim' \in [Sims -> SimRow] /\ box' \in [Sims -> Shipments \union {None}]
          /\ CardsHaveShipment' /\ UNCHANGED <<meter, records, shipment>>
      BY <2>1, InsertKeeps
    <2> QED
      BY <1>4, <2>1, <2>2, FieldTypes, ShipmentGoesOn, ShipmentEnds
  <1>10. ASSUME NEW r \in ShipmentRequests, CheckUse(r)
         PROVE  ShipmentReady' /\ CardsHaveShipment' /\ UNCHANGED <<registryVars, records>>
    <2>1. shipReq[r].at # "idle" /\ ShipmentGoesTo(r, "delete") /\ NoRow
      BY <1>10 DEF CheckUse
    <2> QED
      BY <1>4, <1>6, <2>1, FieldTypes, ShipmentGoesOn DEF NoRow
  <1>11. ASSUME NEW r \in ShipmentRequests, FinishImport(r)
         PROVE  ShipmentReady' /\ CardsHaveShipment' /\ UNCHANGED <<registryVars, records>>
    <2>1. shipment' \in [Shipments -> ShipmentStatus]
      BY <1>11, FieldTypes DEF FinishImport, ShipmentStatus
    <2>2. CardsHaveShipment'
      BY <1>4, <1>11, FieldTypes DEF FinishImport, CardsHaveShipment, Present, registryVars
    <2> QED
      BY <1>4, <1>11, <2>1, <2>2, FieldTypes, ShipmentEnds DEF FinishImport
  <1>12. ASSUME NEW h
         PROVE  [shipment EXCEPT ![h] = "DELETED"] \in [Shipments -> ShipmentStatus]
    BY FieldTypes DEF ShipmentStatus
  <1>13. ASSUME NEW r \in ShipmentRequests, DeleteShipment(r)
         PROVE  /\ ShipmentReady' /\ CardsHaveShipment' /\ sim' \in [Sims -> SimRow]
                /\ \E gone : meter' = Unlinked(gone)
                /\ \E gone : records' = Detached(gone)
    <2>1. ShipmentReady'
      BY <1>4, <1>12, <1>13, FieldTypes, ShipmentEnds DEF DeleteShipment
    <2>2. sim' \in [Sims -> SimRow]
      BY <1>13, FieldTypes, CardRows DEF DeleteShipment, SimStatus
    <2> QED
      BY <1>13, <2>1, <2>2, RemovalLeavesNoCards DEF DeleteShipment
  <1>14. ASSUME NEW r \in ShipmentRequests, DeleteEmptyShipment(r)
         PROVE  ShipmentReady' /\ CardsHaveShipment' /\ UNCHANGED <<registryVars, records>>
    BY <1>4, <1>12, <1>14, FieldTypes, ShipmentEnds, RemovalLeavesNoCards
       DEF DeleteEmptyShipment
  <1>15. ASSUME NEW r \in ShipmentRequests, ShipmentFails(r)
         PROVE  ShipmentReady' /\ CardsHaveShipment' /\ UNCHANGED <<registryVars, records>>
    BY <1>4, <1>6, <1>15, FieldTypes, ShipmentEnds DEF ShipmentFails, NoRow
  <1>16. ASSUME ShipmentReady', CardsHaveShipment', UNCHANGED <<registryVars, records>>
         PROVE  /\ ShipmentReady' /\ CardsHaveShipment' /\ sim' \in [Sims -> SimRow]
                /\ \E gone : meter' = Unlinked(gone)
                /\ records' = records \/ \E gone : records' = Detached(gone)
    BY <1>3, <1>16, FieldTypes DEF registryVars
  <1> QED
    BY <1>3, <1>5, <1>8, <1>9, <1>10, <1>11, <1>13, <1>14, <1>15, <1>16 DEF ShipmentNext

-----------------------------------------------------------------------------
(* The administrator. *)

\* While a meter is being deleted no request for it is in flight.
LEMMA DeletionApart ==
  ASSUME FieldInv, deleteReq # None
  PROVE  /\ NoInterference /\ deleteReq.meter \in Meters
         /\ \A r \in InstallRequests :
              installReq[r].at # "idle" => installReq[r].meter # deleteReq.meter
         /\ \A r \in DemountRequests :
              demountReq[r].at # "idle" => demountReq[r].meter # deleteReq.meter
PROOF
  <1>1. Orderly /\ NoInterference /\ deleteReq.meter \in Meters
    BY FieldAssumption DEF FieldInv, AdminReady, AdminTypeOK, RequestsApart
  <1>2. Deletion \in InFlight /\ Deletion.meter = deleteReq.meter
        /\ Deletion.slot = <<"delete", None>>
    BY DEF InFlight, Deletion
  <1>3. ASSUME NEW r \in InstallRequests, installReq[r].at # "idle"
        PROVE  installReq[r].meter # deleteReq.meter
    <2>1. InstallWork(r) \in InFlight /\ InstallWork(r).meter = installReq[r].meter
          /\ InstallWork(r).slot = <<"install", r>>
      BY <1>3 DEF InFlight, InstallWork
    <2> QED
      BY <1>1, <1>2, <2>1, NoneAssumption DEF NoInterference
  <1>4. ASSUME NEW r \in DemountRequests, demountReq[r].at # "idle"
        PROVE  demountReq[r].meter # deleteReq.meter
    <2>1. DemountWork(r) \in InFlight /\ DemountWork(r).meter = demountReq[r].meter
          /\ DemountWork(r).slot = <<"demount", r>>
      BY <1>4 DEF InFlight, DemountWork
    <2> QED
      BY <1>1, <1>2, <2>1, NoneAssumption DEF NoInterference
  <1> QED
    BY <1>1, <1>3, <1>4

\* The transaction of deleteWithConfirm.
LEMMA DeleteMeterKeeps ==
  ASSUME FieldInv, RequestsApart', DeleteMeter, NoShipmentChanges
  PROVE  FieldInv'
PROOF
  <1> DEFINE m == deleteReq.meter
  <1>1. /\ m \in Meters /\ deleteReq.sim \in Sims \union {None}
        /\ deleteReq # None /\ deleteReq' = None
        /\ UNCHANGED <<simReq, form, installReq, demountReq, editReq>>
    BY DEF DeleteMeter, FieldInv, AdminReady, AdminTypeOK
  <1>2. /\ \A r \in InstallRequests : installReq[r].at # "idle" => installReq[r].meter # m
        /\ \A r \in DemountRequests : demountReq[r].at # "idle" => demountReq[r].meter # m
    BY <1>1, DeletionApart
  <1>3. sim' \in [Sims -> SimRow]
    BY <1>1, FieldTypes DEF DeleteMeter, SimAfterDeletion, SimRow, SimStatus
  <1>4. /\ meter' \in [Meters -> MeterRow]
        /\ \A n \in Meters : meter'[n].sim \in {meter[n].sim, None}
        /\ ~meter'[m].openDemount
        /\ \A n \in Meters \ {m} : meter'[n].openDemount = meter[n].openDemount
    <2>1. BlankMeter \in MeterRow /\ BlankMeter.sim = None /\ ~BlankMeter.openDemount
      BY DEF BlankMeter, MeterRow, MeterStatus
    <2>2. \A n \in Meters : [meter[n] EXCEPT !.sim = None] \in MeterRow
      BY FieldTypes DEF MeterRow
    <2>3. meter' = [n \in Meters |-> IF n = m THEN BlankMeter
                                     ELSE IF Forgets(deleteReq, meter[n].sim)
                                          THEN [meter[n] EXCEPT !.sim = None] ELSE meter[n]]
      BY DEF DeleteMeter
    <2> HIDE DEF m
    <2>4. \A n \in Meters : meter[n] \in MeterRow
      BY FieldTypes
    <2>5. \A n \in Meters : [meter[n] EXCEPT !.sim = None].sim = None
                            /\ [meter[n] EXCEPT !.sim = None].openDemount = meter[n].openDemount
      BY <2>4 DEF MeterRow
    <2> QED
      BY <1>1, <2>1, <2>2, <2>3, <2>4, <2>5
  <1>5. OneMeterPerSim' /\ RegistryTypeOK'
    BY <1>3, <1>4, FieldTypes, LinksOnlyGo DEF RegistryTypeOK
  <1>6. /\ installTask' = [t \in InstallIds |->
                             IF installTask[t].meter = m
                             THEN [status |-> "NONE", meter |-> None, by |-> None, record |-> 0]
                             ELSE installTask[t]]
        /\ demountTask' = [t \in DemountIds |->
                             IF demountTask[t].meter = m
                             THEN [status |-> "NONE", meter |-> None, by |-> None,
                                   outcome |-> None]
                             ELSE demountTask[t]]
        /\ fresh' = fresh \union {m}
        /\ records' = {IF Forgets(deleteReq, rec.sim) THEN [rec EXCEPT !.sim = None] ELSE rec :
                         rec \in records \ RecordsOf(m)}
    BY DEF DeleteMeter
  <1> HIDE DEF m
  <1>7. SimBase'
    BY <1>1, <1>5 DEF FieldInv, SimBase, SimTypeOK, SimRequestComplete
  <1>8. DemountInv'
    <2>1. DemountTypeOK'
      BY <1>1, <1>5, <1>6, FieldTypes DEF DemountTypeOK, DemountTask, TaskStatus
    <2>2. TaskHasMeter'
      BY <1>6 DEF FieldInv, DemountInv, TaskHasMeter
    <2>3. RequestMatchesTask'
      <3>1. ASSUME NEW r \in DemountRequests, demountReq[r].at # "idle"
            PROVE  /\ demountReq[r].task \in DemountIds /\ demountReq[r].meter \in Meters
                   /\ demountTask'[demountReq[r].task] = demountTask[demountReq[r].task]
        BY <1>2, <1>6, <3>1 DEF FieldInv, DemountInv, RequestMatchesTask
      <3> QED
        BY <1>1, <3>1 DEF FieldInv, DemountInv, RequestMatchesTask
    <2>4. DemountLockHasTask'
      <3> SUFFICES ASSUME NEW n \in Meters, meter'[n].openDemount
                   PROVE  \E t \in DemountIds : /\ demountTask'[t].meter = n
                                                /\ demountTask'[t].status \in OpenStatus
        BY DEF DemountLockHasTask
      <3>1. n # m /\ meter[n].openDemount
        BY <1>1, <1>4
      <3>2. PICK t \in DemountIds : demountTask[t].meter = n /\ demountTask[t].status \in OpenStatus
        BY <3>1 DEF FieldInv, DemountInv, DemountLockHasTask
      <3> QED
        BY <1>6, <3>1, <3>2
    <2> QED
      BY <1>5, <2>1, <2>2, <2>3, <2>4 DEF DemountInv
  <1>9. InstallBase'
    <2>1. records' \subseteq Record /\ RecordNumbersUnique' /\ OneRecordPerKey'
      <3> DEFINE Kept(rec) == IF Forgets(deleteReq, rec.sim) THEN [rec EXCEPT !.sim = None]
                              ELSE rec
      <3>1. \A rec \in records :
              Kept(rec) \in Record /\ Kept(rec).num = rec.num /\ Kept(rec).key = rec.key
        BY FieldTypes DEF Record
      <3>2. \A x \in records' : \E rec \in records : x = Kept(rec)
        BY <1>6
      <3> HIDE DEF Kept
      <3> QED
        BY <3>1, <3>2, FieldTypes DEF RecordNumbersUnique, OneRecordPerKey
    <2>2. installTask' \in [InstallIds -> InstallTask]
      BY <1>6, FieldTypes, InstallAssumption DEF InstallTask
    <2>3. InstallTaskHasMeter'
      BY <1>6 DEF FieldInv, InstallBase, TasksReady, InstallTaskHasMeter
    <2>4. ASSUME NEW r \in InstallRequests
          PROVE  Ready(installReq[r], installTask')
      <3>1. Ready(installReq[r], installTask) /\ installReq[r] \in InstallRequest
        BY DEF FieldInv, InstallBase, TasksReady
      <3>2. installReq[r].task # None =>
              /\ installReq[r].task \in InstallIds /\ installReq[r].meter # m
              /\ installTask[installReq[r].task].meter = installReq[r].meter
        BY <1>2, <3>1 DEF Ready, InstallRequest
      <3>3. installReq[r].task # None =>
              installTask'[installReq[r].task] = installTask[installReq[r].task]
        BY <1>6, <3>2
      <3> QED
        BY <3>1, <3>3 DEF Ready
    <2>5. RecordTypeOK'
      BY <1>1, <1>5, <1>6, <2>1, FieldTypes DEF RecordTypeOK, SimTypeOK
    <2> QED
      BY <1>1, <1>5, <2>1, <2>2, <2>3, <2>4, <2>5, FieldTypes DEF InstallBase, TasksReady
  <1>10. ShipmentReady' /\ AdminReady'
    BY <1>1 DEF FieldInv, ShipmentReady, ShipmentTypeOK, NoShipmentChanges, AdminReady,
                AdminTypeOK
  <1>11. CardsHaveShipment'
    <2>1. GoneStayGone
      BY FieldTypes DEF DeleteMeter, SimAfterDeletion, DeletionAllowed, GoneStayGone
    <2> QED
      BY <2>1, CardsKeepShipment DEF NoShipmentChanges
  <1> QED
    BY <1>7, <1>8, <1>9, <1>10, <1>11 DEF FieldInv

\* A meter is entered, with the SIM an installation is to put in or without.
LEMMA CreateMeterKeeps ==
  ASSUME FieldInv, RequestsApart', NEW m \in Meters, NEW status \in MeterStatus,
         NoShipmentChanges,
         \/ CreateMeter(m, status)
         \/ \E r \in InstallRequests, s \in Sims : CreateMeterWithSim(r, m, s, status)
  PROVE  FieldInv'
PROOF
  <1>1. /\ UNCHANGED <<sim, simReq, form, records, installTask, demountTask, demountReq>>
        /\ UNCHANGED adminVars /\ fresh' = fresh \ {m}
        /\ meter' = [meter EXCEPT ![m].status = status]
    BY DEF CreateMeter, CreateMeterWithSim, NoTaskChanges
  <1>2. fresh' \subseteq Meters /\ ShipmentReady' /\ AdminReady' /\ CardsHaveShipment'
    BY <1>1, FieldTypes DEF FieldInv, ShipmentReady, ShipmentTypeOK, NoShipmentChanges,
                            AdminReady, AdminTypeOK, adminVars, CardsHaveShipment, Present
  <1>3. \A n \in Meters : meter'[n] \in MeterRow /\ meter'[n].sim = meter[n].sim
                           /\ meter'[n].openDemount = meter[n].openDemount
    BY <1>1, FieldTypes DEF MeterRow
  <1>4. /\ OneMeterPerSim' /\ RecordNumbersUnique' /\ OneRecordPerKey' /\ RegistryTypeOK'
        /\ records' \subseteq Record
    BY <1>1, <1>3, FieldTypes
       DEF OneMeterPerSim, RecordNumbersUnique, OneRecordPerKey, RegistryTypeOK
  <1>5. CASE CreateMeter(m, status)
    BY <1>1, <1>2, <1>3, <1>4, <1>5, FieldTypes, TablesKeep DEF CreateMeter
  <1>6. ASSUME NEW r \in InstallRequests, NEW s \in Sims, CreateMeterWithSim(r, m, s, status)
        PROVE  FieldInv'
    <2> DEFINE q == [IdleInstall EXCEPT !.at = "sim", !.meter = m, !.sim = s]
    <2>1. /\ q \in InstallRequest /\ q.at = "sim" /\ q.task = None
          /\ q.meter = m /\ q.sim = s
      <3>1. IdleInstall \in InstallRequest /\ IdleInstall.task = None
        BY InstallAssumption DEF IdleInstall, InstallRequest
      <3> QED
        BY <3>1 DEF InstallRequest
    <2>2. installReq' = [installReq EXCEPT ![r] = q]
      BY <1>6 DEF CreateMeterWithSim
    <2> HIDE DEF q
    <2>3. Ready(q, installTask')
      BY <2>1 DEF Ready, TaskSteps
    <2>4. TasksReady' /\ RecordTypeOK'
      <3>1. TasksReady /\ TasksKept
        BY <1>1, SameTasks DEF FieldInv, InstallBase
      <3> QED
        BY <1>1, <1>2, <1>4, <2>1, <2>2, <2>3, <3>1, OneAdvances, FieldTypes
           DEF RecordTypeOK, SimTypeOK
    <2>5. InstallBase'
      BY <1>2, <1>4, <2>4, FieldTypes DEF InstallBase
    <2>6. SimBase' /\ DemountInv'
      BY <1>1, <1>3, <1>4, FieldTypes, DemountKept
         DEF FieldInv, SimBase, SimTypeOK, SimRequestComplete
    <2> QED
      BY <1>2, <2>5, <2>6 DEF FieldInv
  <1> QED
    BY <1>5, <1>6

\* The other steps of a deletion, which only read.
LEMMA DeletionReadKeeps ==
  ASSUME FieldInv, RequestsApart', NoShipmentChanges,
         \/ \E m \in Meters, d \in Deletions : ReadMeterDelete(m, d[1], d[2])
         \/ ReadMeterRecords
         \/ DeletionFails
  PROVE  FieldInv'
PROOF
  <1>1. UNCHANGED <<registryVars, simReq, fresh, form, records, installReq, editReq,
                    installTask, demountTask, demountReq>> /\ ShipmentReady'
    BY DEF ReadMeterDelete, ReadMeterRecords, DeletionFails, OnlyDeletion, NoTaskChanges,
           FieldInv, ShipmentReady, ShipmentTypeOK, NoShipmentChanges
  <1>2. AdminReady /\ AdminTypeOK
    BY DEF FieldInv, AdminReady
  <1>3. AdminReady'
    <2>1. ASSUME NEW m \in Meters, NEW d \in Deletions, ReadMeterDelete(m, d[1], d[2])
          PROVE  AdminReady'
      <3>1. d[1] \in SimActions /\ d[2] \in RecordsActions /\ <<d[1], d[2]>> \in Deletions
        BY AdminAssumption
      <3>2. meter[m].sim \in Sims \union {None}
        BY FieldTypes DEF MeterRow
      <3> QED
        BY <1>1, <1>2, <2>1, <3>1, <3>2, NoneAssumption
           DEF ReadMeterDelete, AdminReady, AdminTypeOK
    <2>2. CASE ReadMeterRecords
      BY <1>1, <1>2, <2>2, NoneAssumption DEF ReadMeterRecords, AdminReady, AdminTypeOK
    <2>3. CASE DeletionFails
      BY <1>1, <1>2, <2>3 DEF DeletionFails, AdminReady, AdminTypeOK
    <2> QED
      BY <2>1, <2>2, <2>3
  <1>4. /\ OneMeterPerSim' /\ RecordNumbersUnique' /\ OneRecordPerKey' /\ RegistryTypeOK'
        /\ CardsHaveShipment'
    BY <1>1, FieldTypes
       DEF OneMeterPerSim, RecordNumbersUnique, OneRecordPerKey, RegistryTypeOK, registryVars,
           FieldInv, CardsHaveShipment, Present, NoShipmentChanges
  <1> QED
    BY <1>1, <1>3, <1>4, FieldTypes, TablesKeep DEF registryVars

\* Edits of a meter, those that bypass the handlers included: a link that is written
\* has passed the unique index.
LEMMA EditKeeps ==
  ASSUME FieldInv, NoShipmentChanges,
         \/ \E m \in Meters :
              \/ \E status \in MeterStatus : \/ EditMeterStatus(m, status)
                                             \/ EditMeterClear(m, status)
              \/ \E s \in Sims : ReadMeterLink(m, s)
         \/ editReq # None /\ \E status \in MeterStatus : WriteMeterLink(status)
         \/ MeterLinkFails
  PROVE  FieldInv'
PROOF
  <1>1. UNCHANGED <<sim, simReq, fresh, form, records, installReq, deleteReq,
                    installTask, demountTask, demountReq, shipment, box, shipReq>>
    BY DEF EditMeterStatus, EditMeterClear, ReadMeterLink, WriteMeterLink, MeterLinkFails,
           OnlyMeters, NoTaskChanges, NoShipmentChanges
  <1>2. RequestsApart' /\ ShipmentReady' /\ AdminReady /\ AdminTypeOK
    BY <1>1, SameRequests DEF FieldInv, ShipmentReady, ShipmentTypeOK, AdminReady
  <1>3. \* The meters and the edit in flight.
        SUFFICES /\ editReq' \in [meter : Meters, sim : Sims] \union {None}
                 /\ meter' \in [Meters -> MeterRow]
                 /\ \A n \in Meters : meter'[n].openDemount = meter[n].openDemount
                 /\ OneMeterPerSim'
    <2>1. AdminReady'
      BY <1>1, <1>2 DEF AdminReady, AdminTypeOK
    <2>2. RegistryTypeOK' /\ RecordNumbersUnique' /\ OneRecordPerKey' /\ CardsHaveShipment'
      BY <1>1, FieldTypes DEF RegistryTypeOK, RecordNumbersUnique, OneRecordPerKey, FieldInv,
                              CardsHaveShipment, Present
    <2> QED
      BY <1>1, <1>2, <2>1, <2>2, FieldTypes, TablesKeep
  <1>4. ASSUME UNCHANGED meter
        PROVE  /\ meter' \in [Meters -> MeterRow] /\ OneMeterPerSim'
               /\ \A n \in Meters : meter'[n].openDemount = meter[n].openDemount
    BY <1>4, FieldTypes DEF OneMeterPerSim
  <1>5. ASSUME NEW m \in Meters, NEW row \in MeterRow, meter' = [meter EXCEPT ![m] = row],
               row.openDemount = meter[m].openDemount,
               row.sim \in {meter[m].sim, None} \/ \A n \in Meters \ {m} : meter[n].sim # row.sim
        PROVE  /\ meter' \in [Meters -> MeterRow] /\ OneMeterPerSim'
               /\ \A n \in Meters : meter'[n].openDemount = meter[n].openDemount
    BY <1>5, FieldTypes DEF OneMeterPerSim
  <1>6. ASSUME NEW m \in Meters, NEW status \in MeterStatus,
               EditMeterStatus(m, status) \/ EditMeterClear(m, status)
        PROVE  /\ editReq' = editReq
               /\ meter' \in [Meters -> MeterRow] /\ OneMeterPerSim'
               /\ \A n \in Meters : meter'[n].openDemount = meter[n].openDemount
    <2> DEFINE row == IF EditMeterStatus(m, status) THEN [meter[m] EXCEPT !.status = status]
                      ELSE [meter[m] EXCEPT !.sim = None, !.state = "NO_SIM", !.status = status]
    <2>1. meter' = [meter EXCEPT ![m] = row] /\ editReq' = editReq
      BY <1>6 DEF EditMeterStatus, EditMeterClear
    <2>2. meter[m] \in MeterRow
      BY FieldTypes
    <2>3. row \in MeterRow /\ row.openDemount = meter[m].openDemount
          /\ row.sim \in {meter[m].sim, None}
      BY <2>2 DEF MeterRow
    <2> HIDE DEF row
    <2> QED
      BY <1>5, <2>1, <2>3
  <1>7. ASSUME NEW m \in Meters, NEW s \in Sims, ReadMeterLink(m, s)
        PROVE  editReq' \in [meter : Meters, sim : Sims] /\ UNCHANGED meter
    BY <1>7 DEF ReadMeterLink
  <1>8. ASSUME NEW status \in MeterStatus, editReq # None, WriteMeterLink(status)
        PROVE  /\ editReq' = None
               /\ meter' \in [Meters -> MeterRow] /\ OneMeterPerSim'
               /\ \A n \in Meters : meter'[n].openDemount = meter[n].openDemount
    <2> DEFINE m == editReq.meter
               row == [meter[m] EXCEPT !.sim = editReq.sim, !.state = "INSTALLED",
                                       !.status = status]
    <2>1. m \in Meters /\ editReq.sim \in Sims
      BY <1>2, <1>8 DEF AdminTypeOK
    <2>2. meter[m] \in MeterRow
      BY <2>1, FieldTypes
    <2>3. row \in MeterRow /\ row.openDemount = meter[m].openDemount /\ row.sim = editReq.sim
      BY <2>1, <2>2 DEF MeterRow
    <2>4. meter' = [meter EXCEPT ![m] = row] /\ editReq' = None
          /\ \A n \in Meters \ {m} : meter[n].sim # editReq.sim
      BY <1>8, <2>1 DEF WriteMeterLink, LinkAllowed
    <2> HIDE DEF row, m
    <2> QED
      BY <1>5, <2>1, <2>3, <2>4
  <1> QED
    BY <1>2, <1>4, <1>6, <1>7, <1>8 DEF MeterLinkFails, AdminTypeOK

\* The edit of a card: it may go to a shipment, which then is there.
LEMMA EditCardKeeps ==
  ASSUME FieldInv, RequestsApart', NEW s \in Sims, NEW status \in SimStatus,
         NEW h \in Shipments \union {box[s]}, EditSimCard(s, status, h),
         UNCHANGED adminVars, NoTaskChanges
  PROVE  FieldInv'
PROOF
  <1>1. UNCHANGED <<meter, simReq, fresh, form, records, installReq, editReq, deleteReq,
                    installTask, demountTask, demountReq, shipment, shipReq>>
    BY DEF EditSimCard, OtherTables, adminVars, NoTaskChanges
  <1>2. /\ sim' = [sim EXCEPT ![s].status = status] /\ box' = [box EXCEPT ![s] = h]
        /\ sim[s].status # "DELETED" /\ (h = box[s] \/ Present(h))
    BY DEF EditSimCard
  <1>3. sim' \in [Sims -> SimRow] /\ box' \in [Sims -> Shipments \union {None}]
    BY <1>2, FieldTypes DEF SimRow
  <1>4. ShipmentReady' /\ AdminReady'
    BY <1>1, <1>3 DEF FieldInv, ShipmentReady, ShipmentTypeOK, AdminReady, AdminTypeOK
  <1>5. CardsHaveShipment'
    <2>1. \A n \in Sims : box'[n] # box[n] => Present(box'[n])
      BY <1>2, FieldTypes
    <2>2. GoneStayGone
      BY <1>2, RowWritten
    <2> QED
      BY <1>1, <2>1, <2>2 DEF FieldInv, CardsHaveShipment, GoneStayGone, Present
  <1>6. OneMeterPerSim' /\ RecordNumbersUnique' /\ OneRecordPerKey' /\ RegistryTypeOK'
    BY <1>1, <1>3, FieldTypes
       DEF OneMeterPerSim, RecordNumbersUnique, OneRecordPerKey, RegistryTypeOK
  <1> QED
    BY <1>1, <1>4, <1>5, <1>6, FieldTypes, TablesKeep

\* Every step, the administrator's corrections included.
LEMMA NextFieldInv == FieldInv /\ [OverrideNext]_fieldVars => FieldInv'
PROOF
  <1> SUFFICES ASSUME FieldInv, [OverrideNext]_fieldVars PROVE FieldInv'
    OBVIOUS
  <1>1. /\ EditedStatus \subseteq MeterStatus /\ EditedSimStatus \subseteq SimStatus
        /\ \A m \in Meters : EditedStatuses(m) \subseteq MeterStatus
    BY AdminAssumption, FieldAssumption, FieldTypes DEF EditedStatuses, MeterRow
  <1>2. CASE RequestNext /\ RequestsApart'
    <2>1. CASE \/ \E m \in Meters, status \in EditedStatus \union {"ACTIVE"} :
                    \/ CreateMeter(m, status)
                    \/ \E r \in InstallRequests, s \in Sims : CreateMeterWithSim(r, m, s, status)
               \/ DeleteNext
      <3>1. CASE NoShipmentChanges
        <4>1. EditedStatus \union {"ACTIVE"} \subseteq MeterStatus
          BY <1>1 DEF MeterStatus
        <4> QED
          BY <1>2, <2>1, <3>1, <4>1, CreateMeterKeeps, DeletionReadKeeps, DeleteMeterKeeps
             DEF DeleteNext
      <3>2. CASE ~NoShipmentChanges
        BY <1>2, <3>2, SimStepKeeps, InstallStepKeeps, DemountStepKeeps, ShipmentStepKeeps
           DEF RequestNext
      <3> QED
        BY <3>1, <3>2
    <2> QED
      BY <1>2, <2>1, SimStepKeeps, InstallStepKeeps, DemountStepKeeps, ShipmentStepKeeps
         DEF RequestNext
  <1>3. CASE \E m \in Meters : \E status \in EditedStatus :
               EditMeterStatus(m, status) /\ NoShipmentChanges
    BY <1>1, <1>3, EditKeeps
  <1>4. CASE /\ \/ \E m \in Meters :
                     \/ \E status \in EditedStatuses(m) : EditMeterClear(m, status)
                     \/ \E s \in Sims : ReadMeterLink(m, s)
                \/ /\ editReq # None
                   /\ \E status \in EditedStatuses(editReq.meter) : WriteMeterLink(status)
                \/ MeterLinkFails
             /\ NoShipmentChanges
    <2>1. editReq # None => editReq.meter \in Meters
      BY DEF FieldInv, AdminReady, AdminTypeOK
    <2> QED
      BY <1>1, <1>4, <2>1, EditKeeps
  <1>5. CASE \E s \in Sims : \E status \in EditedSimStatus \union {sim[s].status},
                                h \in Shipments \union {box[s]} :
               /\ EditSimCard(s, status, h) /\ NoTaskChanges /\ UNCHANGED adminVars
               /\ RequestsApart'
    <2>1. \A s \in Sims : sim[s].status \in SimStatus
      BY FieldTypes DEF SimRow
    <2> QED
      BY <1>1, <1>5, <2>1, EditCardKeeps
  <1>6. CASE UNCHANGED fieldVars
    <2>1. /\ UNCHANGED <<meter, sim, simReq, fresh, form, records, installReq, editReq,
                         deleteReq, installTask, demountTask, demountReq>>
          /\ NoShipmentChanges
      BY <1>6 DEF fieldVars, installVars, recordVars, registryVars, adminVars, NoShipmentChanges
    <2>2. RequestsApart' /\ ShipmentReady' /\ AdminReady'
      BY <2>1, SameRequests DEF NoShipmentChanges, FieldInv, ShipmentReady, ShipmentTypeOK,
                                AdminReady, AdminTypeOK
    <2>3. /\ OneMeterPerSim' /\ RecordNumbersUnique' /\ OneRecordPerKey' /\ RegistryTypeOK'
          /\ CardsHaveShipment'
      BY <2>1, FieldTypes
         DEF OneMeterPerSim, RecordNumbersUnique, OneRecordPerKey, RegistryTypeOK, FieldInv,
             CardsHaveShipment, Present, NoShipmentChanges
    <2> QED
      BY <2>1, <2>2, <2>3, FieldTypes, TablesKeep
  <1> QED
    BY <1>2, <1>3, <1>4, <1>5, <1>6 DEF OverrideNext, FieldNext

\* FieldInv at every state, with any number of requests of every kind at once.
THEOREM FieldInvariant == OverrideSpec => []FieldInv
PROOF
  BY InitFieldInv, NextFieldInv, PTL DEF OverrideSpec

\* The types of all the tables and of the requests of all the modules, in every
\* interleaving of them (schema.prisma).
THEOREM FieldTypesHold == OverrideSpec => []FieldTypeOK
PROOF
  <1>1. FieldInv => FieldTypeOK
    BY DEF FieldInv, FieldTypeOK, DemountInv, InstallBase, InstallTypeOK, TasksReady,
           ShipmentReady, AdminReady
  <1> QED
    BY <1>1, FieldInvariant, PTL

\* No SIM is ever in two meters, whoever writes meters.simCardId: installations,
\* replacements, and the administrator's edits of a meter (the unique index of
\* schema.prisma is all that stands between them).
THEOREM NoSimInTwoMeters == OverrideSpec => []OneMeterPerSim
PROOF
  <1>1. FieldInv => OneMeterPerSim
    BY FieldTypes
  <1> QED
    BY <1>1, FieldInvariant, PTL

\* A card there is belongs to a shipment there is, in every interleaving of imports, new
\* cards, edits and removals (the foreign key of sim_cards and the last query of remove).
THEOREM CardsHaveShipmentHolds == OverrideSpec => []CardsHaveShipment
PROOF
  <1>1. FieldInv => CardsHaveShipment
    BY DEF FieldInv
  <1> QED
    BY <1>1, FieldInvariant, PTL

\* A meter locked for demounting has an open demount task, although the other modules
\* write the same rows and deleting a meter takes its tasks away.
THEOREM FieldLockHasTask == OverrideSpec => []DemountLockHasTask
PROOF
  <1>1. FieldInv => DemountLockHasTask
    BY DEF FieldInv, DemountInv
  <1> QED
    BY <1>1, FieldInvariant, PTL

-----------------------------------------------------------------------------
(* Orderly work.                                                           *)
(*                                                                         *)
(* When requests about one meter, SIM or shipment wait for each other, no  *)
(* meter is deleted with its SIM left as it is and no card is posted as    *)
(* INSTALLED, what a request read is still so when it writes.  A step      *)
(* writes only rows its request is about (Frame), and those are none that  *)
(* another request in flight knows something of (Clear).                   *)

OrderlyWork ==
  /\ Orderly
  /\ \A d \in Deletions : d[1] # "LEAVE_AS_IS"
  /\ "INSTALLED" \notin PostedStatus

\* Some installation record names the SIM.
Recorded(s) == \E rec \in records : rec.sim = s

\* What one row owes the others.
MeterFits(m) ==
  /\ meter[m].state = "INSTALLED" <=> meter[m].sim # None
  /\ meter[m].openDemount => meter[m].sim # None

CardFits(s) ==
  /\ sim[s].status = "INSTALLED" <=> InMeter(s)
  /\ box[s] = None /\ Shipments # {} => sim[s].status = "DELETED"

TablesFit == (\A m \in Meters : MeterFits(m)) /\ (\A s \in Sims : CardFits(s))

\* What a request in flight read and relies on when it writes.
SimKnows(r) ==
  LET q == simReq[r] IN
  /\ q.at = "claim" => sim[q.sim].status = "AVAILABLE"
  /\ q.at = "assign" => sim[q.sim].status \in {"AVAILABLE", "ASSIGNED"}
  /\ q.at = "unassign" => sim[q.sim].status = "ASSIGNED"
  /\ q.at = "remove" => ~InMeter(q.sim)

InstallKnows(r) ==
  LET q == installReq[r] IN
  /\ q.at \in {"claimRead", "claim"} => q.user \in Users
  /\ q.at = "claim" => sim[q.sim].status = "AVAILABLE"
  /\ q.at = "link" => meter[q.meter].sim = q.old

DemountKnows(r) ==
  LET q == demountReq[r] IN
  q.at \in {"check", "replace", "remove"} => meter[q.meter].sim = q.old

ShipmentKnows(r) ==
  LET q == shipReq[r] IN
  /\ q.at \in {"use", "delete"} => CardsOf(q.shipment) \subseteq q.cards
  /\ q.at = "delete" => \A s \in q.cards : ~InMeter(s) /\ ~Recorded(s)

DeletionKnows == deleteReq # None => meter[deleteReq.meter].sim = deleteReq.sim

Knowledge ==
  /\ \A r \in SimRequests : SimKnows(r)
  /\ \A r \in InstallRequests : InstallKnows(r)
  /\ \A r \in DemountRequests : DemountKnows(r)
  /\ \A r \in ShipmentRequests : ShipmentKnows(r)
  /\ DeletionKnows

OrderlyInv == FieldInv /\ TablesFit /\ Knowledge

\* The step writes only rows that e is about.
Frame(e) ==
  /\ \A m \in Meters : m # e.meter => meter'[m].sim = meter[m].sim
  /\ \A s \in Sims \ e.sims :
       /\ InMeter(s)' <=> InMeter(s)
       /\ Recorded(s)' => Recorded(s)
       /\ sim'[s] = sim[s]
  /\ \A h \in Shipments : h # e.shipment => CardsOf(h)' = CardsOf(h)

Clear(b, e) ==
  /\ b.meter = e.meter => b.meter = None
  /\ b.shipment = e.shipment => b.shipment = None
  /\ b.sims \cap e.sims = {}

\* A step that writes no row somebody could know something of.
Nothing == [slot |-> None, meter |-> None, sims |-> {}, shipment |-> None]

\* All requests but the one in slot x stay as they are, and what they know is so.
OthersSame(x) ==
  /\ \A r \in SimRequests : <<"sim", r>> # x => simReq'[r] = simReq[r]
  /\ \A r \in InstallRequests : <<"install", r>> # x => installReq'[r] = installReq[r]
  /\ \A r \in DemountRequests : <<"demount", r>> # x => demountReq'[r] = demountReq[r]
  /\ \A r \in ShipmentRequests : <<"shipment", r>> # x => shipReq'[r] = shipReq[r]
  /\ <<"delete", None>> # x => deleteReq' = deleteReq

KnownBut(x) ==
  /\ \A r \in SimRequests : <<"sim", r>> # x => SimKnows(r)
  /\ \A r \in InstallRequests : <<"install", r>> # x => InstallKnows(r)
  /\ \A r \in DemountRequests : <<"demount", r>> # x => DemountKnows(r)
  /\ \A r \in ShipmentRequests : <<"shipment", r>> # x => ShipmentKnows(r)
  /\ <<"delete", None>> # x => DeletionKnows

\* A request nobody gets in the way of still knows what it knew.
LEMMA FrameKnows ==
  ASSUME FieldInv, Knowledge, NEW e, Frame(e)
  PROVE  /\ \A r \in SimRequests :
              simReq'[r] = simReq[r] /\ (simReq[r].at # "idle" => Clear(SimWork(r), e))
              => SimKnows(r)'
         /\ \A r \in InstallRequests :
              installReq'[r] = installReq[r]
              /\ (installReq[r].at # "idle" => Clear(InstallWork(r), e))
              => InstallKnows(r)'
         /\ \A r \in DemountRequests :
              demountReq'[r] = demountReq[r]
              /\ (demountReq[r].at # "idle" => Clear(DemountWork(r), e))
              => DemountKnows(r)'
         /\ \A r \in ShipmentRequests :
              shipReq'[r] = shipReq[r] /\ (shipReq[r].at # "idle" => Clear(ShipmentWork(r), e))
              => ShipmentKnows(r)'
         /\ deleteReq' = deleteReq /\ (deleteReq # None => Clear(Deletion, e)) => DeletionKnows'
PROOF
  <1>1. \A s \in Sims \ e.sims : sim'[s].status = sim[s].status
    BY DEF Frame
  <1>2. ASSUME NEW r \in SimRequests, simReq'[r] = simReq[r],
               simReq[r].at # "idle" => Clear(SimWork(r), e)
        PROVE  SimKnows(r)'
    <2>1. CASE simReq[r].at = "idle"
      BY <1>2, <2>1 DEF SimKnows
    <2>2. CASE simReq[r].at # "idle"
      <3>1. simReq[r].sim \in Sims \ e.sims
        BY <1>2, <2>2 DEF FieldInv, SimBase, SimRequestComplete, Clear, SimWork
      <3>2. InMeter(simReq[r].sim)' <=> InMeter(simReq'[r].sim)
        BY <1>2, <3>1 DEF Frame, InMeter
      <3> QED
        BY <1>1, <1>2, <3>1, <3>2 DEF SimKnows, Knowledge
    <2> QED
      BY <2>1, <2>2
  <1>3. ASSUME NEW r \in InstallRequests, installReq'[r] = installReq[r],
               installReq[r].at # "idle" => Clear(InstallWork(r), e)
        PROVE  InstallKnows(r)'
    <2> DEFINE q == installReq[r]
    <2>1. Ready(q, installTask)
      BY DEF FieldInv, InstallBase, TasksReady
    <2>2. ASSUME q.at = "claim" PROVE sim'[q.sim].status = "AVAILABLE"
      <3>1. q.sim \in Sims /\ q.sim \in SimsOf(q)
        BY <2>1, <2>2, NoneAssumption DEF Ready, SimSteps, SimsOf
      <3>2. q.sim \in Sims \ e.sims
        BY <1>3, <2>2, <3>1 DEF Clear, InstallWork
      <3> QED
        BY <1>1, <2>2, <3>2 DEF Knowledge, InstallKnows
    <2>3. ASSUME q.at = "link" PROVE meter'[q.meter].sim = q.old
      <3>1. q.meter \in Meters /\ q.meter # e.meter
        BY <1>3, <2>1, <2>3, NoneAssumption DEF Ready, Clear, InstallWork
      <3> QED
        BY <2>3, <3>1 DEF Frame, Knowledge, InstallKnows
    <2> QED
      BY <1>3, <2>2, <2>3 DEF Knowledge, InstallKnows
  <1>4. ASSUME NEW r \in DemountRequests, demountReq'[r] = demountReq[r],
               demountReq[r].at # "idle" => Clear(DemountWork(r), e)
        PROVE  DemountKnows(r)'
    <2>1. demountReq[r].at # "idle" =>
            demountReq[r].meter \in Meters /\ demountReq[r].meter # e.meter
      BY <1>4, NoneAssumption
         DEF FieldInv, DemountInv, RequestMatchesTask, Clear, DemountWork
    <2> QED
      BY <1>4, <2>1 DEF Frame, Knowledge, DemountKnows
  <1>5. ASSUME NEW r \in ShipmentRequests, shipReq'[r] = shipReq[r],
               shipReq[r].at # "idle" => Clear(ShipmentWork(r), e)
        PROVE  ShipmentKnows(r)'
    <2> DEFINE q == shipReq[r]
    <2>1. CASE q.at = "idle"
      BY <1>5, <2>1 DEF ShipmentKnows
    <2>2. CASE q.at # "idle"
      <3>1. /\ q.shipment \in Shipments /\ q.shipment # e.shipment
            /\ q.cards \subseteq Sims \ e.sims
        BY <1>5, <2>2, ShipmentAssumption, FieldTypes
           DEF FieldInv, ShipmentReady, Clear, ShipmentWork, ShipmentRequest
      <3>2. CardsOf(q.shipment)' = CardsOf(shipReq'[r].shipment)
        BY <1>5, <3>1 DEF Frame, CardsOf
      <3>3. q.at = "delete" => \A s \in q.cards : ~InMeter(s)' /\ ~Recorded(s)'
        BY <3>1 DEF Frame, Knowledge, ShipmentKnows
      <3> QED
        BY <1>5, <3>1, <3>2, <3>3 DEF Knowledge, ShipmentKnows
    <2> QED
      BY <2>1, <2>2
  <1>6. ASSUME deleteReq' = deleteReq, deleteReq # None => Clear(Deletion, e)
        PROVE  DeletionKnows'
    <2>1. deleteReq # None => deleteReq.meter \in Meters /\ deleteReq.meter # e.meter
      BY <1>6, NoneAssumption DEF FieldInv, AdminReady, AdminTypeOK, Clear, Deletion
    <2> QED
      BY <1>6, <2>1 DEF Frame, Knowledge, DeletionKnows
  <1> QED
    BY <1>2, <1>3, <1>4, <1>5, <1>6

\* No request but the one that takes the step is about what it writes.
LEMMA OthersClear ==
  ASSUME Orderly, RequestsApart, NEW e \in InFlight, NEW b \in InFlight, b.slot # e.slot
  PROVE  Clear(b, e)
PROOF
  BY DEF RequestsApart, NoInterference, Clear

LEMMA OtherRequestsKnow ==
  ASSUME FieldInv, Knowledge, NEW x, NEW e, Frame(e), OthersSame(x),
         e = Nothing \/ (Orderly /\ e \in InFlight /\ e.slot = x)
  PROVE  KnownBut(x)'
PROOF
  <1>1. CASE e = Nothing
    <2>1. \A b : Clear(b, e) <=> (b.meter = None => b.meter = None)
                                 /\ (b.shipment = None => b.shipment = None)
                                 /\ b.sims \cap {} = {}
      BY <1>1 DEF Clear, Nothing
    <2>2. \A b : Clear(b, e)
      BY <2>1
    <2>3. /\ \A r \in SimRequests : simReq'[r] = simReq[r] => SimKnows(r)'
          /\ \A r \in InstallRequests : installReq'[r] = installReq[r] => InstallKnows(r)'
          /\ \A r \in DemountRequests : demountReq'[r] = demountReq[r] => DemountKnows(r)'
          /\ \A r \in ShipmentRequests : shipReq'[r] = shipReq[r] => ShipmentKnows(r)'
          /\ deleteReq' = deleteReq => DeletionKnows'
      BY <2>2, FrameKnows
    <2> QED
      BY <2>3 DEF OthersSame, KnownBut
  <1>2. CASE Orderly /\ e \in InFlight /\ e.slot = x
    <2>1. RequestsApart
      BY DEF FieldInv
    <2>2. ASSUME NEW r \in SimRequests, <<"sim", r>> # x
          PROVE  simReq[r].at # "idle" => Clear(SimWork(r), e)
      BY <1>2, <2>1, <2>2, OthersClear DEF InFlight, SimWork
    <2>3. ASSUME NEW r \in InstallRequests, <<"install", r>> # x
          PROVE  installReq[r].at # "idle" => Clear(InstallWork(r), e)
      BY <1>2, <2>1, <2>3, OthersClear DEF InFlight, InstallWork
    <2>4. ASSUME NEW r \in DemountRequests, <<"demount", r>> # x
          PROVE  demountReq[r].at # "idle" => Clear(DemountWork(r), e)
      BY <1>2, <2>1, <2>4, OthersClear DEF InFlight, DemountWork
    <2>5. ASSUME NEW r \in ShipmentRequests, <<"shipment", r>> # x
          PROVE  shipReq[r].at # "idle" => Clear(ShipmentWork(r), e)
      BY <1>2, <2>1, <2>5, OthersClear DEF InFlight, ShipmentWork
    <2>6. ASSUME <<"delete", None>> # x
          PROVE  deleteReq # None => Clear(Deletion, e)
      BY <1>2, <2>1, <2>6, OthersClear DEF InFlight, Deletion
    <2> QED
      BY <2>2, <2>3, <2>4, <2>5, <2>6, FrameKnows DEF OthersSame, KnownBut
  <1> QED
    BY <1>1, <1>2

\* The step of one request, kind by kind; and a step of none.
LEMMA AllKnow ==
  /\ \A r \in SimRequests : KnownBut(<<"sim", r>>)' /\ SimKnows(r)' => Knowledge'
  /\ \A r \in InstallRequests : KnownBut(<<"install", r>>)' /\ InstallKnows(r)' => Knowledge'
  /\ \A r \in DemountRequests : KnownBut(<<"demount", r>>)' /\ DemountKnows(r)' => Knowledge'
  /\ \A r \in ShipmentRequests : KnownBut(<<"shipment", r>>)' /\ ShipmentKnows(r)' => Knowledge'
  /\ KnownBut(<<"delete", None>>)' /\ DeletionKnows' => Knowledge'
  /\ KnownBut(<<"none", None>>)' => Knowledge'
PROOF
  BY DEF KnownBut, Knowledge

\* A step that writes neither a link, nor a SIM, nor a record touches nothing.
LEMMA NothingWritten ==
  ASSUME \A m \in Meters : meter'[m].sim = meter[m].sim, UNCHANGED <<sim, box>>,
         \A s \in Sims : Recorded(s)' => Recorded(s)
  PROVE  Frame(Nothing)
PROOF
  BY DEF Frame, Nothing, InMeter, CardsOf

\* The SIMs a step is not about fit as before.
LEMMA OthersFit ==
  ASSUME TablesFit, NEW e, Frame(e), \A s \in Sims : box'[s] = box[s] \/ box'[s] # None,
         NEW s \in Sims \ e.sims
  PROVE  CardFits(s)'
PROOF
  <1>1. CardFits(s) /\ (InMeter(s)' <=> InMeter(s)) /\ sim'[s] = sim[s]
    BY DEF TablesFit, Frame
  <1> QED
    BY <1>1 DEF CardFits

\* What is left to show of a step: the rows it writes fit, and its own request knows
\* what it goes on with.
LEMMA StepOrderly ==
  ASSUME OrderlyInv, OrderlyWork, NEW x, NEW e, Frame(e), OthersSame(x),
         e = Nothing \/ (e \in InFlight /\ e.slot = x),
         \A s \in Sims : box'[s] = box[s] \/ box'[s] # None,
         \A s \in Sims \cap e.sims : CardFits(s)',
         \A m \in Meters : MeterFits(m)'
  PROVE  TablesFit' /\ KnownBut(x)'
PROOF
  <1>1. \A s \in Sims : CardFits(s)'
    BY OthersFit DEF OrderlyInv
  <1>2. KnownBut(x)'
    BY OtherRequestsKnow DEF OrderlyInv, OrderlyWork
  <1> QED
    BY <1>1, <1>2 DEF TablesFit

\* A step that writes no link, no SIM and no new record.
LEMMA StillOrderly ==
  ASSUME OrderlyInv, OrderlyWork, NEW x, OthersSame(x), UNCHANGED <<sim, box>>,
         \A m \in Meters : meter'[m].sim = meter[m].sim,
         \A m \in Meters : MeterFits(m)',
         \A s \in Sims : Recorded(s)' => Recorded(s)
  PROVE  TablesFit' /\ KnownBut(x)'
PROOF
  <1>1. Frame(Nothing) /\ \A s \in Sims \cap Nothing.sims : CardFits(s)'
    BY NothingWritten DEF Nothing
  <1> QED
    BY <1>1, StepOrderly

\* A SIM that records lose is named by fewer.
LEMMA DetachedNamesLess ==
  ASSUME records \subseteq Record, NEW gone, records' = Detached(gone)
  PROVE  \A s \in Sims : Recorded(s)' => Recorded(s)
PROOF
  <1> SUFFICES ASSUME NEW s \in Sims, NEW x \in records', x.sim = s
               PROVE  Recorded(s)
    BY DEF Recorded
  <1>1. PICK rec \in records : x = IF rec.sim \in gone THEN [rec EXCEPT !.sim = None] ELSE rec
    BY DEF Detached
  <1>2. rec.sim \in gone => x.sim = None
    BY <1>1 DEF Record
  <1> QED
    BY <1>1, <1>2, NoneAssumption DEF Recorded

\* Nobody's cards change with the status of a SIM that is there before and after.
LEMMA SameCards ==
  ASSUME UNCHANGED box,
         \A s \in Sims : sim'[s].status = "DELETED" <=> sim[s].status = "DELETED"
  PROVE  \A h \in Shipments : CardsOf(h)' = CardsOf(h)
PROOF
  BY DEF CardsOf
-----------------------------------------------------------------------------
(* Orderly work, component by component. *)

\* The row of one SIM is written by a request about it; the meters stay.
LEMMA CardWritten ==
  ASSUME FieldInv, NEW e, NEW s \in Sims, s \in e.sims, NEW row,
         sim' = [sim EXCEPT ![s] = row],
         row.status = "DELETED" <=> sim[s].status = "DELETED",
         UNCHANGED <<meter, box>>, \A n \in Sims : Recorded(n)' => Recorded(n)
  PROVE  Frame(e) /\ sim'[s] = row
PROOF
  <1>1. sim'[s] = row /\ \A n \in Sims \ {s} : sim'[n] = sim[n]
    BY FieldTypes
  <1>2. \A h \in Shipments : CardsOf(h)' = CardsOf(h)
    BY <1>1, SameCards
  <1> QED
    BY <1>1, <1>2 DEF Frame, InMeter

\* Handing out SIMs.
LEMMA SimStepOrderly ==
  ASSUME OrderlyInv, OrderlyWork, SimNext,
         records' = Detached({s \in Sims : sim'[s].status = "DELETED"}),
         UNCHANGED <<fresh, form, installReq, adminVars>>, NoTaskChanges, NoShipmentChanges
  PROVE  TablesFit' /\ Knowledge'
PROOF
  <1>1. PICK r \in SimRequests : SimRequestNext(r)
    BY DEF SimNext
  <1>2. PICK card, e : card = simReq[r].sim /\ e = SimWork(r)
    OBVIOUS
  <1> DEFINE q == simReq[r]
             x == <<"sim", r>>
  <1>3. /\ FieldInv /\ TablesFit /\ SimKnows(r)
        /\ simReq \in [SimRequests -> SimRequest] /\ sim \in [Sims -> SimRow]
        /\ q.sim = card
        /\ q.at # "idle" => card \in Sims /\ e \in InFlight /\ e.slot = x /\ card \in e.sims
        /\ q.at \in {"claim", "assign"} => q.user \in Users
    BY <1>2, FieldTypes DEF OrderlyInv, FieldInv, SimBase, SimRequestComplete, Knowledge,
                            InFlight, SimWork
  <1>4. \A s \in Sims : Recorded(s)' => Recorded(s)
    BY DetachedNamesLess, FieldTypes DEF OrderlyInv
  <1>5. ASSUME NEW row, simReq' = [simReq EXCEPT ![r] = row]
        PROVE  OthersSame(x)
    BY <1>3, <1>5 DEF OthersSame, adminVars, NoTaskChanges, NoShipmentChanges
  <1>6. SimDone(r) => OthersSame(x) /\ SimKnows(r)'
    <2>1. SimDone(r) => simReq'[r].at = "idle"
      BY <1>3 DEF SimDone, IdleSim
    <2> QED
      BY <1>5, <2>1 DEF SimDone, SimKnows
  <1>7. ASSUME UNCHANGED meter PROVE \A m \in Meters : MeterFits(m)'
    BY <1>3, <1>7 DEF TablesFit, MeterFits
  <1>8. \A s \in Sims : box'[s] = box[s] \/ box'[s] # None
    BY DEF NoShipmentChanges
  <1>9. ASSUME UNCHANGED <<meter, sim>>, OthersSame(x), SimKnows(r)'
        PROVE  TablesFit' /\ Knowledge'
    BY <1>4, <1>7, <1>9, StillOrderly, AllKnow DEF NoShipmentChanges
  <1>10. ASSUME NEW row, q.at # "idle", sim' = [sim EXCEPT ![card] = row], UNCHANGED meter,
               sim[card].status \notin {"DELETED", "INSTALLED"},
               row.status \in {"AVAILABLE", "ASSIGNED"}, SimDone(r)
        PROVE  TablesFit' /\ Knowledge'
    <2>1. Frame(e) /\ sim'[card] = row
      BY <1>3, <1>4, <1>10, CardWritten DEF NoShipmentChanges
    <2>2. CardFits(card)' /\ e.sims = {card}
      <3>1. CardFits(card) /\ (InMeter(card)' <=> InMeter(card))
        BY <1>3, <1>10 DEF TablesFit, InMeter
      <3> QED
        BY <1>2, <1>3, <1>10, <2>1, <3>1 DEF CardFits, NoShipmentChanges, SimWork
    <2> QED
      BY <1>3, <1>6, <1>7, <1>8, <1>10, <2>1, <2>2, StepOrderly, AllKnow
  <1>11. ASSUME NEW s \in Sims, NEW at, NEW u, ReadSimRow(r, s, at, u),
                at = "claim" => sim[s].status = "AVAILABLE",
                at = "assign" => sim[s].status \in {"AVAILABLE", "ASSIGNED"},
                at = "unassign" => sim[s].status = "ASSIGNED",
                at = "remove" => ~InMeter(s)
         PROVE  TablesFit' /\ Knowledge'
    <2>1. simReq'[r] = [at |-> at, sim |-> s, user |-> u] /\ UNCHANGED <<meter, sim>>
          /\ OthersSame(x)
      BY <1>3, <1>5, <1>11 DEF ReadSimRow
    <2>2. SimKnows(r)'
      BY <1>11, <2>1 DEF SimKnows, InMeter
    <2> QED
      BY <1>9, <2>1, <2>2
  <1>12. CASE \E s \in Sims : \/ \E u \in Users : ReadClaim(r, s, u) \/ ReadAssign(r, s, u)
                              \/ ReadUnassign(r, s)
                              \/ ReadRemove(r, s)
    BY <1>11, <1>12 DEF ReadClaim, Claimable, ReadAssign, ReadUnassign, ReadRemove
  <1>13. CASE WriteClaim(r) \/ WriteAssign(r) \/ WriteUnassign(r)
    <2> DEFINE row == IF WriteUnassign(r) THEN [status |-> "AVAILABLE", by |-> None]
                      ELSE AssignedTo(q.user)
    <2>1. /\ q.at \in {"claim", "assign", "unassign"}
          /\ sim' = [sim EXCEPT ![card] = row]
          /\ SimDone(r) /\ UNCHANGED meter
          /\ WriteUnassign(r) \/ q.at \in {"claim", "assign"}
      BY <1>3, <1>13 DEF WriteClaim, WriteAssign, WriteUnassign
    <2>2. sim[card].status \notin {"DELETED", "INSTALLED"}
      BY <1>3, <2>1 DEF SimKnows
    <2>3. row.status \in {"AVAILABLE", "ASSIGNED"}
      BY DEF AssignedTo
    <2> HIDE DEF row
    <2> QED
      BY <1>10, <2>1, <2>2, <2>3
  <1>14. CASE WriteRemove(r)
    <2>1. /\ q.at = "remove" /\ card \in Sims /\ ~InMeter(card) /\ SimDone(r)
          /\ sim' = [sim EXCEPT ![card] = [status |-> "DELETED", by |-> None]]
      BY <1>3, <1>14 DEF WriteRemove, SimKnows
    <2>2. UNCHANGED meter
      <3>1. \A m \in Meters : meter'[m] = meter[m]
        BY <1>3, <1>14, <2>1 DEF WriteRemove, InMeter
      <3> QED
        BY <1>14, <3>1, FieldTypes DEF WriteRemove, OrderlyInv
    <2>3. /\ sim'[card] = [status |-> "DELETED", by |-> None]
          /\ \A s \in Sims \ {card} : sim'[s] = sim[s]
          /\ UNCHANGED box /\ e.shipment = box[card] /\ e.sims = {card}
      BY <1>2, <1>3, <2>1 DEF NoShipmentChanges, SimWork
    <2>4. Frame(e)
      <3>1. \A h \in Shipments : h # e.shipment => CardsOf(h)' = CardsOf(h)
        BY <2>3 DEF CardsOf
      <3> QED
        BY <1>4, <2>2, <2>3, <3>1 DEF Frame, InMeter
    <2>5. CardFits(card)'
      BY <2>1, <2>2, <2>3 DEF CardFits, InMeter
    <2> QED
      BY <1>3, <1>6, <1>7, <1>8, <2>1, <2>2, <2>3, <2>4, <2>5, StepOrderly, AllKnow
  <1>15. CASE SimRefused(r) \/ SimCrash(r)
    BY <1>6, <1>9, <1>15 DEF SimRefused, SimCrash
  <1> QED
    BY <1>1, <1>12, <1>13, <1>14, <1>15 DEF SimRequestNext

\* Installations and install tasks: the steps that write neither table.
LEMMA InstallReadsOrderly ==
  ASSUME OrderlyInv, OrderlyWork, NEW r \in InstallRequests, OthersSame(<<"install", r>>),
         InstallKnows(r)', UNCHANGED <<sim, box, records>>, LinkOnly,
         \A m \in Meters : meter'[m].sim = meter[m].sim
  PROVE  TablesFit' /\ Knowledge'
PROOF
  <1>1. \A m \in Meters : MeterFits(m)'
    <2>1. TablesFit
      BY DEF OrderlyInv
    <2>2. ASSUME NEW m \in Meters
          PROVE  \/ meter'[m].state = meter[m].state
                 \/ meter'[m].state = "INSTALLED" /\ meter'[m].sim # None
      <3>1. CASE \E n \in Meters, s \in Sims :
                   /\ meter'[n].sim = s /\ meter'[n].state = "INSTALLED"
                   /\ \A k \in Meters \ {n} : meter'[k].state = meter[k].state
        BY <3>1, NoneAssumption
      <3> QED
        BY <3>1 DEF LinkOnly
    <2>3. \A m \in Meters : meter'[m].openDemount = meter[m].openDemount
      BY DEF LinkOnly
    <2> QED
      BY <2>1, <2>2, <2>3 DEF TablesFit, MeterFits
  <1>2. \A s \in Sims : Recorded(s)' => Recorded(s)
    BY DEF Recorded
  <1> QED
    BY <1>1, <1>2, StillOrderly, AllKnow

\* The steps of a request for an installation.
LEMMA RecordStepOrderly ==
  ASSUME OrderlyInv, OrderlyWork, NEW r \in InstallRequests,
         RecordStep(r) \/ InstallCrash(r) \/ InstallTaskStep(r), LinkOnly,
         UNCHANGED <<simReq, demountReq, deleteReq>>, NoShipmentChanges
  PROVE  TablesFit' /\ Knowledge'
PROOF
  <1> DEFINE q == installReq[r]
             x == <<"install", r>>
  <1>1. /\ FieldInv /\ TablesFit /\ InstallKnows(r) /\ Ready(q, installTask)
        /\ q \in InstallRequest
        /\ installReq \in [InstallRequests -> InstallRequest]
        /\ meter \in [Meters -> MeterRow] /\ sim \in [Sims -> SimRow]
    BY FieldTypes DEF OrderlyInv, FieldInv, InstallBase, TasksReady, Knowledge
  <1>2. ASSUME NEW row, installReq' = [installReq EXCEPT ![r] = row]
        PROVE  OthersSame(x) /\ installReq'[r] = row
    BY <1>1, <1>2 DEF OthersSame, NoShipmentChanges
  <1>3. ASSUME InstallDone(r)
        PROVE  OthersSame(x) /\ InstallKnows(r)'
    <2>1. OthersSame(x) /\ installReq'[r].at = "idle"
      BY <1>2, <1>3 DEF InstallDone, IdleInstall
    <2> QED
      BY <2>1 DEF InstallKnows
  <1>4. ASSUME NEW at, GoTo(r, at)
        PROVE  /\ OthersSame(x)
               /\ installReq'[r] = [q EXCEPT !.at = at] /\ installReq'[r].at = at
    <2>1. OthersSame(x) /\ installReq'[r] = [q EXCEPT !.at = at]
      BY <1>1, <1>4 DEF GoTo, OthersSame, NoShipmentChanges
    <2>2. installReq'[r].at = at
      BY <1>1, <2>1 DEF InstallRequest
    <2> QED
      BY <2>1, <2>2
  <1>5. ASSUME \/ GoTo(r, "sim") \/ GoTo(r, "meter") \/ GoTo(r, "number") \/ GoTo(r, "location")
               \/ GoTo(r, "recheck") \/ GoTo(r, "relock") \/ GoTo(r, "unlock")
               \/ GoTo(r, "complete")
        PROVE  OthersSame(x) /\ InstallKnows(r)'
    <2>1. OthersSame(x)
      BY <1>1, <1>5 DEF GoTo, OthersSame, NoShipmentChanges
    <2>2. installReq'[r].at \notin {"claimRead", "claim", "link"}
      BY <1>1, <1>5 DEF GoTo, InstallRequest
    <2> QED
      BY <2>1, <2>2 DEF InstallKnows
  <1>6. ASSUME UNCHANGED <<sim, records>>, \A m \in Meters : meter'[m].sim = meter[m].sim,
               OthersSame(x), InstallKnows(r)'
        PROVE  TablesFit' /\ Knowledge'
    BY <1>6, InstallReadsOrderly DEF NoShipmentChanges
  <1>7. CASE CreateMeterRow(r) \/ ReadSim(r) \/ RefuseSim(r) \/ RecordRefused(r)
             \/ InstallCrash(r)
    <2>1. UNCHANGED <<meter, sim, records>>
      BY <1>7 DEF CreateMeterRow, ReadSim, RefuseSim, RecordRefused, InstallCrash, registryVars
    <2>2. GoTo(r, "sim") \/ GoTo(r, "meter") \/ InstallDone(r)
      BY <1>7 DEF CreateMeterRow, ReadSim, RefuseSim, RecordRefused, InstallCrash
    <2>3. OthersSame(x) /\ InstallKnows(r)'
      BY <1>3, <1>5, <2>2
    <2> QED
      BY <1>6, <2>1, <2>3
  <1>8. CASE ReadMeter(r)
    <2>1. /\ installReq' = [installReq EXCEPT ![r] = [q EXCEPT !.at = "link",
                                                              !.old = meter[q.meter].sim]]
          /\ UNCHANGED <<meter, sim, records>>
      BY <1>1, <1>8 DEF ReadMeter, registryVars
    <2>2. OthersSame(x) /\ installReq'[r].at = "link"
          /\ installReq'[r].meter = q.meter /\ installReq'[r].old = meter[q.meter].sim
      BY <1>1, <1>2, <2>1 DEF InstallRequest
    <2>3. InstallKnows(r)'
      BY <2>1, <2>2 DEF InstallKnows
    <2> QED
      BY <1>6, <2>1, <2>2, <2>3
  <1>9. CASE TakeNumber(r)
    <2>1. /\ installReq' = [installReq EXCEPT ![r] = [q EXCEPT !.at = "record",
                                                              !.num = LastNumber + 1]]
          /\ UNCHANGED <<meter, sim, records>>
      BY <1>1, <1>9 DEF TakeNumber, registryVars
    <2>2. OthersSame(x) /\ installReq'[r].at = "record"
      BY <1>1, <1>2, <2>1 DEF InstallRequest
    <2>3. InstallKnows(r)'
      BY <2>2 DEF InstallKnows
    <2> QED
      BY <1>6, <2>1, <2>2, <2>3
  <1>10. CASE WriteInstallStatus(r) \/ WriteInstallCancel(r) \/ WriteInstallReassign(r)
              \/ WriteInstallComplete(r) \/ RecheckOpen(r) \/ ClaimRefused(r)
    <2>1. UNCHANGED <<meter, sim, records>>
      BY <1>10
         DEF WriteInstallStatus, WriteInstallCancel, WriteInstallReassign, WriteInstallComplete,
             RecheckOpen, ClaimRefused, TablesUnchanged, registryVars
    <2>2. GoTo(r, "recheck") \/ GoTo(r, "relock") \/ GoTo(r, "unlock") \/ InstallDone(r)
      BY <1>10
         DEF WriteInstallStatus, WriteInstallCancel, WriteInstallReassign, WriteInstallComplete,
             RecheckOpen, ClaimRefused
    <2>3. OthersSame(x) /\ InstallKnows(r)'
      BY <1>3, <1>5, <2>2
    <2> QED
      BY <1>6, <2>1, <2>3
  <1>11. CASE Relock(r) \/ Unlock(r) \/ WriteLocation(r)
    <2>1. \A m \in Meters : meter'[m].sim = meter[m].sim
      BY <1>1, <1>11 DEF Relock, Unlock, WriteLocation, MeterRow
    <2> QED
      BY <1>3, <1>5, <1>6, <1>11, <2>1 DEF Relock, Unlock, WriteLocation
  <1>12. CASE ReadClaimForTask(r)
    <2>1. UNCHANGED <<meter, sim, records>> /\ q.at = "claimRead" /\ q.user \in Users
      BY <1>1, <1>12 DEF ReadClaimForTask, TablesUnchanged, registryVars, InstallKnows
    <2>2. CASE GoTo(r, AfterClaim(q))
      BY <1>5, <1>6, <2>1, <2>2 DEF AfterClaim
    <2>3. CASE Claimable(q.sim) /\ GoTo(r, "claim")
      <3>1. OthersSame(x) /\ installReq'[r].at = "claim"
            /\ installReq'[r].sim = q.sim /\ installReq'[r].user = q.user
        BY <1>1, <1>4, <2>3 DEF InstallRequest
      <3>2. InstallKnows(r)'
        BY <2>1, <2>3, <3>1 DEF InstallKnows, Claimable
      <3> QED
        BY <1>6, <2>1, <3>1, <3>2
    <2> QED
      BY <1>12, <2>2, <2>3 DEF ReadClaimForTask
  <1>13. \* The row of InFlight, its slot and its SIMs.
         PICK e : e = InstallWork(r)
    OBVIOUS
  <1>14. /\ q.at # "idle" => e \in InFlight
         /\ e.slot = x /\ e.meter = q.meter /\ e.sims = SimsOf(q)
         /\ q.sim \in Sims => q.sim \in e.sims
         /\ \A s \in Sims : box'[s] = box[s] \/ box'[s] # None
    BY <1>13, NoneAssumption DEF InFlight, InstallWork, SimsOf, NoShipmentChanges
  <1>15. ASSUME Frame(e), q.at # "idle", OthersSame(x), InstallKnows(r)',
                \A s \in Sims \cap e.sims : CardFits(s)', \A m \in Meters : MeterFits(m)'
         PROVE  TablesFit' /\ Knowledge'
    BY <1>14, <1>15, StepOrderly, AllKnow
  <1>16. ASSUME UNCHANGED meter PROVE \A m \in Meters : MeterFits(m)'
    BY <1>1, <1>16 DEF TablesFit, MeterFits
  <1>17. CASE InsertRecord(r)
    <2>1. /\ UNCHANGED <<meter, sim>> /\ q.at = "record" /\ q.sim \in Sims
          /\ records' = records \union
                          {[num |-> q.num, key |-> q.key, meter |-> q.meter, sim |-> q.sim]}
          /\ InstallDone(r) \/ GoTo(r, "complete")
      BY <1>1, <1>17 DEF InsertRecord, registryVars, Ready, SimSteps
    <2>2. \A s \in Sims \ e.sims : Recorded(s)' => Recorded(s)
      BY <1>14, <2>1 DEF Recorded
    <2>3. UNCHANGED box
      BY DEF NoShipmentChanges
    <2>4. Frame(e)
      BY <2>1, <2>2, <2>3 DEF Frame, InMeter, CardsOf
    <2>5. \A s \in Sims : CardFits(s)'
      BY <1>1, <2>1, <2>3 DEF TablesFit, CardFits, InMeter
    <2> QED
      BY <1>3, <1>5, <1>15, <1>16, <2>1, <2>4, <2>5
  <1>18. CASE WriteClaimForTask(r)
    <2>1. PICK s : s = q.sim
      OBVIOUS
    <2>2. /\ q.at = "claim" /\ s \in Sims /\ UNCHANGED <<meter, records>>
          /\ sim' = [sim EXCEPT ![s] = AssignedTo(q.user)]
          /\ GoTo(r, AfterClaim(q)) /\ q.user \in Users /\ sim[s].status = "AVAILABLE"
      BY <1>1, <1>18, <2>1 DEF WriteClaimForTask, Ready, SimSteps, InstallKnows
    <2>3. UNCHANGED box /\ \A n \in Sims : Recorded(n)' => Recorded(n)
      BY <2>2 DEF NoShipmentChanges, Recorded
    <2>4. Frame(e) /\ sim'[s] = AssignedTo(q.user)
      BY <1>1, <1>14, <2>1, <2>2, <2>3, CardWritten DEF AssignedTo
    <2>5. CardFits(s)'
      <3>1. CardFits(s) /\ (InMeter(s)' <=> InMeter(s))
        BY <1>1, <2>2 DEF TablesFit, InMeter
      <3> QED
        BY <2>2, <2>3, <2>4, <3>1, NoneAssumption DEF CardFits, AssignedTo
    <2>6. \A n \in Sims \cap e.sims : CardFits(n)'
      <3>1. ASSUME NEW n \in Sims, n # s
            PROVE  CardFits(n)'
        <4>1. sim'[n] = sim[n] /\ CardFits(n) /\ (InMeter(n)' <=> InMeter(n))
          BY <1>1, <2>2, <3>1 DEF TablesFit, InMeter
        <4> QED
          BY <2>3, <4>1 DEF CardFits
      <3> QED
        BY <2>5, <3>1
    <2> QED
      BY <1>5, <1>15, <1>16, <2>2, <2>4, <2>6 DEF AfterClaim
  <1>19. CASE LinkSim(r)
    <2>1. PICK m, s, old : m = q.meter /\ s = q.sim /\ old = q.old
      OBVIOUS
    <2>2. /\ q.at = "link" /\ m \in Meters /\ s \in Sims /\ old \in Sims \union {None}
          /\ meter[m].sim = old /\ UNCHANGED records /\ GoTo(r, "number")
          /\ LinkAllowed(m, s) /\ (old # None => sim[old].status # "DELETED")
      BY <1>1, <1>19, <2>1
         DEF LinkSim, Ready, SimSteps, InstallKnows, InstallRequest, InstallAllowed
    <2>3. /\ meter' = [meter EXCEPT ![m].sim = s, ![m].state = "INSTALLED"]
          /\ sim'[s] = [sim[s] EXCEPT !.status = "INSTALLED"]
          /\ old # None /\ old # s => sim'[old] = [sim[old] EXCEPT !.status = "DEMOUNTED"]
          /\ \A n \in Sims \ {s, old} : sim'[n] = sim[n]
      BY <1>1, <1>19, <2>1, <2>2 DEF LinkSim, MetersAfterLink, SimsAfterLink
    <2>4. /\ meter'[m].sim = s /\ meter'[m].state = "INSTALLED"
          /\ \A n \in Meters \ {m} : meter'[n] = meter[n]
      BY <1>1, <2>2, <2>3 DEF MeterRow
    <2>5. /\ sim'[s].status = "INSTALLED"
          /\ old # None /\ old # s => sim'[old].status = "DEMOUNTED"
      BY <1>1, <2>2, <2>3 DEF SimRow
    <2>6. /\ InMeter(s)'
          /\ old # None /\ old # s => ~InMeter(old)'
          /\ \A n \in Sims \ {s, old} : InMeter(n)' <=> InMeter(n)
      <3>1. OneMeterPerSim
        BY <1>1, FieldTypes
      <3> QED
        BY <2>2, <2>4, <3>1 DEF InMeter, OneMeterPerSim
    <2>7. UNCHANGED box /\ e.sims = {s, old} \ {None}
      BY <1>14, <2>1 DEF NoShipmentChanges, SimsOf
    <2>8. \A h \in Shipments : CardsOf(h)' = CardsOf(h)
      <3>1. \A n \in Sims : sim'[n].status = "DELETED" <=> sim[n].status = "DELETED"
        BY <2>2, <2>3, <2>5, NoneAssumption DEF LinkAllowed
      <3> QED
        BY <2>7, <3>1, SameCards
    <2>9. Frame(e)
      <3>1. \A n \in Sims \ e.sims : n \notin {s, old}
        BY <2>7, NoneAssumption
      <3> QED
        BY <1>14, <2>1, <2>2, <2>3, <2>4, <2>6, <2>8, <3>1 DEF Frame, Recorded
    <2>10. \A n \in Sims \cap e.sims : CardFits(n)'
      <3>1. \A n \in {s, old} \ {None} : box[n] = None /\ Shipments # {} => FALSE
        BY <1>1, <2>2 DEF TablesFit, CardFits, LinkAllowed
      <3> QED
        BY <2>5, <2>6, <2>7, <3>1 DEF CardFits
    <2>11. \A n \in Meters : MeterFits(n)'
      BY <1>1, <2>2, <2>4, NoneAssumption DEF TablesFit, MeterFits
    <2>12. OthersSame(x) /\ InstallKnows(r)'
      BY <1>5, <2>2
    <2> QED
      BY <1>15, <2>2, <2>9, <2>10, <2>11, <2>12
  <1> QED
    BY <1>7, <1>8, <1>9, <1>10, <1>11, <1>12, <1>17, <1>18, <1>19 DEF RecordStep, InstallTaskStep

\* Installations, install tasks and the creation of either.
LEMMA InstallStepOrderly ==
  ASSUME OrderlyInv, OrderlyWork, InstallNext, UNCHANGED <<demountTask, demountReq, adminVars>>,
         NoShipmentChanges
  PROVE  TablesFit' /\ Knowledge'
PROOF
  <1>1. /\ FieldInv /\ TablesFit /\ Knowledge /\ LinkOnly
        /\ installReq \in [InstallRequests -> InstallRequest]
        /\ installTask \in [InstallIds -> InstallTask]
    BY FieldTypes, NextRegistry DEF OrderlyInv, FieldInv
  <1>2. UNCHANGED <<simReq, demountReq, deleteReq>>
    BY <1>1, NextRecords DEF FieldInv, adminVars
  <1>3. ASSUME NEW t \in InstallIds, NEW m \in Meters, NEW u \in Users, CreateInstall(t, m, u)
        PROVE  TablesFit' /\ Knowledge'
    <2>1. /\ \A n \in Meters : meter'[n].sim = meter[n].sim /\ meter'[n].state = meter[n].state
                               /\ meter'[n].openDemount = meter[n].openDemount
          /\ UNCHANGED <<sim, box, records, installReq>>
      BY <1>1, <1>3, FieldTypes, FlagWritten DEF CreateInstall, NoShipmentChanges
    <2>2. \A n \in Meters : MeterFits(n)'
      BY <1>1, <2>1 DEF TablesFit, MeterFits
    <2>3. \A s \in Sims : Recorded(s)' => Recorded(s)
      BY <2>1 DEF Recorded
    <2>4. OthersSame(<<"none", None>>)
      BY <1>2, <2>1 DEF OthersSame, NoShipmentChanges
    <2> QED
      BY <2>1, <2>2, <2>3, <2>4, StillOrderly, AllKnow
  <1>4. ASSUME NEW r \in InstallRequests, NEW row, installReq' = [installReq EXCEPT ![r] = row],
               row.at \notin {"claim", "link"}, row.at = "claimRead" => row.user \in Users,
               UNCHANGED <<registryVars, records>>
        PROVE  TablesFit' /\ Knowledge'
    <2>1. installReq'[r] = row /\ OthersSame(<<"install", r>>)
      BY <1>1, <1>2, <1>4 DEF OthersSame, NoShipmentChanges
    <2>2. InstallKnows(r)'
      BY <1>4, <2>1 DEF InstallKnows
    <2> QED
      BY <1>1, <1>4, <2>1, <2>2, InstallReadsOrderly DEF registryVars, NoShipmentChanges
  <1>5. ASSUME NEW r \in InstallRequests, NEW t \in InstallIds, NEW u, NEW s, NEW at,
               InstallRead(r, t, at, u, s), at \notin {"claim", "link"},
               at = "claimRead" => u \in Users
        PROVE  TablesFit' /\ Knowledge'
    <2> DEFINE row == [IdleInstall EXCEPT !.at = at, !.task = t, !.meter = installTask[t].meter,
                                          !.user = u, !.sim = s,
                                          !.offSite = meter[installTask[t].meter].offSite]
    <2>1. row.at = at /\ row.user = u
      BY DEF IdleInstall
    <2>2. installReq' = [installReq EXCEPT ![r] = row] /\ UNCHANGED <<registryVars, records>>
      BY <1>5 DEF InstallRead, TablesUnchanged
    <2> HIDE DEF row
    <2> QED
      BY <1>4, <1>5, <2>1, <2>2
  <1>6. ASSUME NEW r \in InstallRequests, NEW t \in InstallIds,
               \/ ReadInstallStatus(r, t)
               \/ ReadInstallCancel(r, t)
               \/ \E u \in Users : ReadInstallReassign(r, t, u)
               \/ \E s \in Sims : ReadInstallComplete(r, t, s)
        PROVE  TablesFit' /\ Knowledge'
    <2>1. installTask[t].by # None => installTask[t].by \in Users
      BY <1>1 DEF InstallTask
    <2>2. CASE ReadInstallStatus(r, t)
      BY <1>5, <2>2 DEF ReadInstallStatus
    <2>3. CASE ReadInstallCancel(r, t)
      BY <1>5, <2>3 DEF ReadInstallCancel
    <2>4. CASE \E u \in Users : ReadInstallReassign(r, t, u)
      BY <1>5, <2>4 DEF ReadInstallReassign
    <2>5. CASE \E s \in Sims : ReadInstallComplete(r, t, s)
      BY <1>5, <2>1, <2>5 DEF ReadInstallComplete
    <2> QED
      BY <1>6, <2>2, <2>3, <2>4, <2>5
  <1>7. ASSUME SubmitNext
        PROVE  TablesFit' /\ Knowledge'
    <2>1. ASSUME NEW r \in InstallRequests, NEW k \in Keys, SubmitItem(r, k)
          PROVE  TablesFit' /\ Knowledge'
      <3> DEFINE row == [IdleInstall EXCEPT !.at = IF form[k].new THEN "row" ELSE "sim",
                                            !.key = k, !.meter = form[k].meter,
                                            !.sim = form[k].sim, !.user = form[k].user]
      <3>1. row.at \in {"row", "sim"}
        BY DEF IdleInstall
      <3>2. installReq' = [installReq EXCEPT ![r] = row] /\ UNCHANGED <<registryVars, records>>
        BY <2>1 DEF SubmitItem
      <3> HIDE DEF row
      <3> QED
        BY <1>4, <3>1, <3>2
    <2>2. ASSUME NEW r \in InstallRequests, NEW m, NEW s, NEW u, SubmitForm(r, m, s, u)
          PROVE  TablesFit' /\ Knowledge'
      <3> DEFINE row == [IdleInstall EXCEPT !.at = "sim", !.meter = m, !.sim = s, !.user = u]
      <3>1. row.at = "sim"
        BY DEF IdleInstall
      <3>2. installReq' = [installReq EXCEPT ![r] = row] /\ UNCHANGED <<registryVars, records>>
        BY <2>2 DEF SubmitForm
      <3> HIDE DEF row
      <3> QED
        BY <1>4, <3>1, <3>2
    <2> QED
      BY <1>7, <2>1, <2>2 DEF SubmitNext
  <1>8. ASSUME NEW r \in InstallRequests,
               RecordStep(r) \/ InstallCrash(r) \/ InstallTaskStep(r)
        PROVE  TablesFit' /\ Knowledge'
    BY <1>1, <1>2, <1>8, RecordStepOrderly
  <1> QED
    BY <1>3, <1>6, <1>7, <1>8 DEF InstallNext, InstallTaskNext, RecordNext

\* A demount puts the SIM new, or none, into its meter m for the SIM old.
Exchange(r, m, old, new, row) ==
  /\ DemountDone(r) /\ demountReq[r].at # "idle"
  /\ demountReq[r].meter = m /\ demountReq[r].old = old
  /\ new \in {demountReq[r].new, None}
  /\ meter[m].sim = old /\ new # old /\ sim[old].status # "DELETED"
  /\ new # None => LinkAllowed(m, new)
  /\ \A n \in Meters \ {m} : meter'[n] = meter[n]
  /\ meter'[m].sim = new /\ ~meter'[m].openDemount
  /\ meter'[m].state = "INSTALLED" <=> new # None
  /\ row.by = None /\ row.status \in {"DEFECTIVE", "AVAILABLE"}
  /\ sim'[old] = row
  /\ new # None => sim'[new].status = "INSTALLED"
  /\ \A s \in Sims \ {old, new} : sim'[s] = sim[s]

\* Demount tasks.
LEMMA DemountStepOrderly ==
  ASSUME OrderlyInv, OrderlyWork, DemountNext,
         UNCHANGED <<simReq, fresh, form, records, installReq, installTask, adminVars>>,
         NoShipmentChanges
  PROVE  TablesFit' /\ Knowledge'
PROOF
  <1>1. /\ FieldInv /\ TablesFit /\ Knowledge /\ OneMeterPerSim
        /\ demountReq \in [DemountRequests -> DemountRequest]
        /\ demountTask \in [DemountIds -> DemountTask]
        /\ meter \in [Meters -> MeterRow] /\ sim \in [Sims -> SimRow]
        /\ DemountInv
    BY FieldTypes DEF OrderlyInv, FieldInv
  <1>2. \A s \in Sims : Recorded(s)' => Recorded(s)
    BY DEF Recorded
  <1>3. ASSUME NEW r \in DemountRequests, NEW row, demountReq' = [demountReq EXCEPT ![r] = row]
        PROVE  OthersSame(<<"demount", r>>) /\ demountReq'[r] = row
    BY <1>1, <1>3 DEF OthersSame, adminVars, NoShipmentChanges
  <1>4. ASSUME NEW r \in DemountRequests, DemountDone(r)
        PROVE  OthersSame(<<"demount", r>>) /\ DemountKnows(r)'
    <2>1. OthersSame(<<"demount", r>>) /\ demountReq'[r] = Idle
      BY <1>3, <1>4 DEF DemountDone
    <2> QED
      BY <2>1 DEF DemountKnows, Idle
  <1>5. ASSUME UNCHANGED meter PROVE \A m \in Meters : MeterFits(m)'
    BY <1>1, <1>5 DEF TablesFit, MeterFits
  <1>6. ASSUME NEW r \in DemountRequests, UNCHANGED <<meter, sim>>,
               OthersSame(<<"demount", r>>), DemountKnows(r)'
        PROVE  TablesFit' /\ Knowledge'
    BY <1>2, <1>5, <1>6, StillOrderly, AllKnow DEF NoShipmentChanges
  <1>7. ASSUME NEW t \in DemountIds, NEW m \in Meters, NEW u \in Users, NEW o \in Outcomes,
               CreateDemount(t, m, u, o)
        PROVE  TablesFit' /\ Knowledge'
    <2>1. /\ \A n \in Meters : /\ meter'[n].sim = meter[n].sim /\ meter'[n].state = meter[n].state
                               /\ n # m => meter'[n].openDemount = meter[n].openDemount
          /\ meter[m].sim # None /\ UNCHANGED <<sim, box, demountReq>>
      BY <1>1, <1>7 DEF CreateDemount, MeterRow, NoShipmentChanges
    <2>2. \A n \in Meters : MeterFits(n)'
      BY <1>1, <2>1 DEF TablesFit, MeterFits
    <2>3. OthersSame(<<"none", None>>)
      BY <2>1 DEF OthersSame, adminVars, NoShipmentChanges
    <2> QED
      BY <1>2, <2>1, <2>2, <2>3, StillOrderly, AllKnow
  <1>8. ASSUME NEW r \in DemountRequests, NEW t \in DemountIds, NEW at, NEW u, NEW old, NEW new,
               DemountRead(r, t, at, u, old, new),
               at \in {"check", "replace", "remove"} => meter[demountTask[t].meter].sim = old
        PROVE  TablesFit' /\ Knowledge'
    <2>1. /\ demountReq'[r] = [at |-> at, task |-> t, meter |-> demountTask[t].meter,
                               user |-> u, old |-> old, new |-> new]
          /\ OthersSame(<<"demount", r>>) /\ UNCHANGED <<meter, sim>>
      BY <1>3, <1>8 DEF DemountRead
    <2>2. DemountKnows(r)'
      BY <1>8, <2>1 DEF DemountKnows
    <2> QED
      BY <1>6, <2>1, <2>2
  <1>9. ASSUME NEW r \in DemountRequests, NEW t \in DemountIds,
               \/ ReadDemountStatus(r, t)
               \/ ReadDemountCancel(r, t)
               \/ ReadDemountComplete(r, t)
               \/ \E u \in Users : ReadDemountReassign(r, t, u)
        PROVE  TablesFit' /\ Knowledge'
    <2>1. CASE ReadDemountStatus(r, t)
      BY <1>8, <2>1 DEF ReadDemountStatus
    <2>2. CASE ReadDemountCancel(r, t)
      BY <1>8, <2>2 DEF ReadDemountCancel
    <2>3. CASE ReadDemountComplete(r, t)
      BY <1>8, <2>3 DEF ReadDemountComplete
    <2>4. CASE \E u \in Users : ReadDemountReassign(r, t, u)
      BY <1>8, <2>4 DEF ReadDemountReassign
    <2> QED
      BY <1>9, <2>1, <2>2, <2>3, <2>4
  <1>10. ASSUME NEW r \in DemountRequests, CheckReplacement(r)
         PROVE  TablesFit' /\ Knowledge'
    <2>1. /\ demountReq' = [demountReq EXCEPT ![r] = [demountReq[r] EXCEPT !.at = "replace"]]
          /\ demountReq[r].at = "check" /\ UNCHANGED <<meter, sim>>
      BY <1>1, <1>10 DEF CheckReplacement
    <2>2. demountReq'[r].meter = demountReq[r].meter /\ demountReq'[r].old = demountReq[r].old
      BY <1>1, <2>1 DEF DemountRequest
    <2>3. OthersSame(<<"demount", r>>)
      BY <1>3, <2>1
    <2>4. DemountKnows(r)'
      BY <1>1, <2>1, <2>2 DEF Knowledge, DemountKnows
    <2> QED
      BY <1>6, <2>1, <2>3, <2>4
  <1>11. ASSUME NEW r \in DemountRequests,
                WriteDemountStatus(r) \/ WriteDemountReassign(r) \/ DemountRefused(r)
                  \/ DemountCrash(r)
         PROVE  TablesFit' /\ Knowledge'
    BY <1>4, <1>6, <1>11 DEF WriteDemountStatus, WriteDemountReassign, DemountRefused, DemountCrash
  <1>12. ASSUME NEW r \in DemountRequests, WriteDemountCancel(r)
         PROVE  TablesFit' /\ Knowledge'
    <2>1. /\ \A n \in Meters : /\ meter'[n].sim = meter[n].sim /\ meter'[n].state = meter[n].state
                               /\ meter'[n].openDemount => meter[n].openDemount
          /\ UNCHANGED <<sim, box>> /\ DemountDone(r)
      BY <1>1, <1>12 DEF WriteDemountCancel, MeterRow, NoShipmentChanges
    <2>2. \A n \in Meters : MeterFits(n)'
      BY <1>1, <2>1 DEF TablesFit, MeterFits
    <2> QED
      BY <1>2, <1>4, <2>1, <2>2, StillOrderly, AllKnow
  <1>13. \* One meter m takes the SIM new for the SIM old, or none.
         ASSUME NEW r \in DemountRequests, NEW m \in Meters, NEW old \in Sims,
                NEW new \in Sims \union {None}, NEW row, Exchange(r, m, old, new, row)
         PROVE  TablesFit' /\ Knowledge'
    <2> USE DEF Exchange
    <2>1. PICK e : e = DemountWork(r)
      OBVIOUS
    <2>2. /\ e \in InFlight /\ e.slot = <<"demount", r>> /\ e.meter = m
          /\ \A s \in Sims \ e.sims : s \notin {old, new}
      BY <1>13, <2>1, NoneAssumption DEF InFlight, DemountWork
    <2>3. ~InMeter(old)'
      BY <1>1, <1>13, NoneAssumption DEF InMeter, OneMeterPerSim
    <2>4. new # None => InMeter(new)'
      BY <1>13 DEF InMeter
    <2>5. \A s \in Sims \ {old, new} : InMeter(s)' <=> InMeter(s)
      BY <1>13 DEF InMeter
    <2>6. \A h \in Shipments : CardsOf(h)' = CardsOf(h)
      <3>1. \A s \in Sims : sim'[s].status = "DELETED" <=> sim[s].status = "DELETED"
        BY <1>13, NoneAssumption DEF LinkAllowed
      <3> QED
        BY <3>1, SameCards DEF NoShipmentChanges
    <2>7. Frame(e)
      BY <1>2, <1>13, <2>2, <2>5, <2>6 DEF Frame
    <2>8. \A s \in Sims : CardFits(s)'
      <3>1. \A s \in {old, new} \ {None} : box'[s] = None /\ Shipments # {} => FALSE
        BY <1>1, <1>13 DEF TablesFit, CardFits, LinkAllowed, NoShipmentChanges
      <3>2. CardFits(old)'
        BY <1>13, <2>3, <3>1, NoneAssumption DEF CardFits
      <3>3. new # None => CardFits(new)'
        BY <1>13, <2>4, <3>1 DEF CardFits
      <3>4. ASSUME NEW s \in Sims \ {old, new} PROVE CardFits(s)'
        BY <1>1, <1>13, <2>5, <3>4 DEF TablesFit, CardFits, NoShipmentChanges
      <3> QED
        BY <3>2, <3>3, <3>4, NoneAssumption
    <2>9. \A n \in Meters : MeterFits(n)'
      BY <1>1, <1>13 DEF TablesFit, MeterFits
    <2>10. \A s \in Sims : box'[s] = box[s] \/ box'[s] # None
      BY DEF NoShipmentChanges
    <2> QED
      BY <1>4, <1>13, <2>2, <2>7, <2>8, <2>9, <2>10, StepOrderly, AllKnow
  <1>14. ASSUME NEW r \in DemountRequests, CommitReplace(r) \/ CommitRemove(r)
         PROVE  TablesFit' /\ Knowledge'
    <2>1. PICK m, old, put, task : /\ m = demountReq[r].meter /\ old = demountReq[r].old
                                   /\ put = demountReq[r].new /\ task = demountReq[r].task
      OBVIOUS
    <2>2. PICK row : row = RemovedSim(demountTask[task].outcome)
      OBVIOUS
    <2>3. /\ m \in Meters /\ old \in Sims /\ meter[m].sim = old /\ meter[m] \in MeterRow
          /\ demountReq[r].at # "idle" /\ row.by = None /\ row.status \in {"DEFECTIVE", "AVAILABLE"}
          /\ DemountDone(r) /\ sim[old].status # "DELETED"
      BY <1>1, <1>14, <2>1, <2>2
         DEF CommitReplace, CommitRemove, DemountInv, RequestMatchesTask, Knowledge, DemountKnows,
             RemovedSim, ReplaceAllowed
    <2>4. CASE CommitReplace(r)
      <3>1. /\ put \in Sims /\ put # old /\ LinkAllowed(m, put)
            /\ meter' = [meter EXCEPT ![m].sim = put, ![m].state = "INSTALLED",
                                      ![m].openDemount = FALSE]
            /\ sim' = [sim EXCEPT ![old] = row, ![put].status = "INSTALLED"]
        BY <1>1, <2>1, <2>2, <2>4
           DEF CommitReplace, ReplaceAllowed, DemountInv, RequestMatchesTask
      <3>2. /\ \A n \in Meters \ {m} : meter'[n] = meter[n]
            /\ meter'[m].sim = put /\ ~meter'[m].openDemount /\ meter'[m].state = "INSTALLED"
        BY <1>1, <2>3, <3>1 DEF MeterRow
      <3>3. sim[put] \in SimRow /\ put \notin {old} /\ put # None
        BY <1>1, <3>1, NoneAssumption
      <3>4. /\ sim'[old] = row /\ sim'[put].status = "INSTALLED"
            /\ \A s \in Sims \ {old, put} : sim'[s] = sim[s]
        BY <1>1, <2>3, <3>1, <3>3 DEF SimRow
      <3>5. Exchange(r, m, old, put, row)
        BY <2>1, <2>3, <3>1, <3>2, <3>3, <3>4 DEF Exchange
      <3> QED
        BY <1>13, <2>3, <3>1, <3>5
    <2>5. CASE CommitRemove(r)
      <3>1. /\ meter' = [meter EXCEPT ![m].sim = None, ![m].state = "NO_SIM",
                           ![m].offSite = LeavesLocation(demountTask[task].outcome),
                           ![m].openDemount = FALSE,
                           ![m].status = StatusAfterRemoval(demountTask[task].outcome)]
            /\ sim' = [sim EXCEPT ![old] = row]
        BY <2>1, <2>2, <2>5 DEF CommitRemove
      <3>2. /\ \A n \in Meters \ {m} : meter'[n] = meter[n]
            /\ meter'[m].sim = None /\ ~meter'[m].openDemount /\ meter'[m].state = "NO_SIM"
        BY <1>1, <2>3, <3>1 DEF MeterRow
      <3>3. sim'[old] = row /\ \A s \in Sims \ {old, None} : sim'[s] = sim[s]
        BY <1>1, <2>3, <3>1
      <3>4. Exchange(r, m, old, None, row)
        BY <2>1, <2>3, <3>2, <3>3, NoneAssumption DEF Exchange
      <3> QED
        BY <1>13, <2>3, <3>4
    <2> QED
      BY <1>14, <2>4, <2>5
  <1> QED
    BY <1>7, <1>9, <1>10, <1>11, <1>12, <1>14 DEF DemountNext
\* A shipment is deleted with cards that are in no meter and on no record.
LEMMA DeletionSparesUsed ==
  ASSUME FieldInv, Knowledge, NEW r \in ShipmentRequests, DeleteShipment(r)
  PROVE  /\ UNCHANGED <<meter, records>>
         /\ CardsOf(shipReq[r].shipment) \subseteq shipReq[r].cards
PROOF
  <1> DEFINE gone == CardsOf(shipReq[r].shipment)
  <1>1. /\ gone \subseteq shipReq[r].cards /\ gone \subseteq Sims
        /\ \A s \in gone : ~InMeter(s) /\ ~Recorded(s)
    BY DEF DeleteShipment, Knowledge, ShipmentKnows, CardsOf
  <1>2. /\ \A m \in Meters : meter[m].sim \notin gone
        /\ \A rec \in records : rec.sim \notin gone
    BY <1>1 DEF InMeter, Recorded
  <1>3. meter' = Unlinked(gone) /\ records' = Detached(gone)
    BY DEF DeleteShipment
  <1> HIDE DEF gone
  <1>4. meter' = meter
    BY <1>2, <1>3, FieldTypes DEF Unlinked
  <1>5. records' = records
    BY <1>2, <1>3 DEF Detached
  <1> QED
    BY <1>1, <1>4, <1>5 DEF gone

\* Shipments.
LEMMA ShipmentStepOrderly ==
  ASSUME OrderlyInv, OrderlyWork, ShipmentNext, NoTaskChanges, UNCHANGED adminVars
  PROVE  TablesFit' /\ Knowledge'
PROOF
  <1>1. /\ FieldInv /\ TablesFit /\ Knowledge
        /\ shipReq \in [ShipmentRequests -> ShipmentRequest]
        /\ meter \in [Meters -> MeterRow] /\ sim \in [Sims -> SimRow]
        /\ ShipmentReady /\ None \notin Shipments
    BY FieldTypes, ShipmentAssumption
       DEF OrderlyInv, FieldInv, ShipmentReady, ShipmentTypeOK
  <1>2. OtherTables /\ UNCHANGED <<deleteReq, installTask, demountTask, demountReq>>
    BY DEF ShipmentNext, CreateShipment, ReadImport, ReadCardShipment, ReadShipmentRemove,
           InsertCards, InsertCard, InsertRows, FinishImport, CheckUse, DeleteShipment,
           DeleteEmptyShipment, ShipmentFails, NoRow, NoTaskChanges, adminVars
  <1>3. UNCHANGED shipReq => OthersSame(<<"none", None>>)
    BY <1>2 DEF OthersSame, OtherTables
  <1>4. ASSUME NEW r \in ShipmentRequests, NEW row, shipReq' = [shipReq EXCEPT ![r] = row]
        PROVE  OthersSame(<<"shipment", r>>) /\ shipReq'[r] = row
    BY <1>1, <1>2, <1>4 DEF OthersSame, OtherTables
  <1>5. ASSUME NEW r \in ShipmentRequests, ShipmentDone(r)
        PROVE  OthersSame(<<"shipment", r>>) /\ ShipmentKnows(r)'
    <2>1. OthersSame(<<"shipment", r>>) /\ shipReq'[r] = IdleShipment
      BY <1>4, <1>5 DEF ShipmentDone
    <2> QED
      BY <2>1 DEF ShipmentKnows, IdleShipment
  <1>6. ASSUME NEW r \in ShipmentRequests, NEW at, ShipmentGoesTo(r, at)
        PROVE  /\ OthersSame(<<"shipment", r>>)
               /\ shipReq'[r].at = at /\ shipReq'[r].cards = shipReq[r].cards
               /\ shipReq'[r].shipment = shipReq[r].shipment
    <2>1. PICK row : row = [shipReq[r] EXCEPT !.at = at]
      OBVIOUS
    <2>2. row.at = at /\ row.cards = shipReq[r].cards /\ row.shipment = shipReq[r].shipment
      BY <1>1, <2>1 DEF ShipmentRequest
    <2>3. shipReq' = [shipReq EXCEPT ![r] = row]
      BY <1>6, <2>1 DEF ShipmentGoesTo
    <2> QED
      BY <1>4, <2>2, <2>3
  <1>7. ASSUME UNCHANGED meter PROVE \A m \in Meters : MeterFits(m)'
    BY <1>1, <1>7 DEF TablesFit, MeterFits
  <1>8. UNCHANGED records => \A s \in Sims : Recorded(s)' => Recorded(s)
    BY DEF Recorded
  <1>9. UNCHANGED <<sim, box>> => \A h \in Shipments : CardsOf(h)' = CardsOf(h)
    BY SameCards
  <1>10. ASSUME NEW r \in ShipmentRequests, UNCHANGED <<meter, sim, records, box>>,
                OthersSame(<<"shipment", r>>), ShipmentKnows(r)'
         PROVE  TablesFit' /\ Knowledge'
    BY <1>7, <1>8, <1>10, StillOrderly, AllKnow
  <1>11. ASSUME NEW h \in Shipments, CreateShipment(h)
         PROVE  TablesFit' /\ Knowledge'
    BY <1>3, <1>7, <1>8, <1>11, StillOrderly, AllKnow DEF CreateShipment, registryVars
  <1>12. ASSUME NEW r \in ShipmentRequests, NEW h \in Shipments,
                \/ \E cards \in SUBSET Sims : ReadImport(r, h, cards)
                \/ \E s \in Sims : ReadCardShipment(r, h, s)
         PROVE  TablesFit' /\ Knowledge'
    <2>1. PICK cards \in SUBSET Sims, at \in {"insert", "card"} :
            /\ shipReq' = [shipReq EXCEPT ![r] =
                             [at |-> at, shipment |-> h, cards |-> cards]]
            /\ NoRow
      BY <1>12 DEF ReadImport, ReadCardShipment
    <2>2. /\ shipReq'[r] = [at |-> at, shipment |-> h, cards |-> cards]
          /\ OthersSame(<<"shipment", r>>)
      BY <1>4, <2>1
    <2>3. ShipmentKnows(r)'
      BY <2>1, <2>2 DEF ShipmentKnows
    <2> QED
      BY <1>10, <2>1, <2>2, <2>3 DEF NoRow, registryVars
  <1>13. ASSUME NEW r \in ShipmentRequests, NEW h \in Shipments, ReadShipmentRemove(r, h)
         PROVE  TablesFit' /\ Knowledge'
    <2>1. PICK at, cards : /\ cards = CardsOf(h) /\ at \in {"use", "deleteEmpty"}
                           /\ shipReq' = [shipReq EXCEPT ![r] =
                                [at |-> at, shipment |-> h, cards |-> cards]]
      BY <1>13 DEF ReadShipmentRemove
    <2>2. /\ shipReq'[r] = [at |-> at, shipment |-> h, cards |-> cards]
          /\ OthersSame(<<"shipment", r>>) /\ NoRow
      BY <1>4, <1>13, <2>1 DEF ReadShipmentRemove
    <2>3. CardsOf(h)' = cards
      BY <1>9, <2>1, <2>2 DEF NoRow, registryVars
    <2>4. CardsOf(shipReq[r].shipment)' = CardsOf(h)'
      BY <2>2 DEF CardsOf
    <2>5. ShipmentKnows(r)'
      BY <2>1, <2>2, <2>3, <2>4 DEF ShipmentKnows
    <2> QED
      BY <1>10, <2>2, <2>5 DEF NoRow, registryVars
  <1>14. ASSUME NEW r \in ShipmentRequests, CheckUse(r)
         PROVE  TablesFit' /\ Knowledge'
    <2>1. /\ ShipmentGoesTo(r, "delete") /\ NoRow /\ shipReq[r].at = "use"
          /\ \A s \in shipReq[r].cards : ~InMeter(s) /\ ~Recorded(s)
          /\ shipReq[r].shipment \in Shipments
      BY <1>1, <1>14 DEF CheckUse, Recorded, ShipmentReady
    <2>2. /\ OthersSame(<<"shipment", r>>)
          /\ shipReq'[r].at = "delete" /\ shipReq'[r].cards = shipReq[r].cards
          /\ shipReq'[r].shipment = shipReq[r].shipment
      BY <1>6, <2>1
    <2>3. CardsOf(shipReq[r].shipment)' = CardsOf(shipReq[r].shipment)
      BY <2>1, <2>2 DEF CardsOf, NoRow, registryVars
    <2>4. \A s \in shipReq[r].cards : ~InMeter(s)' /\ ~Recorded(s)'
      BY <2>1 DEF InMeter, Recorded, NoRow, registryVars
    <2>5. ShipmentKnows(r)'
      BY <1>1, <2>1, <2>2, <2>3, <2>4 DEF Knowledge, ShipmentKnows
    <2> QED
      BY <1>10, <2>1, <2>2, <2>5 DEF NoRow, registryVars
  <1>15. ASSUME NEW r \in ShipmentRequests,
                FinishImport(r) \/ DeleteEmptyShipment(r) \/ ShipmentFails(r)
         PROVE  TablesFit' /\ Knowledge'
    BY <1>5, <1>10, <1>15 DEF FinishImport, DeleteEmptyShipment, ShipmentFails, NoRow, registryVars
  <1>16. ASSUME NEW r \in ShipmentRequests, shipReq[r].at # "idle"
         PROVE  \E e \in InFlight : /\ e.slot = <<"shipment", r>> /\ e.meter = None
                                    /\ e.sims = shipReq[r].cards /\ e.sims \subseteq Sims
                                    /\ e.shipment = shipReq[r].shipment
                                    /\ e.shipment \in Shipments
    <2>1. ShipmentWork(r) \in InFlight
      BY <1>16 DEF InFlight
    <2> QED
      BY <1>1, <1>16, <2>1 DEF ShipmentWork, ShipmentRequest, ShipmentReady
  <1>17. ASSUME NEW r \in ShipmentRequests,
                InsertCards(r) \/ \E status \in PostedStatus : InsertCard(r, status)
         PROVE  TablesFit' /\ Knowledge'
    <2>1. PICK e \in InFlight : /\ e.slot = <<"shipment", r>>
                                /\ e.sims = shipReq[r].cards /\ e.sims \subseteq Sims
                                /\ e.shipment = shipReq[r].shipment /\ e.shipment \in Shipments
      BY <1>16, <1>17 DEF InsertCards, InsertCard
    <2>2. PICK status : status # "INSTALLED" /\ InsertRows(shipReq[r], status)
      BY <1>17 DEF InsertCards, InsertCard, OrderlyWork
    <2>3. /\ \A s \in e.sims : /\ box[s] = None /\ box'[s] = e.shipment
                               /\ sim'[s].status # "INSTALLED"
          /\ \A s \in Sims \ e.sims : sim'[s] = sim[s] /\ box'[s] = box[s]
          /\ UNCHANGED <<meter, records>>
      BY <2>1, <2>2 DEF InsertRows, RowsAllowed
    <2>4. ASSUME NEW h \in Shipments, h # e.shipment PROVE CardsOf(h)' = CardsOf(h)
      BY <1>1, <2>3, <2>4 DEF CardsOf
    <2>5. \A s \in Sims : InMeter(s)' <=> InMeter(s)
      BY <2>3 DEF InMeter
    <2>6. Frame(e)
      BY <1>8, <2>3, <2>4, <2>5 DEF Frame
    <2>7. \A s \in e.sims : CardFits(s)'
      <3>1. \A s \in e.sims : ~InMeter(s)'
        BY <1>1, <2>1, <2>3, <2>5 DEF TablesFit, CardFits
      <3> QED
        BY <1>1, <2>1, <2>3, <3>1 DEF CardFits
    <2>8. OthersSame(<<"shipment", r>>) /\ ShipmentKnows(r)'
      <3>1. CASE InsertCards(r)
        BY <1>6, <3>1 DEF InsertCards, ShipmentKnows
      <3>2. CASE \E s \in PostedStatus : InsertCard(r, s)
        BY <1>5, <3>2 DEF InsertCard
      <3> QED
        BY <1>17, <3>1, <3>2
    <2>9. \A s \in Sims : box'[s] = box[s] \/ box'[s] # None
      BY <1>1, <2>1, <2>3
    <2> QED
      BY <1>7, <2>1, <2>3, <2>6, <2>7, <2>8, <2>9, StepOrderly, AllKnow
  <1>18. ASSUME NEW r \in ShipmentRequests, DeleteShipment(r)
         PROVE  TablesFit' /\ Knowledge'
    <2>1. PICK e \in InFlight : /\ e.slot = <<"shipment", r>>
                                /\ e.sims = shipReq[r].cards /\ e.sims \subseteq Sims
                                /\ e.shipment = shipReq[r].shipment
      BY <1>16, <1>18 DEF DeleteShipment
    <2>2. PICK gone : gone = CardsOf(e.shipment)
      OBVIOUS
    <2>3. /\ UNCHANGED <<meter, records, box>> /\ gone \subseteq e.sims
          /\ \A s \in Sims : sim'[s] = IF s \in gone THEN [status |-> "DELETED", by |-> None]
                                       ELSE sim[s]
          /\ ShipmentDone(r)
      BY <1>1, <1>18, <2>1, <2>2, DeletionSparesUsed DEF DeleteShipment
    <2>4. \A s \in gone : ~InMeter(s)
      BY <1>1, <1>18, <2>1, <2>2, <2>3 DEF DeleteShipment, Knowledge, ShipmentKnows
    <2>5. \A s \in Sims : InMeter(s)' <=> InMeter(s)
      BY <2>3 DEF InMeter
    <2>6. ASSUME NEW h \in Shipments, h # e.shipment PROVE CardsOf(h)' = CardsOf(h)
      BY <2>2, <2>3, <2>6 DEF CardsOf
    <2>7. Frame(e)
      BY <1>8, <2>3, <2>5, <2>6 DEF Frame
    <2>8. ASSUME NEW s \in Sims PROVE CardFits(s)'
      <3>1. CASE s \in gone
        BY <2>3, <2>4, <2>5, <3>1 DEF CardFits
      <3>2. CASE s \notin gone
        BY <1>1, <2>3, <2>5, <3>2 DEF TablesFit, CardFits
      <3> QED
        BY <3>1, <3>2
    <2> QED
      BY <1>5, <1>7, <2>1, <2>3, <2>7, <2>8, StepOrderly, AllKnow
  <1> QED
    BY <1>11, <1>12, <1>13, <1>14, <1>15, <1>17, <1>18 DEF ShipmentNext

\* The deletion of a meter, whose SIM goes back to the store or is deleted.
LEMMA DeleteMeterOrderly ==
  ASSUME OrderlyInv, OrderlyWork, DeleteMeter, NoShipmentChanges
  PROVE  TablesFit' /\ Knowledge'
PROOF
  <1>1. PICK q, m, card, e : q = deleteReq /\ m = q.meter /\ card = q.sim /\ e = Deletion
    OBVIOUS
  <1>2. /\ FieldInv /\ TablesFit /\ Knowledge /\ OneMeterPerSim
        /\ meter \in [Meters -> MeterRow] /\ sim \in [Sims -> SimRow]
        /\ records \subseteq Record
    BY FieldTypes DEF OrderlyInv
  <1>3. /\ m \in Meters /\ card \in Sims \union {None} /\ card = meter[m].sim
        /\ q.simAction \in {"RETURN_SIM_TO_AVAILABLE", "DELETE_SIM"}
    <2>1. deleteReq # None /\ AdminTypeOK /\ <<q.simAction, q.recordsAction>> \in Deletions
      BY <1>1, <1>2 DEF DeleteMeter, FieldInv, AdminReady
    <2>2. /\ q.meter \in Meters /\ q.sim \in Sims \union {None} /\ q.simAction \in SimActions
          /\ q.simAction # "LEAVE_AS_IS"
      BY <1>1, <2>1, NoneAssumption DEF AdminTypeOK, OrderlyWork
    <2> QED
      BY <1>1, <1>2, <2>1, <2>2 DEF Knowledge, DeletionKnows, SimActions
  <1>4. /\ e \in InFlight /\ e.slot = <<"delete", None>> /\ e.meter = m
        /\ e.sims = {card} \ {None}
        /\ q.simAction = "DELETE_SIM" /\ card # None => e.shipment = box[card]
    BY <1>1 DEF DeleteMeter, InFlight, Deletion
  <1>5. meter'[m] = BlankMeter /\ \A n \in Meters \ {m} : meter'[n] = meter[n]
    <2>1. \A n \in Meters \ {m} : ~Forgets(q, meter[n].sim)
      BY <1>1, <1>2, <1>3 DEF Forgets, OneMeterPerSim
    <2> QED
      BY <1>1, <1>3, <2>1 DEF DeleteMeter
  <1>6. /\ \A s \in Sims \ {card} : sim'[s] = sim[s]
        /\ card # None => sim'[card] = [status |-> IF q.simAction = "DELETE_SIM"
                                                   THEN "DELETED" ELSE "AVAILABLE", by |-> None]
    BY <1>1, <1>2, <1>3 DEF DeleteMeter, SimAfterDeletion
  <1>7. card # None => sim[card].status = "INSTALLED"
    BY <1>2, <1>3 DEF TablesFit, CardFits, InMeter
  <1>8. /\ \A s \in Sims \ {card} : InMeter(s)' <=> InMeter(s)
        /\ card # None => ~InMeter(card)'
    BY <1>2, <1>3, <1>5, NoneAssumption DEF InMeter, BlankMeter, OneMeterPerSim
  <1>9. \A s \in Sims : Recorded(s)' => Recorded(s)
    <2> SUFFICES ASSUME NEW s \in Sims, NEW x \in records', x.sim = s PROVE Recorded(s)
      BY DEF Recorded
    <2>1. PICK rec \in records : x = IF Forgets(q, rec.sim) THEN [rec EXCEPT !.sim = None] ELSE rec
      BY <1>1 DEF DeleteMeter
    <2>2. Forgets(q, rec.sim) => x.sim = None
      BY <1>2, <2>1 DEF Record
    <2> QED
      BY <2>1, <2>2, NoneAssumption DEF Recorded
  <1>10. ASSUME NEW h \in Shipments, h # e.shipment PROVE CardsOf(h)' = CardsOf(h)
    <2>1. \A s \in Sims : box'[s] = h /\ sim'[s].status # "DELETED"
                          <=> box[s] = h /\ sim[s].status # "DELETED"
      BY <1>3, <1>4, <1>6, <1>7, <1>10, NoneAssumption DEF NoShipmentChanges
    <2> QED
      BY <2>1 DEF CardsOf
  <1>11. Frame(e)
    BY <1>4, <1>5, <1>6, <1>8, <1>9, <1>10, NoneAssumption DEF Frame
  <1>12. \A s \in Sims \cap e.sims : CardFits(s)'
    BY <1>2, <1>4, <1>6, <1>7, <1>8 DEF TablesFit, CardFits, NoShipmentChanges
  <1>13. \A n \in Meters : MeterFits(n)'
    BY <1>2, <1>5 DEF TablesFit, MeterFits, BlankMeter
  <1>14. OthersSame(<<"delete", None>>) /\ DeletionKnows'
    BY DEF DeleteMeter, OthersSame, NoShipmentChanges, DeletionKnows
  <1>15. \A s \in Sims : box'[s] = box[s] \/ box'[s] # None
    BY DEF NoShipmentChanges
  <1> QED
    BY <1>4, <1>11, <1>12, <1>13, <1>14, <1>15, StepOrderly, AllKnow

\* The other steps of the administrators.
LEMMA AdminStepOrderly ==
  ASSUME OrderlyInv, OrderlyWork, NoShipmentChanges,
         \/ \E m \in Meters, status \in MeterStatus :
              \/ CreateMeter(m, status)
              \/ \E r \in InstallRequests, s \in Sims : CreateMeterWithSim(r, m, s, status)
         \/ DeleteNext
         \/ \E m \in Meters, status \in MeterStatus : EditMeterStatus(m, status)
  PROVE  TablesFit' /\ Knowledge'
PROOF
  <1>1. /\ FieldInv /\ TablesFit /\ Knowledge /\ AdminTypeOK
        /\ meter \in [Meters -> MeterRow]
        /\ installReq \in [InstallRequests -> InstallRequest]
    BY FieldTypes DEF OrderlyInv, FieldInv, AdminReady
  <1>2. ASSUME NEW x, OthersSame(x), UNCHANGED <<sim, records>>,
               \A m \in Meters : /\ meter'[m].sim = meter[m].sim
                                 /\ meter'[m].state = meter[m].state
                                 /\ meter'[m].openDemount = meter[m].openDemount
        PROVE  TablesFit' /\ KnownBut(x)'
    <2>1. \A m \in Meters : MeterFits(m)'
      BY <1>1, <1>2 DEF TablesFit, MeterFits
    <2>2. \A s \in Sims : Recorded(s)' => Recorded(s)
      BY <1>2 DEF Recorded
    <2> QED
      BY <1>2, <2>1, <2>2, StillOrderly DEF NoShipmentChanges
  <1>3. ASSUME NEW m \in Meters, NEW status, meter' = [meter EXCEPT ![m].status = status]
        PROVE  \A n \in Meters : /\ meter'[n].sim = meter[n].sim
                                  /\ meter'[n].state = meter[n].state
                                  /\ meter'[n].openDemount = meter[n].openDemount
    BY <1>1, <1>3 DEF MeterRow
  <1>4. ASSUME NEW m \in Meters, NEW status,
               CreateMeter(m, status) \/ EditMeterStatus(m, status)
        PROVE  TablesFit' /\ Knowledge'
    <2>1. /\ OthersSame(<<"none", None>>) /\ UNCHANGED <<sim, records>>
          /\ meter' = [meter EXCEPT ![m].status = status]
      BY <1>4 DEF CreateMeter, EditMeterStatus, OnlyMeters, OthersSame, NoTaskChanges,
                  NoShipmentChanges, adminVars
    <2> QED
      BY <1>2, <1>3, <2>1, AllKnow
  <1>5. ASSUME NEW r \in InstallRequests, NEW m \in Meters, NEW s \in Sims, NEW status,
               CreateMeterWithSim(r, m, s, status)
        PROVE  TablesFit' /\ Knowledge'
    <2>1. PICK row : row = [IdleInstall EXCEPT !.at = "sim", !.meter = m, !.sim = s]
      OBVIOUS
    <2>2. installReq' = [installReq EXCEPT ![r] = row] /\ row.at = "sim"
      BY <1>5, <2>1 DEF CreateMeterWithSim, IdleInstall
    <2>3. /\ OthersSame(<<"install", r>>) /\ UNCHANGED <<sim, records>>
          /\ meter' = [meter EXCEPT ![m].status = status]
          /\ installReq'[r] = row
      BY <1>1, <1>5, <2>2 DEF CreateMeterWithSim, OthersSame, NoTaskChanges, NoShipmentChanges,
                              adminVars
    <2>4. InstallKnows(r)'
      BY <2>2, <2>3 DEF InstallKnows
    <2> QED
      BY <1>2, <1>3, <2>3, <2>4, AllKnow
  <1>6. CASE \/ \E m \in Meters, d \in Deletions : ReadMeterDelete(m, d[1], d[2])
             \/ ReadMeterRecords
             \/ DeletionFails
    <2>1. OthersSame(<<"delete", None>>) /\ UNCHANGED <<meter, sim, records>>
      BY <1>6 DEF ReadMeterDelete, ReadMeterRecords, DeletionFails, OnlyDeletion, OthersSame,
                  NoTaskChanges, NoShipmentChanges, registryVars
    <2>2. DeletionKnows'
      <3>1. CASE \E m \in Meters, d \in Deletions : ReadMeterDelete(m, d[1], d[2])
        BY <2>1, <3>1 DEF ReadMeterDelete, DeletionKnows
      <3>2. CASE ReadMeterRecords
        <4>1. deleteReq'.meter = deleteReq.meter /\ deleteReq'.sim = deleteReq.sim
              /\ deleteReq # None
          BY <1>1, <3>2 DEF ReadMeterRecords, AdminTypeOK
        <4> QED
          BY <1>1, <2>1, <4>1 DEF Knowledge, DeletionKnows
      <3>3. CASE DeletionFails
        BY <3>3 DEF DeletionFails, DeletionKnows
      <3> QED
        BY <1>6, <3>1, <3>2, <3>3
    <2> QED
      BY <1>2, <2>1, <2>2, AllKnow
  <1> QED
    BY <1>4, <1>5, <1>6, DeleteMeterOrderly DEF DeleteNext

-----------------------------------------------------------------------------
(* Orderly work keeps the tables together. *)

LEMMA InitOrderlyInv == FieldInit => OrderlyInv
PROOF
  <1> SUFFICES ASSUME FieldInit PROVE OrderlyInv
    OBVIOUS
  <1>1. FieldInv
    BY InitFieldInv
  <1>2. PICK held \in [Meters -> Sims \union {None}], owner \in [Sims -> Users \union {None}],
             away \in SUBSET Meters : Stock(held, owner, away)
    BY DEF FieldInit, InstallInit, RecordInit, SimInit, RegistryInit
  <1>3. \A m \in Meters : /\ meter[m].sim = held[m] /\ ~meter[m].openDemount
                          /\ meter[m].state = "INSTALLED" <=> held[m] # None
    BY <1>2 DEF Stock
  <1>4. ASSUME NEW s \in Sims
        PROVE  CardFits(s)
    <2>1. InMeter(s) <=> \E m \in Meters : held[m] = s
      BY <1>3 DEF InMeter
    <2>2. /\ sim[s].by = owner[s]
          /\ sim[s].status = IF s \in NewSims THEN "DELETED"
                             ELSE IF InMeter(s) THEN "INSTALLED"
                             ELSE IF owner[s] = None THEN "AVAILABLE" ELSE "ASSIGNED"
      BY <1>2, <2>1 DEF Stock
    <2>3. s \in NewSims => ~InMeter(s)
      BY <1>2, <2>1 DEF Stock
    <2>4. box[s] = None /\ Shipments # {} => s \in NewSims
      BY DEF FieldInit, ShipmentStock
    <2> QED
      BY <2>2, <2>3, <2>4 DEF CardFits
  <1>5. Knowledge
    BY DEF FieldInit, InstallInit, RecordInit, SimInit, ShipmentStock, AdminInit, Knowledge,
           SimKnows, InstallKnows, DemountKnows, ShipmentKnows, DeletionKnows,
           IdleSim, IdleInstall, Idle, IdleShipment
  <1> QED
    BY <1>1, <1>3, <1>4, <1>5 DEF OrderlyInv, TablesFit, MeterFits

LEMMA NextOrderlyInv ==
  ASSUME OrderlyWork
  PROVE  OrderlyInv /\ [FieldNext]_fieldVars => OrderlyInv'
PROOF
  <1> SUFFICES ASSUME OrderlyInv, [FieldNext]_fieldVars PROVE TablesFit' /\ Knowledge'
    BY NextFieldInv DEF OrderlyInv, OverrideNext
  <1>1. CASE RequestNext
    <2>1. EditedStatus \union {"ACTIVE"} \subseteq MeterStatus
      BY AdminAssumption DEF MeterStatus
    <2> QED
      BY <1>1, <2>1, SimStepOrderly, InstallStepOrderly, DemountStepOrderly,
         ShipmentStepOrderly, AdminStepOrderly DEF RequestNext
  <1>2. CASE \E m \in Meters : \E status \in EditedStatus :
               EditMeterStatus(m, status) /\ NoShipmentChanges
    BY <1>2, AdminAssumption, AdminStepOrderly
  <1>3. CASE UNCHANGED fieldVars
    <2>1. UNCHANGED <<meter, sim, box, simReq, installReq, demountReq, shipReq, deleteReq, records>>
      BY <1>3 DEF fieldVars, installVars, recordVars, registryVars, adminVars
    <2>2. OthersSame(<<"none", None>>) /\ \A s \in Sims : Recorded(s)' => Recorded(s)
      BY <2>1 DEF OthersSame, Recorded
    <2>3. \A m \in Meters : MeterFits(m)'
      BY <2>1 DEF OrderlyInv, TablesFit, MeterFits
    <2> QED
      BY <2>1, <2>2, <2>3, StillOrderly, AllKnow
  <1> QED
    BY <1>1, <1>2, <1>3 DEF FieldNext

\* When requests about one meter, SIM or shipment wait for each other, and no meter is
\* deleted with its SIM left as it is, everything a handler of the field operations read
\* is still so when it writes.
THEOREM OrderlyInvariant ==
  ASSUME OrderlyWork
  PROVE  FieldSpec => []OrderlyInv
PROOF
  BY InitOrderlyInv, NextOrderlyInv, PTL DEF FieldSpec

\* Orderly work: simCardState says whether a meter has a SIM.  Installation,
\* replacement, removal and deletion each write the two columns of meters.
THEOREM OrderlyStateMatchesLink ==
  ASSUME OrderlyWork
  PROVE  FieldSpec => []StateMatchesLink
PROOF
  <1>1. OrderlyInv => StateMatchesLink
    BY DEF OrderlyInv, TablesFit, MeterFits, StateMatchesLink
  <1> QED
    BY <1>1, OrderlyInvariant, PTL

\* Orderly work: a SIM has status INSTALLED exactly when it is in a meter, although
\* the two tables are written by six services (sim_cards.status, meters.simCardId).
THEOREM OrderlySimMeterAgreement ==
  ASSUME OrderlyWork
  PROVE  FieldSpec => []SimMeterAgreement
PROOF
  <1>1. OrderlyInv => SimMeterAgreement
    BY DEF OrderlyInv, TablesFit, CardFits, SimMeterAgreement
  <1> QED
    BY <1>1, OrderlyInvariant, PTL

\* Orderly work: a meter locked for demounting has its SIM until the task ends, so the
\* technician can complete the task.
THEOREM OrderlyLockedMeterHasSim ==
  ASSUME OrderlyWork
  PROVE  FieldSpec => []LockedMeterHasSim
PROOF
  <1>1. OrderlyInv => LockedMeterHasSim
    BY DEF OrderlyInv, TablesFit, MeterFits, LockedMeterHasSim
  <1> QED
    BY <1>1, OrderlyInvariant, PTL

\* Only the removal of a shipment deletes its row.
LEMMA WhoDeletesShipments ==
  ASSUME FieldInv, [FieldNext]_fieldVars, NEW h \in Shipments, Present(h),
         shipment'[h] = "DELETED"
  PROVE  \E r \in ShipmentRequests : DeleteShipment(r) \/ DeleteEmptyShipment(r)
PROOF
  <1> DEFINE Removal == \E r \in ShipmentRequests : DeleteShipment(r) \/ DeleteEmptyShipment(r)
  <1>1. shipment \in [Shipments -> ShipmentStatus] /\ shipment' # shipment
    BY DEF FieldInv, ShipmentReady, ShipmentTypeOK, Present
  <1>2. ASSUME ShipmentNext PROVE Removal
    <2>1. ASSUME NEW n \in Shipments, CreateShipment(n) PROVE FALSE
      BY <1>1, <2>1 DEF CreateShipment, ShipmentStatus, Present
    <2>2. ASSUME NEW r \in ShipmentRequests, FinishImport(r) PROVE FALSE
      BY <1>1, <2>2 DEF FinishImport, ShipmentStatus, Present
    <2>3. ASSUME NEW r \in ShipmentRequests,
                 \/ InsertCards(r) \/ CheckUse(r) \/ ShipmentFails(r)
                 \/ \E status \in PostedStatus : InsertCard(r, status)
                 \/ \E n \in Shipments : \/ ReadShipmentRemove(r, n)
                                         \/ \E cards \in SUBSET Sims : ReadImport(r, n, cards)
                                         \/ \E s \in Sims : ReadCardShipment(r, n, s)
          PROVE  FALSE
      BY <1>1, <2>3 DEF InsertCards, InsertCard, InsertRows, CheckUse, ShipmentFails,
                        ReadShipmentRemove, ReadImport, ReadCardShipment, NoRow
    <2> QED
      BY <1>2, <2>1, <2>2, <2>3 DEF ShipmentNext
  <1>3. NoShipmentChanges => FALSE
    BY <1>1 DEF NoShipmentChanges
  <1>4. UNCHANGED fieldVars => FALSE
    BY <1>1 DEF fieldVars
  <1> HIDE DEF Removal
  <1>5. Removal
    BY <1>2, <1>3, <1>4 DEF FieldNext, RequestNext
  <1> QED
    BY <1>5 DEF Removal

\* Orderly work: removing a shipment takes no SIM out of a meter and off no record,
\* although it looks at the meters and the records before the transaction, and deletes
\* the cards the shipment has by then (remove in shipments.service.ts).
THEOREM OrderlyRemovalSparesUsed ==
  ASSUME OrderlyWork
  PROVE  FieldSpec => RemovalSparesUsed
PROOF
  <1> DEFINE Spared == \A h \in Shipments :
                         Present(h) /\ shipment'[h] = "DELETED"
                         => /\ \A m \in Meters : meter'[m].sim = meter[m].sim
                            /\ records' = records
  <1>1. OrderlyInv /\ [FieldNext]_fieldVars => Spared
    <2> SUFFICES ASSUME OrderlyInv, [FieldNext]_fieldVars, NEW h \in Shipments, Present(h),
                        shipment'[h] = "DELETED"
                 PROVE  UNCHANGED <<meter, records>>
      OBVIOUS
    <2>1. PICK r \in ShipmentRequests : DeleteShipment(r) \/ DeleteEmptyShipment(r)
      BY WhoDeletesShipments DEF OrderlyInv
    <2> QED
      BY <2>1, DeletionSparesUsed DEF OrderlyInv, DeleteEmptyShipment, registryVars
  <1>2. OrderlyInv /\ [FieldNext]_fieldVars => [Spared]_shipmentVars
    BY <1>1
  <1>3. FieldSpec => [][Spared]_shipmentVars
    <2> HIDE DEF Spared
    <2> QED
      BY <1>2, OrderlyInvariant, PTL DEF FieldSpec
  <1> QED
    BY <1>3 DEF RemovalSparesUsed

=============================================================================

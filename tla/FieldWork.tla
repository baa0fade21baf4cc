------------------------------ MODULE FieldWork ------------------------------
(***************************************************************************)
(* The field operations together: shipments and their cards, SIM hand-out, *)
(* demount tasks, install tasks, installation records and the              *)
(* administrator's edits of a meter, all requests of one backend on the    *)
(* tables meters and sim_cards.                                            *)
(***************************************************************************)
EXTENDS MeterAdmin, Shipments

CONSTANTS EditedSimStatus,  \* the SIM statuses administrators set by hand
          Orderly           \* requests about one meter, SIM or shipment wait for each other

\* The modules say what a handler does to a row it read earlier, not what it does if
\* its meter is deleted meanwhile.
ASSUME FieldAssumption ==
  /\ EditedSimStatus \subseteq SimStatus \ {"DELETED"}
  /\ Orderly \in BOOLEAN
  /\ Deletions # {} => Orderly

fieldVars == <<installVars, demountTask, demountReq, adminVars, shipment, box, shipReq>>

FieldTypeOK ==
  /\ DemountTypeOK
  /\ InstallTypeOK
  /\ ShipmentTypeOK
  /\ AdminTypeOK

FieldInit ==
  /\ InstallInit
  /\ ShipmentStock
  /\ AdminInit
  /\ demountTask = [t \in DemountIds |->
                      [status |-> "NONE", meter |-> None, by |-> None, outcome |-> None]]
  /\ demountReq = [r \in DemountRequests |-> Idle]

-----------------------------------------------------------------------------
(* What a request in flight is about. *)

Deletion ==
  [slot |-> <<"delete", None>>, meter |-> deleteReq.meter, sims |-> {deleteReq.sim} \ {None},
   shipment |-> IF deleteReq.simAction = "DELETE_SIM" /\ deleteReq.sim # None
                THEN box[deleteReq.sim] ELSE None]

\* The removal of a SIM is about its shipment as well.
SimWork(r) ==
  [slot |-> <<"sim", r>>, meter |-> None, sims |-> {simReq[r].sim},
   shipment |-> IF simReq[r].at = "remove" THEN box[simReq[r].sim] ELSE None]

InstallWork(r) ==
  [slot |-> <<"install", r>>, meter |-> installReq[r].meter, sims |-> SimsOf(installReq[r]),
   shipment |-> None]

DemountWork(r) ==
  [slot |-> <<"demount", r>>, meter |-> demountReq[r].meter,
   sims |-> {demountReq[r].old, demountReq[r].new} \ {None}, shipment |-> None]

ShipmentWork(r) ==
  [slot |-> <<"shipment", r>>, meter |-> None, sims |-> shipReq[r].cards,
   shipment |-> shipReq[r].shipment]

InFlight ==
  (IF deleteReq = None THEN {} ELSE {Deletion})
  \union {SimWork(r) : r \in {q \in SimRequests : simReq[q].at # "idle"}}
  \union {InstallWork(r) : r \in {q \in InstallRequests : installReq[q].at # "idle"}}
  \union {DemountWork(r) : r \in {q \in DemountRequests : demountReq[q].at # "idle"}}
  \union {ShipmentWork(r) : r \in {q \in ShipmentRequests : shipReq[q].at # "idle"}}

\* No two requests in flight are about the same meter, the same SIM or the same
\* shipment.  The code does not enforce it; it is the way of working under which
\* the handlers keep the tables together.
NoInterference ==
  \A a, b \in InFlight :
    a # b => /\ a.meter = b.meter => a.meter = None
             /\ a.shipment = b.shipment => a.shipment = None
             /\ a.sims \cap b.sims = {}

RequestsApart == Orderly => NoInterference

-----------------------------------------------------------------------------
NoShipmentChanges == UNCHANGED <<shipment, box, shipReq>>

RequestNext ==
  \/ /\ SimNext
     /\ records' = Detached({s \in Sims : sim'[s].status = "DELETED"})
     /\ UNCHANGED <<fresh, form, installReq, adminVars>>
     /\ NoTaskChanges /\ NoShipmentChanges
  \/ InstallNext /\ UNCHANGED <<demountTask, demountReq, adminVars>> /\ NoShipmentChanges
  \/ /\ DemountNext
     /\ UNCHANGED <<simReq, fresh, form, records, installReq, installTask, adminVars>>
     /\ NoShipmentChanges
  \/ ShipmentNext /\ NoTaskChanges /\ UNCHANGED adminVars
  \/ /\ \/ \E m \in Meters, status \in EditedStatus \union {"ACTIVE"} :
             \/ CreateMeter(m, status)
             \/ \E r \in InstallRequests, s \in Sims : CreateMeterWithSim(r, m, s, status)
        \/ DeleteNext
     /\ NoShipmentChanges

FieldNext ==
  \/ RequestNext /\ RequestsApart'
  \/ \E m \in Meters : \E status \in EditedStatus :
       EditMeterStatus(m, status) /\ NoShipmentChanges

FieldSpec == FieldInit /\ [][FieldNext]_fieldVars

\* With the edits that bypass the handlers.
OverrideNext ==
  \/ FieldNext
  \/ /\ \/ \E m \in Meters :
             \/ \E status \in EditedStatuses(m) : EditMeterClear(m, status)
             \/ \E s \in Sims : ReadMeterLink(m, s)
        \/ editReq # None /\ \E status \in EditedStatuses(editReq.meter) : WriteMeterLink(status)
        \/ MeterLinkFails
     /\ NoShipmentChanges
  \/ \E s \in Sims : \E status \in EditedSimStatus \union {sim[s].status},
                        h \in Shipments \union {box[s]} :
       /\ EditSimCard(s, status, h) /\ NoTaskChanges /\ UNCHANGED adminVars
       /\ RequestsApart'

OverrideSpec == FieldInit /\ [][OverrideNext]_fieldVars

-----------------------------------------------------------------------------
(* Properties. *)

\* A meter locked for demounting still has the SIM the task is about, so the
\* technician can complete the task.
LockedMeterHasSim == \A m \in Meters : meter[m].openDemount => meter[m].sim # None
=============================================================================

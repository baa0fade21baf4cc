------------------------------ MODULE Shipments ------------------------------
(***************************************************************************)
(* Shipments of SIM cards: creation, import of the provider's file,        *)
(* removal (backend/src/modules/shipments/shipments.service.ts), and the   *)
(* single card entered or edited by hand (create and update in             *)
(* modules/sim-cards/sim-cards.service.ts).                                *)
(*                                                                         *)
(* An import is three database steps: find the shipment and the ICCIDs     *)
(* there are, insert the new rows in one statement, close the shipment.    *)
(* A card entered by hand is two: find the shipment, insert the row.  A    *)
(* removal is three: read the shipment with its cards, look for meters and *)
(* records of the cards read, delete the cards it has by then and the      *)
(* shipment.                                                               *)
(*                                                                         *)
(* A SIM id stands for the row an ICCID of some file will get.  The column *)
(* totalCards is shown to people and read by no handler; it is left out.   *)
(***************************************************************************)
EXTENDS InstallationRecords

CONSTANTS Shipments,            \* ids of the rows of table shipments
          ShipmentRequests,     \* slots for imports, new cards and removals in flight
          PostedStatus          \* the statuses a new card is posted with

ASSUME ShipmentAssumption ==
  /\ None \notin Shipments
  /\ PostedStatus \subseteq SimStatus \ {"DELETED"}

VARIABLES shipment,     \* status in table shipments: [Shipments -> ShipmentStatus]
          box,          \* sim_cards.shipmentId; None before the row is inserted
          shipReq       \* requests in flight

shipmentVars == <<recordVars, shipment, box, shipReq>>

\* NONE: no such row yet; DELETED: no longer.
ShipmentStatus == {"NONE", "RECEIVED", "COMPLETED", "DELETED"}

\* at: the next database step of an import or a new card (first line) or a removal.
ShipmentRequest == [at : {"idle", "insert", "finish", "card",
                          "use", "delete", "deleteEmpty"},
                    shipment : Shipments \union {None},
                    cards : SUBSET Sims]    \* rows to insert, or the cards read

IdleShipment == [at |-> "idle", shipment |-> None, cards |-> {}]

ShipmentTypeOK ==
  /\ shipment \in [Shipments -> ShipmentStatus]
  /\ box \in [Sims -> Shipments \union {None}]
  /\ shipReq \in [ShipmentRequests -> ShipmentRequest]

Present(h) == shipment[h] \in {"RECEIVED", "COMPLETED"}

\* The relation Shipment.simCards.
CardsOf(h) == {s \in Sims : box[s] = h /\ sim[s].status # "DELETED"}

\* The SIMs there are came with imported shipments; the others are not used yet.
ShipmentStock ==
  /\ box \in [Sims -> Shipments \union {None}]
  /\ \A s \in Sims : box[s] = None <=> s \in NewSims \/ Shipments = {}
  /\ shipment = [h \in Shipments |->
                   IF CardsOf(h) = {} THEN "NONE" ELSE "COMPLETED"]
  /\ shipReq = [r \in ShipmentRequests |-> IdleShipment]

-----------------------------------------------------------------------------
OtherTables == UNCHANGED <<simReq, fresh, form, installReq>>
NoRow == UNCHANGED <<registryVars, records, shipment, box>> /\ OtherTables

ShipmentGoesTo(r, at) == shipReq' = [shipReq EXCEPT ![r].at = at]
ShipmentDone(r) == shipReq' = [shipReq EXCEPT ![r] = IdleShipment]

CreateShipment(h) ==
  /\ shipment[h] = "NONE"
  /\ shipment' = [shipment EXCEPT ![h] = "RECEIVED"]
  /\ UNCHANGED <<registryVars, records, box, shipReq>>
  /\ OtherTables

\* Mutant of RowsAllowed: sim_cards.shipment_id without its foreign key.
RowsUnchecked(h, cards) == \A s \in cards : box[s] = None

\* The insert the database accepts: the shipment is there (foreign key) and no
\* row has one of the ICCIDs (unique index).
RowsAllowed(h, cards) == Present(h) /\ \A s \in cards : box[s] = None

\* The rows of q, in its shipment and without an owner.
InsertRows(q, status) ==
  /\ RowsAllowed(q.shipment, q.cards)
  /\ sim' = [s \in Sims |-> IF s \in q.cards THEN [status |-> status, by |-> None] ELSE sim[s]]
  /\ box' = [s \in Sims |-> IF s \in q.cards THEN q.shipment ELSE box[s]]
  /\ UNCHANGED <<meter, records, shipment>>
  /\ OtherTables

\* create of a single card, query: the shipment.
ReadCardShipment(r, h, s) ==
  /\ shipReq[r].at = "idle"
  /\ Present(h)
  /\ shipReq' = [shipReq EXCEPT ![r] = [at |-> "card", shipment |-> h, cards |-> {s}]]
  /\ NoRow

\* create, insert: with the status of the request, AVAILABLE by default.
InsertCard(r, status) ==
  /\ shipReq[r].at = "card"
  /\ InsertRows(shipReq[r], status)
  /\ ShipmentDone(r)

\* PATCH /sim-cards/:id: any status, and another shipment; the assignee and the meter
\* are not looked at.  The queries in front (is there such a card, such a shipment)
\* refuse what the write would refuse.  Kept out of ShipmentNext.
EditSimCard(s, status, h) ==
  /\ sim[s].status # "DELETED"
  /\ h = box[s] \/ Present(h)
  /\ sim' = [sim EXCEPT ![s].status = status]
  /\ box' = [box EXCEPT ![s] = h]
  /\ UNCHANGED <<meter, records, shipment, shipReq>>
  /\ OtherTables

\* importExcel, queries: the shipment, and the ICCIDs of all rows.  cards: the
\* correct rows of the file the user selected, which no row has yet.
ReadImport(r, h, cards) ==
  /\ shipReq[r].at = "idle"
  /\ Present(h)
  /\ cards # {} /\ \A s \in cards : box[s] = None
  /\ shipReq' = [shipReq EXCEPT ![r] =
                   [at |-> "insert", shipment |-> h, cards |-> cards]]
  /\ NoRow

\* createMany: all rows or none.
InsertCards(r) ==
  /\ shipReq[r].at = "insert"
  /\ InsertRows(shipReq[r], "AVAILABLE")
  /\ ShipmentGoesTo(r, "finish")

\* The shipment is complete (and gets the number of its cards, just counted).
FinishImport(r) ==
  LET q == shipReq[r] IN
  /\ q.at = "finish"
  /\ Present(q.shipment)
  /\ shipment' = [shipment EXCEPT ![q.shipment] = "COMPLETED"]
  /\ ShipmentDone(r)
  /\ UNCHANGED <<registryVars, records, box>>
  /\ OtherTables

\* remove, first query.  Cards with an operator or in a meter end it.
ReadShipmentRemove(r, h) ==
  LET cards == CardsOf(h) IN
  /\ shipReq[r].at = "idle"
  /\ Present(h)
  /\ \A s \in cards : sim[s].status \notin {"ASSIGNED", "INSTALLED"}
  /\ shipReq' = [shipReq EXCEPT ![r] =
                   [at |-> IF cards = {} THEN "deleteEmpty" ELSE "use",
                    shipment |-> h, cards |-> cards]]
  /\ NoRow

\* Mutant of CheckUse: records of the cards do not matter.
CheckMetersOnly(r) ==
  /\ shipReq[r].at = "use"
  /\ \A s \in shipReq[r].cards : ~InMeter(s)
  /\ ShipmentGoesTo(r, "delete")
  /\ NoRow

\* remove, the two counts: of the cards read.
CheckUse(r) ==
  /\ shipReq[r].at = "use"
  /\ \A s \in shipReq[r].cards : ~InMeter(s) /\ \A rec \in records : rec.sim # s
  /\ ShipmentGoesTo(r, "delete")
  /\ NoRow

\* The foreign keys of meters and installation_records are ON DELETE SET NULL:
\* a deleted SIM disappears from both, and nothing else of the rows changes.
Unlinked(gone) ==
  [m \in Meters |-> IF meter[m].sim \in gone THEN [meter[m] EXCEPT !.sim = None] ELSE meter[m]]
Detached(gone) ==
  {IF rec.sim \in gone THEN [rec EXCEPT !.sim = None] ELSE rec : rec \in records}

\* remove, transaction: the cards of the shipment, those it got since included.
DeleteShipment(r) ==
  LET q == shipReq[r]
      gone == CardsOf(q.shipment)
  IN /\ q.at = "delete"
     /\ Present(q.shipment)
     /\ sim' = [s \in Sims |-> IF s \in gone THEN [status |-> "DELETED", by |-> None] ELSE sim[s]]
     /\ meter' = Unlinked(gone)
     /\ records' = Detached(gone)
     /\ shipment' = [shipment EXCEPT ![q.shipment] = "DELETED"]
     /\ ShipmentDone(r)
     /\ UNCHANGED box
     /\ OtherTables

\* remove of an empty shipment: the foreign key refuses one that is not.
DeleteEmptyShipment(r) ==
  LET q == shipReq[r] IN
  /\ q.at = "deleteEmpty"
  /\ Present(q.shipment) /\ CardsOf(q.shipment) = {}
  /\ shipment' = [shipment EXCEPT ![q.shipment] = "DELETED"]
  /\ ShipmentDone(r)
  /\ UNCHANGED <<registryVars, records, box>>
  /\ OtherTables

\* The next step is refused (by the check, the unique index, a foreign key or a
\* row that is gone), or the backend stops before it.
ShipmentFails(r) ==
  /\ shipReq[r].at # "idle"
  /\ ShipmentDone(r)
  /\ NoRow

ShipmentNext ==
  \/ \E h \in Shipments :
       \/ CreateShipment(h)
       \/ \E r \in ShipmentRequests :
            \/ \E cards \in SUBSET Sims : ReadImport(r, h, cards)
            \/ \E s \in Sims : ReadCardShipment(r, h, s)
            \/ ReadShipmentRemove(r, h)
  \/ \E r \in ShipmentRequests :
       \/ InsertCards(r)
       \/ FinishImport(r)
       \/ \E status \in PostedStatus : InsertCard(r, status)
       \/ CheckUse(r)
       \/ DeleteShipment(r)
       \/ DeleteEmptyShipment(r)
       \/ ShipmentFails(r)

-----------------------------------------------------------------------------
(* Properties. *)

\* A card there is belongs to a shipment there is, although imports, new cards and
\* edits look the shipment up before they write and a removal may come in between,
\* and the removal read the cards before others came.
CardsHaveShipment ==
  \A s \in Sims : sim[s].status # "DELETED" /\ box[s] # None => Present(box[s])

\* Removing a shipment takes no SIM out of a meter and off no installation
\* record ("Isporuku nije moguce obrisati"), although both were looked at before.
RemovalSparesUsed ==
  [][\A h \in Shipments :
       Present(h) /\ shipment'[h] = "DELETED"
       => /\ \A m \in Meters : meter'[m].sim = meter[m].sim
          /\ records' = records]_shipmentVars
=============================================================================

--------------------------- MODULE SimCards_proofs ---------------------------
(***************************************************************************)
(* Handing out SIM cards keeps status and assignee together for any number *)
(* of SIMs, operators and requests, whatever writes overtake each other:   *)
(* the handlers write unconditionally, but always both columns at once.    *)
(***************************************************************************)
EXTENDS SimCards, TLAPS

\* A request about to write names a SIM, and an operator if it hands one out.
SimRequestComplete ==
  \A r \in SimRequests :
    /\ simReq[r].at # "idle" => simReq[r].sim \in Sims
    /\ simReq[r].at \in {"claim", "assign"} => simReq[r].user \in Users

SimBase == SimTypeOK /\ SimRequestComplete

SimInv == SimBase /\ StockHasOwner

\* The stock before the first request.
LEMMA InitSimInv == SimInit => SimInv
PROOF
  <1> SUFFICES ASSUME SimInit PROVE SimInv
    OBVIOUS
  <1> USE NoneAssumption DEF SimInit, RegistryInit, Stock
  <1>1. PICK held \in [Meters -> Sims \union {None}],
             owner \in [Sims -> Users \union {None}],
             away \in SUBSET Meters : Stock(held, owner, away)
    OBVIOUS
  <1>2. RegistryTypeOK
    <2>1. meter \in [Meters -> MeterRow]
      BY <1>1 DEF MeterRow, MeterStatus
    <2>2. sim \in [Sims -> SimRow]
      BY <1>1 DEF SimRow, SimStatus
    <2> QED
      BY <2>1, <2>2 DEF RegistryTypeOK
  <1>3. simReq \in [SimRequests -> SimRequest] /\ SimRequestComplete
    BY DEF SimRequest, SimRequestComplete, IdleSim
  <1>4. StockHasOwner
    BY <1>1 DEF StockHasOwner
  <1> QED
    BY <1>2, <1>3, <1>4 DEF SimInv, SimBase, SimTypeOK

\* Every step of claim, assign, unassign and remove keeps the types and what a request
\* knows, and removing a SIM is the only one that touches a meter.
LEMMA NextSimBase ==
  ASSUME SimBase, [SimNext]_simVars
  PROVE  /\ SimBase'
         /\ \A m \in Meters : \/ meter'[m] = meter[m]
                              \/ meter'[m] = [meter[m] EXCEPT !.sim = None]
PROOF
  <1> DEFINE Links == \A m \in Meters : \/ meter'[m] = meter[m]
                                       \/ meter'[m] = [meter[m] EXCEPT !.sim = None]
  <1> USE NoneAssumption DEF SimBase, SimTypeOK, RegistryTypeOK
  <1>0. UNCHANGED meter => Links
    OBVIOUS
  <1> HIDE DEF Links
  \* Reads: the tables stay.
  <1>1. ASSUME NEW r \in SimRequests, NEW s \in Sims,
               NEW at \in {"claim", "assign", "unassign", "remove"},
               NEW u \in Users \union {None},
               at \in {"claim", "assign"} => u \in Users,
               ReadSimRow(r, s, at, u)
        PROVE  SimBase' /\ Links
    <2>1. SimTypeOK'
      BY <1>1 DEF ReadSimRow, SimRequest
    <2>2. SimRequestComplete'
      BY <1>1 DEF ReadSimRow, SimRequestComplete
    <2> QED
      BY <1>0, <1>1, <2>1, <2>2 DEF ReadSimRow
  <1>2. ASSUME NEW r \in SimRequests, SimDone(r)
        PROVE  SimRequestComplete' /\ simReq' \in [SimRequests -> SimRequest]
    BY <1>2 DEF SimDone, SimRequestComplete, IdleSim, SimRequest
  \* Writes: one row, both columns.
  <1>3. ASSUME NEW r \in SimRequests, WriteClaim(r) \/ WriteAssign(r)
        PROVE  SimBase' /\ Links
    <2>1. simReq[r].sim \in Sims /\ simReq[r].user \in Users
      BY <1>3 DEF WriteClaim, WriteAssign, SimRequestComplete
    <2>2. /\ sim' = [sim EXCEPT ![simReq[r].sim] = AssignedTo(simReq[r].user)]
          /\ meter' = meter /\ SimDone(r)
      BY <1>3 DEF WriteClaim, WriteAssign
    <2>3. RegistryTypeOK'
      BY <2>1, <2>2 DEF AssignedTo, SimRow, SimStatus
    <2> QED
      BY <1>0, <1>2, <2>2, <2>3
  <1>4. ASSUME NEW r \in SimRequests, WriteUnassign(r)
        PROVE  SimBase' /\ Links
    <2>1. RegistryTypeOK'
      BY <1>4 DEF WriteUnassign, SimRow, SimStatus
    <2> QED
      BY <1>0, <1>2, <1>4, <2>1 DEF WriteUnassign
  <1>5. ASSUME NEW r \in SimRequests, WriteRemove(r)
        PROVE  SimBase' /\ Links
    <2>1. sim' \in [Sims -> SimRow]
      BY <1>5 DEF WriteRemove, SimRow, SimStatus
    <2>2. meter' \in [Meters -> MeterRow]
      BY <1>5 DEF WriteRemove, MeterRow
    <2>3. Links
      BY <1>5 DEF WriteRemove, Links
    <2> QED
      BY <1>2, <1>5, <2>1, <2>2, <2>3 DEF WriteRemove
  <1>6. ASSUME NEW r \in SimRequests, SimRefused(r) \/ SimCrash(r)
        PROVE  SimBase' /\ Links
    BY <1>0, <1>2, <1>6 DEF SimRefused, SimCrash
  <1>7. ASSUME NEW r \in SimRequests, NEW s \in Sims,
               \/ \E u \in Users : ReadClaim(r, s, u) \/ ReadAssign(r, s, u)
               \/ ReadUnassign(r, s)
               \/ ReadRemove(r, s)
        PROVE  SimBase' /\ Links
    BY <1>1, <1>7 DEF ReadClaim, ReadAssign, ReadUnassign, ReadRemove
  <1>8. ASSUME UNCHANGED simVars
        PROVE  SimBase' /\ Links
    BY <1>0, <1>8 DEF simVars, SimRequestComplete
  <1> QED
    BY <1>3, <1>4, <1>5, <1>6, <1>7, <1>8 DEF SimNext, SimRequestNext, Links

\* A write sets both columns of the row.
LEMMA NextStockHasOwner ==
  ASSUME SimBase, StockHasOwner, [SimNext]_simVars
  PROVE  StockHasOwner'
PROOF
  <1> USE NoneAssumption DEF SimBase, SimTypeOK, RegistryTypeOK
  <1>1. CASE UNCHANGED sim
    BY <1>1 DEF StockHasOwner
  <1>2. ASSUME NEW r \in SimRequests, WriteClaim(r) \/ WriteAssign(r)
        PROVE  StockHasOwner'
    <2>1. simReq[r].sim \in Sims /\ simReq[r].user \in Users
      BY <1>2 DEF WriteClaim, WriteAssign, SimRequestComplete
    <2> QED
      BY <1>2, <2>1 DEF WriteClaim, WriteAssign, AssignedTo, StockHasOwner
  <1>3. ASSUME NEW r \in SimRequests, WriteUnassign(r) \/ WriteRemove(r)
        PROVE  StockHasOwner'
    BY <1>3 DEF WriteUnassign, WriteRemove, StockHasOwner
  <1>4. ASSUME NEW r \in SimRequests, NEW s \in Sims,
               \/ \E u \in Users : ReadClaim(r, s, u) \/ ReadAssign(r, s, u)
               \/ ReadUnassign(r, s)
               \/ ReadRemove(r, s)
        PROVE  UNCHANGED sim
    BY <1>4 DEF ReadClaim, ReadAssign, ReadUnassign, ReadRemove, ReadSimRow
  <1> QED
    BY <1>1, <1>2, <1>3, <1>4 DEF SimNext, SimRequestNext, SimRefused, SimCrash, simVars

LEMMA NextSimInv == SimInv /\ [SimNext]_simVars => SimInv'
PROOF
  BY NextSimBase, NextStockHasOwner DEF SimInv

\* A SIM in store belongs to nobody and an assigned SIM to somebody, however claim,
\* assign, unassign and remove interleave and wherever they stop.
THEOREM SimStockHasOwner == SimSpec => []StockHasOwner
PROOF
  <1>1. SimInv => StockHasOwner
    BY DEF SimInv
  <1> QED
    BY InitSimInv, NextSimInv, <1>1, PTL DEF SimSpec
=============================================================================

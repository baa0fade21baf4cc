------------------------------ MODULE SimCards ------------------------------
(***************************************************************************)
(* Handing SIM cards to operators and back                                 *)
(* (backend/src/modules/sim-cards/sim-cards.service.ts).                   *)
(*                                                                         *)
(* claim, assign, unassign and remove read the SIM, check what they read   *)
(* and write in a later database step, unconditionally.  create and update *)
(* are in module Shipments: both refer to the shipment of the card.        *)
(***************************************************************************)
EXTENDS Registry

CONSTANT SimRequests        \* slots for SIM requests in flight

VARIABLE simReq             \* requests in flight: [SimRequests -> SimRequest]

simVars == <<meter, sim, simReq>>

\* at: the write the request is about to do.
SimRequest == [at : {"idle", "claim", "assign", "unassign", "remove"},
               sim : Sims \union {None},
               user : Users \union {None}]

IdleSim == [at |-> "idle", sim |-> None, user |-> None]

SimTypeOK ==
  /\ RegistryTypeOK
  /\ simReq \in [SimRequests -> SimRequest]

SimInit ==
  /\ RegistryInit
  /\ simReq = [r \in SimRequests |-> IdleSim]

-----------------------------------------------------------------------------
\* The row both claim and assign write, whatever the row is by then.
AssignedTo(u) == [status |-> "ASSIGNED", by |-> u]

\* claim goes on to its write only for a SIM in store; a SIM the operator
\* already has is answered as it is.
Claimable(s) == sim[s].status = "AVAILABLE"
AlreadyClaimed(s, u) == sim[s] = AssignedTo(u)

ReadSimRow(r, s, at, u) ==
  /\ simReq[r].at = "idle"
  /\ simReq' = [simReq EXCEPT ![r] = [at |-> at, sim |-> s, user |-> u]]
  /\ UNCHANGED <<meter, sim>>

ReadClaim(r, s, u) == Claimable(s) /\ ReadSimRow(r, s, "claim", u)

ReadAssign(r, s, u) ==
  /\ sim[s].status \in {"AVAILABLE", "ASSIGNED"}
  /\ ReadSimRow(r, s, "assign", u)

ReadUnassign(r, s) ==
  /\ sim[s].by # None
  /\ sim[s].status = "ASSIGNED"
  /\ ReadSimRow(r, s, "unassign", None)

\* Mutant of ReadRemove: a SIM that is in a meter may be deleted.
ReadRemoveAny(r, s) == sim[s].status # "DELETED" /\ ReadSimRow(r, s, "remove", None)

ReadRemove(r, s) ==
  /\ sim[s].status # "DELETED"
  /\ ~InMeter(s)
  /\ ReadSimRow(r, s, "remove", None)

SimDone(r) == simReq' = [simReq EXCEPT ![r] = IdleSim]

\* update of a row that is gone fails (P2025).
WriteClaim(r) ==
  LET q == simReq[r] IN
  /\ q.at = "claim"
  /\ sim[q.sim].status # "DELETED"
  /\ sim' = [sim EXCEPT ![q.sim] = AssignedTo(q.user)]
  /\ SimDone(r)
  /\ UNCHANGED meter

WriteAssign(r) ==
  LET q == simReq[r] IN
  /\ q.at = "assign"
  /\ sim[q.sim].status # "DELETED"
  /\ sim' = [sim EXCEPT ![q.sim] = AssignedTo(q.user)]
  /\ SimDone(r)
  /\ UNCHANGED meter

\* Mutant of WriteUnassign: the assignee is left.
UnassignKeepsOwner(r) ==
  LET q == simReq[r] IN
  /\ q.at = "unassign"
  /\ sim[q.sim].status # "DELETED"
  /\ sim' = [sim EXCEPT ![q.sim].status = "AVAILABLE"]
  /\ SimDone(r)
  /\ UNCHANGED meter

WriteUnassign(r) ==
  LET q == simReq[r] IN
  /\ q.at = "unassign"
  /\ sim[q.sim].status # "DELETED"
  /\ sim' = [sim EXCEPT ![q.sim] = [status |-> "AVAILABLE", by |-> None]]
  /\ SimDone(r)
  /\ UNCHANGED meter

\* remove, write: the foreign key of meters.simCardId is ON DELETE SET NULL, so
\* a meter the SIM has got into meanwhile loses the link and nothing else.
WriteRemove(r) ==
  LET q == simReq[r] IN
  /\ q.at = "remove"
  /\ sim[q.sim].status # "DELETED"
  /\ sim' = [sim EXCEPT ![q.sim] = [status |-> "DELETED", by |-> None]]
  /\ meter' = [m \in Meters |-> IF meter[m].sim = q.sim THEN [meter[m] EXCEPT !.sim = None]
                                ELSE meter[m]]
  /\ SimDone(r)

\* The row is gone: nothing is written.
SimRefused(r) ==
  /\ simReq[r].at # "idle"
  /\ sim[simReq[r].sim].status = "DELETED"
  /\ SimDone(r)
  /\ UNCHANGED <<meter, sim>>

\* The backend stops before the write.
SimCrash(r) ==
  /\ simReq[r].at # "idle"
  /\ SimDone(r)
  /\ UNCHANGED <<meter, sim>>

SimRequestNext(r) ==
  \/ \E s \in Sims :
       \/ \E u \in Users : ReadClaim(r, s, u) \/ ReadAssign(r, s, u)
       \/ ReadUnassign(r, s)
       \/ ReadRemove(r, s)
  \/ WriteClaim(r)
  \/ WriteAssign(r)
  \/ WriteUnassign(r)
  \/ WriteRemove(r)
  \/ SimRefused(r)
  \/ SimCrash(r)

SimNext == \E r \in SimRequests : SimRequestNext(r)

SimSpec == SimInit /\ [][SimNext]_simVars
=============================================================================

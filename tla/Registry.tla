------------------------------ MODULE Registry ------------------------------
(***************************************************************************)
(* The two tables every field operation of SIM Tracker works on: meters    *)
(* and sim_cards (backend/prisma/schema.prisma).  PostgreSQL is the only   *)
(* shared state of the backend: a Prisma call outside a $transaction is    *)
(* one atomic step, a $transaction is one atomic step, and whatever a      *)
(* handler read in an earlier step may be stale when it writes.            *)
(*                                                                         *)
(* A meter row keeps the columns the handlers branch on.  A sim row keeps  *)
(* its status and its assignee.  The SIM status "DELETED" stands for "no   *)
(* such row", not yet or no longer.                                        *)
(***************************************************************************)
EXTENDS Naturals, FiniteSets

CONSTANTS Meters,       \* ids of the rows of table meters
          Sims,         \* ids of the rows of table sim_cards
          NewSims,      \* those that have no row yet
          Users,        \* operators (UserRole.USER) a SIM or a task is given to
          None          \* SQL NULL, and the empty field of an idle request

ASSUME NoneAssumption == None \notin Meters \union Sims \union Users
ASSUME NewSimsAssumption == NewSims \subseteq Sims

VARIABLES meter,        \* table meters: [Meters -> MeterRow]
          sim           \* table sim_cards: [Sims -> SimRow]

registryVars == <<meter, sim>>

SimStatus == {"AVAILABLE", "ASSIGNED", "INSTALLED", "DEMOUNTED", "DEFECTIVE",
              "RETURNED", "DEACTIVATED", "DELETED"}

MeterStatus == {"ACTIVE", "DEFECTIVE", "IN_CALIBRATION", "INACTIVE"}

SimRow == [status : SimStatus, by : Users \union {None}]

MeterRow == [sim : Sims \union {None},              \* simCardId, a unique column
             state : {"INSTALLED", "NO_SIM"},       \* simCardState
             status : MeterStatus,
             offSite : BOOLEAN,                     \* isDemountedFromLocation
             openInstall : BOOLEAN,                 \* hasOpenInstallTask
             openDemount : BOOLEAN]                 \* hasOpenDemountTask

RegistryTypeOK ==
  /\ meter \in [Meters -> MeterRow]
  /\ sim \in [Sims -> SimRow]

(***************************************************************************)
(* A stock the system can be in before the run: some meters already carry  *)
(* a SIM, some of the others have been taken from their location; the      *)
(* other SIMs are in store or with an operator.                            *)
(***************************************************************************)
Stock(held, owner, away) ==
  /\ \A m \in away : held[m] = None
  /\ \A m, n \in Meters : held[m] = held[n] /\ held[m] # None => m = n
  /\ \A s \in NewSims : owner[s] = None /\ \A m \in Meters : held[m] # s
  /\ meter = [m \in Meters |->
                [sim |-> held[m],
                 state |-> IF held[m] = None THEN "NO_SIM" ELSE "INSTALLED",
                 status |-> "ACTIVE",
                 offSite |-> m \in away,
                 openInstall |-> FALSE,
                 openDemount |-> FALSE]]
  /\ sim = [s \in Sims |->
              [status |-> IF s \in NewSims THEN "DELETED"
                          ELSE IF \E m \in Meters : held[m] = s THEN "INSTALLED"
                          ELSE IF owner[s] = None THEN "AVAILABLE" ELSE "ASSIGNED",
               by |-> owner[s]]]

RegistryInit ==
  \E held \in [Meters -> Sims \union {None}], owner \in [Sims -> Users \union {None}],
     away \in SUBSET Meters : Stock(held, owner, away)

-----------------------------------------------------------------------------
(* What the handlers ask of the tables. *)

\* The SIM may be put into a meter by this operator: in store, or assigned to
\* the operator.
UsableBy(s, u) ==
  \/ sim[s].status = "AVAILABLE"
  \/ sim[s].status = "ASSIGNED" /\ sim[s].by = u /\ u # None

\* The relation SimCard.meter: some meter's simCardId is this SIM.
InMeter(s) == \E m \in Meters : meter[m].sim = s

\* Mutant of LinkAllowed: meters.sim_card_id without its unique index.
LinkUnchecked(m, s) == sim[s].status # "DELETED"

\* meters.sim_card_id may be set to s in row m: the foreign key finds the row
\* and the unique index finds no other meter with it.  Otherwise PostgreSQL
\* rolls the whole transaction back.
LinkAllowed(m, s) ==
  /\ sim[s].status # "DELETED"
  /\ \A n \in Meters \ {m} : meter[n].sim # s

-----------------------------------------------------------------------------
(* What the two tables owe each other. *)

\* No SIM is in two meters: every writer of meters.simCardId goes through the
\* unique index of schema.prisma.
OneMeterPerSim ==
  \A m, n \in Meters : meter[m].sim = meter[n].sim /\ meter[m].sim # None => m = n

\* A meter row's simCardState says whether its simCardId is set.
StateMatchesLink == \A m \in Meters : meter[m].state = "INSTALLED" <=> meter[m].sim # None

\* A SIM has status INSTALLED exactly when it sits in a meter.  The two
\* facts live in two tables that only the handlers keep together.
SimMeterAgreement == \A s \in Sims : sim[s].status = "INSTALLED" <=> InMeter(s)

\* A SIM in store belongs to nobody and an assigned SIM to somebody: claim, assign,
\* unassign and remove set both columns whatever the row has become since they read
\* it.  A card posted or patched with a status does not get an owner to go with it.
StockHasOwner ==
  \A s \in Sims : /\ sim[s].status = "AVAILABLE" => sim[s].by = None
                  /\ sim[s].status = "ASSIGNED" => sim[s].by # None
=============================================================================

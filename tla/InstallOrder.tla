---------------------------- MODULE InstallOrder ----------------------------
(***************************************************************************)
(* What an install work order promises, with no requests, locks or SIM     *)
(* statuses: a task is opened for a meter without a SIM, may be started,   *)
(* handed back, cancelled, and completed once; COMPLETED and CANCELLED are *)
(* final.  SIMs are put into meters and records are written at any time    *)
(* (the records screen needs no task), but a record says of its meter what *)
(* is true when it is written, and a task is completed with a record of    *)
(* its own: no other task has it, it names the task's meter and the SIM    *)
(* that sits there now.                                                    *)
(***************************************************************************)
CONSTANTS Tasks, Meters, Sims, Records, None

VARIABLES status,       \* [Tasks -> status of the task]
          place,        \* [Tasks -> the meter the task is for]
          paper,        \* [Tasks -> number of its record, 0 for none]
          link,         \* [Meters -> the SIM in the meter]
          written       \* the records there are: SUBSET Records

orderVars == <<status, place, paper, link, written>>

NoTwoMeters(f) == \A m, n \in Meters : f[m] = f[n] /\ f[m] # None => m = n

OrderInit ==
  /\ status = [t \in Tasks |-> "NONE"]
  /\ place = [t \in Tasks |-> None]
  /\ paper = [t \in Tasks |-> 0]
  /\ link \in [Meters -> Sims \union {None}]
  /\ NoTwoMeters(link)
  /\ written = {}

Open(t) ==
  /\ status[t] = "NONE"
  /\ status' = [status EXCEPT ![t] = "PENDING"]
  /\ \E m \in Meters : /\ link[m] = None
                       /\ place' = [place EXCEPT ![t] = m]
  /\ UNCHANGED <<paper, link, written>>

Move(t, from, to) ==
  /\ status[t] \in from
  /\ status' = [status EXCEPT ![t] = to]
  /\ UNCHANGED <<place, paper, link, written>>

PutIn(m, s) ==
  /\ link' = [link EXCEPT ![m] = s]
  /\ NoTwoMeters(link')
  /\ UNCHANGED <<status, place, paper, written>>

Write(rec) ==
  /\ \A old \in written : old.num # rec.num
  /\ link[rec.meter] = rec.sim
  /\ written' = written \union {rec}
  /\ UNCHANGED <<status, place, paper, link>>

Complete(t) ==
  /\ status[t] = "IN_PROGRESS"
  /\ status' = [status EXCEPT ![t] = "COMPLETED"]
  /\ \E rec \in written :
       /\ rec.meter = place[t]
       /\ rec.sim = link[place[t]]
       /\ \A u \in Tasks : paper[u] # rec.num
       /\ paper' = [paper EXCEPT ![t] = rec.num]
  /\ UNCHANGED <<place, link, written>>

OrderNext ==
  \/ \E t \in Tasks :
       \/ Open(t)
       \/ Move(t, {"PENDING"}, "IN_PROGRESS")
       \/ Move(t, {"IN_PROGRESS"}, "PENDING")
       \/ Move(t, {"PENDING", "IN_PROGRESS"}, "CANCELLED")
       \/ Complete(t)
  \/ \E m \in Meters, s \in Sims : PutIn(m, s)
  \/ \E rec \in Records : Write(rec)

OrderSpec == OrderInit /\ [][OrderNext]_orderVars
=============================================================================

------------------------------ MODULE WorkOrder ------------------------------
(***************************************************************************)
(* What a demount work order promises, with no requests, locks or SIM      *)
(* statuses: a task is opened for a meter, may be started, handed back,    *)
(* cancelled, and completed once; COMPLETED and CANCELLED are final; and   *)
(* the SIM of a meter changes only in the very step that completes a task  *)
(* in progress on that meter, for a SIM that sits in no other meter.       *)
(***************************************************************************)
CONSTANTS Tasks, Meters, Sims, None

VARIABLES status,       \* [Tasks -> status of the task]
          place,        \* [Tasks -> the meter the task is for]
          link          \* [Meters -> the SIM in the meter]

orderVars == <<status, place, link>>

NoTwoMeters(f) == \A m, n \in Meters : f[m] = f[n] /\ f[m] # None => m = n

OrderInit ==
  /\ status = [t \in Tasks |-> "NONE"]
  /\ place = [t \in Tasks |-> None]
  /\ link \in [Meters -> Sims \union {None}]
  /\ NoTwoMeters(link)

Open(t) ==
  /\ status[t] = "NONE"
  /\ status' = [status EXCEPT ![t] = "PENDING"]
  /\ \E m \in Meters : /\ link[m] # None
                       /\ place' = [place EXCEPT ![t] = m]
  /\ UNCHANGED link

Move(t, from, to) ==
  /\ status[t] \in from
  /\ status' = [status EXCEPT ![t] = to]
  /\ UNCHANGED <<place, link>>

Complete(t) ==
  /\ status[t] = "IN_PROGRESS"
  /\ status' = [status EXCEPT ![t] = "COMPLETED"]
  /\ link[place[t]] # None
  /\ \E s \in Sims \union {None} :
       /\ s # link[place[t]]
       /\ link' = [link EXCEPT ![place[t]] = s]
  /\ NoTwoMeters(link')
  /\ UNCHANGED place

OrderNext ==
  \E t \in Tasks :
    \/ Open(t)
    \/ Move(t, {"PENDING"}, "IN_PROGRESS")
    \/ Move(t, {"IN_PROGRESS"}, "PENDING")
    \/ Move(t, {"PENDING", "IN_PROGRESS"}, "CANCELLED")
    \/ Complete(t)

OrderSpec == OrderInit /\ [][OrderNext]_orderVars
=============================================================================

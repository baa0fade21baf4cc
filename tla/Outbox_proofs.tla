----------------------------- MODULE Outbox_proofs -----------------------------
(***************************************************************************)
(* The outbox, for any number of items and of overlapping synchronisations *)
(* and with the app closed anywhere.  Its types hold whatever the user     *)
(* does.  Nothing the user was told is saved gets lost as long as the user *)
(* adds and clears while nothing is being sent.  Items are carried out in  *)
(* the order they were saved in when also one call runs at a time.         *)
(*                                                                         *)
(* The argument: every copy of the file anybody holds contains all that is *)
(* saved and neither carried out nor thrown away, so a stale write can     *)
(* only bring items back.  With one call at a time the copies are the file *)
(* itself, and what is older than an item is handled or tried before it.   *)
(***************************************************************************)
EXTENDS Outbox, SequenceTheorems, TLAPS

\* A file in which nothing saved is missing.
Keeps(f) == \A i \in Range(created) : f[i] # Absent \/ i \in applied \/ i \in cleared

\* What a call of syncOutbox has read, and why it removes an item.
CallKeeps(s) ==
  /\ sync[s].snap # <<>> => sync[s].snap[1] \in File /\ Keeps(sync[s].snap[1])
  /\ sync[s].at = "sent" => Current(s) \in applied
  /\ sync[s].at = "idle" => sync[s].snap = <<>>

\* What enqueueOutboxItem has read.
AddKeeps == adding # <<>> => adding[1] \in Items /\ adding[2] \in File /\ Keeps(adding[2])

\* Only as much of the type as the argument needs: todo is any value.
SyncShape ==
  sync = [s \in Syncs |-> [at |-> sync[s].at, todo |-> sync[s].todo, snap |-> sync[s].snap]]

OutboxInv ==
  /\ file \in File
  /\ created \in Seq(Items)
  /\ SyncShape
  /\ adding # <<>> => NothingRuns
  /\ Keeps(file)
  /\ AddKeeps
  /\ \A s \in Syncs : CallKeeps(s)

-----------------------------------------------------------------------------
\* What is saved are items.
LEMMA CreatedAreItems ==
  ASSUME created \in Seq(Items)
  PROVE  \A i \in Range(created) : i \in Items
PROOF
  BY DEF Range

\* Adding an item adds it to what is saved and nothing else.
LEMMA RangeOfAppend ==
  ASSUME NEW c \in Seq(Items), NEW e \in Items
  PROVE  /\ Append(c, e) \in Seq(Items)
         /\ \A i \in Range(Append(c, e)) : i = e \/ i \in Range(c)
PROOF
  BY DEF Range

\* A copy that keeps everything goes on doing so while nothing is added: what is
\* carried out or thrown away stays so.
LEMMA KeepsOn ==
  ASSUME NEW f, Keeps(f), created' = created, applied \subseteq applied',
         cleared \subseteq cleared'
  PROVE  \A i \in Range(created') : f[i] # Absent \/ i \in applied' \/ i \in cleared'
PROOF
  BY DEF Keeps

\* The empty queue.
LEMMA InitOutboxInv == OutboxInit => OutboxInv
PROOF
  <1> SUFFICES ASSUME OutboxInit PROVE OutboxInv
    OBVIOUS
  <1>1. file \in File
    BY DEF OutboxInit, File, NoFile
  <1>2. created \in Seq(Items) /\ Range(created) = {}
    BY DEF OutboxInit, Range
  <1>3. SyncShape /\ \A s \in Syncs : CallKeeps(s)
    BY DEF OutboxInit, SyncShape, IdleSync, CallKeeps
  <1> QED
    BY <1>1, <1>2, <1>3 DEF OutboxInit, OutboxInv, Keeps, AddKeeps

-----------------------------------------------------------------------------
\* Every step of one call keeps the invariant, whatever other calls hold.
LEMMA SyncStepOutboxInv ==
  ASSUME OutboxInv, NEW s \in Syncs, SyncStep(s) \/ (adding = <<>> /\ StartSync(s))
  PROVE  OutboxInv'
PROOF
  <1> USE DEF OutboxInv
  <1>1. /\ created' = created /\ cleared' = cleared /\ adding' = adding
        /\ applied \subseteq applied'
        /\ \A t \in Syncs \ {s} : sync'[t] = sync[t]
        /\ sync[s].at = "idle" => adding = <<>>
    BY DEF SyncStep, StartSync, ReadForUpdate, WriteUpdate, CarriedOut, Refuse, TimedOut,
           NoConnection, AnswerLost, Answered, backendVars, SyncShape, Updating
  <1>2. adding' # <<>> => NothingRuns'
    BY <1>1 DEF NothingRuns
  <1>3. AddKeeps'
    BY <1>1, KeepsOn DEF AddKeeps, Keeps
  <1>4. ASSUME NEW t \in Syncs \ {s}
        PROVE  CallKeeps(t)'
    <2>1. sync'[t] = sync[t]
      BY <1>1
    <2> QED
      BY <1>1, <2>1, KeepsOn DEF CallKeeps, Keeps, Current
  <1>5. ASSUME file' = file, SyncShape', CallKeeps(s)'
        PROVE  OutboxInv'
    BY <1>1, <1>2, <1>3, <1>4, <1>5, KeepsOn DEF Keeps
  <1>6. CASE StartSync(s)
    <2>1. SyncShape' /\ file' = file
      BY <1>6 DEF StartSync, SyncShape
    <2>2. CallKeeps(s)'
      BY <1>6 DEF StartSync, CallKeeps, SyncShape
    <2> QED
      BY <1>5, <2>1, <2>2
  <1>7. CASE ReadForUpdate(s)
    <2>1. SyncShape' /\ file' = file /\ UNCHANGED backendVars
      BY <1>7 DEF ReadForUpdate, SyncShape
    <2>2. /\ sync'[s].snap = <<file>> /\ sync'[s].at = sync[s].at
          /\ sync'[s].todo = sync[s].todo /\ sync[s].at # "idle"
      BY <1>7 DEF ReadForUpdate, SyncShape, Updating
    <2>3. CallKeeps(s)'
      BY <1>1, <2>1, <2>2 DEF CallKeeps, Keeps, Current, backendVars
    <2> QED
      BY <1>5, <2>1, <2>3
  <1>8. ASSUME NEW at \in {"sent", "refused", "unreached"}, Answered(s, at),
               at = "sent" => Current(s) \in applied'
        PROVE  OutboxInv'
    <2>1. SyncShape' /\ file' = file
      BY <1>8 DEF Answered, SyncShape
    <2>2. /\ sync'[s].snap = sync[s].snap /\ sync'[s].at = at
          /\ sync'[s].todo = sync[s].todo
      BY <1>8 DEF Answered, SyncShape
    <2>3. CallKeeps(s)'
      BY <1>1, <1>8, <2>2, KeepsOn DEF CallKeeps, Keeps, Current
    <2> QED
      BY <1>5, <2>1, <2>3
  <1>9. CASE CarriedOut(s) \/ Refuse(s) \/ TimedOut(s) \/ NoConnection(s) \/ AnswerLost(s)
    BY <1>8, <1>9 DEF CarriedOut, Refuse, TimedOut, NoConnection, AnswerLost
  <1>10. CASE WriteUpdate(s)
    <2> DEFINE snap == sync[s].snap[1]
    <2>1. snap \in File /\ Keeps(snap) /\ UNCHANGED backendVars
      BY <1>10 DEF WriteUpdate, CallKeeps
    <2>2. Patch[sync[s].at] \in OutboxStatus \union {Absent}
          /\ (Patch[sync[s].at] = Absent => sync[s].at = "sent")
      BY <1>10 DEF WriteUpdate, Updating, Patch, OutboxStatus, Absent
    <2>3. file' \in File
      BY <1>10, <2>1, <2>2 DEF WriteUpdate, File
    <2>4. Keeps(file)'
      <3>1. CASE file' = file
        BY <1>1, <3>1, KeepsOn DEF Keeps
      <3>2. CASE file' = [snap EXCEPT ![Current(s)] = Patch[sync[s].at]]
        <4> SUFFICES ASSUME NEW i \in Range(created)
                     PROVE  file'[i] # Absent \/ i \in applied \/ i \in cleared
          BY <1>1, <2>1 DEF Keeps, backendVars
        <4>1. i \in Items
          BY CreatedAreItems
        <4>2. CASE i = Current(s)
          BY <2>1, <2>2, <3>2, <4>1, <4>2 DEF CallKeeps, File
        <4>3. CASE i # Current(s)
          BY <2>1, <3>2, <4>1, <4>3 DEF Keeps, File
        <4> QED
          BY <4>2, <4>3
      <3> QED
        BY <1>10, <3>1, <3>2 DEF WriteUpdate
    <2>5. /\ sync' = [sync EXCEPT ![s] = AfterUpdate(sync[s])]
          /\ sync'[s] = AfterUpdate(sync[s])
      BY <1>10 DEF WriteUpdate, SyncShape
    <2>6. /\ AfterUpdate(sync[s]) = [at |-> AfterUpdate(sync[s]).at,
                                     todo |-> AfterUpdate(sync[s]).todo, snap |-> <<>>]
          /\ AfterUpdate(sync[s]).at # "sent"
      BY <1>10 DEF AfterUpdate, IdleSync
    <2>7. SyncShape' /\ CallKeeps(s)'
      BY <2>5, <2>6 DEF SyncShape, CallKeeps
    <2> QED
      BY <1>1, <1>2, <1>3, <1>4, <2>3, <2>4, <2>7
  <1> QED
    BY <1>6, <1>7, <1>9, <1>10 DEF SyncStep

\* Every step keeps the invariant.
LEMMA NextOutboxInv == OutboxInv /\ [ApartNext]_outboxVars => OutboxInv'
PROOF
  <1> SUFFICES ASSUME OutboxInv, [ApartNext]_outboxVars PROVE OutboxInv'
    OBVIOUS
  <1> USE DEF OutboxInv
  <1>1. ASSUME created' = created, sync' = sync, applied \subseteq applied',
               cleared \subseteq cleared'
        PROVE  (\A s \in Syncs : CallKeeps(s)') /\ SyncShape'
               /\ (Keeps(file) => \A i \in Range(created') :
                                    file[i] # Absent \/ i \in applied' \/ i \in cleared')
    <2>1. SyncShape'
      BY <1>1 DEF SyncShape
    <2>2. \A s \in Syncs : CallKeeps(s)'
      BY <1>1, KeepsOn DEF CallKeeps, Keeps, Current
    <2> QED
      BY <1>1, <2>1, <2>2, KeepsOn
  <1>2. ASSUME NEW i \in Items, NothingRuns, ReadEnqueue(i)
        PROVE  OutboxInv'
    <2>1. /\ created' = created /\ sync' = sync /\ applied \subseteq applied'
          /\ cleared' = cleared /\ file' = file /\ adding' = <<i, file>>
      BY <1>2 DEF ReadEnqueue
    <2>2. AddKeeps' /\ Keeps(file)'
      BY <1>1, <2>1 DEF AddKeeps, Keeps
    <2> QED
      BY <1>1, <1>2, <2>1, <2>2 DEF NothingRuns
  <1>3. ASSUME NothingRuns, ClearOutbox
        PROVE  OutboxInv'
    <2>1. /\ created' = created /\ sync' = sync /\ UNCHANGED <<adding, applied>>
          /\ cleared' = cleared \union Queued /\ file' = NoFile
      BY <1>3 DEF ClearOutbox, backendVars
    <2>2. Keeps(file)' /\ file' \in File
      <3>1. \A i \in Range(created) : i \in applied \/ i \in cleared'
        BY <2>1, CreatedAreItems DEF Keeps, Queued
      <3> QED
        BY <2>1, <3>1 DEF Keeps, NoFile, File
    <2>3. AddKeeps'
      BY <2>1, KeepsOn DEF AddKeeps, Keeps
    <2> QED
      BY <1>1, <1>3, <2>1, <2>2, <2>3 DEF NothingRuns
  \* What is added is in the file that is written, and nobody else holds one.
  <1>4. ASSUME WriteEnqueue
        PROVE  OutboxInv'
    <2>1. /\ adding # <<>> /\ adding' = <<>> /\ sync' = sync /\ UNCHANGED <<applied, cleared>>
          /\ file' = [adding[2] EXCEPT ![adding[1]] = "PENDING"]
          /\ created' = Append(created, adding[1])
      BY <1>4 DEF WriteEnqueue, backendVars
    <2>2. adding[1] \in Items /\ adding[2] \in File /\ Keeps(adding[2]) /\ NothingRuns
      BY <2>1 DEF AddKeeps
    <2>3. file' \in File
      BY <2>1, <2>2 DEF File, OutboxStatus
    <2>4. created' \in Seq(Items) /\ \A i \in Range(created') : i = adding[1] \/ i \in Range(created)
      BY <2>1, <2>2, RangeOfAppend
    <2>5. Keeps(file)'
      BY <2>1, <2>2, <2>4, CreatedAreItems DEF Keeps, File, Absent
    <2>6. SyncShape' /\ AddKeeps'
      BY <2>1 DEF SyncShape, AddKeeps
    <2>7. \A s \in Syncs : CallKeeps(s)'
      BY <2>1, <2>2 DEF CallKeeps, NothingRuns
    <2> QED
      BY <2>1, <2>3, <2>4, <2>5, <2>6, <2>7
  <1>5. ASSUME AppClosed
        PROVE  OutboxInv'
    <2>1. SyncShape' /\ \A s \in Syncs : CallKeeps(s)'
      BY <1>5 DEF AppClosed, SyncShape, IdleSync, CallKeeps
    <2> QED
      BY <1>5, <2>1 DEF AppClosed, backendVars, Keeps, AddKeeps
  <1>6. ASSUME UNCHANGED outboxVars
        PROVE  OutboxInv'
    BY <1>1, <1>6 DEF outboxVars, Keeps, AddKeeps, NothingRuns
  <1> QED
    BY <1>2, <1>3, <1>4, <1>5, <1>6, SyncStepOutboxInv DEF ApartNext, UserStep

\* What the user was told is saved is in the file until the backend has carried it
\* out or the user throws it away, while synchronisations overlap and the app is
\* closed anywhere.
THEOREM OutboxNothingLost == ApartSpec => []NothingLost
PROOF
  <1>1. OutboxInv => NothingLost
    BY DEF OutboxInv, Keeps, NothingLost
  <1> QED
    BY InitOutboxInv, NextOutboxInv, <1>1, PTL DEF ApartSpec
-----------------------------------------------------------------------------
(* Types, in every interleaving.                                           *)

\* A call at work has items left to try, and an item is added once.
OutboxShape ==
  /\ OutboxTypeOK
  /\ \A s \in Syncs : sync[s].at # "idle" => sync[s].todo # <<>>
  /\ adding # <<>> => adding[1] \notin Range(created)

\* The first item of what a call tries, and the others.
LEMMA ListParts ==
  ASSUME NEW todo \in Lists, todo # <<>>
  PROVE  /\ todo \in Seq(Items) /\ Len(todo) \in 1 .. MaxItems
         /\ Head(todo) = todo[1] /\ Head(todo) \in Items
         /\ Tail(todo) \in Lists /\ (Len(todo) # 1 => Tail(todo) # <<>>)
PROOF
  <1>1. PICK n \in 0 .. MaxItems : todo \in [1 .. n -> Items]
    BY DEF Lists
  <1>2. /\ todo \in Seq(Items) /\ Len(todo) = n
        /\ n \in Nat /\ n <= MaxItems /\ MaxItems \in Nat
    BY <1>1, OutboxAssumption
  <1>3. n # 0
    BY <1>2, EmptySeq
  <1>4. /\ Tail(todo) \in Seq(Items) /\ Len(Tail(todo)) = n - 1 /\ Head(todo) = todo[1]
        /\ Head(todo) \in Items
    BY <1>2, HeadTailProperties
  <1>5. Tail(todo) \in [1 .. (n - 1) -> Items] /\ n - 1 \in 0 .. MaxItems
    <2>1. Tail(todo) \in [1 .. Len(Tail(todo)) -> Items]
      BY <1>4, LenProperties
    <2> QED
      BY <1>2, <1>3, <1>4, <2>1
  <1>6. Tail(todo) = <<>> => n = 1
    <2>1. Tail(todo) = <<>> => n - 1 = 0
      BY <1>4
    <2> QED
      BY <1>2, <2>1
  <1> QED
    BY <1>2, <1>3, <1>4, <1>5, <1>6 DEF Lists

\* An added item is a new one.
LEMMA AppendInjects ==
  ASSUME NEW c \in Seq(Items), IsInjective(c), NEW e \in Items, e \notin Range(c)
  PROVE  Append(c, e) \in Seq(Items) /\ IsInjective(Append(c, e))
PROOF
  <1>1. /\ Append(c, e) \in Seq(Items) /\ DOMAIN Append(c, e) = 1 .. Len(c) + 1
        /\ \A i \in 1 .. Len(c) : Append(c, e)[i] = c[i] /\ c[i] # e
        /\ Append(c, e)[Len(c) + 1] = e
    BY DEF Range
  <1> QED
    BY <1>1 DEF IsInjective

\* The call after its update.
LEMMA AfterUpdateTyped ==
  ASSUME NEW c \in Sync, c.at \in Updating, c.todo # <<>>
  PROVE  AfterUpdate(c) \in Sync /\ (AfterUpdate(c).at # "idle" => AfterUpdate(c).todo # <<>>)
PROOF
  <1>1. /\ c.todo \in Lists /\ Tail(c.todo) \in Lists /\ <<>> \in Lists
        /\ Len(c.todo) # 1 => Tail(c.todo) # <<>>
    <2>1. <<>> \in [1 .. 0 -> Items]
      OBVIOUS
    <2> QED
      BY <2>1, ListParts, OutboxAssumption DEF Sync, Lists
  <1> QED
    BY <1>1 DEF AfterUpdate, IdleSync, Sync, Updating

LEMMA InitOutboxShape == OutboxInit => OutboxShape
PROOF
  <1> SUFFICES ASSUME OutboxInit PROVE OutboxShape
    OBVIOUS
  <1>1. IdleSync \in Sync
    <2>1. <<>> \in [1 .. 0 -> Items]
      OBVIOUS
    <2> QED
      BY <2>1, OutboxAssumption DEF IdleSync, Sync, Lists
  <1>2. file \in File /\ created \in Seq(Items) /\ IsInjective(created)
    BY DEF OutboxInit, NoFile, File, IsInjective
  <1> QED
    BY <1>1, <1>2 DEF OutboxInit, OutboxShape, OutboxTypeOK, IdleSync

LEMMA NextOutboxShape == OutboxShape /\ [OutboxNext]_outboxVars => OutboxShape'
PROOF
  <1> SUFFICES ASSUME OutboxShape, [OutboxNext]_outboxVars PROVE OutboxShape'
    OBVIOUS
  <1>1. /\ file \in File /\ created \in Seq(Items) /\ IsInjective(created)
        /\ adding \in {<<>>} \union (Items \X File)
        /\ sync \in [Syncs -> Sync]
        /\ applied \subseteq Items /\ refused \subseteq Items /\ cleared \subseteq Items
        /\ \A s \in Syncs : sync[s].at # "idle" => sync[s].todo # <<>>
        /\ adding # <<>> => adding[1] \notin Range(created)
    BY DEF OutboxShape, OutboxTypeOK
  <1>2. IdleSync \in Sync /\ IdleSync.at = "idle"
    <2>1. <<>> \in [1 .. 0 -> Items]
      OBVIOUS
    <2> QED
      BY <2>1, OutboxAssumption DEF IdleSync, Sync, Lists
  <1>3. ASSUME NEW s \in Syncs, NEW c \in Sync, sync' = [sync EXCEPT ![s] = c],
               c.at # "idle" => c.todo # <<>>, UNCHANGED <<created, adding>>, file' \in File,
               applied' \subseteq Items, refused' \subseteq Items, cleared' = cleared
        PROVE  OutboxShape'
    BY <1>1, <1>3 DEF OutboxShape, OutboxTypeOK
  <1>4. CASE UserStep
    <2>1. CASE ClearOutbox
      <3>1. file' \in File /\ cleared' \subseteq Items
        BY <1>1, <2>1 DEF ClearOutbox, NoFile, File, Queued
      <3> QED
        BY <1>1, <2>1, <3>1 DEF ClearOutbox, backendVars, OutboxShape, OutboxTypeOK
    <2>2. ASSUME NEW i \in Items, ReadEnqueue(i) PROVE OutboxShape'
      BY <1>1, <2>2 DEF ReadEnqueue, OutboxShape, OutboxTypeOK
    <2> QED
      BY <1>4, <2>1, <2>2 DEF UserStep
  <1>5. CASE WriteEnqueue
    <2>1. adding[1] \in Items /\ adding[2] \in File /\ adding[1] \notin Range(created)
      BY <1>1, <1>5 DEF WriteEnqueue
    <2>2. file' \in File
      BY <1>5, <2>1 DEF WriteEnqueue, File, OutboxStatus
    <2>3. created' \in Seq(Items) /\ IsInjective(created')
      BY <1>1, <1>5, <2>1, AppendInjects DEF WriteEnqueue
    <2> QED
      BY <1>1, <1>5, <2>2, <2>3 DEF WriteEnqueue, backendVars, OutboxShape, OutboxTypeOK
  <1>6. CASE AppClosed
    BY <1>1, <1>2, <1>6 DEF AppClosed, backendVars, OutboxShape, OutboxTypeOK
  <1>7. ASSUME NEW s \in Syncs, StartSync(s) PROVE OutboxShape'
    <2>1. PICK todo \in Lists \ {<<>>} :
            sync' = [sync EXCEPT ![s] = [at |-> "mark", todo |-> todo, snap |-> <<>>]]
      BY <1>7 DEF StartSync
    <2>2. [at |-> "mark", todo |-> todo, snap |-> <<>>] \in Sync
      BY <2>1 DEF Sync, Updating
    <2> QED
      BY <1>1, <1>3, <1>7, <2>1, <2>2 DEF StartSync, backendVars
  <1>8. ASSUME NEW s \in Syncs, ReadForUpdate(s) PROVE OutboxShape'
    <2>1. PICK c : c = [sync[s] EXCEPT !.snap = <<file>>]
      OBVIOUS
    <2>2. c \in Sync /\ c.at = sync[s].at /\ c.todo = sync[s].todo
      BY <1>1, <2>1 DEF Sync
    <2> QED
      BY <1>1, <1>3, <1>8, <2>1, <2>2 DEF ReadForUpdate, backendVars
  <1>9. ASSUME NEW s \in Syncs, WriteUpdate(s) PROVE OutboxShape'
    <2>1. sync[s].at \in Updating /\ sync[s].todo # <<>> /\ sync[s].snap[1] \in File
      BY <1>1, <1>9 DEF WriteUpdate, Updating, Sync
    <2>2. Patch[sync[s].at] \in OutboxStatus \union {Absent}
      BY <2>1 DEF Updating, Patch, OutboxStatus
    <2>3. file' \in File
      BY <1>1, <1>9, <2>1, <2>2 DEF WriteUpdate, File
    <2>4. sync' = [sync EXCEPT ![s] = AfterUpdate(sync[s])]
      BY <1>1, <1>9 DEF WriteUpdate
    <2> QED
      BY <1>1, <1>3, <1>9, <2>1, <2>3, <2>4, AfterUpdateTyped DEF WriteUpdate, backendVars
  <1>10. ASSUME NEW s \in Syncs, NEW at \in {"sent", "refused", "unreached"}, Answered(s, at),
                applied' \subseteq applied \union {Current(s)},
                refused' \subseteq refused \union {Current(s)}
         PROVE  OutboxShape'
    <2>1. PICK c : c = [sync[s] EXCEPT !.at = at]
      OBVIOUS
    <2>2. c \in Sync /\ c.todo = sync[s].todo /\ sync[s].todo # <<>>
      BY <1>1, <1>10, <2>1 DEF Sync, Updating, Answered
    <2>3. Current(s) \in Items
      BY <1>1, <2>2, ListParts DEF Current, Sync
    <2> QED
      BY <1>1, <1>3, <1>10, <2>1, <2>2, <2>3 DEF Answered
  <1>11. ASSUME NEW s \in Syncs,
                CarriedOut(s) \/ Refuse(s) \/ TimedOut(s) \/ NoConnection(s) \/ AnswerLost(s)
         PROVE  OutboxShape'
    BY <1>10, <1>11 DEF CarriedOut, Refuse, TimedOut, NoConnection, AnswerLost, backendVars
  <1>12. CASE UNCHANGED outboxVars
    BY <1>1, <1>12 DEF outboxVars, OutboxShape, OutboxTypeOK
  <1> QED
    BY <1>4, <1>5, <1>6, <1>7, <1>8, <1>9, <1>11, <1>12 DEF OutboxNext, SyncStep

\* The file, the copies of it and what the calls try keep their types, with any number
\* of overlapping synchronisations and the app closed anywhere (OutboxItem in outbox.ts).
THEOREM OutboxTypes == OutboxSpec => []OutboxTypeOK
PROOF
  <1>1. OutboxShape => OutboxTypeOK
    BY DEF OutboxShape
  <1> QED
    BY <1>1, InitOutboxShape, NextOutboxShape, PTL DEF OutboxSpec

-----------------------------------------------------------------------------
(* Order, while one synchronisation at a time runs to its end.             *)

Handled == applied \union refused \union cleared

\* Whatever is older than an item a call tries is handled, or tried before it.
TriesInOrder(s) ==
  sync[s].at # "idle" =>
    \A p \in DOMAIN sync[s].todo : \A j, k \in DOMAIN created :
      j < k /\ created[k] = sync[s].todo[p] =>
        created[j] \in Handled \/ \E q \in 1 .. (p - 1) : sync[s].todo[q] = created[j]

\* Only the item a call is at may be marked as being sent.
OneIsSent ==
  \A i \in Items : file[i] = "SENDING" =>
    \E s \in Syncs : /\ sync[s].at \in {"send", "sent", "refused", "unreached"}
                     /\ Current(s) = i

\* What a call read of the file is still so, since nobody else writes it.
AloneInv ==
  /\ OutboxInv /\ OutboxShape
  /\ \A s, t \in Syncs : sync[s].at # "idle" /\ sync[t].at # "idle" => s = t
  /\ \A s \in Syncs : /\ TriesInOrder(s)
                      /\ sync[s].snap # <<>> => sync[s].snap[1] = file
                      /\ sync[s].at = "refused" => Current(s) \in refused
  /\ OneIsSent
  /\ adding # <<>> => \A i \in Items : adding[2][i] # "SENDING"
\* What a call has left keeps its order: what it was at is handled.
LEMMA RestInOrder ==
  ASSUME NEW s \in Syncs, TriesInOrder(s), sync[s].at # "idle", sync[s].todo \in Lists,
         Current(s) \in Handled, sync[s].todo # <<>>, NEW c \in {Tail(sync[s].todo)}
  PROVE  \A p \in DOMAIN c : \A j, k \in DOMAIN created :
           j < k /\ created[k] = c[p] =>
             created[j] \in Handled \/ \E q \in 1 .. (p - 1) : c[q] = created[j]
PROOF
  <1>1. PICK todo : todo = sync[s].todo /\ c = Tail(todo)
    OBVIOUS
  <1>2. todo \in Seq(Items) /\ todo # <<>> /\ Head(todo) = todo[1] /\ todo[1] \in Handled
    BY <1>1, ListParts DEF Current
  <1>3. /\ c \in Seq(Items) /\ Len(c) = Len(todo) - 1 /\ Len(todo) \in Nat
        /\ \A p \in 1 .. Len(c) : c[p] = todo[p + 1]
        /\ DOMAIN c = 1 .. Len(c) /\ DOMAIN todo = 1 .. Len(todo)
    BY <1>1, <1>2, HeadTailProperties, LenProperties
  <1> SUFFICES ASSUME NEW p \in 1 .. Len(c), NEW j \in DOMAIN created, NEW k \in DOMAIN created,
                      j < k, created[k] = c[p], created[j] \notin Handled
               PROVE  \E q \in 1 .. (p - 1) : c[q] = created[j]
    BY <1>3
  <1>4. p + 1 \in DOMAIN todo /\ created[k] = todo[p + 1]
    BY <1>3
  <1>5. PICK q \in 1 .. ((p + 1) - 1) : todo[q] = created[j]
    BY <1>1, <1>4 DEF TriesInOrder
  <1>6. q # 1
    BY <1>2, <1>5
  <1>7. q - 1 \in 1 .. (p - 1) /\ q - 1 \in 1 .. Len(c) /\ (q - 1) + 1 = q
    BY <1>3, <1>6
  <1> QED
    BY <1>3, <1>5, <1>7

LEMMA InitAloneInv == OutboxInit => AloneInv
PROOF
  BY InitOutboxInv, InitOutboxShape
     DEF OutboxInit, AloneInv, TriesInOrder, OneIsSent, IdleSync, NoFile, Absent

\* What is handled stays so, and what is saved stays in its order.
LEMMA StillInOrder ==
  ASSUME NEW s \in Syncs, TriesInOrder(s), sync'[s].at # "idle" => sync[s].at # "idle",
         sync'[s].todo = sync[s].todo, created' = created, Handled \subseteq Handled'
  PROVE  TriesInOrder(s)'
PROOF
  BY DEF TriesInOrder

LEMMA NextAloneInv == AloneInv /\ [AloneNext]_outboxVars => AloneInv'
PROOF
  <1> SUFFICES ASSUME AloneInv, [AloneNext]_outboxVars PROVE AloneInv'
    OBVIOUS
  <1>1. /\ OutboxInv /\ OutboxShape /\ file \in File /\ sync \in [Syncs -> Sync]
        /\ \A s, t \in Syncs : sync[s].at # "idle" /\ sync[t].at # "idle" => s = t
        /\ \A s \in Syncs : /\ TriesInOrder(s)
                            /\ sync[s].snap # <<>> => sync[s].snap[1] = file
                            /\ sync[s].at = "refused" => Current(s) \in refused
                            /\ sync[s].at = "idle" => sync[s].snap = <<>>
                            /\ sync[s].at = "sent" => Current(s) \in applied
                            /\ sync[s].at # "idle" => sync[s].todo # <<>>
        /\ OneIsSent
        /\ adding # <<>> => \A i \in Items : adding[2][i] # "SENDING"
        /\ adding # <<>> => NothingRuns
    BY DEF AloneInv, OutboxShape, OutboxTypeOK, OutboxInv, CallKeeps
  <1>2. OutboxInv' /\ OutboxShape'
    <2>1. [ApartNext]_outboxVars /\ [OutboxNext]_outboxVars
      BY DEF AloneNext, ApartNext, OutboxNext
    <2> QED
      BY <1>1, <2>1, NextOutboxInv, NextOutboxShape
  <1>3. \* While nothing runs nothing is being sent.
        ASSUME NothingRuns
        PROVE  /\ \A i \in Items : file[i] # "SENDING"
               /\ \A s \in Syncs : sync[s].at = "idle" /\ sync[s].snap = <<>>
    BY <1>1, <1>3 DEF NothingRuns, OneIsSent
  <1>4. ASSUME NothingRuns, UNCHANGED sync, \A i \in Items : file'[i] # "SENDING",
               adding' # <<>> => \A i \in Items : adding'[2][i] # "SENDING"
        PROVE  AloneInv'
    BY <1>2, <1>3, <1>4 DEF AloneInv, TriesInOrder, OneIsSent
  <1>5. CASE NothingRuns /\ UserStep
    <2>1. CASE ClearOutbox
      BY <1>1, <1>4, <1>5, <2>1 DEF ClearOutbox, NoFile, Absent
    <2>2. ASSUME NEW i \in Items, ReadEnqueue(i) PROVE AloneInv'
      BY <1>3, <1>4, <1>5, <2>2 DEF ReadEnqueue
    <2> QED
      BY <1>5, <2>1, <2>2 DEF UserStep
  <1>6. CASE WriteEnqueue
    <2>1. adding # <<>> /\ adding[1] \in Items /\ adding[2] \in File
      BY <1>1, <1>6 DEF WriteEnqueue, OutboxInv, AddKeeps
    <2>2. \A i \in Items : file'[i] # "SENDING"
      BY <1>1, <1>6, <2>1 DEF WriteEnqueue, File
    <2> QED
      BY <1>1, <1>4, <1>6, <2>1, <2>2 DEF WriteEnqueue
  <1>7. ASSUME NEW s \in Syncs, adding = <<>>, NothingRuns, StartSync(s)
        PROVE  AloneInv'
    <2>1. PICK todo \in Lists \ {<<>>} :
            /\ Candidates(todo)
            /\ sync' = [sync EXCEPT ![s] = [at |-> "mark", todo |-> todo, snap |-> <<>>]]
            /\ UNCHANGED <<file, created, adding, cleared, applied, refused>>
      BY <1>7 DEF StartSync, backendVars
    <2>2. sync'[s] = [at |-> "mark", todo |-> todo, snap |-> <<>>]
          /\ \A t \in Syncs \ {s} : sync'[t] = sync[t]
      BY <1>1, <2>1
    <2>3. TriesInOrder(s)'
      <3> SUFFICES ASSUME NEW p \in DOMAIN todo, NEW j \in DOMAIN created,
                          NEW k \in DOMAIN created, j < k, created[k] = todo[p],
                          created[j] \notin Handled
                   PROVE  \E q \in 1 .. (p - 1) : todo[q] = created[j]
        BY <2>1, <2>2 DEF TriesInOrder, Handled
      <3>1. created[j] \in Range(created) /\ created[j] \in Items /\ Older(created[j], todo[p])
        BY <1>1, CreatedAreItems DEF Range, Older, OutboxInv
      <3>2. file[created[j]] # Absent
        BY <1>1, <3>1 DEF OutboxInv, Keeps, Handled
      <3>3. created[j] \in Due
        BY <1>1, <1>3, <1>7, <3>1, <3>2 DEF Due, File, OutboxStatus
      <3> QED
        BY <2>1, <3>1, <3>3 DEF Candidates
    <2>4. \A t \in Syncs \ {s} : TriesInOrder(t)'
      BY <1>3, <1>7, <2>2 DEF TriesInOrder
    <2>5. OneIsSent'
      BY <1>3, <1>7, <2>1 DEF OneIsSent
    <2> QED
      BY <1>2, <1>3, <1>7, <2>1, <2>2, <2>3, <2>4, <2>5 DEF AloneInv
  <1>8. \* A call goes on, or ends, while the others are idle.
        ASSUME NEW s \in Syncs, NEW c, sync' = [sync EXCEPT ![s] = c], sync[s].at # "idle",
               created' = created, adding' = adding, Handled \subseteq Handled',
               TriesInOrder(s)', OneIsSent', c.snap # <<>> => c.snap[1] = file',
               c.at = "refused" => Head(c.todo) \in refused'
        PROVE  AloneInv'
    <2>1. sync'[s] = c /\ \A t \in Syncs \ {s} : sync'[t] = sync[t] /\ sync[t].at = "idle"
      BY <1>1, <1>8
    <2>2. adding = <<>>
      BY <1>1, <1>8 DEF NothingRuns
    <2>3. \A t \in Syncs \ {s} : TriesInOrder(t)'
      BY <2>1 DEF TriesInOrder
    <2>4. \A t \in Syncs \ {s} : sync'[t].snap = <<>>
      BY <1>1, <2>1
    <2> QED
      BY <1>2, <1>8, <2>1, <2>2, <2>3, <2>4 DEF AloneInv, Current
  <1>9. ASSUME NEW s \in Syncs, ReadForUpdate(s) PROVE AloneInv'
    <2>1. PICK c : c = [sync[s] EXCEPT !.snap = <<file>>]
      OBVIOUS
    <2>2. /\ c.at = sync[s].at /\ c.todo = sync[s].todo /\ c.snap = <<file>>
          /\ c.at # "idle" /\ sync' = [sync EXCEPT ![s] = c] /\ sync'[s] = c
          /\ UNCHANGED <<file, created, adding, cleared, applied, refused>>
      BY <1>1, <1>9, <2>1 DEF ReadForUpdate, Sync, Updating, backendVars
    <2>3. TriesInOrder(s)'
      BY <1>1, <2>2, StillInOrder DEF Handled
    <2>4. OneIsSent'
      BY <1>1, <2>2 DEF OneIsSent, Current
    <2>5. c.at = "refused" => Head(c.todo) \in refused'
      BY <1>1, <2>2 DEF Current
    <2>6. c.snap[1] = file' /\ Handled \subseteq Handled' /\ sync[s].at # "idle"
      BY <2>2 DEF Handled
    <2> QED
      BY <1>8, <2>2, <2>3, <2>4, <2>5, <2>6
  <1>10. ASSUME NEW s \in Syncs, NEW at \in {"sent", "refused", "unreached"}, Answered(s, at),
                applied \subseteq applied', refused \subseteq refused',
                at = "refused" => Current(s) \in refused'
         PROVE  AloneInv'
    <2>1. PICK c : c = [sync[s] EXCEPT !.at = at]
      OBVIOUS
    <2>2. /\ c.at = at /\ c.todo = sync[s].todo /\ c.snap = sync[s].snap
          /\ sync[s].at = "send" /\ sync' = [sync EXCEPT ![s] = c] /\ sync'[s] = c
          /\ UNCHANGED <<file, created, adding, cleared>>
      BY <1>1, <1>10, <2>1 DEF Answered, Sync
    <2>3. Handled \subseteq Handled'
      BY <1>10, <2>2 DEF Handled
    <2>4. TriesInOrder(s)'
      BY <1>1, <2>2, <2>3, StillInOrder
    <2>5. OneIsSent'
      BY <1>1, <2>2 DEF OneIsSent, Current
    <2> QED
      BY <1>1, <1>8, <1>10, <2>2, <2>3, <2>4, <2>5 DEF Current
  <1>11. ASSUME NEW s \in Syncs,
                CarriedOut(s) \/ Refuse(s) \/ TimedOut(s) \/ NoConnection(s) \/ AnswerLost(s)
         PROVE  AloneInv'
    BY <1>10, <1>11 DEF CarriedOut, Refuse, TimedOut, NoConnection, AnswerLost, backendVars
  <1>12. ASSUME NEW s \in Syncs, WriteUpdate(s) PROVE AloneInv'
    <2>1. PICK c, at, todo, now : /\ c = AfterUpdate(sync[s]) /\ at = sync[s].at
                                  /\ todo = sync[s].todo /\ now = Current(s)
      OBVIOUS
    <2>2. /\ sync' = [sync EXCEPT ![s] = c] /\ sync'[s] = c /\ at \in Updating
          /\ UNCHANGED <<created, adding, cleared, applied, refused>>
          /\ todo \in Lists \ {<<>>} /\ now \in Items /\ now = Head(todo)
      BY <1>1, <1>12, <2>1, ListParts DEF WriteUpdate, Updating, Current, Sync, backendVars
    <2>3. \/ file' = file /\ file[now] = Absent /\ at # "sent"
          \/ file' = [file EXCEPT ![now] = Patch[at]]
      BY <1>1, <1>12, <2>1 DEF WriteUpdate
    <2>4. \A i \in Items \ {now} : file'[i] # "SENDING"
      <3>1. \A i \in Items \ {now} : file'[i] = file[i]
        BY <1>1, <2>3 DEF File
      <3>2. \A t \in Syncs : sync[t].at # "idle" => t = s
        BY <1>1, <2>1, <2>2 DEF Updating
      <3> QED
        BY <1>1, <2>1, <3>1, <3>2 DEF OneIsSent
    <2>5. c.snap = <<>> /\ c.at # "refused"
      BY <2>1, <2>2 DEF AfterUpdate, IdleSync
    <2>6. CASE at = "mark"
      <3>1. c.at = "send" /\ c.todo = todo
        BY <2>1, <2>6 DEF AfterUpdate
      <3>2. TriesInOrder(s)'
        BY <1>1, <2>1, <2>2, <2>6, <3>1, StillInOrder DEF Handled
      <3>3. OneIsSent'
        BY <2>2, <2>4, <3>1 DEF OneIsSent, Current
      <3> QED
        BY <1>8, <2>1, <2>2, <2>5, <2>6, <3>2, <3>3 DEF Handled
    <2>7. CASE at # "mark"
      <3>1. OneIsSent'
        <4>1. file'[now] # "SENDING"
          BY <1>1, <2>2, <2>3, <2>7 DEF File, Patch, Updating, Absent
        <4> QED
          BY <2>4, <4>1 DEF OneIsSent
      <3>2. TriesInOrder(s)'
        <4>1. CASE c = IdleSync
          BY <2>2, <4>1 DEF TriesInOrder, IdleSync
        <4>2. CASE c # IdleSync
          <5>1. /\ at \in {"sent", "refused"} /\ c.todo = Tail(todo) /\ now \in Handled
            BY <1>1, <2>1, <2>2, <2>7, <4>2 DEF AfterUpdate, Updating, Handled
          <5>2. \A p \in DOMAIN c.todo : \A j, k \in DOMAIN created :
                  j < k /\ created[k] = c.todo[p] =>
                    created[j] \in Handled \/ \E q \in 1 .. (p - 1) : c.todo[q] = created[j]
            <6>1. PICK rest : rest = c.todo
              OBVIOUS
            <6>2. TriesInOrder(s) /\ sync[s].at # "idle"
              BY <1>1, <2>1, <2>2 DEF Updating
            <6>3. /\ sync[s].todo \in Lists /\ sync[s].todo # <<>>
                  /\ Current(s) \in Handled /\ rest \in {Tail(sync[s].todo)}
              BY <2>1, <2>2, <5>1, <6>1
            <6>4. \A p \in DOMAIN rest : \A j, k \in DOMAIN created :
                    j < k /\ created[k] = rest[p] =>
                      created[j] \in Handled \/ \E q \in 1 .. (p - 1) : rest[q] = created[j]
              BY <6>2, <6>3, RestInOrder, Zenon
            <6> QED
              BY <6>1, <6>4
          <5> QED
            BY <2>2, <5>2 DEF TriesInOrder, Handled
        <4> QED
          BY <4>1, <4>2
      <3> QED
        BY <1>8, <2>1, <2>2, <2>5, <3>1, <3>2 DEF Handled, Updating
    <2> QED
      BY <2>6, <2>7
  <1>13. CASE UNCHANGED outboxVars
    BY <1>1, <1>2, <1>13 DEF outboxVars, AloneInv, TriesInOrder, OneIsSent, Current, Handled
  <1> QED
    BY <1>5, <1>6, <1>7, <1>9, <1>11, <1>12, <1>13 DEF AloneNext, SyncStep

\* One synchronisation at a time, to its end: the backend carries the items out in the
\* order they were made, except for those it refuses.  The break on a network error is
\* what keeps an item from overtaking one that did not get through (syncOutbox).
THEOREM OutboxInOrder == AloneSpec => InOrder
PROOF
  <1> DEFINE Ordered == \A k \in DOMAIN created : created[k] \in applied' \ applied =>
                          \A j \in 1..(k - 1) :
                            created[j] \in applied \union refused \union cleared
  <1>1. AloneInv /\ [AloneNext]_outboxVars => [Ordered]_outboxVars
    <2> SUFFICES ASSUME AloneInv, [AloneNext]_outboxVars, NEW k \in DOMAIN created,
                        created[k] \in applied' \ applied, NEW j \in 1..(k - 1)
                 PROVE  created[j] \in Handled
      BY DEF Handled
    <2>1. /\ created \in Seq(Items) /\ sync \in [Syncs -> Sync]
          /\ \A s \in Syncs : TriesInOrder(s) /\ (sync[s].at # "idle" => sync[s].todo # <<>>)
      BY DEF AloneInv, OutboxShape, OutboxTypeOK
    <2>2. PICK s \in Syncs : sync[s].at = "send" /\ created[k] = Current(s)
      <3>1. ASSUME NEW i \in Items, ReadEnqueue(i) PROVE FALSE
        BY <2>1, <3>1 DEF ReadEnqueue, Range
      <3>2. ASSUME NEW s \in Syncs, ReadForUpdate(s) \/ WriteUpdate(s) \/ StartSync(s)
            PROVE  FALSE
        BY <3>2 DEF ReadForUpdate, WriteUpdate, StartSync, backendVars
      <3>3. ClearOutbox \/ WriteEnqueue \/ UNCHANGED outboxVars => FALSE
        BY DEF ClearOutbox, WriteEnqueue, outboxVars, backendVars
      <3>4. PICK s \in Syncs :
              CarriedOut(s) \/ Refuse(s) \/ TimedOut(s) \/ NoConnection(s) \/ AnswerLost(s)
        BY <3>1, <3>2, <3>3 DEF AloneNext, UserStep, SyncStep
      <3> QED
        BY <3>4 DEF CarriedOut, Refuse, TimedOut, NoConnection, AnswerLost, Answered, backendVars
    <2>3. /\ sync[s].todo \in Lists \ {<<>>} /\ j \in DOMAIN created /\ j < k
      BY <2>1, <2>2 DEF Sync
    <2>4. 1 \in DOMAIN sync[s].todo /\ created[k] = sync[s].todo[1]
      BY <2>2, <2>3, ListParts, OutboxAssumption DEF Current
    <2> QED
      BY <2>1, <2>2, <2>3, <2>4 DEF TriesInOrder
  <1>2. AloneSpec => [][Ordered]_outboxVars
    <2> HIDE DEF Ordered
    <2> QED
      BY <1>1, InitAloneInv, NextAloneInv, PTL DEF AloneSpec
  <1> QED
    BY <1>2 DEF InOrder
=============================================================================

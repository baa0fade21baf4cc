------------------------ MODULE SimInventory_proofs ------------------------
(***************************************************************************)
(* The phone's list of SIM cards, for any number of cards, of operators,   *)
(* of jobs of the phone and of requests of others, with the connection     *)
(* lost and found anywhere.  Its types hold, no card is in a list twice,   *)
(* and the cards keep status and owner together.                           *)
(*                                                                         *)
(* The argument: every list there is, the file and whatever a job has read *)
(* or is about to write, is made of rows the backend once answered, one    *)
(* for a card; the lemmas about Kept say what the filters leave of it.     *)
(***************************************************************************)
EXTENDS SimInventory, SimCards_proofs, FiniteSetTheorems, SequenceTheorems,
        WellFoundedInduction

\* A list of cards, none of them twice.
Lists == {l \in Seq(Entry) : Distinct(l)}

\* The cards of a list.
Listed(l) == {l[i].sim : i \in DOMAIN l}

\* Steps of a job that is about one card.
CardSteps == {"scan", "upsert", "claim", "claimWrite", "enqueue", "mark", "remove", "sendWrite"}

\* What a job carries from step to step.
Ready == {q \in Job : /\ q.copy \in Lists
                      /\ q.pos # 0
                      /\ q.at \in CardSteps => q.sim \in Sims
                      /\ q.at = "upsert" => q.row \in SimRow}

InventoryInv ==
  /\ SimInv
  /\ list \in Lists
  /\ queued \subseteq Sims
  /\ online \in BOOLEAN
  /\ job \in [Jobs -> Ready]

-----------------------------------------------------------------------------
(* Filters of lists. *)

\* f lists the numbers of I in their order, all of them.
Lines(f, I) ==
  /\ f \in [1 .. Cardinality(I) -> I]
  /\ \A p, q \in 1 .. Cardinality(I) : p < q => f[p] < f[q]
  /\ \A i \in I : \E p \in 1 .. Cardinality(I) : f[p] = i

LEMMA NumbersUpTo ==
  ASSUME NEW n \in Nat, NEW I \in SUBSET (1 .. n)
  PROVE  /\ IsFiniteSet(I) /\ Cardinality(I) \in Nat
         /\ \A i \in I : i \in Nat /\ 1 <= i /\ i <= n
PROOF
  <1>1. IsFiniteSet(1 .. n)
    <2>1. 1 \in Int /\ n \in Int
      OBVIOUS
    <2> QED
      BY <2>1, FS_Interval, Zenon
  <1>2. IsFiniteSet(I)
    BY <1>1, FS_Subset, Zenon
  <1>3. Cardinality(I) \in Nat
    BY <1>2, FS_CardinalityType, Zenon
  <1>4. \A i \in I : i \in 1 .. n
    OBVIOUS
  <1> QED
    BY <1>2, <1>3, <1>4

\* Numbers up to m can be put in order if those below m can.
LEMMA OneMore ==
  ASSUME NEW m \in Nat, NEW I \in SUBSET (1 .. m),
         m # 0 => \A K \in SUBSET (1 .. (m - 1)) : \E f : Lines(f, K)
  PROVE  \E f : Lines(f, I)
PROOF
  <1>1. CASE I = {}
    <2>1. Cardinality(I) = 0 /\ 1 .. 0 = {}
      BY <1>1, FS_EmptySet
    <2>2. [x \in {} |-> x] \in [{} -> {}]
      OBVIOUS
    <2>3. Lines([x \in {} |-> x], I)
      BY <1>1, <2>1, <2>2 DEF Lines
    <2> QED
      BY <2>3
  <1>2. CASE I # {} /\ m \notin I
    <2>1. \A i \in I : i \in Nat /\ 1 <= i /\ i <= m /\ i # m
      BY <1>2, NumbersUpTo
    <2>2. m # 0
      <3>1. PICK i \in I : TRUE
        BY <1>2
      <3> QED
        BY <2>1, <3>1
    <2>3. I \in SUBSET (1 .. (m - 1))
      BY <2>1, <2>2
    <2> QED
      BY <2>2, <2>3
  <1>3. CASE m \in I
    <2>1. PICK K : K = I \ {m}
      OBVIOUS
    <2>2. m # 0 /\ K \in SUBSET (1 .. (m - 1))
      BY <1>3, <2>1, NumbersUpTo
    <2>3. PICK f : Lines(f, K)
      BY <2>2
    <2>4. IsFiniteSet(I)
      BY NumbersUpTo
    <2>5. PICK c : c = Cardinality(K)
      OBVIOUS
    <2>6. c \in Nat /\ Cardinality(I) = c + 1
      <3>1. IsFiniteSet(K) /\ Cardinality(K) = Cardinality(I) - 1
        BY <1>3, <2>1, <2>4, FS_RemoveElement
      <3> QED
        BY <2>4, <2>5, <3>1, FS_CardinalityType
    <2>7. /\ f \in [1 .. c -> K]
          /\ \A p, q \in 1 .. c : p < q => f[p] < f[q]
          /\ \A i \in K : \E p \in 1 .. c : f[p] = i
      BY <2>3, <2>5 DEF Lines
    <2>8. PICK g : g = [p \in 1 .. (c + 1) |-> IF p = c + 1 THEN m ELSE f[p]]
      OBVIOUS
    <2>9. /\ g[c + 1] = m
          /\ \A p \in 1 .. c : g[p] = f[p] /\ f[p] \in K /\ f[p] < m
      <3>1. g[c + 1] = m
        BY <2>6, <2>8
      <3> SUFFICES ASSUME NEW p \in 1 .. c PROVE g[p] = f[p] /\ f[p] \in K /\ f[p] < m
        BY <3>1
      <3>2. p \in 1 .. (c + 1) /\ p # c + 1
        BY <2>6
      <3>3. f[p] \in K /\ g[p] = f[p]
        BY <2>7, <2>8, <3>2
      <3>4. f[p] \in 1 .. (m - 1)
        BY <2>2, <3>3
      <3> QED
        BY <3>3, <3>4
    <2>10. g \in [1 .. (c + 1) -> I]
      BY <1>3, <2>1, <2>6, <2>8, <2>9
    <2>11. \A p, q \in 1 .. (c + 1) : p < q => g[p] < g[q]
      <3> SUFFICES ASSUME NEW p \in 1 .. (c + 1), NEW q \in 1 .. (c + 1), p < q
                   PROVE  g[p] < g[q]
        OBVIOUS
      <3>1. p \in 1 .. c
        BY <2>6
      <3>2. CASE q = c + 1
        BY <2>9, <3>1, <3>2
      <3>3. CASE q \in 1 .. c
        BY <2>7, <2>9, <3>1, <3>3
      <3> QED
        BY <2>6, <3>2, <3>3
    <2>12. \A i \in I : \E p \in 1 .. (c + 1) : g[p] = i
      <3> SUFFICES ASSUME NEW i \in I PROVE \E p \in 1 .. (c + 1) : g[p] = i
        OBVIOUS
      <3>1. CASE i = m
        BY <2>6, <2>9, <3>1
      <3>2. CASE i \in K
        <4>1. PICK p \in 1 .. c : f[p] = i
          BY <2>7, <3>2
        <4>2. p \in 1 .. (c + 1) /\ g[p] = i
          BY <2>6, <2>9, <4>1
        <4> QED
          BY <4>2
      <3> QED
        BY <2>1, <3>1, <3>2
    <2>13. Lines(g, I)
      BY <2>6, <2>10, <2>11, <2>12 DEF Lines
    <2> QED
      BY <2>13
  <1> QED
    BY <1>1, <1>2, <1>3

\* Numbers up to n can be put in order: otherwise take the least n for which they cannot.
LEMMA InOrderOfLines ==
  ASSUME NEW n \in Nat, NEW I \in SUBSET (1 .. n)
  PROVE  Lines(InOrderOf(I), I)
PROOF
  <1> DEFINE Bad == {m \in Nat : \E K \in SUBSET (1 .. m) : ~\E f : Lines(f, K)}
  <1>1. Bad = {}
    <2> SUFFICES ASSUME Bad # {} PROVE FALSE
      OBVIOUS
    <2>1. PICK m \in Bad : \A k \in Bad : ~(<<k, m>> \in OpToRel(<, Nat))
      BY NatLessThanWellFounded, WFMin
    <2>2. m \in Nat /\ \A k \in Bad : ~(k < m)
      BY <2>1 DEF OpToRel
    <2>3. m # 0 => m - 1 \in Nat /\ m - 1 < m
      BY <2>2
    <2>4. m # 0 => m - 1 \notin Bad
      BY <2>2, <2>3
    <2>5. m # 0 => \A K \in SUBSET (1 .. (m - 1)) : \E f : Lines(f, K)
      BY <2>3, <2>4
    <2>6. \A K \in SUBSET (1 .. m) : \E f : Lines(f, K)
      BY <2>2, <2>5, OneMore
    <2> QED
      BY <2>1, <2>6
  <1>2. PICK f : Lines(f, I)
    BY <1>1
  <1>3. f \in [1 .. Cardinality(I) -> I] /\ \A p, q \in DOMAIN f : p < q => f[p] < f[q]
    BY <1>2 DEF Lines
  <1>4. PICK g : g = InOrderOf(I)
    OBVIOUS
  <1>5. g \in [1 .. Cardinality(I) -> I] /\ \A p, q \in DOMAIN g : p < q => g[p] < g[q]
    BY <1>3, <1>4 DEF InOrderOf
  <1>6. Cardinality(I) \in Nat /\ IsFiniteSet(I)
    BY NumbersUpTo
  <1>7. \A i \in I : \E p \in 1 .. Cardinality(I) : g[p] = i
    <2>1. g \in Injection(1 .. Cardinality(I), I)
      <3>1. \A p, q \in 1 .. Cardinality(I) : g[p] = g[q] => p = q
        <4> SUFFICES ASSUME NEW p \in 1 .. Cardinality(I), NEW q \in 1 .. Cardinality(I),
                            g[p] = g[q], p # q
                     PROVE  FALSE
          OBVIOUS
        <4>1. g[p] \in Nat /\ g[q] \in Nat
          BY <1>5, NumbersUpTo
        <4> QED
          BY <1>5, <1>6, <4>1
      <3> QED
        BY <1>5, <3>1 DEF Injection, IsInjective
    <2>2. Cardinality(1 .. Cardinality(I)) = Cardinality(I)
      BY <1>6, FS_Interval
    <2>3. g \in Surjection(1 .. Cardinality(I), I)
      BY <1>6, <2>1, <2>2, FS_Injection
    <2> QED
      BY <2>3 DEF Surjection
  <1> QED
    BY <1>4, <1>5, <1>7 DEF Lines

\* What a filter leaves: the other cards, none of them twice.
LEMMA KeptLists ==
  ASSUME NEW l \in Lists, NEW gone
  PROVE  /\ Kept(l, gone) \in Lists
         /\ Listed(Kept(l, gone)) = Listed(l) \ gone
PROOF
  <1>1. l \in Seq(Entry) /\ Distinct(l) /\ Len(l) \in Nat /\ DOMAIN l = 1 .. Len(l)
    BY DEF Lists
  <1>2. PICK I : I = {i \in DOMAIN l : l[i].sim \notin gone}
    OBVIOUS
  <1>3. PICK at : at = InOrderOf(I)
    OBVIOUS
  <1>4. I \in SUBSET (1 .. Len(l)) /\ Lines(at, I)
    BY <1>1, <1>2, <1>3, InOrderOfLines
  <1>5. PICK c : c = Cardinality(I)
    OBVIOUS
  <1>6. c \in Nat /\ \A i \in I : i \in Nat
    BY <1>1, <1>4, <1>5, NumbersUpTo
  <1>7. /\ at \in [1 .. c -> I]
        /\ \A p, q \in 1 .. c : p < q => at[p] < at[q]
        /\ \A i \in I : \E p \in 1 .. c : at[p] = i
    BY <1>4, <1>5 DEF Lines
  <1>8. PICK k : k = [p \in 1 .. c |-> l[at[p]]]
    OBVIOUS
  <1>9. Kept(l, gone) = k
    BY <1>2, <1>3, <1>7, <1>8 DEF Kept
  <1>10. ASSUME NEW p \in 1 .. c
        PROVE  at[p] \in I /\ at[p] \in 1 .. Len(l) /\ at[p] \in Nat /\ l[at[p]] \in Entry
    <2>1. at[p] \in I
      BY <1>7
    <2>2. at[p] \in 1 .. Len(l)
      BY <1>4, <2>1
    <2> QED
      BY <1>1, <1>6, <2>1, <2>2
  <1>11. k \in Seq(Entry) /\ DOMAIN k = 1 .. c
    <2>1. k \in [1 .. c -> Entry]
      BY <1>8, <1>10
    <2> QED
      BY <1>6, <2>1
  <1>12. Distinct(k)
    <2> SUFFICES ASSUME NEW p \in 1 .. c, NEW q \in 1 .. c, k[p].sim = k[q].sim, p # q
                 PROVE  FALSE
      BY <1>11 DEF Distinct
    <2>1. at[p] = at[q]
      BY <1>1, <1>8, <1>10 DEF Distinct
    <2>2. at[p] \in Nat /\ p \in Nat /\ q \in Nat
      BY <1>10
    <2> QED
      BY <1>7, <2>1, <2>2
  <1>13. Listed(k) \subseteq Listed(l) \ gone
    <2> SUFFICES ASSUME NEW p \in 1 .. c PROVE k[p].sim \in Listed(l) \ gone
      BY <1>11 DEF Listed
    <2> QED
      BY <1>1, <1>2, <1>8, <1>10 DEF Listed
  <1>14. Listed(l) \ gone \subseteq Listed(k)
    <2> SUFFICES ASSUME NEW i \in DOMAIN l, l[i].sim \notin gone PROVE l[i].sim \in Listed(k)
      BY DEF Listed
    <2>1. PICK p \in 1 .. c : at[p] = i
      BY <1>2, <1>7
    <2>2. k[p].sim = l[i].sim
      BY <1>8, <2>1
    <2> QED
      BY <1>11, <2>2 DEF Listed
  <1> QED
    BY <1>9, <1>11, <1>12, <1>13, <1>14 DEF Lists

\* upsert: the card is in front, and nowhere else.
LEMMA FrontedLists ==
  ASSUME NEW l \in Lists, NEW e \in Entry
  PROVE  Fronted(e, l) \in Lists
PROOF
  <1>1. PICK k : k = Without(e.sim, l)
    OBVIOUS
  <1>2. k \in Lists /\ e.sim \notin Listed(k)
    BY <1>1, KeptLists DEF Without
  <1>3. k \in Seq(Entry) /\ Distinct(k) /\ Len(k) \in Nat /\ DOMAIN k = 1 .. Len(k)
    BY <1>2 DEF Lists
  <1>4. PICK c : c = <<e>> \o k
    OBVIOUS
  <1>5. /\ c \in Seq(Entry) /\ Len(c) = Len(k) + 1 /\ DOMAIN c = 1 .. (Len(k) + 1)
        /\ c[1] = e /\ \A i \in 2 .. (Len(k) + 1) : c[i] = k[i - 1]
    BY <1>3, <1>4
  <1>6. Distinct(c)
    <2> SUFFICES ASSUME NEW i \in 1 .. (Len(k) + 1), NEW h \in 1 .. (Len(k) + 1),
                        c[i].sim = c[h].sim, i < h
                 PROVE  FALSE
      BY <1>3, <1>5 DEF Distinct
    <2>1. h - 1 \in 1 .. Len(k) /\ c[h] = k[h - 1]
      BY <1>3, <1>5
    <2>2. k[h - 1].sim \in Listed(k)
      BY <1>3, <2>1 DEF Listed
    <2>3. CASE i = 1
      BY <1>2, <1>5, <2>1, <2>2, <2>3
    <2>4. CASE i # 1
      <3>1. i - 1 \in 1 .. Len(k) /\ c[i] = k[i - 1]
        BY <1>3, <1>5, <2>4
      <3> QED
        BY <1>3, <2>1, <3>1 DEF Distinct
    <2> QED
      BY <2>3, <2>4
  <1> QED
    BY <1>1, <1>4, <1>5, <1>6 DEF Fronted, Lists

\* A list whose rows are replaced, card by card.
LEMMA RowsReplaced ==
  ASSUME NEW l \in Lists, NEW k, DOMAIN k = DOMAIN l, k = [i \in DOMAIN l |-> k[i]],
         \A i \in DOMAIN l : k[i] \in Entry /\ k[i].sim = l[i].sim
  PROVE  k \in Lists /\ Listed(k) = Listed(l)
PROOF
  <1>1. l \in Seq(Entry) /\ Distinct(l) /\ Len(l) \in Nat /\ DOMAIN l = 1 .. Len(l)
    BY DEF Lists
  <1>2. k \in [1 .. Len(l) -> Entry]
    BY <1>1
  <1>3. k \in Seq(Entry)
    BY <1>1, <1>2
  <1>4. Distinct(k)
    BY <1>1 DEF Distinct
  <1>5. Listed(k) = Listed(l)
    BY DEF Listed
  <1> QED
    BY <1>3, <1>4, <1>5 DEF Lists

\* The card that could not be claimed yet is shown as the operator's.
LEMMA MarkedLists ==
  ASSUME NEW l \in Lists, NEW s
  PROVE  Marked(s, l) \in Lists
PROOF
  <1>1. AssignedTo(Me) \in SimRow
    BY InventoryAssumption DEF AssignedTo, SimRow, SimStatus
  <1>2. \A i \in DOMAIN l : l[i] \in Entry
    BY DEF Lists
  <1>3. PICK k : k = Marked(s, l)
    OBVIOUS
  <1>4. /\ DOMAIN k = DOMAIN l /\ k = [i \in DOMAIN l |-> k[i]]
        /\ \A i \in DOMAIN l : k[i] \in Entry /\ k[i].sim = l[i].sim
    BY <1>1, <1>2, <1>3 DEF Marked, Entry
  <1> QED
    BY <1>3, <1>4, RowsReplaced

\* What a reconciliation writes is a list again.
LEMMA ReconciledLists ==
  ASSUME NEW l \in Lists, NEW seen \in SUBSET Entry
  PROVE  Reconciled(l, seen) \in Lists
PROOF
  <1>1. PICK gone, kept : /\ gone = {f.sim : f \in {g \in seen : ShouldRemove(g.row)}}
                          /\ kept = Kept(l, gone)
    OBVIOUS
  <1>2. kept \in Lists
    BY <1>1, KeptLists
  <1>3. PICK k : k = Reconciled(l, seen)
    OBVIOUS
  <1>4. k = [i \in DOMAIN kept |-> Fresh(kept[i], seen)]
    BY <1>1, <1>3 DEF Reconciled
  <1>5. \A i \in DOMAIN kept : kept[i] \in Entry
    BY <1>2 DEF Lists
  <1>6. \A e \in Entry : Fresh(e, seen) \in Entry /\ Fresh(e, seen).sim = e.sim
    BY DEF Fresh
  <1>7. k \in Lists
    BY <1>2, <1>4, <1>5, <1>6, RowsReplaced
  <1> QED
    BY <1>3, <1>7

-----------------------------------------------------------------------------
(* Types. *)

LEMMA EmptyList == <<>> \in Lists
PROOF
  BY DEF Lists, Distinct

LEMMA NoJobReady == NoJob \in Ready
PROOF
  <1>1. PICK c : c = <<>>
    OBVIOUS
  <1>2. c \in Lists /\ c \in Seq(Entry)
    BY <1>1, EmptyList DEF Lists
  <1>3. PICK q : q = [at |-> "idle", sim |-> None, row |-> None, copy |-> c, seen |-> {},
                      pos |-> 1, todo |-> {}, then |-> "stop"]
    OBVIOUS
  <1>4. q \in Job
    BY <1>2, <1>3 DEF Job
  <1>5. q \in Ready
    BY <1>2, <1>3, <1>4 DEF Ready, CardSteps
  <1>6. q = NoJob
    BY <1>1, <1>3 DEF NoJob
  <1> QED
    BY <1>5, <1>6

\* A job that has just begun.
LEMMA NewReady ==
  ASSUME NEW p \in Ready, NEW at \in {"scan", "claim", "remove", "read", "send"},
         NEW s \in Sims \union {None}, at \in CardSteps => s \in Sims,
         NEW todo \in SUBSET Sims, NEW then \in {"stop", "refresh", "sync"}
  PROVE  /\ [p EXCEPT !.at = at, !.sim = s, !.then = then] \in Ready
         /\ at \notin CardSteps => /\ [p EXCEPT !.at = at, !.then = then] \in Ready
                                   /\ [p EXCEPT !.at = at, !.todo = todo, !.then = then] \in Ready
PROOF
  BY DEF Ready, Job, CardSteps

LEMMA InitInventoryInv == InventoryInit => InventoryInv
PROOF
  BY InitSimInv, EmptyList, NoJobReady DEF InventoryInit, InventoryInv, SimInv

\* A job that takes its next step.
LEMMA JobSteps ==
  ASSUME InventoryInv, NEW j \in Jobs, NEW q \in Ready, job' = [job EXCEPT ![j] = q]
  PROVE  job' \in [Jobs -> Ready]
PROOF
  BY DEF InventoryInv

\* A job of the user begins.
LEMMA BeginReady ==
  ASSUME InventoryInv, NEW j \in Jobs, NEW s \in Sims \union {None},
         NEW at \in {"scan", "claim", "remove", "read"}, at # "read" => s \in Sims,
         NEW then \in {"stop", "refresh"}, Begin(j, at, s, then)
  PROVE  job' \in [Jobs -> Ready]
PROOF
  <1>1. PICK q : q = [NoJob EXCEPT !.at = at, !.sim = s, !.then = then]
    OBVIOUS
  <1>2. q \in Ready
    BY <1>1, NoJobReady, NewReady DEF CardSteps
  <1> QED
    BY <1>1, <1>2, JobSteps DEF Begin

\* A job goes on with what it has.
LEMMA GoesReady ==
  ASSUME InventoryInv, NEW j \in Jobs,
         NEW at \in {"claimWrite", "enqueue", "mark", "rewrite"},
         at # "rewrite" => job[j].sim \in Sims, Goes(j, at)
  PROVE  job' \in [Jobs -> Ready]
PROOF
  <1>1. PICK p : p = job[j]
    OBVIOUS
  <1>2. p \in Ready
    BY <1>1 DEF InventoryInv
  <1>3. PICK q : q = [p EXCEPT !.at = at]
    OBVIOUS
  <1>4. q \in Ready
    BY <1>1, <1>2, <1>3 DEF Ready, Job, CardSteps
  <1> QED
    BY <1>1, <1>3, <1>4, JobSteps DEF Goes

LEMMA AnsweredReady ==
  ASSUME InventoryInv, NEW j \in Jobs, NEW row \in SimRow, job[j].sim \in Sims,
         Answered(j, row)
  PROVE  job' \in [Jobs -> Ready]
PROOF
  <1>1. PICK p : p = job[j]
    OBVIOUS
  <1>2. p \in Ready
    BY <1>1 DEF InventoryInv
  <1>3. PICK q : q = [p EXCEPT !.at = "upsert", !.row = row]
    OBVIOUS
  <1>4. q \in Ready
    BY <1>1, <1>2, <1>3 DEF Ready, Job, CardSteps
  <1> QED
    BY <1>1, <1>3, <1>4, JobSteps DEF Answered

\* A reconciliation may follow.
LEMMA EndsReady ==
  ASSUME InventoryInv, NEW j \in Jobs, Ends(j)
  PROVE  job' \in [Jobs -> Ready]
PROOF
  <1>1. job[j].then \in {"stop", "refresh", "sync"}
    BY DEF InventoryInv, Ready, Job
  <1>2. PICK q : q = [NoJob EXCEPT !.at = "read", !.then = job[j].then]
    OBVIOUS
  <1>3. q \in Ready
    BY <1>1, <1>2, NoJobReady, NewReady DEF CardSteps
  <1>4. job' = [job EXCEPT ![j] = q] \/ job' = [job EXCEPT ![j] = NoJob]
    BY <1>2 DEF Ends
  <1> QED
    BY <1>3, <1>4, NoJobReady, JobSteps

\* A claim of a job runs in its slot as anybody's.
LEMMA ClaimSteps ==
  ASSUME InventoryInv, NEW j \in Jobs, NEW s \in Sims,
         ReadClaim(j, s, Me) \/ WriteClaim(j) \/ SimRefused(j)
  PROVE  SimInv'
PROOF
  <1>1. j \in SimRequests /\ Me \in Users
    BY InventoryAssumption
  <1>2. SimNext
    BY <1>1 DEF SimNext, SimRequestNext
  <1> QED
    BY <1>2, NextSimInv DEF InventoryInv

LEMMA TablesKept ==
  ASSUME InventoryInv, Tables
  PROVE  SimInv'
PROOF
  BY NextSimInv DEF InventoryInv, Tables

\* Scans, claims and removals.
LEMMA CardStepKeeps ==
  ASSUME InventoryInv, NEW j \in Jobs,
         \/ ScanAnswered(j) \/ ScanFails(j)
         \/ ClaimRead(j) \/ ClaimAnswered(j) \/ ClaimIsRefused(j) \/ ClaimWritten(j)
         \/ ClaimUnsent(j) \/ Enqueue(j)
         \/ ReadList(j) \/ WriteList(j)
  PROVE  InventoryInv'
PROOF
  <1> USE DEF Files
  <1>1. /\ SimInv /\ list \in Lists /\ queued \subseteq Sims /\ online \in BOOLEAN
        /\ sim \in [Sims -> SimRow]
        /\ job[j].at \in CardSteps => job[j].sim \in Sims
        /\ job[j].at = "upsert" => job[j].row \in SimRow
        /\ job[j].copy \in Lists /\ job[j] \in Ready
    BY DEF InventoryInv, Ready, SimInv, SimBase, SimTypeOK, RegistryTypeOK
  <1>2. AssignedTo(Me) \in SimRow
    BY InventoryAssumption DEF AssignedTo, SimRow, SimStatus
  <1>3. CASE ScanAnswered(j)
    <2>1. job' \in [Jobs -> Ready]
      BY <1>1, <1>3, AnsweredReady DEF ScanAnswered, CardSteps
    <2> QED
      BY <1>1, <1>3, <2>1, TablesKept DEF ScanAnswered, InventoryInv
  <1>4. CASE ScanFails(j)
    BY <1>1, <1>4, EndsReady, TablesKept DEF ScanFails, InventoryInv
  <1>5. CASE ClaimRead(j)
    <2>1. job[j].sim \in Sims /\ ReadClaim(j, job[j].sim, Me) /\ Goes(j, "claimWrite")
      BY <1>1, <1>5 DEF ClaimRead, CardSteps
    <2>2. SimInv' /\ job' \in [Jobs -> Ready]
      BY <2>1, ClaimSteps, GoesReady
    <2> QED
      BY <1>1, <1>5, <2>2 DEF ClaimRead, InventoryInv
  <1>6. CASE ClaimAnswered(j)
    <2>1. job' \in [Jobs -> Ready]
      BY <1>1, <1>2, <1>6, AnsweredReady DEF ClaimAnswered, CardSteps
    <2> QED
      BY <1>1, <1>6, <2>1, TablesKept DEF ClaimAnswered, InventoryInv
  <1>7. CASE ClaimIsRefused(j)
    <2>1. job[j].sim \in Sims /\ Ends(j) /\ (Tables \/ SimRefused(j))
      BY <1>1, <1>7 DEF ClaimIsRefused, CardSteps
    <2>2. SimInv' /\ job' \in [Jobs -> Ready]
      BY <2>1, ClaimSteps, TablesKept, EndsReady
    <2> QED
      BY <1>1, <1>7, <2>2 DEF ClaimIsRefused, InventoryInv
  <1>8. CASE ClaimWritten(j)
    <2>1. /\ job[j].sim \in Sims /\ WriteClaim(j)
          /\ Answered(j, AssignedTo(Me)) \/ Goes(j, "enqueue")
      BY <1>1, <1>8 DEF ClaimWritten, CardSteps
    <2>2. SimInv' /\ job' \in [Jobs -> Ready]
      BY <1>2, <2>1, ClaimSteps, AnsweredReady, GoesReady
    <2> QED
      BY <1>1, <1>8, <2>2 DEF ClaimWritten, InventoryInv
  <1>9. CASE ClaimUnsent(j)
    <2>1. job' \in [Jobs -> Ready]
      BY <1>1, <1>9, GoesReady DEF ClaimUnsent, CardSteps
    <2> QED
      BY <1>1, <1>9, <2>1, TablesKept DEF ClaimUnsent, InventoryInv
  <1>10. CASE Enqueue(j)
    <2>1. job[j].sim \in Sims
      BY <1>1, <1>10 DEF Enqueue, CardSteps
    <2>2. job' \in [Jobs -> Ready]
      BY <1>10, <2>1, GoesReady DEF Enqueue
    <2> QED
      BY <1>1, <1>10, <2>1, <2>2, TablesKept DEF Enqueue, InventoryInv
  <1>11. CASE ReadList(j)
    <2>1. job[j].at \in CardSteps
      BY <1>11 DEF ReadList, CardSteps
    <2>2. PICK next \in Lists : job' = [job EXCEPT ![j].at = "write", ![j].copy = next]
      <3>1. job[j].at = "upsert" =>
              Fronted([sim |-> job[j].sim, row |-> job[j].row], list) \in Lists
        BY <1>1, <2>1, FrontedLists DEF Entry
      <3>2. Marked(job[j].sim, list) \in Lists /\ Without(job[j].sim, list) \in Lists
        BY <1>1, MarkedLists, KeptLists DEF Without
      <3> QED
        BY <1>11, <3>1, <3>2 DEF ReadList
    <2>3. PICK p, q : p = job[j] /\ q = [p EXCEPT !.at = "write", !.copy = next]
      OBVIOUS
    <2>4. q \in Ready
      BY <1>1, <2>2, <2>3 DEF Ready, Job, CardSteps, Lists
    <2>5. job' = [job EXCEPT ![j] = q]
      BY <2>2, <2>3 DEF InventoryInv
    <2>6. job' \in [Jobs -> Ready]
      BY <2>4, <2>5, JobSteps
    <2> QED
      BY <1>1, <1>11, <2>6, TablesKept DEF ReadList, InventoryInv
  <1>12. CASE WriteList(j)
    BY <1>1, <1>12, EndsReady, TablesKept DEF WriteList, InventoryInv
  <1> QED
    BY <1>3, <1>4, <1>5, <1>6, <1>7, <1>8, <1>9, <1>10, <1>11, <1>12

\* What the user begins.
LEMMA UserStepKeeps ==
  ASSUME InventoryInv, NEW j \in Jobs, UserStep(j)
  PROVE  InventoryInv'
PROOF
  <1> USE DEF Files
  <1>1. /\ SimInv /\ list \in Lists /\ queued \subseteq Sims /\ online \in BOOLEAN
    BY DEF InventoryInv
  <1>2. ASSUME NEW s \in Sims,
               \/ \E then \in {"stop", "refresh"} : StartScan(j, s, then)
               \/ StartClaim(j, s)
               \/ StartRemove(j, s)
        PROVE  InventoryInv'
    <2>1. job' \in [Jobs -> Ready]
      BY <1>2, BeginReady DEF StartScan, StartClaim, StartRemove
    <2> QED
      BY <1>1, <1>2, <2>1, TablesKept DEF StartScan, StartClaim, StartRemove, InventoryInv
  <1>3. CASE ClearList(j)
    <2>1. PICK q : q = [NoJob EXCEPT !.at = "read", !.then = "refresh"]
      OBVIOUS
    <2>2. q \in Ready
      BY <2>1, NoJobReady, NewReady DEF CardSteps
    <2>3. job' = [job EXCEPT ![j] = q] \/ job' = [job EXCEPT ![j] = NoJob]
      BY <1>3, <2>1 DEF ClearList
    <2>4. job' \in [Jobs -> Ready]
      BY <2>2, <2>3, NoJobReady, JobSteps
    <2> QED
      BY <1>1, <1>3, <2>4, TablesKept, EmptyList DEF ClearList, InventoryInv
  <1>4. CASE StartReconcile(j)
    <2>1. job' \in [Jobs -> Ready]
      BY <1>4, BeginReady DEF StartReconcile
    <2> QED
      BY <1>1, <1>4, <2>1, TablesKept DEF StartReconcile, InventoryInv
  <1> QED
    BY <1>2, <1>3, <1>4 DEF UserStep

\* The queue is sent.
LEMMA SendStepKeeps ==
  ASSUME InventoryInv, NEW j \in Jobs,
         \/ \E s \in Sims : SendRead(j, s) \/ SendAnswered(j, s)
         \/ SendWritten(j) \/ SendIsRefused(j) \/ SendEnds(j)
  PROVE  InventoryInv'
PROOF
  <1> USE DEF Files
  <1>1. /\ SimInv /\ list \in Lists /\ queued \subseteq Sims /\ online \in BOOLEAN
        /\ job[j].at \in CardSteps => job[j].sim \in Sims
        /\ job[j].todo \subseteq Sims
    BY DEF InventoryInv, Ready, Job
  <1>2. PICK p : p = job[j]
    OBVIOUS
  <1>3. p \in Ready /\ job \in [Jobs -> Ready]
    BY <1>2 DEF InventoryInv
  <1>4. ASSUME NEW s \in Sims, SendRead(j, s)
        PROVE  InventoryInv'
    <2>1. PICK q : q = [p EXCEPT !.at = "sendWrite", !.todo = @ \ {s}, !.sim = s]
      OBVIOUS
    <2>2. q \in Ready
      BY <1>3, <2>1 DEF Ready, Job, CardSteps
    <2>3. job' = [job EXCEPT ![j] = q]
      BY <1>2, <1>3, <1>4, <2>1 DEF SendRead
    <2> QED
      BY <1>1, <1>4, <2>2, <2>3, JobSteps, ClaimSteps DEF SendRead, InventoryInv
  <1>5. ASSUME NEW s \in Sims, SendAnswered(j, s)
        PROVE  InventoryInv'
    <2>1. PICK q : q = [p EXCEPT !.todo = @ \ {s}]
      OBVIOUS
    <2>2. q \in Ready
      BY <1>3, <2>1 DEF Ready, Job, CardSteps
    <2>3. job' = [job EXCEPT ![j] = q]
      BY <1>2, <1>3, <1>5, <2>1 DEF SendAnswered
    <2> QED
      BY <1>1, <1>5, <2>2, <2>3, JobSteps, TablesKept DEF SendAnswered, InventoryInv
  <1>6. CASE SendWritten(j)
    <2>1. PICK q : q = [p EXCEPT !.at = "send", !.sim = None,
                                 !.todo = IF online THEN @ ELSE {}]
      OBVIOUS
    <2>2. q \in Ready
      BY <1>3, <2>1 DEF Ready, Job, CardSteps
    <2>3. job' = [job EXCEPT ![j] = q]
      BY <1>2, <1>3, <1>6, <2>1 DEF SendWritten
    <2>4. job[j].sim \in Sims /\ WriteClaim(j)
      BY <1>1, <1>6 DEF SendWritten, CardSteps
    <2>5. SimInv' /\ job' \in [Jobs -> Ready]
      BY <2>2, <2>3, <2>4, JobSteps, ClaimSteps
    <2> QED
      BY <1>1, <1>6, <2>5 DEF SendWritten, InventoryInv
  <1>7. CASE SendIsRefused(j)
    <2>1. PICK q : q = [p EXCEPT !.at = "send", !.sim = None]
      OBVIOUS
    <2>2. q \in Ready
      BY <1>3, <2>1 DEF Ready, Job, CardSteps
    <2>3. job' = [job EXCEPT ![j] = q]
      BY <1>2, <1>3, <1>7, <2>1 DEF SendIsRefused
    <2>4. job[j].sim \in Sims /\ SimRefused(j)
      BY <1>1, <1>7 DEF SendIsRefused, CardSteps
    <2>5. SimInv' /\ job' \in [Jobs -> Ready]
      BY <2>2, <2>3, <2>4, JobSteps, ClaimSteps
    <2> QED
      BY <1>1, <1>7, <2>5 DEF SendIsRefused, InventoryInv
  <1>8. CASE SendEnds(j)
    BY <1>1, <1>8, EndsReady, TablesKept DEF SendEnds, InventoryInv
  <1> QED
    BY <1>4, <1>5, <1>6, <1>7, <1>8

\* The reconciliation.
LEMMA ReconcileStepKeeps ==
  ASSUME InventoryInv, NEW j \in Jobs,
         ReadForReconcile(j) \/ AskRow(j) \/ AskEnds(j) \/ WriteReconciled(j)
  PROVE  InventoryInv'
PROOF
  <1> USE DEF Files
  <1>1. /\ SimInv /\ list \in Lists /\ queued \subseteq Sims /\ online \in BOOLEAN
        /\ sim \in [Sims -> SimRow]
    BY DEF InventoryInv, SimInv, SimBase, SimTypeOK, RegistryTypeOK
  <1>2. PICK p : p = job[j]
    OBVIOUS
  <1>3. /\ p \in Ready /\ job \in [Jobs -> Ready]
        /\ p.copy \in Lists /\ p.pos \in Nat \ {0} /\ p.seen \in SUBSET Entry
    BY <1>2 DEF InventoryInv, Ready, Job
  <1>4. CASE ReadForReconcile(j)
    <2>1. PICK q : q = [p EXCEPT !.at = "ask", !.copy = list]
      OBVIOUS
    <2>2. q \in Ready
      BY <1>1, <1>3, <2>1 DEF Ready, Job, CardSteps, Lists
    <2>3. job' = [job EXCEPT ![j] = q] \/ job' = [job EXCEPT ![j] = NoJob]
      BY <1>2, <1>3, <1>4, <2>1 DEF ReadForReconcile
    <2>4. job' \in [Jobs -> Ready]
      BY <2>2, <2>3, NoJobReady, JobSteps
    <2> QED
      BY <1>1, <1>4, <2>4, TablesKept DEF ReadForReconcile, InventoryInv
  <1>5. CASE AskRow(j)
    <2>1. Asked(j) \in Sims
      <3>1. p.pos \in DOMAIN p.copy /\ p.copy \in Seq(Entry)
        BY <1>2, <1>3, <1>5 DEF AskRow, AskedAll, Lists
      <3>2. p.copy[p.pos] \in Entry
        BY <3>1
      <3> QED
        BY <1>2, <3>2 DEF Asked, Entry
    <2>2. PICK seen \in SUBSET Entry :
            job' = [job EXCEPT ![j].pos = @ + 1, ![j].seen = seen]
      <3>1. [sim |-> Asked(j), row |-> sim[Asked(j)]] \in Entry
        BY <1>1, <2>1 DEF Entry
      <3>2. job[j].seen \in SUBSET Entry
        BY <1>2, <1>3
      <3> QED
        BY <1>5, <3>1, <3>2 DEF AskRow
    <2>3. PICK n, q : n = p.pos + 1 /\ q = [p EXCEPT !.pos = n, !.seen = seen]
      OBVIOUS
    <2>4. n \in Nat /\ n # 0
      BY <1>3, <2>3
    <2>5. q \in Ready
      BY <1>3, <2>3, <2>4 DEF Ready, Job, CardSteps
    <2>6. job' = [job EXCEPT ![j] = q]
      BY <1>2, <1>3, <2>2, <2>3
    <2>7. job' \in [Jobs -> Ready]
      BY <2>5, <2>6, JobSteps
    <2> QED
      BY <1>1, <1>5, <2>7, TablesKept DEF AskRow, InventoryInv
  <1>6. CASE AskEnds(j)
    BY <1>1, <1>6, GoesReady, TablesKept DEF AskEnds, InventoryInv
  <1>7. CASE WriteReconciled(j)
    <2>1. list' \in Lists
      BY <1>1, <1>2, <1>3, <1>7, ReconciledLists DEF WriteReconciled
    <2>2. job' \in [Jobs -> Ready]
      BY <1>7, NoJobReady, JobSteps DEF WriteReconciled
    <2> QED
      BY <1>1, <1>7, <2>1, <2>2, TablesKept DEF WriteReconciled, InventoryInv
  <1> QED
    BY <1>4, <1>5, <1>6, <1>7

LEMMA NextInventoryInv == InventoryInv /\ [InventoryNext]_inventoryVars => InventoryInv'
PROOF
  <1> SUFFICES ASSUME InventoryInv, [InventoryNext]_inventoryVars PROVE InventoryInv'
    OBVIOUS
  <1>1. /\ list \in Lists /\ queued \subseteq Sims /\ online \in BOOLEAN
        /\ job \in [Jobs -> Ready]
    BY DEF InventoryInv
  <1>2. ASSUME NEW j \in Jobs, JobStep(j) \/ UserStep(j)
        PROVE  InventoryInv'
    BY <1>2, CardStepKeeps, UserStepKeeps, SendStepKeeps, ReconcileStepKeeps DEF JobStep
  <1>3. CASE GoOffline
    BY <1>1, <1>3, TablesKept DEF GoOffline, InventoryInv
  <1>4. CASE GoOnline
    <2>1. ASSUME NEW j \in Jobs, NEW q,
                 q = [NoJob EXCEPT !.at = "send", !.todo = queued, !.then = "sync"],
                 job' = [job EXCEPT ![j] = q]
          PROVE  job' \in [Jobs -> Ready]
      <3>1. q \in Ready
        BY <1>1, <2>1, NoJobReady, NewReady DEF CardSteps
      <3> QED
        BY <2>1, <3>1, JobSteps
    <2>2. job' \in [Jobs -> Ready]
      BY <1>1, <1>4, <2>1 DEF GoOnline
    <2> QED
      BY <1>1, <1>4, <2>2, TablesKept DEF GoOnline, InventoryInv
  <1>5. ASSUME NEW r \in SimRequests \ Jobs, SimRequestNext(r), UNCHANGED phone
        PROVE  InventoryInv'
    <2>1. SimInv'
      BY <1>5, NextSimInv DEF SimNext, InventoryInv
    <2> QED
      BY <1>1, <1>5, <2>1 DEF phone, InventoryInv
  <1>6. CASE UNCHANGED inventoryVars
    BY <1>1, <1>6, TablesKept DEF inventoryVars, phone, Tables, InventoryInv
  <1> QED
    BY <1>2, <1>3, <1>4, <1>5, <1>6 DEF InventoryNext

THEOREM InventoryInvariant == InventorySpec => []InventoryInv
PROOF
  BY InitInventoryInv, NextInventoryInv, PTL DEF InventorySpec

\* The phone's list, and every copy of it a job has read or is about to write, holds
\* rows of the backend and no card twice, however jobs overwrite each other's lists
\* (offlineSimInventory in offline-cache.ts).
THEOREM PhoneTypes == InventorySpec => []PhoneTypeOK
PROOF
  <1>1. InventoryInv => PhoneTypeOK
    BY DEF InventoryInv, PhoneTypeOK, SimInv, SimBase, Lists, Ready
  <1> QED
    BY <1>1, InventoryInvariant, PTL

\* A SIM in store belongs to nobody and an assigned SIM to somebody, with the claims the
\* phone sends at once, sends late or sends twice among those that hand out SIMs
\* (claim in sim-cards.service.ts).
THEOREM InventoryStockHasOwner == InventorySpec => []StockHasOwner
PROOF
  <1>1. InventoryInv => StockHasOwner
    BY DEF InventoryInv, SimInv
  <1> QED
    BY <1>1, InventoryInvariant, PTL
=============================================================================

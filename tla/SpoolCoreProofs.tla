-------------------------- MODULE SpoolCoreProofs --------------------------
(***************************************************************************)
(* Proofs about the job store of Encore, for any number of ids, any        *)
(* filters and any sizes, whatever is called in whatever order.  The queue *)
(* is first shown to be a list whose every job is found by following the   *)
(* links; each call is then shown to be a step of one of a few kinds, and  *)
(* each kind to preserve the invariant, so that the proofs about a program *)
(* need only know the kinds.                                               *)
(***************************************************************************)
EXTENDS SpoolCore, FiniteSetTheorems, SequenceTheorems, WellFoundedInduction, TLAPS

USE MachineAssumption, SpoolCoreAssumption

-----------------------------------------------------------------------------
(* The ready queue as a list.                                              *)

\* The n jobs q[1], ..., q[n] are what qhead, qtail and qnext link together: each
\* once, and every job there is but the one the pump has taken.
ListIs(n, q) ==
  /\ \A i, k \in 1 .. n : q[i] = q[k] => i = k
  /\ \A p \in Ptr : (\E i \in 1 .. n : q[i] = p) <=> (job[p] # NULL /\ p # taken)
  /\ qhead = IF n = 0 THEN NULL ELSE q[1]
  /\ qtail = IF n = 0 THEN NULL ELSE q[n]
  /\ \A i \in 1 .. n : job[q[i]].qnext = IF i = n THEN NULL ELSE q[i + 1]

\* The list with p at its end, and the list without its element m.
Extended(n, q, p) == [k \in 1 .. n + 1 |-> IF k = n + 1 THEN p ELSE q[k]]
Without(n, q, m)  == [k \in 1 .. n - 1 |-> q[IF k < m THEN k ELSE k + 1]]

\* A set of numbers has a least one.
LEMMA LeastIs ==
  ASSUME NEW S \in SUBSET Nat, S # {}
  PROVE  \E i \in S : \A j \in S : i <= j
<1>1. PICK i \in S : \A j \in S : ~(<<j, i>> \in OpToRel(<, Nat))
  BY NatLessThanWellFounded, WFMin, Zenon
<1>2. \A j \in S : ~(j < i)
  BY <1>1, Zenon DEF OpToRel
<1> QED
  BY <1>2

\* A list of different jobs is no longer than there are addresses.
LEMMA ListBounded ==
  ASSUME NEW n \in Nat, NEW q \in [1 .. n -> Ptr], \A i, k \in 1 .. n : q[i] = q[k] => i = k
  PROVE  n <= Cardinality(Ptr) /\ Cardinality(Ptr) \in Nat /\ Cardinality(1 .. n) = n
<1>1. q \in Injection(1 .. n, Ptr)
  BY DEF Injection, IsInjective
<1>2. Cardinality(1 .. n) <= Cardinality(Ptr) /\ Cardinality(Ptr) \in Nat
  BY <1>1, FS_Injection, FS_CardinalityType
<1>3. Cardinality(1 .. n) = n
  <2>1. 1 \in Int /\ n \in Int
    OBVIOUS
  <2>2. Cardinality(1 .. n) = IF 1 > n THEN 0 ELSE n - 1 + 1
    BY <2>1, FS_Interval, Zenon
  <2> QED
    BY <2>2
<1> QED
  BY <1>2, <1>3

\* Following the links finds the list, and nothing else (unlink_queue).
LEMMA QueueIs ==
  \A n \in Nat : \A q \in [1 .. n -> Ptr] : ListIs(n, q) => Queue = q
<1> SUFFICES ASSUME NEW n \in Nat, NEW q \in [1 .. n -> Ptr], ListIs(n, q)
             PROVE  Queue = q
  OBVIOUS
<1> DEFINE w    == [i \in Walk |-> IF i <= n THEN q[i] ELSE NULL]
           E(f) == f = [i \in Walk |->
                          IF i = 1 THEN qhead
                          ELSE IF f[i-1] = NULL THEN NULL
                          ELSE IF job[f[i-1]] = NULL THEN NULL
                          ELSE job[f[i-1]].qnext]
<1>1. n <= Cardinality(Ptr) /\ Cardinality(Ptr) \in Nat /\ Cardinality(1 .. n) = n
  BY ListBounded DEF ListIs
<1>2. \A i \in 1 .. n : i \in Walk /\ q[i] \in Ptr /\ q[i] # NULL /\ job[q[i]] # NULL
  BY <1>1 DEF ListIs, Walk
<1>3. \A i \in Walk : i \in Nat /\ i >= 1 /\ (i # 1 => i - 1 \in Walk)
  BY <1>1 DEF Walk
<1>4. E(w)
  <2> SUFFICES ASSUME NEW i \in Walk
               PROVE  w[i] = IF i = 1 THEN qhead
                             ELSE IF w[i-1] = NULL THEN NULL
                             ELSE IF job[w[i-1]] = NULL THEN NULL
                             ELSE job[w[i-1]].qnext
    OBVIOUS
  <2>1. CASE i = 1
    BY <2>1, <1>3 DEF ListIs
  <2>2. CASE i # 1 /\ i - 1 > n
    BY <1>3, <2>2
  <2>3. CASE i # 1 /\ i - 1 <= n
    <3>1. i - 1 \in 1 .. n /\ w[i-1] = q[i-1] /\ (i - 1) + 1 = i
      BY <1>3, <2>3
    <3>2. job[q[i-1]].qnext = IF i - 1 = n THEN NULL ELSE q[i]
      BY <3>1 DEF ListIs
    <3>3. w[i-1] # NULL /\ job[w[i-1]] # NULL
      BY <1>2, <3>1
    <3>4. w[i] = IF i - 1 = n THEN NULL ELSE q[i]
      BY <1>3, <3>1
    <3> QED
      BY <2>3, <3>1, <3>2, <3>3, <3>4
  <2> QED
    BY <1>3, <2>1, <2>2, <2>3
<1>5. Follow = CHOOSE f : E(f)
  BY DEF Follow
<1>6. w = w
  OBVIOUS
<1> HIDE DEF E
<1>7. E(Follow)
  BY <1>4, <1>5, Zenon
<1>8. Follow = w
  <2> DEFINE D == {i \in Walk : Follow[i] # w[i]}
  <2>1. D = {}
    <3> SUFFICES ASSUME D # {} PROVE FALSE
      OBVIOUS
    <3>1. PICK i \in D : \A j \in D : i <= j
      <4>1. D \in SUBSET Nat
        BY <1>3
      <4> QED
        BY <4>1, LeastIs
    <3>2. i \in Walk /\ Follow[i] # w[i] /\ (i # 1 => Follow[i-1] = w[i-1])
      <4> HIDE DEF w
      <4>1. i \in Walk /\ Follow[i] # w[i]
        BY <3>1
      <4>2. ASSUME i # 1, Follow[i-1] # w[i-1] PROVE FALSE
        <5>1. i - 1 \in D /\ i \in Nat
          BY <1>3, <4>1, <4>2
        <5> HIDE DEF D
        <5> QED
          BY <3>1, <5>1
      <4> QED
        BY <4>1, <4>2
    <3>3. /\ Follow[i] = IF i = 1 THEN qhead
                         ELSE IF Follow[i-1] = NULL THEN NULL
                         ELSE IF job[Follow[i-1]] = NULL THEN NULL
                         ELSE job[Follow[i-1]].qnext
          /\ w[i] = IF i = 1 THEN qhead
                    ELSE IF w[i-1] = NULL THEN NULL
                    ELSE IF job[w[i-1]] = NULL THEN NULL
                    ELSE job[w[i-1]].qnext
      <4> HIDE DEF w
      <4> QED
        BY <1>4, <1>7, <3>2 DEF E
    <3> QED
      BY <3>2, <3>3
  <2>2. \A i \in Walk : Follow[i] = w[i]
    BY <2>1
  <2>3. Follow = [i \in Walk |-> Follow[i]]
    BY <1>7 DEF E
  <2> QED
    BY <2>2, <2>3
<1>9. {k \in Walk : Follow[k] # NULL} = 1 .. n
  <2>1. \A k \in Walk : Follow[k] # NULL <=> k \in 1 .. n
    <3> SUFFICES ASSUME NEW k \in Walk PROVE Follow[k] # NULL <=> k \in 1 .. n
      OBVIOUS
    <3>1. Follow[k] = IF k <= n THEN q[k] ELSE NULL
      BY <1>8
    <3> QED
      BY <1>2, <1>3, <3>1
  <2> QED
    BY <1>2, <2>1
<1>10. Queue = [i \in 1 .. n |-> Follow[i]]
  BY <1>1, <1>9 DEF Queue
<1>11. \A i \in 1 .. n : Follow[i] = q[i]
  BY <1>2, <1>8
<1>12. q = [i \in 1 .. n |-> q[i]]
  OBVIOUS
<1> HIDE DEF w
<1> QED
  BY <1>10, <1>11, <1>12

\* The same of the state after a step.
LEMMA QueueIsNext ==
  \A n \in Nat : \A q \in [1 .. n -> Ptr] : ListIs(n, q)' => Queue' = q
<1>1. (\A n \in Nat : \A q \in [1 .. n -> Ptr] : ListIs(n, q) => Queue = q)'
  BY QueueIs, PTL
<1> QED
  BY <1>1

\* The list stays what it is while nothing it depends on changes.
LEMMA ListKept ==
  ASSUME NEW n \in Nat, NEW q \in [1 .. n -> Ptr], ListIs(n, q),
         UNCHANGED <<qhead, qtail>>,
         \A p \in Ptr : (job'[p] # NULL /\ p # taken') <=> (job[p] # NULL /\ p # taken),
         \A p \in Ptr : job[p] # NULL /\ p # taken => job'[p].qnext = job[p].qnext
  PROVE  ListIs(n, q)'
<1>1. \A i \in 1 .. n : q[i] \in Ptr /\ job'[q[i]].qnext = job[q[i]].qnext
  BY DEF ListIs
<1> QED
  BY <1>1 DEF ListIs

\* A job put behind qtail comes last (enqueue).
LEMMA ListExtended ==
  ASSUME SpoolTypeOK, NEW n \in Nat, NEW q \in [1 .. n -> Ptr], ListIs(n, q),
         NEW p \in Ptr, job[p] = NULL, p # taken, NEW j \in Job, j.qnext = NULL,
         enqueue(p, j), UNCHANGED taken
  PROVE  Extended(n, q, p) \in [1 .. n + 1 -> Ptr] /\ ListIs(n + 1, Extended(n, q, p))'
<1> DEFINE r == Extended(n, q, p)
<1>1. r \in [1 .. n + 1 -> Ptr]
  BY DEF Extended
<1>2. r[n + 1] = p /\ \A k \in 1 .. n : r[k] = q[k] /\ k \in 1 .. n + 1 /\ k # n + 1
  BY DEF Extended
<1>3. \A k \in 1 .. n + 1 : k = n + 1 \/ k \in 1 .. n
  OBVIOUS
<1>4. \A k \in 1 .. n : q[k] \in Ptr /\ q[k] # p /\ job[q[k]] # NULL /\ q[k] # taken
  BY DEF ListIs
<1> HIDE DEF r
<1>5. j # NULL /\ job'[p] = j
  <2>1. qtail # NULL => qtail # p
    BY <1>4 DEF ListIs
  <2> QED
    BY <2>1 DEF enqueue, SpoolTypeOK
<1>6. /\ \A x \in Ptr : x # p => (job'[x] = NULL <=> job[x] = NULL)
      /\ \A k \in 1 .. n : job'[q[k]].qnext = IF k = n THEN p ELSE job[q[k]].qnext
  <2>1. CASE n = 0
    BY <2>1 DEF enqueue, SpoolTypeOK, ListIs
  <2>2. CASE n # 0
    <3>1. qtail = q[n] /\ n \in 1 .. n /\ qtail # NULL /\ job[qtail] # NULL /\ qtail # p /\ qtail \in Ptr
      BY <1>4, <2>2 DEF ListIs
    <3>2. job' = [job EXCEPT ![p] = j, ![qtail].qnext = p]
      BY <3>1 DEF enqueue
    <3>3. job[qtail] \in Job
      BY <3>1 DEF SpoolTypeOK
    <3>4. /\ job'[qtail] = [job[qtail] EXCEPT !.qnext = p]
          /\ \A x \in Ptr : x # p /\ x # qtail => job'[x] = job[x]
      BY <3>1, <3>2 DEF SpoolTypeOK
    <3>5. job'[qtail].qnext = p /\ job'[qtail] \in Job
      BY <3>3, <3>4 DEF Job, Link
    <3>6. job'[qtail] # NULL
      BY <3>5
    <3>7. \A k \in 1 .. n : k # n => q[k] # qtail
      BY <3>1 DEF ListIs
    <3> QED
      BY <1>4, <3>1, <3>4, <3>5, <3>6, <3>7
  <2> QED
    BY <2>1, <2>2
<1>7. \A i, k \in 1 .. n + 1 : r[i] = r[k] => i = k
  <2> SUFFICES ASSUME NEW i \in 1 .. n + 1, NEW k \in 1 .. n + 1, r[i] = r[k]
               PROVE  i = k
    OBVIOUS
  <2>1. CASE i \in 1 .. n /\ k \in 1 .. n
    BY <1>2, <2>1 DEF ListIs
  <2>2. CASE i = n + 1 \/ k = n + 1
    BY <1>2, <1>3, <1>4, <2>2
  <2> QED
    BY <1>3, <2>1, <2>2
<1>8. \A x \in Ptr : (\E i \in 1 .. n + 1 : r[i] = x) <=> (job'[x] # NULL /\ x # taken')
  <2> SUFFICES ASSUME NEW x \in Ptr
               PROVE  (\E i \in 1 .. n + 1 : r[i] = x) <=> (job'[x] # NULL /\ x # taken)
    OBVIOUS
  <2>1. CASE x = p
    <3>1. n + 1 \in 1 .. n + 1
      OBVIOUS
    <3> QED
      BY <1>2, <1>5, <2>1, <3>1
  <2>2. CASE x # p
    <3>1. (\E i \in 1 .. n + 1 : r[i] = x) <=> \E i \in 1 .. n : q[i] = x
      BY <1>2, <1>3, <2>2
    <3> QED
      BY <1>6, <2>2, <3>1 DEF ListIs
  <2> QED
    BY <2>1, <2>2
<1>9. /\ qhead' = IF n + 1 = 0 THEN NULL ELSE r[1]
      /\ qtail' = IF n + 1 = 0 THEN NULL ELSE r[n + 1]
  <2>1. CASE n = 0
    BY <1>2, <2>1 DEF enqueue, ListIs
  <2>2. CASE n # 0
    <3>1. qtail # NULL /\ 1 \in 1 .. n
      BY <1>4, <2>2 DEF ListIs
    <3> QED
      BY <1>2, <2>2, <3>1 DEF enqueue, ListIs
  <2> QED
    BY <2>1, <2>2
<1>10. \A i \in 1 .. n + 1 : job'[r[i]].qnext = IF i = n + 1 THEN NULL ELSE r[i + 1]
  <2> SUFFICES ASSUME NEW i \in 1 .. n + 1
               PROVE  job'[r[i]].qnext = IF i = n + 1 THEN NULL ELSE r[i + 1]
    OBVIOUS
  <2>1. CASE i = n + 1
    BY <1>2, <1>5, <2>1
  <2>2. CASE i = n /\ i # n + 1
    BY <1>2, <1>3, <1>6, <2>2
  <2>3. CASE i # n /\ i # n + 1
    <3>1. i \in 1 .. n /\ i + 1 \in 1 .. n
      BY <2>3
    <3>2. job[q[i]].qnext = q[i + 1]
      BY <2>3, <3>1 DEF ListIs
    <3> QED
      BY <1>2, <1>6, <2>3, <3>1, <3>2
  <2> QED
    BY <2>1, <2>2, <2>3
<1> QED
  BY <1>1, <1>7, <1>8, <1>9, <1>10 DEF ListIs, r

\* The element m gone, its predecessor points to its successor, and qhead and qtail
\* move if it was at an end (unlink_queue, JobDequeue).
LEMMA ListWithout ==
  ASSUME NEW n \in Nat, NEW q \in [1 .. n -> Ptr], ListIs(n, q), NEW m \in 1 .. n,
         \A i \in 1 .. n : i # m =>
           job'[q[i]].qnext = IF i = m - 1 THEN job[q[m]].qnext ELSE job[q[i]].qnext,
         \A p \in Ptr : (job'[p] # NULL /\ p # taken') <=>
                        (job[p] # NULL /\ p # taken /\ p # q[m]),
         qhead' = IF m = 1 THEN job[q[m]].qnext ELSE qhead,
         qtail' = IF qtail = q[m] THEN (IF m = 1 THEN NULL ELSE q[m - 1]) ELSE qtail
  PROVE  Without(n, q, m) \in [1 .. n - 1 -> Ptr] /\ ListIs(n - 1, Without(n, q, m))'
<1> DEFINE r     == Without(n, q, m)
           at(k) == IF k < m THEN k ELSE k + 1
<1>1. \A k \in 1 .. n - 1 : at(k) \in 1 .. n /\ at(k) # m /\ r[k] = q[at(k)]
  BY DEF Without
<1>2. r \in [1 .. n - 1 -> Ptr]
  BY DEF Without
<1>3. \A i \in 1 .. n : i # m => \E k \in 1 .. n - 1 : at(k) = i
  <2> SUFFICES ASSUME NEW i \in 1 .. n, i # m PROVE \E k \in 1 .. n - 1 : at(k) = i
    OBVIOUS
  <2>1. CASE i < m
    BY <2>1
  <2>2. CASE m < i
    <3>1. i - 1 \in 1 .. n - 1 /\ at(i - 1) = i
      BY <2>2
    <3> QED
      BY <3>1
  <2> QED
    BY <2>1, <2>2
<1> HIDE DEF r
<1>4. \A i, k \in 1 .. n - 1 : r[i] = r[k] => i = k
  <2> SUFFICES ASSUME NEW i \in 1 .. n - 1, NEW k \in 1 .. n - 1, r[i] = r[k]
               PROVE  i = k
    OBVIOUS
  <2>1. at(i) = at(k)
    <3> HIDE DEF at
    <3> QED
      BY <1>1 DEF ListIs
  <2> QED
    BY <2>1
<1>5. \A p \in Ptr : (\E i \in 1 .. n - 1 : r[i] = p) <=> (job'[p] # NULL /\ p # taken')
  <2> HIDE DEF at
  <2> SUFFICES ASSUME NEW p \in Ptr
               PROVE  (\E i \in 1 .. n - 1 : r[i] = p) <=>
                      ((\E i \in 1 .. n : q[i] = p) /\ p # q[m])
    BY DEF ListIs
  <2>1. ASSUME NEW i \in 1 .. n - 1, r[i] = p
        PROVE  (\E k \in 1 .. n : q[k] = p) /\ p # q[m]
    BY <1>1, <2>1 DEF ListIs
  <2>2. ASSUME NEW k \in 1 .. n, q[k] = p, p # q[m]
        PROVE  \E i \in 1 .. n - 1 : r[i] = p
    BY <1>1, <1>3, <2>2
  <2> QED
    BY <2>1, <2>2
<1>6. qhead' = IF n - 1 = 0 THEN NULL ELSE r[1]
  <2>1. CASE m = 1
    <3>1. qhead' = IF n = 1 THEN NULL ELSE q[2]
      BY <2>1 DEF ListIs
    <3>2. n # 1 => 1 \in 1 .. n - 1 /\ at(1) = 2
      BY <2>1
    <3> QED
      BY <1>1, <3>1, <3>2
  <2>2. CASE m # 1
    <3>1. 1 \in 1 .. n - 1 /\ at(1) = 1 /\ n # 0 /\ n - 1 # 0
      BY <2>2
    <3> QED
      BY <1>1, <2>2, <3>1 DEF ListIs
  <2> QED
    BY <2>1, <2>2
<1>7. qtail' = IF n - 1 = 0 THEN NULL ELSE r[n - 1]
  <2>1. CASE m = n
    <3>1. qtail' = IF n = 1 THEN NULL ELSE q[n - 1]
      BY <2>1 DEF ListIs
    <3>2. n # 1 => n - 1 \in 1 .. n - 1 /\ at(n - 1) = n - 1
      BY <2>1
    <3> QED
      BY <1>1, <3>1, <3>2
  <2>2. CASE m # n
    <3>1. n - 1 \in 1 .. n - 1 /\ at(n - 1) = n /\ n \in 1 .. n /\ n # 0 /\ n - 1 # 0
      BY <2>2
    <3>2. qtail = q[n] /\ q[n] # q[m]
      BY <2>2, <3>1 DEF ListIs
    <3> QED
      BY <1>1, <3>1, <3>2
  <2> QED
    BY <2>1, <2>2
<1>8. \A i \in 1 .. n - 1 : job'[r[i]].qnext = IF i = n - 1 THEN NULL ELSE r[i + 1]
  <2> SUFFICES ASSUME NEW i \in 1 .. n - 1
               PROVE  job'[r[i]].qnext = IF i = n - 1 THEN NULL ELSE r[i + 1]
    OBVIOUS
  <2>1. job'[r[i]].qnext = IF at(i) = m - 1 THEN job[q[m]].qnext ELSE job[q[at(i)]].qnext
    <3> HIDE DEF at
    <3> QED
      BY <1>1
  <2>2. CASE at(i) = m - 1
    <3>1. i = m - 1 /\ (i = n - 1 <=> m = n)
      BY <2>2
    <3>2. job'[r[i]].qnext = IF m = n THEN NULL ELSE q[m + 1]
      BY <2>1, <2>2 DEF ListIs
    <3>3. m # n => i + 1 \in 1 .. n - 1 /\ at(i + 1) = m + 1
      BY <3>1
    <3> QED
      BY <1>1, <3>1, <3>2, <3>3
  <2>3. CASE at(i) # m - 1
    <3>1. job'[r[i]].qnext = IF at(i) = n THEN NULL ELSE q[at(i) + 1]
      <4> HIDE DEF at
      <4> QED
        BY <1>1, <2>1, <2>3 DEF ListIs
    <3>2. at(i) = n <=> i = n - 1
      BY <2>3
    <3>3. i # n - 1 => i + 1 \in 1 .. n - 1 /\ at(i + 1) = at(i) + 1
      BY <2>3
    <3>4. i # n - 1 => r[i + 1] = q[at(i) + 1]
      <4> HIDE DEF at
      <4> QED
        BY <1>1, <3>3
    <3> QED
      BY <3>1, <3>2, <3>4
  <2> QED
    BY <2>2, <2>3
<1> QED
  BY <1>2, <1>4, <1>5, <1>6, <1>7, <1>8 DEF ListIs, r

-----------------------------------------------------------------------------
(* The inductive invariant of the job store.                               *)

Linked == \E n \in Nat : \E q \in [1 .. n -> Ptr] : ListIs(n, q)

\* What the pump has taken is a job that exists, and only the pump takes one.
TakenLive == taken # NULL => pumping /\ job[taken] # NULL

SpoolInv ==
  /\ SpoolTypeOK /\ JobTableConsistent /\ Linked /\ ActiveLive /\ TakenLive
  /\ DocumentsOwned /\ NothingLeaked

\* The ids are finitely many, so the jobs can be counted.
LEMMA IdsFinite ==
  ASSUME NEW S \in SUBSET Id, NEW i \in Id
  PROVE  /\ Cardinality(S) \in Nat
         /\ i \notin S => Cardinality(S \cup {i}) = Cardinality(S) + 1
         /\ i \in S => Cardinality(S \ {i}) = Cardinality(S) - 1
<1>1. 0 \in Int /\ SpoolMax - 1 \in Int
  OBVIOUS
<1>2. IsFiniteSet(Id)
  BY <1>1, FS_Interval DEF Id
<1>3. IsFiniteSet(S) /\ Cardinality(S) \in Nat
  BY <1>2, FS_Subset, FS_CardinalityType
<1> QED
  BY <1>3, FS_AddElement, FS_RemoveElement

\* The lesser and the greater of two lengths (JobSubmit, JobDup).
LEMMA Clamped ==
  ASSUME NEW m \in Nat, NEW n \in Nat
  PROVE  /\ Lesser(m, n) \in Nat /\ Lesser(m, n) <= n
         /\ Greater(m, n) \in Nat /\ m <= Greater(m, n) /\ n <= Greater(m, n)
         /\ Greater(m, n) \in {m, n}
BY DEF Lesser, Greater

\* The queue is as the properties say it is, and an empty one is the empty sequence.
LEMMA LinkedSound ==
  ASSUME Linked
  PROVE  /\ QueueSound
         /\ Queue \in Seq(Ptr)
         /\ qhead = NULL <=> Queue = <<>>
<1>1. PICK n \in Nat : \E q \in [1 .. n -> Ptr] : ListIs(n, q)
  BY DEF Linked
<1>2. PICK q \in [1 .. n -> Ptr] : ListIs(n, q)
  BY <1>1
<1>3. Queue = q
  BY <1>2, QueueIs
<1>4. q \in Seq(Ptr) /\ Len(q) = n /\ (q = <<>> <=> n = 0)
  OBVIOUS
<1>5. {q[i] : i \in 1 .. n} = {p \in Ptr : job[p] # NULL /\ p # taken}
  BY <1>2 DEF ListIs
<1>6. \A i, k \in 1 .. n : q[i] = q[k] => i = k
  BY <1>2 DEF ListIs
<1>7. qtail = IF q = <<>> THEN NULL ELSE q[n]
  BY <1>2, <1>4 DEF ListIs
<1>8. qhead = NULL <=> n = 0
  <2>1. n # 0 => 1 \in 1 .. n /\ q[1] \in Ptr
    OBVIOUS
  <2> QED
    BY <1>2, <2>1 DEF ListIs
<1> QED
  BY <1>3, <1>4, <1>5, <1>6, <1>7, <1>8 DEF QueueSound

\* A new store satisfies the invariant (SpoolNew).
LEMMA SpoolNewInv ==
  ASSUME SpoolNew
  PROVE  SpoolInv
<1>1. SpoolTypeOK
  <2>1. {qhead, qtail, active, taken} \subseteq Link
    BY DEF SpoolNew, Link
  <2>2. slots \in [Id -> Link] /\ job \in [Ptr -> Job \cup {NULL}]
    BY DEF SpoolNew, Link
  <2>3. buf \in [Buf -> DocCap \cup {NULL}] /\ metas \in SUBSET Meta
    BY DEF SpoolNew
  <2>4. count \in Int /\ scratch \in Buf \cup {NULL} /\ fault \in FaultKind
    BY DEF SpoolNew, FaultKind
  <2>5. pumping \in BOOLEAN
    BY DEF SpoolNew
  <2> QED
    BY <2>1, <2>2, <2>3, <2>4, <2>5 DEF SpoolTypeOK
<1>2. JobTableConsistent
  <2>1. {i \in Id : slots[i] # NULL} = {}
    BY DEF SpoolNew
  <2> QED
    BY <2>1, FS_EmptySet DEF SpoolNew, JobTableConsistent, JobsCounted, JobsNumbered, JobsListed
<1>3. Linked
  <2>1. <<>> \in [1 .. 0 -> Ptr] /\ ListIs(0, <<>>)
    BY DEF SpoolNew, ListIs
  <2> QED
    BY <2>1 DEF Linked
<1>4. ActiveLive /\ TakenLive /\ DocumentsOwned /\ NothingLeaked
  BY DEF SpoolNew, ActiveLive, TakenLive, DocumentsOwned, NothingLeaked
<1> QED
  BY <1>1, <1>2, <1>3, <1>4 DEF SpoolInv

\* The list is the same in a step that changes no job and neither end of it.
LEMMA LinkedKept ==
  ASSUME Linked, UNCHANGED <<qhead, qtail>>,
         \A p \in Ptr : (job'[p] # NULL /\ p # taken') <=> (job[p] # NULL /\ p # taken),
         \A p \in Ptr : job[p] # NULL /\ p # taken => job'[p].qnext = job[p].qnext
  PROVE  Linked'
<1>1. PICK n \in Nat : \E q \in [1 .. n -> Ptr] : ListIs(n, q)
  BY DEF Linked
<1>2. PICK q \in [1 .. n -> Ptr] : ListIs(n, q)
  BY <1>1
<1>3. ListIs(n, q)'
  BY <1>2, ListKept
<1> QED
  BY <1>3 DEF Linked

-----------------------------------------------------------------------------
(* What a step can do to the store.                                        *)

Live == {p \in Ptr : job[p] # NULL}

\* The jobs and the memory stay: the process ends, or a job was looked up.
Still ==
  /\ UNCHANGED <<slots, count, qhead, qtail, scratch, job, buf, metas, pumping, taken>>
  /\ active' \in {active} \cup Live
  /\ fault' \in FaultKind
  /\ fault' = "consumed" => fault = "consumed" \/ \E p \in Live : job[p].filter \in Consuming

\* The buffer of job p takes the place of the one kept before, which is freed.
Recycled(p) ==
  /\ p \in Live
  /\ buf' = IF scratch = NULL THEN buf ELSE [buf EXCEPT ![scratch] = NULL]
  /\ scratch' = job[p].data
  /\ active' = p
  /\ UNCHANGED <<slots, count, qhead, qtail, job, metas, pumping, taken, fault>>

\* Job p gets other contents in the buffer it has, perhaps a larger one.
Rewritten(p, new) ==
  /\ p \in Live
  /\ new.id = job[p].id /\ new.data = job[p].data /\ new.meta = job[p].meta
  /\ new.qnext = job[p].qnext /\ new.filter = job[p].filter /\ new.len <= new.cap
  /\ job' = [job EXCEPT ![p] = new]
  /\ \/ UNCHANGED buf /\ new.cap = job[p].cap
     \/ buf' = [buf EXCEPT ![job[p].data] = new.cap]
  /\ active' = p
  /\ UNCHANGED <<slots, count, qhead, qtail, scratch, metas, pumping, taken, fault>>

\* Job j, with a filter of F or of another job, takes the lowest free id, the end of
\* the queue, and a buffer nobody points to.
Added(F, p, ret, j, b) ==
  /\ ~pumping /\ taken = NULL
  /\ j.id = ret /\ j.data = b /\ j.qnext = NULL /\ j.len <= j.cap
  /\ j.filter \in F \/ \E x \in Live : j.filter = job[x].filter
  /\ FreshBuf(b)
  /\ AddJob(p, ret, j, b)
  /\ \/ UNCHANGED metas /\ j.meta = NULL
     \/ UNCHANGED metas /\ \E x \in Live : j.meta = job[x].meta
     \/ metas' = metas \cup {j.meta} /\ j.meta \in Meta

\* The metadata of a new job is a block of its own, or there is none.
MetaFresh(j) ==
  \/ j.meta = NULL /\ UNCHANGED metas
  \/ j.meta \in Meta /\ FreshMeta(j.meta) /\ metas' = metas \cup {j.meta}

\* Job p goes: a client's call finds no pump at work, and the pump's job is taken.
Retired(p) ==
  /\ p \in Live
  /\ \/ taken = NULL /\ ~pumping
     \/ taken = p
  /\ UnlinkAndFree(p)
  /\ free_buffers(p)
  /\ active' \in ({active} \cup Live \cup {NULL}) \ {p}
  /\ Vacate(job[p].id)
  /\ taken' = NULL
  /\ UNCHANGED <<scratch, pumping, fault>>

\* A step of the store is one of these.
Kinds(F) ==
  \/ Still
  \/ \E p \in Ptr : Recycled(p) \/ Retired(p)
  \/ \E p \in Ptr, new \in Job : Rewritten(p, new)
  \/ \E p \in Ptr, ret \in Id, j \in Job, b \in Buf : Added(F, p, ret, j, b)
  \/ taken = NULL /\ (JobFlush \/ PumpEnds)
  \/ JobDequeue

\* A job is rewritten in its place (JobAppend, JobCancel).
LEMMA RewrittenInv ==
  ASSUME SpoolInv, NEW p \in Ptr, NEW new \in Job, Rewritten(p, new)
  PROVE  SpoolInv'
<1> USE DEF Rewritten, Live
<1>1. /\ job'[p] = new /\ new # NULL /\ \A x \in Ptr : x # p => job'[x] = job[x]
      /\ job[p] \in Job /\ job[p].data \in Buf
  BY DEF SpoolInv, SpoolTypeOK, Job
<1>2. \A x \in Ptr : /\ job'[x] = NULL <=> job[x] = NULL
                     /\ job[x] # NULL => /\ job'[x].id = job[x].id
                                         /\ job'[x].data = job[x].data
                                         /\ job'[x].meta = job[x].meta
                                         /\ job'[x].qnext = job[x].qnext
  BY <1>1
<1>3. Linked'
  BY <1>2, LinkedKept DEF SpoolInv
<1>4. SpoolTypeOK'
  <2>1. new.cap \in DocCap
    BY DEF Job
  <2>2. buf' \in [Buf -> DocCap \cup {NULL}]
    BY <1>1, <2>1 DEF SpoolInv, SpoolTypeOK
  <2>3. job' \in [Ptr -> Job \cup {NULL}]
    BY DEF SpoolInv, SpoolTypeOK
  <2>4. active' \in Link
    BY DEF SpoolInv, SpoolTypeOK, Link
  <2> QED
    BY <2>2, <2>3, <2>4 DEF SpoolInv, SpoolTypeOK
<1>5. JobTableConsistent'
  <2>1. JobsCounted'
    BY DEF SpoolInv, JobTableConsistent, JobsCounted
  <2>2. \A i \in Id : slots[i] # NULL => slots[i] \in Ptr
    BY DEF SpoolInv, SpoolTypeOK, Link
  <2> QED
    BY <1>2, <2>1, <2>2 DEF SpoolInv, JobTableConsistent, JobsNumbered, JobsListed
<1>6. ActiveLive' /\ TakenLive'
  BY <1>2 DEF SpoolInv, SpoolTypeOK, Link, ActiveLive, TakenLive
<1>7. DocumentsOwned'
  <2> SUFFICES ASSUME NEW x \in Ptr, job'[x] # NULL
               PROVE  /\ job'[x].len <= job'[x].cap
                      /\ \/ buf'[job'[x].data] = job'[x].cap
                         \/ buf'[job'[x].data] = NULL /\ scratch' # NULL
                      /\ \A y \in Ptr : job'[y] # NULL /\ job'[y].data = job'[x].data => x = y
    BY DEF DocumentsOwned
  <2>1. \A y \in Ptr : job'[y] # NULL /\ job'[y].data = job'[x].data => x = y
    BY <1>2 DEF SpoolInv, DocumentsOwned
  <2>2. CASE x = p
    BY <1>1, <2>1, <2>2 DEF SpoolInv, SpoolTypeOK, DocumentsOwned
  <2>3. CASE x # p
    <3>1. job[x].data # job[p].data
      BY <1>2, <2>3 DEF SpoolInv, DocumentsOwned
    <3>2. buf'[job[x].data] = buf[job[x].data]
      BY <1>2, <3>1 DEF SpoolInv, SpoolTypeOK, Job
    <3> QED
      BY <1>1, <1>2, <2>1, <2>3, <3>2 DEF SpoolInv, DocumentsOwned
  <2> QED
    BY <2>2, <2>3
<1>8. NothingLeaked'
  <2>1. \A b \in Buf : buf'[b] # NULL => b = job[p].data \/ buf[b] # NULL
    BY DEF SpoolInv, SpoolTypeOK
  <2> QED
    BY <1>2, <2>1 DEF SpoolInv, NothingLeaked
<1> QED
  BY <1>3, <1>4, <1>5, <1>6, <1>7, <1>8 DEF SpoolInv

\* Of the jobs there are, one that is added changes the link of the last (enqueue).
LEMMA AddedIs ==
  ASSUME SpoolInv, NEW F, NEW p \in Ptr, NEW ret \in Id, NEW j \in Job, NEW b \in Buf,
         Added(F, p, ret, j, b)
  PROVE  /\ job[p] = NULL /\ job'[p] = j /\ j # NULL /\ job' \in [Ptr -> Job \cup {NULL}]
         /\ \A x \in Ptr : x # p =>
              /\ job'[x] = NULL <=> job[x] = NULL
              /\ job[x] # NULL => /\ job'[x].id = job[x].id /\ job'[x].data = job[x].data
                                  /\ job'[x].meta = job[x].meta /\ job'[x].len = job[x].len
                                  /\ job'[x].cap = job[x].cap
                                  /\ job'[x].filter = job[x].filter
<1>1. job[p] = NULL /\ p \notin {active, qhead, qtail} /\ enqueue(p, j)
  BY DEF Added, AddJob, FreshJob
<1>2. /\ job'[p] = j /\ j # NULL /\ job' \in [Ptr -> Job \cup {NULL}]
      /\ \A x \in Ptr : x # p =>
           /\ job'[x] = NULL <=> job[x] = NULL
           /\ job[x] # NULL => /\ job'[x].id = job[x].id /\ job'[x].data = job[x].data
                               /\ job'[x].meta = job[x].meta /\ job'[x].len = job[x].len
                               /\ job'[x].cap = job[x].cap
                               /\ job'[x].filter = job[x].filter
  <2>1. CASE qtail = NULL
    <3>1. job' = [job EXCEPT ![p] = j]
      BY <1>1, <2>1 DEF enqueue
    <3> QED
      BY <3>1 DEF SpoolInv, SpoolTypeOK
  <2>2. CASE qtail # NULL
    <3>1. job' = [job EXCEPT ![p] = j, ![qtail].qnext = p] /\ qtail \in Ptr /\ qtail # p
      BY <1>1, <2>2 DEF enqueue, SpoolInv, SpoolTypeOK, Link
    <3>2. job[qtail] # NULL
      <4>1. PICK n \in Nat : \E q \in [1 .. n -> Ptr] : ListIs(n, q)
        BY DEF SpoolInv, Linked
      <4>2. PICK q \in [1 .. n -> Ptr] : ListIs(n, q)
        BY <4>1
      <4>3. n \in 1 .. n /\ qtail = q[n]
        BY <2>2, <4>2 DEF ListIs
      <4> QED
        BY <3>1, <4>2, <4>3 DEF ListIs
    <3>3. job[qtail] \in Job
      BY <3>1, <3>2 DEF SpoolInv, SpoolTypeOK
    <3> DEFINE last == [job[qtail] EXCEPT !.qnext = p]
    <3>4. /\ last \in Job /\ last.id = job[qtail].id /\ last.data = job[qtail].data
          /\ last.meta = job[qtail].meta /\ last.len = job[qtail].len /\ last.cap = job[qtail].cap
          /\ last.filter = job[qtail].filter
      BY <3>3 DEF Job, Link
    <3>5. job' = [job EXCEPT ![p] = j, ![qtail] = last]
      BY <3>1 DEF SpoolInv, SpoolTypeOK
    <3> HIDE DEF last
    <3> QED
      BY <3>1, <3>2, <3>4, <3>5 DEF SpoolInv, SpoolTypeOK
  <2> QED
    BY <2>1, <2>2
<1> QED
  BY <1>1, <1>2

\* A new job (JobSubmit, JobDup).
LEMMA AddedInv ==
  ASSUME SpoolInv, NEW F, NEW p \in Ptr, NEW ret \in Id, NEW j \in Job, NEW b \in Buf,
         Added(F, p, ret, j, b)
  PROVE  SpoolInv'
<1>3. /\ job'[p] = j /\ j # NULL /\ job' \in [Ptr -> Job \cup {NULL}]
      /\ \A x \in Ptr : x # p =>
           /\ job'[x] = NULL <=> job[x] = NULL
           /\ job[x] # NULL => /\ job'[x].id = job[x].id /\ job'[x].data = job[x].data
                               /\ job'[x].meta = job[x].meta /\ job'[x].len = job[x].len
                               /\ job'[x].cap = job[x].cap
  BY AddedIs, Zenon
<1> USE DEF Added, Live
<1>1. /\ job[p] = NULL /\ slots[ret] = NULL /\ p \notin {active, qhead, qtail} /\ enqueue(p, j)
      /\ buf' = [buf EXCEPT ![b] = j.cap] /\ slots' = [slots EXCEPT ![ret] = p]
      /\ count' = count + 1 /\ active' = p
      /\ UNCHANGED <<scratch, pumping, taken, fault>>
  BY DEF AddJob, FreshJob, alloc_slot
<1>2. Linked'
  <2>1. PICK n \in Nat : \E q \in [1 .. n -> Ptr] : ListIs(n, q)
    BY DEF SpoolInv, Linked
  <2>2. PICK q \in [1 .. n -> Ptr] : ListIs(n, q)
    BY <2>1
  <2>3. /\ Extended(n, q, p) \in [1 .. n + 1 -> Ptr] /\ n + 1 \in Nat
        /\ ListIs(n + 1, Extended(n, q, p))'
    BY <1>1, <2>2, ListExtended DEF SpoolInv
  <2> QED
    BY <2>3 DEF Linked
<1>4. SpoolTypeOK'
  <2>1. qhead' \in Link /\ qtail' \in Link
    BY <1>1 DEF enqueue, SpoolInv, SpoolTypeOK, Link
  <2>2. buf' \in [Buf -> DocCap \cup {NULL}] /\ metas' \in SUBSET Meta
    <3>1. j.cap \in DocCap
      BY DEF Job
    <3> QED
      BY <1>1, <3>1 DEF SpoolInv, SpoolTypeOK
  <2>3. slots' \in [Id -> Link] /\ active' \in Link /\ taken' \in Link
    BY <1>1 DEF SpoolInv, SpoolTypeOK, Link
  <2>4. count' \in Int /\ scratch' \in Buf \cup {NULL} /\ pumping' \in BOOLEAN /\ fault' \in FaultKind
    BY <1>1 DEF SpoolInv, SpoolTypeOK
  <2> QED
    BY <1>3, <2>1, <2>2, <2>3, <2>4 DEF SpoolTypeOK
<1>5. JobsCounted'
  <2>1. {i \in Id : slots'[i] # NULL} = {i \in Id : slots[i] # NULL} \cup {ret}
    BY <1>1 DEF SpoolInv, SpoolTypeOK
  <2>2. ret \notin {i \in Id : slots[i] # NULL}
    BY <1>1
  <2>3. Cardinality({i \in Id : slots'[i] # NULL}) = Cardinality({i \in Id : slots[i] # NULL}) + 1
    BY <2>1, <2>2, IdsFinite
  <2> QED
    BY <1>1, <2>3 DEF SpoolInv, JobTableConsistent, JobsCounted
<1>6. JobsNumbered'
  <2> SUFFICES ASSUME NEW i \in Id, slots'[i] # NULL
               PROVE  job'[slots'[i]] # NULL /\ job'[slots'[i]].id = i
    BY DEF JobsNumbered
  <2>1. CASE i = ret
    BY <1>1, <1>3, <2>1 DEF SpoolInv, SpoolTypeOK
  <2>2. CASE i # ret
    <3>1. slots'[i] = slots[i] /\ slots[i] \in Ptr
      BY <1>1, <2>2 DEF SpoolInv, SpoolTypeOK, Link
    <3>2. job[slots[i]] # NULL /\ job[slots[i]].id = i
      BY <3>1 DEF SpoolInv, JobTableConsistent, JobsNumbered
    <3> QED
      BY <1>1, <1>3, <3>1, <3>2
  <2> QED
    BY <2>1, <2>2
<1>7. JobsListed'
  <2> SUFFICES ASSUME NEW x \in Ptr, job'[x] # NULL
               PROVE  slots'[job'[x].id] = x
    BY DEF JobsListed
  <2>1. CASE x = p
    BY <1>1, <1>3, <2>1 DEF SpoolInv, SpoolTypeOK
  <2>2. CASE x # p
    <3>1. job[x] # NULL /\ job'[x].id = job[x].id /\ slots[job[x].id] = x
      BY <1>3, <2>2 DEF SpoolInv, JobTableConsistent, JobsListed
    <3>2. job[x].id \in Id
      BY <3>1 DEF SpoolInv, SpoolTypeOK, Job
    <3> QED
      BY <1>1, <3>1, <3>2 DEF SpoolInv, SpoolTypeOK
  <2> QED
    BY <2>1, <2>2
<1>8. ActiveLive' /\ TakenLive'
  BY <1>1, <1>3 DEF ActiveLive, TakenLive
<1>9. DocumentsOwned'
  <2> SUFFICES ASSUME NEW x \in Ptr, job'[x] # NULL
               PROVE  /\ job'[x].len <= job'[x].cap
                      /\ \/ buf'[job'[x].data] = job'[x].cap
                         \/ buf'[job'[x].data] = NULL /\ scratch' # NULL
                      /\ \A y \in Ptr : job'[y] # NULL /\ job'[y].data = job'[x].data => x = y
    BY DEF DocumentsOwned
  <2>1. \A y \in Ptr : job[y] # NULL => job[y].data \in Buf /\ job[y].data # b
    BY DEF FreshBuf, SpoolInv, SpoolTypeOK, Job
  <2>2. CASE x = p
    <3>1. buf'[b] = j.cap
      BY <1>1 DEF SpoolInv, SpoolTypeOK
    <3>2. \A y \in Ptr : job'[y] # NULL /\ job'[y].data = b => y = p
      BY <1>3, <2>1
    <3> QED
      BY <1>3, <2>2, <3>1, <3>2
  <2>3. CASE x # p
    <3>1. job[x] # NULL /\ buf'[job[x].data] = buf[job[x].data]
      BY <1>1, <1>3, <2>1, <2>3 DEF SpoolInv, SpoolTypeOK
    <3>2. \A y \in Ptr : job'[y] # NULL /\ job'[y].data = job[x].data => x = y
      BY <1>3, <2>1, <3>1 DEF SpoolInv, DocumentsOwned
    <3> QED
      BY <1>1, <1>3, <2>3, <3>1, <3>2 DEF SpoolInv, DocumentsOwned
  <2> QED
    BY <2>2, <2>3
<1>10. NothingLeaked'
  <2>1. ASSUME NEW c \in Buf, buf'[c] # NULL
        PROVE  \E x \in Ptr : job'[x] # NULL /\ job'[x].data = c
    <3>1. CASE c = b
      BY <1>3, <3>1
    <3>2. CASE c # b
      <4>1. buf[c] # NULL
        BY <1>1, <2>1, <3>2 DEF SpoolInv, SpoolTypeOK
      <4>2. PICK x \in Ptr : job[x] # NULL /\ job[x].data = c
        BY <4>1 DEF SpoolInv, NothingLeaked
      <4> QED
        BY <1>1, <1>3, <4>2
    <3> QED
      BY <3>1, <3>2
  <2>2. ASSUME NEW m \in metas'
        PROVE  \E x \in Ptr : job'[x] # NULL /\ job'[x].meta = m
    <3>1. CASE m = j.meta
      BY <1>3, <3>1
    <3>2. CASE m # j.meta
      <4>1. PICK x \in Ptr : job[x] # NULL /\ job[x].meta = m
        BY <3>2, <2>2 DEF SpoolInv, NothingLeaked
      <4> QED
        BY <1>1, <1>3, <4>1
    <3> QED
      BY <3>1, <3>2
  <2> QED
    BY <2>1, <2>2 DEF NothingLeaked
<1> QED
  BY <1>2, <1>4, <1>5, <1>6, <1>7, <1>8, <1>9, <1>10 DEF SpoolInv, JobTableConsistent

\* What unlink_queue and free do to the jobs and the list: job p goes, and one that
\* is left changes in its link at most.
LEMMA UnlinkedIs ==
  ASSUME SpoolInv, NEW n \in Nat, NEW q \in [1 .. n -> Ptr], ListIs(n, q),
         NEW p \in Ptr, job[p] # NULL, taken \in {p, NULL}, UnlinkAndFree(p), taken' = NULL
  PROVE  /\ job'[p] = NULL /\ job' \in [Ptr -> Job \cup {NULL}]
         /\ qhead' \in Link /\ qtail' \in Link
         /\ \A x \in Ptr : x # p =>
              /\ job'[x] = NULL <=> job[x] = NULL
              /\ job[x] # NULL => /\ job'[x].id = job[x].id /\ job'[x].data = job[x].data
                                  /\ job'[x].meta = job[x].meta /\ job'[x].len = job[x].len
                                  /\ job'[x].cap = job[x].cap
                                  /\ job'[x].filter = job[x].filter
         /\ \/ taken = p /\ ListIs(n, q)'
            \/ \E m \in 1 .. n : /\ taken = NULL /\ q[m] = p
                                 /\ Without(n, q, m) \in [1 .. n - 1 -> Ptr]
                                 /\ ListIs(n - 1, Without(n, q, m))'
<1>1. Queue = q /\ Len(q) = n
  BY QueueIs
<1>2. CASE taken = p
  <2>1. ~\E i \in 1 .. n : q[i] = p
    BY <1>2 DEF ListIs
  <2>2. job' = [job EXCEPT ![p] = NULL] /\ UNCHANGED <<qhead, qtail>>
    BY <1>1, <2>1 DEF UnlinkAndFree
  <2>3. job'[p] = NULL /\ \A x \in Ptr : x # p => job'[x] = job[x]
    BY <2>2 DEF SpoolInv, SpoolTypeOK
  <2>4. ListIs(n, q)'
    BY <1>2, <2>2, <2>3, ListKept
  <2> QED
    BY <1>2, <2>2, <2>3, <2>4 DEF SpoolInv, SpoolTypeOK
<1>3. CASE taken = NULL /\ taken # p
  <2> DEFINE m == CHOOSE i \in 1 .. n : q[i] = p
             prev == IF m = 1 THEN NULL ELSE q[m - 1]
  <2>1. \E i \in 1 .. n : q[i] = p
    BY <1>3 DEF ListIs
  <2>2. m \in 1 .. n /\ q[m] = p
    BY <2>1
  <2>3. /\ qtail' = TailAfter(p, prev)
        /\ \/ prev = NULL /\ qhead' = job[p].qnext /\ job' = [job EXCEPT ![p] = NULL]
           \/ /\ prev # NULL /\ qhead' = qhead
              /\ job' = [job EXCEPT ![prev].qnext = job[p].qnext, ![p] = NULL]
    BY <1>1, <2>1 DEF UnlinkAndFree
  <2> HIDE DEF m
  <2>4. m # 1 => /\ m - 1 \in 1 .. n /\ prev \in Ptr /\ prev # NULL /\ prev # p
                 /\ job[prev] \in Job /\ job[prev] # NULL
    <3>1. m # 1 => m - 1 \in 1 .. n /\ m - 1 # m
      BY <2>2
    <3> QED
      BY <2>2, <3>1 DEF ListIs, SpoolInv, SpoolTypeOK
  <2>5. job[p] \in Job /\ job[p].qnext \in Link
    BY DEF SpoolInv, SpoolTypeOK, Job
  <2>6. /\ job'[p] = NULL /\ job' \in [Ptr -> Job \cup {NULL}]
        /\ \A x \in Ptr : x # p => job'[x] = IF m # 1 /\ x = prev
                                             THEN [job[x] EXCEPT !.qnext = job[p].qnext]
                                             ELSE job[x]
    <3>1. CASE m = 1
      BY <2>3, <3>1 DEF SpoolInv, SpoolTypeOK
    <3>2. CASE m # 1
      <4>1. job' = [job EXCEPT ![prev].qnext = job[p].qnext, ![p] = NULL]
        BY <2>3, <2>4, <3>2
      <4>2. [job[prev] EXCEPT !.qnext = job[p].qnext] \in Job
        BY <2>4, <2>5, <3>2 DEF Job
      <4> HIDE DEF prev
      <4> QED
        BY <2>4, <3>2, <4>1, <4>2 DEF SpoolInv, SpoolTypeOK
    <3> QED
      BY <3>1, <3>2
  <2>7. \A x \in Ptr : x # p =>
           /\ job'[x] = NULL <=> job[x] = NULL
           /\ job[x] # NULL =>
                /\ job'[x].id = job[x].id /\ job'[x].data = job[x].data
                /\ job'[x].meta = job[x].meta /\ job'[x].len = job[x].len
                /\ job'[x].cap = job[x].cap /\ job'[x].filter = job[x].filter
                /\ job'[x].qnext = IF m # 1 /\ x = prev THEN job[p].qnext ELSE job[x].qnext
    <3> HIDE DEF prev
    <3> SUFFICES ASSUME NEW x \in Ptr, x # p
                 PROVE  /\ job'[x] = NULL <=> job[x] = NULL
                        /\ job[x] # NULL =>
                             /\ job'[x].id = job[x].id /\ job'[x].data = job[x].data
                             /\ job'[x].meta = job[x].meta /\ job'[x].len = job[x].len
                             /\ job'[x].cap = job[x].cap /\ job'[x].filter = job[x].filter
                             /\ job'[x].qnext = IF m # 1 /\ x = prev THEN job[p].qnext
                                                                     ELSE job[x].qnext
      OBVIOUS
    <3>1. CASE m # 1 /\ x = prev
      <4>1. job'[x] = [job[x] EXCEPT !.qnext = job[p].qnext] /\ job[x] \in Job /\ job[x] # NULL
        BY <2>4, <2>6, <3>1
      <4>2. job'[x] \in Job /\ job'[x].qnext = job[p].qnext
        BY <2>5, <4>1 DEF Job
      <4>3. job'[x] # NULL
        BY <4>2
      <4> QED
        BY <3>1, <4>1, <4>2, <4>3 DEF Job
    <3>2. CASE ~(m # 1 /\ x = prev)
      BY <2>6, <3>2
    <3> QED
      BY <3>1, <3>2
  <2>8. Without(n, q, m) \in [1 .. n - 1 -> Ptr] /\ ListIs(n - 1, Without(n, q, m))'
    <3>1. \A i \in 1 .. n : i # m =>
            job'[q[i]].qnext = IF i = m - 1 THEN job[q[m]].qnext ELSE job[q[i]].qnext
      <4> SUFFICES ASSUME NEW i \in 1 .. n, i # m
                   PROVE  job'[q[i]].qnext = IF i = m - 1 THEN job[q[m]].qnext
                                                          ELSE job[q[i]].qnext
        OBVIOUS
      <4>1. q[i] \in Ptr /\ q[i] # p /\ job[q[i]] # NULL
        BY <2>2 DEF ListIs
      <4>2. m # 1 /\ q[i] = prev <=> i = m - 1
        BY <2>4 DEF ListIs
      <4> HIDE DEF prev
      <4> QED
        BY <2>2, <2>7, <4>1, <4>2
    <3>2. \A x \in Ptr : (job'[x] # NULL /\ x # taken') <=>
                         (job[x] # NULL /\ x # taken /\ x # q[m])
      BY <1>3, <2>2, <2>6, <2>7
    <3>3. qhead' = IF m = 1 THEN job[q[m]].qnext ELSE qhead
      BY <2>2, <2>3, <2>4
    <3>4. qtail' = IF qtail = q[m] THEN (IF m = 1 THEN NULL ELSE q[m - 1]) ELSE qtail
      BY <2>2, <2>3 DEF TailAfter
    <3> QED
      BY <2>2, <3>1, <3>2, <3>3, <3>4, ListWithout
  <2>9. qhead' \in Link /\ qtail' \in Link
    BY <2>3, <2>4, <2>5 DEF TailAfter, SpoolInv, SpoolTypeOK, Link
  <2> QED
    BY <1>3, <2>2, <2>6, <2>7, <2>8, <2>9
<1> QED
  BY <1>2, <1>3

\* A job that is retired leaves id, queue and memory, wherever in the queue it is; one
\* the pump has taken is not on it any more (JobRetire).
LEMMA RetiredInv ==
  ASSUME SpoolInv, NEW p \in Ptr, Retired(p)
  PROVE  SpoolInv'
<1>0. job[p] # NULL /\ taken \in {p, NULL}
  BY DEF Retired, Live
<1>1. /\ UnlinkAndFree(p) /\ buf' = [buf EXCEPT ![job[p].data] = NULL]
      /\ metas' = metas \ {job[p].meta}
      /\ active' \in ({active} \cup {x \in Ptr : job[x] # NULL} \cup {NULL}) \ {p}
      /\ slots' = [slots EXCEPT ![job[p].id] = NULL] /\ count' = count - 1
      /\ taken' = NULL /\ UNCHANGED <<scratch, pumping, fault>>
  BY DEF Retired, Live, free_buffers, Vacate
<1>2. PICK n \in Nat : \E q \in [1 .. n -> Ptr] : ListIs(n, q)
  BY DEF SpoolInv, Linked
<1>3. PICK q \in [1 .. n -> Ptr] : ListIs(n, q)
  BY <1>2
<1>4. /\ job'[p] = NULL /\ job' \in [Ptr -> Job \cup {NULL}]
      /\ qhead' \in Link /\ qtail' \in Link
      /\ \A x \in Ptr : x # p =>
           /\ job'[x] = NULL <=> job[x] = NULL
           /\ job[x] # NULL => /\ job'[x].id = job[x].id /\ job'[x].data = job[x].data
                               /\ job'[x].meta = job[x].meta /\ job'[x].len = job[x].len
                               /\ job'[x].cap = job[x].cap
  BY <1>0, <1>1, <1>3, UnlinkedIs
<1>5. Linked'
  <2>1. CASE ListIs(n, q)'
    BY <2>1 DEF Linked
  <2>2. CASE ~ListIs(n, q)'
    <3>1. PICK m \in 1 .. n : /\ Without(n, q, m) \in [1 .. n - 1 -> Ptr]
                              /\ ListIs(n - 1, Without(n, q, m))'
      BY <1>0, <1>1, <1>3, <2>2, UnlinkedIs
    <3>2. n - 1 \in Nat
      BY <3>1
    <3> QED
      BY <3>1, <3>2 DEF Linked
  <2> QED
    BY <2>1, <2>2
<1>6. job[p] \in Job /\ job[p].id \in Id /\ job[p].data \in Buf /\ slots[job[p].id] = p
  BY <1>0 DEF SpoolInv, SpoolTypeOK, Job, JobTableConsistent, JobsListed
<1>7. SpoolTypeOK'
  <2>1. slots' \in [Id -> Link] /\ active' \in Link /\ taken' \in Link
    BY <1>1 DEF SpoolInv, SpoolTypeOK, Link
  <2>2. buf' \in [Buf -> DocCap \cup {NULL}]
    BY <1>1 DEF SpoolInv, SpoolTypeOK
  <2>3. count' \in Int
    BY <1>1 DEF SpoolInv, SpoolTypeOK
  <2>4. metas' \in SUBSET Meta
    BY <1>1 DEF SpoolInv, SpoolTypeOK
  <2> QED
    BY <1>1, <1>4, <2>1, <2>2, <2>3, <2>4 DEF SpoolInv, SpoolTypeOK
<1>8. JobsCounted'
  <2>1. {i \in Id : slots'[i] # NULL} = {i \in Id : slots[i] # NULL} \ {job[p].id}
    BY <1>1, <1>6 DEF SpoolInv, SpoolTypeOK
  <2>2. job[p].id \in {i \in Id : slots[i] # NULL}
    BY <1>6
  <2>3. Cardinality({i \in Id : slots'[i] # NULL}) = Cardinality({i \in Id : slots[i] # NULL}) - 1
    BY <1>6, <2>1, <2>2, IdsFinite
  <2> QED
    BY <1>1, <2>3 DEF SpoolInv, JobTableConsistent, JobsCounted
<1>9. JobsNumbered'
  <2> SUFFICES ASSUME NEW i \in Id, slots'[i] # NULL
               PROVE  job'[slots'[i]] # NULL /\ job'[slots'[i]].id = i
    BY DEF JobsNumbered
  <2>1. i # job[p].id /\ slots'[i] = slots[i] /\ slots[i] \in Ptr
    BY <1>1, <1>6 DEF SpoolInv, SpoolTypeOK, Link
  <2>2. job[slots[i]] # NULL /\ job[slots[i]].id = i
    BY <2>1 DEF SpoolInv, JobTableConsistent, JobsNumbered
  <2> QED
    BY <1>4, <2>1, <2>2
<1>10. JobsListed'
  <2> SUFFICES ASSUME NEW x \in Ptr, job'[x] # NULL
               PROVE  slots'[job'[x].id] = x
    BY DEF JobsListed
  <2>1. x # p /\ job[x] # NULL /\ job'[x].id = job[x].id /\ slots[job[x].id] = x
    BY <1>4 DEF SpoolInv, JobTableConsistent, JobsListed
  <2>2. job[x].id \in Id
    BY <2>1 DEF SpoolInv, SpoolTypeOK, Job
  <2> QED
    BY <1>1, <1>6, <2>1, <2>2 DEF SpoolInv, SpoolTypeOK
<1>11. ActiveLive' /\ TakenLive'
  <2>1. active' # NULL => active' \in Ptr /\ active' # p /\ job[active'] # NULL
    BY <1>1 DEF SpoolInv, SpoolTypeOK, Link, ActiveLive
  <2> QED
    BY <1>1, <1>4, <2>1 DEF ActiveLive, TakenLive
<1>12. DocumentsOwned'
  <2> SUFFICES ASSUME NEW x \in Ptr, job'[x] # NULL
               PROVE  /\ job'[x].len <= job'[x].cap
                      /\ \/ buf'[job'[x].data] = job'[x].cap
                         \/ buf'[job'[x].data] = NULL /\ scratch' # NULL
                      /\ \A y \in Ptr : job'[y] # NULL /\ job'[y].data = job'[x].data => x = y
    BY DEF DocumentsOwned
  <2>1. x # p /\ job[x] # NULL /\ job[x].data \in Buf /\ job[x].data # job[p].data
    BY <1>0, <1>4 DEF SpoolInv, SpoolTypeOK, Job, DocumentsOwned
  <2>2. buf'[job[x].data] = buf[job[x].data]
    BY <1>1, <1>6, <2>1 DEF SpoolInv, SpoolTypeOK
  <2>3. \A y \in Ptr : job'[y] # NULL => job[y] # NULL /\ job'[y].data = job[y].data
    BY <1>4
  <2> QED
    BY <1>1, <1>4, <2>1, <2>2, <2>3 DEF SpoolInv, DocumentsOwned
<1>13. NothingLeaked'
  <2>1. ASSUME NEW c \in Buf, buf'[c] # NULL
        PROVE  \E x \in Ptr : job'[x] # NULL /\ job'[x].data = c
    <3>1. c # job[p].data /\ buf[c] # NULL
      BY <1>1, <1>6, <2>1 DEF SpoolInv, SpoolTypeOK
    <3>2. PICK x \in Ptr : job[x] # NULL /\ job[x].data = c
      BY <3>1 DEF SpoolInv, NothingLeaked
    <3> QED
      BY <1>4, <3>1, <3>2
  <2>2. ASSUME NEW c \in metas'
        PROVE  \E x \in Ptr : job'[x] # NULL /\ job'[x].meta = c
    <3>1. c # job[p].meta /\ c \in metas
      BY <1>1, <2>2
    <3>2. PICK x \in Ptr : job[x] # NULL /\ job[x].meta = c
      BY <3>1 DEF SpoolInv, NothingLeaked
    <3> QED
      BY <1>4, <3>1, <3>2
  <2> QED
    BY <2>1, <2>2 DEF NothingLeaked
<1> QED
  BY <1>5, <1>7, <1>8, <1>9, <1>10, <1>11, <1>12, <1>13 DEF SpoolInv, JobTableConsistent

\* Memory and jobs stay (Crash, Touch, JobStatus).
LEMMA StillInv ==
  ASSUME SpoolInv, Still
  PROVE  SpoolInv'
<1>1. Linked'
  BY LinkedKept DEF SpoolInv, Still
<1>2. SpoolTypeOK'
  BY DEF SpoolInv, SpoolTypeOK, Still, Live, Link
<1> QED
  BY <1>1, <1>2 DEF SpoolInv, Still, Live, JobTableConsistent, JobsCounted, JobsNumbered,
     JobsListed, ActiveLive, TakenLive, DocumentsOwned, NothingLeaked

\* The pump starts and ends with no job taken (JobFlush).
LEMMA FlushInv ==
  ASSUME SpoolInv, taken = NULL, JobFlush \/ PumpEnds
  PROVE  SpoolInv'
<1>1. /\ UNCHANGED <<slots, count, qhead, qtail, active, scratch, job, buf, metas, taken, fault>>
      /\ pumping' \in BOOLEAN
  BY DEF JobFlush, PumpEnds
<1>2. Linked'
  BY <1>1, LinkedKept DEF SpoolInv
<1>3. SpoolTypeOK'
  BY <1>1 DEF SpoolInv, SpoolTypeOK
<1> QED
  BY <1>1, <1>2, <1>3 DEF SpoolInv, JobTableConsistent, JobsCounted, JobsNumbered,
     JobsListed, ActiveLive, TakenLive, DocumentsOwned, NothingLeaked

\* The buffer kept before is freed and the job's is kept (JobRecycle).
LEMMA RecycledInv ==
  ASSUME SpoolInv, NEW p \in Ptr, Recycled(p)
  PROVE  SpoolInv'
<1>1. /\ job[p] # NULL /\ job[p] \in Job /\ job[p].data \in Buf
      /\ buf' = IF scratch = NULL THEN buf ELSE [buf EXCEPT ![scratch] = NULL]
      /\ scratch' = job[p].data /\ active' = p
      /\ UNCHANGED <<slots, count, qhead, qtail, job, metas, pumping, taken, fault>>
  BY DEF Recycled, Live, SpoolInv, SpoolTypeOK, Job
<1>2. \A b \in Buf : buf'[b] = buf[b] \/ buf'[b] = NULL
  BY <1>1 DEF SpoolInv, SpoolTypeOK
<1>3. Linked'
  BY <1>1, LinkedKept DEF SpoolInv
<1>4. SpoolTypeOK'
  <2>1. buf' \in [Buf -> DocCap \cup {NULL}] /\ scratch' \in Buf \cup {NULL}
    BY <1>1 DEF SpoolInv, SpoolTypeOK
  <2> QED
    BY <1>1, <2>1 DEF SpoolInv, SpoolTypeOK, Link
<1>5. JobTableConsistent'
  BY <1>1 DEF SpoolInv, JobTableConsistent, JobsCounted, JobsNumbered, JobsListed
<1>6. ActiveLive' /\ TakenLive'
  BY <1>1 DEF SpoolInv, ActiveLive, TakenLive
<1>7. DocumentsOwned'
  <2>1. \A x \in Ptr : job[x] # NULL => job[x].data \in Buf
    BY DEF SpoolInv, SpoolTypeOK, Job
  <2> QED
    BY <1>1, <1>2, <2>1 DEF SpoolInv, DocumentsOwned
<1>8. NothingLeaked'
  BY <1>1, <1>2 DEF SpoolInv, NothingLeaked
<1> QED
  BY <1>3, <1>4, <1>5, <1>6, <1>7, <1>8 DEF SpoolInv

\* The pump takes the first job off the queue (JobDequeue).
LEMMA DequeuedIs ==
  ASSUME SpoolInv, NEW n \in Nat, NEW q \in [1 .. n -> Ptr], ListIs(n, q), JobDequeue
  PROVE  /\ n # 0 /\ job[qhead] # NULL /\ taken' = qhead /\ pumping
         /\ UNCHANGED <<slots, count, active, scratch, buf, metas, pumping, fault>>
         /\ qhead \in Ptr /\ job' = [job EXCEPT ![qhead].qnext = NULL]
         /\ qhead' \in Link /\ qtail' \in Link
         /\ Without(n, q, 1) \in [1 .. n - 1 -> Ptr] /\ ListIs(n - 1, Without(n, q, 1))'
<1>1. n # 0 /\ 1 \in 1 .. n /\ qhead = q[1]
  BY DEF JobDequeue, ListIs
<1>2. qhead \in Ptr /\ job[qhead] # NULL /\ job[qhead] \in Job
  BY <1>1 DEF ListIs, SpoolInv, SpoolTypeOK
<1>3. /\ taken = NULL /\ taken' = qhead /\ pumping /\ qhead' = job[qhead].qnext
      /\ qtail' = IF job[qhead].qnext = NULL THEN NULL ELSE qtail
      /\ job' = [job EXCEPT ![qhead].qnext = NULL]
      /\ UNCHANGED <<slots, count, active, scratch, buf, metas, pumping, fault>>
  BY <1>2 DEF JobDequeue
<1>4. \A x \in Ptr : x # qhead => job'[x] = job[x]
  BY <1>2, <1>3 DEF SpoolInv, SpoolTypeOK
<1>5. /\ Without(n, q, 1) \in [1 .. n - 1 -> Ptr] /\ ListIs(n - 1, Without(n, q, 1))'
  <2>1. \A i \in 1 .. n : i # 1 =>
          job'[q[i]].qnext = IF i = 1 - 1 THEN job[q[1]].qnext ELSE job[q[i]].qnext
    BY <1>1, <1>4 DEF ListIs
  <2>2. \A x \in Ptr : (job'[x] # NULL /\ x # taken') <=>
                       (job[x] # NULL /\ x # taken /\ x # q[1])
    BY <1>1, <1>2, <1>3, <1>4
  <2>3. qtail' = IF qtail = q[1] THEN (IF 1 = 1 THEN NULL ELSE q[1 - 1]) ELSE qtail
    <3>1. CASE n = 1
      BY <1>1, <1>3, <3>1 DEF ListIs
    <3>2. CASE n # 1
      <4>1. n \in 1 .. n /\ 2 \in 1 .. n /\ q[2] \in Ptr /\ q[2] # NULL
        BY <1>1, <3>2
      <4>2. job[qhead].qnext = q[2] /\ qtail = q[n] /\ q[n] # q[1]
        BY <1>1, <3>2, <4>1 DEF ListIs
      <4> QED
        BY <1>3, <4>1, <4>2
    <3> QED
      BY <3>1, <3>2
  <2> QED
    BY <1>1, <1>3, <2>1, <2>2, <2>3, ListWithout
<1>6. qhead' \in Link /\ qtail' \in Link
  BY <1>2, <1>3 DEF Job, SpoolInv, SpoolTypeOK, Link
<1> QED
  BY <1>1, <1>2, <1>3, <1>5, <1>6

\* The first job leaves the list and is in the hands of the pump (JobDequeue).
LEMMA DequeueInv ==
  ASSUME SpoolInv, JobDequeue
  PROVE  SpoolInv'
<1>1. PICK n \in Nat : \E q \in [1 .. n -> Ptr] : ListIs(n, q)
  BY DEF SpoolInv, Linked
<1>2. PICK q \in [1 .. n -> Ptr] : ListIs(n, q)
  BY <1>1
<1>3. /\ n # 0 /\ job[qhead] # NULL /\ taken' = qhead /\ pumping
      /\ UNCHANGED <<slots, count, active, scratch, buf, metas, pumping, fault>>
      /\ qhead \in Ptr /\ job' = [job EXCEPT ![qhead].qnext = NULL]
      /\ qhead' \in Link /\ qtail' \in Link
      /\ Without(n, q, 1) \in [1 .. n - 1 -> Ptr] /\ ListIs(n - 1, Without(n, q, 1))'
  BY <1>2, DequeuedIs
<1>4. job[qhead] \in Job
  BY <1>3 DEF SpoolInv, SpoolTypeOK
<1> DEFINE new == [job[qhead] EXCEPT !.qnext = NULL]
<1>5. /\ new \in Job /\ new.id = job[qhead].id /\ new.data = job[qhead].data
      /\ new.meta = job[qhead].meta /\ new.len = job[qhead].len /\ new.cap = job[qhead].cap
  BY <1>4 DEF Job, Link
<1>6. job'[qhead] = new /\ \A x \in Ptr : x # qhead => job'[x] = job[x]
  BY <1>3 DEF SpoolInv, SpoolTypeOK
<1> HIDE DEF new
<1>7. job' \in [Ptr -> Job \cup {NULL}]
  <2>1. job' = [job EXCEPT ![qhead] = new]
    BY <1>3 DEF new
  <2> QED
    BY <1>5, <2>1 DEF SpoolInv, SpoolTypeOK
<1>8. \A x \in Ptr : /\ job'[x] = NULL <=> job[x] = NULL
                     /\ job[x] # NULL =>
                          /\ job'[x].id = job[x].id /\ job'[x].data = job[x].data
                          /\ job'[x].meta = job[x].meta /\ job'[x].len = job[x].len
                          /\ job'[x].cap = job[x].cap
  <2>1. new # NULL
    BY <1>5
  <2> QED
    BY <1>3, <1>5, <1>6, <2>1
<1>9. Linked'
  <2>1. n - 1 \in Nat
    BY <1>3
  <2> QED
    BY <1>3, <2>1 DEF Linked
<1>10. SpoolTypeOK'
  <2>1. taken' \in Link
    BY <1>3 DEF Link
  <2> QED
    BY <1>3, <1>7, <2>1 DEF SpoolInv, SpoolTypeOK
<1>11. JobTableConsistent'
  <2>1. JobsCounted'
    BY <1>3 DEF SpoolInv, JobTableConsistent, JobsCounted
  <2>2. \A i \in Id : slots[i] # NULL => slots[i] \in Ptr
    BY DEF SpoolInv, SpoolTypeOK, Link
  <2>3. JobsNumbered'
    BY <1>3, <1>8, <2>2 DEF SpoolInv, JobTableConsistent, JobsNumbered
  <2>4. JobsListed'
    BY <1>3, <1>8 DEF SpoolInv, JobTableConsistent, JobsListed
  <2> QED
    BY <2>1, <2>3, <2>4 DEF JobTableConsistent
<1>12. ActiveLive' /\ TakenLive'
  BY <1>3, <1>8 DEF SpoolInv, SpoolTypeOK, Link, ActiveLive, TakenLive
<1>13. DocumentsOwned'
  BY <1>3, <1>8 DEF SpoolInv, DocumentsOwned
<1>14. NothingLeaked'
  BY <1>3, <1>8 DEF SpoolInv, NothingLeaked
<1> QED
  BY <1>9, <1>10, <1>11, <1>12, <1>13, <1>14 DEF SpoolInv

-----------------------------------------------------------------------------
(* The kind of each operation.                                             *)

\* What a lookup finds is the address of a job, and that goes into the cache.
LEMMA FoundIs ==
  ASSUME SpoolInv, NEW id \in WireId, LiveJob(id)
  PROVE  /\ JobGet(id) \in Live /\ JobGet(id) \in Ptr /\ job[JobGet(id)] \in Job
         /\ Touch(id) => active' = JobGet(id)
BY DEF LiveJob, JobGet, Slot, Touch, Live, SpoolInv, SpoolTypeOK, Link

\* A process that ends leaves all as it was.
LEMMA CrashKind ==
  ASSUME SpoolInv, NEW kind \in FaultKind \ {"consumed"}, Crash(kind)
  PROVE  Still
BY DEF Crash, Still

\* So does a call that has nothing to do.
LEMMA StutterKind ==
  ASSUME SpoolInv, UNCHANGED spoolVars
  PROVE  Still
BY DEF spoolVars, Still, SpoolInv, SpoolTypeOK

\* A call that names no job, or a freed one.
LEMMA NotFoundKind ==
  ASSUME SpoolInv, NEW id, NEW ret, NoJob(id, ret) \/ StaleJob(id)
  PROVE  Still
BY StutterKind, CrashKind DEF NoJob, StaleJob, FaultKind

\* Rendering ends the process or retires the job; g_active, which names the job or is
\* what it was, does not name it any more.
LEMMA RenderKind ==
  ASSUME SpoolInv, NEW p \in Live, \/ taken = NULL /\ ~pumping
                                   \/ taken = p,
         NEW named \in {active, p}, RenderAndRetire(p, named)
  PROVE  Still \/ Retired(p)
<1>1. CASE Crash("data") \/ Crash("meta")
  BY <1>1, CrashKind DEF FaultKind
<1>2. CASE Crash("consumed") /\ job[p].filter \in Consuming
  BY <1>2 DEF Crash, Still, FaultKind
<1>3. CASE JobRetire(p, named) /\ ~(Crash("data") \/ Crash("meta"))
  BY <1>3 DEF JobRetire, Retired, active_after, Live
<1> QED
  BY <1>1, <1>2, <1>3 DEF RenderAndRetire

\* A client renders a job, which is retired, or finds none (JobRender).
LEMMA JobRenderKind ==
  ASSUME SpoolInv, ~pumping, taken = NULL, NEW id \in WireId, NEW ret, JobRender(id, ret)
  PROVE  Still \/ \E p \in Ptr : Retired(p)
<1>1. CASE NoJob(id, ret) \/ StaleJob(id)
  BY <1>1, NotFoundKind
<1>2. CASE LiveJob(id) /\ RenderAndRetire(JobGet(id), JobGet(id))
  <2> DEFINE p == JobGet(id)
  <2>1. p \in Live /\ p \in Ptr
    BY <1>2, FoundIs
  <2>2. RenderAndRetire(p, p)
    BY <1>2
  <2> HIDE DEF p
  <2> QED
    BY <2>1, <2>2, RenderKind
<1> QED
  BY <1>1, <1>2 DEF JobRender

\* SUBMIT adds a job with metadata nobody points to, or with none; an argument longer
\* than a document is cut.
LEMMA SubmitAdds ==
  ASSUME SpoolInv, ~pumping, taken = NULL, NEW F \in SUBSET Filter, NEW filter \in F \cup {NULL},
         NEW len \in Nat, NEW ret, JobSubmit(filter, len, ret)
  PROVE  \/ UNCHANGED spoolVars
         \/ \E p \in Ptr, id \in Id, j \in Job, b \in Buf :
              Added(F, p, id, j, b) /\ MetaFresh(j)
<1>1. CASE ~UNCHANGED spoolVars
  <2>1. filter \in F /\ filter \in Filter /\ ret \in Id
    BY <1>1 DEF JobSubmit
  <2> DEFINE n == Lesser(len, MaxDoc)
             new(b, m) == NewJob(ret, filter, b, n, m)
  <2>2. PICK p \in Ptr, b \in Buf, m \in Meta \cup {NULL} :
          /\ FreshBuf(b)
          /\ m # NULL => FreshMeta(m)
          /\ AddJob(p, ret, new(b, m), b)
          /\ metas' = IF m = NULL THEN metas ELSE metas \cup {m}
    BY <1>1 DEF JobSubmit
  <2>3. n \in DocLen /\ Greater(n, MinCap) \in DocCap /\ n <= Greater(n, MinCap)
    <3>1. n \in Nat /\ n <= MaxDoc
      BY Clamped
    <3> HIDE DEF n
    <3> QED
      BY <3>1 DEF DocLen, DocCap, Greater
  <2>4. /\ new(b, m) \in Job /\ new(b, m).id = ret /\ new(b, m).data = b
        /\ new(b, m).qnext = NULL /\ new(b, m).len <= new(b, m).cap /\ new(b, m).meta = m
        /\ new(b, m).filter = filter
    <3> HIDE DEF n
    <3> QED
      BY <2>1, <2>3 DEF NewJob, Job, Link
  <2> HIDE DEF new
  <2>5. \/ UNCHANGED metas /\ m = NULL
        \/ metas' = metas \cup {m} /\ m \in Meta /\ FreshMeta(m)
    BY <2>2
  <2>6. MetaFresh(new(b, m))
    BY <2>4, <2>5 DEF MetaFresh
  <2>7. Added(F, p, ret, new(b, m), b)
    BY <2>1, <2>2, <2>4, <2>5 DEF Added
  <2> QED
    BY <2>1, <2>4, <2>6, <2>7
<1> QED
  BY <1>1

\* So SUBMIT is of the kinds.
LEMMA SubmitKind ==
  ASSUME SpoolInv, ~pumping, taken = NULL, NEW F \in SUBSET Filter, NEW filter \in F \cup {NULL},
         NEW len \in Nat, NEW ret, JobSubmit(filter, len, ret)
  PROVE  Kinds(F)
<1>1. CASE UNCHANGED spoolVars
  BY <1>1, StutterKind DEF Kinds
<1>2. CASE \E p \in Ptr, id \in Id, j \in Job, b \in Buf : Added(F, p, id, j, b)
  BY <1>2 DEF Kinds
<1> QED
  BY <1>1, <1>2, SubmitAdds

\* DUP: the copy has the length, the filter and the metadata of the job.
LEMMA DupKind ==
  ASSUME SpoolInv, ~pumping, taken = NULL, NEW F, NEW id \in WireId, NEW ret, JobDup(id, ret)
  PROVE  Kinds(F)
<1>1. CASE NoJob(id, ret) \/ StaleJob(id)
  BY <1>1, NotFoundKind DEF Kinds
<1>2. CASE LiveJob(id) /\ ~NoJob(id, ret) /\ ~StaleJob(id)
  <2> DEFINE g == JobGet(id)
             j == job[g]
  <2>1. g \in Live /\ g \in Ptr /\ j \in Job
    BY <1>2, FoundIs
  <2>2. CASE UNCHANGED <<slots, count, qhead, qtail, scratch, job, buf, metas, pumping,
                         taken, fault>> /\ Touch(id)
    <3>1. active' = g
      BY <1>2, <2>2, FoundIs
    <3> QED
      BY <2>1, <2>2, <3>1 DEF Kinds, Still, SpoolInv, SpoolTypeOK
  <2>3. CASE Crash("data")
    BY <2>3, CrashKind DEF FaultKind, Kinds
  <2>4. CASE /\ ret \in Id
             /\ \E p \in Ptr, b \in Buf :
                  /\ FreshBuf(b)
                  /\ AddJob(p, ret, NewJob(ret, j.filter, b, j.len, j.meta), b)
                  /\ UNCHANGED metas
    <3> DEFINE new(b) == NewJob(ret, j.filter, b, j.len, j.meta)
    <3>1. PICK p \in Ptr, b \in Buf :
            FreshBuf(b) /\ AddJob(p, ret, new(b), b) /\ UNCHANGED metas
      BY <2>4
    <3>2. /\ j.filter \in Filter /\ j.len \in DocLen /\ j.meta \in Meta \cup {NULL}
      BY <2>1 DEF Job
    <3>3. Greater(j.len, MinCap) \in DocCap /\ j.len <= Greater(j.len, MinCap)
      BY <3>2 DEF DocLen, DocCap, Greater
    <3>4. /\ new(b) \in Job /\ new(b).id = ret /\ new(b).data = b
          /\ new(b).qnext = NULL /\ new(b).len <= new(b).cap /\ new(b).meta = j.meta
          /\ new(b).filter = j.filter
      BY <2>4, <3>2, <3>3 DEF NewJob, Job, Link
    <3> HIDE DEF new
    <3>5. Added(F, p, ret, new(b), b)
      BY <2>1, <2>4, <3>1, <3>4 DEF Added
    <3> QED
      BY <2>4, <3>4, <3>5 DEF Kinds
  <2> QED
    BY <1>2, <2>2, <2>3, <2>4 DEF JobDup
<1> QED
  BY <1>1, <1>2 DEF JobDup

\* CANCEL marks a job.
LEMMA CancelKind ==
  ASSUME SpoolInv, NEW id \in WireId, NEW ret, JobCancel(id, ret)
  PROVE  Still \/ \E p \in Ptr, new \in Job : Rewritten(p, new)
<1>1. CASE NoJob(id, ret) \/ StaleJob(id)
  BY <1>1, NotFoundKind
<1>2. CASE ~(NoJob(id, ret) \/ StaleJob(id))
  <2> DEFINE p   == JobGet(id)
             new == [job[p] EXCEPT !.state = "cancelled"]
  <2>1. p \in Live /\ p \in Ptr /\ job[p] \in Job /\ (Touch(id) => active' = p)
    BY <1>2, FoundIs DEF JobCancel
  <2>2. /\ job' = [job EXCEPT ![p] = new] /\ active' = p
        /\ UNCHANGED <<slots, count, qhead, qtail, scratch, buf, metas, pumping, taken, fault>>
    BY <1>2, <2>1 DEF JobCancel
  <2>3. /\ new \in Job /\ new.id = job[p].id /\ new.data = job[p].data
        /\ new.meta = job[p].meta /\ new.qnext = job[p].qnext /\ new.len <= new.cap
        /\ new.cap = job[p].cap /\ new.filter = job[p].filter
    BY <2>1 DEF Job, Live, SpoolInv, DocumentsOwned
  <2> HIDE DEF p, new
  <2>4. Rewritten(p, new)
    BY <2>1, <2>2, <2>3 DEF Rewritten
  <2> QED
    BY <2>1, <2>3, <2>4
<1> QED
  BY <1>1, <1>2

\* The job's buffer is kept for the next one (JobRecycle).
LEMMA RecycleKind ==
  ASSUME SpoolInv, NEW id \in WireId, NEW ret, JobRecycle(id, ret)
  PROVE  Still \/ \E p \in Ptr : Recycled(p)
<1>1. CASE NoJob(id, ret) \/ StaleJob(id)
  BY <1>1, NotFoundKind
<1>2. CASE Crash("scratch")
  BY <1>2, CrashKind DEF FaultKind
<1>3. CASE ~(NoJob(id, ret) \/ StaleJob(id) \/ Crash("scratch"))
  <2>1. LiveJob(id) /\ Touch(id)
    BY <1>3 DEF JobRecycle
  <2>2. Recycled(JobGet(id)) /\ JobGet(id) \in Ptr
    BY <1>3, <2>1, FoundIs DEF JobRecycle, Recycled
  <2> QED
    BY <2>2
<1> QED
  BY <1>1, <1>2, <1>3

\* APPEND: the sum does not wrap around, so what fits is written where it fits.
LEMMA AppendKind ==
  ASSUME SpoolInv, NEW id \in WireId, NEW len \in Nat, NEW ret, JobAppend(id, len, ret)
  PROVE  Still \/ \E p \in Ptr, new \in Job : Rewritten(p, new)
<1>1. CASE NoJob(id, ret) \/ StaleJob(id)
  BY <1>1, NotFoundKind
<1>2. CASE ~(NoJob(id, ret) \/ StaleJob(id))
  <2> DEFINE p == JobGet(id)
  <2>1. p \in Live /\ p \in Ptr /\ job[p] \in Job /\ (Touch(id) => active' = p)
    BY <1>2, FoundIs DEF JobAppend
  <2>2. /\ active' = p
        /\ UNCHANGED <<slots, count, qhead, qtail, scratch, metas, pumping, taken>>
        /\ \/ UNCHANGED <<job, buf, fault>>
           \/ ~TooLong(p, len) /\ AppendTo(p, len)
    BY <1>2, <2>1 DEF JobAppend
  <2> HIDE DEF p
  <2>3. CASE UNCHANGED <<job, buf>> /\ fault' \in {fault, "data", "moved"}
    BY <2>1, <2>2, <2>3 DEF Still, SpoolInv, SpoolTypeOK, FaultKind
  <2>4. CASE ~(UNCHANGED <<job, buf>> /\ fault' \in {fault, "data", "moved"})
    <3> DEFINE need  == (job[p].len + len) % Word
               fits  == [job[p] EXCEPT !.len = need]
               grown == [job[p] EXCEPT !.len = need, !.cap = need]
    <3>1. need \in DocLen /\ need \in DocCap
      <4>1. ~TooLong(p, len)
        BY <2>2, <2>4
      <4>2. job[p].len \in 0 .. MaxDoc /\ len <= MaxDoc /\ need <= MaxDoc
        BY <2>1, <4>1 DEF TooLong, Job, DocLen
      <4>3. need \in Nat
        BY <4>2
      <4> HIDE DEF need
      <4> QED
        BY <4>2, <4>3 DEF DocLen, DocCap, Greater
    <3> HIDE DEF need
    <3>2. /\ fault' = fault
          /\ \/ need <= job[p].cap /\ job' = [job EXCEPT ![p] = fits] /\ UNCHANGED buf
             \/ /\ job' = [job EXCEPT ![p] = grown]
                /\ buf' = [buf EXCEPT ![job[p].data] = need]
      BY <2>2, <2>4 DEF AppendTo, need, SpoolInv, SpoolTypeOK
    <3>3. /\ fits \in Job /\ fits.id = job[p].id /\ fits.data = job[p].data
          /\ fits.meta = job[p].meta /\ fits.qnext = job[p].qnext
          /\ fits.filter = job[p].filter /\ fits.len = need /\ fits.cap = job[p].cap
      BY <2>1, <3>1 DEF Job
    <3>4. grown \in Job /\ need <= need
      <4>1. grown \in Job
        BY <2>1, <3>1 DEF Job
      <4>2. need <= need
        BY <3>1 DEF DocLen
      <4> QED
        BY <4>1, <4>2
    <3>5. /\ grown.id = job[p].id /\ grown.data = job[p].data
          /\ grown.meta = job[p].meta /\ grown.qnext = job[p].qnext
          /\ grown.filter = job[p].filter /\ grown.len = need /\ grown.cap = need
      BY <2>1 DEF Job
    <3> HIDE DEF fits, grown
    <3>6. CASE need <= job[p].cap /\ job' = [job EXCEPT ![p] = fits] /\ UNCHANGED buf
      <4>1. Rewritten(p, fits)
        BY <2>1, <2>2, <3>2, <3>3, <3>6 DEF Rewritten
      <4> QED
        BY <2>1, <3>3, <4>1
    <3>7. CASE /\ job' = [job EXCEPT ![p] = grown]
               /\ buf' = [buf EXCEPT ![job[p].data] = need]
      <4>1. Rewritten(p, grown)
        BY <2>1, <2>2, <3>2, <3>4, <3>5, <3>7 DEF Rewritten
      <4> QED
        BY <2>1, <3>4, <4>1
    <3> QED
      BY <3>2, <3>6, <3>7
  <2> QED
    BY <2>3, <2>4
<1> QED
  BY <1>1, <1>2

\* The pump renders the job it took (JobWork).
LEMMA WorkKind ==
  ASSUME SpoolInv, JobWork
  PROVE  Still \/ \E p \in Ptr : Retired(p)
<1>1. taken \in Live /\ taken \in Ptr
  BY DEF JobWork, SpoolInv, SpoolTypeOK, Link, TakenLive, Live
<1>2. CASE DropCancelled(taken)
  BY <1>2, CrashKind DEF DropCancelled, FaultKind
<1>3. CASE RenderAndRetire(taken, active)
  BY <1>1, <1>3, RenderKind
<1> QED
  BY <1>2, <1>3 DEF JobWork

\* The calls of a program that offers the filters of F.
Calls(F) ==
  \/ \E f \in F \cup {NULL}, n \in Arg, ret \in Id \cup {SPOOL_ERR} : JobSubmit(f, n, ret)
  \/ \E id \in WireId, ret \in {SPOOL_OK, SPOOL_ERR} :
       \/ JobRender(id, ret) \/ JobCancel(id, ret) \/ JobRecycle(id, ret)
       \/ \E n \in Arg : JobAppend(id, n, ret)
  \/ \E id \in WireId, ret \in Id \cup {SPOOL_ERR} : JobDup(id, ret)
  \/ \E verbose \in BOOLEAN : JobStatus(verbose)
  \/ JobFlush

\* Any call a client can make, with the filters of F.
LEMMA CallKind ==
  ASSUME SpoolInv, ~pumping, NEW F \in SUBSET Filter, Calls(F)
  PROVE  Kinds(F)
<1>1. taken = NULL
  BY DEF SpoolInv, TakenLive
<1>2. \A n \in Arg : n \in Nat
  BY DEF Arg
<1>3. CASE \E f \in F \cup {NULL}, n \in Arg, ret \in Id \cup {SPOOL_ERR} : JobSubmit(f, n, ret)
  BY <1>1, <1>2, <1>3, SubmitKind
<1>4. CASE \E id \in WireId, ret \in {SPOOL_OK, SPOOL_ERR} :
             \/ JobRender(id, ret) \/ JobCancel(id, ret) \/ JobRecycle(id, ret)
             \/ \E n \in Arg : JobAppend(id, n, ret)
  BY <1>1, <1>2, <1>4, JobRenderKind, CancelKind, RecycleKind, AppendKind DEF Kinds
<1>5. CASE \E id \in WireId, ret \in Id \cup {SPOOL_ERR} : JobDup(id, ret)
  BY <1>1, <1>5, DupKind
<1>6. CASE \E verbose \in BOOLEAN : JobStatus(verbose)
  BY <1>6, StutterKind, CrashKind DEF JobStatus, FaultKind, Kinds
<1>7. CASE JobFlush
  BY <1>1, <1>7 DEF Kinds
<1> QED
  BY <1>3, <1>4, <1>5, <1>6, <1>7 DEF Calls

\* Any step of the pump, which brings no filter.
LEMMA PumpKind ==
  ASSUME SpoolInv, NEW F, JobDequeue \/ JobWork \/ PumpEnds
  PROVE  Kinds(F)
BY WorkKind DEF Kinds, PumpEnds

\* Whatever its kind, a step preserves the invariant.
LEMMA KindsInv ==
  ASSUME SpoolInv, NEW F, Kinds(F)
  PROVE  SpoolInv'
BY StillInv, RecycledInv, RetiredInv, RewrittenInv, AddedInv, FlushInv, DequeueInv DEF Kinds

\* So every step of the store is of one of the kinds.
LEMMA SpoolNextKind ==
  ASSUME SpoolInv, [SpoolNext]_spoolVars
  PROVE  Kinds(Filter)
<1>1. CASE Ended \/ UNCHANGED spoolVars
  BY <1>1, StutterKind DEF Ended, Kinds
<1>2. CASE Pump
  BY <1>2, PumpKind DEF Pump
<1>3. CASE Call
  <2>1. ~pumping /\ Calls(Filter)
    BY <1>3 DEF Call, Calls
  <2> QED
    BY <2>1, CallKind
<1> QED
  BY <1>1, <1>2, <1>3 DEF SpoolNext

-----------------------------------------------------------------------------
(* What the table of ids and the queue show of a step.                     *)

\* The table shows nothing of an id, or the job and its length.
LEMMA ContentsIs ==
  ASSUME SpoolInv, NEW i \in Id
  PROVE  /\ Contents[i] = NULL <=> slots[i] = NULL
         /\ slots[i] # NULL =>
              /\ slots[i] \in Live /\ job[slots[i]].id = i
              /\ Contents[i] = [obj |-> slots[i], len |-> job[slots[i]].len]
              /\ Contents[i].obj = slots[i]
<1>1. slots[i] # NULL => /\ slots[i] \in Live /\ job[slots[i]] \in Job
                         /\ job[slots[i]].id = i
  BY DEF SpoolInv, SpoolTypeOK, Link, JobTableConsistent, JobsNumbered, Live
<1>2. slots[i] # NULL => /\ job[slots[i]].len \in DocLen
                         /\ Contents[i] = [obj |-> slots[i], len |-> job[slots[i]].len]
  BY <1>1 DEF Contents, Job
<1>3. slots[i] # NULL => Contents[i] \in [obj: Ptr, len: DocLen]
  BY <1>1, <1>2 DEF Live
<1>4. slots[i] = NULL => Contents[i] = NULL
  BY DEF Contents
<1> QED
  BY <1>1, <1>2, <1>3, <1>4

\* Jobs that keep their ids and lengths are the same in the table.
LEMMA SameContents ==
  ASSUME SpoolInv, slots' = slots, \A x \in Live : job'[x].len = job[x].len
  PROVE  Contents' = Contents
<1>1. \A i \in Id : slots[i] # NULL => job'[slots[i]].len = job[slots[i]].len
  BY ContentsIs
<1> QED
  BY <1>1 DEF Contents

\* A table that differs in one place is the old one except there.
LEMMA ContentsExcept ==
  ASSUME NEW h \in Id, NEW e, Contents'[h] = e, \A i \in Id : i # h => Contents'[i] = Contents[i]
  PROVE  Contents' = [Contents EXCEPT ![h] = e]
<1>1. Contents = [i \in Id |-> Contents[i]] /\ Contents' = [i \in Id |-> Contents'[i]]
  BY DEF Contents
<1> QED
  BY <1>1

\* A new job is a Create of its id.
LEMMA AddedCreates ==
  ASSUME SpoolInv, NEW F, NEW p \in Ptr, NEW ret \in Id, NEW j \in Job, NEW b \in Buf,
         Added(F, p, ret, j, b)
  PROVE  Table!Next
<1> DEFINE e == [obj |-> p, len |-> j.len]
<1>1. /\ job[p] = NULL /\ job'[p] = j
      /\ \A x \in Live : x # p /\ job'[x].len = job[x].len
  <2>1. /\ job[p] = NULL /\ job'[p] = j
        /\ \A x \in Ptr : x # p => (job[x] # NULL => job'[x].len = job[x].len)
    BY AddedIs, ZenonT(30)
  <2> QED
    BY <2>1 DEF Live
<1>2. /\ slots' = [slots EXCEPT ![ret] = p] /\ slots[ret] = NULL
      /\ \A k \in Id : slots[k] = NULL => ret <= k
  BY DEF Added, AddJob, alloc_slot
<1>3. \A i \in Id : slots[i] # NULL => slots[i] # p
  BY <1>1, ContentsIs DEF Live
<1>4. Contents' = [Contents EXCEPT ![ret] = e]
  <2>1. Contents'[ret] = e
    BY <1>1, <1>2 DEF Contents, SpoolInv, SpoolTypeOK
  <2>2. \A i \in Id : i # ret => Contents'[i] = Contents[i]
    <3> SUFFICES ASSUME NEW i \in Id, i # ret PROVE Contents'[i] = Contents[i]
      OBVIOUS
    <3>1. slots'[i] = slots[i]
      BY <1>2 DEF SpoolInv, SpoolTypeOK
    <3>2. slots[i] # NULL => job'[slots[i]].len = job[slots[i]].len
      BY <1>1, ContentsIs
    <3> QED
      BY <3>1, <3>2 DEF Contents
  <2> QED
    BY <2>1, <2>2, ContentsExcept
<1>5. e \in Table!Entry
  BY DEF Table!Entry, Job
<1>6. \A i \in Id : Contents[i] # NULL => Contents[i].obj # e.obj
  <2>1. e.obj = p
    OBVIOUS
  <2> HIDE DEF e
  <2> SUFFICES ASSUME NEW i \in Id, Contents[i] # NULL PROVE Contents[i].obj # e.obj
    OBVIOUS
  <2>2. slots[i] # NULL /\ Contents[i].obj = slots[i]
    BY ContentsIs
  <2> QED
    BY <1>3, <2>1, <2>2
<1>7. \A k \in Id : Contents[k] = NULL => ret <= k
  BY <1>2, ContentsIs
<1>8. Contents[ret] = NULL
  BY <1>2, ContentsIs
<1> QED
  BY <1>4, <1>5, <1>6, <1>7, <1>8 DEF Table!Next, Table!Create

\* Other contents are an Update, if there are other contents.
LEMMA RewrittenUpdates ==
  ASSUME SpoolInv, NEW p \in Ptr, NEW new \in Job, Rewritten(p, new)
  PROVE  Table!Next
<1> DEFINE h == job[p].id
<1>1. job[p] \in Job /\ h \in Id /\ slots[h] = p
  BY DEF Rewritten, Live, SpoolInv, SpoolTypeOK, JobTableConsistent, JobsListed, Job
<1>2. slots' = slots /\ job'[p] = new /\ \A x \in Ptr : x # p => job'[x] = job[x]
  BY DEF Rewritten, SpoolInv, SpoolTypeOK
<1>3. Contents' = [Contents EXCEPT ![h] = [obj |-> Contents[h].obj, len |-> new.len]]
  <2>1. Contents'[h] = [obj |-> Contents[h].obj, len |-> new.len]
    <3>1. Contents[h].obj = p
      BY <1>1, ContentsIs
    <3> QED
      BY <1>1, <1>2, <3>1 DEF Contents
  <2>2. \A i \in Id : i # h => Contents'[i] = Contents[i]
    <3> SUFFICES ASSUME NEW i \in Id, i # h PROVE Contents'[i] = Contents[i]
      OBVIOUS
    <3>1. slots[i] # NULL => slots[i] \in Ptr /\ slots[i] # p
      BY ContentsIs DEF Live
    <3> QED
      BY <1>2, <3>1 DEF Contents
  <2> HIDE DEF h
  <2> QED
    BY <1>1, <2>1, <2>2, ContentsExcept
<1>4. Contents[h] # NULL /\ new.len \in DocLen
  BY <1>1, ContentsIs DEF Job
<1> QED
  BY <1>1, <1>3, <1>4 DEF Table!Next, Table!Update

\* Retiring is a Destroy.
LEMMA RetiredDestroys ==
  ASSUME SpoolInv, NEW p \in Ptr, Retired(p)
  PROVE  Table!Next
<1> DEFINE h == job[p].id
<1>1. job[p] # NULL /\ h \in Id /\ slots[h] = p /\ taken \in {p, NULL}
  BY DEF Retired, Live, SpoolInv, SpoolTypeOK, JobTableConsistent, JobsListed, Job
<1>2. \A x \in Ptr : x # p /\ job[x] # NULL => job'[x].len = job[x].len
  <2>1. PICK n \in Nat : \E q \in [1 .. n -> Ptr] : ListIs(n, q)
    BY DEF SpoolInv, Linked
  <2>2. PICK q \in [1 .. n -> Ptr] : ListIs(n, q)
    BY <2>1
  <2> QED
    BY <1>1, <2>2, UnlinkedIs DEF Retired
<1>3. slots' = [slots EXCEPT ![h] = NULL]
  BY DEF Retired, Vacate
<1>4. Contents' = [Contents EXCEPT ![h] = NULL]
  <2>1. Contents'[h] = NULL
    BY <1>1, <1>3 DEF Contents, SpoolInv, SpoolTypeOK
  <2>2. \A i \in Id : i # h => Contents'[i] = Contents[i]
    <3> SUFFICES ASSUME NEW i \in Id, i # h PROVE Contents'[i] = Contents[i]
      OBVIOUS
    <3>1. slots'[i] = slots[i]
      BY <1>3 DEF SpoolInv, SpoolTypeOK
    <3>2. slots[i] # NULL => job'[slots[i]].len = job[slots[i]].len
      BY <1>2, ContentsIs DEF Live
    <3> QED
      BY <3>1, <3>2 DEF Contents
  <2> HIDE DEF h
  <2> QED
    BY <1>1, <2>1, <2>2, ContentsExcept
<1>5. Contents[h] # NULL
  BY <1>1, ContentsIs
<1> QED
  BY <1>1, <1>4, <1>5 DEF Table!Next, Table!Destroy

\* Each kind of step is a step of the table of numbered objects, or none.
LEMMA KindsTable ==
  ASSUME SpoolInv, NEW F, Kinds(F)
  PROVE  Table!Next \/ UNCHANGED Contents
<1>1. CASE Still \/ (\E p \in Ptr : Recycled(p)) \/ JobFlush \/ PumpEnds
  BY <1>1, SameContents DEF Still, Recycled, JobFlush, PumpEnds
<1>2. CASE JobDequeue
  <2>1. slots' = slots /\ qhead \in Ptr /\ job[qhead] \in Job
        /\ job' = [job EXCEPT ![qhead].qnext = NULL]
    <3>1. PICK n \in Nat : \E q \in [1 .. n -> Ptr] : ListIs(n, q)
      BY DEF SpoolInv, Linked
    <3>2. PICK q \in [1 .. n -> Ptr] : ListIs(n, q)
      BY <3>1
    <3> QED
      BY <1>2, <3>2, DequeuedIs DEF SpoolInv, SpoolTypeOK
  <2>2. \A x \in Live : job[x] \in Job
    BY DEF Live, SpoolInv, SpoolTypeOK
  <2>3. job \in [Ptr -> Job \cup {NULL}]
    BY DEF SpoolInv, SpoolTypeOK
  <2>4. \A x \in Live : job'[x].len = job[x].len
    BY <2>1, <2>2, <2>3 DEF Live, Job
  <2> QED
    BY <2>1, <2>4, SameContents
<1>3. CASE \E p \in Ptr : Retired(p)
  BY <1>3, RetiredDestroys
<1>4. CASE \E p \in Ptr, new \in Job : Rewritten(p, new)
  BY <1>4, RewrittenUpdates
<1>5. CASE \E p \in Ptr, ret \in Id, j \in Job, b \in Buf : Added(F, p, ret, j, b)
  BY <1>5, AddedCreates
<1> QED
  BY <1>1, <1>2, <1>3, <1>4, <1>5 DEF Kinds

\* A job that is added is submitted to the queue.
LEMMA AddedSubmits ==
  ASSUME SpoolInv, NEW F, NEW p \in Ptr, NEW ret \in Id, NEW j \in Job, NEW b \in Buf,
         Added(F, p, ret, j, b)
  PROVE  Ready!Next
<1>1. PICK n \in Nat : \E q \in [1 .. n -> Ptr] : ListIs(n, q)
  BY DEF SpoolInv, Linked
<1>2. PICK q \in [1 .. n -> Ptr] : ListIs(n, q)
  BY <1>1
<1>3. /\ job[p] = NULL /\ taken = NULL /\ enqueue(p, j) /\ j.qnext = NULL
      /\ UNCHANGED <<taken, pumping>> /\ ~pumping
  BY DEF Added, AddJob, FreshJob
<1>4. Extended(n, q, p) \in [1 .. n + 1 -> Ptr] /\ ListIs(n + 1, Extended(n, q, p))'
  BY <1>2, <1>3, ListExtended DEF SpoolInv
<1>5. Queue' = Extended(n, q, p) /\ Queue = q
  <2>1. n + 1 \in Nat
    OBVIOUS
  <2> QED
    BY <1>2, <1>4, <2>1, QueueIs, QueueIsNext
<1>6. Extended(n, q, p) = Append(q, p) /\ Len(q) = n
  <2>1. q \in Seq(Ptr) /\ Len(q) = n
    OBVIOUS
  <2>2. /\ Append(q, p) \in Seq(Ptr) /\ Len(Append(q, p)) = n + 1
        /\ \A i \in 1 .. n : Append(q, p)[i] = q[i]
        /\ Append(q, p)[n + 1] = p
    BY <2>1, AppendProperties
  <2>3. Extended(n, q, p) \in Seq(Ptr) /\ Len(Extended(n, q, p)) = n + 1
    BY <1>4
  <2>4. \A i \in 1 .. n + 1 : Extended(n, q, p)[i] = Append(q, p)[i]
    BY <2>2 DEF Extended
  <2> QED
    BY <2>1, <2>2, <2>3, <2>4, SeqEqual
<1>7. \A i \in 1 .. n : q[i] # p
  BY <1>2, <1>3 DEF ListIs
<1> QED
  BY <1>3, <1>5, <1>6, <1>7 DEF Ready!Next, Ready!Submit

\* A client's job that is retired is withdrawn from the queue; the pump's is not on it.
LEMMA RetiredWithdraws ==
  ASSUME SpoolInv, NEW p \in Ptr, Retired(p)
  PROVE  (\E m \in 1 .. Len(Queue) : Ready!Withdraw(m)) \/ UNCHANGED <<Queue, pumping>>
<1>1. PICK n \in Nat : \E q \in [1 .. n -> Ptr] : ListIs(n, q)
  BY DEF SpoolInv, Linked
<1>2. PICK q \in [1 .. n -> Ptr] : ListIs(n, q)
  BY <1>1
<1>3. /\ job[p] # NULL /\ taken \in {p, NULL} /\ UnlinkAndFree(p) /\ taken' = NULL
      /\ pumping' = pumping /\ (taken = NULL => ~pumping)
  BY DEF Retired, Live
<1>4. Queue = q /\ Len(q) = n
  BY <1>2, QueueIs
<1>5. CASE ListIs(n, q)'
  BY <1>3, <1>4, <1>5, QueueIsNext
<1>6. CASE ~ListIs(n, q)'
  <2>1. PICK m \in 1 .. n : /\ taken = NULL /\ Without(n, q, m) \in [1 .. n - 1 -> Ptr]
                            /\ ListIs(n - 1, Without(n, q, m))'
    BY <1>2, <1>3, <1>6, UnlinkedIs
  <2>2. n - 1 \in Nat
    BY <2>1
  <2>3. Queue' = Without(n, q, m)
    BY <2>1, <2>2, QueueIsNext
  <2>4. Ready!Withdraw(m)
    BY <1>3, <1>4, <2>1, <2>3 DEF Ready!Withdraw, Without
  <2> QED
    BY <1>4, <2>4
<1> QED
  BY <1>5, <1>6

\* The pump takes the first.
LEMMA DequeuedTakes ==
  ASSUME SpoolInv, JobDequeue
  PROVE  Ready!Take /\ taken' # NULL
<1>1. PICK n \in Nat : \E q \in [1 .. n -> Ptr] : ListIs(n, q)
  BY DEF SpoolInv, Linked
<1>2. PICK q \in [1 .. n -> Ptr] : ListIs(n, q)
  BY <1>1
<1>3. /\ n # 0 /\ pumping /\ pumping' = pumping /\ taken' # NULL
      /\ Without(n, q, 1) \in [1 .. n - 1 -> Ptr] /\ ListIs(n - 1, Without(n, q, 1))'
  BY <1>2, DequeuedIs DEF JobDequeue
<1>4. Queue' = Without(n, q, 1) /\ Queue = q
  <2>1. n - 1 \in Nat
    BY <1>3
  <2> QED
    BY <1>2, <1>3, <2>1, QueueIs, QueueIsNext
<1>5. Len(q) = n /\ q # <<>> /\ q \in Seq(Ptr)
  BY <1>3
<1>6. Tail(q) = Without(n, q, 1)
  <2>1. Tail(q) \in Seq(Ptr) /\ Len(Tail(q)) = n - 1 /\ \A i \in 1 .. n - 1 : Tail(q)[i] = q[i + 1]
    BY <1>5, HeadTailProperties
  <2>2. Without(n, q, 1) \in Seq(Ptr) /\ Len(Without(n, q, 1)) = n - 1
    BY <1>3
  <2>3. \A i \in 1 .. n - 1 : Without(n, q, 1)[i] = q[i + 1]
    BY DEF Without
  <2> QED
    BY <2>1, <2>2, <2>3, SeqEqual
<1> QED
  BY <1>3, <1>4, <1>5, <1>6 DEF Ready!Take

\* The queue is the same in a step that changes no job's place.
LEMMA QueueKept ==
  ASSUME SpoolInv, UNCHANGED <<qhead, qtail, taken>>,
         \A p \in Ptr : job'[p] # NULL <=> job[p] # NULL,
         \A p \in Ptr : job[p] # NULL => job'[p].qnext = job[p].qnext
  PROVE  Queue' = Queue
<1>1. PICK n \in Nat : \E q \in [1 .. n -> Ptr] : ListIs(n, q)
  BY DEF SpoolInv, Linked
<1>2. PICK q \in [1 .. n -> Ptr] : ListIs(n, q)
  BY <1>1
<1>3. ListIs(n, q)'
  BY <1>2, ListKept
<1> QED
  BY <1>2, <1>3, QueueIs, QueueIsNext

\* Each kind of step is a step of the ready queue, or none.
LEMMA KindsReady ==
  ASSUME SpoolInv, NEW F, Kinds(F)
  PROVE  Ready!Next \/ UNCHANGED <<Queue, pumping>>
<1>1. CASE Still \/ \E p \in Ptr : Recycled(p)
  <2>1. UNCHANGED <<qhead, qtail, taken, job, pumping>>
    BY <1>1 DEF Still, Recycled
  <2> QED
    BY <2>1, QueueKept
<1>2. CASE \E p \in Ptr, new \in Job : Rewritten(p, new)
  <2>1. PICK p \in Ptr, new \in Job : Rewritten(p, new)
    BY <1>2
  <2>2. /\ UNCHANGED <<qhead, qtail, taken, pumping>>
        /\ job'[p] = new /\ new # NULL /\ job[p] # NULL /\ new.qnext = job[p].qnext
        /\ \A x \in Ptr : x # p => job'[x] = job[x]
    BY <2>1 DEF Rewritten, Live, SpoolInv, SpoolTypeOK
  <2> QED
    BY <2>2, QueueKept
<1>3. CASE JobFlush \/ PumpEnds
  <2>1. UNCHANGED <<qhead, qtail, taken, job>>
    BY <1>3 DEF JobFlush, PumpEnds
  <2>2. Queue' = Queue
    BY <2>1, QueueKept
  <2>3. PumpEnds => Queue = <<>>
    BY LinkedSound DEF PumpEnds, SpoolInv
  <2> QED
    BY <1>3, <2>2, <2>3 DEF JobFlush, PumpEnds, Ready!Next, Ready!Begin, Ready!End
<1> QED
  BY <1>1, <1>2, <1>3, AddedSubmits, RetiredWithdraws, DequeuedTakes DEF Kinds, Ready!Next

-----------------------------------------------------------------------------
(* Which faults there are.                                                 *)

\* The pointer a call gets is to a job that exists (JobGet).
LEMMA NeverStale ==
  ASSUME SpoolInv, NEW id \in WireId
  PROVE  ~StaleJob(id)
<1>1. CASE id = SPOOL_RECENT
  BY <1>1 DEF StaleJob, JobGet, SpoolInv, ActiveLive
<1>2. CASE id # SPOOL_RECENT
  BY <1>2 DEF StaleJob, JobGet, Slot, SpoolInv, JobTableConsistent, JobsNumbered
<1> QED
  BY <1>1, <1>2

\* A document that is missing went when RECYCLE freed the one it had kept.
LEMMA DocumentMissing ==
  ASSUME SpoolInv, NEW p \in Live, buf[job[p].data] = NULL
  PROVE  DocumentGivenAway
<1>1. job[p].cap \in DocCap /\ Greater(MaxDoc, MinCap) \in Int
  BY SpoolCoreAssumption DEF Live, SpoolInv, SpoolTypeOK, Job, Greater
<1>2. job[p].cap # NULL
  BY <1>1 DEF DocCap
<1> QED
  BY <1>2 DEF Live, SpoolInv, DocumentsOwned, DocumentGivenAway

\* Rendering misses nothing but a document or metadata, or the filter consumes.
LEMMA RenderCaused ==
  ASSUME SpoolInv, NEW p \in Live, NEW named, RenderAndRetire(p, named)
  PROVE  JobFaultCaused
<1>1. CASE Crash("data") /\ buf[job[p].data] = NULL
  BY <1>1, DocumentMissing DEF Crash, JobFaultCaused
<1>2. CASE Crash("meta") /\ job[p].meta # NULL /\ job[p].meta \notin metas
  BY <1>2 DEF Crash, Live, JobFaultCaused, MetadataFreed
<1>3. CASE Crash("consumed") /\ job[p].filter \in Consuming
  BY <1>3 DEF Crash, Live, JobFaultCaused, ConsumerHolds
<1>4. CASE fault' = fault
  BY <1>4 DEF JobFaultCaused
<1> QED
  BY <1>1, <1>2, <1>3, <1>4 DEF RenderAndRetire, JobRetire, Readable

\* Appending misses a document at most, or the block of one that grows moves (JobAppend).
LEMMA JobAppendCaused ==
  ASSUME SpoolInv, NEW id \in WireId, NEW len \in Arg, NEW ret, JobAppend(id, len, ret)
  PROVE  JobFaultCaused
<1>1. CASE UNCHANGED fault
  BY <1>1 DEF JobFaultCaused
<1>2. CASE LiveJob(id) /\ ~TooLong(JobGet(id), len) /\ AppendTo(JobGet(id), len)
  <2> DEFINE p == JobGet(id)
             need == (job[p].len + len) % Word
  <2>1. p \in Live /\ p \in Ptr /\ job[p] # NULL /\ job[p].len \in DocLen /\ job[p].cap \in DocCap
    BY <1>2, FoundIs DEF Live, Job
  <2>2. \/ fault' = fault
        \/ fault' = "moved" /\ ~(need <= job[p].cap)
        \/ fault' = "data" /\ buf[job[p].data] = NULL
    BY <1>2 DEF AppendTo
  <2>3. CASE fault' = "moved" /\ ~(need <= job[p].cap)
    <3>1. /\ len \in Nat /\ job[p].len \in Nat /\ job[p].cap \in Int /\ MaxDoc \in Nat
          /\ len <= MaxDoc /\ job[p].len <= MaxDoc /\ need <= MaxDoc
          /\ MaxDoc + MaxDoc < Word /\ Word \in Nat
      <4>1. MaxDoc \in Nat /\ Greater(MaxDoc, MinCap) \in Int /\ MaxDoc + MaxDoc < Word /\ Word \in Nat
        BY SpoolCoreAssumption, MachineAssumption DEF Greater
      <4>2. len \in Nat /\ job[p].len \in Nat /\ job[p].cap \in Int /\ job[p].len <= MaxDoc
        BY <2>1, <4>1 DEF Arg, DocLen, DocCap
      <4>3. ~(len > MaxDoc) /\ ~(need > MaxDoc)
        BY <1>2 DEF TooLong
      <4>4. need \in Int
        BY <4>1, <4>2
      <4> QED
        BY <4>1, <4>2, <4>3, <4>4
    <3>2. job[p].len + len \in 0 .. Word - 1
      BY <3>1
    <3>3. need = job[p].len + len
      BY <3>1, <3>2
    <3>4. job[p].len + len \in job[p].cap + 1 .. MaxDoc
      BY <2>3, <3>1, <3>3
    <3> QED
      BY <2>1, <2>3, <3>4 DEF JobFaultCaused, MustGrow
  <2> QED
    BY <2>1, <2>2, <2>3, DocumentMissing DEF JobFaultCaused
<1> QED
  BY <1>1, <1>2, NeverStale DEF JobAppend, NoJob, spoolVars

\* Copying misses the document at most (JobDup).
LEMMA DupCaused ==
  ASSUME SpoolInv, NEW id \in WireId, NEW ret, JobDup(id, ret)
  PROVE  JobFaultCaused
<1>1. CASE UNCHANGED fault
  BY <1>1 DEF JobFaultCaused
<1>2. CASE LiveJob(id) /\ ~Readable(JobGet(id)) /\ Crash("data")
  <2>1. JobGet(id) \in Live
    BY <1>2, FoundIs
  <2> QED
    BY <1>2, <2>1, DocumentMissing DEF Readable, Crash, JobFaultCaused
<1> QED
  BY <1>1, <1>2, NeverStale DEF JobDup, NoJob, AddJob, spoolVars

\* The other calls find what they look for, and RECYCLE may find the buffer it kept gone.
LEMMA CallCaused ==
  ASSUME SpoolInv, Call
  PROVE  JobFaultCaused
<1>1. CASE \/ \E f \in Filter \cup {NULL}, n \in Arg, ret \in Id \cup {SPOOL_ERR} : JobSubmit(f, n, ret)
           \/ JobFlush
  BY <1>1 DEF JobSubmit, AddJob, JobFlush, spoolVars, JobFaultCaused
<1>2. ASSUME NEW id \in WireId, NEW ret, JobRender(id, ret)
      PROVE  JobFaultCaused
  <2>1. CASE NoJob(id, ret)
    BY <2>1 DEF NoJob, spoolVars, JobFaultCaused
  <2>2. CASE LiveJob(id) /\ RenderAndRetire(JobGet(id), JobGet(id))
    BY <2>2, FoundIs, RenderCaused
  <2> QED
    BY <1>2, <2>1, <2>2, NeverStale DEF JobRender
<1>3. ASSUME NEW id \in WireId, NEW ret, JobCancel(id, ret)
      PROVE  JobFaultCaused
  BY <1>3, NeverStale DEF JobCancel, NoJob, spoolVars, JobFaultCaused
<1>4. ASSUME NEW id \in WireId, NEW ret, JobRecycle(id, ret)
      PROVE  JobFaultCaused
  BY <1>4, NeverStale DEF JobRecycle, NoJob, Crash, spoolVars, JobFaultCaused, KeptFreed
<1>5. CASE \E verbose \in BOOLEAN : JobStatus(verbose)
  BY <1>5 DEF JobStatus, SpoolInv, ActiveLive, spoolVars, JobFaultCaused
<1> QED
  BY <1>1, <1>2, <1>3, <1>4, <1>5, JobAppendCaused, DupCaused DEF Call

\* The first job of the queue is there, and so is the one the pump has taken.
LEMMA PumpCaused ==
  ASSUME SpoolInv, Pump
  PROVE  JobFaultCaused
<1>1. CASE JobDequeue \/ PumpEnds
  <2>1. CASE JobDequeue
    BY <2>1, DequeuedIs DEF SpoolInv, Linked, JobFaultCaused
  <2> QED
    BY <1>1, <2>1 DEF PumpEnds, JobFaultCaused
<1>2. CASE JobWork
  <2>1. taken \in Live
    BY <1>2 DEF JobWork, SpoolInv, SpoolTypeOK, Link, TakenLive, Live
  <2>2. CASE job[taken].state = "cancelled" /\ DropCancelled(taken)
    BY <1>2, <2>2 DEF JobWork, DropCancelled, Crash, JobFaultCaused, CancelledTaken
  <2> QED
    BY <1>2, <2>1, <2>2, RenderCaused DEF JobWork
<1> QED
  BY <1>1, <1>2 DEF Pump

-----------------------------------------------------------------------------
(* The end of the pump.                                                    *)

\* What the pump has before it: to take and to render each job that is queued, to render
\* the one it has, and to find the queue empty.
PumpRemaining ==
  IF ~pumping THEN 0 ELSE 2 * Len(Queue) + (IF taken = NULL THEN 1 ELSE 2)

\* The queue can be counted.
LEMMA QueueCounted ==
  ASSUME SpoolInv
  PROVE  Queue \in Seq(Ptr) /\ Len(Queue) \in Nat /\ PumpRemaining \in Nat
<1>1. Queue \in Seq(Ptr)
  BY LinkedSound DEF SpoolInv
<1>2. Len(Queue) \in Nat
  BY <1>1, LenProperties
<1> QED
  BY <1>1, <1>2 DEF PumpRemaining

\* A job is taken off the queue, or one that was is done with, or there was none left.
LEMMA PumpForward ==
  ASSUME SpoolInv, Pump, fault' = "none"
  PROVE  PumpRemaining' < PumpRemaining
<1>1. fault = "none" /\ pumping
  BY DEF Pump, JobDequeue, JobWork, PumpEnds, SpoolInv, TakenLive
<1>2. Len(Queue) \in Nat /\ Queue \in Seq(Ptr)
  BY QueueCounted
<1>3. CASE PumpEnds
  BY <1>1, <1>2, <1>3 DEF PumpEnds, PumpRemaining
<1>4. CASE JobDequeue
  <2>1. Queue # <<>> /\ Queue' = Tail(Queue) /\ taken = NULL /\ taken' # NULL /\ pumping'
    BY <1>1, <1>4, DequeuedTakes, DequeuedIs DEF JobDequeue, Ready!Take, Crash
  <2>2. Len(Tail(Queue)) = Len(Queue) - 1
    BY <1>2, <2>1, HeadTailProperties
  <2> QED
    BY <1>1, <1>2, <2>1, <2>2 DEF PumpRemaining
<1>5. CASE JobWork
  <2>1. JobRetire(taken, active) /\ ~Crash("meta") /\ ~Crash("data")
    BY <1>5 DEF JobWork, DropCancelled, RenderAndRetire, Crash
  <2>2. taken # NULL /\ taken' = NULL /\ UNCHANGED <<scratch, pumping>>
    BY <1>5, <2>1 DEF JobWork, JobRetire
  <2>3. taken \in Live /\ taken \in Ptr
    BY <1>5 DEF JobWork, SpoolInv, SpoolTypeOK, Link, TakenLive, Live
  <2>4. Retired(taken)
    BY <2>1, <2>3 DEF JobRetire, Retired, active_after, Live
  <2>5. UNCHANGED <<Queue, pumping>>
    BY <1>1, <2>3, <2>4, RetiredWithdraws DEF Ready!Withdraw
  <2> QED
    BY <1>1, <1>2, <2>2, <2>5 DEF PumpRemaining
<1> QED
  BY <1>3, <1>4, <1>5 DEF Pump

-----------------------------------------------------------------------------
(* Theorems about the job store.                                           *)

\* The job table, the ready queue, the cache and the memory of the store stay
\* consistent with each other (spoolcore.c as a whole).
THEOREM SpoolInvariant == SpoolSpec => []SpoolInv
<1>1. SpoolInv /\ [SpoolNext]_spoolVars => SpoolInv'
  BY SpoolNextKind, KindsInv
<1> QED
  BY <1>1, SpoolNewInv, PTL DEF SpoolSpec

\* Ids, count and jobs agree after any calls ("the job table is kept correct").
THEOREM JobTableStaysConsistent == SpoolSpec => []JobTableConsistent
<1>1. SpoolInv => JobTableConsistent
  BY DEF SpoolInv
<1> QED
  BY <1>1, SpoolInvariant, PTL

\* Every submitted job is in the pump's reach exactly once (enqueue, unlink_queue).
THEOREM QueueStaysSound == SpoolSpec => []QueueSound
<1>1. SpoolInv => QueueSound
  BY LinkedSound DEF SpoolInv
<1> QED
  BY <1>1, SpoolInvariant, PTL

\* A job has its buffer to itself, until RECYCLE keeps it as well (JobRecycle).
THEOREM DocumentsStayOwned == SpoolSpec => []DocumentsOwned
<1>1. SpoolInv => DocumentsOwned
  BY DEF SpoolInv
<1> QED
  BY <1>1, SpoolInvariant, PTL

\* Every block that is allocated has a job (free_job).
THEOREM NothingIsLeaked == SpoolSpec => []NothingLeaked
<1>1. SpoolInv => NothingLeaked
  BY DEF SpoolInv
<1> QED
  BY <1>1, SpoolInvariant, PTL

\* The types of the store's variables (spoolcore.c).
THEOREM SpoolTyped == SpoolSpec => []SpoolTypeOK
<1>1. SpoolInv => SpoolTypeOK
  BY DEF SpoolInv
<1> QED
  BY <1>1, SpoolInvariant, PTL

\* The store implements the table of numbered objects (SpoolTable).
THEOREM StoreImplementsJobTable == SpoolSpec => JobsImplementHandleTable
<1>1. SpoolNew => Table!Init
  BY DEF SpoolNew, Table!Init, Contents
<1>2. SpoolInv /\ [SpoolNext]_spoolVars => [Table!Next]_Contents
  BY SpoolNextKind, KindsTable
<1> QED
  BY <1>1, <1>2, SpoolInvariant, PTL DEF SpoolSpec, JobsImplementHandleTable, Table!Spec

\* The linked list implements the ready queue, for any number of jobs: they are taken
\* in the order they came, whatever is retired in between (JobDequeue, unlink_queue).
THEOREM ListImplementsQueue == SpoolSpec => ImplementsReadyQueue
<1>1. SpoolNew => Ready!Init
  <2> SUFFICES ASSUME SpoolNew PROVE Ready!Init
    OBVIOUS
  <2>1. SpoolInv /\ qhead = NULL /\ ~pumping /\ pumping = FALSE
    BY SpoolNewInv DEF SpoolNew
  <2>2. Queue = <<>>
    BY <2>1, LinkedSound DEF SpoolInv
  <2> QED
    BY <2>1, <2>2 DEF Ready!Init
<1>2. SpoolInv /\ [SpoolNext]_spoolVars => [Ready!Next]_<<Queue, pumping>>
  BY SpoolNextKind, KindsReady
<1> QED
  BY <1>1, <1>2, SpoolInvariant, PTL DEF SpoolSpec, ImplementsReadyQueue, Ready!Spec

\* g_active names a job of the table, and the process ends only by what RECYCLE or DUP
\* made two owners of, a cancelled job in the pump, a block that moved or a filter that
\* consumes: never by g_active, nor by a link (free_job, JobGet, JobDequeue, JobRecycle).
THEOREM JobFaultsAreCaused == SpoolSpec => []ActiveLive /\ JobFaultsHaveCause
<1>1. SpoolInv => ActiveLive
  BY DEF SpoolInv
<1>2. SpoolInv /\ [SpoolNext]_spoolVars => [JobFaultCaused]_spoolVars
  BY CallCaused, PumpCaused DEF SpoolNext, Ended
<1> QED
  BY <1>1, <1>2, SpoolInvariant, PTL DEF SpoolSpec, JobFaultsHaveCause

\* Each step of the pump leaves less before it: JobFlush takes two steps for a job that
\* was queued when it began and one to end, unless one of them ends the process; nobody
\* keeps it going by submitting more (JobFlush, JobDequeue, JobWork).
THEOREM PumpGoesForward ==
  SpoolSpec =>
    /\ [](PumpRemaining \in Nat)
    /\ [][pumping => PumpRemaining' < PumpRemaining \/ fault' # "none"]_spoolVars
<1>1. SpoolInv => PumpRemaining \in Nat
  BY QueueCounted
<1>2. SpoolInv /\ [SpoolNext]_spoolVars
        => [pumping => PumpRemaining' < PumpRemaining \/ fault' # "none"]_spoolVars
  BY PumpForward DEF SpoolNext, Call, Ended
<1> QED
  BY <1>1, <1>2, SpoolInvariant, PTL DEF SpoolSpec
=============================================================================

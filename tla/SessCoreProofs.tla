--------------------------- MODULE SessCoreProofs ---------------------------
(***************************************************************************)
(* Proofs about the session store, for every number of handles, every heap *)
(* and every word size.  Each operation is shown to preserve StoreInv on   *)
(* its own, so that the frontends' proofs can cite the operation they call.*)
(***************************************************************************)
EXTENDS SessCore, FiniteSetTheorems, SequenceTheorems, TLAPS

\* The handles are finitely many, so the number of open ones can be counted.
LEMMA HandlesFinite ==
  ASSUME NEW S \in SUBSET Handle, NEW h \in Handle
  PROVE  /\ Cardinality(S) \in Nat
         /\ h \notin S => Cardinality(S \cup {h}) = Cardinality(S) + 1
         /\ h \in S => Cardinality(S \ {h}) = Cardinality(S) - 1
<1>1. SessMax \in Int
  BY SessCoreAssumption
<1>2. IsFiniteSet(Handle)
  BY <1>1, FS_Interval DEF Handle
<1>3. IsFiniteSet(S) /\ Cardinality(S) \in Nat
  BY <1>2, FS_Subset, FS_CardinalityType
<1> QED
  BY <1>3, FS_AddElement, FS_RemoveElement

USE MachineAssumption, SessCoreAssumption

\* The lesser of two uint32_t values is one of them (the clamps of SessOpen,
\* SessUseSet and SessFlush).
LEMMA Clamp ==
  ASSUME NEW m \in Nat, NEW n \in Nat
  PROVE  /\ Lesser(m, n) \in Nat /\ Lesser(m, n) <= m /\ Lesser(m, n) <= n
         /\ Greater(m, n) \in Nat /\ m <= Greater(m, n) /\ n <= Greater(m, n)
         /\ Lesser(m, n) \in {m, n} /\ Greater(m, n) \in {m, n}
BY DEF Lesser, Greater

\* What SessDefer captured is a buffer address and a length.
LEMMA Captured ==
  ASSUME TypeOK, NEW i \in 1 .. Len(batch)
  PROVE  batch[i] \in Deferred /\ batch[i].data \in Buf /\ batch[i].len \in U32
<1>1. batch[i] \in Deferred
  BY ElementOfSeq DEF TypeOK
<1> QED
  BY <1>1 DEF Deferred

\* A fresh table satisfies the invariant (SessNew).
LEMMA NewInv == SessNew => StoreInv
<1> SUFFICES ASSUME SessNew PROVE StoreInv
  OBVIOUS
<1>1. TypeOK
  BY DEF SessNew, TypeOK, FaultKind
<1>2. CountExact
  <2>1. {h \in Handle : slots[h] # NULL} = {}
    BY DEF SessNew
  <2> QED
    BY <2>1, FS_EmptySet DEF SessNew, CountExact
<1>3. SlotsLive /\ SessionsListed /\ BufferFits /\ BufferUnshared /\ BufferHasOwner
  BY DEF SessNew, SlotsLive, SessionsListed, BufferFits, BufferUnshared, BufferHasOwner
<1>4. BatchInBounds /\ HandlePathSafe
  BY DEF SessNew, BatchInBounds, HandlePathSafe
<1> QED
  BY <1>1, <1>2, <1>3, <1>4 DEF StoreInv, TableConsistent, BuffersOwned

\* Nothing the invariant speaks of changes when the process ends anywhere but
\* through a handle.
LEMMA FaultInv ==
  ASSUME StoreInv, fault' \in FaultKind \ {"handle"}, recent' \in Ptr \cup {NULL},
         UNCHANGED <<slots, count, batch, sess, buf>>
  PROVE  StoreInv'
BY DEF StoreInv, TypeOK, TableConsistent, CountExact, SlotsLive, SessionsListed,
       BuffersOwned, BufferFits, BufferUnshared, BufferHasOwner, BatchInBounds,
       HandlePathSafe

LEMMA CrashInv ==
  ASSUME StoreInv, NEW kind \in FaultKind \ {"handle"}, Crash(kind)
  PROVE  StoreInv'
BY FaultInv DEF Crash, StoreInv, TypeOK

LEMMA StutterInv ==
  ASSUME StoreInv, UNCHANGED storeVars
  PROVE  StoreInv'
BY DEF StoreInv, TypeOK, storeVars, TableConsistent, CountExact, SlotsLive, SessionsListed,
       BuffersOwned, BufferFits, BufferUnshared, BufferHasOwner, BatchInBounds,
       HandlePathSafe

\* g_recent is the only variable an operation that merely looks a session up
\* changes, and it takes a pointer the store already holds (SessGet).
LEMMA TouchInv ==
  ASSUME StoreInv, NEW id \in WireHandle, Touch(id),
         UNCHANGED <<slots, count, batch, sess, buf, fault>>
  PROVE  StoreInv'
<1>1. recent' \in Ptr \cup {NULL}
  BY DEF StoreInv, TypeOK, Touch, SessGet, Slot
<1> QED
  BY <1>1 DEF StoreInv, TypeOK, TableConsistent, CountExact, SlotsLive, SessionsListed,
       BuffersOwned, BufferFits, BufferUnshared, BufferHasOwner, BatchInBounds,
       HandlePathSafe

\* A handle that is not RECENT never leads to a freed session, so the process
\* can end in a lookup only through g_recent.
LEMMA StaleInv ==
  ASSUME StoreInv, NEW id \in WireHandle, StaleSession(id)
  PROVE  StoreInv'
<1>1. id = SESS_RECENT
  BY DEF StaleSession, SessGet, Slot, StoreInv, TableConsistent, SlotsLive
<1>2. Crash("recent")
  BY <1>1 DEF StaleSession, Via
<1> QED
  BY <1>2, CrashInv DEF FaultKind

\* OPEN: the new session takes an empty slot and two blocks nobody points to.
LEMMA OpenInv ==
  ASSUME StoreInv, NEW handler \in Handler \cup {NULL}, NEW len \in U32,
         NEW held, NEW ret, SessOpen(handler, len, held, ret)
  PROVE  StoreInv'
<1>1. CASE UNCHANGED storeVars
  BY <1>1, StutterInv
<1>2. CASE ~UNCHANGED storeVars
  <2> DEFINE n == Lesser(len, MaxData)
             cap == Greater(n, MinCap)
  <2>1. /\ handler \in Handler /\ ret \in Handle /\ slots[ret] = NULL
        /\ count' = count + 1 /\ batch' = batch /\ fault' = fault
    BY <1>2 DEF SessOpen, FreeSlot
  <2>2. PICK p \in Ptr, b \in Buf :
          /\ sess[p] = NULL /\ buf[b] = NULL
          /\ \A i \in 1 .. Len(batch) : batch[i].data # b
          /\ sess' = [sess EXCEPT ![p] = [id |-> ret, handler |-> handler,
                                          data |-> b, len |-> n, cap |-> cap]]
          /\ buf' = [buf EXCEPT ![b] = cap]
          /\ slots' = [slots EXCEPT ![ret] = p]
          /\ recent' = p
    BY <1>2 DEF SessOpen, FreeSlot, FreshPtr, FreshBuf
  <2>3. n \in U32 /\ cap \in U32 /\ n <= cap
    BY Clamp DEF U32, Lesser, Greater
  <2> HIDE DEF n, cap
  <2> DEFINE new == [id |-> ret, handler |-> handler, data |-> b, len |-> n, cap |-> cap]
  <2>4. new \in Session /\ new # NULL
    BY <2>1, <2>3 DEF Session
  <2>5. TypeOK'
    BY <2>1, <2>2, <2>3, <2>4 DEF StoreInv, TypeOK
  <2>6. CountExact'
    <3> DEFINE S == {h \in Handle : slots[h] # NULL}
    <3>1. S' = S \cup {ret} /\ ret \notin S
      BY <2>1, <2>2 DEF StoreInv, TypeOK
    <3>2. Cardinality(S') = Cardinality(S) + 1
      BY <2>1, <3>1, HandlesFinite
    <3> QED
      BY <2>1, <3>2 DEF StoreInv, TableConsistent, CountExact
  <2>7. SlotsLive'
    BY <2>1, <2>2, <2>4 DEF StoreInv, TypeOK, TableConsistent, SlotsLive
  <2>8. SessionsListed'
    BY <2>1, <2>2, <2>4 DEF StoreInv, TypeOK, TableConsistent, SessionsListed, Session
  <2>9. \A q \in Ptr : sess[q] # NULL => sess[q].data # b
    BY <2>2 DEF StoreInv, TypeOK, BuffersOwned, BufferFits, Session, U32
  <2>10. BufferFits'
    BY <2>2, <2>3, <2>4, <2>9 DEF StoreInv, TypeOK, BuffersOwned, BufferFits, Session
  <2>11. BufferUnshared'
    BY <2>2, <2>4, <2>9 DEF StoreInv, TypeOK, BuffersOwned, BufferUnshared, Session
  <2>12. BufferHasOwner'
    BY <2>2, <2>4 DEF StoreInv, TypeOK, BuffersOwned, BufferHasOwner, Session
  <2>13. BatchInBounds'
    BY <2>1, <2>2 DEF StoreInv, TypeOK, BatchInBounds, Deferred
  <2>14. HandlePathSafe'
    BY <2>1 DEF StoreInv, HandlePathSafe
  <2> QED
    BY <2>5, <2>6, <2>7, <2>8, <2>10, <2>11, <2>12, <2>13, <2>14
       DEF StoreInv, TableConsistent, BuffersOwned
<1> QED
  BY <1>1, <1>2

\* SET: the argument is clamped to the buffer's capacity, so a live session's
\* write fits and only its length changes.
LEMMA SetDataInv ==
  ASSUME StoreInv, NEW s \in Ptr, sess[s] # NULL, NEW len \in U32,
         NEW kind \in FaultKind, SetData(s, len, kind)
  PROVE  /\ \E n \in U32 : n <= sess[s].cap /\ sess' = [sess EXCEPT ![s].len = n]
         /\ UNCHANGED <<buf, fault>>
<1> DEFINE n == Lesser(len, sess[s].cap)
<1>1. sess[s] \in Session /\ sess[s].cap \in U32 /\ buf[sess[s].data] = sess[s].cap
  BY DEF StoreInv, TypeOK, BuffersOwned, BufferFits, Session
<1>2. n \in U32 /\ n <= sess[s].cap
  BY <1>1 DEF U32, Lesser
<1>3. Writable(sess[s].data, n)
  BY <1>1, <1>2 DEF Writable, U32
<1> QED
  BY <1>2, <1>3 DEF SetData

\* Giving a live session another length within its capacity disturbs nothing.
LEMMA LengthInv ==
  ASSUME StoreInv, NEW s \in Ptr, sess[s] # NULL, NEW n \in U32, n <= sess[s].cap,
         sess' = [sess EXCEPT ![s].len = n], recent' \in Ptr \cup {NULL},
         UNCHANGED <<slots, count, batch, buf, fault>>
  PROVE  StoreInv'
<1> DEFINE new == [sess[s] EXCEPT !.len = n]
<1>1. sess[s] \in Session
  BY DEF StoreInv, TypeOK
<1>2. /\ new \in Session /\ new # NULL /\ new.len = n /\ new.id = sess[s].id
      /\ new.cap = sess[s].cap /\ new.data = sess[s].data
  BY <1>1 DEF Session
<1> HIDE DEF new
<1>3. sess' = [sess EXCEPT ![s] = new]
  BY DEF new
<1>4. TypeOK'
  BY <1>2, <1>3 DEF StoreInv, TypeOK
<1>5. CountExact' /\ BatchInBounds' /\ HandlePathSafe'
  BY DEF StoreInv, TableConsistent, CountExact, BatchInBounds, HandlePathSafe
<1>6. SlotsLive'
  BY <1>2, <1>3 DEF StoreInv, TypeOK, TableConsistent, SlotsLive
<1>7. SessionsListed'
  BY <1>2, <1>3 DEF StoreInv, TypeOK, TableConsistent, SessionsListed
<1>8. BufferFits'
  BY <1>2, <1>3 DEF StoreInv, TypeOK, BuffersOwned, BufferFits
<1>9. BufferUnshared'
  BY <1>2, <1>3 DEF StoreInv, TypeOK, BuffersOwned, BufferUnshared
<1>10. BufferHasOwner'
  BY <1>2, <1>3 DEF StoreInv, TypeOK, BuffersOwned, BufferHasOwner
<1> QED
  BY <1>4, <1>5, <1>6, <1>7, <1>8, <1>9, <1>10 DEF StoreInv, TableConsistent, BuffersOwned

\* The session a successful lookup leads to, and where it leaves g_recent.
LEMMA LiveFacts ==
  ASSUME StoreInv, NEW id \in WireHandle, LiveSession(id)
  PROVE  SessGet(id) \in Ptr /\ sess[SessGet(id)] # NULL /\ recent' \in Ptr \cup {NULL}
BY DEF StoreInv, TypeOK, LiveSession, Touch, SessGet, Slot

LEMMA SetInv ==
  ASSUME StoreInv, NEW id \in WireHandle, NEW len \in U32, NEW ret,
         SessUseSet(id, len, ret)
  PROVE  StoreInv'
<1>1. CASE NoSession(id, ret)
  BY <1>1, StutterInv DEF NoSession
<1>2. CASE StaleSession(id)
  BY <1>2, StaleInv
<1>3. CASE /\ LiveSession(id)
           /\ SetData(SessGet(id), len, Via(id))
           /\ UNCHANGED <<slots, count, batch>>
  <2>1. SessGet(id) \in Ptr /\ sess[SessGet(id)] # NULL /\ recent' \in Ptr \cup {NULL}
    BY <1>3, LiveFacts
  <2>2. Via(id) \in FaultKind
    BY DEF Via, FaultKind
  <2> QED
    BY <1>3, <2>1, <2>2, SetDataInv, LengthInv
<1> QED
  BY <1>1, <1>2, <1>3 DEF SessUseSet

\* APPEND that fits: the uint32_t sum decides, the true sum is what is written,
\* and the two differ only when the process ends at the write.
LEMMA AppendInPlaceInv ==
  ASSUME StoreInv, NEW s \in Ptr, sess[s] # NULL, NEW len \in U32,
         NEW kind \in FaultKind, AppendInPlace(s, len, kind),
         recent' \in Ptr \cup {NULL}, UNCHANGED <<slots, count, batch>>
  PROVE  StoreInv'
<1> DEFINE sum == sess[s].len + len
           need == sum % Word
<1>1. /\ sess[s] \in Session /\ sess[s].len \in U32 /\ sess[s].cap \in U32
      /\ buf[sess[s].data] = sess[s].cap
  BY DEF StoreInv, TypeOK, BuffersOwned, BufferFits, Session
<1>2. sum \in Nat /\ need \in U32 /\ need <= sess[s].cap
  BY <1>1 DEF AppendInPlace, U32
<1>3. CASE sess' = [sess EXCEPT ![s].len = need] /\ UNCHANGED <<buf, fault>>
  BY <1>2, <1>3, LengthInv
<1>4. CASE /\ ~Writable(sess[s].data, sum)
           /\ fault' = IF sum = need THEN kind ELSE "wrap"
           /\ UNCHANGED <<sess, buf>>
  <2>1. sum # need
    BY <1>1, <1>2, <1>4 DEF Writable, U32
  <2> QED
    BY <1>4, <2>1, FaultInv DEF FaultKind
<1> QED
  BY <1>3, <1>4 DEF AppendInPlace

\* APPEND that grows: block and capacity grow together, and lengths captured in
\* the batch stay within the larger block.
LEMMA AppendGrowInv ==
  ASSUME StoreInv, NEW s \in Ptr, sess[s] # NULL, NEW len \in U32, AppendGrow(s, len),
         recent' \in Ptr \cup {NULL}, UNCHANGED <<slots, count, batch>>
  PROVE  StoreInv'
<1> DEFINE need == (sess[s].len + len) % Word
           b == sess[s].data
           new == [sess[s] EXCEPT !.len = need, !.cap = need]
<1>1. /\ sess[s] \in Session /\ sess[s].len \in U32 /\ sess[s].cap \in U32 /\ b \in Buf
      /\ buf[b] = sess[s].cap
  BY DEF StoreInv, TypeOK, BuffersOwned, BufferFits, Session
<1>2. need \in U32 /\ need > sess[s].cap
  BY <1>1 DEF AppendGrow, U32
<1>3. CASE fault' = "grow" /\ UNCHANGED <<sess, buf>>
  BY <1>3, FaultInv DEF FaultKind
<1>4. CASE /\ sess' = [sess EXCEPT ![s] = [@ EXCEPT !.len = need, !.cap = need]]
           /\ buf' = [buf EXCEPT ![b] = need]
           /\ UNCHANGED fault
  <2>1. /\ new \in Session /\ new # NULL /\ new.id = sess[s].id /\ new.data = b
        /\ new.len = need /\ new.cap = need
    BY <1>1, <1>2 DEF Session
  <2>2. sess' = [sess EXCEPT ![s] = new]
    BY <1>4
  <2>3. buf' = [buf EXCEPT ![b] = need] /\ fault' = fault
    BY <1>4
  <2> HIDE DEF need, new
  <2>4. TypeOK'
    BY <1>1, <1>2, <2>1, <2>2, <2>3 DEF StoreInv, TypeOK
  <2>5. CountExact' /\ HandlePathSafe'
    BY <2>3 DEF StoreInv, TableConsistent, CountExact, HandlePathSafe
  <2>6. SlotsLive'
    BY <2>1, <2>2 DEF StoreInv, TypeOK, TableConsistent, SlotsLive
  <2>7. SessionsListed'
    BY <2>1, <2>2 DEF StoreInv, TypeOK, TableConsistent, SessionsListed
  <2>8. BufferFits'
    <3> SUFFICES ASSUME NEW p \in Ptr, sess'[p] # NULL
                 PROVE  buf'[sess'[p].data] = sess'[p].cap /\ sess'[p].len <= sess'[p].cap
      BY DEF BufferFits
    <3>1. CASE p = s
      BY <1>1, <1>2, <2>1, <2>2, <2>3, <3>1 DEF StoreInv, TypeOK, U32
    <3>2. CASE p # s
      BY <1>1, <2>2, <2>3, <3>2
         DEF StoreInv, TypeOK, BuffersOwned, BufferFits, BufferUnshared, Session
    <3> QED
      BY <3>1, <3>2
  <2>9. BufferUnshared'
    BY <2>1, <2>2 DEF StoreInv, TypeOK, BuffersOwned, BufferUnshared
  <2>10. BufferHasOwner'
    BY <1>1, <2>1, <2>2, <2>3 DEF StoreInv, TypeOK, BuffersOwned, BufferHasOwner
  <2>11. BatchInBounds'
    <3> SUFFICES ASSUME NEW i \in 1 .. Len(batch), buf'[batch[i].data] # NULL
                 PROVE  batch[i].len <= buf'[batch[i].data]
      BY DEF StoreInv, BatchInBounds
    <3>1. batch[i].data \in Buf /\ batch[i].len \in U32
      BY Captured DEF StoreInv
    <3>2. buf[batch[i].data] # NULL => batch[i].len <= buf[batch[i].data]
      BY DEF StoreInv, BatchInBounds
    <3> QED
      BY <1>1, <1>2, <2>3, <3>1, <3>2 DEF StoreInv, TypeOK, U32
  <2> QED
    BY <2>4, <2>5, <2>6, <2>7, <2>8, <2>9, <2>10, <2>11
       DEF StoreInv, TableConsistent, BuffersOwned
<1> QED
  BY <1>3, <1>4 DEF AppendGrow

LEMMA AppendInv ==
  ASSUME StoreInv, NEW id \in WireHandle, NEW len \in U32, NEW ret,
         SessUseAppend(id, len, ret)
  PROVE  StoreInv'
<1>1. CASE NoSession(id, ret)
  BY <1>1, StutterInv DEF NoSession
<1>2. CASE StaleSession(id)
  BY <1>2, StaleInv
<1>3. CASE LiveSession(id) /\ UNCHANGED <<slots, count, batch>>
  <2> DEFINE s == SessGet(id)
  <2>1. s \in Ptr /\ sess[s] # NULL /\ recent' \in Ptr \cup {NULL}
    BY <1>3, LiveFacts
  <2>2. Via(id) \in FaultKind
    BY DEF Via, FaultKind
  <2>3. CASE AppendInPlace(s, len, Via(id))
    BY <1>3, <2>1, <2>2, <2>3, AppendInPlaceInv
  <2>4. CASE AppendGrow(s, len)
    BY <1>3, <2>1, <2>4, AppendGrowInv
  <2>5. CASE AppendNoMemory(s, len)
    BY <1>3, <2>5, TouchInv DEF AppendNoMemory, LiveSession
  <2>6. ~NoSession(id, ret) /\ ~StaleSession(id)
    BY <1>3 DEF LiveSession, NoSession, StaleSession
  <2> QED
    BY <2>3, <2>4, <2>5, <2>6 DEF SessUseAppend
<1> QED
  BY <1>1, <1>2, <1>3 DEF SessUseAppend

\* CLOSE: a live session leaves the table together with its blocks.
LEMMA CloseInv ==
  ASSUME StoreInv, NEW id \in WireHandle, NEW ret, SessClose(id, ret)
  PROVE  StoreInv'
<1>1. CASE Slot(id) = NULL
  BY <1>1, StutterInv DEF SessClose
<1>2. CASE Slot(id) # NULL
  <2> DEFINE s == slots[id]
             b == sess[s].data
  <2>1. id \in Handle /\ Slot(id) = s /\ s \in Ptr /\ sess[s] # NULL /\ sess[s].id = id
    BY <1>2 DEF Slot, StoreInv, TypeOK, TableConsistent, SlotsLive
  <2>2. sess[s] \in Session /\ b \in Buf /\ buf[b] = sess[s].cap /\ buf[b] # NULL
    BY <2>1 DEF StoreInv, TypeOK, BuffersOwned, BufferFits, Session, U32
  <2>3. /\ buf' = [buf EXCEPT ![b] = NULL] /\ sess' = [sess EXCEPT ![s] = NULL]
        /\ slots' = [slots EXCEPT ![id] = NULL] /\ count' = count - 1
        /\ UNCHANGED <<recent, batch, fault>>
    BY <1>2, <2>1, <2>2 DEF SessClose, free_session, Unlist
  <2>4. TypeOK'
    <3>1. slots' \in [Handle -> Ptr \cup {NULL}]
      BY <2>3 DEF StoreInv, TypeOK
    <3>2. count' \in Int
      BY <2>3 DEF StoreInv, TypeOK
    <3>3. sess' \in [Ptr -> Session \cup {NULL}]
      BY <2>3 DEF StoreInv, TypeOK
    <3>4. buf' \in [Buf -> U32 \cup {NULL}]
      BY <2>3 DEF StoreInv, TypeOK
    <3> QED
      BY <2>3, <3>1, <3>2, <3>3, <3>4 DEF StoreInv, TypeOK
  <2>5. CountExact'
    <3> DEFINE S == {h \in Handle : slots[h] # NULL}
    <3>1. S' = S \ {id} /\ id \in S
      BY <2>1, <2>3 DEF StoreInv, TypeOK
    <3>2. Cardinality(S') = Cardinality(S) - 1
      BY <2>1, <3>1, HandlesFinite
    <3> QED
      BY <2>3, <3>2 DEF StoreInv, TableConsistent, CountExact
  <2>6. SlotsLive'
    BY <2>1, <2>3 DEF StoreInv, TypeOK, TableConsistent, SlotsLive
  <2>7. SessionsListed'
    BY <2>1, <2>3 DEF StoreInv, TypeOK, TableConsistent, SessionsListed, Session
  <2>8. \A q \in Ptr : q # s /\ sess[q] # NULL => sess[q].data # b
    BY <2>1 DEF StoreInv, BuffersOwned, BufferUnshared
  <2>9. BufferFits'
    BY <2>3, <2>8 DEF StoreInv, TypeOK, BuffersOwned, BufferFits, Session
  <2>10. BufferUnshared'
    BY <2>3 DEF StoreInv, TypeOK, BuffersOwned, BufferUnshared
  <2>11. BufferHasOwner'
    BY <2>1, <2>3, <2>8 DEF StoreInv, TypeOK, BuffersOwned, BufferHasOwner
  <2>12. BatchInBounds'
    <3>1. \A i \in 1 .. Len(batch) : batch[i].data \in Buf
      BY Captured DEF StoreInv
    <3> QED
      BY <2>3, <3>1 DEF StoreInv, TypeOK, BatchInBounds
  <2>13. HandlePathSafe'
    BY <2>3 DEF StoreInv, HandlePathSafe
  <2> QED
    BY <2>4, <2>5, <2>6, <2>7, <2>9, <2>10, <2>11, <2>12, <2>13
       DEF StoreInv, TableConsistent, BuffersOwned
<1> QED
  BY <1>1, <1>2

\* USE run only looks the session up; what the handler computes is the caller's.
LEMMA RunInv ==
  ASSUME StoreInv, NEW id \in WireHandle, NEW ret, SessUseRun(id, ret)
  PROVE  StoreInv'
BY StutterInv, StaleInv, TouchInv DEF SessUseRun, NoSession, LiveSession

LEMMA StatInv ==
  ASSUME StoreInv, NEW verbose \in BOOLEAN, SessStat(verbose)
  PROVE  StoreInv'
BY StutterInv, CrashInv DEF SessStat, FaultKind

\* A captured length is within the captured buffer at the time of the capture.
LEMMA DeferInv ==
  ASSUME StoreInv, NEW id \in WireHandle, SessDefer(id)
  PROVE  StoreInv'
<1> DEFINE s == SessGet(id)
           d == [data |-> sess[s].data, len |-> sess[s].len]
<1>1. CASE Touch(id) /\ UNCHANGED <<slots, count, batch, sess, buf, fault>>
  BY <1>1, TouchInv
<1>2. CASE StaleSession(id)
  BY <1>2, StaleInv
<1>3. CASE /\ ~BatchFull /\ LiveSession(id) /\ batch' = Append(batch, d)
           /\ UNCHANGED <<slots, count, sess, buf, fault>>
  <2>1. s \in Ptr /\ sess[s] # NULL /\ recent' \in Ptr \cup {NULL}
    BY <1>3, LiveFacts
  <2>2. sess[s] \in Session /\ buf[sess[s].data] = sess[s].cap /\ sess[s].len <= sess[s].cap
    BY <2>1 DEF StoreInv, TypeOK, BuffersOwned, BufferFits
  <2>3. d \in Deferred
    BY <2>2 DEF Session, Deferred
  <2>4. TypeOK'
    BY <1>3, <2>1, <2>3 DEF StoreInv, TypeOK
  <2>5. BatchInBounds'
    <3>1. Len(batch') = Len(batch) + 1 /\ Len(batch) \in Nat
      BY <1>3, <2>3 DEF StoreInv, TypeOK
    <3>2. \A i \in 1 .. Len(batch) : batch'[i] = batch[i]
      BY <1>3, <2>3 DEF StoreInv, TypeOK
    <3>3. batch'[Len(batch) + 1] = d
      BY <1>3, <2>3 DEF StoreInv, TypeOK
    <3>4. \A i \in 1 .. Len(batch') : buf'[batch'[i].data] # NULL
                                      => batch'[i].len <= buf'[batch'[i].data]
      BY <1>3, <2>2, <3>1, <3>2, <3>3 DEF StoreInv, BatchInBounds
    <3> QED
      BY <1>3, <3>1, <3>4 DEF BatchFull, BatchInBounds
  <2> QED
    BY <1>3, <2>4, <2>5 DEF StoreInv, TableConsistent, CountExact, SlotsLive, SessionsListed,
       BuffersOwned, BufferFits, BufferUnshared, BufferHasOwner, HandlePathSafe
<1> QED
  BY <1>1, <1>2, <1>3 DEF SessDefer

LEMMA FlushInv ==
  ASSUME StoreInv, NEW len \in U32, SessFlush(len)
  PROVE  StoreInv'
<1>1. CASE Crash("batch")
  BY <1>1, CrashInv DEF FaultKind
<1>2. CASE batch' = <<>> /\ UNCHANGED <<slots, count, recent, sess, buf, fault>>
  BY <1>2 DEF StoreInv, TypeOK, TableConsistent, CountExact, SlotsLive, SessionsListed,
       BuffersOwned, BufferFits, BufferUnshared, BufferHasOwner, BatchInBounds, HandlePathSafe
<1> QED
  BY <1>1, <1>2 DEF SessFlush

\* Any call of the store's API preserves the invariant.
LEMMA CallInv ==
  ASSUME StoreInv, Call
  PROVE  StoreInv'
<1> \A n \in Arg : n \in U32
  BY DEF Arg, U32
<1> QED
  BY OpenInv, RunInv, SetInv, AppendInv, CloseInv, StatInv, DeferInv, FlushInv DEF Call

\* After any sequence of calls to the store, the table, the counter, the sessions
\* and their buffers agree, the batch is within bounds, and no lookup by
\* handle has reached freed memory (SessOpen ... SessFlush of sesscore.c).
THEOREM StoreInvariant == StoreSpec => []StoreInv
<1>1. StoreInv /\ [StoreNext]_storeVars => StoreInv'
  BY CallInv, StutterInv DEF StoreNext, Ended
<1> QED
  BY NewInv, <1>1, PTL DEF StoreSpec

\* Every state of the store is well typed, lengths within uint32_t included.
THEOREM StoreTyped == StoreSpec => []TypeOK
<1>1. StoreInv => TypeOK
  BY DEF StoreInv
<1> QED
  BY <1>1, StoreInvariant, PTL

\* The table, its counter and the allocated sessions always agree (SessOpen and
\* SessClose), however many handles there are.
THEOREM TableStaysConsistent == StoreSpec => []TableConsistent
<1>1. StoreInv => TableConsistent
  BY DEF StoreInv
<1> QED
  BY <1>1, StoreInvariant, PTL

\* Every session owns one buffer of its capacity and no buffer is left behind
\* (SessOpen, SessUseSet, SessUseAppend, SessClose), for every word size.
THEOREM BuffersStayOwned == StoreSpec => []BuffersOwned
<1>1. StoreInv => BuffersOwned
  BY DEF StoreInv
<1> QED
  BY <1>1, StoreInvariant, PTL

\* A captured length never exceeds the captured buffer (SessDefer, SessFlush).
THEOREM BatchStaysInBounds == StoreSpec => []BatchInBounds
<1>1. StoreInv => BatchInBounds
  BY DEF StoreInv
<1> QED
  BY <1>1, StoreInvariant, PTL

\* What a lookup leads to is freed only if it is what g_recent keeps (SessGet).
LEMMA StaleCaused ==
  ASSUME StoreInv, NEW id \in WireHandle, StaleSession(id)
  PROVE  FaultCaused
<1>1. id = SESS_RECENT /\ SessGet(id) = recent
  BY DEF StaleSession, SessGet, Slot, StoreInv, TableConsistent, SlotsLive
<1> QED
  BY <1>1 DEF StaleSession, Crash, Via, FaultCaused, RecentFreed

\* A write into the buffer of a live session misses it only where the true sum is
\* not the uint32_t one, and only a buffer that is too small moves.
LEMMA AppendCaused ==
  ASSUME StoreInv, NEW id \in WireHandle, NEW len \in Arg, NEW ret,
         SessUseAppend(id, len, ret)
  PROVE  FaultCaused
<1> DEFINE s == SessGet(id)
           sum == sess[s].len + len
<1>1. CASE NoSession(id, ret)
  BY <1>1 DEF NoSession, FaultCaused, storeVars
<1>2. CASE StaleSession(id)
  BY <1>2, StaleCaused
<1>3. CASE LiveSession(id)
  <2>1. s \in Ptr /\ sess[s] # NULL
    BY <1>3, LiveFacts
  <2>2. /\ sess[s] \in Session /\ sess[s].len \in U32 /\ sess[s].cap \in U32 /\ len \in Nat
        /\ buf[sess[s].data] = sess[s].cap
    BY <2>1 DEF StoreInv, TypeOK, BuffersOwned, BufferFits, Session, Arg
  <2>3. CASE AppendInPlace(s, len, Via(id))
    <3>1. sum \in Nat /\ sum % Word <= sess[s].cap
      BY <2>2, <2>3 DEF AppendInPlace, U32
    <3>2. sum < Word => sum % Word = sum
      BY <3>1
    <3>3. ~Writable(sess[s].data, sum) => sum # sum % Word /\ sum >= Word
      BY <2>2, <3>1, <3>2 DEF Writable, U32
    <3>4. sum >= Word => SumWraps
      BY <2>1, <3>1 DEF SumWraps
    <3> QED
      BY <2>3, <3>3, <3>4 DEF AppendInPlace, FaultCaused
  <2>4. CASE AppendGrow(s, len)
    BY <2>1, <2>4 DEF AppendGrow, FaultCaused, BufferTooSmall
  <2>5. CASE AppendNoMemory(s, len)
    BY <2>5 DEF AppendNoMemory, FaultCaused
  <2>6. ~NoSession(id, ret) /\ ~StaleSession(id)
    BY <1>3 DEF LiveSession, NoSession, StaleSession
  <2> QED
    BY <2>3, <2>4, <2>5, <2>6 DEF SessUseAppend
<1> QED
  BY <1>1, <1>2, <1>3 DEF SessUseAppend

\* A captured buffer that is still there takes what was captured of it.
LEMMA FlushCaused ==
  ASSUME StoreInv, NEW len \in Arg, SessFlush(len)
  PROVE  FaultCaused
<1>1. CASE fault' = fault
  BY <1>1 DEF FaultCaused
<1>2. CASE fault' # fault
  <2>1. /\ fault' = "batch"
        /\ \E i \in 1 .. Len(batch) : ~Writable(batch[i].data, Lesser(len, batch[i].len))
    BY <1>2 DEF SessFlush, Crash
  <2>2. PICK i \in 1 .. Len(batch) : ~Writable(batch[i].data, Lesser(len, batch[i].len))
    BY <2>1
  <2>3. batch[i].data \in Buf /\ batch[i].len \in U32
    BY Captured DEF StoreInv
  <2>4. Lesser(len, batch[i].len) \in Nat /\ Lesser(len, batch[i].len) <= batch[i].len
    <3>1. len \in Nat /\ batch[i].len \in Nat
      BY <2>3 DEF Arg, U32
    <3> QED
      BY <3>1 DEF Lesser
  <2>5. buf[batch[i].data] # NULL => /\ buf[batch[i].data] \in Nat
                                     /\ batch[i].len <= buf[batch[i].data]
    BY <2>3 DEF StoreInv, TypeOK, BatchInBounds, U32
  <2>6. buf[batch[i].data] = NULL
    BY <2>2, <2>3, <2>4, <2>5 DEF Writable, U32
  <2> QED
    BY <2>1, <2>6 DEF FaultCaused, CapturedFreed
<1> QED
  BY <1>1, <1>2

LEMMA SetCaused ==
  ASSUME StoreInv, NEW id \in WireHandle, NEW len \in Arg, NEW ret, SessUseSet(id, len, ret)
  PROVE  FaultCaused
<1>1. CASE NoSession(id, ret)
  BY <1>1 DEF NoSession, FaultCaused, storeVars
<1>2. CASE StaleSession(id)
  BY <1>2, StaleCaused
<1>3. CASE LiveSession(id) /\ SetData(SessGet(id), len, Via(id))
  <2>1. SessGet(id) \in Ptr /\ sess[SessGet(id)] # NULL /\ len \in U32 /\ Via(id) \in FaultKind
    BY <1>3, LiveFacts DEF Via, FaultKind, Arg, U32
  <2> QED
    BY <1>3, <2>1, SetDataInv DEF FaultCaused
<1> QED
  BY <1>1, <1>2, <1>3 DEF SessUseSet

LEMMA CallCaused ==
  ASSUME StoreInv, Call
  PROVE  FaultCaused
<1>1. ASSUME NEW f \in Handler \cup {NULL}, NEW n \in Arg, NEW ret, SessOpen(f, n, {}, ret)
      PROVE  FaultCaused
  BY <1>1 DEF SessOpen, storeVars, FaultCaused
<1>2. ASSUME NEW id \in WireHandle, NEW ret, SessUseRun(id, ret)
      PROVE  FaultCaused
  BY <1>2, StaleCaused DEF SessUseRun, NoSession, storeVars, FaultCaused
<1>3. ASSUME NEW id \in WireHandle, NEW ret, SessClose(id, ret)
      PROVE  FaultCaused
  <2>1. Slot(id) # NULL => /\ sess[Slot(id)] \in Session
                           /\ buf[sess[Slot(id)].data] # NULL
    BY DEF StoreInv, TypeOK, TableConsistent, SlotsLive, Slot, BuffersOwned, BufferFits,
           Session, U32
  <2> QED
    BY <1>3, <2>1 DEF SessClose, storeVars, FaultCaused
<1>4. ASSUME NEW verbose \in BOOLEAN, SessStat(verbose)
      PROVE  FaultCaused
  BY <1>4 DEF SessStat, Crash, storeVars, FaultCaused, RecentFreed
<1>5. ASSUME NEW id \in WireHandle, SessDefer(id)
      PROVE  FaultCaused
  BY <1>5, StaleCaused DEF SessDefer, FaultCaused
<1> QED
  BY <1>1, <1>2, <1>3, <1>4, <1>5, SetCaused, AppendCaused, FlushCaused DEF Call

\* The process ends only by g_recent or a captured buffer that CLOSE has freed, by
\* a sum that wrapped, or by a growing block that moved: never by a lookup of a
\* handle, nor by a write that fits (SessGet, SessUseSet, SessUseAppend, SessFlush).
THEOREM FaultsAreCaused == StoreSpec => FaultsHaveCause
<1>1. StoreInv /\ [StoreNext]_storeVars => [FaultCaused]_storeVars
  BY CallCaused DEF StoreNext, Ended
<1> QED
  BY <1>1, StoreInvariant, PTL DEF StoreSpec, FaultsHaveCause

-----------------------------------------------------------------------------
(* The store implements HandleTable.                                       *)

\* A step that leaves the slots and the sessions alone leaves the table alone.
LEMMA SameContents ==
  ASSUME UNCHANGED <<slots, sess>>
  PROVE  UNCHANGED Contents
BY DEF Contents

\* What the table shows of a handle: nothing, or the session and its length.
LEMMA ContentsType ==
  ASSUME StoreInv, NEW h \in Handle
  PROVE  /\ Contents[h] = NULL <=> slots[h] = NULL
         /\ slots[h] # NULL =>
              /\ Contents[h] = [obj |-> slots[h], len |-> sess[slots[h]].len]
              /\ Contents[h].obj = slots[h] /\ slots[h] \in Ptr
              /\ sess[slots[h]].len \in U32
<1>1. slots[h] # NULL => slots[h] \in Ptr /\ sess[slots[h]] \in Session
  BY DEF StoreInv, TypeOK, TableConsistent, SlotsLive
<1>2. slots[h] # NULL => /\ sess[slots[h]].len \in U32
                         /\ Contents[h] = [obj |-> slots[h], len |-> sess[slots[h]].len]
  BY <1>1 DEF Contents, Session
<1>3. slots[h] # NULL => Contents[h] \in [obj: Ptr, len: U32]
  BY <1>1, <1>2
<1>4. slots[h] = NULL => Contents[h] = NULL
  BY DEF Contents
<1> QED
  BY <1>1, <1>2, <1>3, <1>4

\* A new length for a live session is an Update of the handle that names it,
\* whichever way the session was reached.
LEMMA LengthUpdates ==
  ASSUME StoreInv, NEW s \in Ptr, sess[s] # NULL, NEW new \in Session,
         sess' = [sess EXCEPT ![s] = new], slots' = slots
  PROVE  Table!Next
<1> DEFINE h == sess[s].id
<1>1. sess[s] \in Session /\ h \in Handle /\ slots[h] = s
  BY DEF StoreInv, TypeOK, TableConsistent, SessionsListed, Session
<1>2. \A g \in Handle : g # h => slots[g] # s
  BY DEF StoreInv, TypeOK, TableConsistent, SlotsLive
<1>3. new.len \in U32 /\ sess'[s] = new
  BY DEF Session, StoreInv, TypeOK
<1>4. Contents' = [Contents EXCEPT ![h] = [obj |-> Contents[h].obj, len |-> new.len]]
  <2>1. Contents'[h] = [obj |-> s, len |-> new.len]
    BY <1>1, <1>3 DEF Contents
  <2>2. Contents[h].obj = s
    BY <1>1, ContentsType
  <2>3. \A g \in Handle : g # h => Contents'[g] = Contents[g]
    BY <1>2 DEF Contents, StoreInv, TypeOK
  <2> QED
    BY <2>1, <2>2, <2>3 DEF Contents
<1>5. Contents[h] # NULL
  BY <1>1, ContentsType
<1> QED
  BY <1>1, <1>3, <1>4, <1>5 DEF Table!Next, Table!Update

LEMMA OpenCreates ==
  ASSUME StoreInv, NEW handler \in Handler \cup {NULL}, NEW len \in U32,
         NEW held, NEW ret, SessOpen(handler, len, held, ret)
  PROVE  Table!Next \/ UNCHANGED Contents
<1>1. CASE UNCHANGED storeVars
  BY <1>1, SameContents DEF storeVars
<1>2. CASE ~UNCHANGED storeVars
  <2> DEFINE n == Lesser(len, MaxData)
  <2>1. /\ ret \in Handle /\ slots[ret] = NULL
        /\ \A h \in Handle : slots[h] = NULL => ret <= h
    BY <1>2 DEF SessOpen, FreeSlot
  <2>2. PICK p \in Ptr, b \in Buf :
          /\ sess[p] = NULL
          /\ sess' = [sess EXCEPT ![p] = [id |-> ret, handler |-> handler, data |-> b,
                                          len |-> n, cap |-> Greater(n, MinCap)]]
          /\ slots' = [slots EXCEPT ![ret] = p]
    BY <1>2 DEF SessOpen, FreshPtr
  <2>3. n \in U32
    BY DEF U32, Lesser
  <2> HIDE DEF n
  <2> DEFINE e == [obj |-> p, len |-> n]
  <2>4. \A g \in Handle : slots[g] # NULL => slots[g] # p
    BY <2>2 DEF StoreInv, TableConsistent, SlotsLive
  <2>5. Contents' = [Contents EXCEPT ![ret] = e]
    <3>1. Contents'[ret] = e
      BY <2>1, <2>2 DEF Contents, StoreInv, TypeOK
    <3>2. \A g \in Handle : g # ret => Contents'[g] = Contents[g]
      BY <2>2, <2>4 DEF Contents, StoreInv, TypeOK
    <3> QED
      BY <3>1, <3>2 DEF Contents
  <2>6. \A g \in Handle : Contents[g] # NULL => Contents[g].obj # e.obj
    BY <2>4, ContentsType
  <2>7. Table!Create(ret, e)
    BY <2>1, <2>5, <2>6, ContentsType DEF Table!Create
  <2>8. e \in Table!Entry
    BY <2>3 DEF Table!Entry
  <2> QED
    BY <2>1, <2>7, <2>8 DEF Table!Next
<1> QED
  BY <1>1, <1>2

LEMMA CloseDestroys ==
  ASSUME StoreInv, NEW id \in WireHandle, NEW ret, SessClose(id, ret)
  PROVE  Table!Next \/ UNCHANGED Contents
<1>1. CASE UNCHANGED <<slots, sess>>
  BY <1>1, SameContents
<1>2. CASE ~UNCHANGED <<slots, sess>>
  <2>1. /\ id \in Handle /\ slots[id] # NULL
        /\ sess' = [sess EXCEPT ![slots[id]] = NULL]
        /\ slots' = [slots EXCEPT ![id] = NULL]
    BY <1>2 DEF SessClose, free_session, Unlist, Slot, Crash, storeVars
  <2>2. \A g \in Handle : g # id => slots[g] # slots[id]
    BY <2>1 DEF StoreInv, TypeOK, TableConsistent, SlotsLive
  <2>3. Contents' = [Contents EXCEPT ![id] = NULL]
    <3>1. Contents'[id] = NULL
      BY <2>1 DEF Contents, StoreInv, TypeOK
    <3>2. \A g \in Handle : g # id => Contents'[g] = Contents[g]
      BY <2>1, <2>2 DEF Contents, StoreInv, TypeOK
    <3> QED
      BY <3>1, <3>2 DEF Contents
  <2>4. Table!Destroy(id)
    BY <2>1, <2>3, ContentsType DEF Table!Destroy
  <2> QED
    BY <2>1, <2>4 DEF Table!Next
<1> QED
  BY <1>1, <1>2

\* SET and APPEND give one live session a new record, or change no session.
LEMMA WriteUpdates ==
  ASSUME StoreInv, NEW s \in Ptr, sess[s] # NULL, NEW len \in U32,
         NEW kind \in FaultKind, slots' = slots,
         \/ SetData(s, len, kind)
         \/ AppendInPlace(s, len, kind)
         \/ AppendGrow(s, len)
         \/ AppendNoMemory(s, len)
  PROVE  Table!Next \/ UNCHANGED Contents
<1> DEFINE need == (sess[s].len + len) % Word
           new == [sess[s] EXCEPT !.len = need]
           grown == [sess[s] EXCEPT !.len = need, !.cap = need]
<1>1. sess[s] \in Session /\ sess[s].len \in U32
  BY DEF StoreInv, TypeOK, Session
<1>2. need \in U32
  BY <1>1 DEF U32
<1> HIDE DEF need
<1>3. new \in Session /\ grown \in Session
  BY <1>1, <1>2 DEF Session
<1>4. CASE sess' = sess
  BY <1>4, SameContents
<1>5. CASE SetData(s, len, kind)
  <2>1. PICK n \in U32 : sess' = [sess EXCEPT ![s].len = n]
    BY <1>5, SetDataInv
  <2>2. [sess[s] EXCEPT !.len = n] \in Session
    BY <1>1 DEF Session
  <2> QED
    BY <2>1, <2>2, LengthUpdates
<1>6. CASE AppendInPlace(s, len, kind) /\ sess' # sess
  <2>1. sess' = [sess EXCEPT ![s] = new]
    BY <1>6 DEF AppendInPlace, need
  <2> QED
    BY <1>3, <2>1, LengthUpdates
<1>7. CASE AppendGrow(s, len) /\ sess' # sess
  <2>1. sess' = [sess EXCEPT ![s] = grown]
    BY <1>7 DEF AppendGrow, need
  <2> QED
    BY <1>3, <2>1, LengthUpdates
<1> QED
  BY <1>4, <1>5, <1>6, <1>7 DEF AppendNoMemory

LEMMA CallImplements ==
  ASSUME StoreInv, Call
  PROVE  Table!Next \/ UNCHANGED Contents
<1>0. \A n \in Arg : n \in U32
  BY DEF Arg, U32
<1>1. CASE UNCHANGED <<slots, sess>>
  BY <1>1, SameContents
<1>2. ASSUME NEW f \in Handler \cup {NULL}, NEW n \in Arg, NEW ret,
             SessOpen(f, n, {}, ret)
      PROVE  Table!Next \/ UNCHANGED Contents
  BY <1>0, <1>2, OpenCreates
<1>3. ASSUME NEW id \in WireHandle, NEW ret, SessClose(id, ret)
      PROVE  Table!Next \/ UNCHANGED Contents
  BY <1>3, CloseDestroys
<1>4. ASSUME NEW id \in WireHandle, NEW n \in Arg, NEW ret,
             SessUseSet(id, n, ret) \/ SessUseAppend(id, n, ret),
             ~UNCHANGED <<slots, sess>>
      PROVE  Table!Next \/ UNCHANGED Contents
  <2> DEFINE s == SessGet(id)
  <2>1. LiveSession(id) /\ slots' = slots
    BY <1>4 DEF SessUseSet, SessUseAppend, NoSession, StaleSession, Crash, storeVars
  <2>2. s \in Ptr /\ sess[s] # NULL
    BY <2>1, LiveFacts
  <2>3. Via(id) \in FaultKind
    BY DEF Via, FaultKind
  <2>4. ~NoSession(id, ret) /\ ~StaleSession(id)
    BY <2>1 DEF LiveSession, NoSession, StaleSession
  <2>5. \/ SetData(s, n, Via(id)) \/ AppendInPlace(s, n, Via(id))
        \/ AppendGrow(s, n) \/ AppendNoMemory(s, n)
    BY <1>4, <2>4 DEF SessUseSet, SessUseAppend
  <2> QED
    BY <1>0, <2>1, <2>2, <2>3, <2>5, WriteUpdates
<1>5. ASSUME \/ \E id \in WireHandle, ret \in Handler \cup {SESS_ERR} : SessUseRun(id, ret)
             \/ \E verbose \in BOOLEAN : SessStat(verbose)
             \/ \E id \in WireHandle : SessDefer(id)
             \/ \E n \in Arg : SessFlush(n)
      PROVE  UNCHANGED <<slots, sess>>
  BY <1>5 DEF SessUseRun, SessStat, SessDefer, SessFlush, NoSession, StaleSession, Crash,
              storeVars
<1>6. CASE ~UNCHANGED <<slots, sess>>
  <2>1. \/ \E f \in Handler \cup {NULL}, n \in Arg, ret \in Handle \cup {SESS_ERR} :
             SessOpen(f, n, {}, ret)
        \/ \E id \in WireHandle, n \in Arg, ret \in {SESS_OK, SESS_ERR} :
             SessUseSet(id, n, ret) \/ SessUseAppend(id, n, ret)
        \/ \E id \in WireHandle, ret \in {SESS_OK, SESS_ERR} : SessClose(id, ret)
    BY <1>5, <1>6, Zenon DEF Call
  <2> QED
    BY <1>2, <1>3, <1>4, <1>6, <2>1
<1> QED
  BY <1>1, <1>6

\* The session store implements the table of numbered objects: whatever happens
\* to g_recent, the batch and the heap, clients that use handles see the lowest
\* free number issued, a number naming one session until its CLOSE, and each
\* call changing at most the one session it names (sesscore.c as a whole).
THEOREM StoreImplementsTable == StoreSpec => ImplementsHandleTable
<1>1. SessNew => Table!Init
  BY DEF SessNew, Table!Init, Contents
<1>2. StoreInv /\ [StoreNext]_storeVars => [Table!Next]_Contents
  BY CallImplements, SameContents DEF StoreNext, Ended, storeVars
<1> QED
  BY <1>1, <1>2, StoreInvariant, PTL DEF StoreSpec, ImplementsHandleTable, Table!Spec
=============================================================================

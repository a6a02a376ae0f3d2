----------------------------- MODULE SpoolCore -----------------------------
(***************************************************************************)
(* spoolcore.dll, the job store of Encore: the job table, the ready queue  *)
(* linked through the jobs, the active-job cache, the scratch buffer and   *)
(* the render pump.                                                        *)
(*                                                                         *)
(* Memory is modelled as in SessCore: a block has an identity, pointers    *)
(* stay behind when it is freed, and an access to a freed block, freeing   *)
(* it again included, ends the process, as under Full Page Heap.           *)
(***************************************************************************)
EXTENDS Machine, FiniteSets, Sequences

CONSTANTS
  SpoolMax,   \* SPOOL_MAX, the number of job ids
  MinCap,     \* the smallest document buffer (32 in the code)
  MaxDoc,     \* ENC_MAX_DOC
  Filter,     \* the filters a plugin may export
  Consuming,  \* the filters that free the document they are given (text)
  Ptr,        \* addresses of jobs
  Buf,        \* addresses of document buffers
  Meta        \* addresses of metadata blocks

Id           == 0 .. SpoolMax - 1
SPOOL_RECENT == SpoolMax + 1
WireId       == 0 .. SPOOL_RECENT   \* valid ids, one out of range, RECENT
SPOOL_OK     == 0
SPOOL_ERR    == -1
Link         == Ptr \cup {NULL}
DocLen       == 0 .. MaxDoc
DocCap       == 0 .. Greater(MaxDoc, MinCap)

Job == [id: Id, state: {"queued", "cancelled"}, filter: Filter,
        data: Buf, len: DocLen, cap: DocCap, meta: Meta \cup {NULL}, qnext: Link]

FaultKind == {"none", "active", "queue", "cancelled", "moved", "consumed",
              "data", "meta", "scratch"}

ASSUME SpoolCoreAssumption ==
  /\ SpoolMax \in Nat \ {0}
  /\ IsFiniteSet(Ptr)
  /\ MinCap \in Nat \ {0}
  /\ MaxDoc \in Nat /\ MaxDoc + MaxDoc < Word /\ MinCap < Word
  /\ Consuming \subseteq Filter
  /\ NULL \notin Ptr \cup Buf \cup Meta \cup Filter
  /\ NULL \notin Job \cup [obj: Ptr, len: DocLen]

VARIABLES
  slots,    \* SpoolTable.slots
  count,    \* SpoolTable.count
  qhead, qtail,
  active,   \* g_active
  scratch,  \* g_scratch
  job,      \* the Job blocks: NULL where the block is not allocated
  buf,      \* the document buffers: their size, or NULL where not allocated
  metas,    \* the metadata blocks that are allocated
  pumping,  \* JobFlush is in its loop
  taken,    \* the job it has dequeued and not yet worked on
  fault     \* "none", or what the access that ended the process was to

spoolVars == <<slots, count, qhead, qtail, active, scratch, job, buf, metas, pumping,
               taken, fault>>

-----------------------------------------------------------------------------
(* The heap.                                                               *)

FreshJob(p) == job[p] = NULL /\ p \notin {active, qhead, qtail}

FreshBuf(b) ==
  /\ buf[b] = NULL
  /\ b # scratch
  /\ \A p \in Ptr : job[p] # NULL => job[p].data # b

FreshMeta(m) ==
  /\ m \notin metas
  /\ \A p \in Ptr : job[p] # NULL => job[p].meta # m

\* The document of job p can be read, all len bytes of it.
Readable(p) == job[p].len = 0 \/ buf[job[p].data] # NULL

Crash(kind) ==
  /\ fault' = kind
  /\ UNCHANGED <<slots, count, qhead, qtail, active, scratch, job, buf, metas, pumping, taken>>

-----------------------------------------------------------------------------
(* The ready queue.                                                        *)

Walk == 1 .. Cardinality(Ptr) + 1   \* longer than any queue without a cycle

\* Where a walk from qhead along qnext is; it stops at a freed job.
Follow[i \in Walk] ==
  IF i = 1 THEN qhead
  ELSE IF Follow[i-1] = NULL THEN NULL
  ELSE IF job[Follow[i-1]] = NULL THEN NULL
  ELSE job[Follow[i-1]].qnext

\* The jobs on the queue, first to last.
Queue == [i \in 1 .. Cardinality({k \in Walk : Follow[k] # NULL}) |-> Follow[i]]

\* Variant: new jobs go to the front.
enqueue_front(p, j) ==
  /\ job' = [job EXCEPT ![p] = [j EXCEPT !.qnext = qhead]]
  /\ qhead' = p
  /\ qtail' = IF qtail = NULL THEN p ELSE qtail

\* Job p, with these contents, goes to the end of the queue.
enqueue(p, j) ==
  /\ job' = IF qtail = NULL THEN [job EXCEPT ![p] = j]
            ELSE [job EXCEPT ![p] = j, ![qtail].qnext = p]
  /\ qhead' = IF qtail = NULL THEN p ELSE qhead
  /\ qtail' = p

\* Variant: the tail is not moved back.
TailAfter_(p, prev) == qtail

TailAfter(p, prev) == IF qtail = p THEN prev ELSE qtail

\* unlink_queue and then free: job p leaves the queue if it is on it, and its
\* block goes.
UnlinkAndFree(p) ==
  LET q       == Queue
      queued  == \E i \in 1 .. Len(q) : q[i] = p
      at      == CHOOSE i \in 1 .. Len(q) : q[i] = p
      prev    == IF at = 1 THEN NULL ELSE q[at - 1]
  IN IF ~queued
     THEN /\ job' = [job EXCEPT ![p] = NULL]
          /\ UNCHANGED <<qhead, qtail>>
     ELSE /\ qtail' = TailAfter(p, prev)
          /\ IF prev = NULL
             THEN /\ qhead' = job[p].qnext
                  /\ job' = [job EXCEPT ![p] = NULL]
             ELSE /\ qhead' = qhead
                  /\ job' = [job EXCEPT ![prev].qnext = job[p].qnext, ![p] = NULL]

-----------------------------------------------------------------------------
(* Submitting and looking up.                                              *)

SpoolNew ==
  /\ slots = [i \in Id |-> NULL]
  /\ count = 0
  /\ qhead = NULL /\ qtail = NULL
  /\ active = NULL /\ scratch = NULL
  /\ job = [p \in Ptr |-> NULL]
  /\ buf = [b \in Buf |-> NULL]
  /\ metas = {}
  /\ pumping = FALSE
  /\ taken = NULL
  /\ fault = "none"

\* Variant: the first id, in use or not.
first_slot(i) == i = 0

\* The lowest id that is not in use.
alloc_slot(i) ==
  /\ slots[i] = NULL
  /\ \A k \in Id : slots[k] = NULL => i <= k

\* A new job takes id ret: what SUBMIT and DUP do in the same way.
AddJob(p, ret, j, b) ==
  /\ FreshJob(p)
  /\ alloc_slot(ret)
  /\ enqueue(p, j)
  /\ buf' = [buf EXCEPT ![b] = j.cap]
  /\ slots' = [slots EXCEPT ![ret] = p]
  /\ count' = count + 1
  /\ active' = p
  /\ UNCHANGED <<scratch, pumping, taken, fault>>

NewJob(id, filter, b, len, m) ==
  [id |-> id, state |-> "queued", filter |-> filter, data |-> b, len |-> len,
   cap |-> Greater(len, MinCap), meta |-> m, qnext |-> NULL]

\* A failure to allocate the metadata alone is not an error.
JobSubmit(filter, len, ret) ==
  \/ /\ ret = SPOOL_ERR          \* no filter, no free id or no memory
     /\ UNCHANGED spoolVars
  \/ /\ filter # NULL
     /\ ret \in Id
     /\ \E p \in Ptr, b \in Buf, m \in Meta \cup {NULL} :
          /\ FreshBuf(b)
          /\ m # NULL => FreshMeta(m)
          /\ AddJob(p, ret, NewJob(ret, filter, b, Lesser(len, MaxDoc), m), b)
          /\ metas' = IF m = NULL THEN metas ELSE metas \cup {m}

Slot(id) == IF id \in Id THEN slots[id] ELSE NULL

\* The pointer JobGet returns, and what it leaves in g_active.
JobGet(id) == IF id = SPOOL_RECENT THEN active ELSE Slot(id)

Touch(id) == active' = IF JobGet(id) # NULL THEN JobGet(id) ELSE active

NoJob(id, ret) ==
  /\ JobGet(id) = NULL
  /\ ret = SPOOL_ERR
  /\ UNCHANGED spoolVars

StaleJob(id) ==
  /\ JobGet(id) # NULL
  /\ job[JobGet(id)] = NULL
  /\ Crash("active")

LiveJob(id) ==
  /\ JobGet(id) # NULL
  /\ job[JobGet(id)] # NULL

-----------------------------------------------------------------------------
(* Retiring.                                                               *)

\* Variant: the cache keeps naming the job that went.
active_kept(p, named) == named

\* free_job drops the cache if it names the job.
active_after(p, named) == IF named = p THEN NULL ELSE named

\* Variant: the metadata is forgotten.
free_data(p) == buf' = [buf EXCEPT ![job[p].data] = NULL] /\ UNCHANGED metas

\* free(j->meta); free(j->data)
free_buffers(p) ==
  /\ buf' = [buf EXCEPT ![job[p].data] = NULL]
  /\ metas' = metas \ {job[p].meta}

\* Variant: the counter stays as it was.
Vacate_(id) == slots' = [slots EXCEPT ![id] = NULL] /\ UNCHANGED count

Vacate(id) == slots' = [slots EXCEPT ![id] = NULL] /\ count' = count - 1

\* JobRetire of job p while g_active is "named": the buffers must still be there.
\* A job the pump had taken is done with.
JobRetire(p, named) ==
  IF job[p].meta # NULL /\ job[p].meta \notin metas THEN Crash("meta")
  ELSE IF buf[job[p].data] = NULL THEN Crash("data")
  ELSE /\ UnlinkAndFree(p)
       /\ free_buffers(p)
       /\ active' = active_after(p, named)
       /\ Vacate(job[p].id)
       /\ taken' = NULL
       /\ UNCHANGED <<scratch, pumping, fault>>

\* The filter reads the document; a consuming one frees it as well, and the job
\* is retired after that, which frees it once more.
RenderAndRetire(p, named) ==
  IF ~Readable(p) THEN Crash("data")
  ELSE IF job[p].filter \in Consuming THEN Crash("consumed")
  ELSE JobRetire(p, named)

JobRender(id, ret) ==
  \/ NoJob(id, ret)
  \/ StaleJob(id)
  \/ /\ LiveJob(id)
     /\ RenderAndRetire(JobGet(id), JobGet(id))
     /\ ret = SPOOL_OK

-----------------------------------------------------------------------------
(* Appending, cancelling, recycling, duplicating.                          *)

\* Variant: the document may grow without bound.
TooLong_(p, len) == FALSE

TooLong(p, len) == len > MaxDoc \/ (job[p].len + len) % Word > MaxDoc

\* Variant: the new capacity is not recorded.
AppendTo_(p, len) ==
  LET need == (job[p].len + len) % Word
  IN /\ job' = [job EXCEPT ![p].len = need]
     /\ buf' = IF need <= job[p].cap THEN buf ELSE [buf EXCEPT ![job[p].data] = need]
     /\ UNCHANGED fault

\* The argument is written behind the data, in a larger block if need be.
AppendTo(p, len) ==
  LET need == (job[p].len + len) % Word
  IN IF need <= job[p].cap
     THEN IF len = 0 \/ buf[job[p].data] # NULL
          THEN /\ job' = [job EXCEPT ![p].len = need]
               /\ UNCHANGED <<buf, fault>>
          ELSE fault' = "data" /\ UNCHANGED <<job, buf>>
     ELSE IF buf[job[p].data] = NULL
          THEN fault' = "data" /\ UNCHANGED <<job, buf>>
          ELSE \/ /\ job' = [job EXCEPT ![p] = [@ EXCEPT !.len = need, !.cap = need]]
                  /\ buf' = [buf EXCEPT ![job[p].data] = need]
                  /\ UNCHANGED fault
               \/ fault' = "moved" /\ UNCHANGED <<job, buf>>

\* The length is checked before anything else; realloc may fail, grow the block
\* where it is, or move it, and a moved block's old address is freed again.
JobAppend(id, len, ret) ==
  \/ NoJob(id, ret)
  \/ StaleJob(id)
  \/ /\ LiveJob(id)
     /\ Touch(id)
     /\ \/ /\ TooLong(JobGet(id), len) \/ job[JobGet(id)].len + len > job[JobGet(id)].cap
           /\ ret = SPOOL_ERR
           /\ UNCHANGED <<job, buf, fault>>
        \/ /\ ~TooLong(JobGet(id), len)
           /\ ret = SPOOL_OK
           /\ AppendTo(JobGet(id), len)
     /\ UNCHANGED <<slots, count, qhead, qtail, scratch, metas, pumping, taken>>

JobCancel(id, ret) ==
  \/ NoJob(id, ret)
  \/ StaleJob(id)
  \/ /\ LiveJob(id)
     /\ Touch(id)
     /\ job' = [job EXCEPT ![JobGet(id)].state = "cancelled"]
     /\ ret = SPOOL_OK
     /\ UNCHANGED <<slots, count, qhead, qtail, scratch, buf, metas, pumping, taken, fault>>

\* The buffer kept from last time is freed and the job's own is kept instead,
\* while the job keeps it too.
JobRecycle(id, ret) ==
  \/ NoJob(id, ret)
  \/ StaleJob(id)
  \/ /\ LiveJob(id)
     /\ IF scratch # NULL /\ buf[scratch] = NULL
        THEN Crash("scratch")
        ELSE /\ buf' = IF scratch = NULL THEN buf ELSE [buf EXCEPT ![scratch] = NULL]
             /\ scratch' = job[JobGet(id)].data
             /\ Touch(id)
             /\ UNCHANGED <<slots, count, qhead, qtail, job, metas, pumping, taken, fault>>
     /\ ret = SPOOL_OK

\* A copy of the document, and the same metadata block.
JobDup(id, ret) ==
  \/ NoJob(id, ret)
  \/ StaleJob(id)
  \/ /\ LiveJob(id)               \* no free id or no memory
     /\ ret = SPOOL_ERR
     /\ Touch(id)
     /\ UNCHANGED <<slots, count, qhead, qtail, scratch, job, buf, metas, pumping, taken, fault>>
  \/ /\ LiveJob(id)
     /\ ret \in Id
     /\ LET j == job[JobGet(id)]
        IN IF ~Readable(JobGet(id))
           THEN slots[ret] = NULL /\ Crash("data")
           ELSE \E p \in Ptr, b \in Buf :
                  /\ FreshBuf(b)
                  /\ AddJob(p, ret, NewJob(ret, j.filter, b, j.len, j.meta), b)
                  /\ UNCHANGED metas

JobStatus(verbose) ==
  IF verbose /\ active # NULL /\ job[active] = NULL
  THEN Crash("active")
  ELSE UNCHANGED spoolVars

-----------------------------------------------------------------------------
(* The render pump.                                                        *)

\* JobWork on a cancelled job frees it, and JobRetire finds it in its slot and
\* frees it again.
DropCancelled(p) == Crash("cancelled")

\* JobFlush enters its loop.
JobFlush ==
  /\ ~pumping
  /\ pumping' = TRUE
  /\ UNCHANGED <<slots, count, qhead, qtail, active, scratch, job, buf, metas, taken, fault>>

JobDequeue ==
  /\ pumping /\ taken = NULL /\ qhead # NULL
  /\ IF job[qhead] = NULL
     THEN Crash("queue")
     ELSE /\ taken' = qhead
          /\ qhead' = job[qhead].qnext
          /\ qtail' = IF job[qhead].qnext = NULL THEN NULL ELSE qtail
          /\ job' = [job EXCEPT ![qhead].qnext = NULL]
          /\ UNCHANGED <<slots, count, active, scratch, buf, metas, pumping, fault>>

\* The job it took is rendered (its states RENDERING and DONE are seen by nobody)
\* and retired; a cancelled one is dropped.
JobWork ==
  /\ taken # NULL
  /\ IF job[taken].state = "cancelled"
     THEN DropCancelled(taken)
     ELSE RenderAndRetire(taken, active)

\* Variant: one job is enough.
PumpEnds_ ==
  /\ pumping /\ taken = NULL
  /\ pumping' = FALSE
  /\ UNCHANGED <<slots, count, qhead, qtail, active, scratch, job, buf, metas, taken, fault>>

PumpEnds ==
  /\ pumping /\ taken = NULL /\ qhead = NULL
  /\ pumping' = FALSE
  /\ UNCHANGED <<slots, count, qhead, qtail, active, scratch, job, buf, metas, taken, fault>>

-----------------------------------------------------------------------------
(* The store on its own: any caller, any sequence of calls.                *)

Call ==
  /\ fault = "none"
  /\ ~pumping
  /\ \/ \E f \in Filter \cup {NULL}, n \in Arg, ret \in Id \cup {SPOOL_ERR} :
          JobSubmit(f, n, ret)
     \/ \E id \in WireId, ret \in {SPOOL_OK, SPOOL_ERR} : JobRender(id, ret)
     \/ \E id \in WireId, n \in Arg, ret \in {SPOOL_OK, SPOOL_ERR} : JobAppend(id, n, ret)
     \/ \E id \in WireId, ret \in {SPOOL_OK, SPOOL_ERR} : JobCancel(id, ret)
     \/ \E id \in WireId, ret \in {SPOOL_OK, SPOOL_ERR} : JobRecycle(id, ret)
     \/ \E id \in WireId, ret \in Id \cup {SPOOL_ERR} : JobDup(id, ret)
     \/ \E verbose \in BOOLEAN : JobStatus(verbose)
     \/ JobFlush

Pump == fault = "none" /\ (JobDequeue \/ JobWork \/ PumpEnds)

Ended == fault # "none" /\ UNCHANGED spoolVars

SpoolNext == Call \/ Pump \/ Ended

SpoolSpec == SpoolNew /\ [][SpoolNext]_spoolVars

-----------------------------------------------------------------------------
(* Properties.                                                             *)

SpoolTypeOK ==
  /\ slots \in [Id -> Link]
  /\ count \in Int
  /\ {qhead, qtail, active, taken} \subseteq Link
  /\ scratch \in Buf \cup {NULL}
  /\ job \in [Ptr -> Job \cup {NULL}]
  /\ buf \in [Buf -> DocCap \cup {NULL}]
  /\ metas \in SUBSET Meta
  /\ pumping \in BOOLEAN
  /\ fault \in FaultKind

JobsCounted == count = Cardinality({i \in Id : slots[i] # NULL})

JobsNumbered == \A i \in Id : slots[i] # NULL => job[slots[i]] # NULL /\ job[slots[i]].id = i

JobsListed == \A p \in Ptr : job[p] # NULL => slots[job[p].id] = p

\* The job table, "jobs=%d" of STATUS and the allocated jobs always agree: no job
\* is lost or listed twice through SUBMIT, DUP, RENDER and the pump ("the job
\* table is kept correct", JobRetire).
JobTableConsistent == JobsCounted /\ JobsNumbered /\ JobsListed

\* The ready queue is a list without a cycle that ends at qtail and holds every
\* job there is exactly once, but for the one the pump has taken: retiring from
\* its front, middle or end leaves no link to a freed job, and no submitted job is
\* ever out of the pump's reach (enqueue, unlink_queue, JobDequeue).
QueueSound ==
  /\ {Queue[i] : i \in 1 .. Len(Queue)} = {p \in Ptr : job[p] # NULL /\ p # taken}
  /\ \A i, k \in 1 .. Len(Queue) : Queue[i] = Queue[k] => i = k
  /\ qtail = IF Queue = <<>> THEN NULL ELSE Queue[Len(Queue)]

\* g_active names a job that exists or nothing, after any mixture of retirements by
\* the clients and by the pump (free_job).
ActiveLive == active # NULL => job[active] # NULL

\* Each job has a document buffer to itself, of exactly its capacity, and its
\* contents fit; no job loses its buffer while it is in the table unless RECYCLE
\* has been used, the one operation that keeps a pointer to what a job owns.
DocumentsOwned ==
  \A p \in Ptr : job[p] # NULL =>
    /\ job[p].len <= job[p].cap
    /\ buf[job[p].data] = job[p].cap \/ (buf[job[p].data] = NULL /\ scratch # NULL)
    /\ \A q \in Ptr : job[q] # NULL /\ job[q].data = job[p].data => p = q

\* Retiring leaks nothing: every document buffer and every metadata block that is
\* allocated belongs to a job in the table, however DUP shared it and whatever
\* RECYCLE kept (free_job).
NothingLeaked ==
  /\ \A b \in Buf : buf[b] # NULL => \E p \in Ptr : job[p] # NULL /\ job[p].data = b
  /\ \A m \in metas : \E p \in Ptr : job[p] # NULL /\ job[p].meta = m

\* What each way to end the process needs to have happened before.
DocumentGivenAway == scratch # NULL /\ \E p \in Ptr : job[p] # NULL /\ buf[job[p].data] = NULL
MetadataFreed == \E p \in Ptr : job[p] # NULL /\ job[p].meta \notin metas \cup {NULL}
KeptFreed == scratch # NULL /\ buf[scratch] = NULL
CancelledTaken == taken # NULL /\ job[taken].state = "cancelled"
MustGrow ==
  \E p \in Ptr, n \in Arg : job[p] # NULL /\ job[p].len + n \in job[p].cap + 1 .. MaxDoc
ConsumerHolds == \E p \in Ptr : job[p] # NULL /\ job[p].filter \in Consuming

JobFaultCaused ==
  \/ fault' = fault
  \/ fault' = "data" /\ DocumentGivenAway
  \/ fault' = "meta" /\ MetadataFreed
  \/ fault' = "scratch" /\ KeptFreed
  \/ fault' = "cancelled" /\ CancelledTaken
  \/ fault' = "moved" /\ MustGrow
  \/ fault' = "consumed" /\ ConsumerHolds

\* What can end the process, and all that can: a document that RECYCLE kept as well
\* and somebody freed; a metadata block freed with another job that shared it; the
\* buffer RECYCLE kept, freed with its job; a cancelled job that reaches the pump; an
\* APPEND within the limit whose block moves; a filter that consumes what it renders.
\* Never g_active and never a link of the queue, whoever retired what in between
\* (free_job, unlink_queue, JobGet): these two do not dangle, the others may.
JobFaultsHaveCause == [][JobFaultCaused]_spoolVars

Contents == [i \in Id |-> IF slots[i] = NULL THEN NULL
                          ELSE [obj |-> slots[i], len |-> job[slots[i]].len]]

Table == INSTANCE HandleTable
         WITH Handle <- Id, Object <- Ptr, Size <- DocLen, None <- NULL, table <- Contents

\* The job store implements the table of numbered objects: the lowest free id is
\* issued, it names one job until that job is retired, and a call touches one job.
JobsImplementHandleTable == Table!Spec

Ready == INSTANCE ReadyQueue WITH Object <- Ptr, queue <- Queue, draining <- pumping

\* The linked list implements the ready queue: jobs are rendered in the order they
\* were submitted or reprinted, whatever is retired in between, and a FLUSH lets
\* nobody in and ends with the queue empty (JobFlush).
ImplementsReadyQueue == Ready!Spec
=============================================================================

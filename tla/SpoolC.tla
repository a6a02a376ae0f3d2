------------------------------- MODULE SpoolC -------------------------------
(***************************************************************************)
(* spoolc.exe: one thread that carries out the records of a batch file, a  *)
(* file it did not write and that may end anywhere.  It offers every       *)
(* filter, and neither RECYCLE nor DUP nor the pump.                       *)
(***************************************************************************)
EXTENDS SpoolCore

CONSTANTS MaxRecords,   \* BATCH_MAX_RECORDS
          Records       \* the records a batch file may hold

OpName == {"submit", "render", "append", "cancel", "status", "other"}

ASSUME BatchAssumption ==
  /\ MaxRecords \in Nat
  /\ Records \subseteq [op: OpName, fmt: Filter \cup {NULL}, job: WireId,
                        len: 0 .. MaxArg + 1, flag: BOOLEAN]
  /\ NULL \notin Records

VARIABLES
  stage,   \* where wmain is
  left,    \* records the header still announces: h.count - i
  rec,     \* the record being carried out
  buffer,  \* whether its argument buffer is allocated
  found    \* g_filters: the filters load_filters found

batchVars == <<spoolVars, stage, left, rec, buffer, found>>

BatchInit ==
  /\ SpoolNew
  /\ stage = "header"
  /\ left = 0
  /\ rec = NULL
  /\ buffer = FALSE
  /\ found \in SUBSET Filter

found_for(fmt) == IF fmt \in found THEN fmt ELSE NULL

\* Missing or bad header, too many records, or no memory for the table: exit 1.
ReadBatchHeader ==
  /\ stage = "header"
  /\ \/ stage' = "exit1" /\ UNCHANGED left
     \/ stage' = "loop" /\ left' \in 0 .. MaxRecords
  /\ UNCHANGED <<spoolVars, rec, buffer, found>>

\* Every record was carried out, or the file ends within a record header, or an
\* argument is too long, or there is no memory for one.
EndBatch ==
  /\ stage = "loop"
  /\ stage' = "exit0"
  /\ UNCHANGED <<spoolVars, left, rec, buffer, found>>

\* A record header, and the buffer for its argument if it has one.
ReadRecord ==
  /\ stage = "loop"
  /\ left > 0
  /\ \E r \in Records :
       /\ r.len <= MaxArg
       /\ rec' = r
       /\ buffer' = (r.len > 0)
  /\ stage' = "body"
  /\ UNCHANGED <<spoolVars, left, found>>

FreeRecord == rec' = NULL /\ buffer' = FALSE

\* The file ends within an argument.
Truncated ==
  /\ stage = "body"
  /\ buffer
  /\ stage' = "exit0"
  /\ FreeRecord
  /\ UNCHANGED <<spoolVars, left, found>>

\* Variant: the server's operations are carried out as well.
Operation_ ==
  \/ rec.op = "other" /\ \E ret \in Id \cup {SPOOL_ERR} : JobDup(rec.job, ret)
  \/ rec.op = "submit" /\ \E ret \in Id \cup {SPOOL_ERR} :
                            JobSubmit(found_for(rec.fmt), rec.len, ret)

\* The call a record stands for; the server's own operations are ignored.
Operation ==
  \/ rec.op = "submit" /\ \E ret \in Id \cup {SPOOL_ERR} :
                            JobSubmit(found_for(rec.fmt), rec.len, ret)
  \/ rec.op = "render" /\ \E ret \in {SPOOL_OK, SPOOL_ERR} : JobRender(rec.job, ret)
  \/ rec.op = "append" /\ \E ret \in {SPOOL_OK, SPOOL_ERR} : JobAppend(rec.job, rec.len, ret)
  \/ rec.op = "cancel" /\ \E ret \in {SPOOL_OK, SPOOL_ERR} : JobCancel(rec.job, ret)
  \/ rec.op = "status" /\ JobStatus(rec.flag)
  \/ rec.op = "other"  /\ UNCHANGED spoolVars

\* Variant: a record nobody handles is not counted.
CountHandled == left' = IF rec.op = "other" THEN left ELSE left - 1

CountRecord == left' = left - 1

CarryOut ==
  /\ stage = "body"
  /\ Operation
  /\ stage' = "loop"
  /\ CountRecord
  /\ FreeRecord
  /\ UNCHANGED found

Done == fault # "none" \/ stage \in {"exit0", "exit1"}

Work == ReadBatchHeader \/ EndBatch \/ ReadRecord \/ Truncated \/ CarryOut

BatchNext == (~Done /\ Work) \/ (Done /\ UNCHANGED batchVars)

BatchSpec == BatchInit /\ [][BatchNext]_batchVars

FairBatch == BatchSpec /\ WF_batchVars(~Done /\ Work)

-----------------------------------------------------------------------------
(* Properties.                                                             *)

\* Without RECYCLE and DUP every job owns what it points to: its document buffer
\* is there at its full capacity, its metadata is its own, and the only ways a
\* batch ends in a fault are the filter that consumes its document and a realloc
\* that moves a block.
JobsOwnWhatTheyHold ==
  /\ scratch = NULL
  /\ \A p \in Ptr : job[p] # NULL =>
       /\ buf[job[p].data] = job[p].cap
       /\ job[p].meta # NULL => job[p].meta \in metas
       /\ \A q \in Ptr : job[q] # NULL /\ job[q].meta = job[p].meta => p = q \/ job[p].meta = NULL
  /\ fault \in {"none", "consumed", "moved"}

\* Whatever the file holds, spoolc comes to its end (or is ended by a fault).
BatchEnds == <>Done
=============================================================================

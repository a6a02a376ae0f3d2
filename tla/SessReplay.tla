----------------------------- MODULE SessReplay -----------------------------
(***************************************************************************)
(* sessreplay.exe: one thread that carries out the records of an op-log,   *)
(* a file it did not write and that may end anywhere.  A record is drawn   *)
(* when it is read.                                                        *)
(***************************************************************************)
EXTENDS SessCore

CONSTANTS MaxRecords,   \* OPLOG_MAX_RECORDS
          Records       \* the records an op-log may hold

OpName == {"open", "run", "set", "append", "close", "stat", "flush", "bad"}

ASSUME ReplayAssumption ==
  /\ MaxRecords \in Nat
  /\ Records \subseteq [op: OpName, type: Handler \cup {NULL}, handle: WireHandle,
                        len: 0 .. MaxArg + 1, flag: BOOLEAN]
  /\ NULL \notin Records

VARIABLES
  stage,   \* where wmain is
  left,    \* records the header still announces: h.count - i
  rec,     \* the record being carried out
  buffer,  \* whether its argument buffer is allocated
  handlers \* g_plugins: the handlers load_plugins found

wmainVars == <<stage, left, rec, buffer, handlers>>
replayVars == <<storeVars, wmainVars>>

ReplayInit ==
  /\ SessNew
  /\ stage = "header"
  /\ left = 0
  /\ rec = NULL
  /\ buffer = FALSE
  /\ handlers \in SUBSET Handler

handler_for(type) == IF type \in handlers THEN type ELSE NULL

\* Variant: free(arg) is missed.
DropRecord == rec' = NULL /\ UNCHANGED buffer

FreeRecord == rec' = NULL /\ buffer' = FALSE

\* Missing or bad header, too many records, or no memory for the table: exit 1.
ReadLogHeader ==
  /\ stage = "header"
  /\ \/ /\ stage' = "exit1"
        /\ UNCHANGED left
     \/ /\ stage' = "loop"
        /\ left' \in 0 .. MaxRecords
  /\ UNCHANGED <<storeVars, rec, buffer, handlers>>

\* The loop ends: every record was carried out, or the file ends within a record
\* header, or an argument is too long, or there is no memory for one.
EndReplay ==
  /\ stage = "loop"
  /\ stage' = "exit0"
  /\ UNCHANGED <<storeVars, left, rec, buffer, handlers>>

\* A record header, and the buffer for its argument if it has one.
ReadRecord ==
  /\ stage = "loop"
  /\ left > 0
  /\ \E r \in Records :
       /\ r.len <= MaxArg
       /\ rec' = r
       /\ buffer' = (r.len > 0)
       /\ stage' = "body"
  /\ UNCHANGED <<storeVars, left, handlers>>

\* The file ends within an argument.
Truncated ==
  /\ stage = "body"
  /\ buffer
  /\ stage' = "exit0"
  /\ FreeRecord
  /\ UNCHANGED <<storeVars, left, handlers>>

\* The call a record stands for; ops it does not know are skipped.
Operation ==
  \/ rec.op = "open"   /\ \E ret \in Handle \cup {SESS_ERR} :
                             SessOpen(handler_for(rec.type), rec.len, {}, ret)
  \/ rec.op = "run"    /\ \E ret \in Handler \cup {SESS_ERR} : SessUseRun(rec.handle, ret)
  \/ rec.op = "set"    /\ \E ret \in {SESS_OK, SESS_ERR} : SessUseSet(rec.handle, rec.len, ret)
  \/ rec.op = "append" /\ \E ret \in {SESS_OK, SESS_ERR} : SessUseAppend(rec.handle, rec.len, ret)
  \/ rec.op = "close"  /\ \E ret \in {SESS_OK, SESS_ERR} : SessClose(rec.handle, ret)
  \/ rec.op = "stat"   /\ SessStat(rec.flag)
  \/ rec.op = "flush"  /\ SessFlush(rec.len)
  \/ rec.op = "bad"    /\ UNCHANGED storeVars

\* Variant: a record with nothing to defer is not counted.
CountDeferred == left' = IF rec.flag THEN left - 1 ELSE left

CountRecord == left' = left - 1

\* FLAG_DEFER is looked at whether the call succeeded or not, and free(arg) ends
\* the record.
CarryOut ==
  /\ stage = "body"
  /\ Operation
  /\ IF rec.op \in {"run", "set"} /\ rec.flag
     THEN /\ stage' = "defer"
          /\ UNCHANGED <<left, rec, buffer>>
     ELSE /\ stage' = "loop"
          /\ CountRecord
          /\ FreeRecord
  /\ UNCHANGED handlers

DeferRecord ==
  /\ stage = "defer"
  /\ SessDefer(rec.handle)
  /\ stage' = "loop"
  /\ CountRecord
  /\ FreeRecord
  /\ UNCHANGED handlers

Done == fault # "none" \/ stage \in {"exit0", "exit1"}

Work == ReadLogHeader \/ EndReplay \/ ReadRecord \/ Truncated \/ CarryOut \/ DeferRecord

ReplayNext == (~Done /\ Work) \/ (Done /\ UNCHANGED replayVars)

ReplaySpec == ReplayInit /\ [][ReplayNext]_replayVars

FairReplay == ReplaySpec /\ WF_replayVars(~Done /\ Work)

-----------------------------------------------------------------------------
(* Properties.                                                             *)

\* A record is in hand exactly while it is being carried out, its length has
\* passed the check against OPLOG_MAX_ARG, and its buffer is allocated exactly
\* then: no way through the loop, a truncated file included, leaves it behind.
RecordInHand ==
  /\ stage \in {"body", "defer"} <=> rec # NULL
  /\ rec # NULL => left > 0 /\ rec.len <= MaxArg
  /\ buffer <=> rec # NULL /\ rec.len > 0

\* Whatever the file holds, sessreplay comes to its end (or is ended by a fault):
\* every way round the loop uses up one of the records announced.
ReplayEnds == <>Done
=============================================================================

----------------------------- MODULE CacheLoad -----------------------------
(***************************************************************************)
(* cacheload.exe: one thread that loads the entries of a snapshot, a file  *)
(* that may end anywhere, into a cache of its own.  An entry is drawn when *)
(* its key is read.                                                        *)
(***************************************************************************)
EXTENDS Cache

CONSTANTS MaxEntries,   \* AVL_DUMP_MAX_ENTRIES
          Entries       \* the entries a snapshot may hold

ASSUME SnapshotAssumption ==
  /\ MaxEntries \in Nat
  /\ Entries \subseteq [name: Name, id_len: Nat, len: 0 .. MaxArg + 1]
  /\ NULL \notin Entries

VARIABLES
  stage,   \* where wmain is
  left,    \* entries the header still announces: h.entry_count - i
  rec,     \* the entry being loaded
  held,    \* the buffers of that entry that are allocated
  loaded,  \* the entries loaded so far
  open     \* whether the file is open

wmainVars == <<stage, left, rec, held, loaded, open>>
loadVars == <<cacheVars, wmainVars>>

Buffer == {"key", "id", "decoded", "value"}

LoadInit ==
  /\ CacheNew
  /\ stage = "start"
  /\ left = 0
  /\ rec = NULL
  /\ held = {}
  /\ loaded = 0
  /\ open = FALSE

OpenFile ==
  /\ stage = "start"
  /\ \/ stage' = "header" /\ open' = TRUE
     \/ stage' = "exit1" /\ UNCHANGED open
  /\ UNCHANGED <<cacheVars, left, rec, held, loaded>>

\* Missing or bad header, too many entries, or no memory for the cache: exit 1.
ReadDumpHeader ==
  /\ stage = "header"
  /\ \/ stage' = "loop" /\ left' \in 0 .. MaxEntries /\ UNCHANGED open
     \/ stage' = "exit1" /\ open' = FALSE /\ UNCHANGED left
  /\ UNCHANGED <<cacheVars, rec, held, loaded>>

\* A step that allocates a block leaves it to the next one to read it full; in
\* between, the file may end (EndLoop).  First the length of a key and its block.
ReadKeyLength ==
  /\ stage = "loop"
  /\ left > 0
  /\ rec' \in Entries
  /\ held' = {"key"}
  /\ stage' = "id"
  /\ UNCHANGED <<cacheVars, left, loaded, open>>

\* The key, the length of the tag, and the block for it.
ReadIdLength ==
  /\ stage = "id"
  /\ held' = held \cup {"id"}
  /\ stage' = "decode"
  /\ UNCHANGED <<cacheVars, left, rec, loaded, open>>

\* The tag is read and copied, if there is memory, and its bytes are freed.
DecodeId ==
  /\ stage = "decode"
  /\ \E ret \in BOOLEAN :
       /\ CacheDecodeId(rec.id_len, ret)
       /\ held' = (held \ {"id"}) \cup (IF ret THEN {"decoded"} ELSE {})
  /\ stage' = "value"
  /\ UNCHANGED <<left, rec, loaded, open>>

\* The length of the value and the block for it.
ReadValueLength ==
  /\ stage = "value"
  /\ rec.len <= MaxArg
  /\ held' = held \cup {"value"}
  /\ stage' = "set"
  /\ UNCHANGED <<cacheVars, left, rec, loaded, open>>

\* The entry is complete: it is stored, or not for want of memory, and counts as loaded.
StoreEntry ==
  /\ stage = "set"
  /\ CacheSet(rec.name, rec.len)
  /\ held' = {}
  /\ rec' = NULL
  /\ loaded' = loaded + 1
  /\ left' = left - 1
  /\ stage' = "loop"
  /\ UNCHANGED open

\* Variant: the tag is forgotten.
FreeKeyAndValue == held' = held \ {"key", "id", "value"}

FreeEntry == held' = {}

\* Variant: an entry that cannot be loaded is skipped without being counted.
SkipEntry ==
  /\ stage \in {"loop", "id", "decode", "value", "set"}
  /\ FreeEntry
  /\ rec' = NULL
  /\ stage' = IF left = 0 THEN "free" ELSE "loop"
  /\ open' = (left > 0)
  /\ UNCHANGED <<cacheVars, left, loaded>>

\* Out of the loop: all entries are loaded, or the file ends or there is no memory
\* within one, or its value is too long.
EndLoop ==
  /\ stage \in {"loop", "id", "decode", "value", "set"}
  /\ FreeEntry
  /\ rec' = NULL
  /\ open' = FALSE
  /\ stage' = "free"
  /\ UNCHANGED <<cacheVars, left, loaded>>

\* The number loaded is printed.
FreeStore ==
  /\ stage = "free"
  /\ CacheFree
  /\ stage' = "exit0"
  /\ UNCHANGED <<left, rec, held, loaded, open>>

Done == fault # "none" \/ stage \in {"exit0", "exit1"}

Work ==
  \/ OpenFile \/ ReadDumpHeader \/ ReadKeyLength \/ ReadIdLength \/ DecodeId
  \/ ReadValueLength \/ StoreEntry \/ EndLoop \/ FreeStore

LoadNext == (~Done /\ Work) \/ (Done /\ UNCHANGED loadVars)

LoadSpec == LoadInit /\ [][LoadNext]_loadVars

FairLoad == LoadSpec /\ WF_loadVars(~Done /\ Work)

-----------------------------------------------------------------------------
(* Properties.                                                             *)

\* Wherever a snapshot ends or memory runs out, the buffers of the entry in hand are
\* freed, the cache is sound and has no more entries than were loaded, and an exit
\* leaves neither an entry nor a block nor the file behind (the breaks of wmain's
\* loop, CacheFree).
SnapshotInHand ==
  /\ CacheSound
  /\ fault = "none" =>
       /\ held \ {"decoded"} = (CASE stage = "id"     -> {"key"}
                                  [] stage = "decode" -> {"key", "id"}
                                  [] stage = "value"  -> {"key"}
                                  [] stage = "set"    -> {"key", "value"}
                                  [] OTHER            -> {})
       /\ "decoded" \in held => stage \in {"value", "set"}
       /\ count <= loaded
       /\ open <=> stage \notin {"start", "free", "exit0", "exit1"}
       /\ Done => blocks = {} /\ \A p \in Ptr : entry[p] = NULL

\* What was loaded stays: until the cache is freed, wherever the snapshot ends and
\* memory runs out, a step changes the values of no name but the one in hand, and of
\* these it keeps all, in their order, and puts at most one before them, the value in
\* hand or, without memory for it, an empty one (wmain's loop, CacheSet).
LoadedStay ==
  [][stage # "free" =>
       \A n \in Name :
         \/ Values(n)' = Values(n)
         \/ /\ stage = "set" /\ n = rec.name
            /\ \E len \in {0, rec.len} : Values(n)' = <<len>> \o Values(n)]_loadVars

\* Whatever the file holds, cacheload comes to its end (or is ended by a fault).
LoadEnds == <>Done
=============================================================================

# Bug Museum: a verification development

The Bug Museum shows memory-safety bugs in small Windows programs. Most of its
files are exhibits of a few lines each; its program logic is in four *capstone*
applications. Each is a `core.dll` that keeps a store, a server that offers the
store on a named pipe and on TCP, an offline client that replays a file of
requests, and plugin DLLs.

This directory models the logic of these applications in TLA+: what they keep
correct on every path, including the paths around the bugs they are built to
show. A planted bug is not a finding here. Where the code reaches freed memory
or writes outside a block, the model says so (`fault`), and the properties say
what stays right up to there: the tables, the counters, the queue, the lock, the
ownership of every block, and which paths never lead to a fault.

All four are modelled, each with its store, its server and its offline programs:
**Revenant** (`src/use-after-free/capstone`), **Encore**
(`src/double-free/capstone`), **Avalanche** (`src/heap-overflow/capstone`) and
**Cascade** (`src/stack-overflow/capstone`).

## 1. The system

### Revenant: a session manager

| Part | State | Operations | Correct when |
|---|---|---|---|
| `sesscore.dll` | `SessTable` (256 slots, `count`), `g_recent`, the batch (`g_batch_data`, `g_batch_len`, `g_batch_n`), heap blocks | `SessNew`, `SessOpen`, `SessGet`, `SessUseRun`, `SessUseSet`, `SessUseAppend`, `SessClose`, `SessStat`, `SessDefer`, `SessFlush`, `SessTableFree` | slots, counter and sessions agree; each session owns one buffer of its capacity; captured lengths stay within captured buffers; handles never lead to freed memory; clients see a table of numbered objects |
| `sessiond.exe` | `g_table`, `g_lock`, `g_plugins`; per connection `conn.cur`, the request and its argument buffer | pipe thread and main (TCP) thread, `serve`, seven handlers | handlers exclude each other; nothing is left behind when a connection drops; a request and its deferral use one session; the lock is always given back |
| `sessreplay.exe` | position in the op-log, one record and its argument | `wmain` | every record is carried out once, and the program ends, whatever the file holds |
| `handler_*.dll` | none | format the argument | not modelled beyond the name of the handler reached |

### Encore: a print spooler

| Part | State | Operations | Correct when |
|---|---|---|---|
| `spoolcore.dll` | `SpoolTable` (256 slots, `count`, `qhead`, `qtail`), `Job.qnext` links, `g_active`, `g_scratch`, heap blocks | `SpoolNew`, `JobSubmit`, `JobGet`, `JobRender`, `JobAppend`, `JobCancel`, `JobRecycle`, `JobDup`, `JobStatus`, `JobDequeue`, `JobWork`, `JobFlush`, `SpoolTableFree` | table, counter and jobs agree; the queue is one list with every job once; `g_active` never dangles; nothing leaks; clients see numbered objects and a first-in first-out queue |
| `spoold.exe` | as `sessiond`, with `g_filters` | as `sessiond`; RECYCLE is for the pipe, DUP and FLUSH are for TCP | the pump never interleaves with a request; a FLUSH empties the queue; the consuming filter is not offered |
| `spoolc.exe` | position in the batch file, one record and its argument | `wmain` | jobs own what they hold; the program ends |
| `filter_*.dll` | none | format the document; `text` also frees it | whether it frees the document is modelled, its output is not |

### Avalanche: a cache

| Part | State | Operations | Correct when |
|---|---|---|---|
| `cachecore.dll` | `buckets`, `nbuckets`, `count`; per entry `key`, `val` in `small[]` or in a block, `next` | `CacheNew`, `CacheSet`, `CacheStoreFast`, `CacheGet`, `CacheGetRaw`, `CacheDel`, `CacheFree`, `CacheFormatLine`, `CachePreviewKey`, `CacheDecodeId` | count, chains, entries and value blocks agree; each name keeps its values newest first, in a chain it shares with others |
| `cached.exe` | `g_cache`, `g_lock`, `g_codecs`; per connection one request with a key and a value buffer | pipe thread and main (TCP) thread, `serve`, SET, GET, DEL, STATS, the TCP fast path | an answer is read from entries that stay; STATS meets each entry it announced once; no buffer is left behind; the lock is always given back |
| `cacheload.exe` | position in the snapshot, the buffers of one entry | `wmain` | whatever the file holds, the entry in hand is freed and the program ends |
| `codec_*.dll` | none | make a value of a value | the lengths they can return |

### Cascade: layered configuration

| Part | State | Operations | Correct when |
|---|---|---|---|
| `cfgcore.dll` | `CfgProfile`: a list of entries (`head`, `count`) | `CfgNew`, `CfgParseBlob`, `CfgOpenFile`, `CfgLookup`, `CfgExpandTemplate`, `CfgMerge`, `CfgAdd`, `CfgFormatLabel`, `CfgFree` | the first entry of a name stands for good; nothing of a bundle that does not parse is kept |
| `cfgsvcd.exe` | `g_store`, `g_lock`; per connection one request and its payload | pipe thread and main (TCP) thread, `serve`, GET and PUSH | a push adds a beginning of its bundle, undisturbed; payload and profile are freed |
| `cfgapply.exe`, `regimport.exe`, `provider_file`, `provider_env`, `provider_reg` | the library, file, key and profile in hand | two `wmain`s, three `ProviderLoad`s | everything is released by whoever is left to do it; the programs end |

### Interaction

Frontends call their store directly, in process. A server has two threads that
share the store and call it only inside one critical section, which it keeps
while it writes replies. Plugins are function pointers taken from DLLs at
startup. An offline client has a store of its own.

### What is hard

- *Two caches of one pointer.* `g_recent` belongs to the store and `conn.cur` to
  a connection; CLOSE clears neither. Which operations use which decides whom a
  request is carried out on.
- *A reply in the middle of a request.* RUN replies, and may block on the client,
  before it defers. Only the lock keeps handle and session together.
- *Lengths remembered for later.* The batch keeps a pointer and a length while
  SET, APPEND and CLOSE go on.
- *uint32_t sums* decide whether an append fits.
- *A queue threaded through the objects of a table*, which are removed from any
  position, by clients and by a pump.
- *Shared ownership.* DUP shares metadata, RECYCLE keeps a job's buffer, one
  filter frees the document it is handed.
- *Walks between replies.* GET and STATS hold a pointer to an entry while they write
  replies that may block.
- *History by insertion.* SET and merging only ever add; which entry a lookup finds
  depends on everything stored before, in Avalanche the newest, in Cascade the
  oldest.
- *Names that are not what was asked for.* Both normalised lookups copy into a
  buffer they do not initialise, so a short name carries old bytes behind it.
- *Half an operation.* An allocation that fails leaves an entry without a key, a
  copy without its value, or a merge cut short, and the answer is OK.
- *Input that ends anywhere*: dropped connections, truncated files, allocations
  that fail.

`PROJECT.json` lists each hazard with its line and the properties that watch it.

## 2. The modules

| Module | Models | How it corresponds |
|---|---|---|
| `Machine` | `uint32_t`, NULL, the longest argument | |
| `HandleTable` | abstract | a table of numbered objects |
| `ReadyQueue` | abstract | a queue that is filled, withdrawn from, and drained |
| `SessCore` | `sesscore.c` | one operator per exported function; the last parameter is the C return value |
| `ServeLoop` | `serve`, `pipe_thread`, `tcp_loop`, the same text in `sessiond.c` and `spoold.c` | `pc[t]` is where thread t is; `todo[t]` is what it does before `LeaveCriticalSection` |
| `Sessiond` | `sessiond.c` | `SessCore` and `ServeLoop` composed; one operator per `h_` handler |
| `SessReplay` | `sessreplay.c` | `SessCore` with a file in place of clients |
| `SpoolCore` | `spoolcore.c` | as `SessCore`; `JobFlush` is a loop of steps |
| `Spoold` | `spoold.c` | `SpoolCore` and `ServeLoop` composed |
| `SpoolC` | `spoolc.c` | `SpoolCore` with a file in place of clients |
| `Names` | `normalize_key` of `cachecore.c` and `cfgcore.c` | what a name can be looked up as |
| `Versions` | abstract | under each name the values stored, newest first |
| `Cache` | `cachecore.c` | a chain is a sequence of addresses; one operator per function |
| `ServeOnce` | `serve` of `cached.c` and `cfgsvcd.c` | `ServeLoop` with one request a connection |
| `Cached` | `cached.c`, `codec_*.c` | `Cache` and `ServeOnce` composed; `cursor[t]` is the entry a handler points at |
| `CacheLoad` | `cacheload.c` | `Cache` with a snapshot in place of clients |
| `Bindings` | abstract | names that are bound once |
| `CfgCore` | `cfgcore.c` | a profile is a sequence of entries; parsing and merging are loops, an entry a step |
| `Cfgsvcd` | `cfgsvcd.c` | `CfgCore` and `ServeOnce` composed |
| `CfgTools` | `cfgapply.c`, `regimport.c`, `provider_*.c`, `CfgOpenFile` | `stage` is where the program is, `held` what it must release |
| `Cascade` | the three programs of Cascade | a behaviour is a run of one of them |
| `SessCoreProofs`, `ServeLoopProofs`, `SpoolCoreProofs`, `CacheProofs` | | proofs about the stores and the loop that serves |
| `RevenantProofs`, `EncoreProofs`, `AvalancheProofs`, `CascadeProofs` | | proofs about the programs of one application |
| `MC*` | | constants for TLC |

An operator that ends in "`_`", or whose comment begins with "Variant:", is a
faulty version of the definition next to it. No specification uses one; they are
there to show that a property notices the fault.

### Decisions

*Memory.* Pointers are identities of heap blocks. A pointer keeps its value when
its block is freed. The model follows Full Page Heap, the configuration
the `capstone/README.md`s suggest for practising on the programs: an access to a freed
block, or past the end of a block, ends the process there, so `fault` becomes the
kind of reference the access went through and nothing happens afterwards. An
address that some pointer still holds is not issued again. (Page heap delays
reuse; a heap that reuses the address sooner is outside this model.)
`realloc` may fail, grow a block in place, or move it. After a move the code
writes through the old pointer (`sesscore.c:108`, `spoolcore.c`), which is a
fault.

*Small overruns.* Three functions of Avalanche and Cascade write one byte behind a
block they sized exactly (the terminator of a copied key, the copied tag, an integer
field), and the last also reads one behind the payload if that ends with the integer
(`DigitsFault`). Whether that byte is noticed depends on the block's padding: both
outcomes are in the model, absorbed or `fault`. A name that overruns the buffer for names,
a line, a label, the scratch block or the resolved template ends the process. The
fast path of `cached` may fill the padding behind `small[]` unnoticed; a value that
reaches `e->next` is where the model stops, as every later step of the code depends
on the bytes written.

*Uninitialised memory.* `normalize_key` leaves the tail of its buffer as it was.
`Normal` therefore returns every name in use that the copied characters begin, or no
name at all, and each lookup chooses among them.

*Contents* are lengths. Nothing in a store branches on a byte of a document, of a
session's data or of a cached value. The text of a configuration value is a sequence
of pieces, each so many characters or a reference `${NAME}`, since expansion tells
these apart. A name is its first characters and its length.

*Sizes.* `Word` stands for 2^32 and is small in TLC, so sums wrap in reach
of a few appends. In Encore `MaxDoc` is far below `Word`, as `ENC_MAX_DOC` is;
`SpoolCoreAssumption` says so. The frontends run with `MaxArg` equal to the
store's own limit, as in the code; the stores on their own also get longer
arguments, which their API admits, so that their clamps are exercised.

*Requests* are records with the fields an operation reads. An argument one byte
too long stands for all that are refused; one op that no handler serves stands
for all such ops. Reads that are satisfied piece by piece are one step, and a
connection may drop before or within any of them.

*Inside the critical section* a thread's steps are separate where another thread
could notice: the store call, each block of replies, the deferral, and each
dequeue and each job of the pump. Consecutive writes to one client are one step.

*The process.* A failing `socket`, `bind` or `listen` ends the server, a failing
`CreateNamedPipeW` ends the pipe thread, a failing `accept` is retried and is no
step. `SessTableFree` and `SpoolTableFree` free the table block as the last call
of the offline clients; their exit stands for it. The registry key `provider_reg`
reads may be deleted by somebody else while it is open (`DeleteKey`).

## 3. What is checked

Every run explores its bounded instance completely. "Violation" runs show that a
statement of the repository is not what the code does.

| Run | States | Shows |
|---|---|---|
| `sess_store` | 51 thousand | any calls, by handle and through RECENT, in any order, with failing and moving allocations: `TableConsistent`, `BuffersOwned`, `BatchInBounds`, what ends the process has one of four causes (`FaultsHaveCause`), and the store implements `HandleTable` |
| `sessiond` | 569 thousand | both threads, every operation: `LockDiscipline`, `NoArgumentLeft`, `DeferSameSession`, and the liveness properties `LockReleased`, `WaitsOnlyWhileOtherServed` |
| `sessreplay` | 111 thousand | any op-log, cut off anywhere: `RecordInHand`, `ReplayEnds` |
| `spool_queue` | 26 thousand | three jobs on the queue: `JobTableConsistent`, `QueueSound`, and the list implements `ReadyQueue` |
| `spool_documents` | 224 thousand | growth, reuse, reprints, the consuming filter: `DocumentsOwned`, `NothingLeaked`, what ends the process has one of six causes, never `g_active` or a link of the queue (`JobFaultsHaveCause`), and the store implements `HandleTable` |
| `spoold` | 501 thousand | both threads, every operation: `PumpInsideLock`, `NeverConsumed`, `FlushedEmpty`, `LockReleased` |
| `spoolc` | 128 thousand | any batch file: `JobsOwnWhatTheyHold`, `BatchEnds` |
| `cached` | 391 thousand | both threads, every operation, any memory failure: `CacheSound`, `AnswersExact`, `RequestFreed`, `LockReleased`, and the cache implements `Versions` |
| `cacheload` | 73 thousand | any snapshot, cut off anywhere: `SnapshotInHand`, `LoadedStay`, `LoadEnds` |
| `cascade` | 543 thousand | the service with both threads, and both tools with every provider: `PushedPrefix`, `NothingLeft`, `SettledExpansions`, `ProgramsEnd`, and the store implements `Bindings` |
| `sess_data_cap` (violation) | | `DataWithinCap`: `sesscore.h` calls `SESS_MAX_DATA` the cap of a data buffer; APPEND does not apply it |
| `sessiond_recent` (violation) | | `PipeRecentIsCurrent`: `sessiond.c` says RECENT on the pipe is the connection's own current session; APPEND uses the server-wide one |

### Bounds, and why they are enough

- `sess_store`: two handles and three addresses, so that a handle is reissued
  while the session it named before is still pointed to by `g_recent`; a batch of
  two, filled and overfull; `Word = 4` with arguments of up to 2, so that sums
  grow a buffer, reach the last length, and wrap. Addresses are symmetric:
  no operation orders them.
- `sessiond`: one handle and two addresses let a stale `conn.cur`, a stale
  `g_recent` and a live session exist at once. There is one request of each kind,
  RUN in both ways of naming a session, one refused for its length and one for
  its op. Two connections, one after the other, are in reach on both transports.
  No symmetry is used, because liveness is checked.
- `sessreplay`, `spoolc`: at most five and four records, enough to open, touch,
  close and use a session again, or to submit two jobs and retire them in either
  order. The records are drawn from `EveryRecord`, with replays of any
  composition.
- `spool_queue`: three jobs are the least with a front, a middle and an end;
  documents are empty. `spool_documents`: two jobs, two metadata blocks and three
  buffers, so that a recycled buffer outlives its job while another takes its
  place. They are separate because the product of both is beyond TLC's reach.
- `spoold`: two jobs, one transport draining while the other waits.
- `cached`: two addresses in one chain, so that an entry hides an older one of its
  name or stands behind one of another name, and SET also meets a full heap. Three
  names share their beginning: a short one, one of the length at which names are cut
  and whose line and preview overrun, and one the buffer for names does not hold. `SmallSize
  = 1`, `NextAt = 2`: lengths of up to 5 are kept inside, in the padding, in a block
  and beyond it, and 6 is refused. All buffer sizes are scaled down from the
  constants of the code in the same order.
- `cacheload`: three entries in two chains, tags of no byte and of some, values
  inside the entry, in a block, and too long.
- `cascade`: the store has memory for three entries (`Room`), so that pushes of
  two entries are merged whole, in part and not at all, and a name pushed twice
  is in the store twice. What is pushed (`Pushed`) has a template ahead of what
  it refers to, an item behind the last one announced, an integer that is too
  long and ends the payload, one entry too many with a blob that is too long to
  be peeked at, and a name over the limit behind a good entry; a refused value
  and a bundle that is cut off are among what the tools read (`Bundles`). No
  template of the run expands beyond its line and no GET asks for a name that
  overruns its buffer; both end the process at once, and what is proved covers
  them. `MaxEntries`, a limit of the code for bundles, also bounds how many
  names or registry values a provider goes through, which nothing in the code
  does.

### Fairness

`Sessiond` and `Spoold` assume that a thread inside the critical section takes
its next step, and that a thread waiting for a lock that *stays* free gets it.
The first holds because nothing in a handler waits except the reply, and a
blocked write ends when the client takes the bytes or goes away; a client that
does neither for ever would hold the lock for ever, and that is assumed not to
happen. The second is what a critical section promises; it promises no order, so
the lock may go to the other thread again and again. Hence
`WaitsOnlyWhileOtherServed` rather than "every request is served". Nothing is
assumed of clients otherwise: they need not connect, nor send a second byte.
`SessReplay`, `SpoolC` and `CacheLoad` assume that the only thread runs.
`Cached` assumes of its threads what `Sessiond` does. `Cascade` assumes that a
thread inside the critical section runs on and that a tool runs on; that a deleted key
stays away is no step a tool takes, so `ProgramsEnd` says what does end: everything
but `provider_reg` asking a deleted key for its values, which `provider_reg.c:48` does
for ever.

## 4. What is proved

TLAPS proves the following for every value of the constants (any number of
handles, any heap, any word size, any set of requests), from the named
assumptions `MachineAssumption`, `SessCoreAssumption`, `SpoolCoreAssumption` (which
asks for a finite heap, so that a walk along links can be counted),
`ServeAssumption`, `TrafficAssumption`, `ReplayAssumption`, `BatchAssumption`,
`NamesAssumption`, `CacheAssumption`, `CachedAssumption`, `SnapshotAssumption`,
`CfgAssumption` and `SvcAssumption`, which TLC evaluates in the runs. Every invariant,
action property and refinement the passing runs check is stated by a theorem.

*The store* (`SessCoreProofs`). `StoreInv` is inductive. It is the conjunction of
the type invariant and four properties that need each other: `HandlePathSafe`
(no call through a handle reaches freed memory) needs `SlotsLive` (a slot never names a
freed session); a write fits because of
`BufferFits`; growing or freeing one session's buffer spares the others because
of `BufferUnshared`; a new block has no claims on it because of `BufferHasOwner`
and of the rule that held addresses are not reissued, from which a captured length
also stays in bounds. `CountExact` needs that handles are finite. There is one
lemma per operation (`OpenInv`, `SetInv`, ...), so frontends can cite it.
`StoreImplementsTable` proves the refinement of `HandleTable`, step by step:
OPEN is Create, SET and APPEND are Update, CLOSE is Destroy, all else stutters.
`FaultsAreCaused` goes through the calls by the faults they can end in: by `StoreInv` a
lookup through a handle meets a live session and a write through one fits unless its sum
wrapped or its buffer moved, so that what is left is what CLOSE made of `g_recent` and of
captured buffers (`StaleCaused`, `AppendCaused`, `FlushCaused`, `SetCaused`).

*The threads* (`ServeLoopProofs`). `ServeInv`: a thread that serves has a request
of the clients in hand whose length was accepted, holds an argument exactly on the
stretch where it must, and owns the lock exactly inside a handler. It has one
lemma per step of `serve`, for any set of requests; the proofs about both servers
cite them.

*The server* (`RevenantProofs`). `ServerInv` joins both with `DeferSameSession`
and the shapes `todo` can have. `FoundAgain` is the heart: a session found by a
handle is found again by that handle, because lookups move `g_recent` to what they
found. Between the request and its deferral the other thread is outside the
critical section, and steps outside it leave the store alone. From it follow
`LockDiscipline`, `NoArgumentLeft`, `DeferSameSession` and `ServerKeepsStore`: table,
buffers and batch stay sound under the server. The second pointer into the store, `conn.cur`, can end the process but
never breaks the table. `ServerImplementsTable`: each handler makes one call of the
store, or one that `conn.cur` reaches past the table, and either way a step of the
server opens, changes or closes one numbered session or none (`HandlerImplements`).

*The replay* (`RevenantProofs`). `ReplayUsesStore`: each behaviour of
`sessreplay` is a behaviour of the store, hence `ReplayKeepsStore` and
`ReplayImplementsTable`. `RecordsStayInHand`: a record and its argument are in hand
exactly while it is carried out.

*The job store* (`SpoolCoreProofs`). The queue is what following `qnext` from `qhead`
meets, a recursive function of the state, and no induction principle can be
instantiated. So the proof guesses the list: `ListIs(n, q)` says of a sequence of n
jobs that head, tail and links are those of it and that it holds each job but the
pump's once, and `Linked` that there is such a sequence. `QueueIs` shows that the walk
finds it, by the least number at which it would not (`LeastIs`); that the walk is long
enough is `ListBounded`. `ListExtended` and `ListWithout` say what becomes of the list
when a job joins at the end and when one leaves, first, last or between.
`SpoolInv` joins `Linked` with the properties, which need each other: a retired id
names one job because ids, slots and jobs agree, its buffer is freed once because no
other job has it, the cache cannot dangle because it is dropped with the job it names.
Each call is shown to be of one of eight kinds (`Kinds`): a lookup or a crash, an added,
rewritten, recycled or retired job, and the three steps of the pump; each kind preserves
`SpoolInv`. `StoreImplementsJobTable` and `ListImplementsQueue` then prove both
refinements kind by kind: adding is Create and Submit, retiring is Destroy and Withdraw
(of any place in the queue, or of none if the pump has the job), the pump's dequeue
is Take. `Kinds` has the filters as its parameter, which is all the server's proof needs.
`JobFaultsAreCaused` goes through the calls once more, by the faults: `SpoolInv` says that
`g_active` and the links name jobs that exist (`NeverStale`), and that only what
`g_scratch` keeps can be a job's missing document (`DocumentMissing`); each other fault
is traced to what RECYCLE, DUP, CANCEL, a growing APPEND or a consuming filter leaves.

*The spooler's server* (`EncoreProofs`). `PumpInsideLock` is inductive together
with `ServeInv`, and needs nothing of the job store but what starts and ends a
pump: a handler runs with no pump at work, FLUSH alone starts one, and the thread
it runs on leaves its step only when the pump ends. `LockDiscipline` and
`NoArgumentLeft` follow as for `sessiond`. So a handler makes one call of the store at
rest (`HandlerCalls`), a step of one of the kinds with the loaded filters
(`ServerKinds`): `SpoolInv` holds in the server too, and a job's filter is a loaded one
or that of a job before it, hence `NeverConsumed`. The pump ends with nothing queued and
nothing taken, thus with no job (`NothingQueued`), and no step comes between that and
the answer (`FlushDoneKept`): `FlushedEmpty`. As every step is a call, a step of the
pump or none, a behaviour of the server is one of the store (`SpooldUsesStore`), and
both refinements hold for the server too (`SpooldImplementsStore`).

*The batch client* (`EncoreProofs`). It is a behaviour of the store as well
(`BatchUsesStore`). That its jobs own what they hold is inductive only together with
`SpoolInv`: `Unshared` says that nothing is kept in `g_scratch`, that metadata is there
and one job's alone, and which faults there have been. A pointer a call gets is to a job
that exists (`NeverStale`), whose document is there because nothing was recycled
(`DocumentThere`); so `RENDER` can only end in a filter that consumes (`BatchRender`), and
`APPEND` in a block that moved (`BatchAppend`).

*The cache* (`CacheProofs`, `AvalancheProofs`). `CacheInv` says what holds of chains and
entries together: a chain holds live entries (`Linked`), every live entry is in some chain
(`Reached`), at one place (`Unshared`), in the bucket of its key if it has one
(`Hashed`), the count is the number of live entries, and value blocks belong to
them. Each operation preserves it on its own, `InsertInv` for every way SET and the
fast path add an entry and `UnlinkInv` for a removal at any place; DEL needs
no more of the name it looks up than that the walk stops somewhere. `CachedInv` adds
what each thread holds for its request, who owns the lock, and for STATS that the
lines due are the entries from the cursor on and those passed over without memory. That needs the order of the walk:
`PlacesCounted` (a bijection of places and entries), `FirstExists` (places are well
ordered) and `WalkGoesOn` (going on to the next entry leaves one less). While an
answer is written the other thread is outside the critical section and points
nowhere, so `AnswersExact` follows; so do `CacheSound` and `RequestFreed`.

*The history of a name* (`CacheProofs`, `AvalancheProofs`). `ImplementsVersions` selects
a name's entries from a chain with a fold, which no induction principle reaches. So, as with
the queue, the proof speaks of an enumeration: `Lists` says that a sequence of places of a
chain is increasing and has exactly those that hold the name. There is one
(`ListExists`, by the shortest chain without), its length is that of the selection
(`ListCounts`), and the values at its places are the history. Linking an entry first
puts its value in front of its own name's and leaves the others (`InsertStores`);
unlinking the first match drops the newest (`UnlinkRemoves`).

*The snapshot loader* (`AvalancheProofs`). `LoadInv` joins `CacheInv` with the stage of
`wmain` and what it holds there; that an exit leaves nothing needs that `CacheFree` frees
each entry with its block (`CacheFreeInv`) and that blocks belong to entries. Hence
`SnapshotsStayInHand`, and with `InsertStores` `LoadingKeeps`: up to `CacheFree` a step keeps
the values of every name in their order, and puts at most the one in hand before its own.

*Cascade* (`CascadeProofs`). `CascadeInv` relates the profile being built and what is
left of it to the bundle of the request: what is parsed is a beginning of it, what is
merged is a beginning of what was parsed, and only the thread with the lock has either. The
store only grows at its end (`Grows`), and in a list that grew a walk ends where it
ended (`GrownFirst`); from this follow the refinement of `Bindings` and
`SettledExpansions`, the latter because the texts a template takes in are those of
first entries. `PushedPrefix` and `NothingLeft` follow from the invariant.

*Going forward* (all of these modules). Each loop that `LockReleased`, `ReplayEnds`,
`BatchEnds`, `LoadEnds` and `ProgramsEnd` are about has a measure, a number of steps still
to come, that every step lessens:

- `ReplayGoesForward`, `BatchGoesForward`, `LoadGoesForward`: the records or entries
  left, for any file.
- `OwnerGoesForward` of `sessiond`: at most four steps from the lock to its release.
- `PumpGoesForward` and `OwnerGoesForward` of `spoold`: two steps per queued job. That
  `Queue` has a length and `JobDequeue` shortens it comes from `Linked`.
- `OwnerGoesForward` of `cached`: at most `count` steps and four; a STATS walk has the
  entries from its cursor on before it, as in `AnswersExact`.
- `ProgramsGoForward` for Cascade: an entry of a push is parsed in one step and merged in
  another, and what is merged is as long as what was announced (`Holds`); a tool passes
  its stages in one direction.

The theorems about the servers also say that a step of the other thread leaves the measure
as it was, with all that it is computed from. Where the process may end the theorem says so:
after a fault nothing more is done.

### Only model-checked

Liveness: `LockReleased`, `WaitsOnlyWhileOtherServed`, `ReplayEnds`, `BatchEnds`,
`LoadEnds` and `ProgramsEnd`. Of all but the second the measure is proved, above; that the
next step is possible and, by fairness, is taken stays with TLC, as the prover handles
neither fairness nor ENABLED. The two properties with a violation run are shown to fail,
not proved.

## 5. Disagreements met

Two have a violation run (above). These have none, as a property of them would
restate a line:

- `protocol.h:25` of Revenant says FLAG_DEFER applies to a USE; `h_use_append`
  (`sessiond.c:105`) reads no flags.
- A CLOSE of a handle that is not open, or of RECENT, is answered OK
  (`sessiond.c:112`) although the store refuses it.
- `spoolcore.c:19` calls `g_scratch` a buffer kept for the next submit; no submit
  uses it.
- `cfgcore.c:155` speaks of folding case; `normalize_key` does not fold.
- `cachecore.h:44` calls `CacheGet`, the lookup of the pipe, lenient; as the old bytes
  of its buffer follow a short name, it finds less than the exact lookup of TCP.
- A reference to an integer expands to nothing, since an integer's text is not kept.
- Merging appends (`cfgcore.c:187`) and lookup takes the first match, so a pushed
  value never replaces an older one of the same name.

## 6. Not modelled

- `handler_*`, `filter_*` output, `calc`: formatting of one argument, no state.
- The exhibit variants: one function each, without state between calls.
- Build scripts, `tools/decompile.py`: they drive other tools.
- Conversions between wide and narrow names in the tools; what the tools print.

## 7. Plan

1. For the measures of a server's owner, that a step of the owner is always possible,
   stated without ENABLED: for each shape of what is left to do, a next state.
2. With it, the part of `WaitsOnlyWhileOtherServed` that needs no fairness: a thread that
   waits is held up by the owner's remaining steps alone.

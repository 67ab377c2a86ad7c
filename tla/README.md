# SoupDB in TLA+

SoupDB is a small relational engine in Python: SQL text goes through a parser
and a planner to volcano-style operators over paged files and indexes; a TCP
server (the *gestor*) gives each connection a thread and a transactional
session; a lock manager keeps the sessions apart. This directory holds TLA+
models of its stateful parts, the TLC configurations that check them, and
machine-checked proofs about most of them. `PROJECT.json` maps each definition
to the source lines it models, and lists the runs, the mutants (a plausible bug
per property, which the property must catch), the hazards and the theorems.

Run a configuration with `tlc -config X.cfg M`, where M is the module the table
of runs names; check the proofs with `tlapm M_proofs.tla`, for `M` any of
`Strict2PL`, `TxSession`, `Gestor`, `BufferPool`, `SlottedPage`, `TableFile`,
`TableIndex` and `Catalog`. The longer ones take several minutes.

From the files up to the answers, the layers are: `BufferPool` (pages),
`TableFile` (rows), `TableIndex` (entries), `Catalog` (tables, indexes and the
files they are in), `Query` (answers), `TxSession` over `Strict2PL`
(transactions) and `Gestor` (connections). Each is checked against a statement
of what the one above may rely on.

## The system

| component | state it keeps | operations | correct when | modelled |
|---|---|---|---|---|
| Lock manager (`strict_2pl.py`, `lock_manager.py`) | `_grants`: resource -> transaction -> (mode, count); `_waiting` | `acquire` (polls, searches for deadlocks without the mutex, times out), `release`, `release_all`, `close` | grants compatible; kept until released; deadlocks broken; every timed request ends | `Strict2PL` |
| Session and transaction manager (`session.py`, `transaction_manager.py`) | open transaction, undo journal | `begin`, `commit`, `rollback`, `execute_statement`, `close`, the locking proxies of catalog, file and index | transactions atomic and isolated, locks held to the end and then gone, index and table agree | `TxSession` |
| Executor (`executor.py`, `index_maintenance.py`) | none between statements | INSERT, DELETE, SELECT, index lookup, row by row | each statement ends, whole or undone | in `TxSession` |
| Gestor (`connection_handler.py`, `__main__.py`) | `_slots`, `_threads`, prepared statements, open transactions | accept loop, one worker per connection, `shutdown`, signal handler | no slot or lock is lost, one response per request, a signal ends the process with its files closed | `Gestor` |
| Page cache and disk (`buffer_manager.py`, `disk_manager.py`) | frames, LRU order, pins, dirty set, file | `pin`, `unpin`, `flush_page`, `flush_all`, `allocate_page` | pinned pages stay, no write is lost except by a crash, for one client at a time | `BufferPool` |
| Table files (`heap_file.py`, `sequential_file.py`, their page formats) | pages, known capacities, chains and largest keys | `insert`, `remove`, `scan`, opening a file | a row keeps its id, ids are not reused, room is reused, keys are in order | `TableFile` |
| B+ tree, extendible hash (`bplus_tree.py`, `extendible_hash.py`, their page formats) | pages of nodes and buckets, the directory | `insert`, `search`, `range_search`, `remove` | the set of (key, rid) pairs, and searches and removals that find it | `BPlusTree`, `ExtendibleHash` |
| R-tree and spatial queries (`indexes/rtree`, `algorithms/spatial`) | tree of nodes with rectangles | insert, remove, range, radius, k nearest, polygon | the answers of a scan | `RTree` |
| Catalog, file manager, plugin registry (`catalog.py`, `file_manager.py`, `plugins/`) | Sys tables, open files, tables, indexes and extensions in memory | open, close; CREATE and DROP of tables, indexes, extensions | memory, Sys tables and files agree, after a failure, a crash and a restart | `Catalog` |
| Planner, evaluator, operators, executor (`planner.py`, `evaluator.py`, `operators.py`, `executor.py`) | none between statements | the plan of a SELECT, its streams of rows | the answer is what the clauses say, with and without indexes and memory | `Expressions`, `Planner`, `Operators`, `Query` |
| External sort, hash group-by and join (`algorithms/external_*.py`) | runs and partitions on disk | merge passes, recursive partitioning | the result of the in-memory operation | `ExternalSort`, `ExternalHash` |
| Inverted-index plugin (`soupdb_inverted/`) | the built index, added and removed documents, their sidecar | `insert_document`, `remove_document`, `match_top_k`, loading | the best k of what is in the index; what the file says can be undone and reopened | `MutableInverted` |
| Ranked queries, vector plugin | artifacts, delta | planning of SEARCH, approximate search | - | only their DDL, in `Catalog` |
| Lexer, parser, wire codec, record and key codecs | none | translation | left to their tests | only what decides an outcome: a value that does not fit its column, an unreadable frame |

How they interact. A worker of the gestor calls `execute_statement` of its
session on its own thread. The session hands the executor a *locking* catalog
whose files and indexes ask the lock manager before each call. Files, and
the indexes that have pages, reach those pages by `pin`/`unpin` on the page
cache of their file. What crosses threads is the lock table, the rows and
index entries behind it, and the gestor's semaphore and thread list. What
survives a crash is what the page caches have written, at a close or to make
room for another page: there is no log. The page caches take no lock, and the
locks above them do not keep threads out of one: S locks on a table are shared
(`session.py:415`), and an undo stores rows without any (`session.py:222`).

What is hard: the deadlock search reads dictionaries other threads change;
DELETE collects rows in a scan and removes them one by one under weaker locks;
rollback re-inserts rows under new ids, and indexes them afterwards, while
others work; a statement may fail between its storage and its index half;
closing one session empties the lock table all share; the signal handler
interrupts the main loop between any two statements; eviction happens in the
middle of a pin, which other threads may interrupt; pages are saved one at a
time, some long before the close, files one after the other, and a dropped file
is deleted at once; a split writes several nodes, may fail half way, and the
tree is used on; an index leaf answers only when no clause above it changes the
question; a spilling operator must give what the one in memory gives.
`PROJECT.json` lists these as hazards, each at its line, with the properties
that cover it or the reason why none does yet.

## Modules

**Lock manager.** `LockModes` has the modes S, U, X, their priority and
compatibility. `Strict2PL` is the polling lock manager: a thread per
transaction, each turn of `acquire` cut at the points where it leaves the
mutex. The block under the mutex is one step (`TryGranted`, `TryRefused`). The
deadlock search is a loop over the live `_waiting` dictionary (`WalkNext`) and,
inside it, over the live holders of a resource (`WalkHolders`); the iterators
remember the size they started with, and `WalkCrash` is the `RuntimeError`
Python raises when another thread has changed it. `LockService` is the abstract
service: a request is granted in one step, a release drops locks.
`MCStrict2PL` adds symmetry and the deadlock properties.

**Transactions.** `TxSession` runs each session on a thread:
`execute_statement`, the row steps of INSERT, DELETE, SELECT and lookup,
failures in either half of a write, the undo journal, commit, rollback, and
`close`. It uses `LockService` in place of `Strict2PL`, which `Strict2PL_safety`
and the theorem `Refinement` justify. An INSERT stores one row, since every row
of a longer one takes the same locks and steps; a table has one index. The undo
of a DELETE has two steps as INSERT has: `UndoRemove` stores the row under a new
id, and `IndexRestored` indexes it; neither takes a lock, so another session may
have found and deleted the row in between. The entry that the undo then makes is
in `orphans`. `AtomicTable` is the abstract specification: rows change only by
whole transactions. `MCTxSession` has the instance.

**Gestor.** The main thread and the workers at statement granularity where they
share something: the slot is acquired before the worker is made, appended to
the list and started, three steps a signal can come between. The `finally`
block of a worker is three steps. Requests that change no state are folded into
`Answer`; the wire format appears only as the outcomes of reading a frame. A
second signal, and `shutdown` called from another thread, are not modelled.

**Page cache.** `BufferPool` is one file's cache, used by several threads. No call
in it takes a lock, so each is cut where the interpreter may change threads: at
each call it makes. A pin is the test for a free frame with the choice of the
least recently used unpinned page (`FindRoom`), the seek and the read of the new
page, which share one position in the file with all other calls, the flush of a
dirty victim (`FlushDirty`, `SeekVictim`, `Write`, `Clean`), its removal (`Drop`),
the new frame (`Insert`) and the reading and writing of the pin count (`CountPins`,
`AddPin`). A client changes its frame in place and flags it when it unpins; `holds`
and `live` say which frames clients have and which of those are still in the
pool. `overlapped` records that two calls of this process have met: what is
promised until then, and what is left afterwards, are different statements.
`Crash` may come in the middle of any call. `PageStore` is the promise to
clients. A page write is atomic, and so is a statement on one dictionary.

**Table files.** `SlottedPage` is the page layout with its arithmetic: slots,
free space, what compaction would recover, insertion, deletion, compaction.
A slot carries the value it points to; `PagesSound`, that no two records
overlap, is what makes that legitimate. `HeapFile` searches for room step by
step: active page, heap of capacities with stale entries (`PopStale`),
unmeasured pages (`Measure`), new page. `SequentialFile` has the main and
overflow chains as pointers on the pages, the cached largest keys, and the
reorganization at 30% of waste. `TableFile` is either of them, as the catalog
opens a table, and `RowFile` is what both promise. Compaction, reading the
pages of a chain and reorganization happen within a call, and a table's lock
keeps other calls out, so a call is one step of `SequentialFile`, and pages are
saved between the steps of `HeapFile`. A sequential file is modelled without
crashes: the code has nothing that would let it come back (see the hazard at
`sequential_file.py:277`).

**Indexes.** `IndexEntries` is the promise: a set of (key, rid) pairs that
insertions and removals change and that splits do not. `BPlusTree` has leaves
and inner nodes of bytes, not of a fixed number of entries, because that is how
the code splits: `InsertInLeaf`, `SplitLeaf` and `SplitRootLeaf` write the leaf,
and the climb (`InsertInParent`, `SplitInternal`, `SplitRootInternal`) is a step
for each node, `pending` being the separator not yet in a parent.
`SplitImpossible` is the failure of `_split_internal` on keys too long for two
halves: the insertion raises, leaves that were split off stay in the chain and
out of the tree (`Lost`), and later insertions and removals work on what is
left. `ExtendibleHash` tries a bucket, splits it or doubles the directory, and
tries again, up to the depth limit and then by an overflow page. In `RTree` a
call is one step, as the tree is in memory, and a subtree is reached by its path
from the root; `Reopen` is saving it as pages and loading it again.
`MutableInverted` is the inverted index under INSERT and DELETE: what was built
is fixed, a change goes to `added` or `removed` and then to the sidecar, whose
write may fail any number of times, so that memory and file drift apart, and a
search merges the best of both parts. A crash makes a table give record ids
again that the sidecar still names, so a document may replace one of the same
id. Texts are keys and their scores are given, different ones in the built index
and the delta. `TableIndex` is an index of one of the four kinds, with the
searches each offers.

**Catalog.** A file is what the pages would say: `disk` is the directory, `pool`
the files open with their buffered pages. `Open` is the whole of
`Catalog.__init__` and either opens or is refused; the statements are whole
calls with the row-by-row effects of a failure (`CREATE INDEX` that meets a NULL
has filled part of the index file); `Close` saves one file per step, and `Crash`
may come at any of them. The pool of a file has 16 frames, and a file with more
pages (`Large`) has dirty ones written before the close: `Evict` writes a page
of such a file, and of the one the close is saving. A page of a heap file holds
one slot, a page of a system table one row; an index with pages of different
moments is `Mixed`, of which nothing is known but that it opens. (A statement on
one may also raise in the code and be undone; a crash within a statement leaves
what a crash after another statement may leave.) `early` records the files with
such pages. Ranked indexes are here as metadata, artifacts and configurations of
their plugin.

**Queries.** `Expressions` is the evaluator, with NULL, errors and the width of
INT. `Planner` chooses the leaf (`IndexForColumn`, the spatial and the nearest
neighbour leaf) and stacks the operators. `Operators` has each operator as a
stream: whether `open` returns, the rows, and whether it raises after the last
of them, so that an error a `Limit` never reaches is not an error. `Query` makes
them statements over one table: `AnswerMeant` compares a result with what the
clauses mean, which is defined without plan, streams or indexes. The order in
which an index or a spill meets rows is nondeterministic. `ExternalSort` and
`ExternalHash` are the two algorithms the operators spill to, as machines over
files and tasks.

## Runs

| run (cfg) | module | what it shows | bounds |
|---|---|---|---|
| `Strict2PL_safety` | `MCStrict2PL` | grants compatible; lost only through their owner or `close`; refines `LockService` | 2 transactions, 2 resources, 3 modes, 2 grants per holder: upgrades, both deadlocks (upgrade and crossed), a walk over a table that changes |
| `Strict2PL_live` | `MCStrict2PL` | a timed acquire ends; transactions that block each other do not do so for ever | as above with S and X; one of the two has deadlines |
| `TxSession_core` | `MCTxSession` | atomicity against `AtomicTable`; no scan over another's inserts; writes stay locked; no lock without transaction; the index has the entries of the rows and those of rows that were deleted before an undo had indexed them | 2 sessions, 2 rows, journals of 3: a row inserted and deleted again, two rows deleted and put back; a row put back and deleted by the other session before it is indexed |
| `TxSession_ends` | `MCTxSession` | every statement and rollback ends, while sessions are closed | 2 sessions competing for one row |
| `TxSession_close` | `MCTxSession` | *violated*: closing one session drops the locks of another's transaction | 1 row |
| `Gestor_server` | `Gestor` | slots conserved, ended connections hold nothing, catalog closed at exit, queued clients served unless some client never stops sending, a signal ends the process | 3 connections, 1 slot, any number of requests |
| `BufferPool_store` | `MCBufferPool` | until two calls overlap: capacity, pins, clean frames, and refines `PageStore`; when they do: one frame more for each other thread at most | 3 pages in 2 frames, 2 threads, 2 contents, 2 pins per page; overlapping calls only of readers |
| `TableFile_store` | `MCTableFile` | sound pages; rows kept under their ids; growth only when full; key order; cached metadata exact | heap file of 2 pages, sequential file of 4, records of 1 and 2 units on pages of 5: up to 3 slots a page, chains of 3 pages, pages full of dead slots |
| `TableIndex_entries` | `MCTableIndex` | the structures are sound, their searches and removals exact, in a B+ tree in which an insertion has failed but for the leaves it left out; each kind refines `IndexEntries` | 3 keys of two lengths, 2 rids, trees of 12 pages: three levels with inner splits and failing ones, changes after these, leaves emptied and refilled, buckets that overflow at depth 2, R-trees of order 2; 3 documents of three scores, built, added and removed |
| `TableIndex_reopens` | `MCTableIndex` | *violated*: an inverted index that took and lost a document stops its database from opening | as above |
| `Catalog_reopen` | `MCCatalog` | Sys tables and memory agree; indexes hold the rows; a closed catalog opens as it was; a crash goes back to the last close, but for files dropped or written early | 1 table, 1 index name, 1 plugin with 2 configurations, 2 rows, 3 openings of 3 statements; a table, its index and one system table larger than their pools |
| `Query_answers` | `MCQuery` | SELECTs answer what their clauses say; an index makes none fail or differ; the external sort and hash are exact | tables of up to 3 rows, 2 indexes, some 60 SELECTs, memory for everything or nothing; 7 records, memory for 2, fan-in 2, depth 2 |

Bounds. Two lock holders are enough for every pairwise property and for both
forms of deadlock; a longer cycle and a transaction that merely waits for one
are not covered by `DeadlockBroken`. Two sessions show every pairwise conflict.
One slot and three connections make two clients wait for a slot. A pool smaller
than the file evicts. A connection may send any number of requests. Page sizes
are scaled so that a page holds between one and three records and compaction
makes the difference between fitting and not fitting. `MaxCount`, `MaxRows`,
`MaxJournal`, `MaxPages`, `MaxPins`, `HeapPages` and `SeqPages` appear only in
guards of calls: they limit what clients ask for. `MaxOrphans` is 0 in the runs:
no statement starts once an undo has left an entry without a row, while those
that are running go on. The sessions have five record ids, and a behaviour that
would need a sixth is not followed. `Followed`, in `MCBufferPool`, follows
overlapping calls only as long as the file is full, nobody changes a page and
the threads hold frames of one page at most: enough for the pool to exceed its
capacity; `StoreRefined` and the invariants but `PoolBounded` say nothing of
such states. `TreePages`, `HashPages` and `RTreeBound` limit the size of an
index (`RTreeBound` the entries of an R-tree, and with them the levels its paths
go down); `MaxSlots`, `MaxOpens` and `MaxChanges` the rows, openings and
statements of a catalog, and `Large` names a table file, an index file and a
system table (the files a close is saving are written early, whichever they
are); a database whose system tables a crash has torn is opened and read, not
altered; `MaxRows` and `MaxIndexes` the table a SELECT is asked of; `Documents`
the record ids of an inverted index. One table and one index name in the catalog
make a name be used again, which is the case that fails when something of the
old one stays. Three rows are the least with which a group, a duplicate and a
row left over can be together. Deadlock checking is off where the system may
stop: the server after its exit, table files and indexes that are full and may
not grow, a catalog whose statements are used up, a query that has been
answered.

Fairness. `Strict2PL`: a thread inside `acquire` keeps running (weak fairness of
its turns); nothing about the clock or the callers, who may hold locks for ever.
`TxSession`: the thread of a statement keeps running; an `acquire` that stays
refused times out, which `AcquireEnds` provides. `Gestor`: the main thread runs,
and the workers run *while the server accepts* (their reads time out after the
idle timeout). That is not enough for a client in the backlog: one that sends a
request before each timeout keeps its slot for ever
(`connection_handler.py:109`), so `QueuedServed` excepts the behaviours in which
some client does (`SlotKept`); after a signal nothing is assumed of the workers,
since `join` has a timeout.

## What the runs found

Recorded as findings:

- `TransactionalSession.close` closes the shared lock manager (`TxSession_close`).
- `MutableInvertedIndex.__len__` subtracts every removed record id, and removing
  a document that was added, or one that was never there, notes one. With an
  index built on an empty table, INSERT and DELETE of one row make the length
  negative; `len()` raises when the index is loaded, and the catalog with it
  (`TableIndex_reopens`).

Other disagreements, seen with these models and described here only:

- An index leaf hands its literal to the index before the filter sees the row,
  although `docs/decisiones.md` keeps the filter above it to preserve the
  meaning of the predicate. On an INT column with a HASH index, `a = 2.0` raises
  where a scan answers, and `a = 'x'` answers where a scan raises;
  `IndexNeutral` is about literals of the type of the column.
- A document of the delta whose score is 0 is no hit, although "Matching is
  determined by postings, never score" (`scoring.py`) and the built index gives
  it: with tf-idf this is a term that every document contains, such as any term
  of the first row of an empty table. `NearestExact` states what is found
  (`DeltaHits`).
- The sidecar is written at once and the rows when the file is closed, so that a
  crash leaves an index that names rows that do not exist.
- `RankedBinding.item_count` is read when the index is loaded, so that an
  exhaustive SEARCH does not count documents added since.
- `_deadlock_detected` iterates over live dictionaries without the mutex. The
  `RuntimeError` leaves `acquire` by a path that does not remove the wait, so
  that `_waiting`, "tx_id -> resource a transaction is currently blocked on"
  (`strict_2pl.py:57`), names a transaction that is not blocked.
- The undo of a DELETE stores the row (`session.py:222`) and indexes it
  (`session.py:223`) without a lock. A DELETE of another session that finds the
  row in between removes it, finds no entry to remove, and the undo then makes
  an entry that stays: a lookup fetches a record id without a row (`orphans`;
  `IndexMatchesStore` states that nothing else goes wrong).
- `BufferManager` and `DiskManager` are shared by connections that hold the same
  table in S (`session.py:415`) or undo a transaction (`session.py:222`), and
  take no lock. When calls overlap, each thread that has passed the test of
  `buffer_manager.py:31` brings a page in, so that the pool exceeds its capacity
  by one frame for each; a seek of one thread between the seek and the read of
  another (`disk_manager.py:75`) gives it another page; a victim may be pinned
  or changed before it is dropped, a page loaded twice has two frames of which
  one is lost, and a count of pins may be left for nobody. The properties of
  `BufferPool` are therefore about behaviours in which no two calls have
  overlapped, but for `PoolBounded`, which says how far the pool can grow.
- A client that keeps sending requests keeps its slot for ever
  (`connection_handler.py:109`), so that a client in the backlog may never be
  served (`SlotKept`).
- After an insertion into a B+ tree has raised in an inner node
  (`bplus_tree.py:504`) the tree is used on. The leaf split off is in the chain
  only, and an entry that is inserted afterwards goes to the leaf before it:
  with the leaves (1,1), then (1,2) and (2,1) in the chain only, inserting (2,2)
  makes the chain (1,1), (2,2), (1,2), (2,1), and a search for 1 stops at 2. Nor
  need `remove(key, rid)` of the session's undo reach the entry that the failed
  insertion has stored. `SearchExact` and `RemovalExact` state what is still
  found: all that is not in such leaves.
- Writes of the sidecar of an inverted index may fail again and again, that of
  the undo too, and a restart then takes back all documents since the last write
  that succeeded, those among them whose explicit transactions went on after the
  failed statement and committed.
- A crash of a database with a file of more than 16 pages leaves that file with
  pages of different moments (`buffer_manager.py:37`), so that a table and its
  index disagree; and a table file with pages written early that no row names is
  taken over, with its rows, by the next CREATE TABLE of the name
  (`catalog.py:467`).
- After a crash the database may not open at all, ever: when an index file was
  deleted by a DROP, the first open recreates it as a page of zeros and the next
  one, unless the first was closed, refuses it; and when a ranked index was
  dropped, or its plugin configured again, its row is back and its artifact is
  not where it is looked for. `CrashRollsBack` states that there is no other
  reason.
- DELETE does not lock the table in X, although `storage/base.py:36` says that
  `remove` does, so a reader sees uncommitted deletions; `NoDirtyInsertRead`
  states what holds.
- A statement that fails half way in an explicit transaction is left in place
  for the client to commit, although `index_maintenance.py:66` says that the
  "caller [...] must invoke rollback on any write failure".
- Errors other than `SoupDBError` end a connection without a response, although
  `docs/protocolo.md:69` says the server answers each request.
- `_migrate_ranked_metadata` copies the rows of the older `SysRankedIndexes`
  whenever `SysPluginIndexes` is empty and leaves the old rows: a migrated index
  that is dropped is back after a restart, and if its table was dropped too the
  open is refused.
- `planner.py:578` says that the evaluator raises on a NULL operand of a
  distance; it returns NULL, and the predicate the docstring calls inert does
  its work. `evaluator.py:10` says "an int is never coerced to a float", and
  `_compare` mixes the two.
- The docstring of `_deadlock_detected` speaks of a transaction that is part of
  a cycle, and the search also answers true for one that waits for a cycle.
- A rollback whose undo raises keeps its locks and the whole journal.
- A signal between the append and the start of a worker makes `join` raise in
  both attempts to shut down, so that the catalog is not closed (the exception
  in `CatalogClosed`); and `join` gives up after a second, so that the catalog
  may be closed under a running worker.
- CREATE INDEX that raises on a NULL leaves a file with entries, which the next
  one of that name adds to (`spoilt` in `Catalog`; `IndexHoldsRows` excepts it).
- A crash between the deletion of a dropped file and the next close brings the
  table or the index back empty (`dropped` in `CrashRollsBack`).
- The planner never passes a memory limit, so the spilling `Sort` and
  `Aggregate` that `Query_answers` checks are reachable only by code that builds
  the operators itself.

## Proofs

Every invariant that a run checks about locks, sessions, gestor, page cache,
table files and catalog is a theorem, for all values of the constants, and so are
their action properties and refinements. Of the indexes this is so for the
extendible hash and the inverted index:

| module | theorems, and the property each states |
|---|---|
| `Strict2PL_proofs` | `TypeCorrect` (`TypeOK`), `Compatible` (`GrantsCompatible`), `OnlyDropped` (`GrantsOnlyDropped`), `Refinement` (`ServiceRefined`) |
| `TxSession_proofs` | `SessionInvariant`, `LocksReleased` (`NoLockLeak`); if nobody closes a session while others work: `LockInvariant`, `ChangesStayLocked` (`WritesLocked`), `ScansSeeNoOpenInsert` (`NoDirtyInsertRead`), `OnlyCloseLosesLocks` (`LocksKept`); if, besides, no index raises: `IndexInvariant`, `IndexFollowsStore` (`IndexMatchesStore`), `TransactionsAtomic` (`AtomicityHolds`) |
| `Gestor_proofs` | `ServerInvariant`, `SlotsKept` (`SlotsConserved`), `EndedKeepsNothing` (`EndedHoldsNothing`), `ClosedAtExit` (`CatalogClosed`) |
| `BufferPool_proofs` | `TypeCorrect` (`TypeOK`), `Bounded` (`PoolBounded`); until two calls overlap: `PinsHold` (`PinnedResident`), `CleanIsSaved` (`CleanMatchesDisk`), `Refinement` (`StoreRefined`) |
| `TableFile_proofs` | `HeapInvariant`, `GrowsWhenFull` (`ExtendsWhenFull`), `SeqInvariant`, `ScansInOrder` (`InKeyOrder`), `MemoryIsRebuilt` (`MetadataExact`), `RecordsApart` (`PagesSound`), `RowsKept` (`FileRefined`) |
| `TableIndex_proofs` | hash: `HashInvariant`, `HashSearch` (`SearchExact`), `HashRefinesEntries` (`EntriesRefined`); hash and inverted: `HashAndInvertedStructure` (`StructureSound`), `HashAndInvertedRemoval` (`RemovalExact`); inverted: `InvertedInvariant`, `InvertedStructure`, `InvertedNearest` (`NearestExact`), `InvertedRefinesEntries` (`EntriesRefined`) |
| `Catalog_proofs` | `CatalogInvariant`, `SysTablesMatch` (`SysMatchesMemory`), `IndexesHold` (`IndexHoldsRows`), `ReopensAsClosed` (`OpenRestores`), `RollsBack` (`CrashRollsBack`) |

**Assumptions.** Each module names what it assumes of its constants
(`ConstantsAssumption`, `SizesAssumption`, `MarksAssumption`, `NamesAssumption`),
and TLC evaluates it on every run. They are that sets that the code enumerates
are finite (transactions, threads, connections, the rows a table starts with), that there
is at least one value to store, that a record fits on an empty page (the code
refuses it otherwise), that the digests and record ids of an index are natural
numbers, its scores integers and the depth limit of a hash not negative (the code
raises on a negative one), and that markers of the catalog's model differ from file
contents and names of different files from one another, as prefixes and
suffixes make them.

**Lock manager.** `TypeOK` is not inductive alone: a turn of `acquire` writes to
the resource of its request, so `CallInv` adds that a thread inside `acquire`
has a real resource with a count below the bound, and that a live walk has a
resource; `TypeInv` is their conjunction. Every other proof rests on it.
`GrantSteps` reduces each action to one of four effects on the table of grants
(grant, drop, drop all, reset), and compatibility, the action property and the
refinement are then argued on those effects: a granted mode was compared with
every other holder, an upgrade never weakens a mode, and each effect is a step
of `LockService` or a stutter.

**Sessions.** `SessionInv` ties the control state to the transaction
(`ControlInv`) and says that a session without one holds nothing (`LeakInv`); it
needs no hypothesis, so locks are released however a transaction ends. The rest
of the locking is proved under `NobodyCloses`, that is for any number of
sessions none of which is closed while others work: `TxSession_close` is the
counterexample without it, and `OnlyCloseLosesLocks` shows that there is no
other way to lose a lock. `LockInv` adds to the invariant that X excludes every
holder, what a session holds at each place of a statement, and that it holds in
X the table once its journal has an insert and each record the journal has
removed; `WritesLocked` and `NoDirtyInsertRead` follow. Both sides of the
argument that a scan sees no open insert are needed: the inserter holds the
*table* in X, not only its row, and the reader holds it too.

That index and table agree needs more, because they do not at most moments:
`EntriesInv` says of each entry which row accounts for it, which session is on
its way to remove it, or that it is one of the `orphans`, of each row that it
has its entry or a session on its way to add it, and `Remembers` that what a
session is about to do is what its journal will undo. A session that undoes a
DELETE is on its way too, and holds no lock: that its row may be gone when it
gets there is what makes an orphan (`RestoredIndex`), and a record id no one
knew before is what keeps others from indexing the same row. `OneWriter` and
`OneRemover` show that no two sessions with locks are on their way to the same
row. It is proved under `IndexesTakeAll`: an index that raises leaves a
half-done change behind in an explicit transaction, the hazard at
`session.py:123`. `TransactionsAtomic` is the refinement of `AtomicTable`, whose
state is how many rows of each value are committed. It is a matter of counting:
`GainsRow`, `LosesRow`, `DeletesRow`, `RestoresRow` and `Commits` give the
effect of each step on the rows a session has added or taken (`Mine`, `Taken`)
and on those it has not touched, and `CountInv` that there are finitely many of
each. A rollback takes changes back one at a time, restoring rows under new ids,
whatever other sessions do between two of them: each is a `Write` that brings
the transaction nearer to no change and leaves the committed rows as they are.

**Gestor.** `ServerInv` is `TypeOK` with `MainInv` (how often `shutdown` has
been entered, and when the main thread has a connection in its hands),
`PlaceInv` (a connection is queued, in those hands or in the list, never in two
places) and `SlotInv`, which counts: free slots and workers, with the slot taken
for the next one, make up `MAX_CONNECTIONS`, and at most that after a signal,
which may lose one. `SlotsConserved` alone is not inductive, because the slot
travels from the main thread to a worker in three steps.

**Page cache.** `PoolInv` has three parts, preserved together. `Shape` types the
state and says which page and victim a call knows at each of its steps. `Bound`
counts the frames with those on their way in (`Bringing`): a thread is on its
way from the test for room, or from the removal of its victim, until it has
inserted its page, so that several threads exceed the capacity by as many frames
as have passed the test together, all but one of them. `Calm` holds until two
calls overlap, and says what a call in the middle may rely on: its page is still
out of the pool, its victim still in it and unpinned, the position where it left
it, its copies those of the file or the frame; and between calls, that pins are
counted exactly (`Counted`) and that a frame not flagged and not being changed
is its page (`Saved`). The refinement then is a matter of each step: dropping a
victim loses nothing because it is unpinned, hence not being changed, hence
saved.

**Table files.** `SlottedPage_proofs` has the lemmas: what storing, removing and
compacting do to the slots, the bytes and the records of a page (`WellLaid`:
no two records overlap, and directory and live records together fit on the page,
the records in the part that is not free). Room is a sum of lengths; its
lemmas are proved by a least counterexample among the subsets (`LeastSubset`).
`HeapInv` says that what is known of the room of pages is true, that each known
capacity has its entry in the heap beside the stale ones, that the heap stays
below its bound, and that a search that measures pages has found no known page
with room; `ExtendsWhenFull` follows, which says nothing of the heap. `PageInv` also
says that the file has no more slots of a page than memory: without it a crash
could bring back ids that `RowFile` has never given out.
`SeqInv` is four things: `Sheets` (each page is sound), `Linked` (the chain of
main pages and the chain of each bucket are chains without repetition, `owner`
says which bucket a page is in, and every page is in one), `Remembered` (the
largest keys and the pointers in memory are those of the pages) and `InOrder`
(the keys of each bucket are above those of the buckets before). `InKeyOrder` is
not inductive without the middle two: an insertion chooses its bucket from
memory. `PathIs` and the lemmas after it are about chains: that following the pointers
yields the chain, and what adding a page at the end of one does to it and to the
others. `RowsKept` is the refinement of `RowFile` by both organizations: `Held` is what
a page holds under which slots, `RowsAt` what a file holds under which ids, and
one lemma per effect (a record stored on a page, removed, a page added, pages
laid out anew, pages saved and taken back) says what becomes of the rows.

**Indexes.** `TableIndex_proofs` speaks of the behaviours in which the index is
of one kind. For the *hash*, `DirectorySound` is stated with chains that are
walked, and is not inductive: `HashInv` says instead that there is a function
`h` from each page to the head of its chain (`Homed`: pages only lead to later
ones, an overflow page has one before it, and only buckets at the depth limit
have any), that the slots of a bucket are those with the low bits of any one of
them (`Classes`), that an entry has the low bits of the slots of its bucket
(`Placed`), and that no entry is in the pages twice (`Once`). Three groups of
lemmas carry it. On numbers: `2 ^ n` doubles, and the low bits of a digest are
those of its low bits (`LowLow`) and with one bit more are the old ones with or
without `2 ^ d` (`LowNext`), from which `NextBit` says which slots and entries a
split moves. On walks: `AlongIs` unfolds one, `FromTheEnd` is induction along
the chains, which ends because pages lead to later ones, and `ChainHome`
identifies the chain of a bucket with the pages whose `h` is that bucket. On
sequences: `OnlyIs` says what a page keeps. Then each step has its lemma
(`AddKeeps`, `NewPageKeeps`, `SplitPages` and `SplitSlots` under `SplitKeeps`,
`RemoveKeeps`), which also says what becomes of the entries (`Held`); the
refinement is read off. `FoundHolds` is the search, in the middle of an
insertion too. For the *inverted index*, `InvertedInv` keeps added, removed and
built documents apart, in memory and in the file, and a change of either keeps
it so, whatever the other one is; `InvertedRefinesEntries` then says that the
file holds the entries of some moment (`saved` in `IndexEntries`), to which a
restart goes back. `match_top_k` is right because the best `n` of a set are the
best `n` of any part of it that has them (`FirstOfPart`), and no more hits of
the built index are dead than ids were removed (`DeadHits`), so that asking it
for `n` and that many leaves out none of them.

**Catalog.** `CatalogInv` is `TypeInv`, `PoolInv` (which files are open when),
`MemoryInv` (the Sys tables in the pool describe the tables, indexes and ranked
indexes in memory, and the R-trees are of those), `DiskInv` (the same of the
files and what was last closed, but for files dropped or written early) and
`ClosedInv`. `SysMatchesMemory` alone says nothing once the catalog is closed,
so it cannot survive an opening; `DiskInv` is what an opening starts from, and
`Close` saves file by file, which is why each part has its case for a close that
is under way (`Saving`) or was cut short (`Torn`). `OpenInv` is what the
statements of an open catalog rely on. An index is `spoilt` as soon as a crash
comes after a page of its file or of its table was written (`Evict`), and a
system table with such pages makes a crash tear the database: `Evict` then only
has to keep the rest of `DiskInv`, which excepts those files. `OpenRestores` and
`CrashRollsBack` are read off `DiskInv`; `WhyRefused` lists what an open can be
refused for.

**Only model-checked.** All liveness: the proof system has no `ENABLED`. Of
`TableIndex_entries`, what is said of B+ trees and R-trees: `NearestExact` for the
latter, and their parts of `StructureSound`, `SearchExact`, `RemovalExact` and
`EntriesRefined`. What
`Query_answers` checks: `Expressions` and `Planner` have RECURSIVE operators, for
which there is no arithmetic backend, and `Operators` and `Query` use them; of
`ExternalSort` and `ExternalHash`, which have none, nothing is proved. What a
fold or a recursive function computes for every input would need induction with a
predicate, which the provers cannot instantiate; sets that are shown to be all of
an interval (`Downward`, `FromTheEnd`) and least counterexamples stand in for it
where a proof needed it. The two *violated* runs are counterexamples and have
nothing to prove.

## Not modelled

Ranked queries and the vector plugin: planning a SEARCH is a variation of what
`Planner` does for distances, and approximate search is a computation over
floating-point vectors. Of the inverted plugin, tokenizing, building and the
formulas of the scores; a maintenance step under the undo of a session is in
`TxSession` as a failing write of its one index, and not composed with
`MutableInverted`. The wire codec, the record codec and the encoding of keys are
translations of bytes; the models keep the outcomes they decide. The lexer and
the parser turn text into the statements `Query` starts from. `ClusteredBPlusTree`
is used by the benchmarks only. The haversine metric is any other metric in
`Query`. The catalog leaves out the choice of SEQUENTIAL files, the types table
and the migration of the older layout of ranked indexes. Benchmarks, scripts and
the demonstration use the engine and are no part of it.

## Plan

At most twelve runs and forty properties are kept, one per distinct question; a
new component takes the place of the weakest of them.

1. Locks, sessions, gestor, page cache, table files, indexes, catalog, queries,
   external algorithms: done, as above.
2. Proofs: locks, sessions, gestor, page cache, table files, catalog, extendible
   hash and inverted index, done as above. Next: that `BPlusTree` keeps its leaves
   in order through splits and refines `IndexEntries`; that the rectangles of an
   `RTree` cover what is below them; that a run of `ExternalSort` loses no record
   in a merge pass.
3. `MutableInverted` under the undo journal of `TxSession`, with several indexes
   on a table.

------------------------------- MODULE Catalog -------------------------------
(***************************************************************************)
(* The catalog (engine/common/catalog.py) and its files                    *)
(* (engine/storage/file_manager.py).                                       *)
(*                                                                         *)
(* A database is a directory of files: the system tables, a heap file      *)
(* t_<table> for each table and a file ix_<index> for each B+ tree or hash *)
(* (here "BTREE"); an R-tree has none and is filled when the database is   *)
(* opened.  A ranked index is an artifact of its plugin, in the directory  *)
(* of the plugin's configuration.  Files are written when the catalog is   *)
(* closed, one by one: before that what they hold is in the pool, and on   *)
(* disk a new page is zeros.  Two things are not put off to the close: a   *)
(* dropped file is deleted, and a file with more pages than its pool has   *)
(* frames has dirty ones written to make room (BufferPool), so that a      *)
(* crash leaves it with pages of different moments.                        *)
(*                                                                         *)
(* A table has one column that is indexed; a column of type "number" or    *)
(* "point" is keyed, "text" is ranked.                                     *)
(***************************************************************************)
EXTENDS Naturals, Sequences, FiniteSets, Bags

CONSTANTS Table, Index,      \* their names, strings
          Type,              \* of columns
          Key, Null,         \* the values of the column
          Plugin, Config,    \* the vector plugins and their configurations
          Large,             \* the files that may have more pages than a pool
          MaxSlots,          \* bound on the rows ever inserted into one heap file
          MaxOpens, MaxChanges,  \* bounds on the openings, and the statements of each
          None, Missing, Zeros, Mixed, Gone

ASSUME ConstantsAssumption ==
  /\ Table \subseteq STRING /\ Index \subseteq STRING
  /\ MaxSlots \in Nat /\ MaxOpens \in Nat /\ MaxChanges \in Nat /\ Null \notin Key

VARIABLES mode,       \* "closed", "open", "closing" or "refused"
          disk,       \* the files
          pool,       \* the files open in _files, with the pages in their buffers
          tables,     \* _tables: the type of the column, or None
          indexes,    \* the _IndexEntry records: <<name, table, kind>>
          spatial,    \* the entries of the R-trees: <<index, table, key, slot>>
          rankedMeta, \* _ranked_meta: <<name, table, plugin>>
          ready,      \* _ranked_ready: names
          factory,    \* whether there is a _ranked_factory
          registered, \* the plugins of its registry
          config,     \* their configurations, None where only discovered
          artifacts   \* <<ranked index, configuration>>, on disk at once

\* What the properties compare with: the catalog when it was last closed, the
\* files dropped since, those that pages were written of early, whether it was
\* lost in a crash since ("torn" for ever, when the system tables were written
\* in part), and the indexes that a failed CREATE INDEX has left entries in or
\* that a crash has left with a file, or a table, of another moment.
VARIABLES closedAs, dropped, early, crashed, spoilt

VARIABLES opens, changes  \* the counters the bounds are about

memory == <<tables, indexes, spatial, rankedMeta, ready, factory, registered, config>>
history == <<closedAs, dropped, early, crashed, spoilt>>
vars == <<mode, disk, pool, memory, artifacts, history, opens, changes>>

-----------------------------------------------------------------------------
\* Files.
SysFiles == {"SysTables", "SysColumns", "SysIndexes", "SysPlugins", "SysPluginIndexes"}
TableFile(t) == "t_" \o t
IndexFile(i) == "ix_" \o i
HeapFiles  == {TableFile(t) : t \in Table}
IndexFiles == {IndexFile(i) : i \in Index}
File == SysFiles \cup HeapFiles \cup IndexFiles

EmptyFile(f) == IF f \in SysFiles THEN {} ELSE IF f \in HeapFiles THEN <<>> ELSE EmptyBag

\* What is in a file: sets of rows, the values of the records of a heap file by
\* slot, how often an index has each key and slot.
SysContents(f) == CASE f = "SysTables"  -> SUBSET Table
                    [] f = "SysColumns" -> SUBSET (Table \X Type)
                    [] f = "SysIndexes" -> SUBSET (Index \X Table \X {"BTREE", "RTREE"})
                    [] f = "SysPlugins" -> SUBSET (Plugin \X Config)
                    [] OTHER            -> SUBSET (Index \X Table \X Plugin)
HeapContents   == Seq(Key \cup {Null, Gone})
Entry          == (Key \cup {Null}) \X (1 .. MaxSlots)

\* An index of pages of different moments is Mixed: its metadata page is there,
\* so that it opens, but what it finds nobody knows, and changes do not mend it.
Added(file, rows)   == IF file = Mixed THEN Mixed ELSE file (+) SetToBag(rows)
Removed(file, row)  == IF file = Mixed THEN Mixed ELSE [e \in DOMAIN file \ {row} |-> file[e]]

\* The marks are none of these, and no type, configuration or key.
ASSUME MarksAssumption ==
  /\ Mixed \notin {None, Missing, Zeros}
  /\ \A mark \in {None, Missing, Zeros, Mixed} :
       /\ \A f \in SysFiles : \A rows \in SysContents(f) : rows # mark
       /\ mark \notin HeapContents
       /\ \A D \in SUBSET Entry : mark \notin [D -> Nat]
  /\ None \notin Type \cup Config \cup {"none"} /\ Gone \notin Key \cup {Null}

\* The prefixes keep the names of the files of tables and indexes apart, and
\* from those of the system tables.
ASSUME NamesAssumption ==
  /\ \A t, u \in Table : TableFile(t) = TableFile(u) => t = u
  /\ \A i, j \in Index : IndexFile(i) = IndexFile(j) => i = j
  /\ SysFiles \cap HeapFiles = {} /\ SysFiles \cap IndexFiles = {} /\ HeapFiles \cap IndexFiles = {}

\* FileManager.storage and the file it is given to: a heap page of zeros is an
\* empty page, a B+ tree refuses one ("page is not B+ tree metadata").
Readable(f) == ~(f \in IndexFiles /\ pool[f] = None /\ disk[f] = Zeros)
OnDisk(f) == IF disk[f] \in {Missing, Zeros} THEN EmptyFile(f) ELSE disk[f]
View(f)   == IF pool[f] # None THEN pool[f] ELSE OnDisk(f)

\* The files of fs are opened, and the first page of a new one is allocated.
Opened(fs)    == [f \in File |-> IF f \in fs THEN View(f) ELSE pool[f]]
Allocated(fs) == [f \in File |-> IF f \in fs /\ disk[f] = Missing THEN Zeros ELSE disk[f]]

\* Mutant of DropFiles: the file is closed, not deleted.
DropFilesKeeping(fs, others) ==
  /\ pool' = [f \in File |-> IF f \in fs THEN None ELSE others[f]]
  /\ disk' = [f \in File |-> IF f \in fs /\ pool[f] # None THEN pool[f] ELSE disk[f]]
  /\ dropped' = dropped \cup {f \in fs : pool[f] # None}
  /\ UNCHANGED early

\* FileManager.drop forgets and deletes the files of fs that are open.
DropFiles(fs, others) ==
  /\ pool' = [f \in File |-> IF f \in fs THEN None ELSE others[f]]
  /\ disk' = [f \in File |-> IF f \in fs /\ pool[f] # None THEN Missing ELSE disk[f]]
  /\ dropped' = dropped \cup {f \in fs : pool[f] # None}
  /\ early' = early \ {f \in fs : pool[f] # None}

\* Rows of a heap file, and those _fill_index reaches: it raises at the first
\* key that an index cannot hold, an R-tree leaves such a row out.
RowsOf(file) == {<<file[s], s>> : s \in {n \in DOMAIN file : file[n] # Gone}}
Stops(file)  == {s \in DOMAIN file : file[s] = Null}
Reached(file) == {r \in RowsOf(file) : \A s \in Stops(file) : r[2] < s}
Located(file) == {r \in RowsOf(file) : r[1] # Null}

Known(t) == tables[t] # None
IndexNames == {e[1] : e \in indexes \cup rankedMeta}

-----------------------------------------------------------------------------
\* Opening.

RankedRows == View("SysPluginIndexes")
StoredTables == {t \in Table : t \in View("SysTables")}
StoredIndexes == {e \in View("SysIndexes") : e[2] \in StoredTables}
TypeOfTable(t) == IF \E c \in View("SysColumns") : c[1] = t
                  THEN (CHOOSE c \in View("SysColumns") : c[1] = t)[2] ELSE "none"

\* _load_plugins: every installed plugin is discovered, and the stored rows
\* configure them and make a factory.
StoredConfig(p) == IF \E r \in View("SysPlugins") : r[1] = p
                   THEN (CHOOSE r \in View("SysPlugins") : r[1] = p)[2] ELSE None

\* The open raises when an index file is a page of zeros, when an R-tree or a
\* ranked index is of a table or a column that is not there, and when the
\* factory finds no artifact.
Refuses ==
  \/ \E e \in StoredIndexes : e[3] = "BTREE" /\ ~Readable(IndexFile(e[1]))
  \/ \E e \in StoredIndexes : e[3] = "RTREE" /\ TypeOfTable(e[2]) = "none"
  \/ \E r \in RankedRows : \/ r[2] \notin StoredTables
                           \/ TypeOfTable(r[2]) # "text"
                           \/ View("SysPlugins") # {} /\ <<r[1], StoredConfig(r[3])>> \notin artifacts

OpenFiles == SysFiles \cup {TableFile(t) : t \in StoredTables}
                      \cup {IndexFile(e[1]) : e \in {x \in StoredIndexes : x[3] = "BTREE"}}

\* Catalog.__init__.  What it has allocated stays on disk when it raises.
Open ==
  /\ mode \in {"closed", "refused"} /\ opens < MaxOpens
  /\ opens' = opens + 1 /\ changes' = 0
  /\ disk' = Allocated(OpenFiles)
  /\ IF Refuses
     THEN mode' = "refused" /\ UNCHANGED <<pool, memory>>
     ELSE /\ mode' = "open"
          /\ pool' = Opened(OpenFiles)
          /\ tables' = [t \in Table |-> IF t \in StoredTables THEN TypeOfTable(t) ELSE None]
          /\ indexes' = StoredIndexes
          /\ spatial' = UNION {{<<e[1], e[2], r[1], r[2]>> : r \in Located(View(TableFile(e[2])))} :
                               e \in {x \in StoredIndexes : x[3] = "RTREE"}}
          /\ rankedMeta' = RankedRows
          /\ factory' = (View("SysPlugins") # {})
          /\ ready' = IF factory' THEN {r[1] : r \in RankedRows} ELSE {}
          /\ registered' = Plugin
          /\ config' = [p \in Plugin |-> StoredConfig(p)]
  /\ UNCHANGED <<artifacts, history>>

-----------------------------------------------------------------------------
\* Closing and crashing.

Snapshot == [tables  |-> tables,
             rows    |-> [t \in Table |-> IF Known(t) THEN View(TableFile(t)) ELSE <<>>],
             indexes |-> indexes,
             entries |-> [i \in Index |-> IF \E e \in indexes : e[1] = i /\ e[3] = "BTREE"
                                          THEN View(IndexFile(i)) ELSE EmptyBag],
             spatial |-> spatial, ranked |-> rankedMeta]

Close ==
  /\ mode = "open"
  /\ mode' = "closing" /\ ready' = {}
  /\ UNCHANGED <<disk, pool, tables, indexes, spatial, rankedMeta, factory, registered, config,
                 artifacts, history, opens, changes>>

\* FileManager.close flushes the files in the order they were opened, the system
\* tables first.  (The order of the others is left open.)
Flushing(f) ==
  /\ mode = "closing" /\ pool[f] # None
  /\ LET before == CASE f = "SysTables" -> {}
                     [] f = "SysColumns" -> {"SysTables"}
                     [] f = "SysIndexes" -> {"SysTables", "SysColumns"}
                     [] f = "SysPlugins" -> {"SysTables", "SysColumns", "SysIndexes"}
                     [] f = "SysPluginIndexes" -> SysFiles \ {f}
                     [] OTHER -> SysFiles
     IN \A g \in before : pool[g] = None

\* Mutant of SaveFile: the files of the indexes are closed without a flush.
SaveFileUnflushed(f) ==
  /\ Flushing(f)
  /\ disk' = IF f \in IndexFiles THEN disk ELSE [disk EXCEPT ![f] = pool[f]]
  /\ pool' = [pool EXCEPT ![f] = None]
  /\ closedAs' = IF \A g \in SysFiles : pool[g] # None THEN Snapshot ELSE closedAs
  /\ UNCHANGED <<mode, memory, artifacts, dropped, early, crashed, spoilt, opens, changes>>

SaveFile(f) ==
  /\ Flushing(f)
  /\ disk' = [disk EXCEPT ![f] = pool[f]]
  /\ pool' = [pool EXCEPT ![f] = None]
  /\ UNCHANGED <<mode, memory, artifacts, dropped, early, crashed, spoilt, opens, changes>>
  /\ closedAs' = IF \A g \in SysFiles : pool[g] # None THEN Snapshot ELSE closedAs

\* The process is over: its memory, but not what is on disk, is gone.
Forget ==
  /\ mode' = "closed" /\ ready' = {} /\ factory' = FALSE
  /\ pool' = [f \in File |-> None]
  /\ tables' = [t \in Table |-> None] /\ indexes' = {} /\ spatial' = {} /\ rankedMeta' = {}
  /\ registered' = {} /\ config' = [p \in Plugin |-> None]

CloseEnds ==
  /\ mode = "closing" /\ \A f \in File : pool[f] = None
  /\ Forget
  /\ dropped' = {} /\ early' = {}
  /\ crashed' = IF crashed = "torn" THEN crashed ELSE "no"
  /\ UNCHANGED <<disk, artifacts, closedAs, spoilt, opens, changes>>

\* A page is written before the close has saved its file: pin needs the frame of
\* a dirty one, or the flush of the close has come to it.  A page of a heap file
\* holds a slot, the slots of pages not written yet read as empty; a page of a
\* system table, a row.  (Before its metadata page is, an index is still zeros.)
Evict(f) ==
  /\ (mode = "open" /\ f \in Large) \/ Flushing(f)
  /\ pool[f] \notin {None, OnDisk(f)}
  /\ \/ /\ f \in HeapFiles
        /\ \E s \in DOMAIN pool[f] :
             LET old == OnDisk(f)
                 length == IF s > Len(old) THEN s ELSE Len(old)
             IN disk' = [disk EXCEPT ![f] = [n \in 1 .. length |->
                           IF n = s THEN pool[f][n] ELSE IF n <= Len(old) THEN old[n] ELSE Gone]]
     \/ /\ f \in IndexFiles
        /\ disk' = [disk EXCEPT ![f] = Mixed]
     \/ /\ f \in SysFiles
        /\ \E row \in pool[f] \cup OnDisk(f) :
             disk' = [disk EXCEPT ![f] = IF row \in pool[f] THEN OnDisk(f) \cup {row}
                                         ELSE OnDisk(f) \ {row}]
  /\ early' = early \cup {f}
  /\ UNCHANGED <<mode, pool, memory, artifacts, closedAs, dropped, crashed, spoilt, opens, changes>>

\* Once the system tables are saved in part, they and the files are of different
\* moments; so are an index and its table when one of the two was.
Crash ==
  /\ mode = "open" \/ mode = "closing"
  /\ Forget
  /\ crashed' = IF \/ crashed = "torn" \/ early \cap SysFiles # {}
                   \/ mode = "closing" /\ (\E f \in SysFiles : pool[f] = None)
                THEN "torn" ELSE "lost"
  /\ spoilt' = spoilt \cup {i \in Index : IndexFile(i) \in dropped \cup early}
                      \cup {e[1] : e \in {x \in closedAs.indexes : TableFile(x[2]) \in early}}
  /\ UNCHANGED <<disk, artifacts, closedAs, dropped, early, opens, changes>>

-----------------------------------------------------------------------------
\* Bound: a database that a crash has torn is opened and read, not altered.
Altering ==
  /\ mode = "open" /\ crashed # "torn"
  /\ changes < MaxChanges /\ changes' = changes + 1 /\ UNCHANGED opens

\* Tables and their rows.

\* Mutant of CreateTable: the row of SysTables is written through.
CreateTableAtOnce(t, type) ==
  /\ Altering /\ ~Known(t)
  /\ tables' = [tables EXCEPT ![t] = type]
  /\ disk' = [Allocated({TableFile(t)}) EXCEPT !["SysTables"] = pool["SysTables"] \cup {t}]
  /\ pool' = [Opened({TableFile(t)}) EXCEPT !["SysTables"] = @ \cup {t},
                                            !["SysColumns"] = @ \cup {<<t, type>>}]
  /\ UNCHANGED <<mode, indexes, spatial, rankedMeta, ready, factory, registered, config,
                 artifacts, history>>

CreateTable(t, type) ==
  /\ Altering /\ ~Known(t)
  /\ tables' = [tables EXCEPT ![t] = type]
  /\ disk' = Allocated({TableFile(t)})
  /\ pool' = [Opened({TableFile(t)}) EXCEPT !["SysTables"] = @ \cup {t},
                                            !["SysColumns"] = @ \cup {<<t, type>>}]
  /\ UNCHANGED <<mode, indexes, spatial, rankedMeta, ready, factory, registered, config,
                 artifacts, history>>

\* _forget_ranked of every ranked index, then the indexes, then the table.
DropTable(t) ==
  /\ Altering /\ Known(t)
  /\ LET ours == {e \in indexes : e[2] = t}
         ranked == {r \in rankedMeta : r[2] = t}
         names == {e[1] : e \in ours} IN
     /\ rankedMeta' = rankedMeta \ ranked
     /\ ready' = ready \ {r[1] : r \in ranked}
     /\ artifacts' = IF factory THEN artifacts \ {<<r[1], config[r[3]]>> : r \in ranked} ELSE artifacts
     /\ indexes' = indexes \ ours
     /\ spatial' = {e \in spatial : e[2] # t}
     /\ tables' = [tables EXCEPT ![t] = None]
     /\ DropFiles({IndexFile(i) : i \in names} \cup {TableFile(t)},
                  [pool EXCEPT !["SysTables"] = @ \ {t},
                               !["SysColumns"] = {c \in @ : c[1] # t},
                               !["SysIndexes"] = {e \in @ : e[1] \notin names},
                               !["SysPluginIndexes"] = {r \in @ : r[1] \notin {x[1] : x \in ranked}}])
     /\ spoilt' = {i \in spoilt : i \notin names \/ pool[IndexFile(i)] = None}
  /\ UNCHANGED <<mode, factory, registered, config, closedAs, crashed>>

BTreesOn(t) == {e[1] : e \in {x \in indexes : x[2] = t /\ x[3] = "BTREE"}}

\* INSERT of one row (_execute_insert).  A statement whose key an index cannot
\* hold fails and is undone: see TxSession.
InsertRow(t, k) ==
  LET f == TableFile(t)  s == Len(pool[f]) + 1 IN
  /\ Altering /\ Known(t) /\ s <= MaxSlots
  /\ k = Null => BTreesOn(t) = {}
  /\ pool' = [g \in File |->
                CASE g = f -> Append(pool[f], k)
                  [] \E i \in BTreesOn(t) : g = IndexFile(i) -> Added(pool[g], {<<k, s>>})
                  [] OTHER -> pool[g]]
  /\ spatial' = spatial \cup {<<e[1], t, k, s>> : e \in {x \in indexes : x[2] = t /\ x[3] = "RTREE" /\ k # Null}}
  /\ UNCHANGED <<mode, disk, tables, indexes, rankedMeta, ready, factory, registered, config,
                 artifacts, history>>

\* DELETE of one row: remove takes every entry of the key and the RID.
DeleteRow(t, s) ==
  LET f == TableFile(t) IN
  /\ Altering /\ Known(t) /\ s \in DOMAIN pool[f] /\ pool[f][s] # Gone
  /\ pool' = [g \in File |->
                CASE g = f -> [pool[f] EXCEPT ![s] = Gone]
                  [] \E i \in BTreesOn(t) : g = IndexFile(i) -> Removed(pool[g], <<pool[f][s], s>>)
                  [] OTHER -> pool[g]]
  /\ spatial' = {e \in spatial : ~(e[2] = t /\ e[4] = s)}
  /\ UNCHANGED <<mode, disk, tables, indexes, rankedMeta, ready, factory, registered, config,
                 artifacts, history>>

-----------------------------------------------------------------------------
\* Indexes.

\* The checks of create_index; _check_indexable_column.
MayIndex(i, t, kind) ==
  /\ Altering /\ i \notin IndexNames /\ Known(t)
  /\ tables[t] # "none"
  /\ kind = "RTREE" => tables[t] = "point"

CreateSpatialIndex(i, t) ==
  /\ MayIndex(i, t, "RTREE")
  /\ spatial' = spatial \cup {<<i, t, r[1], r[2]>> : r \in Located(pool[TableFile(t)])}
  /\ indexes' = indexes \cup {<<i, t, "RTREE">>}
  /\ pool' = [pool EXCEPT !["SysIndexes"] = @ \cup {<<i, t, "RTREE">>}]
  /\ UNCHANGED <<mode, disk, tables, rankedMeta, ready, factory, registered, config, artifacts, history>>

\* The rows go into the file before the index is registered, whatever the file
\* holds; when one has no key, what went in stays there and in the pool.
CreateIndex(i, t) ==
  LET f == IndexFile(i)
      rows == pool[TableFile(t)] IN
  /\ MayIndex(i, t, "BTREE") /\ Readable(f)
  /\ disk' = Allocated({f})
  /\ IF Stops(rows) = {}
     THEN /\ indexes' = indexes \cup {<<i, t, "BTREE">>}
          /\ pool' = [Opened({f}) EXCEPT ![f] = Added(@, RowsOf(rows)),
                                         !["SysIndexes"] = @ \cup {<<i, t, "BTREE">>}]
          /\ UNCHANGED spoilt
     ELSE /\ pool' = [Opened({f}) EXCEPT ![f] = Added(@, Reached(rows))]
          /\ spoilt' = IF Reached(rows) = {} THEN spoilt ELSE spoilt \cup {i}
          /\ UNCHANGED indexes
  /\ UNCHANGED <<mode, tables, spatial, rankedMeta, ready, factory, registered, config, artifacts,
                 closedAs, dropped, early, crashed>>

\* DROP INDEX of an index of the catalog; a name of two tables is of the first.
DropIndex(i) ==
  /\ Altering /\ i \notin {r[1] : r \in rankedMeta}
  /\ \E e \in indexes :
       /\ e[1] = i
       /\ indexes' = indexes \ {e}
       /\ spatial' = {x \in spatial : ~(x[1] = i /\ x[2] = e[2])}
  /\ DropFiles({IndexFile(i)}, [pool EXCEPT !["SysIndexes"] = {e \in @ : e[1] # i}])
  /\ spoilt' = IF pool[IndexFile(i)] = None THEN spoilt ELSE spoilt \ {i}
  /\ UNCHANGED <<mode, tables, rankedMeta, ready, factory, registered, config, artifacts,
                 closedAs, crashed>>

-----------------------------------------------------------------------------
\* Ranked indexes and their plugins.

\* create_ranked_index: the artifact first, then the row, then the plugin's row
\* (_persist_plugin_config).  A vector plugin without configuration has no
\* profile to build with, and an artifact of that name must not be there.
CreateRanked(i, t, p) ==
  /\ Altering /\ i \notin IndexNames /\ Known(t) /\ tables[t] = "text"
  /\ factory /\ p \in registered /\ config[p] # None
  /\ <<i, config[p]>> \notin artifacts
  /\ artifacts' = artifacts \cup {<<i, config[p]>>}
  /\ rankedMeta' = rankedMeta \cup {<<i, t, p>>}
  /\ ready' = ready \cup {i}
  /\ pool' = [pool EXCEPT !["SysPluginIndexes"] = {r \in @ : r[1] # i} \cup {<<i, t, p>>},
                          !["SysPlugins"] = {r \in @ : r[1] # p} \cup {<<p, config[p]>>}]
  /\ UNCHANGED <<mode, disk, tables, indexes, spatial, factory, registered, config, history>>

\* _forget_ranked.  Without a factory the artifact stays.
DropRanked(i) ==
  /\ Altering
  /\ \E r \in rankedMeta :
       /\ r[1] = i
       /\ rankedMeta' = rankedMeta \ {r}
       /\ artifacts' = IF factory THEN artifacts \ {<<i, config[r[3]]>>} ELSE artifacts
  /\ ready' = ready \ {i}
  /\ pool' = [pool EXCEPT !["SysPluginIndexes"] = {r \in @ : r[1] # i}]
  /\ UNCHANGED <<mode, disk, tables, indexes, spatial, factory, registered, config, history>>

\* _resolve_registry_vectorizer: the plugins configured by a statement or a
\* stored row must share one vectorizer, which equal configurations do.
Ambiguous(cfg) == \E p, q \in Plugin : cfg[p] # None /\ cfg[q] # None /\ cfg[p] # cfg[q]

\* CREATE EXTENSION of an installed plugin; when the factory would be ambiguous
\* the registration is put back and nothing changes.
CreateExtension(p, c) ==
  /\ Altering /\ p \in registered
  /\ ~Ambiguous([config EXCEPT ![p] = c])
  /\ config' = [config EXCEPT ![p] = c]
  /\ factory' = TRUE
  /\ pool' = [pool EXCEPT !["SysPlugins"] = {r \in @ : r[1] # p} \cup {<<p, c>>}]
  /\ UNCHANGED <<mode, disk, tables, indexes, spatial, rankedMeta, ready, registered, artifacts, history>>

\* Mutant of DropExtension: the indexes that depend on it are not looked for.
DropExtensionAnyway(p) ==
  /\ Altering
  /\ pool' = [pool EXCEPT !["SysPlugins"] = {r \in @ : r[1] # p}]
  /\ registered' = registered \ {p}
  /\ config' = [config EXCEPT ![p] = None]
  /\ factory' = (registered' # {})
  /\ UNCHANGED <<mode, disk, tables, indexes, spatial, rankedMeta, ready, artifacts, history>>

\* DROP EXTENSION, refused while a stored row depends on it.
DropExtension(p) ==
  /\ Altering
  /\ \A r \in pool["SysPluginIndexes"] : r[3] # p
  /\ pool' = [pool EXCEPT !["SysPlugins"] = {r \in @ : r[1] # p}]
  /\ registered' = registered \ {p}
  /\ config' = [config EXCEPT ![p] = None]
  /\ factory' = (registered' # {})
  /\ UNCHANGED <<mode, disk, tables, indexes, spatial, rankedMeta, ready, artifacts, history>>

-----------------------------------------------------------------------------
\* A new directory.
Init ==
  /\ mode = "closed" /\ ready = {} /\ factory = FALSE
  /\ disk = [f \in File |-> Missing]
  /\ pool = [f \in File |-> None]
  /\ tables = [t \in Table |-> None] /\ indexes = {} /\ spatial = {} /\ rankedMeta = {}
  /\ registered = {} /\ config = [p \in Plugin |-> None] /\ artifacts = {}
  /\ closedAs = [tables |-> tables, rows |-> [t \in Table |-> <<>>], indexes |-> {},
                 entries |-> [i \in Index |-> EmptyBag], spatial |-> {}, ranked |-> {}]
  /\ dropped = {} /\ early = {} /\ crashed = "no" /\ spoilt = {}
  /\ opens = 0 /\ changes = 0

Next ==
  \/ Open \/ Close \/ CloseEnds \/ Crash
  \/ \E f \in File : SaveFile(f) \/ Evict(f)
  \/ \E t \in Table :
       \/ \E type \in Type : CreateTable(t, type)
       \/ DropTable(t)
       \/ \E k \in Key \cup {Null} : InsertRow(t, k)
       \/ \E s \in 1 .. MaxSlots : DeleteRow(t, s)
       \/ \E i \in Index : CreateIndex(i, t) \/ CreateSpatialIndex(i, t)
       \/ \E i \in Index, p \in Plugin : CreateRanked(i, t, p)
  \/ \E i \in Index : DropIndex(i) \/ DropRanked(i)
  \/ \E p \in Plugin : DropExtension(p) \/ \E c \in Config : CreateExtension(p, c)

Spec == Init /\ [][Next]_vars

-----------------------------------------------------------------------------
\* A catalog that was closed opens again, with the same tables, columns, rows,
\* indexes, entries and ranked indexes: the Sys rows and the files say what the
\* memory of _load said before.  It refuses only when CREATE EXTENSION has
\* moved a plugin away from its artifacts.
OpenRestores ==
  [][Open /\ crashed = "no" =>
       IF mode' = "open" THEN Snapshot' = closedAs
       ELSE \E r \in closedAs.ranked : <<r[1], StoredConfig(r[3])>> \notin artifacts]_vars

\* A crash before the close takes the database back to the last one, whatever
\* was created, filled or altered since; but a file dropped since is deleted at
\* once (FileManager.drop) and comes back empty, and one with pages written
\* early holds some of each moment.  The open is refused only for what was
\* deleted or moved: the file of an index, of which an open has made a page of
\* zeros, or the artifact of a ranked index.
CrashRollsBack ==
  [][Open /\ crashed = "lost" =>
       IF mode' = "open"
       THEN /\ tables' = closedAs.tables /\ indexes' = closedAs.indexes /\ rankedMeta' = closedAs.ranked
            /\ \A t \in Table : Known(t)' /\ TableFile(t) \notin early =>
                 pool'[TableFile(t)] = IF TableFile(t) \in dropped THEN <<>> ELSE closedAs.rows[t]
            /\ \A e \in indexes' : e[3] = "BTREE" /\ IndexFile(e[1]) \notin early =>
                 pool'[IndexFile(e[1])] = IF IndexFile(e[1]) \in dropped THEN EmptyBag
                                          ELSE closedAs.entries[e[1]]
       ELSE \/ \E e \in closedAs.indexes : e[3] = "BTREE" /\ IndexFile(e[1]) \in dropped
            \/ \E r \in closedAs.ranked : <<r[1], StoredConfig(r[3])>> \notin artifacts]_vars

\* The system tables and the catalog in memory are changed together, through
\* failures, drops and crashes; a ranked index is never left without a stored
\* configuration of its plugin, which DROP EXTENSION refuses to take.
SysMatchesMemory ==
  mode = "open" /\ crashed # "torn" =>
    /\ pool["SysTables"] = {t \in Table : Known(t)}
    /\ pool["SysColumns"] = {<<t, tables[t]>> : t \in pool["SysTables"]}
    /\ pool["SysIndexes"] = indexes /\ \A e \in indexes : Known(e[2])
    /\ pool["SysPluginIndexes"] = rankedMeta
    /\ \A r \in rankedMeta : /\ Known(r[2]) /\ r[1] \in ready
                             /\ <<r[3], config[r[3]]>> \in pool["SysPlugins"]

\* An index answers like the table it indexes: an R-tree after every restart,
\* a B+ tree or a hash unless it is spoilt or the system tables are torn.
IndexHoldsRows ==
  mode = "open" => \A e \in indexes :
    LET rows == pool[TableFile(e[2])] IN
    IF e[3] = "RTREE"
    THEN {<<x[3], x[4]>> : x \in {y \in spatial : y[1] = e[1] /\ y[2] = e[2]}} = Located(rows)
    ELSE e[1] \in spoilt \/ crashed = "torn" \/ pool[IndexFile(e[1])] = SetToBag(RowsOf(rows))

=============================================================================

---------------------------- MODULE Catalog_proofs ---------------------------
(***************************************************************************)
(* Proofs about the catalog, for any tables, indexes, plugins and values   *)
(* and any number of openings: the system tables say what the catalog has  *)
(* in memory, the indexes hold the rows of their tables, a catalog that    *)
(* was closed opens again as it was, and a crash takes it back to the last *)
(* close.                                                                  *)
(***************************************************************************)
EXTENDS Catalog, SequenceTheorems, TLAPS

Running == mode \in {"open", "closing"}

\* The close has saved something, or the files have been torn apart before.
Saving == mode = "closing" /\ pool["SysTables"] = None
Torn   == crashed = "torn"

Rows == [t \in Table |-> View(TableFile(t))]
Bags == [i \in Index |-> View(IndexFile(i))]

IndexContents == {Mixed} \cup UNION {[D -> Nat] : D \in SUBSET Entry}
Contents(f) == IF f \in SysFiles THEN SysContents(f)
               ELSE IF f \in HeapFiles THEN {q \in HeapContents : Len(q) <= MaxSlots}
               ELSE IndexContents

TypeInv ==
  /\ mode \in {"closed", "open", "closing", "refused"}
  /\ pool = [f \in File |-> pool[f]] /\ \A f \in File : pool[f] = None \/ pool[f] \in Contents(f)
  /\ disk = [f \in File |-> disk[f]] /\ \A f \in File : disk[f] \in {Missing, Zeros} \/ disk[f] \in Contents(f)
  /\ tables \in [Table -> Type \cup {"none", None}]
  /\ indexes \in SUBSET (Index \X Table \X {"BTREE", "RTREE"})
  /\ rankedMeta \in SUBSET (Index \X Table \X Plugin)
  /\ registered \subseteq Plugin /\ config \in [Plugin -> Config \cup {None}]
  /\ dropped \subseteq HeapFiles \cup IndexFiles /\ early \subseteq File /\ spoilt \subseteq Index
  /\ crashed \in {"no", "lost", "torn"}
  /\ closedAs = [tables |-> closedAs.tables, rows |-> closedAs.rows, indexes |-> closedAs.indexes,
                 entries |-> closedAs.entries, spatial |-> closedAs.spatial, ranked |-> closedAs.ranked]
  /\ closedAs.tables \in [Table -> Type \cup {"none", None}]
  /\ closedAs.rows \in [Table -> Seq(Key \cup {Null, Gone})]
  /\ closedAs.indexes \in SUBSET (Index \X Table \X {"BTREE", "RTREE"})
  /\ closedAs.entries \in [Index -> IndexContents]

\* The files a running catalog has open, until its close saves them: the last
\* thing saved of an index is not a page of zeros.
PoolInv ==
  /\ ~ Running => \A f \in File : pool[f] = None
  /\ Running => \A e \in indexes : Known(e[2])
  /\ Running /\ ~ Saving =>
       /\ \A f \in SysFiles : pool[f] # None
       /\ \A t \in Table : Known(t) => pool[TableFile(t)] # None
       /\ \A e \in indexes : e[3] = "BTREE" => pool[IndexFile(e[1])] # None
  /\ Saving => \A e \in indexes : e[3] = "BTREE" /\ pool[IndexFile(e[1])] = None
                                    => disk[IndexFile(e[1])] \notin {Missing, Zeros}

\* The five system tables describe tables, indexes and ranked indexes.
Described(tabs, cols, idx, plug, rank, tb, ix, rk) ==
  /\ tabs = {t \in Table : tb[t] # None}
  /\ cols = {<<t, tb[t]>> : t \in tabs}
  /\ idx = ix /\ rank = rk
  /\ \A e \in ix : /\ tb[e[2]] # None /\ (e[3] = "RTREE" => tb[e[2]] = "point")
                   /\ \A d \in ix : d[1] = e[1] => d = e
  /\ \A r \in rk : /\ tb[r[2]] # None /\ tb[r[2]] = "text" /\ (\E x \in plug : x[1] = r[3])
                   /\ \A q \in rk : q[1] = r[1] => q = r
  /\ \A x, y \in plug : x[1] = y[1] => x = y

\* The entries of a set of R-trees over rows.
Spatial(entries, ix, rows) ==
  /\ entries \subseteq Index \X Table \X Key \X (1 .. MaxSlots)
  /\ \A i \in Index, t \in Table, k \in Key, s \in 1 .. MaxSlots :
       <<i, t, k, s>> \in entries <=> <<i, t, "RTREE">> \in ix /\ s \in DOMAIN rows[t] /\ rows[t][s] = k

\* What the file of a B+ tree holds is the rows of its table; that of any other
\* name, nothing.
Filled(i, bag, ix, rows) ==
  /\ \A e \in ix : e[1] = i /\ e[3] = "BTREE" => bag = SetToBag(RowsOf(rows[e[2]]))
  /\ (\A e \in ix : ~ (e[1] = i /\ e[3] = "BTREE")) => bag = EmptyBag

\* The catalog in memory.
MemoryInv ==
  /\ Running => Spatial(spatial, indexes, Rows)
  /\ Running /\ ~ Torn =>
       /\ Described(View("SysTables"), View("SysColumns"), View("SysIndexes"), View("SysPlugins"),
                    View("SysPluginIndexes"), tables, indexes, rankedMeta)
       /\ mode = "open" => \A r \in rankedMeta : r[1] \in ready
       /\ \A x \in View("SysPlugins") : config[x[1]] = x[2]
       /\ \A i \in Index : i \in spoilt \/ Filled(i, Bags[i], indexes, Rows)
  /\ Saving /\ ~ Torn => closedAs = Snapshot

\* The files, as they were when the catalog was last closed, but for those
\* dropped since and those with pages written early.
DiskInv ==
  ~ Torn /\ ~ Saving /\ early \cap SysFiles = {} =>
    /\ Described(OnDisk("SysTables"), OnDisk("SysColumns"), OnDisk("SysIndexes"), OnDisk("SysPlugins"),
                 OnDisk("SysPluginIndexes"), closedAs.tables, closedAs.indexes, closedAs.ranked)
    /\ Spatial(closedAs.spatial, closedAs.indexes, closedAs.rows)
    /\ \A t \in Table :
         /\ closedAs.tables[t] # None /\ TableFile(t) \notin early =>
              OnDisk(TableFile(t)) = IF TableFile(t) \in dropped THEN <<>> ELSE closedAs.rows[t]
         /\ closedAs.tables[t] = None => closedAs.rows[t] = <<>>
    /\ \A i \in Index :
         /\ IndexFile(i) \in dropped /\ IndexFile(i) \notin early => OnDisk(IndexFile(i)) = EmptyBag
         /\ IndexFile(i) \in dropped \cup early \/ i \in spoilt
              \/ Filled(i, OnDisk(IndexFile(i)), closedAs.indexes, closedAs.rows)
         /\ ~ Running /\ IndexFile(i) \in dropped \cup early => i \in spoilt
         /\ (\A e \in closedAs.indexes : ~ (e[1] = i /\ e[3] = "BTREE")) => closedAs.entries[i] = EmptyBag
    /\ \A e \in closedAs.indexes : e[3] = "BTREE" =>
         /\ IndexFile(e[1]) \in dropped \cup early \/ OnDisk(IndexFile(e[1])) = closedAs.entries[e[1]]
         /\ IndexFile(e[1]) \in dropped \/ disk[IndexFile(e[1])] \notin {Missing, Zeros}
         /\ TableFile(e[2]) \in dropped => IndexFile(e[1]) \in dropped
         /\ ~ Running /\ TableFile(e[2]) \in early => e[1] \in spoilt
         /\ Running => e \in indexes \/ IndexFile(e[1]) \in dropped

\* After a close nothing is missing or of another moment; after a crash that
\* tore nothing, no system table is.
ClosedInv ==
  ~ Running =>
    /\ crashed = "no" => dropped = {} /\ early = {}
    /\ ~ Torn => early \cap SysFiles = {}

CatalogInv == TypeInv /\ PoolInv /\ MemoryInv /\ DiskInv /\ ClosedInv

\* What PoolInv and MemoryInv are of a catalog that is open, not torn.
OpenInv ==
  /\ \A f \in SysFiles : pool[f] # None
  /\ \A t \in Table : Known(t) => pool[TableFile(t)] # None
  /\ \A e \in indexes : e[3] = "BTREE" => pool[IndexFile(e[1])] # None
  /\ Described(pool["SysTables"], pool["SysColumns"], pool["SysIndexes"], pool["SysPlugins"],
               pool["SysPluginIndexes"], tables, indexes, rankedMeta)
  /\ \A r \in rankedMeta : r[1] \in ready
  /\ \A x \in pool["SysPlugins"] : config[x[1]] = x[2]
  /\ \A i \in Index : i \in spoilt \/ Filled(i, Bags[i], indexes, Rows)
  /\ Spatial(spatial, indexes, Rows)

-----------------------------------------------------------------------------
\* Files and their contents.

LEMMA FileNames ==
  /\ \A f \in SysFiles : f \in File
  /\ SysFiles = {"SysTables", "SysColumns", "SysIndexes", "SysPlugins", "SysPluginIndexes"}
  /\ \A t \in Table : TableFile(t) \in File /\ TableFile(t) \in HeapFiles
                      /\ TableFile(t) \notin SysFiles /\ TableFile(t) \notin IndexFiles
  /\ \A i \in Index : IndexFile(i) \in File /\ IndexFile(i) \in IndexFiles
                      /\ IndexFile(i) \notin SysFiles /\ IndexFile(i) \notin HeapFiles
  /\ \A t, u \in Table : TableFile(t) = TableFile(u) => t = u
  /\ \A i, j \in Index : IndexFile(i) = IndexFile(j) => i = j
  /\ \A f \in File : \/ f \in SysFiles \/ \E t \in Table : f = TableFile(t)
                     \/ \E i \in Index : f = IndexFile(i)
BY NamesAssumption DEF SysFiles, HeapFiles, IndexFiles, File

LEMMA SysNames ==
  /\ "SysTables" \in File /\ "SysColumns" \in File /\ "SysIndexes" \in File
  /\ "SysPlugins" \in File /\ "SysPluginIndexes" \in File
BY DEF SysFiles, File

LEMMA ContentsOf ==
  /\ Contents("SysTables") = SUBSET Table /\ Contents("SysColumns") = SUBSET (Table \X Type)
  /\ Contents("SysIndexes") = SUBSET (Index \X Table \X {"BTREE", "RTREE"})
  /\ Contents("SysPlugins") = SUBSET (Plugin \X Config)
  /\ Contents("SysPluginIndexes") = SUBSET (Index \X Table \X Plugin)
  /\ \A t \in Table : Contents(TableFile(t)) = {q \in HeapContents : Len(q) <= MaxSlots}
  /\ \A i \in Index : Contents(IndexFile(i)) = IndexContents
<1>1. /\ SysContents("SysTables") = SUBSET Table
      /\ SysContents("SysColumns") = SUBSET (Table \X Type)
      /\ SysContents("SysIndexes") = SUBSET (Index \X Table \X {"BTREE", "RTREE"})
      /\ SysContents("SysPlugins") = SUBSET (Plugin \X Config)
      /\ SysContents("SysPluginIndexes") = SUBSET (Index \X Table \X Plugin)
  BY DEF SysContents
<1> QED  BY <1>1, FileNames DEF Contents

\* A mark is no contents of a file.
LEMMA Unmarked ==
  \A f \in File : \A c \in Contents(f) : c \notin {None, Missing, Zeros}
<1> SUFFICES ASSUME NEW f \in File, NEW c \in Contents(f)  PROVE c \notin {None, Missing, Zeros}
  OBVIOUS
<1>1. CASE f \in SysFiles
  BY <1>1, MarksAssumption DEF Contents
<1>2. CASE f \in HeapFiles /\ f \notin SysFiles
  BY <1>2, MarksAssumption DEF Contents
<1>3. CASE f \notin HeapFiles /\ f \notin SysFiles
  BY <1>3, MarksAssumption DEF Contents, IndexContents
<1> QED  BY <1>1, <1>2, <1>3

LEMMA SysUnmarked ==
  /\ \A c \in SUBSET Table : c # None
  /\ \A c \in SUBSET (Table \X Type) : c # None
  /\ \A c \in SUBSET (Index \X Table \X {"BTREE", "RTREE"}) : c # None
  /\ \A c \in SUBSET (Plugin \X Config) : c # None
  /\ \A c \in SUBSET (Index \X Table \X Plugin) : c # None
<1>1. \A f \in File : \A c \in Contents(f) : c # None
  BY Unmarked
<1>2. /\ \A c \in Contents("SysTables") : c # None /\ \A d \in Contents("SysColumns") : d # None
      /\ \A c \in Contents("SysIndexes") : c # None
      /\ \A c \in Contents("SysPlugins") : c # None
      /\ \A c \in Contents("SysPluginIndexes") : c # None
  BY <1>1, SysNames
<1>3. {} \in Contents("SysTables")
  BY ContentsOf
<1> QED  BY <1>2, <1>3, ContentsOf

LEMMA EmptyContents ==
  /\ \A f \in File : EmptyFile(f) \in Contents(f)
  /\ \A f \in SysFiles : EmptyFile(f) = {}
  /\ \A t \in Table : EmptyFile(TableFile(t)) = <<>>
  /\ \A i \in Index : EmptyFile(IndexFile(i)) = EmptyBag
<1>1. EmptyBag \in IndexContents
  <2>1. EmptyBag \in [{} -> Nat]
    BY DEF EmptyBag, SetToBag
  <2> QED  BY <2>1 DEF IndexContents
<1>2. <<>> \in HeapContents /\ Len(<<>>) <= MaxSlots
  BY EmptySeq, ConstantsAssumption DEF HeapContents
<1>3. \A f \in SysFiles : {} \in SysContents(f)
  BY DEF SysContents
<1> QED  BY <1>1, <1>2, <1>3, FileNames DEF EmptyFile, Contents

\* What is seen of a file.
LEMMA ViewOf ==
  ASSUME TypeInv, NEW f \in File
  PROVE  /\ View(f) = IF pool[f] # None THEN pool[f] ELSE OnDisk(f)
         /\ View(f) \in Contents(f) /\ OnDisk(f) \in Contents(f)
         /\ View(f) # None
<1>1. View(f) = IF pool[f] # None THEN pool[f] ELSE OnDisk(f)
  BY DEF View, OnDisk
<1>2. OnDisk(f) \in Contents(f)
  BY EmptyContents DEF OnDisk, TypeInv
<1>3. pool[f] # None => pool[f] \in Contents(f)
  BY DEF TypeInv
<1> QED  BY <1>1, <1>2, <1>3, Unmarked

LEMMA RowsType ==
  ASSUME TypeInv, NEW t \in Table
  PROVE  /\ Rows[t] = View(TableFile(t)) /\ Rows[t] \in Seq(Key \cup {Null, Gone})
         /\ Len(Rows[t]) <= MaxSlots /\ DOMAIN Rows[t] \subseteq 1 .. MaxSlots
<1>1. Rows[t] = View(TableFile(t))
  BY DEF Rows
<1>2. PICK q \in HeapContents : q = Rows[t] /\ Len(q) <= MaxSlots
  BY <1>1, ViewOf, FileNames, ContentsOf
<1>3. Len(q) \in Nat /\ DOMAIN q = 1 .. Len(q)
  BY LenProperties DEF HeapContents
<1>4. DOMAIN q \subseteq 1 .. MaxSlots
  <2>1. \A n \in Nat : n <= MaxSlots => 1 .. n \subseteq 1 .. MaxSlots
    BY ConstantsAssumption
  <2> QED  BY <1>2, <1>3, <2>1
<1> QED  BY <1>1, <1>2, <1>4 DEF HeapContents

\* The rows of a table that have a key an R-tree holds.
LEMMA LocatedOf ==
  ASSUME TypeInv, NEW t \in Table
  PROVE  /\ \A k, s : <<k, s>> \in Located(Rows[t]) <=>
              s \in DOMAIN Rows[t] /\ Rows[t][s] = k /\ k # Gone /\ k # Null
         /\ \A r \in Located(Rows[t]) : r = <<r[1], r[2]>> /\ r[1] \in Key /\ r[2] \in 1 .. MaxSlots
         /\ \A k \in Key : k # Gone /\ k # Null
<1>1. Rows[t] \in Seq(Key \cup {Null, Gone}) /\ DOMAIN Rows[t] \subseteq 1 .. MaxSlots
  BY RowsType
<1>2. \A s \in DOMAIN Rows[t] : Rows[t][s] \in Key \cup {Null, Gone}
  BY <1>1, ElementOfSeq, LenProperties
<1>3. \A k, s : <<k, s>> \in Located(Rows[t]) <=> s \in DOMAIN Rows[t] /\ Rows[t][s] = k /\ k # Gone /\ k # Null
  BY DEF Located, RowsOf
<1>4. \A r \in Located(Rows[t]) : r = <<r[1], r[2]>> /\ r[1] \in Key /\ r[2] \in 1 .. MaxSlots
  BY <1>1, <1>2 DEF Located, RowsOf
<1>5. \A k \in Key : k # Gone /\ k # Null
  BY MarksAssumption, ConstantsAssumption
<1> QED  BY <1>3, <1>4, <1>5

-----------------------------------------------------------------------------
\* Bags of entries, as the files of indexes hold them.

LEMMA RowsOfType ==
  ASSUME NEW q \in Seq(Key \cup {Null, Gone}), Len(q) <= MaxSlots
  PROVE  /\ RowsOf(q) \subseteq Entry
         /\ SetToBag(RowsOf(q)) \in IndexContents
         /\ \A k, s : <<k, s>> \in RowsOf(q) <=> s \in DOMAIN q /\ q[s] = k /\ k # Gone
<1>1. DOMAIN q = 1 .. Len(q) /\ Len(q) \in Nat /\ \A s \in DOMAIN q : q[s] \in Key \cup {Null, Gone}
  BY LenProperties, ElementOfSeq
<1>2. RowsOf(q) \subseteq Entry
  BY <1>1, ConstantsAssumption DEF RowsOf, Entry
<1>3. SetToBag(RowsOf(q)) \in [RowsOf(q) -> Nat]
  BY DEF SetToBag
<1>4. \A k, s : <<k, s>> \in RowsOf(q) <=> s \in DOMAIN q /\ q[s] = k /\ k # Gone
  BY DEF RowsOf
<1> QED  BY <1>2, <1>3, <1>4 DEF IndexContents

LEMMA SetBag ==
  ASSUME NEW S \in SUBSET Entry
  PROVE  SetToBag(S) \in IndexContents /\ SetToBag(S) # Mixed
<1>1. SetToBag(S) \in [S -> Nat]
  BY DEF SetToBag
<1> QED  BY <1>1, MarksAssumption DEF IndexContents

LEMMA AddedType ==
  ASSUME NEW a \in IndexContents, NEW R \in SUBSET Entry
  PROVE  Added(a, R) \in IndexContents
<1>1. CASE a = Mixed
  BY <1>1 DEF Added, IndexContents
<1>2. CASE a # Mixed
  <2>1. PICK D \in SUBSET Entry : a \in [D -> Nat]
    BY <1>2 DEF IndexContents
  <2>2. SetToBag(R) \in [R -> Nat]
    BY DEF SetToBag
  <2>3. a (+) SetToBag(R) \in [D \cup R -> Nat]
    BY <2>1, <2>2 DEF (+)
  <2> QED  BY <1>2, <2>1, <2>3 DEF Added, IndexContents
<1> QED  BY <1>1, <1>2

LEMMA RemovedType ==
  ASSUME NEW a \in IndexContents, NEW x
  PROVE  Removed(a, x) \in IndexContents
<1>1. CASE a = Mixed
  BY <1>1 DEF Removed, IndexContents
<1>2. CASE a # Mixed
  <2>1. PICK D \in SUBSET Entry : a \in [D -> Nat]
    BY <1>2 DEF IndexContents
  <2>2. [e \in DOMAIN a \ {x} |-> a[e]] \in [D \ {x} -> Nat]
    BY <2>1
  <2> QED  BY <1>2, <2>1, <2>2 DEF Removed, IndexContents
<1> QED  BY <1>1, <1>2

LEMMA BagAdded ==
  ASSUME NEW S, NEW R, S \cap R = {}
  PROVE  SetToBag(S) (+) SetToBag(R) = SetToBag(S \cup R)
<1> DEFINE a == SetToBag(S)
           b == SetToBag(R)
<1>1. DOMAIN a = S /\ DOMAIN b = R /\ (\A e \in S : a[e] = 1) /\ (\A e \in R : b[e] = 1)
  BY DEF SetToBag
<1>2. a (+) b = [e \in S \cup R |-> (IF e \in S THEN a[e] ELSE 0) + (IF e \in R THEN b[e] ELSE 0)]
  BY <1>1 DEF (+)
<1>3. \A e \in S \cup R : (IF e \in S THEN a[e] ELSE 0) + (IF e \in R THEN b[e] ELSE 0) = 1
  BY <1>1
<1> HIDE DEF a, b
<1> QED  BY <1>2, <1>3 DEF SetToBag, a, b

LEMMA AddedTo ==
  ASSUME NEW S \in SUBSET Entry, NEW R, S \cap R = {}
  PROVE  Added(SetToBag(S), R) = SetToBag(S \cup R)
<1>1. SetToBag(S) # Mixed
  BY SetBag
<1>2. SetToBag(S) (+) SetToBag(R) = SetToBag(S \cup R)
  BY BagAdded
<1> QED  BY <1>1, <1>2 DEF Added

LEMMA RemovedFrom ==
  ASSUME NEW S \in SUBSET Entry, NEW e
  PROVE  Removed(SetToBag(S), e) = SetToBag(S \ {e})
<1>1. SetToBag(S) # Mixed
  BY SetBag
<1>2. [x \in DOMAIN SetToBag(S) \ {e} |-> SetToBag(S)[x]] = SetToBag(S \ {e})
  BY DEF SetToBag
<1> QED  BY <1>1, <1>2 DEF Removed

\* What indexes hold depends on the tables they are of.
LEMMA OfTheirTables ==
  ASSUME NEW ix, NEW q, NEW r, ix \in SUBSET (Index \X Table \X {"BTREE", "RTREE"}),
         \A e \in ix : q[e[2]] = r[e[2]]
  PROVE  /\ \A entries : Spatial(entries, ix, q) => Spatial(entries, ix, r)
         /\ \A i, bag : Filled(i, bag, ix, q) => Filled(i, bag, ix, r)
<1>1. ASSUME NEW entries, Spatial(entries, ix, q)
      PROVE  Spatial(entries, ix, r)
  <2>1. \A i \in Index, t \in Table : <<i, t, "RTREE">> \in ix => q[t] = r[t]
    <3> SUFFICES ASSUME NEW i \in Index, NEW t \in Table, <<i, t, "RTREE">> \in ix  PROVE q[t] = r[t]
      OBVIOUS
    <3>1. <<i, t, "RTREE">>[2] = t
      OBVIOUS
    <3> QED  BY <3>1
  <2> QED  BY <1>1, <2>1 DEF Spatial
<1>2. ASSUME NEW i, NEW bag, Filled(i, bag, ix, q)
      PROVE  Filled(i, bag, ix, r)
  BY <1>2 DEF Filled
<1> QED  BY <1>1, <1>2

-----------------------------------------------------------------------------
\* The invariant of an open catalog.

LEMMA OpenState ==
  ASSUME CatalogInv, mode = "open", ~ Torn
  PROVE  OpenInv
<1>1. Running /\ ~ Saving
  BY DEF Running, Saving
<1>2. \A f \in SysFiles : pool[f] # None /\ View(f) = pool[f]
  BY <1>1 DEF CatalogInv, PoolInv, View
<1>3. \A f \in {"SysTables", "SysColumns", "SysIndexes", "SysPlugins", "SysPluginIndexes"} :
        View(f) = pool[f]
  BY <1>2, FileNames
<1> QED  BY <1>1, <1>2, <1>3 DEF CatalogInv, PoolInv, MemoryInv, OpenInv

LEMMA OpenNext ==
  ASSUME mode' = "open", TypeInv', OpenInv', DiskInv'
  PROVE  CatalogInv'
<1>1. Running' /\ ~ Saving'
  BY DEF Running, Saving
<1>2. \A f \in SysFiles : pool'[f] # None /\ View(f)' = pool'[f]
  BY DEF OpenInv, View
<1>3. /\ View("SysTables")' = pool'["SysTables"] /\ View("SysColumns")' = pool'["SysColumns"]
      /\ View("SysIndexes")' = pool'["SysIndexes"] /\ View("SysPlugins")' = pool'["SysPlugins"]
      /\ View("SysPluginIndexes")' = pool'["SysPluginIndexes"]
  BY <1>2, FileNames
<1>4. \A e \in indexes' : Known(e[2])'
  BY DEF OpenInv, Described, Known
<1>5. PoolInv'
  BY <1>1, <1>4 DEF PoolInv, OpenInv
<1>6. MemoryInv'
  BY <1>1, <1>3 DEF MemoryInv, OpenInv
<1> QED  BY <1>1, <1>5, <1>6 DEF CatalogInv, ClosedInv

\* A statement keeps what it does not drop.
LEMMA DiskKept ==
  ASSUME CatalogInv, TypeInv', Altering, mode' = mode, UNCHANGED <<closedAs, crashed>>,
         \A f \in File :
            \/ f \in dropped' /\ f \notin early' /\ OnDisk(f)' = EmptyFile(f)
            \/ /\ OnDisk(f)' = OnDisk(f)
               /\ (f \in dropped' <=> f \in dropped) /\ (f \in early' <=> f \in early)
               /\ disk'[f] \in {Missing, Zeros} => disk[f] \in {Missing, Zeros},
         \A i \in spoilt : i \in spoilt' \/ IndexFile(i) \in dropped',
         \A e \in indexes : e[3] = "BTREE" => e \in indexes' \/ IndexFile(e[1]) \in dropped',
         \A t \in Table : TableFile(t) \in dropped' =>
            \/ TableFile(t) \in dropped
            \/ \A e \in indexes : e[2] = t /\ e[3] = "BTREE" => IndexFile(e[1]) \in dropped'
  PROVE  DiskInv'
<1>1. /\ mode = "open" /\ ~ Torn /\ ~ Saving /\ Running
      /\ ~ Torn' /\ ~ Saving' /\ Running'
  BY DEF Altering, Torn, Saving, Running
<1>2. dropped' \subseteq HeapFiles \cup IndexFiles
  BY DEF TypeInv
<1>3. \A f \in SysFiles : OnDisk(f)' = OnDisk(f) /\ (f \in early' <=> f \in early)
  <2>1. \A f \in SysFiles : f \in File /\ f \notin dropped'
    BY <1>2, FileNames, NamesAssumption
  <2> QED  BY <2>1
<1> SUFFICES ASSUME early \cap SysFiles = {}  PROVE DiskInv'
  BY <1>3 DEF DiskInv
<1>4. /\ OnDisk("SysTables")' = OnDisk("SysTables") /\ OnDisk("SysColumns")' = OnDisk("SysColumns")
      /\ OnDisk("SysIndexes")' = OnDisk("SysIndexes") /\ OnDisk("SysPlugins")' = OnDisk("SysPlugins")
      /\ OnDisk("SysPluginIndexes")' = OnDisk("SysPluginIndexes")
  BY <1>3, FileNames
<1>5. /\ Described(OnDisk("SysTables"), OnDisk("SysColumns"), OnDisk("SysIndexes"), OnDisk("SysPlugins"),
                   OnDisk("SysPluginIndexes"), closedAs.tables, closedAs.indexes, closedAs.ranked)
      /\ Spatial(closedAs.spatial, closedAs.indexes, closedAs.rows)
      /\ \A t \in Table :
           /\ closedAs.tables[t] # None /\ TableFile(t) \notin early =>
                OnDisk(TableFile(t)) = IF TableFile(t) \in dropped THEN <<>> ELSE closedAs.rows[t]
           /\ closedAs.tables[t] = None => closedAs.rows[t] = <<>>
      /\ \A i \in Index :
           /\ IndexFile(i) \in dropped /\ IndexFile(i) \notin early => OnDisk(IndexFile(i)) = EmptyBag
           /\ IndexFile(i) \in dropped \cup early \/ i \in spoilt
                \/ Filled(i, OnDisk(IndexFile(i)), closedAs.indexes, closedAs.rows)
           /\ (\A e \in closedAs.indexes : ~ (e[1] = i /\ e[3] = "BTREE")) => closedAs.entries[i] = EmptyBag
      /\ \A e \in closedAs.indexes : e[3] = "BTREE" =>
           /\ IndexFile(e[1]) \in dropped \cup early \/ OnDisk(IndexFile(e[1])) = closedAs.entries[e[1]]
           /\ IndexFile(e[1]) \in dropped \/ disk[IndexFile(e[1])] \notin {Missing, Zeros}
           /\ TableFile(e[2]) \in dropped => IndexFile(e[1]) \in dropped
           /\ e \in indexes \/ IndexFile(e[1]) \in dropped
  BY <1>1 DEF CatalogInv, DiskInv
<1>6. Described(OnDisk("SysTables"), OnDisk("SysColumns"), OnDisk("SysIndexes"), OnDisk("SysPlugins"),
                OnDisk("SysPluginIndexes"), closedAs.tables, closedAs.indexes, closedAs.ranked)'
  BY <1>4, <1>5 DEF Described
<1>7. Spatial(closedAs.spatial, closedAs.indexes, closedAs.rows)'
  BY <1>5 DEF Spatial
<1>8. \A t \in Table :
         /\ closedAs'.tables[t] # None /\ TableFile(t) \notin early' =>
              OnDisk(TableFile(t))' = IF TableFile(t) \in dropped' THEN <<>> ELSE closedAs'.rows[t]
         /\ closedAs'.tables[t] = None => closedAs'.rows[t] = <<>>
  <2>1. \A t \in Table :
           \/ /\ TableFile(t) \in dropped' /\ TableFile(t) \notin early'
              /\ OnDisk(TableFile(t))' = <<>>
           \/ /\ OnDisk(TableFile(t))' = OnDisk(TableFile(t))
              /\ TableFile(t) \in dropped' <=> TableFile(t) \in dropped
              /\ TableFile(t) \in early' <=> TableFile(t) \in early
    BY FileNames, EmptyContents
  <2> QED  BY <1>5, <2>1
<1>9. \A i \in Index :
           \/ /\ IndexFile(i) \in dropped' /\ IndexFile(i) \notin early'
              /\ OnDisk(IndexFile(i))' = EmptyBag
           \/ /\ OnDisk(IndexFile(i))' = OnDisk(IndexFile(i))
              /\ (IndexFile(i) \in dropped' <=> IndexFile(i) \in dropped)
              /\ (IndexFile(i) \in early' <=> IndexFile(i) \in early)
              /\ disk'[IndexFile(i)] \in {Missing, Zeros} => disk[IndexFile(i)] \in {Missing, Zeros}
  BY FileNames, EmptyContents
<1>10. ASSUME NEW i \in Index
       PROVE  /\ IndexFile(i) \in dropped' /\ IndexFile(i) \notin early' => OnDisk(IndexFile(i))' = EmptyBag
              /\ IndexFile(i) \in dropped' \cup early' \/ i \in spoilt'
                   \/ Filled(i, OnDisk(IndexFile(i)), closedAs.indexes, closedAs.rows)'
              /\ (\A e \in closedAs'.indexes : ~ (e[1] = i /\ e[3] = "BTREE")) => closedAs'.entries[i] = EmptyBag
  <2>1. IndexFile(i) \in dropped' /\ IndexFile(i) \notin early' => OnDisk(IndexFile(i))' = EmptyBag
    BY <1>5, <1>9
  <2>2. ASSUME IndexFile(i) \notin dropped' \cup early', i \notin spoilt'
        PROVE  Filled(i, OnDisk(IndexFile(i)), closedAs.indexes, closedAs.rows)'
    <3>1. IndexFile(i) \notin dropped \cup early /\ i \notin spoilt /\ OnDisk(IndexFile(i))' = OnDisk(IndexFile(i))
      BY <1>9, <2>2
    <3>2. Filled(i, OnDisk(IndexFile(i)), closedAs.indexes, closedAs.rows)
      BY <1>5, <3>1
    <3> QED  BY <3>1, <3>2 DEF Filled
  <2> QED  BY <1>5, <2>1, <2>2
<1>11. ASSUME NEW e \in closedAs.indexes, e[3] = "BTREE"
       PROVE  /\ IndexFile(e[1]) \in dropped' \cup early' \/ OnDisk(IndexFile(e[1]))' = closedAs'.entries[e[1]]
              /\ IndexFile(e[1]) \in dropped' \/ disk'[IndexFile(e[1])] \notin {Missing, Zeros}
              /\ TableFile(e[2]) \in dropped' => IndexFile(e[1]) \in dropped'
              /\ e \in indexes' \/ IndexFile(e[1]) \in dropped'
  <2>1. e[1] \in Index /\ e[2] \in Table
    BY DEF CatalogInv, TypeInv
  <2>2. /\ IndexFile(e[1]) \in dropped \cup early \/ OnDisk(IndexFile(e[1])) = closedAs.entries[e[1]]
        /\ IndexFile(e[1]) \in dropped \/ disk[IndexFile(e[1])] \notin {Missing, Zeros}
        /\ TableFile(e[2]) \in dropped => IndexFile(e[1]) \in dropped
        /\ e \in indexes \/ IndexFile(e[1]) \in dropped
    BY <1>5, <1>11
  <2>3. IndexFile(e[1]) \in dropped => IndexFile(e[1]) \in dropped'
    BY <1>9, <2>1
  <2> QED  BY <1>9, <1>11, <2>1, <2>2, <2>3
<1> HIDE DEF Torn, Saving, Running
<1> QED  BY <1>1, <1>6, <1>7, <1>8, <1>10, <1>11 DEF DiskInv

-----------------------------------------------------------------------------
\* A new directory, closing and crashing.

LEMMA InitSound == Init => CatalogInv
<1> SUFFICES ASSUME Init PROVE CatalogInv
  OBVIOUS
<1> USE DEF Init
<1>1. ~ Running /\ ~ Saving
  BY DEF Running, Saving
<1>2. \A f \in File : pool[f] = None /\ OnDisk(f) = EmptyFile(f)
  BY DEF OnDisk
<1>3. /\ OnDisk("SysTables") = {} /\ OnDisk("SysColumns") = {} /\ OnDisk("SysIndexes") = {}
      /\ OnDisk("SysPlugins") = {} /\ OnDisk("SysPluginIndexes") = {}
      /\ \A t \in Table : OnDisk(TableFile(t)) = <<>>
      /\ \A i \in Index : OnDisk(IndexFile(i)) = EmptyBag
  BY <1>2, FileNames, EmptyContents
<1>4. EmptyBag \in IndexContents
  <2>1. EmptyBag \in [{} -> Nat]
    BY DEF EmptyBag, SetToBag
  <2> QED  BY <2>1 DEF IndexContents
<1>5. TypeInv
  <2>1. <<>> \in Seq(Key \cup {Null, Gone})
    BY EmptySeq
  <2>2. closedAs.rows \in [Table -> Seq(Key \cup {Null, Gone})]
    BY <2>1
  <2>3. closedAs.entries \in [Index -> IndexContents]
    BY <1>4
  <2>4. closedAs.tables \in [Table -> Type \cup {"none", None}]
    OBVIOUS
  <2> QED  BY <2>2, <2>3, <2>4 DEF TypeInv
<1>6. PoolInv /\ MemoryInv /\ ClosedInv
  BY <1>1, <1>2 DEF PoolInv, MemoryInv, ClosedInv
<1>7. DiskInv
  <2>1. Described({}, {}, {}, {}, {}, closedAs.tables, closedAs.indexes, closedAs.ranked)
    BY DEF Described
  <2>2. \A t \in Table : closedAs.rows[t] = <<>> /\ DOMAIN closedAs.rows[t] = {}
    BY EmptySeq
  <2>3. Spatial(closedAs.spatial, closedAs.indexes, closedAs.rows)
    BY <2>2 DEF Spatial
  <2>4. \A i \in Index : Filled(i, EmptyBag, closedAs.indexes, closedAs.rows)
    BY DEF Filled
  <2> QED  BY <1>1, <1>3, <2>1, <2>2, <2>3, <2>4 DEF DiskInv
<1> QED  BY <1>5, <1>6, <1>7 DEF CatalogInv

LEMMA CloseSound == ASSUME CatalogInv, Close  PROVE CatalogInv'
<1> USE DEF Close
<1>1. /\ Running /\ Running' /\ ~ Saving
      /\ \A f \in SysFiles : pool[f] # None
  BY DEF Running, Saving, CatalogInv, PoolInv
<1>2. ~ Saving' /\ (Torn' <=> Torn)
  BY <1>1, FileNames DEF Saving, Torn, history
<1>3. \A f : View(f)' = View(f) /\ OnDisk(f)' = OnDisk(f)
  BY DEF View, OnDisk, history
<1>4. Rows' = Rows /\ Bags' = Bags
  BY <1>3 DEF Rows, Bags
<1>5. TypeInv'
  BY DEF CatalogInv, TypeInv, history
<1>6. PoolInv'
  BY <1>1, <1>2 DEF CatalogInv, PoolInv, Known
<1>7. MemoryInv'
  <2>1. Spatial(spatial, indexes, Rows)'
    BY <1>1, <1>4 DEF CatalogInv, MemoryInv, Spatial
  <2>2. ASSUME ~ Torn
        PROVE  /\ Described(View("SysTables"), View("SysColumns"), View("SysIndexes"), View("SysPlugins"),
                            View("SysPluginIndexes"), tables, indexes, rankedMeta)'
               /\ \A x \in View("SysPlugins")' : config'[x[1]] = x[2]
               /\ \A i \in Index : i \in spoilt' \/ Filled(i, Bags[i], indexes, Rows)'
    BY <1>1, <1>3, <1>4, <2>2 DEF CatalogInv, MemoryInv, Described, Filled, Known, history
  <2> QED  BY <1>2, <2>1, <2>2 DEF MemoryInv
<1>8. DiskInv'
  BY <1>1, <1>2, <1>3 DEF CatalogInv, DiskInv, Described, Spatial, Filled, history
<1>9. ClosedInv'
  BY <1>1 DEF ClosedInv
<1> QED  BY <1>5, <1>6, <1>7, <1>8, <1>9 DEF CatalogInv

\* A file that is saved is seen as before.
LEMMA SaveFileSound ==
  ASSUME CatalogInv, NEW f \in File, SaveFile(f)
  PROVE  CatalogInv'
<1>1. /\ mode = "closing" /\ mode' = "closing" /\ pool[f] # None
      /\ f # "SysTables" => pool["SysTables"] = None
      /\ disk' = [disk EXCEPT ![f] = pool[f]] /\ pool' = [pool EXCEPT ![f] = None]
      /\ UNCHANGED <<mode, memory, artifacts, dropped, early, crashed, spoilt, opens, changes>>
      /\ closedAs' = IF \A g \in SysFiles : pool[g] # None THEN Snapshot ELSE closedAs
  BY DEF SaveFile, Flushing, SysFiles
<1>2. Running /\ Running' /\ Saving' /\ (Torn' <=> Torn)
  BY <1>1, SysNames DEF Running, Saving, Torn, CatalogInv, TypeInv
<1>3. pool[f] \in Contents(f) /\ pool[f] \notin {None, Missing, Zeros}
  BY <1>1, Unmarked DEF CatalogInv, TypeInv
<1>4. \A g \in File : View(g)' = View(g)
  <2> TAKE g \in File
  <2>1. CASE g = f
    BY <1>1, <1>3, <2>1 DEF CatalogInv, TypeInv, View, OnDisk
  <2>2. CASE g # f
    BY <1>1, <2>2 DEF CatalogInv, TypeInv, View, OnDisk
  <2> QED  BY <2>1, <2>2
<1>5. /\ Rows' = Rows /\ Bags' = Bags
      /\ View("SysTables")' = View("SysTables") /\ View("SysColumns")' = View("SysColumns")
      /\ View("SysIndexes")' = View("SysIndexes") /\ View("SysPlugins")' = View("SysPlugins")
      /\ View("SysPluginIndexes")' = View("SysPluginIndexes")
  BY <1>4, FileNames, SysNames DEF Rows, Bags
<1>6. Snapshot' = Snapshot
  BY <1>1, <1>4, FileNames DEF Snapshot, Known, memory
<1>7. /\ tables \in [Table -> Type \cup {"none", None}]
      /\ [t \in Table |-> IF Known(t) THEN View(TableFile(t)) ELSE <<>>] \in [Table -> Seq(Key \cup {Null, Gone})]
      /\ indexes \in SUBSET (Index \X Table \X {"BTREE", "RTREE"})
      /\ [i \in Index |-> IF \E e \in indexes : e[1] = i /\ e[3] = "BTREE"
                          THEN View(IndexFile(i)) ELSE EmptyBag] \in [Index -> IndexContents]
  <2>1. \A t \in Table : View(TableFile(t)) \in Seq(Key \cup {Null, Gone})
    BY RowsType DEF CatalogInv
  <2>2. \A i \in Index : View(IndexFile(i)) \in IndexContents /\ EmptyBag \in IndexContents
    BY ViewOf, FileNames, ContentsOf, EmptyContents DEF CatalogInv
  <2>3. <<>> \in Seq(Key \cup {Null, Gone})
    BY EmptySeq
  <2> QED  BY <2>1, <2>2, <2>3 DEF CatalogInv, TypeInv
<1>8. TypeInv'
  <2>1. /\ pool' = [g \in File |-> pool'[g]]
        /\ \A g \in File : pool'[g] = None \/ pool'[g] \in Contents(g)
        /\ disk' = [g \in File |-> disk'[g]]
        /\ \A g \in File : disk'[g] \in {Missing, Zeros} \/ disk'[g] \in Contents(g)
    BY <1>1, <1>3 DEF CatalogInv, TypeInv
  <2>2. /\ closedAs' = [tables |-> closedAs'.tables, rows |-> closedAs'.rows, indexes |-> closedAs'.indexes,
                        entries |-> closedAs'.entries, spatial |-> closedAs'.spatial, ranked |-> closedAs'.ranked]
        /\ closedAs'.tables \in [Table -> Type \cup {"none", None}]
        /\ closedAs'.rows \in [Table -> Seq(Key \cup {Null, Gone})]
        /\ closedAs'.indexes \in SUBSET (Index \X Table \X {"BTREE", "RTREE"})
        /\ closedAs'.entries \in [Index -> IndexContents]
    <3>1. CASE closedAs' = Snapshot
      BY <1>7, <3>1 DEF Snapshot
    <3>2. CASE closedAs' = closedAs
      BY <3>2 DEF CatalogInv, TypeInv
    <3> QED  BY <1>1, <3>1, <3>2
  <2> QED  BY <1>1, <2>1, <2>2 DEF CatalogInv, TypeInv, memory
<1>9. PoolInv'
  <2>1. ASSUME NEW e \in indexes, e[3] = "BTREE", pool'[IndexFile(e[1])] = None
        PROVE  disk'[IndexFile(e[1])] \notin {Missing, Zeros}
    <3>1. IndexFile(e[1]) \in File
      BY FileNames DEF CatalogInv, TypeInv
    <3>2. CASE IndexFile(e[1]) = f
      BY <1>1, <1>3, <3>1, <3>2 DEF CatalogInv, TypeInv
    <3>3. CASE IndexFile(e[1]) # f
      <4>1. pool[IndexFile(e[1])] = None /\ disk'[IndexFile(e[1])] = disk[IndexFile(e[1])]
        BY <1>1, <2>1, <3>1, <3>3 DEF CatalogInv, TypeInv
      <4>2. Saving
        BY <1>2, <2>1, <4>1 DEF CatalogInv, PoolInv
      <4> QED  BY <2>1, <4>1, <4>2 DEF CatalogInv, PoolInv
    <3> QED  BY <3>2, <3>3
  <2>2. \A e \in indexes' : Known(e[2])'
    BY <1>1, <1>2 DEF CatalogInv, PoolInv, Known, memory
  <2> QED  BY <1>1, <1>2, <2>1, <2>2 DEF PoolInv, memory
<1>10. MemoryInv'
  <2>1. Spatial(spatial, indexes, Rows)'
    BY <1>1, <1>2, <1>5 DEF CatalogInv, MemoryInv, Spatial, memory
  <2>2. ASSUME ~ Torn
        PROVE  /\ Described(View("SysTables"), View("SysColumns"), View("SysIndexes"), View("SysPlugins"),
                            View("SysPluginIndexes"), tables, indexes, rankedMeta)'
               /\ \A x \in View("SysPlugins")' : config'[x[1]] = x[2]
               /\ \A i \in Index : i \in spoilt' \/ Filled(i, Bags[i], indexes, Rows)'
    <3>1. UNCHANGED <<tables, indexes, rankedMeta, config, spoilt>>
      BY <1>1 DEF memory
    <3>2. /\ Described(View("SysTables"), View("SysColumns"), View("SysIndexes"), View("SysPlugins"),
                       View("SysPluginIndexes"), tables, indexes, rankedMeta)
          /\ \A x \in View("SysPlugins") : config[x[1]] = x[2]
          /\ \A i \in Index : i \in spoilt \/ Filled(i, Bags[i], indexes, Rows)
      BY <1>2, <2>2 DEF CatalogInv, MemoryInv
    <3> QED  BY <1>5, <3>1, <3>2 DEF Described, Filled, Known
  <2>3. ~ Torn => closedAs' = Snapshot'
    <3>1. CASE \A g \in SysFiles : pool[g] # None
      BY <1>1, <1>6, <3>1
    <3>2. CASE ~ \A g \in SysFiles : pool[g] # None
      <4>1. Saving
        BY <1>2, <3>2 DEF CatalogInv, PoolInv
      <4> QED  BY <1>1, <1>6, <3>2, <4>1 DEF CatalogInv, MemoryInv
    <3> QED  BY <3>1, <3>2
  <2> QED  BY <1>1, <1>2, <2>1, <2>2, <2>3 DEF MemoryInv
<1>11. DiskInv' /\ ClosedInv'
  BY <1>2 DEF DiskInv, ClosedInv
<1> QED  BY <1>8, <1>9, <1>10, <1>11 DEF CatalogInv

LEMMA CloseEndsSound == ASSUME CatalogInv, CloseEnds  PROVE CatalogInv'
<1> USE DEF CloseEnds, Forget
<1>1. /\ Running /\ Saving /\ ~ Running' /\ ~ Saving' /\ (Torn' <=> Torn)
      /\ \A f \in File : pool[f] = None /\ pool'[f] = None
      /\ dropped' = {} /\ early' = {} /\ UNCHANGED <<disk, closedAs, spoilt>>
  BY SysNames DEF Running, Saving, Torn
<1>2. \A f \in File : View(f) = OnDisk(f) /\ OnDisk(f)' = OnDisk(f)
  BY <1>1 DEF View, OnDisk
<1>3. /\ \A t \in Table : Rows[t] = OnDisk(TableFile(t))'
      /\ \A i \in Index : Bags[i] = OnDisk(IndexFile(i))'
      /\ View("SysTables") = OnDisk("SysTables")' /\ View("SysColumns") = OnDisk("SysColumns")'
      /\ View("SysIndexes") = OnDisk("SysIndexes")' /\ View("SysPlugins") = OnDisk("SysPlugins")'
      /\ View("SysPluginIndexes") = OnDisk("SysPluginIndexes")'
  BY <1>2, FileNames, SysNames DEF Rows, Bags
<1>4. TypeInv'
  <2>1. tables' \in [Table -> Type \cup {"none", None}] /\ config' \in [Plugin -> Config \cup {None}]
    OBVIOUS
  <2>2. /\ pool' = [g \in File |-> pool'[g]] /\ \A g \in File : pool'[g] = None
        /\ indexes' = {} /\ rankedMeta' = {} /\ registered' = {} /\ dropped' = {} /\ early' = {}
        /\ mode' = "closed" /\ crashed' \in {"no", "lost", "torn"}
    BY DEF CatalogInv, TypeInv
  <2> HIDE DEF CloseEnds, Forget
  <2> QED  BY <1>1, <2>1, <2>2 DEF CatalogInv, TypeInv
<1>5. PoolInv' /\ MemoryInv'
  BY <1>1 DEF PoolInv, MemoryInv
<1>6. DiskInv'
  <2> SUFFICES ASSUME ~ Torn  PROVE DiskInv'
    BY <1>1 DEF DiskInv
  <2>1. closedAs = Snapshot
    BY <1>1 DEF CatalogInv, MemoryInv
  <2>2. /\ Described(View("SysTables"), View("SysColumns"), View("SysIndexes"), View("SysPlugins"),
                     View("SysPluginIndexes"), tables, indexes, rankedMeta)
        /\ \A i \in Index : i \in spoilt \/ Filled(i, Bags[i], indexes, Rows)
        /\ Spatial(spatial, indexes, Rows)
    BY <1>1 DEF CatalogInv, MemoryInv
  <2>3. /\ closedAs'.tables = tables /\ closedAs'.indexes = indexes /\ closedAs'.ranked = rankedMeta
        /\ closedAs'.spatial = spatial
        /\ closedAs'.entries = [i \in Index |-> IF \E e \in indexes : e[1] = i /\ e[3] = "BTREE"
                                                THEN Bags[i] ELSE EmptyBag]
    BY <1>1, <2>1 DEF Snapshot, Bags
  <2>4. \A t \in Table : closedAs'.rows[t] = IF Known(t) THEN Rows[t] ELSE <<>>
    <3>1. closedAs.rows = [t \in Table |-> IF Known(t) THEN View(TableFile(t)) ELSE <<>>]
      BY <2>1 DEF Snapshot
    <3> QED  BY <1>1, <3>1 DEF Rows
  <2>10. indexes \in SUBSET (Index \X Table \X {"BTREE", "RTREE"})
         /\ \A e \in indexes : closedAs'.rows[e[2]] = Rows[e[2]]
    <3>1. \A e \in indexes : Known(e[2]) /\ e[2] \in Table
      BY <1>1 DEF CatalogInv, PoolInv, TypeInv
    <3> QED  BY <2>4, <3>1 DEF CatalogInv, TypeInv
  <2>11. /\ \A entries : Spatial(entries, indexes, Rows) => Spatial(entries, indexes, closedAs'.rows)
         /\ \A i, bag : Filled(i, bag, indexes, Rows) => Filled(i, bag, indexes, closedAs'.rows)
    <3> HIDE DEF CloseEnds, Forget
    <3>1. indexes \in SUBSET (Index \X Table \X {"BTREE", "RTREE"})
      BY <2>10
    <3>2. \A e \in indexes : Rows[e[2]] = closedAs'.rows[e[2]]
      BY <2>10
    <3> QED  BY <3>1, <3>2, OfTheirTables
  <2>5. Described(OnDisk("SysTables"), OnDisk("SysColumns"), OnDisk("SysIndexes"), OnDisk("SysPlugins"),
                  OnDisk("SysPluginIndexes"), closedAs.tables, closedAs.indexes, closedAs.ranked)'
    BY <1>3, <2>2, <2>3 DEF Described
  <2>6. Spatial(closedAs.spatial, closedAs.indexes, closedAs.rows)'
    BY <2>2, <2>3, <2>11
  <2>7. \A t \in Table :
          /\ closedAs'.tables[t] # None => OnDisk(TableFile(t))' = closedAs'.rows[t]
          /\ closedAs'.tables[t] = None => closedAs'.rows[t] = <<>>
    BY <1>3, <2>3, <2>4 DEF Known
  <2>8. \A i \in Index :
          /\ i \in spoilt' \/ Filled(i, OnDisk(IndexFile(i)), closedAs.indexes, closedAs.rows)'
          /\ (\A e \in closedAs'.indexes : ~ (e[1] = i /\ e[3] = "BTREE")) => closedAs'.entries[i] = EmptyBag
    <3>1. \A i \in Index : i \in spoilt' \/ Filled(i, OnDisk(IndexFile(i)), closedAs.indexes, closedAs.rows)'
      BY <1>1, <1>3, <2>2, <2>3, <2>11
    <3> QED  BY <2>3, <3>1
  <2>9. \A e \in closedAs'.indexes : e[3] = "BTREE" => OnDisk(IndexFile(e[1]))' = closedAs'.entries[e[1]]
    <3>1. \A e \in indexes : e[1] \in Index
      BY DEF CatalogInv, TypeInv
    <3> QED  BY <1>3, <2>3, <3>1
  <2>12. \A e \in closedAs'.indexes : e[3] = "BTREE" => disk'[IndexFile(e[1])] \notin {Missing, Zeros}
    <3>1. \A e \in indexes : IndexFile(e[1]) \in File
      BY FileNames DEF CatalogInv, TypeInv
    <3> QED  BY <1>1, <2>3, <3>1 DEF CatalogInv, PoolInv
  <2> HIDE DEF CloseEnds, Forget
  <2> QED  BY <1>1, <2>5, <2>6, <2>7, <2>8, <2>9, <2>12 DEF DiskInv
<1>7. ClosedInv'
  BY <1>1 DEF ClosedInv
<1> QED  BY <1>4, <1>5, <1>6, <1>7 DEF CatalogInv

LEMMA CrashSound == ASSUME CatalogInv, Crash  PROVE CatalogInv'
<1> USE DEF Crash, Forget
<1>1. /\ Running /\ ~ Running' /\ ~ Saving' /\ crashed' # "no"
      /\ UNCHANGED <<disk, closedAs, dropped, early>>
      /\ spoilt' = spoilt \cup {i \in Index : IndexFile(i) \in dropped \cup early}
                          \cup {e[1] : e \in {x \in closedAs.indexes : TableFile(x[2]) \in early}}
  BY DEF Running, Saving
<1>2. ~ Torn' => ~ Torn /\ ~ Saving /\ early \cap SysFiles = {}
  BY FileNames DEF Torn, Saving
<1>3. \A f : OnDisk(f)' = OnDisk(f)
  BY DEF OnDisk
<1>4. TypeInv'
  <2>1. tables' \in [Table -> Type \cup {"none", None}] /\ config' \in [Plugin -> Config \cup {None}]
    OBVIOUS
  <2>2. /\ pool' = [g \in File |-> pool'[g]] /\ \A g \in File : pool'[g] = None
        /\ indexes' = {} /\ rankedMeta' = {} /\ registered' = {}
        /\ mode' = "closed" /\ crashed' \in {"no", "lost", "torn"}
    OBVIOUS
  <2>3. spoilt' \subseteq Index
    BY <1>1 DEF CatalogInv, TypeInv
  <2> HIDE DEF Crash, Forget
  <2> QED  BY <1>1, <2>1, <2>2, <2>3 DEF CatalogInv, TypeInv
<1>5. PoolInv' /\ MemoryInv' /\ ClosedInv'
  BY <1>1, <1>2 DEF PoolInv, MemoryInv, ClosedInv
<1>6. DiskInv'
  <2> SUFFICES ASSUME ~ Torn, ~ Saving, early \cap SysFiles = {}  PROVE DiskInv'
    BY <1>2 DEF DiskInv
  <2>1. DiskInv
    BY DEF CatalogInv
  <2>2. /\ \A i \in Index : IndexFile(i) \in dropped' \cup early' => i \in spoilt'
        /\ \A e \in closedAs'.indexes : TableFile(e[2]) \in early' => e[1] \in spoilt'
        /\ spoilt \subseteq spoilt'
    BY <1>1
  <2> HIDE DEF Crash, Forget
  <2> QED  BY <1>1, <1>3, <2>1, <2>2 DEF DiskInv, Described, Spatial, Filled
<1> QED  BY <1>4, <1>5, <1>6 DEF CatalogInv

\* What is written early is contents of the file.
LEMMA EvictType ==
  ASSUME CatalogInv, NEW f \in File, Evict(f)
  PROVE  disk' = [disk EXCEPT ![f] = disk'[f]] /\ disk'[f] \in Contents(f)
<1>1. /\ disk = [g \in File |-> disk[g]] /\ pool[f] \in Contents(f) /\ OnDisk(f) \in Contents(f)
  BY ViewOf DEF Evict, CatalogInv, TypeInv
<1>2. CASE f \in HeapFiles
  <2> DEFINE old == OnDisk(f)
  <2>1. PICK s \in DOMAIN pool[f] :
          disk' = [disk EXCEPT ![f] = [n \in 1 .. (IF s > Len(old) THEN s ELSE Len(old)) |->
                     IF n = s THEN pool[f][n] ELSE IF n <= Len(old) THEN old[n] ELSE Gone]]
    BY <1>2, NamesAssumption DEF Evict
  <2>2. f \notin SysFiles
    BY <1>2, NamesAssumption
  <2>3. /\ pool[f] \in Seq(Key \cup {Null, Gone}) /\ Len(pool[f]) <= MaxSlots
        /\ old \in Seq(Key \cup {Null, Gone}) /\ Len(old) <= MaxSlots
    BY <1>1, <1>2, <2>2 DEF Contents, HeapContents
  <2>4. /\ DOMAIN pool[f] = 1 .. Len(pool[f]) /\ Len(pool[f]) \in Nat
        /\ DOMAIN old = 1 .. Len(old) /\ Len(old) \in Nat
        /\ \A n \in 1 .. Len(pool[f]) : pool[f][n] \in Key \cup {Null, Gone}
        /\ \A n \in 1 .. Len(old) : old[n] \in Key \cup {Null, Gone}
    BY <2>3, LenProperties, ElementOfSeq
  <2> DEFINE length == IF s > Len(old) THEN s ELSE Len(old)
  <2> HIDE DEF old
  <2> DEFINE new == [n \in 1 .. length |-> IF n = s THEN pool[f][n] ELSE IF n <= Len(old) THEN old[n] ELSE Gone]
  <2>5. s \in Nat /\ s <= MaxSlots /\ length \in Nat /\ length <= MaxSlots
    BY <2>3, <2>4, ConstantsAssumption
  <2> HIDE DEF length
  <2>6. \A n \in 1 .. length : new[n] \in Key \cup {Null, Gone}
    BY <2>4, <2>5
  <2>7. new \in [1 .. length -> Key \cup {Null, Gone}]
    BY <2>6
  <2>8. new \in Seq(Key \cup {Null, Gone}) /\ Len(new) = length
    <3> HIDE DEF new
    <3> QED  BY <2>5, <2>7, IsASeq, LenProperties
  <2>9. new \in Contents(f)
    <3> HIDE DEF new
    <3> QED  BY <1>2, <2>2, <2>5, <2>8 DEF Contents, HeapContents
  <2>10. disk' = [disk EXCEPT ![f] = new]
    BY <2>1 DEF length
  <2> HIDE DEF new, length
  <2> QED  BY <1>1, <2>9, <2>10
<1>3. CASE f \in IndexFiles
  <2>1. disk' = [disk EXCEPT ![f] = Mixed]
    BY <1>3, NamesAssumption DEF Evict
  <2>2. Mixed \in Contents(f)
    BY <1>3, NamesAssumption DEF Contents, IndexContents
  <2> QED  BY <1>1, <2>1, <2>2
<1>4. CASE f \in SysFiles
  <2>1. PICK row \in pool[f] \cup OnDisk(f) :
          disk' = [disk EXCEPT ![f] = IF row \in pool[f] THEN OnDisk(f) \cup {row} ELSE OnDisk(f) \ {row}]
    BY <1>4, NamesAssumption DEF Evict
  <2>2. PICK S : Contents(f) = SUBSET S
    BY <1>4, ContentsOf, FileNames
  <2> QED  BY <1>1, <2>1, <2>2
<1> QED  BY <1>2, <1>3, <1>4 DEF File

\* A page written early changes nothing a running catalog sees, and of the files
\* on disk only the one it is in.
LEMMA EvictSound ==
  ASSUME CatalogInv, NEW f \in File, Evict(f)
  PROVE  CatalogInv'
<1>1. /\ mode \in {"open", "closing"} /\ pool[f] # None /\ early' = early \cup {f}
      /\ UNCHANGED <<mode, pool, tables, indexes, spatial, rankedMeta, ready, registered, config,
                     closedAs, dropped, crashed, spoilt>>
  BY DEF Evict, Flushing, memory
<1>2. /\ disk' = [g \in File |-> disk'[g]] /\ disk'[f] \in Contents(f) /\ disk'[f] \notin {Missing, Zeros}
      /\ \A g \in File \ {f} : disk'[g] = disk[g]
  BY EvictType, Unmarked DEF CatalogInv, TypeInv
<1>3. Running /\ Running' /\ (Saving' <=> Saving) /\ (Torn' <=> Torn)
  BY <1>1 DEF Running, Saving, Torn
<1>4. \A g \in File \ {f} : OnDisk(g)' = OnDisk(g)
  BY <1>2 DEF OnDisk
<1>5. \A g \in File : View(g)' = View(g)
  BY <1>1, <1>4 DEF View
<1>6. /\ Rows' = Rows /\ Bags' = Bags
      /\ View("SysTables")' = View("SysTables") /\ View("SysColumns")' = View("SysColumns")
      /\ View("SysIndexes")' = View("SysIndexes") /\ View("SysPlugins")' = View("SysPlugins")
      /\ View("SysPluginIndexes")' = View("SysPluginIndexes")
  BY <1>5, FileNames, SysNames DEF Rows, Bags
<1>7. Snapshot' = Snapshot
  BY <1>1, <1>5, FileNames DEF Snapshot, Known
<1>8. TypeInv'
  BY <1>1, <1>2 DEF CatalogInv, TypeInv
<1>9. PoolInv'
  <2>1. \A e \in indexes : IndexFile(e[1]) \in File
    BY FileNames DEF CatalogInv, TypeInv
  <2> QED  BY <1>1, <1>2, <1>3, <2>1 DEF CatalogInv, PoolInv, Known
<1>10. MemoryInv'
  BY <1>1, <1>3, <1>6, <1>7 DEF CatalogInv, MemoryInv, Described, Spatial, Filled
<1>11. DiskInv'
  <2> SUFFICES ASSUME ~ Torn, ~ Saving, early \cap SysFiles = {}, f \notin SysFiles  PROVE DiskInv'
    BY <1>1, <1>3 DEF DiskInv
  <2>1. /\ OnDisk("SysTables")' = OnDisk("SysTables") /\ OnDisk("SysColumns")' = OnDisk("SysColumns")
        /\ OnDisk("SysIndexes")' = OnDisk("SysIndexes") /\ OnDisk("SysPlugins")' = OnDisk("SysPlugins")
        /\ OnDisk("SysPluginIndexes")' = OnDisk("SysPluginIndexes")
    BY <1>4, FileNames, SysNames
  <2>2. /\ \A t \in Table : TableFile(t) \notin early' =>
             TableFile(t) \notin early /\ OnDisk(TableFile(t))' = OnDisk(TableFile(t))
        /\ \A i \in Index :
             /\ IndexFile(i) \notin early' =>
                  IndexFile(i) \notin early /\ OnDisk(IndexFile(i))' = OnDisk(IndexFile(i))
             /\ disk'[IndexFile(i)] \in {Missing, Zeros} => disk[IndexFile(i)] \in {Missing, Zeros}
    BY <1>1, <1>2, <1>4, FileNames
  <2>3. \A e \in closedAs.indexes : e[1] \in Index /\ e[2] \in Table
    BY DEF CatalogInv, TypeInv
  <2>4. DiskInv
    BY DEF CatalogInv
  <2> QED  BY <1>1, <1>3, <2>1, <2>2, <2>3, <2>4 DEF DiskInv, Described, Spatial, Filled
<1>12. ClosedInv'
  BY <1>3 DEF ClosedInv
<1> QED  BY <1>8, <1>9, <1>10, <1>11, <1>12 DEF CatalogInv

-----------------------------------------------------------------------------
\* Opening: what is seen of the files is what is on disk.

LEMMA TypeOfTableType ==
  ASSUME TypeInv, NEW t \in Table
  PROVE  TypeOfTable(t) \in Type \cup {"none"} /\ TypeOfTable(t) # None
<1>1. View("SysColumns") \in SUBSET (Table \X Type)
  BY ViewOf, SysNames, ContentsOf
<1>2. TypeOfTable(t) \in Type \cup {"none"}
  <2>1. CASE \E c \in View("SysColumns") : c[1] = t
    <3>1. (CHOOSE c \in View("SysColumns") : c[1] = t) \in View("SysColumns")
      BY <2>1
    <3> QED  BY <1>1, <2>1, <3>1 DEF TypeOfTable
  <2>2. CASE ~ \E c \in View("SysColumns") : c[1] = t
    BY <2>2 DEF TypeOfTable
  <2> QED  BY <2>1, <2>2
<1> QED  BY <1>2, MarksAssumption

LEMMA StoredConfigType ==
  ASSUME TypeInv, NEW p \in Plugin
  PROVE  StoredConfig(p) \in Config \cup {None}
<1>1. View("SysPlugins") \in SUBSET (Plugin \X Config)
  BY ViewOf, SysNames, ContentsOf
<1>2. CASE \E r \in View("SysPlugins") : r[1] = p
  <2>1. (CHOOSE r \in View("SysPlugins") : r[1] = p) \in View("SysPlugins")
    BY <1>2
  <2> QED  BY <1>1, <1>2, <2>1 DEF StoredConfig
<1>3. CASE ~ \E r \in View("SysPlugins") : r[1] = p
  BY <1>3 DEF StoredConfig
<1> QED  BY <1>2, <1>3

LEMMA StoredType ==
  ASSUME TypeInv
  PROVE  /\ StoredIndexes \in SUBSET (Index \X Table \X {"BTREE", "RTREE"})
         /\ \A e \in StoredIndexes : e[2] \in StoredTables
         /\ RankedRows \in SUBSET (Index \X Table \X Plugin)
         /\ StoredTables \subseteq Table
<1>1. /\ View("SysIndexes") \in SUBSET (Index \X Table \X {"BTREE", "RTREE"})
      /\ View("SysPluginIndexes") \in SUBSET (Index \X Table \X Plugin)
  BY ViewOf, SysNames, ContentsOf
<1> QED  BY <1>1 DEF StoredIndexes, StoredTables, RankedRows

\* A database that is not torn is opened as it was closed.
LEMMA StoredAsClosed ==
  ASSUME CatalogInv, mode \in {"closed", "refused"}, ~ Torn
  PROVE  /\ StoredTables = {t \in Table : closedAs.tables[t] # None}
         /\ \A t \in StoredTables : TypeOfTable(t) = closedAs.tables[t]
         /\ StoredIndexes = closedAs.indexes /\ RankedRows = closedAs.ranked
         /\ \A x \in View("SysPlugins") : StoredConfig(x[1]) = x[2]
         /\ Described(View("SysTables"), View("SysColumns"), View("SysIndexes"), View("SysPlugins"),
                      View("SysPluginIndexes"), closedAs.tables, closedAs.indexes, closedAs.ranked)
<1>1. ~ Running /\ ~ Saving /\ TypeInv
  BY DEF Running, Saving, CatalogInv
<1>2. \A f \in File : View(f) = OnDisk(f)
  BY <1>1 DEF CatalogInv, PoolInv, View
<1>3. Described(View("SysTables"), View("SysColumns"), View("SysIndexes"), View("SysPlugins"),
                View("SysPluginIndexes"), closedAs.tables, closedAs.indexes, closedAs.ranked)
  BY <1>1, <1>2, SysNames DEF CatalogInv, DiskInv, ClosedInv
<1>4. StoredTables = {t \in Table : closedAs.tables[t] # None}
  BY <1>3 DEF Described, StoredTables
<1>5. \A t \in StoredTables : TypeOfTable(t) = closedAs.tables[t]
  <2> TAKE t \in StoredTables
  <2>1. View("SysColumns") = {<<u, closedAs.tables[u]>> : u \in View("SysTables")} /\ t \in View("SysTables")
    BY <1>3 DEF Described, StoredTables
  <2>2. \E c \in View("SysColumns") : c[1] = t
    <3>1. <<t, closedAs.tables[t]>> \in View("SysColumns")
      BY <2>1
    <3>2. <<t, closedAs.tables[t]>>[1] = t
      OBVIOUS
    <3> QED  BY <3>1, <3>2
  <2>3. PICK c \in View("SysColumns") : c = (CHOOSE d \in View("SysColumns") : d[1] = t) /\ c[1] = t
    BY <2>2
  <2>4. TypeOfTable(t) = c[2]
    BY <2>2, <2>3 DEF TypeOfTable
  <2> QED  BY <2>1, <2>3, <2>4
<1>6. StoredIndexes = closedAs.indexes /\ RankedRows = closedAs.ranked
  <2>1. View("SysIndexes") = closedAs.indexes /\ View("SysPluginIndexes") = closedAs.ranked
        /\ \A e \in closedAs.indexes : closedAs.tables[e[2]] # None
    BY <1>3 DEF Described
  <2>2. \A e \in closedAs.indexes : e[2] \in StoredTables
    BY <1>1, <1>4, <2>1 DEF TypeInv
  <2> QED  BY <2>1, <2>2 DEF StoredIndexes, RankedRows
<1>7. \A x \in View("SysPlugins") : StoredConfig(x[1]) = x[2]
  <2> TAKE x \in View("SysPlugins")
  <2>1. \E r \in View("SysPlugins") : r[1] = x[1]
    OBVIOUS
  <2>2. PICK r \in View("SysPlugins") : r = (CHOOSE q \in View("SysPlugins") : q[1] = x[1]) /\ r[1] = x[1]
    BY <2>1
  <2>3. StoredConfig(x[1]) = r[2]
    BY <2>1, <2>2 DEF StoredConfig
  <2>4. r = x
    BY <1>3, <2>2 DEF Described
  <2> QED  BY <2>3, <2>4
<1> QED  BY <1>3, <1>4, <1>5, <1>6, <1>7

\* What the files that are open, and those that are not, are seen as.
LEMMA OpenSeen ==
  ASSUME CatalogInv, Open
  PROVE  /\ \A f \in File : View(f)' = View(f) /\ View(f) = OnDisk(f) /\ OnDisk(f)' = OnDisk(f)
         /\ \A f \in File : disk'[f] \in {Missing, Zeros} => disk[f] \in {Missing, Zeros}
         /\ \A f \in File : pool[f] = None
         /\ Rows' = Rows /\ Bags' = Bags
         /\ mode' = "open" => \A f \in OpenFiles : f \in File => pool'[f] # None
         /\ ~ Running /\ UNCHANGED <<artifacts, closedAs, dropped, early, crashed, spoilt>>
<1>1. ~ Running /\ TypeInv /\ disk' = Allocated(OpenFiles)
      /\ UNCHANGED <<artifacts, closedAs, dropped, early, crashed, spoilt>>
      /\ \/ mode' = "refused" /\ UNCHANGED pool
         \/ mode' = "open" /\ pool' = Opened(OpenFiles)
  BY DEF Open, Running, history, CatalogInv
<1>2. \A f \in File : pool[f] = None
  BY <1>1 DEF CatalogInv, PoolInv
<1>3. \A f \in File : /\ disk'[f] = IF f \in OpenFiles /\ disk[f] = Missing THEN Zeros ELSE disk[f]
                      /\ OnDisk(f)' = OnDisk(f)
  <2>1. \A f \in File : disk'[f] = IF f \in OpenFiles /\ disk[f] = Missing THEN Zeros ELSE disk[f]
    BY <1>1 DEF Allocated
  <2> QED  BY <2>1 DEF OnDisk
<1>4. \A f \in File : View(f) = OnDisk(f) /\ View(f) # None
  BY <1>1, <1>2, ViewOf DEF View
<1>5. mode' = "open" => \A f \in File : pool'[f] = IF f \in OpenFiles THEN View(f) ELSE None
  <2> SUFFICES ASSUME mode' = "open"  PROVE \A f \in File : pool'[f] = IF f \in OpenFiles THEN View(f) ELSE None
    OBVIOUS
  <2>1. pool' = Opened(OpenFiles)
    BY <1>1
  <2> QED  BY <1>2, <2>1 DEF Opened
<1>6. \A f \in File : View(f)' = View(f)
  <2>1. CASE mode' = "open"
    BY <1>3, <1>4, <1>5, <2>1 DEF View
  <2>2. CASE mode' = "refused"
    BY <1>1, <1>2, <1>3, <1>4, <2>2 DEF View
  <2> QED  BY <1>1, <2>1, <2>2
<1>7. Rows' = Rows /\ Bags' = Bags
  BY <1>6, FileNames DEF Rows, Bags
<1>8. \A f \in File : disk'[f] \in {Missing, Zeros} => disk[f] \in {Missing, Zeros}
  BY <1>3
<1> QED  BY <1>1, <1>2, <1>3, <1>4, <1>5, <1>6, <1>7, <1>8

LEMMA OpenSound == ASSUME CatalogInv, Open  PROVE CatalogInv'
<1>1. /\ ~ Running /\ TypeInv /\ mode \in {"closed", "refused"}
      /\ UNCHANGED <<artifacts, closedAs, dropped, early, crashed, spoilt>>
      /\ disk' = Allocated(OpenFiles)
  BY OpenSeen DEF Open, CatalogInv
<1>2. \A f \in File : View(f)' = View(f) /\ View(f) = OnDisk(f) /\ OnDisk(f)' = OnDisk(f) /\ pool[f] = None
  BY OpenSeen
<1>3. /\ disk' = [f \in File |-> disk'[f]]
      /\ \A f \in File : disk'[f] \in {Missing, Zeros} \/ disk'[f] \in Contents(f)
  BY <1>1 DEF TypeInv, Allocated
<1>4. ~ Running' /\ ~ Torn' => DiskInv'
  <2> SUFFICES ASSUME ~ Running', ~ Torn'  PROVE DiskInv'
    OBVIOUS
  <2>1. DiskInv /\ ~ Saving /\ ~ Saving' /\ ~ Torn
    BY <1>1 DEF CatalogInv, Saving, Running, Torn
  <2>2. /\ OnDisk("SysTables")' = OnDisk("SysTables") /\ OnDisk("SysColumns")' = OnDisk("SysColumns")
        /\ OnDisk("SysIndexes")' = OnDisk("SysIndexes") /\ OnDisk("SysPlugins")' = OnDisk("SysPlugins")
        /\ OnDisk("SysPluginIndexes")' = OnDisk("SysPluginIndexes")
        /\ \A t \in Table : OnDisk(TableFile(t))' = OnDisk(TableFile(t))
        /\ \A i \in Index : OnDisk(IndexFile(i))' = OnDisk(IndexFile(i))
                            /\ (disk'[IndexFile(i)] \in {Missing, Zeros} => disk[IndexFile(i)] \in {Missing, Zeros})
        /\ \A e \in closedAs.indexes : e[1] \in Index
    BY <1>1, <1>2, OpenSeen, FileNames, SysNames DEF TypeInv
  <2> QED  BY <1>1, <2>1, <2>2 DEF DiskInv, Described, Spatial, Filled
<1>5. CASE mode' = "refused"
  <2>1. UNCHANGED <<pool, memory>> /\ ~ Running'
    BY <1>5 DEF Open, Running
  <2>2. TypeInv'
    BY <1>1, <1>3, <1>5, <2>1 DEF TypeInv, memory
  <2>3. PoolInv' /\ MemoryInv'
    <3>1. ~ Saving'
      BY <1>5 DEF Saving
    <3> QED  BY <1>2, <2>1, <3>1 DEF PoolInv, MemoryInv
  <2>4. DiskInv'
    BY <1>4, <2>1 DEF DiskInv
  <2>5. ClosedInv'
    BY <1>1, <2>1 DEF CatalogInv, ClosedInv, Torn
  <2> QED  BY <2>2, <2>3, <2>4, <2>5 DEF CatalogInv
<1>6. CASE mode' = "open"
  <2>1. /\ pool' = Opened(OpenFiles)
        /\ tables' = [t \in Table |-> IF t \in StoredTables THEN TypeOfTable(t) ELSE None]
        /\ indexes' = StoredIndexes
        /\ spatial' = UNION {{<<e[1], e[2], r[1], r[2]>> : r \in Located(View(TableFile(e[2])))} :
                               e \in {x \in StoredIndexes : x[3] = "RTREE"}}
        /\ rankedMeta' = RankedRows
        /\ factory' = (View("SysPlugins") # {})
        /\ ready' = IF factory' THEN {r[1] : r \in RankedRows} ELSE {}
        /\ registered' = Plugin
        /\ config' = [p \in Plugin |-> StoredConfig(p)]
    BY <1>6 DEF Open
  <2>2. Running' /\ ~ Saving' /\ (Torn' <=> Torn)
    BY <1>1, <1>6 DEF Running, Saving, Torn
  <2>3. TypeInv'
    <3>1. /\ pool' = [f \in File |-> pool'[f]]
          /\ \A f \in File : pool'[f] = None \/ pool'[f] \in Contents(f)
      BY <1>1, <1>2, <2>1, ViewOf DEF Opened
    <3>2. tables' \in [Table -> Type \cup {"none", None}]
      BY <1>1, <2>1, TypeOfTableType
    <3>3. config' \in [Plugin -> Config \cup {None}]
      BY <1>1, <2>1, StoredConfigType
    <3> QED  BY <1>1, <1>3, <1>6, <2>1, <3>1, <3>2, <3>3, StoredType DEF TypeInv
  <2>4. \A t \in Table : Known(t)' <=> t \in StoredTables
    BY <1>1, <2>1, TypeOfTableType DEF Known
  <2>5. \A f \in OpenFiles : f \in File => pool'[f] # None
    BY <1>6, OpenSeen
  <2>6. PoolInv'
    <3>1. \A e \in indexes' : Known(e[2])'
      BY <1>1, <2>1, <2>4, StoredType
    <3>2. \A f \in SysFiles : pool'[f] # None
      BY <2>5, FileNames DEF OpenFiles
    <3>3. \A t \in Table : Known(t)' => pool'[TableFile(t)] # None
      BY <2>4, <2>5, FileNames DEF OpenFiles
    <3>4. \A e \in indexes' : e[3] = "BTREE" => pool'[IndexFile(e[1])] # None
      <4> SUFFICES ASSUME NEW e \in StoredIndexes, e[3] = "BTREE"  PROVE pool'[IndexFile(e[1])] # None
        BY <2>1
      <4>1. e[1] \in Index
        BY <1>1, StoredType
      <4>2. IndexFile(e[1]) \in OpenFiles
        BY DEF OpenFiles
      <4> QED  BY <2>5, <4>1, <4>2, FileNames
    <3> QED  BY <2>2, <3>1, <3>2, <3>3, <3>4 DEF PoolInv
  <2>7. Spatial(spatial, indexes, Rows)'
    <3>1. \A t \in Table : \A k, s : <<k, s>> \in Located(Rows[t])
             <=> s \in DOMAIN Rows[t] /\ Rows[t][s] = k /\ k # Gone /\ k # Null
      BY <1>1, LocatedOf
    <3>2. \A t \in Table : \A r \in Located(Rows[t]) : r = <<r[1], r[2]>> /\ r[1] \in Key /\ r[2] \in 1 .. MaxSlots
      BY <1>1, LocatedOf
    <3>3. \A e \in StoredIndexes : View(TableFile(e[2])) = Rows[e[2]] /\ e[2] \in Table /\ e[1] \in Index
            /\ e = <<e[1], e[2], e[3]>>
      BY <1>1, StoredType DEF Rows
    <3>4. ASSUME NEW x \in spatial'
          PROVE  /\ x \in Index \X Table \X Key \X (1 .. MaxSlots)
                 /\ <<x[1], x[2], "RTREE">> \in StoredIndexes /\ <<x[3], x[4]>> \in Located(Rows[x[2]])
      <4>1. PICK e \in StoredIndexes : e[3] = "RTREE"
                   /\ x \in {<<e[1], e[2], r[1], r[2]>> : r \in Located(View(TableFile(e[2])))}
        BY <2>1
      <4>2. PICK r \in Located(Rows[e[2]]) : x = <<e[1], e[2], r[1], r[2]>>
        BY <3>3, <4>1
      <4> QED  BY <3>2, <3>3, <4>1, <4>2
    <3>5. ASSUME NEW i \in Index, NEW t \in Table, NEW k \in Key, NEW s \in 1 .. MaxSlots,
                 <<i, t, "RTREE">> \in StoredIndexes, <<k, s>> \in Located(Rows[t])
          PROVE  <<i, t, k, s>> \in spatial'
      <4> DEFINE e == <<i, t, "RTREE">>
      <4>1. e \in {x \in StoredIndexes : x[3] = "RTREE"} /\ View(TableFile(e[2])) = Rows[t]
        BY <3>3, <3>5
      <4>2. <<i, t, k, s>> \in {<<e[1], e[2], r[1], r[2]>> : r \in Located(View(TableFile(e[2])))}
        BY <3>5, <4>1
      <4> HIDE DEF e
      <4> QED  BY <2>1, <4>1, <4>2
    <3>6. \A k \in Key : k # Gone /\ k # Null
      BY MarksAssumption, ConstantsAssumption
    <3>7. Rows' = Rows /\ indexes' = StoredIndexes
      BY <2>1, OpenSeen
    <3>8. spatial' \subseteq Index \X Table \X Key \X (1 .. MaxSlots)
      BY <3>4
    <3>9. \A i \in Index, t \in Table, k \in Key, s \in 1 .. MaxSlots :
            <<i, t, k, s>> \in spatial' <=> <<i, t, "RTREE">> \in StoredIndexes
                                            /\ s \in DOMAIN Rows[t] /\ Rows[t][s] = k
      <4> TAKE i \in Index, t \in Table, k \in Key, s \in 1 .. MaxSlots
      <4>1. <<k, s>> \in Located(Rows[t]) <=> s \in DOMAIN Rows[t] /\ Rows[t][s] = k
        BY <3>1, <3>6
      <4>2. ASSUME <<i, t, k, s>> \in spatial'
            PROVE  <<i, t, "RTREE">> \in StoredIndexes /\ <<k, s>> \in Located(Rows[t])
        BY <3>4, <4>2
      <4> QED  BY <3>5, <4>1, <4>2
    <3> QED  BY <3>7, <3>8, <3>9 DEF Spatial
  <2>8. ASSUME ~ Torn
        PROVE  OpenInv' /\ DiskInv'
    <3>1. /\ StoredTables = {t \in Table : closedAs.tables[t] # None}
          /\ \A t \in StoredTables : TypeOfTable(t) = closedAs.tables[t]
          /\ StoredIndexes = closedAs.indexes /\ RankedRows = closedAs.ranked
          /\ \A x \in View("SysPlugins") : StoredConfig(x[1]) = x[2]
          /\ Described(View("SysTables"), View("SysColumns"), View("SysIndexes"), View("SysPlugins"),
                       View("SysPluginIndexes"), closedAs.tables, closedAs.indexes, closedAs.ranked)
      BY <1>1, <2>8, StoredAsClosed
    <3>2. tables' = closedAs.tables
      BY <1>1, <2>1, <3>1 DEF TypeInv
    <3>3. DiskInv /\ ~ Saving /\ early \cap SysFiles = {}
      BY <1>1, <2>8 DEF CatalogInv, ClosedInv, Saving, Running
    <3>4. /\ pool'["SysTables"] = View("SysTables") /\ pool'["SysColumns"] = View("SysColumns")
          /\ pool'["SysIndexes"] = View("SysIndexes") /\ pool'["SysPlugins"] = View("SysPlugins")
          /\ pool'["SysPluginIndexes"] = View("SysPluginIndexes")
      <4>1. \A f \in SysFiles : pool'[f] = View(f)
        BY <2>1, FileNames DEF Opened, OpenFiles
      <4> QED  BY <4>1, FileNames
    <3>5. \A t \in Table : closedAs.tables[t] # None /\ TableFile(t) \notin early =>
            Rows'[t] = IF TableFile(t) \in dropped THEN <<>> ELSE closedAs.rows[t]
      BY <1>2, <2>8, <3>3, OpenSeen, FileNames DEF Rows, DiskInv
    <3>6. ASSUME NEW i \in Index, i \notin spoilt
          PROVE  Filled(i, Bags[i], indexes, Rows)'
      <4>1. IndexFile(i) \notin dropped \cup early /\ Bags'[i] = OnDisk(IndexFile(i))
        BY <1>1, <1>2, <2>8, <3>3, <3>6, OpenSeen, FileNames DEF Bags, DiskInv
      <4>2. Filled(i, OnDisk(IndexFile(i)), closedAs.indexes, closedAs.rows)
        BY <2>8, <3>3, <3>6, <4>1 DEF DiskInv
      <4>3. \A e \in closedAs.indexes : e[1] = i /\ e[3] = "BTREE" => Rows'[e[2]] = closedAs.rows[e[2]]
        <5> TAKE e \in closedAs.indexes
        <5>1. e[2] \in Table
          BY <1>1 DEF TypeInv
        <5>2. /\ e[3] = "BTREE" /\ TableFile(e[2]) \in dropped => IndexFile(e[1]) \in dropped
              /\ e[3] = "BTREE" /\ TableFile(e[2]) \in early => e[1] \in spoilt
          BY <1>1, <2>8, <3>3 DEF DiskInv
        <5>3. closedAs.tables[e[2]] # None
          BY <3>1 DEF Described
        <5> QED  BY <3>5, <3>6, <4>1, <5>1, <5>2, <5>3
      <4> QED  BY <2>1, <3>1, <4>1, <4>2, <4>3 DEF Filled
    <3>7. \A r \in rankedMeta' : r[1] \in ready'
      BY <2>1, <3>1 DEF Described
    <3>8. \A x \in pool'["SysPlugins"] : config'[x[1]] = x[2]
      <4>1. View("SysPlugins") \in SUBSET (Plugin \X Config)
        BY <1>1, ViewOf, SysNames, ContentsOf
      <4> QED  BY <2>1, <3>1, <3>4, <4>1
    <3>9. \A t \in Table : Known(t)' => pool'[TableFile(t)] # None
      BY <2>2, <2>6 DEF PoolInv
    <3>10. Described(pool["SysTables"], pool["SysColumns"], pool["SysIndexes"], pool["SysPlugins"],
                     pool["SysPluginIndexes"], tables, indexes, rankedMeta)'
      BY <2>1, <3>1, <3>2, <3>4 DEF Described
    <3>11. OpenInv'
      BY <1>1, <2>2, <2>6, <2>7, <3>6, <3>7, <3>8, <3>9, <3>10 DEF OpenInv, PoolInv
    <3>12. DiskInv'
      <4>1. /\ OnDisk("SysTables")' = OnDisk("SysTables") /\ OnDisk("SysColumns")' = OnDisk("SysColumns")
            /\ OnDisk("SysIndexes")' = OnDisk("SysIndexes") /\ OnDisk("SysPlugins")' = OnDisk("SysPlugins")
            /\ OnDisk("SysPluginIndexes")' = OnDisk("SysPluginIndexes")
            /\ \A t \in Table : OnDisk(TableFile(t))' = OnDisk(TableFile(t))
            /\ \A i \in Index : /\ OnDisk(IndexFile(i))' = OnDisk(IndexFile(i))
                                /\ disk'[IndexFile(i)] \in {Missing, Zeros} => disk[IndexFile(i)] \in {Missing, Zeros}
            /\ \A e \in closedAs.indexes : e[1] \in Index
        BY <1>1, <1>2, OpenSeen, FileNames, SysNames DEF TypeInv
      <4>2. indexes' = closedAs.indexes
        BY <2>1, <3>1
      <4> QED  BY <1>1, <2>2, <2>8, <3>3, <4>1, <4>2 DEF DiskInv, Described, Spatial, Filled
    <3> QED  BY <3>11, <3>12
  <2>9. CASE ~ Torn
    BY <1>6, <2>3, <2>8, <2>9, OpenNext
  <2>10. CASE Torn
    BY <2>2, <2>3, <2>6, <2>7, <2>10 DEF CatalogInv, MemoryInv, DiskInv, ClosedInv
  <2> QED  BY <2>9, <2>10
<1> QED  BY <1>5, <1>6 DEF Open

-----------------------------------------------------------------------------
\* What statements have in common.

LEMMA SeenKept ==
  ASSUME \A f \in File \ SysFiles : View(f)' = View(f)
  PROVE  Rows' = Rows /\ Bags' = Bags
BY FileNames DEF Rows, Bags

\* A page of zeros is an empty file.
LEMMA AllocatedSame ==
  ASSUME TypeInv, NEW fs, disk' = Allocated(fs)
  PROVE  /\ \A f \in File : /\ OnDisk(f)' = OnDisk(f)
                            /\ disk'[f] \in {Missing, Zeros} => disk[f] \in {Missing, Zeros}
         /\ disk' = [f \in File |-> disk'[f]]
         /\ \A f \in File : disk'[f] \in {Missing, Zeros} \/ disk'[f] \in Contents(f)
<1>1. \A f \in File : disk'[f] = IF f \in fs /\ disk[f] = Missing THEN Zeros ELSE disk[f]
  BY DEF Allocated
<1>2. disk' = [f \in File |-> disk'[f]]
  BY DEF Allocated
<1> QED  BY <1>1, <1>2 DEF TypeInv, OnDisk

\* The state of an open catalog, as the statements find it.
LEMMA StatementState ==
  ASSUME CatalogInv, Altering
  PROVE  /\ mode = "open" /\ ~ Torn /\ TypeInv /\ OpenInv
         /\ \A f \in SysFiles : f \in File /\ pool[f] # None /\ pool[f] = View(f)
         /\ \A e \in indexes : /\ e[1] \in Index /\ e[2] \in Table /\ Known(e[2])
                               /\ e = <<e[1], e[2], e[3]>> /\ e[3] \in {"BTREE", "RTREE"}
                               /\ e[3] = "BTREE" => pool[IndexFile(e[1])] # None
         /\ Described(pool["SysTables"], pool["SysColumns"], pool["SysIndexes"], pool["SysPlugins"],
                      pool["SysPluginIndexes"], tables, indexes, rankedMeta)
         /\ pool["SysTables"] \in SUBSET Table /\ pool["SysColumns"] \in SUBSET (Table \X Type)
         /\ pool["SysIndexes"] \in SUBSET (Index \X Table \X {"BTREE", "RTREE"})
         /\ pool["SysPlugins"] \in SUBSET (Plugin \X Config)
         /\ pool["SysPluginIndexes"] \in SUBSET (Index \X Table \X Plugin)
         /\ \A t \in Table : Known(t) => pool[TableFile(t)] = Rows[t]
<1>1. mode = "open" /\ ~ Torn /\ TypeInv /\ OpenInv
  BY OpenState DEF Altering, Torn, CatalogInv
<1>2. \A f \in SysFiles : f \in File /\ pool[f] # None /\ pool[f] = View(f) /\ pool[f] \in Contents(f)
  BY <1>1, FileNames DEF OpenInv, TypeInv, View
<1>3. \A t \in Table : Known(t) => pool[TableFile(t)] = Rows[t]
  BY <1>1 DEF OpenInv, Rows, View
<1>5. \A e \in indexes : /\ e[1] \in Index /\ e[2] \in Table /\ Known(e[2])
                         /\ e = <<e[1], e[2], e[3]>> /\ e[3] \in {"BTREE", "RTREE"}
                         /\ e[3] = "BTREE" => pool[IndexFile(e[1])] # None
  BY <1>1 DEF OpenInv, Described, TypeInv, Known
<1>6. Described(pool["SysTables"], pool["SysColumns"], pool["SysIndexes"], pool["SysPlugins"],
                pool["SysPluginIndexes"], tables, indexes, rankedMeta)
  BY <1>1 DEF OpenInv
<1> QED  BY <1>1, <1>2, <1>3, <1>5, <1>6, ContentsOf, FileNames

\* A statement that drops nothing.
LEMMA DiskSame ==
  ASSUME CatalogInv, TypeInv', Altering, mode' = mode, UNCHANGED <<closedAs, crashed, dropped, early>>,
         \A f \in File : /\ OnDisk(f)' = OnDisk(f)
                         /\ disk'[f] \in {Missing, Zeros} => disk[f] \in {Missing, Zeros},
         indexes \subseteq indexes', spoilt \subseteq spoilt'
  PROVE  DiskInv'
BY DiskKept

\* FileManager.drop: a file is deleted, or left alone.
LEMMA FilesDeleted ==
  ASSUME CatalogInv, NEW fs, NEW others, DropFiles(fs, others), NEW f \in File
  PROVE  \/ f \in dropped' /\ f \notin early' /\ OnDisk(f)' = EmptyFile(f)
         \/ /\ OnDisk(f)' = OnDisk(f)
            /\ (f \in dropped' <=> f \in dropped) /\ (f \in early' <=> f \in early)
            /\ disk'[f] \in {Missing, Zeros} => disk[f] \in {Missing, Zeros}
<1>1. /\ disk'[f] = IF f \in fs /\ pool[f] # None THEN Missing ELSE disk[f]
      /\ dropped' = dropped \cup {g \in fs : pool[g] # None}
      /\ early' = early \ {g \in fs : pool[g] # None}
  BY DEF DropFiles
<1> QED  BY <1>1 DEF OnDisk

\* The files that are open are empty afterwards.
LEMMA FilesDropped ==
  ASSUME CatalogInv, NEW fs \in SUBSET (HeapFiles \cup IndexFiles),
         NEW others, DropFiles(fs, others),
         \A f \in File : others[f] = None \/ others[f] \in Contents(f)
  PROVE  /\ dropped' \subseteq HeapFiles \cup IndexFiles /\ early' \subseteq File
         /\ pool' = [f \in File |-> pool'[f]]
         /\ \A f \in File : pool'[f] = None \/ pool'[f] \in Contents(f)
         /\ disk' = [f \in File |-> disk'[f]]
         /\ \A f \in File : disk'[f] \in {Missing, Zeros} \/ disk'[f] \in Contents(f)
         /\ \A f \in File : pool'[f] = IF f \in fs THEN None ELSE others[f]
         /\ \A f \in fs : f \in File /\ (pool[f] # None => f \in dropped' /\ View(f)' = EmptyFile(f))
                          /\ (pool[f] = None => View(f)' = View(f))
         /\ \A f \in File \ fs : disk'[f] = disk[f] /\ OnDisk(f)' = OnDisk(f)
<1>1. /\ \A f \in File : pool'[f] = IF f \in fs THEN None ELSE others[f]
      /\ \A f \in File : disk'[f] = IF f \in fs /\ pool[f] # None THEN Missing ELSE disk[f]
      /\ dropped' = dropped \cup {f \in fs : pool[f] # None}
      /\ early' = early \ {f \in fs : pool[f] # None}
      /\ pool' = [f \in File |-> pool'[f]] /\ disk' = [f \in File |-> disk'[f]]
  BY DEF DropFiles
<1>2. fs \subseteq File /\ dropped \subseteq HeapFiles \cup IndexFiles /\ early \subseteq File /\ TypeInv
  BY DEF File, CatalogInv, TypeInv
<1>3. \A f \in File : disk'[f] \in {Missing, Zeros} \/ disk'[f] \in Contents(f)
  BY <1>1, <1>2 DEF TypeInv
<1>4. \A f \in fs : /\ pool[f] # None => View(f)' = EmptyFile(f)
                    /\ pool[f] = None => View(f)' = View(f)
  BY <1>1, <1>2 DEF View, OnDisk
<1>5. \A f \in File \ fs : disk'[f] = disk[f] /\ OnDisk(f)' = OnDisk(f)
  BY <1>1 DEF OnDisk
<1> QED  BY <1>1, <1>2, <1>3, <1>4, <1>5

-----------------------------------------------------------------------------
\* Tables and their rows.

LEMMA CreateTableSound ==
  ASSUME CatalogInv, NEW t \in Table, NEW type \in Type, CreateTable(t, type)
  PROVE  CatalogInv'
<1>1. /\ Altering /\ ~ Known(t)
      /\ tables' = [tables EXCEPT ![t] = type]
      /\ disk' = Allocated({TableFile(t)})
      /\ pool' = [Opened({TableFile(t)}) EXCEPT !["SysTables"] = @ \cup {t}, !["SysColumns"] = @ \cup {<<t, type>>}]
      /\ UNCHANGED <<mode, indexes, spatial, rankedMeta, ready, registered, config,
                     closedAs, dropped, early, crashed, spoilt>>
  BY DEF CreateTable, history
<1>2. /\ mode = "open" /\ TypeInv /\ OpenInv /\ mode' = "open" /\ type # None
      /\ pool["SysTables"] \in SUBSET Table /\ pool["SysColumns"] \in SUBSET (Table \X Type)
  BY <1>1, StatementState, MarksAssumption
<1>3. /\ \A f \in File : /\ OnDisk(f)' = OnDisk(f)
                         /\ disk'[f] \in {Missing, Zeros} => disk[f] \in {Missing, Zeros}
      /\ disk' = [f \in File |-> disk'[f]]
      /\ \A f \in File : disk'[f] \in {Missing, Zeros} \/ disk'[f] \in Contents(f)
  BY <1>1, <1>2, AllocatedSame
<1>4. /\ pool'["SysTables"] = pool["SysTables"] \cup {t}
      /\ pool'["SysColumns"] = pool["SysColumns"] \cup {<<t, type>>}
      /\ \A f \in File \ {"SysTables", "SysColumns"} :
           pool'[f] = IF f = TableFile(t) THEN View(f) ELSE pool[f]
      /\ pool' = [f \in File |-> pool'[f]]
  BY <1>1, FileNames, SysNames DEF Opened
<1>5. \A f \in File \ {"SysTables", "SysColumns"} : View(f)' = View(f)
  BY <1>2, <1>3, <1>4, ViewOf DEF View
<1>6. Rows' = Rows /\ Bags' = Bags
  BY <1>5, SeenKept, FileNames
<1>7. TypeInv'
  <2>1. \A f \in File : pool'[f] = None \/ pool'[f] \in Contents(f)
    <3>1. /\ pool'["SysTables"] \in Contents("SysTables")
          /\ pool'["SysColumns"] \in Contents("SysColumns")
      BY <1>2, <1>4, ContentsOf
    <3> QED  BY <1>2, <1>4, <3>1, ViewOf DEF TypeInv
  <2>2. tables' \in [Table -> Type \cup {"none", None}]
    BY <1>1, <1>2 DEF TypeInv
  <2> QED  BY <1>1, <1>2, <1>3, <1>4, <2>1, <2>2 DEF TypeInv
<1>8. OpenInv'
  <2>1. /\ \A f \in SysFiles : pool'[f] # None
        /\ pool'["SysIndexes"] = pool["SysIndexes"] /\ pool'["SysPlugins"] = pool["SysPlugins"]
        /\ pool'["SysPluginIndexes"] = pool["SysPluginIndexes"]
    <3>1. \A f \in SysFiles \ {"SysTables", "SysColumns"} : pool'[f] = pool[f] /\ pool[f] # None
      <4>1. \A f \in SysFiles : f \in File /\ f # TableFile(t)
        BY FileNames
      <4>2. \A f \in SysFiles : pool[f] # None
        BY <1>1, StatementState
      <4> QED  BY <1>4, <4>1, <4>2
    <3>2. pool'["SysTables"] # None /\ pool'["SysColumns"] # None
      BY <1>2, <1>4, SysUnmarked
    <3> QED  BY <3>1, <3>2, FileNames
  <2>2. \A u \in Table : Known(u)' <=> u = t \/ Known(u)
    BY <1>1, <1>2 DEF Known, TypeInv
  <2>3. \A u \in Table : Known(u)' => pool'[TableFile(u)] # None
    <3> TAKE u \in Table
    <3>1. CASE u = t
      BY <1>2, <1>4, <2>2, <3>1, ViewOf, FileNames
    <3>2. CASE u # t
      BY <1>2, <1>4, <1>6, <2>2, <3>2, FileNames DEF OpenInv
    <3> QED  BY <3>1, <3>2
  <2>4. \A e \in indexes' : e[3] = "BTREE" => pool'[IndexFile(e[1])] # None
    <3>1. \A i \in Index : pool'[IndexFile(i)] = pool[IndexFile(i)]
      <4>1. \A i \in Index : IndexFile(i) \in File \ {"SysTables", "SysColumns"} /\ IndexFile(i) # TableFile(t)
        BY FileNames
      <4> QED  BY <1>4, <4>1
    <3> QED  BY <1>1, <3>1, StatementState
  <2>5. Described(pool["SysTables"], pool["SysColumns"], pool["SysIndexes"], pool["SysPlugins"],
                  pool["SysPluginIndexes"], tables, indexes, rankedMeta)'
    <3>1. Described(pool["SysTables"], pool["SysColumns"], pool["SysIndexes"], pool["SysPlugins"],
                    pool["SysPluginIndexes"], tables, indexes, rankedMeta)
      BY <1>2 DEF OpenInv
    <3>2. pool'["SysTables"] = {u \in Table : tables'[u] # None}
      BY <1>4, <2>2, <3>1 DEF Described, Known
    <3>3. pool'["SysColumns"] = {<<u, tables'[u]>> : u \in pool'["SysTables"]}
      <4>1. t \notin pool["SysTables"] /\ tables'[t] = type /\ \A u \in pool["SysTables"] : tables'[u] = tables[u]
        BY <1>1, <1>2, <3>1 DEF Described, Known, TypeInv
      <4>2. pool["SysColumns"] = {<<u, tables[u]>> : u \in pool["SysTables"]}
        BY <3>1 DEF Described
      <4> QED  BY <1>4, <4>1, <4>2
    <3>4. \A u \in Table : tables[u] # None => tables'[u] = tables[u]
      BY <1>1, <1>2 DEF Known, TypeInv
    <3>5. \A e \in indexes' : /\ tables'[e[2]] # None /\ (e[3] = "RTREE" => tables'[e[2]] = "point")
                              /\ \A d \in indexes' : d[1] = e[1] => d = e
      BY <1>1, <3>1, <3>4, StatementState DEF Described
    <3>6. \A r \in rankedMeta' : /\ tables'[r[2]] # None /\ tables'[r[2]] = "text"
                                 /\ (\E x \in pool'["SysPlugins"] : x[1] = r[3])
                                 /\ \A q \in rankedMeta' : q[1] = r[1] => q = r
      <4>1. \A r \in rankedMeta : r[2] \in Table
        BY <1>2 DEF TypeInv
      <4>2. \A r \in rankedMeta : /\ tables[r[2]] # None /\ tables[r[2]] = "text"
                                  /\ (\E x \in pool["SysPlugins"] : x[1] = r[3])
                                  /\ \A q \in rankedMeta : q[1] = r[1] => q = r
        BY <3>1 DEF Described
      <4>3. rankedMeta' = rankedMeta /\ pool'["SysPlugins"] = pool["SysPlugins"]
        BY <1>1, <2>1
      <4> QED  BY <3>4, <4>1, <4>2, <4>3
    <3>7. /\ pool'["SysIndexes"] = indexes' /\ pool'["SysPluginIndexes"] = rankedMeta'
          /\ \A x, y \in pool'["SysPlugins"] : x[1] = y[1] => x = y
      BY <1>1, <2>1, <3>1 DEF Described
    <3> QED  BY <3>2, <3>3, <3>5, <3>6, <3>7 DEF Described
  <2>6. /\ \A r \in rankedMeta' : r[1] \in ready'
        /\ \A x \in pool'["SysPlugins"] : config'[x[1]] = x[2]
    BY <1>1, <1>2, <2>1 DEF OpenInv
  <2>7. /\ \A i \in Index : i \in spoilt' \/ Filled(i, Bags[i], indexes, Rows)'
        /\ Spatial(spatial, indexes, Rows)'
    BY <1>1, <1>2, <1>6 DEF OpenInv, Filled, Spatial
  <2> QED  BY <2>1, <2>3, <2>4, <2>5, <2>6, <2>7 DEF OpenInv
<1>9. DiskInv'
  BY <1>1, <1>3, <1>7, DiskSame
<1> QED  BY <1>2, <1>7, <1>8, <1>9, OpenNext

\* A statement that changes the rows of a table, and its indexes with them.
LEMMA FilledAfter ==
  ASSUME CatalogInv, Altering, NEW t \in Table, UNCHANGED <<indexes, spoilt>>,
         \A u \in Table \ {t} : Rows'[u] = Rows[u],
         \A i \in Index \ BTreesOn(t) : Bags'[i] = Bags[i],
         \A i \in BTreesOn(t) : Bags[i] = SetToBag(RowsOf(Rows[t])) => Bags'[i] = SetToBag(RowsOf(Rows'[t]))
  PROVE  \A i \in Index : i \in spoilt' \/ Filled(i, Bags[i], indexes, Rows)'
<1> SUFFICES ASSUME NEW i \in Index, i \notin spoilt
             PROVE  Filled(i, Bags[i], indexes, Rows)'
  OBVIOUS
<1>1. Filled(i, Bags[i], indexes, Rows)
  BY StatementState DEF OpenInv
<1>2. \A d, e \in indexes : d[1] = e[1] => d = e
  BY StatementState DEF Described
<1>3. CASE i \in BTreesOn(t)
  <2>1. PICK e \in indexes : e[1] = i /\ e[2] = t /\ e[3] = "BTREE"
    BY <1>3 DEF BTreesOn
  <2>2. Bags'[i] = SetToBag(RowsOf(Rows'[t]))
    BY <1>1, <1>3, <2>1 DEF Filled
  <2> QED  BY <1>2, <2>1, <2>2 DEF Filled
<1>4. CASE i \notin BTreesOn(t)
  <2>1. \A e \in indexes : e[1] = i /\ e[3] = "BTREE" => e[2] \in Table \ {t}
    BY <1>4, StatementState DEF BTreesOn
  <2>2. Bags'[i] = Bags[i]
    BY <1>4
  <2> QED  BY <1>1, <2>1, <2>2 DEF Filled
<1> QED  BY <1>3, <1>4

\* Rows go into a table, or out of it: the files but that of the table and
\* those of its B+ trees are left alone.
LEMMA RowsStatement ==
  ASSUME CatalogInv, Altering, NEW t \in Table, Known(t),
         UNCHANGED <<mode, disk, tables, indexes, rankedMeta, ready, registered, config,
                     closedAs, dropped, early, crashed, spoilt>>,
         pool' = [f \in File |-> pool'[f]],
         pool'[TableFile(t)] \in HeapContents, Len(pool'[TableFile(t)]) <= MaxSlots,
         \A i \in BTreesOn(t) : pool'[IndexFile(i)] \in IndexContents,
         \A f \in File : f # TableFile(t) /\ (\A i \in BTreesOn(t) : f # IndexFile(i)) => pool'[f] = pool[f],
         \A i \in BTreesOn(t) : Bags[i] = SetToBag(RowsOf(Rows[t]))
            => pool'[IndexFile(i)] = SetToBag(RowsOf(pool'[TableFile(t)])),
         Rows' = [Rows EXCEPT ![t] = pool'[TableFile(t)]] => Spatial(spatial, indexes, Rows)'
  PROVE  CatalogInv'
<1>1. mode = "open" /\ mode' = "open" /\ TypeInv /\ OpenInv
  BY StatementState
<1>2. \A f \in File : OnDisk(f)' = OnDisk(f)
  BY DEF OnDisk
<1>3. BTreesOn(t) \subseteq Index /\ \A i \in BTreesOn(t) : pool[IndexFile(i)] # None
  BY StatementState DEF BTreesOn
<1>4. /\ pool'[TableFile(t)] \in Contents(TableFile(t))
      /\ \A i \in BTreesOn(t) : pool'[IndexFile(i)] \in Contents(IndexFile(i))
  BY <1>3, ContentsOf
<1>5. /\ pool'[TableFile(t)] # None
      /\ \A i \in BTreesOn(t) : pool'[IndexFile(i)] # None
  BY <1>3, <1>4, Unmarked, FileNames
<1>6. \A f \in File : pool'[f] = None \/ pool'[f] \in Contents(f)
  <2> TAKE f \in File
  <2>1. CASE f # TableFile(t) /\ \A i \in BTreesOn(t) : f # IndexFile(i)
    BY <1>1, <2>1 DEF TypeInv
  <2>2. CASE f = TableFile(t)
    BY <1>4, <2>2
  <2>3. CASE \E i \in BTreesOn(t) : f = IndexFile(i)
    BY <1>4, <2>3
  <2> QED  BY <2>1, <2>2, <2>3
<1>7. TypeInv'
  BY <1>1, <1>6 DEF TypeInv
<1>8. \A f \in SysFiles : pool'[f] = pool[f] /\ pool[f] # None
  <2>1. \A f \in SysFiles : f \in File /\ f # TableFile(t) /\ \A i \in BTreesOn(t) : f # IndexFile(i)
    BY <1>3, FileNames
  <2> QED  BY <2>1, StatementState
<1>9. \A u \in Table \ {t} : pool'[TableFile(u)] = pool[TableFile(u)] /\ Rows'[u] = Rows[u]
  <2> SUFFICES ASSUME NEW u \in Table \ {t}
               PROVE  pool'[TableFile(u)] = pool[TableFile(u)] /\ Rows'[u] = Rows[u]
    OBVIOUS
  <2>1. TableFile(u) \in File /\ TableFile(u) # TableFile(t) /\ \A i \in BTreesOn(t) : TableFile(u) # IndexFile(i)
    BY <1>3, FileNames
  <2>2. pool'[TableFile(u)] = pool[TableFile(u)]
    BY <2>1
  <2> QED  BY <1>2, <2>1, <2>2 DEF Rows, View
<1>10. Rows'[t] = pool'[TableFile(t)]
  BY <1>5 DEF Rows, View
<1>11. Rows' = [Rows EXCEPT ![t] = pool'[TableFile(t)]]
  <2>1. Rows' = [u \in Table |-> Rows'[u]] /\ Rows = [u \in Table |-> Rows[u]]
    BY DEF Rows
  <2> HIDE DEF Rows
  <2> QED  BY <1>9, <1>10, <2>1
<1>12. \A i \in Index \ BTreesOn(t) : pool'[IndexFile(i)] = pool[IndexFile(i)] /\ Bags'[i] = Bags[i]
  <2> SUFFICES ASSUME NEW i \in Index \ BTreesOn(t)
               PROVE  pool'[IndexFile(i)] = pool[IndexFile(i)] /\ Bags'[i] = Bags[i]
    OBVIOUS
  <2>1. IndexFile(i) \in File /\ IndexFile(i) # TableFile(t) /\ \A j \in BTreesOn(t) : IndexFile(i) # IndexFile(j)
    BY <1>3, FileNames
  <2>2. pool'[IndexFile(i)] = pool[IndexFile(i)]
    BY <2>1
  <2> QED  BY <1>2, <2>1, <2>2 DEF Bags, View
<1>13. \A i \in BTreesOn(t) : Bags'[i] = pool'[IndexFile(i)]
  BY <1>3, <1>5 DEF Bags, View
<1>14. \A i \in Index : i \in spoilt' \/ Filled(i, Bags[i], indexes, Rows)'
  BY <1>9, <1>10, <1>12, <1>13, FilledAfter
<1>15. OpenInv'
  <2>1. \A u \in Table : Known(u)' => pool'[TableFile(u)] # None
    <3> TAKE u \in Table
    <3>1. CASE u = t
      BY <1>5, <3>1 DEF Known
    <3>2. CASE u # t
      BY <1>1, <1>9, <3>2 DEF OpenInv, Known
    <3> QED  BY <3>1, <3>2
  <2>2. \A e \in indexes' : e[3] = "BTREE" => pool'[IndexFile(e[1])] # None
    <3> TAKE e \in indexes'
    <3>1. e[1] \in Index /\ (e[3] = "BTREE" => pool[IndexFile(e[1])] # None)
      BY StatementState
    <3> QED  BY <1>5, <1>12, <3>1
  <2>3. Described(pool["SysTables"], pool["SysColumns"], pool["SysIndexes"], pool["SysPlugins"],
                  pool["SysPluginIndexes"], tables, indexes, rankedMeta)'
    <3>1. /\ pool'["SysTables"] = pool["SysTables"] /\ pool'["SysColumns"] = pool["SysColumns"]
          /\ pool'["SysIndexes"] = pool["SysIndexes"] /\ pool'["SysPlugins"] = pool["SysPlugins"]
          /\ pool'["SysPluginIndexes"] = pool["SysPluginIndexes"]
      BY <1>8, FileNames
    <3> QED  BY <3>1, StatementState DEF Described
  <2>4. /\ \A r \in rankedMeta' : r[1] \in ready'
        /\ \A x \in pool'["SysPlugins"] : config'[x[1]] = x[2]
    BY <1>1, <1>8, FileNames DEF OpenInv
  <2> QED  BY <1>8, <1>11, <1>14, <2>1, <2>2, <2>3, <2>4 DEF OpenInv
<1>16. DiskInv'
  BY <1>2, <1>7, DiskSame
<1> QED  BY <1>1, <1>7, <1>15, <1>16, OpenNext

LEMMA InsertRowSound ==
  ASSUME CatalogInv, NEW t \in Table, NEW k \in Key \cup {Null}, InsertRow(t, k)
  PROVE  CatalogInv'
<1> DEFINE f == TableFile(t)
           s == Len(pool[f]) + 1
           q == Append(Rows[t], k)
<1>1. /\ Altering /\ Known(t) /\ s <= MaxSlots /\ (k = Null => BTreesOn(t) = {})
      /\ UNCHANGED <<mode, disk, tables, indexes, rankedMeta, ready, registered, config,
                     closedAs, dropped, early, crashed, spoilt>>
      /\ spatial' = spatial \cup {<<e[1], t, k, s>> : e \in {x \in indexes : x[2] = t /\ x[3] = "RTREE" /\ k # Null}}
  BY DEF InsertRow, history
<1>2. pool' = [g \in File |->
                CASE g = f -> Append(pool[f], k)
                  [] \E i \in BTreesOn(t) : g = IndexFile(i) -> Added(pool[g], {<<k, s>>})
                  [] OTHER -> pool[g]]
  BY DEF InsertRow
<1>3. /\ TypeInv /\ OpenInv /\ pool[f] = Rows[t] /\ f \in File
      /\ BTreesOn(t) \subseteq Index /\ \A i \in BTreesOn(t) : pool[IndexFile(i)] # None
  BY <1>1, StatementState, FileNames DEF BTreesOn
<1>4. /\ Rows[t] \in Seq(Key \cup {Null, Gone}) /\ q \in Seq(Key \cup {Null, Gone})
      /\ Len(Rows[t]) \in Nat /\ s = Len(Rows[t]) + 1 /\ Len(q) = s /\ s \in 1 .. MaxSlots
      /\ DOMAIN Rows[t] = 1 .. Len(Rows[t]) /\ DOMAIN q = 1 .. s
      /\ q[s] = k /\ \A n \in DOMAIN Rows[t] : q[n] = Rows[t][n]
  <2>1. PICK r \in Seq(Key \cup {Null, Gone}) : r = Rows[t]
    BY <1>3, RowsType
  <2>2. /\ Append(r, k) \in Seq(Key \cup {Null, Gone}) /\ Len(Append(r, k)) = Len(r) + 1
        /\ \A n \in 1 .. Len(r) : Append(r, k)[n] = r[n]
        /\ Append(r, k)[Len(r) + 1] = k
    BY AppendProperties
  <2>3. Len(r) \in Nat /\ DOMAIN r = 1 .. Len(r) /\ DOMAIN Append(r, k) = 1 .. Len(r) + 1
    BY <2>2, LenProperties
  <2>4. Len(r) + 1 <= MaxSlots /\ MaxSlots \in Nat
    BY <1>1, <1>3, <2>1, ConstantsAssumption
  <2> QED  BY <1>3, <2>1, <2>2, <2>3, <2>4
<1>5. pool'[f] = q /\ pool' = [g \in File |-> pool'[g]]
  <2>1. pool'[f] = Append(pool[f], k)
    <3>1. \A i \in BTreesOn(t) : f # IndexFile(i)
      BY <1>3, FileNames
    <3> HIDE DEF f, s
    <3> QED  BY <1>2, <1>3, <3>1
  <2>2. pool' = [g \in File |-> pool'[g]]
    <3> HIDE DEF f, s
    <3> QED  BY <1>2
  <2> QED  BY <1>3, <2>1, <2>2
<1>6. \A i \in BTreesOn(t) : pool'[IndexFile(i)] = Added(Bags[i], {<<k, s>>})
  <2> SUFFICES ASSUME NEW i \in BTreesOn(t)  PROVE pool'[IndexFile(i)] = Added(Bags[i], {<<k, s>>})
    OBVIOUS
  <2>1. IndexFile(i) \in File /\ IndexFile(i) # f /\ Bags[i] = pool[IndexFile(i)]
    BY <1>3, FileNames DEF Bags, View
  <2> HIDE DEF f, s
  <2> QED  BY <1>2, <2>1
<1>7. \A g \in File : g # f /\ (\A i \in BTreesOn(t) : g # IndexFile(i)) => pool'[g] = pool[g]
  BY <1>2
<1>8. RowsOf(q) = RowsOf(Rows[t]) \cup {<<k, s>>} /\ RowsOf(Rows[t]) \cap {<<k, s>>} = {}
  <2>1. k # Gone
    BY MarksAssumption
  <2>2. \A n \in DOMAIN q : n \in DOMAIN Rows[t] \/ n = s
    BY <1>4
  <2>3. s \notin DOMAIN Rows[t] /\ DOMAIN Rows[t] \subseteq DOMAIN q /\ s \in DOMAIN q
    BY <1>4
  <2> HIDE DEF q, s, f
  <2> QED  BY <1>4, <2>1, <2>2, <2>3 DEF RowsOf
<1>9. /\ Added(SetToBag(RowsOf(Rows[t])), {<<k, s>>}) = SetToBag(RowsOf(q))
      /\ {<<k, s>>} \in SUBSET Entry
  <2>1. {<<k, s>>} \in SUBSET Entry
    BY <1>4 DEF Entry
  <2>2. RowsOf(Rows[t]) \in SUBSET Entry
    BY <1>3, RowsType, RowsOfType
  <2> HIDE DEF q, s, f
  <2> QED  BY <1>8, <2>1, <2>2, AddedTo
<1>10. \A i \in BTreesOn(t) : pool'[IndexFile(i)] \in IndexContents
  <2>1. \A i \in BTreesOn(t) : Bags[i] \in IndexContents
    BY <1>3, ViewOf, FileNames, ContentsOf DEF Bags
  <2> QED  BY <1>6, <1>9, <2>1, AddedType
<1>11. ASSUME Rows' = [Rows EXCEPT ![t] = q]
       PROVE  Spatial(spatial, indexes, Rows)'
  <2>1. Spatial(spatial, indexes, Rows)
    BY <1>3 DEF OpenInv
  <2>2. Rows'[t] = q /\ \A u \in Table \ {t} : Rows'[u] = Rows[u]
    <3>1. Rows = [u \in Table |-> Rows[u]]
      BY DEF Rows
    <3> HIDE DEF Rows, q
    <3> QED  BY <1>11, <3>1
  <2>3. \A x : x \in spatial' <=> x \in spatial \/ \E e \in indexes : e[2] = t /\ e[3] = "RTREE" /\ k # Null
                                                                    /\ x = <<e[1], t, k, s>>
    BY <1>1
  <2>4. \A e \in indexes : e = <<e[1], e[2], e[3]>> /\ e[1] \in Index
    BY <1>1, StatementState
  <2>5. spatial' \subseteq Index \X Table \X Key \X (1 .. MaxSlots)
    <3>1. spatial \subseteq Index \X Table \X Key \X (1 .. MaxSlots)
      BY <2>1 DEF Spatial
    <3>2. k # Null => k \in Key
      OBVIOUS
    <3>3. s \in 1 .. MaxSlots
      BY <1>4
    <3> HIDE DEF s, f, q
    <3> QED  BY <2>3, <2>4, <3>1, <3>2, <3>3
  <2>6. ASSUME NEW i \in Index, NEW u \in Table, NEW x \in Key, NEW n \in 1 .. MaxSlots
        PROVE  <<i, u, x, n>> \in spatial' <=> <<i, u, "RTREE">> \in indexes /\ n \in DOMAIN Rows'[u] /\ Rows'[u][n] = x
    <3>1. <<i, u, x, n>> \in spatial <=> <<i, u, "RTREE">> \in indexes /\ n \in DOMAIN Rows[u] /\ Rows[u][n] = x
      BY <2>1 DEF Spatial
    <3>2. <<i, u, x, n>> \in spatial' <=>
             <<i, u, x, n>> \in spatial \/ (<<i, t, "RTREE">> \in indexes /\ u = t /\ x = k /\ n = s)
      <4>1. x # Null
        BY ConstantsAssumption
      <4> HIDE DEF s, f, q
      <4> QED  BY <2>3, <2>4, <4>1
    <3>3. CASE u # t
      BY <2>2, <3>1, <3>2, <3>3
    <3>4. CASE u = t
      <4>1. n \in DOMAIN q /\ q[n] = x <=> (n \in DOMAIN Rows[t] /\ Rows[t][n] = x) \/ (n = s /\ x = k)
        <5>1. n \in DOMAIN q <=> n \in DOMAIN Rows[t] \/ n = s
          BY <1>4
        <5>2. s \notin DOMAIN Rows[t]
          BY <1>4
        <5> HIDE DEF s, f, q
        <5> QED  BY <1>4, <5>1, <5>2
      <4> HIDE DEF s, f, q
      <4> QED  BY <2>2, <3>1, <3>2, <3>4, <4>1
    <3> QED  BY <3>3, <3>4
  <2> QED  BY <1>1, <2>5, <2>6 DEF Spatial
<1>12. q \in HeapContents /\ Len(q) <= MaxSlots
  BY <1>1, <1>3, <1>4 DEF HeapContents
<1> HIDE DEF s, q
<1> QED  BY <1>1, <1>5, <1>6, <1>7, <1>9, <1>10, <1>11, <1>12, RowsStatement

LEMMA DeleteRowSound ==
  ASSUME CatalogInv, NEW t \in Table, NEW s \in 1 .. MaxSlots, DeleteRow(t, s)
  PROVE  CatalogInv'
<1> DEFINE f == TableFile(t)
           q == [Rows[t] EXCEPT ![s] = Gone]
           x == <<Rows[t][s], s>>
<1>1. /\ Altering /\ Known(t) /\ s \in DOMAIN pool[f] /\ pool[f][s] # Gone
      /\ UNCHANGED <<mode, disk, tables, indexes, rankedMeta, ready, registered, config,
                     closedAs, dropped, early, crashed, spoilt>>
      /\ spatial' = {e \in spatial : ~(e[2] = t /\ e[4] = s)}
  BY DEF DeleteRow, history
<1>2. pool' = [g \in File |->
                CASE g = f -> [pool[f] EXCEPT ![s] = Gone]
                  [] \E i \in BTreesOn(t) : g = IndexFile(i) -> Removed(pool[g], <<pool[f][s], s>>)
                  [] OTHER -> pool[g]]
  BY DEF DeleteRow
<1>3. /\ TypeInv /\ OpenInv /\ pool[f] = Rows[t] /\ f \in File
      /\ BTreesOn(t) \subseteq Index /\ \A i \in BTreesOn(t) : pool[IndexFile(i)] # None
  BY <1>1, StatementState, FileNames DEF BTreesOn
<1>4. /\ q \in Seq(Key \cup {Null, Gone}) /\ Len(q) <= MaxSlots
      /\ DOMAIN q = DOMAIN Rows[t] /\ s \in DOMAIN Rows[t] /\ Rows[t][s] # Gone
      /\ q[s] = Gone /\ \A n \in DOMAIN Rows[t] : n # s => q[n] = Rows[t][n]
  <2>1. PICK r \in Seq(Key \cup {Null, Gone}) : r = Rows[t] /\ Len(r) <= MaxSlots
    BY <1>3, RowsType
  <2>2. Len(r) \in Nat /\ r \in [1 .. Len(r) -> Key \cup {Null, Gone}] /\ DOMAIN r = 1 .. Len(r)
    BY LenProperties
  <2>3. [r EXCEPT ![s] = Gone] \in Seq(Key \cup {Null, Gone}) /\ Len([r EXCEPT ![s] = Gone]) = Len(r)
    BY <1>1, <1>3, <2>1, <2>2, ExceptSeq
  <2> QED  BY <1>1, <1>3, <2>1, <2>2, <2>3
<1>5. pool'[f] = q /\ pool' = [g \in File |-> pool'[g]]
  <2>1. pool'[f] = [pool[f] EXCEPT ![s] = Gone]
    <3>1. \A i \in BTreesOn(t) : f # IndexFile(i)
      BY <1>3, FileNames
    <3> HIDE DEF f
    <3> QED  BY <1>2, <1>3, <3>1
  <2>2. pool' = [g \in File |-> pool'[g]]
    <3> HIDE DEF f
    <3> QED  BY <1>2
  <2> QED  BY <1>3, <2>1, <2>2
<1>6. \A i \in BTreesOn(t) : pool'[IndexFile(i)] = Removed(Bags[i], x)
  <2> SUFFICES ASSUME NEW i \in BTreesOn(t)  PROVE pool'[IndexFile(i)] = Removed(Bags[i], x)
    OBVIOUS
  <2>1. IndexFile(i) \in File /\ IndexFile(i) # f /\ Bags[i] = pool[IndexFile(i)]
    BY <1>3, FileNames DEF Bags, View
  <2>2. x = <<pool[f][s], s>>
    BY <1>3
  <2> HIDE DEF f, x
  <2> QED  BY <1>2, <2>1, <2>2
<1>7. \A g \in File : g # f /\ (\A i \in BTreesOn(t) : g # IndexFile(i)) => pool'[g] = pool[g]
  BY <1>2
<1>8. RowsOf(q) = RowsOf(Rows[t]) \ {x}
  <2> HIDE DEF q, f
  <2> QED  BY <1>4 DEF RowsOf
<1>9. Removed(SetToBag(RowsOf(Rows[t])), x) = SetToBag(RowsOf(q))
  <2>1. RowsOf(Rows[t]) \in SUBSET Entry
    BY <1>3, RowsType, RowsOfType
  <2> HIDE DEF q, x
  <2> QED  BY <1>8, <2>1, RemovedFrom
<1>10. \A i \in BTreesOn(t) : pool'[IndexFile(i)] \in IndexContents
  <2> SUFFICES ASSUME NEW i \in BTreesOn(t)  PROVE pool'[IndexFile(i)] \in IndexContents
    OBVIOUS
  <2>1. Bags[i] \in IndexContents
    BY <1>3, ViewOf, FileNames, ContentsOf DEF Bags
  <2> HIDE DEF x
  <2> QED  BY <1>6, <2>1, RemovedType
<1>11. ASSUME Rows' = [Rows EXCEPT ![t] = q]
       PROVE  Spatial(spatial, indexes, Rows)'
  <2>1. Spatial(spatial, indexes, Rows)
    BY <1>3 DEF OpenInv
  <2>2. Rows'[t] = q /\ \A u \in Table \ {t} : Rows'[u] = Rows[u]
    <3>1. Rows = [u \in Table |-> Rows[u]]
      BY DEF Rows
    <3> HIDE DEF Rows, q
    <3> QED  BY <1>11, <3>1
  <2>3. spatial' \subseteq Index \X Table \X Key \X (1 .. MaxSlots)
    BY <1>1, <2>1 DEF Spatial
  <2>4. ASSUME NEW i \in Index, NEW u \in Table, NEW y \in Key, NEW n \in 1 .. MaxSlots
        PROVE  <<i, u, y, n>> \in spatial' <=> <<i, u, "RTREE">> \in indexes /\ n \in DOMAIN Rows'[u] /\ Rows'[u][n] = y
    <3>1. <<i, u, y, n>> \in spatial <=> <<i, u, "RTREE">> \in indexes /\ n \in DOMAIN Rows[u] /\ Rows[u][n] = y
      BY <2>1 DEF Spatial
    <3>2. <<i, u, y, n>> \in spatial' <=> <<i, u, y, n>> \in spatial /\ ~ (u = t /\ n = s)
      BY <1>1
    <3>3. y # Gone
      BY MarksAssumption
    <3>4. CASE u # t
      BY <2>2, <3>1, <3>2, <3>4
    <3>5. CASE u = t
      <4> HIDE DEF q, f, x
      <4> QED  BY <1>4, <2>2, <3>1, <3>2, <3>3, <3>5
    <3> QED  BY <3>4, <3>5
  <2> QED  BY <1>1, <2>3, <2>4 DEF Spatial
<1>12. q \in HeapContents /\ Len(q) <= MaxSlots
  BY <1>4 DEF HeapContents
<1>13. ASSUME NEW i \in BTreesOn(t), Bags[i] = SetToBag(RowsOf(Rows[t]))
       PROVE  pool'[IndexFile(i)] = SetToBag(RowsOf(q))
  <2> HIDE DEF q, x
  <2> QED  BY <1>6, <1>9, <1>13
<1> HIDE DEF q, x
<1> QED  BY <1>1, <1>5, <1>7, <1>10, <1>11, <1>12, <1>13, RowsStatement

LEMMA DropTableSound ==
  ASSUME CatalogInv, NEW t \in Table, DropTable(t)
  PROVE  CatalogInv'
<1> DEFINE ours   == {e \in indexes : e[2] = t}
           ranked == {r \in rankedMeta : r[2] = t}
           names  == {e[1] : e \in ours}
           fs     == {IndexFile(i) : i \in names} \cup {TableFile(t)}
           others == [pool EXCEPT !["SysTables"] = @ \ {t},
                                  !["SysColumns"] = {c \in @ : c[1] # t},
                                  !["SysIndexes"] = {e \in @ : e[1] \notin names},
                                  !["SysPluginIndexes"] = {r \in @ : r[1] \notin {x[1] : x \in ranked}}]
<1>1. /\ Altering /\ Known(t)
      /\ rankedMeta' = rankedMeta \ ranked /\ ready' = ready \ {r[1] : r \in ranked}
      /\ indexes' = indexes \ ours /\ spatial' = {e \in spatial : e[2] # t}
      /\ tables' = [tables EXCEPT ![t] = None]
      /\ DropFiles(fs, others)
      /\ spoilt' = {i \in spoilt : i \notin names \/ pool[IndexFile(i)] = None}
      /\ UNCHANGED <<mode, registered, config, closedAs, crashed>>
  BY DEF DropTable
<1> HIDE DEF fs, others
<1>2. /\ mode = "open" /\ mode' = "open" /\ TypeInv /\ OpenInv
      /\ pool["SysTables"] \in SUBSET Table /\ pool["SysColumns"] \in SUBSET (Table \X Type)
      /\ pool["SysIndexes"] \in SUBSET (Index \X Table \X {"BTREE", "RTREE"})
      /\ pool["SysPluginIndexes"] \in SUBSET (Index \X Table \X Plugin)
  BY <1>1, StatementState
<1>3. Described(pool["SysTables"], pool["SysColumns"], pool["SysIndexes"], pool["SysPlugins"],
                pool["SysPluginIndexes"], tables, indexes, rankedMeta)
  BY <1>1, StatementState
<1>4. names \subseteq Index /\ fs \in SUBSET (HeapFiles \cup IndexFiles)
  BY <1>1, StatementState, FileNames DEF fs
<1>5. /\ others["SysTables"] = pool["SysTables"] \ {t}
      /\ others["SysColumns"] = {c \in pool["SysColumns"] : c[1] # t}
      /\ others["SysIndexes"] = {e \in pool["SysIndexes"] : e[1] \notin names}
      /\ others["SysPlugins"] = pool["SysPlugins"]
      /\ others["SysPluginIndexes"] = {r \in pool["SysPluginIndexes"] : r[1] \notin {x[1] : x \in ranked}}
      /\ \A f \in File \ SysFiles : others[f] = pool[f]
  <2> HIDE DEF names, ranked
  <2> QED  BY <1>2, FileNames, SysNames DEF others, TypeInv, SysFiles
<1>6. \A f \in File : others[f] = None \/ others[f] \in Contents(f)
  <2>1. /\ others["SysTables"] \in Contents("SysTables") /\ others["SysColumns"] \in Contents("SysColumns")
        /\ others["SysIndexes"] \in Contents("SysIndexes")
        /\ others["SysPlugins"] = None \/ others["SysPlugins"] \in Contents("SysPlugins")
        /\ others["SysPluginIndexes"] \in Contents("SysPluginIndexes")
    <3> HIDE DEF names, ranked
    <3> QED  BY <1>2, <1>5, ContentsOf, SysNames DEF TypeInv
  <2> QED  BY <1>2, <1>5, <2>1, FileNames DEF TypeInv
<1>7. /\ dropped' \subseteq HeapFiles \cup IndexFiles /\ early' \subseteq File
      /\ pool' = [f \in File |-> pool'[f]]
      /\ \A f \in File : pool'[f] = None \/ pool'[f] \in Contents(f)
      /\ disk' = [f \in File |-> disk'[f]]
      /\ \A f \in File : disk'[f] \in {Missing, Zeros} \/ disk'[f] \in Contents(f)
      /\ \A f \in File : pool'[f] = IF f \in fs THEN None ELSE others[f]
      /\ \A f \in fs : f \in File /\ (pool[f] # None => f \in dropped' /\ View(f)' = EmptyFile(f))
                       /\ (pool[f] = None => View(f)' = View(f))
      /\ \A f \in File \ fs : disk'[f] = disk[f] /\ OnDisk(f)' = OnDisk(f)
  <2>1. Altering /\ DropFiles(fs, others)
    BY <1>1
  <2> QED  BY <1>4, <1>6, <2>1, FilesDropped
<1>8. /\ TableFile(t) \in fs /\ \A u \in Table \ {t} : TableFile(u) \notin fs
      /\ \A i \in Index : IndexFile(i) \in fs <=> i \in names
      /\ SysFiles \cap fs = {}
  BY <1>4, FileNames DEF fs
<1>9. /\ pool'["SysTables"] = pool["SysTables"] \ {t}
      /\ pool'["SysColumns"] = {c \in pool["SysColumns"] : c[1] # t}
      /\ pool'["SysIndexes"] = {e \in pool["SysIndexes"] : e[1] \notin names}
      /\ pool'["SysPlugins"] = pool["SysPlugins"]
      /\ pool'["SysPluginIndexes"] = {r \in pool["SysPluginIndexes"] : r[1] \notin {x[1] : x \in ranked}}
  <2> HIDE DEF names, ranked
  <2> QED  BY <1>5, <1>7, <1>8, SysNames, FileNames
<1>10. /\ \A u \in Table \ {t} : pool'[TableFile(u)] = pool[TableFile(u)] /\ Rows'[u] = Rows[u]
       /\ Rows'[t] = <<>>
  <2>1. ASSUME NEW u \in Table \ {t}
        PROVE  pool'[TableFile(u)] = pool[TableFile(u)] /\ Rows'[u] = Rows[u]
    <3>1. TableFile(u) \in File \ fs /\ TableFile(u) \notin SysFiles
      BY <1>8, FileNames
    <3>2. pool'[TableFile(u)] = pool[TableFile(u)] /\ OnDisk(TableFile(u))' = OnDisk(TableFile(u))
      BY <1>5, <1>7, <3>1
    <3> QED  BY <3>2 DEF Rows, View
  <2>2. pool[TableFile(t)] # None
    BY <1>1, <1>2 DEF OpenInv
  <2> QED  BY <1>7, <1>8, <2>1, <2>2, EmptyContents DEF Rows
<1>11. ASSUME NEW i \in Index
       PROVE  /\ i \notin names => pool'[IndexFile(i)] = pool[IndexFile(i)] /\ Bags'[i] = Bags[i]
              /\ i \in names => Bags'[i] = EmptyBag \/ (pool[IndexFile(i)] = None /\ Bags'[i] = Bags[i])
              /\ i \in names /\ pool[IndexFile(i)] # None => IndexFile(i) \in dropped'
  <2>1. CASE i \notin names
    <3>1. IndexFile(i) \in File \ fs /\ IndexFile(i) \notin SysFiles
      BY <1>8, <2>1, FileNames
    <3>2. pool'[IndexFile(i)] = pool[IndexFile(i)] /\ OnDisk(IndexFile(i))' = OnDisk(IndexFile(i))
      BY <1>5, <1>7, <3>1
    <3> QED  BY <2>1, <3>2 DEF Bags, View
  <2>2. CASE i \in names
    <3> HIDE DEF names
    <3> QED  BY <1>7, <1>8, <2>2, EmptyContents DEF Bags
  <2> QED  BY <2>1, <2>2
<1>12. \A e \in indexes : /\ e[1] \in Index /\ e[2] \in Table /\ e = <<e[1], e[2], e[3]>>
                          /\ e[1] \in names <=> e[2] = t
                          /\ e \in indexes' <=> e[2] # t
  <2> TAKE e \in indexes
  <2>1. e[1] \in Index /\ e[2] \in Table /\ e = <<e[1], e[2], e[3]>>
    BY <1>1, StatementState
  <2>2. e[1] \in names => e[2] = t
    BY <1>3 DEF Described
  <2> QED  BY <1>1, <2>1, <2>2
<1>13. TypeInv'
  <2>1. tables' \in [Table -> Type \cup {"none", None}] /\ spoilt' \subseteq Index
        /\ indexes' \in SUBSET (Index \X Table \X {"BTREE", "RTREE"})
        /\ rankedMeta' \in SUBSET (Index \X Table \X Plugin)
    BY <1>1, <1>2 DEF TypeInv
  <2> QED  BY <1>1, <1>2, <1>7, <2>1 DEF TypeInv
<1>14. Described(pool["SysTables"], pool["SysColumns"], pool["SysIndexes"], pool["SysPlugins"],
                 pool["SysPluginIndexes"], tables, indexes, rankedMeta)'
  <2>1. tables'[t] = None /\ \A u \in Table \ {t} : tables'[u] = tables[u]
    BY <1>1, <1>2 DEF TypeInv
  <2>2. pool'["SysTables"] = {u \in Table : tables'[u] # None}
    BY <1>3, <1>9, <2>1 DEF Described
  <2>3. pool'["SysColumns"] = {<<u, tables'[u]>> : u \in pool'["SysTables"]}
    <3>1. pool["SysColumns"] = {<<u, tables[u]>> : u \in pool["SysTables"]}
      BY <1>3 DEF Described
    <3>2. \A u \in pool["SysTables"] : u # t => tables'[u] = tables[u]
      BY <1>2, <2>1
    <3> QED  BY <1>9, <3>1, <3>2
  <2>4. pool'["SysIndexes"] = indexes' /\ indexes' \subseteq indexes
    BY <1>1, <1>3, <1>9, <1>12 DEF Described
  <2>5. pool'["SysPluginIndexes"] = rankedMeta' /\ rankedMeta' \subseteq rankedMeta
        /\ \A r \in rankedMeta' : r[2] \in Table \ {t}
    <3>1. \A r \in rankedMeta : r[1] \in {x[1] : x \in ranked} => r \in ranked
      BY <1>3 DEF Described
    <3>2. \A r \in rankedMeta : r[2] \in Table
      BY <1>2 DEF TypeInv
    <3> QED  BY <1>1, <1>3, <1>9, <3>1, <3>2 DEF Described
  <2>6. \A e \in indexes' : /\ tables'[e[2]] # None /\ (e[3] = "RTREE" => tables'[e[2]] = "point")
                            /\ \A d \in indexes' : d[1] = e[1] => d = e
    <3>1. \A e \in indexes' : e \in indexes /\ e[2] \in Table \ {t}
      BY <1>12, <2>4
    <3> QED  BY <1>3, <2>1, <3>1 DEF Described
  <2>7. \A r \in rankedMeta' : /\ tables'[r[2]] # None /\ tables'[r[2]] = "text"
                               /\ (\E x \in pool'["SysPlugins"] : x[1] = r[3])
                               /\ \A q \in rankedMeta' : q[1] = r[1] => q = r
    BY <1>3, <1>9, <2>1, <2>5 DEF Described
  <2>8. \A x, y \in pool'["SysPlugins"] : x[1] = y[1] => x = y
    BY <1>3, <1>9 DEF Described
  <2> QED  BY <2>2, <2>3, <2>4, <2>5, <2>6, <2>7, <2>8 DEF Described
<1>15. \A i \in Index : i \in spoilt' \/ Filled(i, Bags[i], indexes, Rows)'
  <2> SUFFICES ASSUME NEW i \in Index, i \notin spoilt'
               PROVE  Filled(i, Bags[i], indexes, Rows)'
    OBVIOUS
  <2>1. \A e \in indexes' : e \in indexes /\ e[2] \in Table \ {t} /\ Rows'[e[2]] = Rows[e[2]]
    BY <1>1, <1>10, <1>12
  <2>2. CASE i \notin names
    <3>1. Filled(i, Bags[i], indexes, Rows)
      BY <1>1, <1>2, <2>2 DEF OpenInv
    <3>2. \A e \in indexes : e[1] = i => e \in indexes'
      BY <1>12, <2>2
    <3>3. Bags'[i] = Bags[i]
      BY <1>11, <2>2
    <3> HIDE DEF names
    <3> QED  BY <2>1, <3>1, <3>2, <3>3 DEF Filled
  <2>3. CASE i \in names
    <3>1. \A e \in indexes' : e[1] # i
      BY <1>12, <2>1, <2>3
    <3>2. Bags'[i] = EmptyBag
      <4>1. CASE pool[IndexFile(i)] = None
        <5>1. i \notin spoilt /\ (Bags'[i] = EmptyBag \/ Bags'[i] = Bags[i])
          BY <1>1, <1>11, <2>3, <4>1
        <5>2. Filled(i, Bags[i], indexes, Rows)
          BY <1>2, <5>1 DEF OpenInv
        <5>3. \A e \in indexes : ~ (e[1] = i /\ e[3] = "BTREE")
          BY <1>1, <4>1, StatementState
        <5> HIDE DEF names
        <5> QED  BY <5>1, <5>2, <5>3 DEF Filled
      <4>2. CASE pool[IndexFile(i)] # None
        BY <1>11, <2>3, <4>2
      <4> QED  BY <4>1, <4>2
    <3> HIDE DEF names
    <3> QED  BY <3>1, <3>2 DEF Filled
  <2> QED  BY <2>2, <2>3
<1>16. Spatial(spatial, indexes, Rows)'
  <2>1. Spatial(spatial, indexes, Rows)
    BY <1>2 DEF OpenInv
  <2>2. spatial' \subseteq Index \X Table \X Key \X (1 .. MaxSlots)
    BY <1>1, <2>1 DEF Spatial
  <2>3. ASSUME NEW i \in Index, NEW u \in Table, NEW k \in Key, NEW s \in 1 .. MaxSlots
        PROVE  <<i, u, k, s>> \in spatial' <=> <<i, u, "RTREE">> \in indexes' /\ s \in DOMAIN Rows'[u] /\ Rows'[u][s] = k
    <3>1. <<i, u, k, s>> \in spatial <=> <<i, u, "RTREE">> \in indexes /\ s \in DOMAIN Rows[u] /\ Rows[u][s] = k
      BY <2>1 DEF Spatial
    <3>2. <<i, u, k, s>> \in spatial' <=> <<i, u, k, s>> \in spatial /\ u # t
      BY <1>1
    <3>3. <<i, u, "RTREE">> \in indexes' <=> <<i, u, "RTREE">> \in indexes /\ u # t
      BY <1>1
    <3>4. u # t => Rows'[u] = Rows[u]
      BY <1>10
    <3> HIDE DEF ours, names
    <3> QED  BY <3>1, <3>2, <3>3, <3>4
  <2> QED  BY <2>2, <2>3 DEF Spatial
<1>17. OpenInv'
  <2>1. \A f \in SysFiles : pool'[f] # None
    <3>1. /\ \A f \in SysFiles : pool[f] # None
          /\ pool'["SysTables"] \in SUBSET Table /\ pool'["SysColumns"] \in SUBSET (Table \X Type)
          /\ pool'["SysIndexes"] \in SUBSET (Index \X Table \X {"BTREE", "RTREE"})
          /\ pool'["SysPluginIndexes"] \in SUBSET (Index \X Table \X Plugin)
      BY <1>1, <1>2, <1>9, StatementState
    <3> HIDE DEF names, ranked
    <3> QED  BY <1>9, <3>1, SysUnmarked, FileNames
  <2>2. \A u \in Table : Known(u)' => pool'[TableFile(u)] # None
    <3> TAKE u \in Table
    <3>1. CASE u = t
      BY <1>1, <1>2, <1>10, <3>1 DEF Known, TypeInv
    <3>2. CASE u # t
      BY <1>1, <1>2, <1>10, <3>2 DEF Known, TypeInv, OpenInv
    <3> QED  BY <3>1, <3>2
  <2>3. \A e \in indexes' : e[3] = "BTREE" => pool'[IndexFile(e[1])] # None
    BY <1>1, <1>11, <1>12, StatementState
  <2>4. \A r \in rankedMeta' : r[1] \in ready'
    BY <1>1, <1>2, <1>3 DEF OpenInv, Described
  <2>5. \A x \in pool'["SysPlugins"] : config'[x[1]] = x[2]
    BY <1>1, <1>2, <1>9 DEF OpenInv
  <2> QED  BY <1>14, <1>15, <1>16, <2>1, <2>2, <2>3, <2>4, <2>5 DEF OpenInv
<1>18. DiskInv'
  <2>1. \A i \in spoilt : i \in spoilt' \/ IndexFile(i) \in dropped'
    <3>1. spoilt \subseteq Index
      BY <1>2 DEF TypeInv
    <3> HIDE DEF names
    <3> QED  BY <1>1, <1>11, <3>1
  <2>2. \A e \in indexes : e[3] = "BTREE" => e \in indexes' \/ IndexFile(e[1]) \in dropped'
    BY <1>1, <1>11, <1>12, StatementState
  <2>3. \A u \in Table : TableFile(u) \in dropped' =>
          \/ TableFile(u) \in dropped
          \/ \A e \in indexes : e[2] = u /\ e[3] = "BTREE" => IndexFile(e[1]) \in dropped'
    <3> TAKE u \in Table
    <3>1. CASE u = t
      BY <1>1, <1>11, <1>12, <3>1, StatementState
    <3>2. CASE u # t
      BY <1>1, <1>8, <3>2 DEF DropFiles
    <3> QED  BY <3>1, <3>2
  <2>4. \A g \in File :
          \/ g \in dropped' /\ g \notin early' /\ OnDisk(g)' = EmptyFile(g)
          \/ /\ OnDisk(g)' = OnDisk(g)
             /\ (g \in dropped' <=> g \in dropped) /\ (g \in early' <=> g \in early)
             /\ disk'[g] \in {Missing, Zeros} => disk[g] \in {Missing, Zeros}
    BY <1>1, FilesDeleted
  <2> HIDE DEF names, ours, ranked
  <2> QED  BY <1>1, <1>13, <2>1, <2>2, <2>3, <2>4, DiskKept
<1> QED  BY <1>2, <1>13, <1>17, <1>18, OpenNext

-----------------------------------------------------------------------------
\* Indexes.

\* A new index is of no name in use, and of a table that is there.
LEMMA MayIndexState ==
  ASSUME CatalogInv, NEW i \in Index, NEW t \in Table, NEW kind, MayIndex(i, t, kind)
  PROVE  /\ Altering /\ Known(t) /\ pool[TableFile(t)] = Rows[t]
         /\ \A e \in indexes : e[1] # i
         /\ kind = "RTREE" => tables[t] = "point"
         /\ i \in spoilt \/ Bags[i] = EmptyBag
<1>1. Altering /\ Known(t) /\ (kind = "RTREE" => tables[t] = "point")
  BY DEF MayIndex
<1>2. \A e \in indexes : e[1] # i
  BY DEF MayIndex, IndexNames
<1>3. i \in spoilt \/ Filled(i, Bags[i], indexes, Rows)
  BY <1>1, StatementState DEF OpenInv
<1> QED  BY <1>1, <1>2, <1>3, StatementState DEF Filled

\* A row of a new index in memory and in the system table.
LEMMA DescribedIndex ==
  ASSUME NEW tabs, NEW cols, NEW idx, NEW plug, NEW rank, NEW tb, NEW ix, NEW rk,
         Described(tabs, cols, idx, plug, rank, tb, ix, rk),
         NEW i, NEW t, NEW kind, tb[t] # None, kind = "RTREE" => tb[t] = "point", \A e \in ix : e[1] # i
  PROVE  Described(tabs, cols, idx \cup {<<i, t, kind>>}, plug, rank, tb, ix \cup {<<i, t, kind>>}, rk)
BY DEF Described

LEMMA CreateSpatialIndexSound ==
  ASSUME CatalogInv, NEW i \in Index, NEW t \in Table, CreateSpatialIndex(i, t)
  PROVE  CatalogInv'
<1> DEFINE new == <<i, t, "RTREE">>
<1>1. /\ Altering /\ Known(t) /\ pool[TableFile(t)] = Rows[t] /\ tables[t] = "point"
      /\ \A e \in indexes : e[1] # i
      /\ i \in spoilt \/ Bags[i] = EmptyBag
      /\ spatial' = spatial \cup {<<i, t, r[1], r[2]>> : r \in Located(Rows[t])}
      /\ indexes' = indexes \cup {new}
      /\ pool' = [pool EXCEPT !["SysIndexes"] = @ \cup {new}]
      /\ UNCHANGED <<mode, disk, tables, rankedMeta, ready, registered, config,
                     closedAs, dropped, early, crashed, spoilt>>
  BY MayIndexState DEF CreateSpatialIndex, history
<1>2. /\ mode = "open" /\ mode' = "open" /\ TypeInv /\ OpenInv
      /\ pool["SysIndexes"] \in SUBSET (Index \X Table \X {"BTREE", "RTREE"})
  BY <1>1, StatementState
<1>3. \A f \in File : OnDisk(f)' = OnDisk(f)
  BY <1>1 DEF OnDisk
<1>4. /\ pool'["SysIndexes"] = pool["SysIndexes"] \cup {new} /\ pool' = [f \in File |-> pool'[f]]
      /\ \A f \in File \ {"SysIndexes"} : pool'[f] = pool[f] /\ View(f)' = View(f)
  BY <1>1, <1>2, <1>3, SysNames DEF TypeInv, View
<1>5. Rows' = Rows /\ Bags' = Bags
  BY <1>4, SeenKept, FileNames
<1>6. pool'["SysIndexes"] \in SUBSET (Index \X Table \X {"BTREE", "RTREE"})
  BY <1>2, <1>4
<1>7. TypeInv'
  <2>1. \A f \in File : pool'[f] = None \/ pool'[f] \in Contents(f)
    BY <1>2, <1>4, <1>6, ContentsOf DEF TypeInv
  <2>2. indexes' \in SUBSET (Index \X Table \X {"BTREE", "RTREE"})
    BY <1>1, <1>2 DEF TypeInv
  <2> QED  BY <1>1, <1>2, <1>4, <2>1, <2>2 DEF TypeInv
<1>8. Described(pool["SysTables"], pool["SysColumns"], pool["SysIndexes"], pool["SysPlugins"],
                pool["SysPluginIndexes"], tables, indexes, rankedMeta)'
  <2>1. Described(pool["SysTables"], pool["SysColumns"], pool["SysIndexes"] \cup {new}, pool["SysPlugins"],
                  pool["SysPluginIndexes"], tables, indexes \cup {new}, rankedMeta)
    BY <1>1, StatementState, DescribedIndex DEF Known
  <2>2. /\ pool'["SysTables"] = pool["SysTables"] /\ pool'["SysColumns"] = pool["SysColumns"]
        /\ pool'["SysPlugins"] = pool["SysPlugins"] /\ pool'["SysPluginIndexes"] = pool["SysPluginIndexes"]
    BY <1>4, SysNames
  <2> HIDE DEF new
  <2> QED  BY <1>1, <1>4, <2>1, <2>2
<1>9. \A j \in Index : j \in spoilt' \/ Filled(j, Bags[j], indexes, Rows)'
  BY <1>1, <1>2, <1>5 DEF OpenInv, Filled
<1>10. Spatial(spatial, indexes, Rows)'
  <2>1. Spatial(spatial, indexes, Rows)
    BY <1>2 DEF OpenInv
  <2>2. /\ \A k, s : <<k, s>> \in Located(Rows[t]) <=>
             s \in DOMAIN Rows[t] /\ Rows[t][s] = k /\ k # Gone /\ k # Null
        /\ \A r \in Located(Rows[t]) : r = <<r[1], r[2]>> /\ r[1] \in Key /\ r[2] \in 1 .. MaxSlots
        /\ \A k \in Key : k # Gone /\ k # Null
    BY <1>2, LocatedOf
  <2>3. spatial' \subseteq Index \X Table \X Key \X (1 .. MaxSlots)
    BY <1>1, <2>1, <2>2 DEF Spatial
  <2>4. ASSUME NEW j \in Index, NEW u \in Table, NEW k \in Key, NEW s \in 1 .. MaxSlots
        PROVE  <<j, u, k, s>> \in spatial' <=> <<j, u, "RTREE">> \in indexes' /\ s \in DOMAIN Rows[u] /\ Rows[u][s] = k
    <3>1. <<j, u, k, s>> \in spatial <=> <<j, u, "RTREE">> \in indexes /\ s \in DOMAIN Rows[u] /\ Rows[u][s] = k
      BY <2>1 DEF Spatial
    <3>2. <<j, u, k, s>> \in spatial' <=> <<j, u, k, s>> \in spatial \/ (j = i /\ u = t /\ <<k, s>> \in Located(Rows[t]))
      <4>1. <<j, u, k, s>> \in {<<i, t, r[1], r[2]>> : r \in Located(Rows[t])}
              <=> j = i /\ u = t /\ <<k, s>> \in Located(Rows[t])
        <5>1. \A r \in Located(Rows[t]) : <<j, u, k, s>> = <<i, t, r[1], r[2]>> => j = i /\ u = t /\ r = <<k, s>>
          BY <2>2
        <5>2. <<k, s>>[1] = k /\ <<k, s>>[2] = s
          OBVIOUS
        <5> QED  BY <5>1, <5>2
      <4> QED  BY <1>1, <4>1
    <3>3. <<j, u, "RTREE">> \in indexes' <=> <<j, u, "RTREE">> \in indexes \/ (j = i /\ u = t)
      BY <1>1
    <3> QED  BY <2>2, <3>1, <3>2, <3>3
  <2> QED  BY <1>5, <2>3, <2>4 DEF Spatial
<1>11. OpenInv'
  <2>1. \A f \in SysFiles : pool'[f] # None
    BY <1>1, <1>4, <1>6, SysUnmarked, StatementState
  <2>2. \A u \in Table : Known(u)' => pool'[TableFile(u)] # None
    <3>1. \A u \in Table : pool'[TableFile(u)] = pool[TableFile(u)]
      BY <1>4, FileNames
    <3> QED  BY <1>1, <1>2, <1>5, <3>1 DEF OpenInv, Known
  <2>3. \A e \in indexes' : e[3] = "BTREE" => pool'[IndexFile(e[1])] # None
    <3>1. \A j \in Index : pool'[IndexFile(j)] = pool[IndexFile(j)]
      BY <1>4, FileNames
    <3>2. \A e \in indexes : e[1] \in Index /\ (e[3] = "BTREE" => pool[IndexFile(e[1])] # None)
      BY <1>1, StatementState
    <3>3. \A e \in indexes' : e[3] = "BTREE" => e \in indexes
      <4>1. new[3] # "BTREE"
        OBVIOUS
      <4> HIDE DEF new
      <4> QED  BY <1>1, <4>1
    <3> QED  BY <3>1, <3>2, <3>3
  <2>4. /\ \A r \in rankedMeta' : r[1] \in ready'
        /\ \A x \in pool'["SysPlugins"] : config'[x[1]] = x[2]
    BY <1>1, <1>2, <1>4, SysNames DEF OpenInv
  <2> QED  BY <1>8, <1>9, <1>10, <2>1, <2>2, <2>3, <2>4 DEF OpenInv
<1>12. DiskInv'
  BY <1>1, <1>2, <1>3, <1>7, DiskSame
<1> QED  BY <1>2, <1>7, <1>11, <1>12, OpenNext

LEMMA CreateIndexSound ==
  ASSUME CatalogInv, NEW i \in Index, NEW t \in Table, CreateIndex(i, t)
  PROVE  CatalogInv'
<1> DEFINE f    == IndexFile(i)
           rows == Rows[t]
           new  == <<i, t, "BTREE">>
           made == Stops(rows) = {}
           sent == IF made THEN RowsOf(rows) ELSE Reached(rows)
<1>1. /\ Altering /\ Known(t) /\ pool[TableFile(t)] = rows
      /\ \A e \in indexes : e[1] # i
      /\ i \in spoilt \/ Bags[i] = EmptyBag
      /\ disk' = Allocated({f})
      /\ UNCHANGED <<mode, tables, spatial, rankedMeta, ready, registered, config, closedAs, dropped, early, crashed>>
  <2>1. MayIndex(i, t, "BTREE")
    BY DEF CreateIndex
  <2> QED  BY <2>1, MayIndexState DEF CreateIndex
<1>2. \/ /\ made /\ indexes' = indexes \cup {new} /\ spoilt' = spoilt
         /\ pool' = [Opened({f}) EXCEPT ![f] = Added(@, RowsOf(rows)), !["SysIndexes"] = @ \cup {new}]
      \/ /\ ~ made /\ indexes' = indexes
         /\ pool' = [Opened({f}) EXCEPT ![f] = Added(@, Reached(rows))]
         /\ spoilt' = IF Reached(rows) = {} THEN spoilt ELSE spoilt \cup {i}
  BY <1>1 DEF CreateIndex
<1>3. /\ mode = "open" /\ mode' = "open" /\ TypeInv /\ OpenInv
      /\ pool["SysIndexes"] \in SUBSET (Index \X Table \X {"BTREE", "RTREE"})
  BY <1>1, StatementState
<1>4. /\ \A g \in File : /\ OnDisk(g)' = OnDisk(g)
                         /\ disk'[g] \in {Missing, Zeros} => disk[g] \in {Missing, Zeros}
      /\ disk' = [g \in File |-> disk'[g]]
      /\ \A g \in File : disk'[g] \in {Missing, Zeros} \/ disk'[g] \in Contents(g)
  BY <1>1, <1>3, AllocatedSame
<1>5. f \in File /\ f \notin SysFiles /\ f # "SysIndexes" /\ (\A u \in Table : f # TableFile(u))
      /\ (\A j \in Index \ {i} : f # IndexFile(j)) /\ View(f) = Bags[i]
  BY FileNames DEF Bags
<1>6. /\ pool' = [g \in File |-> pool'[g]]
      /\ pool'[f] = Added(Bags[i], sent)
      /\ pool'["SysIndexes"] = IF made THEN pool["SysIndexes"] \cup {new} ELSE pool["SysIndexes"]
      /\ \A g \in File \ {f, "SysIndexes"} : pool'[g] = pool[g]
  <2>1. Opened({f}) = [g \in File |-> IF g = f THEN Bags[i] ELSE pool[g]]
    BY <1>5 DEF Opened
  <2> HIDE DEF f, rows, new
  <2>2. CASE made
    BY <1>2, <1>5, <2>1, <2>2, SysNames
  <2>3. CASE ~ made
    BY <1>2, <1>5, <2>1, <2>3, SysNames
  <2> QED  BY <2>2, <2>3
<1> HIDE DEF f
<1>7. /\ sent \subseteq RowsOf(rows) /\ pool'[f] \in IndexContents
      /\ Bags[i] = EmptyBag => pool'[f] = SetToBag(sent)
  <2>1. sent \subseteq RowsOf(rows)
    BY DEF Reached
  <2>2. RowsOf(rows) \subseteq Entry
    BY <1>3, RowsType, RowsOfType
  <2>3. sent \in SUBSET Entry
    <3> HIDE DEF sent, rows
    <3> QED  BY <2>1, <2>2
  <2>5. Bags[i] \in IndexContents
    BY <1>3, ViewOf, FileNames, ContentsOf DEF Bags
  <2>6. Added(EmptyBag, sent) = SetToBag(sent)
    <3>1. Added(SetToBag({}), sent) = SetToBag({} \cup sent)
      <4> HIDE DEF sent
      <4> QED  BY AddedTo
    <3>2. {} \cup sent = sent
      OBVIOUS
    <3> HIDE DEF sent
    <3> QED  BY <3>1, <3>2 DEF EmptyBag
  <2> HIDE DEF sent, rows
  <2> QED  BY <1>6, <2>1, <2>3, <2>5, <2>6, AddedType
<1>8. pool'[f] # None /\ pool'[f] \in Contents(f)
  BY <1>5, <1>7, Unmarked, ContentsOf, FileNames DEF f
<1>9. /\ \A u \in Table : pool'[TableFile(u)] = pool[TableFile(u)]
      /\ \A j \in Index \ {i} : pool'[IndexFile(j)] = pool[IndexFile(j)] /\ Bags'[j] = Bags[j]
      /\ Rows' = Rows
  <2>1. \A g \in File \ (SysFiles \cup {f}) : pool'[g] = pool[g] /\ View(g)' = View(g)
    BY <1>4, <1>6, FileNames DEF View
  <2>2. \A u \in Table : TableFile(u) \in File \ (SysFiles \cup {f})
    BY <1>5, FileNames
  <2>3. \A j \in Index \ {i} : IndexFile(j) \in File \ (SysFiles \cup {f})
    BY <1>5, FileNames
  <2> QED  BY <2>1, <2>2, <2>3 DEF Rows, Bags
<1>10. Bags'[i] = pool'[f]
  BY <1>8 DEF Bags, View, f
<1>11. pool'["SysIndexes"] \in SUBSET (Index \X Table \X {"BTREE", "RTREE"})
  BY <1>3, <1>6
<1>12. TypeInv'
  <2>1. \A g \in File : pool'[g] = None \/ pool'[g] \in Contents(g)
    BY <1>3, <1>6, <1>8, <1>11, ContentsOf DEF TypeInv
  <2>2. indexes' \in SUBSET (Index \X Table \X {"BTREE", "RTREE"}) /\ spoilt' \subseteq Index
    BY <1>2, <1>3 DEF TypeInv
  <2> QED  BY <1>1, <1>3, <1>4, <1>6, <2>1, <2>2 DEF TypeInv
<1>13. Described(pool["SysTables"], pool["SysColumns"], pool["SysIndexes"], pool["SysPlugins"],
                 pool["SysPluginIndexes"], tables, indexes, rankedMeta)'
  <2>1. Described(pool["SysTables"], pool["SysColumns"], pool["SysIndexes"] \cup {new}, pool["SysPlugins"],
                  pool["SysPluginIndexes"], tables, indexes \cup {new}, rankedMeta)
    BY <1>1, StatementState, DescribedIndex DEF Known
  <2>2. Described(pool["SysTables"], pool["SysColumns"], pool["SysIndexes"], pool["SysPlugins"],
                  pool["SysPluginIndexes"], tables, indexes, rankedMeta)
    BY <1>1, StatementState
  <2>3. /\ pool'["SysTables"] = pool["SysTables"] /\ pool'["SysColumns"] = pool["SysColumns"]
        /\ pool'["SysPlugins"] = pool["SysPlugins"] /\ pool'["SysPluginIndexes"] = pool["SysPluginIndexes"]
    BY <1>5, <1>6, SysNames, FileNames
  <2> HIDE DEF new, rows
  <2> QED  BY <1>1, <1>2, <1>6, <2>1, <2>2, <2>3
<1>14. \A j \in Index : j \in spoilt' \/ Filled(j, Bags[j], indexes, Rows)'
  <2> SUFFICES ASSUME NEW j \in Index, j \notin spoilt'
               PROVE  Filled(j, Bags[j], indexes, Rows)'
    OBVIOUS
  <2>1. j \notin spoilt
    BY <1>2
  <2>2. CASE j # i
    <3>1. Filled(j, Bags[j], indexes, Rows)
      BY <1>3, <2>1 DEF OpenInv
    <3>2. \A e \in indexes' : e[1] = j => e \in indexes
      BY <1>2, <2>2
    <3>3. \A e \in indexes : e \in indexes'
      BY <1>2
    <3> QED  BY <1>9, <2>2, <3>1, <3>2, <3>3 DEF Filled
  <2>3. CASE j = i
    <3>1. Bags[i] = EmptyBag /\ Bags'[i] = SetToBag(sent)
      BY <1>1, <1>7, <1>10, <2>1, <2>3
    <3>2. CASE made
      <4>1. \A e \in indexes' : e[1] = i => e = new
        BY <1>1, <1>2, <3>2
      <4>2. new \in indexes' /\ Bags'[i] = SetToBag(RowsOf(rows))
        BY <1>2, <3>1, <3>2
      <4> QED  BY <1>9, <2>3, <4>1, <4>2 DEF Filled
    <3>3. CASE ~ made
      <4>1. sent = {} /\ \A e \in indexes' : e[1] # i
        BY <1>1, <1>2, <2>3, <3>3
      <4>2. Bags'[i] = EmptyBag
        BY <3>1, <4>1 DEF EmptyBag
      <4> HIDE DEF sent, rows, new
      <4> QED  BY <2>3, <4>1, <4>2 DEF Filled
    <3> QED  BY <3>2, <3>3
  <2> QED  BY <2>2, <2>3
<1>15. Spatial(spatial, indexes, Rows)'
  <2>1. \A j \in Index, u \in Table : <<j, u, "RTREE">> \in indexes' <=> <<j, u, "RTREE">> \in indexes
    BY <1>2
  <2>2. Spatial(spatial, indexes, Rows)
    BY <1>3 DEF OpenInv
  <2> QED  BY <1>1, <1>9, <2>1, <2>2 DEF Spatial
<1>16. OpenInv'
  <2>1. \A g \in SysFiles : pool'[g] # None
    <3>1. \A g \in SysFiles : g \in File /\ g # f /\ pool[g] # None
      BY <1>1, <1>5, StatementState
    <3> QED  BY <1>6, <1>11, <3>1, SysUnmarked
  <2>2. \A u \in Table : Known(u)' => pool'[TableFile(u)] # None
    BY <1>1, <1>3, <1>9 DEF OpenInv, Known
  <2>3. \A e \in indexes' : e[3] = "BTREE" => pool'[IndexFile(e[1])] # None
    <3> TAKE e \in indexes'
    <3>1. CASE e \in indexes
      BY <1>1, <1>9, <3>1, StatementState
    <3>2. CASE e = new
      BY <1>8, <3>2 DEF f
    <3> QED  BY <1>2, <3>1, <3>2
  <2>4. \A x \in pool'["SysPlugins"] : config'[x[1]] = x[2]
    <3>1. pool'["SysPlugins"] = pool["SysPlugins"]
      BY <1>5, <1>6, SysNames, FileNames
    <3> QED  BY <1>1, <1>3, <3>1 DEF OpenInv
  <2>5. \A r \in rankedMeta' : r[1] \in ready'
    BY <1>1, <1>3 DEF OpenInv
  <2> QED  BY <1>13, <1>14, <1>15, <2>1, <2>2, <2>3, <2>4, <2>5 DEF OpenInv
<1>17. DiskInv'
  <2>1. indexes \subseteq indexes' /\ spoilt \subseteq spoilt'
    BY <1>2
  <2> QED  BY <1>1, <1>3, <1>4, <1>12, <2>1, DiskSame
<1> QED  BY <1>3, <1>12, <1>16, <1>17, OpenNext

LEMMA DropIndexSound ==
  ASSUME CatalogInv, NEW i \in Index, DropIndex(i)
  PROVE  CatalogInv'
<1> DEFINE f      == IndexFile(i)
           others == [pool EXCEPT !["SysIndexes"] = {e \in @ : e[1] # i}]
<1>1. PICK o \in indexes : o[1] = i /\ indexes' = indexes \ {o}
                           /\ spatial' = {x \in spatial : ~(x[1] = i /\ x[2] = o[2])}
  BY DEF DropIndex
<1>2. /\ Altering /\ DropFiles({f}, others)
      /\ spoilt' = IF pool[f] = None THEN spoilt ELSE spoilt \ {i}
      /\ UNCHANGED <<mode, tables, rankedMeta, ready, registered, config, closedAs, crashed>>
  BY DEF DropIndex
<1>3. /\ mode = "open" /\ mode' = "open" /\ TypeInv /\ OpenInv
      /\ pool["SysIndexes"] \in SUBSET (Index \X Table \X {"BTREE", "RTREE"})
      /\ Described(pool["SysTables"], pool["SysColumns"], pool["SysIndexes"], pool["SysPlugins"],
                   pool["SysPluginIndexes"], tables, indexes, rankedMeta)
  BY <1>2, StatementState
<1>4. f \in File /\ f \notin SysFiles /\ f \in IndexFiles /\ (\A u \in Table : f # TableFile(u))
      /\ (\A j \in Index \ {i} : f # IndexFile(j)) /\ {f} \in SUBSET (HeapFiles \cup IndexFiles)
  BY FileNames
<1> HIDE DEF f
<1>5. /\ others["SysIndexes"] = {e \in pool["SysIndexes"] : e[1] # i}
      /\ \A g \in File \ {"SysIndexes"} : others[g] = pool[g]
  BY <1>3, SysNames DEF TypeInv
<1>6. \A g \in File : others[g] = None \/ others[g] \in Contents(g)
  <2>1. others["SysIndexes"] \in Contents("SysIndexes")
    <3> HIDE DEF others
    <3> QED  BY <1>3, <1>5, ContentsOf
  <2> HIDE DEF others
  <2> QED  BY <1>3, <1>5, <2>1 DEF TypeInv
<1> HIDE DEF others
<1>7. /\ dropped' \subseteq HeapFiles \cup IndexFiles /\ early' \subseteq File
      /\ pool' = [g \in File |-> pool'[g]]
      /\ \A g \in File : pool'[g] = None \/ pool'[g] \in Contents(g)
      /\ disk' = [g \in File |-> disk'[g]]
      /\ \A g \in File : disk'[g] \in {Missing, Zeros} \/ disk'[g] \in Contents(g)
      /\ \A g \in File : pool'[g] = IF g \in {f} THEN None ELSE others[g]
      /\ \A g \in {f} : g \in File /\ (pool[g] # None => g \in dropped' /\ View(g)' = EmptyFile(g))
                       /\ (pool[g] = None => View(g)' = View(g))
      /\ \A g \in File \ {f} : disk'[g] = disk[g] /\ OnDisk(g)' = OnDisk(g)
  BY <1>2, <1>4, <1>6, FilesDropped
<1>8. \A d, e \in indexes : d[1] = e[1] => d = e
  BY <1>3 DEF Described
<1>9. /\ pool'["SysIndexes"] = {e \in pool["SysIndexes"] : e[1] # i}
      /\ \A g \in File \ {f, "SysIndexes"} : pool'[g] = pool[g] /\ View(g)' = View(g)
  <2>1. \A g \in File \ {f, "SysIndexes"} : pool'[g] = pool[g]
    BY <1>5, <1>7
  <2>2. pool'["SysIndexes"] = {e \in pool["SysIndexes"] : e[1] # i}
    BY <1>4, <1>5, <1>7, SysNames, FileNames
  <2> QED  BY <1>7, <2>1, <2>2 DEF View
<1>10. /\ \A u \in Table : pool'[TableFile(u)] = pool[TableFile(u)]
       /\ \A j \in Index \ {i} : pool'[IndexFile(j)] = pool[IndexFile(j)] /\ Bags'[j] = Bags[j]
       /\ Rows' = Rows
  <2>1. \A u \in Table : TableFile(u) \in File \ {f, "SysIndexes"}
    BY <1>4, FileNames
  <2>2. \A j \in Index \ {i} : IndexFile(j) \in File \ {f, "SysIndexes"}
    BY <1>4, FileNames
  <2> QED  BY <1>9, <2>1, <2>2 DEF Rows, Bags
<1>11. /\ pool[f] # None => f \in dropped' /\ Bags'[i] = EmptyBag
       /\ pool[f] = None => Bags'[i] = Bags[i] /\ o[3] # "BTREE"
  BY <1>1, <1>2, <1>7, EmptyContents, StatementState DEF Bags, f
<1>12. TypeInv'
  <2>1. indexes' \in SUBSET (Index \X Table \X {"BTREE", "RTREE"}) /\ spoilt' \subseteq Index
    BY <1>1, <1>2, <1>3 DEF TypeInv
  <2> QED  BY <1>2, <1>3, <1>7, <2>1 DEF TypeInv
<1>13. Described(pool["SysTables"], pool["SysColumns"], pool["SysIndexes"], pool["SysPlugins"],
                 pool["SysPluginIndexes"], tables, indexes, rankedMeta)'
  <2>1. /\ pool'["SysTables"] = pool["SysTables"] /\ pool'["SysColumns"] = pool["SysColumns"]
        /\ pool'["SysPlugins"] = pool["SysPlugins"] /\ pool'["SysPluginIndexes"] = pool["SysPluginIndexes"]
    BY <1>4, <1>9, SysNames, FileNames
  <2>2. pool'["SysIndexes"] = indexes'
    BY <1>1, <1>3, <1>8, <1>9 DEF Described
  <2> QED  BY <1>1, <1>2, <1>3, <2>1, <2>2 DEF Described
<1>14. \A j \in Index : j \in spoilt' \/ Filled(j, Bags[j], indexes, Rows)'
  <2> SUFFICES ASSUME NEW j \in Index, j \notin spoilt'
               PROVE  Filled(j, Bags[j], indexes, Rows)'
    OBVIOUS
  <2>1. CASE j # i
    <3>1. Filled(j, Bags[j], indexes, Rows)
      BY <1>2, <1>3, <2>1 DEF OpenInv
    <3>2. \A e \in indexes : e[1] = j => e \in indexes'
      BY <1>1, <2>1
    <3> QED  BY <1>1, <1>10, <2>1, <3>1, <3>2 DEF Filled
  <2>2. CASE j = i
    <3>1. \A e \in indexes' : e[1] # i
      BY <1>1, <1>8
    <3>2. Bags'[i] = EmptyBag
      <4>1. CASE pool[f] = None
        <5>1. Filled(i, Bags[i], indexes, Rows)
          BY <1>2, <1>3, <2>2, <4>1 DEF OpenInv
        <5>2. \A e \in indexes : e[1] = i => e[3] # "BTREE"
          BY <1>1, <1>8, <1>11, <4>1
        <5> QED  BY <1>11, <4>1, <5>1, <5>2 DEF Filled
      <4>2. CASE pool[f] # None
        BY <1>11, <4>2
      <4> QED  BY <4>1, <4>2
    <3> QED  BY <2>2, <3>1, <3>2 DEF Filled
  <2> QED  BY <2>1, <2>2
<1>15. Spatial(spatial, indexes, Rows)'
  <2>1. Spatial(spatial, indexes, Rows)
    BY <1>3 DEF OpenInv
  <2>2. spatial' \subseteq Index \X Table \X Key \X (1 .. MaxSlots)
    BY <1>1, <2>1 DEF Spatial
  <2>3. ASSUME NEW j \in Index, NEW u \in Table, NEW k \in Key, NEW s \in 1 .. MaxSlots
        PROVE  <<j, u, k, s>> \in spatial' <=> <<j, u, "RTREE">> \in indexes' /\ s \in DOMAIN Rows[u] /\ Rows[u][s] = k
    <3>1. <<j, u, k, s>> \in spatial <=> <<j, u, "RTREE">> \in indexes /\ s \in DOMAIN Rows[u] /\ Rows[u][s] = k
      BY <2>1 DEF Spatial
    <3>2. <<j, u, k, s>> \in spatial' <=> <<j, u, k, s>> \in spatial /\ ~ (j = i /\ u = o[2])
      BY <1>1
    <3>3. <<j, u, "RTREE">> \in indexes' <=> <<j, u, "RTREE">> \in indexes /\ ~ (j = i /\ u = o[2])
      <4>1. <<j, u, "RTREE">> \in indexes /\ j = i => o = <<j, u, "RTREE">> /\ o[2] = u
        BY <1>1, <1>8
      <4>2. o = <<j, u, "RTREE">> => j = i /\ u = o[2]
        BY <1>1
      <4> QED  BY <1>1, <4>1, <4>2
    <3> QED  BY <3>1, <3>2, <3>3
  <2> QED  BY <1>10, <2>2, <2>3 DEF Spatial
<1>16. OpenInv'
  <2>1. \A g \in SysFiles : pool'[g] # None
    <3>1. pool'["SysIndexes"] \in SUBSET (Index \X Table \X {"BTREE", "RTREE"})
      BY <1>3, <1>9
    <3>2. \A g \in SysFiles : g \in File /\ g # f /\ pool[g] # None
      BY <1>2, <1>4, StatementState
    <3> QED  BY <1>9, <3>1, <3>2, SysUnmarked
  <2>2. \A u \in Table : Known(u)' => pool'[TableFile(u)] # None
    BY <1>2, <1>3, <1>10 DEF OpenInv, Known
  <2>3. \A e \in indexes' : e[3] = "BTREE" => pool'[IndexFile(e[1])] # None
    <3>1. \A e \in indexes' : e \in indexes /\ e[1] \in Index \ {i}
      BY <1>1, <1>2, <1>8, StatementState
    <3> QED  BY <1>2, <1>10, <3>1, StatementState
  <2>4. \A x \in pool'["SysPlugins"] : config'[x[1]] = x[2]
    <3>1. pool'["SysPlugins"] = pool["SysPlugins"]
      BY <1>4, <1>9, SysNames, FileNames
    <3> QED  BY <1>2, <1>3, <3>1 DEF OpenInv
  <2>5. \A r \in rankedMeta' : r[1] \in ready'
    BY <1>2, <1>3 DEF OpenInv
  <2> QED  BY <1>13, <1>14, <1>15, <2>1, <2>2, <2>3, <2>4, <2>5 DEF OpenInv
<1>17. DiskInv'
  <2>1. \A j \in spoilt : j \in spoilt' \/ IndexFile(j) \in dropped'
    BY <1>2, <1>11 DEF f
  <2>2. \A e \in indexes : e[3] = "BTREE" => e \in indexes' \/ IndexFile(e[1]) \in dropped'
    BY <1>1, <1>11 DEF f
  <2>3. \A u \in Table : TableFile(u) \in dropped' => TableFile(u) \in dropped
    BY <1>2, <1>4 DEF DropFiles
  <2>4. \A g \in File :
          \/ g \in dropped' /\ g \notin early' /\ OnDisk(g)' = EmptyFile(g)
          \/ /\ OnDisk(g)' = OnDisk(g)
             /\ (g \in dropped' <=> g \in dropped) /\ (g \in early' <=> g \in early)
             /\ disk'[g] \in {Missing, Zeros} => disk[g] \in {Missing, Zeros}
    BY <1>2, FilesDeleted
  <2> QED  BY <1>2, <1>12, <2>1, <2>2, <2>3, <2>4, DiskKept
<1> QED  BY <1>3, <1>12, <1>16, <1>17, OpenNext

-----------------------------------------------------------------------------
\* Ranked indexes and their plugins: only their two system tables are changed.

LEMMA PluginStatement ==
  ASSUME CatalogInv, Altering,
         UNCHANGED <<mode, disk, tables, indexes, spatial, closedAs, dropped, early, crashed, spoilt>>,
         pool' = [f \in File |-> pool'[f]],
         \A f \in File \ {"SysPlugins", "SysPluginIndexes"} : pool'[f] = pool[f],
         pool'["SysPlugins"] \in SUBSET (Plugin \X Config),
         pool'["SysPluginIndexes"] \in SUBSET (Index \X Table \X Plugin),
         pool'["SysPluginIndexes"] = rankedMeta',
         config' \in [Plugin -> Config \cup {None}], registered' \subseteq Plugin,
         \A r \in rankedMeta' : /\ tables[r[2]] # None /\ tables[r[2]] = "text" /\ r[1] \in ready'
                                /\ \E x \in pool'["SysPlugins"] : x[1] = r[3]
                                /\ \A q \in rankedMeta' : q[1] = r[1] => q = r,
         \A x, y \in pool'["SysPlugins"] : x[1] = y[1] => x = y,
         \A x \in pool'["SysPlugins"] : config'[x[1]] = x[2]
  PROVE  CatalogInv'
<1>1. /\ mode = "open" /\ mode' = "open" /\ TypeInv /\ OpenInv
      /\ Described(pool["SysTables"], pool["SysColumns"], pool["SysIndexes"], pool["SysPlugins"],
                   pool["SysPluginIndexes"], tables, indexes, rankedMeta)
  BY StatementState
<1>2. \A f \in File : OnDisk(f)' = OnDisk(f)
  BY DEF OnDisk
<1>3. Rows' = Rows /\ Bags' = Bags
  <2>1. \A f \in File \ SysFiles : View(f)' = View(f)
    BY <1>2, FileNames DEF View
  <2> QED  BY <2>1, SeenKept
<1>4. TypeInv'
  <2>1. \A f \in File : pool'[f] = None \/ pool'[f] \in Contents(f)
    BY <1>1, ContentsOf DEF TypeInv
  <2> QED  BY <1>1, <2>1 DEF TypeInv
<1>5. Described(pool["SysTables"], pool["SysColumns"], pool["SysIndexes"], pool["SysPlugins"],
                pool["SysPluginIndexes"], tables, indexes, rankedMeta)'
  <2>1. /\ pool'["SysTables"] = pool["SysTables"] /\ pool'["SysColumns"] = pool["SysColumns"]
        /\ pool'["SysIndexes"] = pool["SysIndexes"]
    BY SysNames
  <2> QED  BY <1>1, <2>1 DEF Described
<1>6. OpenInv'
  <2>1. \A f \in SysFiles : pool'[f] # None
    BY SysUnmarked, StatementState
  <2>2. \A u \in Table : Known(u)' => pool'[TableFile(u)] # None
    <3>1. \A u \in Table : pool'[TableFile(u)] = pool[TableFile(u)]
      BY FileNames
    <3> QED  BY <1>1, <1>3, <3>1 DEF OpenInv, Known
  <2>3. \A e \in indexes' : e[3] = "BTREE" => pool'[IndexFile(e[1])] # None
    <3>1. \A j \in Index : pool'[IndexFile(j)] = pool[IndexFile(j)]
      BY FileNames
    <3> QED  BY <3>1, StatementState
  <2>4. /\ \A j \in Index : j \in spoilt' \/ Filled(j, Bags[j], indexes, Rows)'
        /\ Spatial(spatial, indexes, Rows)'
    BY <1>1, <1>3 DEF OpenInv, Filled, Spatial
  <2> QED  BY <1>5, <2>1, <2>2, <2>3, <2>4 DEF OpenInv
<1>7. DiskInv'
  BY <1>2, <1>4, DiskSame
<1> QED  BY <1>1, <1>4, <1>6, <1>7, OpenNext

LEMMA CreateRankedSound ==
  ASSUME CatalogInv, NEW i \in Index, NEW t \in Table, NEW p \in Plugin, CreateRanked(i, t, p)
  PROVE  CatalogInv'
<1>1. /\ Altering /\ Known(t) /\ tables[t] = "text" /\ config[p] # None
      /\ rankedMeta' = rankedMeta \cup {<<i, t, p>>} /\ ready' = ready \cup {i}
      /\ pool' = [pool EXCEPT !["SysPluginIndexes"] = {r \in @ : r[1] # i} \cup {<<i, t, p>>},
                              !["SysPlugins"] = {r \in @ : r[1] # p} \cup {<<p, config[p]>>}]
      /\ UNCHANGED <<mode, disk, tables, indexes, spatial, registered, config, closedAs, dropped, early, crashed, spoilt>>
      /\ \A r \in rankedMeta : r[1] # i
  BY DEF CreateRanked, history, IndexNames
<1>2. /\ TypeInv /\ OpenInv
      /\ pool["SysPlugins"] \in SUBSET (Plugin \X Config)
      /\ pool["SysPluginIndexes"] \in SUBSET (Index \X Table \X Plugin)
      /\ Described(pool["SysTables"], pool["SysColumns"], pool["SysIndexes"], pool["SysPlugins"],
                   pool["SysPluginIndexes"], tables, indexes, rankedMeta)
  BY <1>1, StatementState
<1>3. /\ pool' = [f \in File |-> pool'[f]]
      /\ \A f \in File \ {"SysPlugins", "SysPluginIndexes"} : pool'[f] = pool[f]
      /\ pool'["SysPlugins"] = {r \in pool["SysPlugins"] : r[1] # p} \cup {<<p, config[p]>>}
      /\ pool'["SysPluginIndexes"] = {r \in pool["SysPluginIndexes"] : r[1] # i} \cup {<<i, t, p>>}
  BY <1>1, <1>2, SysNames DEF TypeInv
<1>4. config \in [Plugin -> Config \cup {None}] /\ config[p] \in Config
  BY <1>1, <1>2 DEF TypeInv
<1>5. pool'["SysPluginIndexes"] = rankedMeta'
  BY <1>1, <1>2, <1>3 DEF Described
<1>6. /\ pool'["SysPlugins"] \in SUBSET (Plugin \X Config)
      /\ pool'["SysPluginIndexes"] \in SUBSET (Index \X Table \X Plugin)
      /\ config' \in [Plugin -> Config \cup {None}] /\ registered' \subseteq Plugin
  <2>1. pool'["SysPlugins"] \in SUBSET (Plugin \X Config)
    BY <1>2, <1>3, <1>4
  <2>2. pool'["SysPluginIndexes"] \in SUBSET (Index \X Table \X Plugin)
    BY <1>2, <1>3
  <2> QED  BY <1>1, <1>2, <1>4, <2>1, <2>2 DEF TypeInv
<1>7. \A x, y \in pool'["SysPlugins"] : x[1] = y[1] => x = y
  BY <1>2, <1>3 DEF Described
<1>8. \A x \in pool'["SysPlugins"] : config'[x[1]] = x[2]
  <2> TAKE x \in pool'["SysPlugins"]
  <2>1. CASE x \in pool["SysPlugins"]
    BY <1>1, <1>2, <2>1 DEF OpenInv
  <2>2. CASE x = <<p, config[p]>>
    <3>1. x[1] = p /\ x[2] = config[p]
      BY <2>2
    <3> QED  BY <1>1, <3>1
  <2> QED  BY <1>3, <2>1, <2>2
<1>9. \A r \in rankedMeta' : /\ tables[r[2]] # None /\ tables[r[2]] = "text" /\ r[1] \in ready'
                             /\ \E x \in pool'["SysPlugins"] : x[1] = r[3]
                             /\ \A q \in rankedMeta' : q[1] = r[1] => q = r
  <2> TAKE r \in rankedMeta'
  <2>1. CASE r \in rankedMeta
    <3>1. /\ tables[r[2]] # None /\ tables[r[2]] = "text" /\ r[1] \in ready
          /\ \A q \in rankedMeta : q[1] = r[1] => q = r
      BY <1>2, <2>1 DEF Described, OpenInv
    <3>2. PICK x \in pool["SysPlugins"] : x[1] = r[3]
      BY <1>2, <2>1 DEF Described
    <3>3. \E y \in pool'["SysPlugins"] : y[1] = r[3]
      <4>1. <<p, config[p]>> \in pool'["SysPlugins"] /\ <<p, config[p]>>[1] = p
        BY <1>3
      <4>2. x[1] # p => x \in pool'["SysPlugins"]
        BY <1>3
      <4> QED  BY <3>2, <4>1, <4>2
    <3>4. \A q \in rankedMeta' : q \in rankedMeta \/ q = <<i, t, p>>
      BY <1>1
    <3>5. <<i, t, p>>[1] = i /\ r[1] # i
      BY <1>1, <2>1
    <3>6. \A q \in rankedMeta' : q[1] = r[1] => q = r
      BY <3>1, <3>4, <3>5
    <3> QED  BY <1>1, <3>1, <3>3, <3>6
  <2>2. CASE r = <<i, t, p>>
    <3>1. <<p, config[p]>> \in pool'["SysPlugins"] /\ <<p, config[p]>>[1] = r[3]
      BY <1>3, <2>2
    <3>2. r[1] = i /\ r[2] = t
      BY <2>2
    <3> QED  BY <1>1, <2>2, <3>1, <3>2 DEF Known
  <2> QED  BY <1>1, <2>1, <2>2
<1> QED  BY <1>1, <1>3, <1>5, <1>6, <1>7, <1>8, <1>9, PluginStatement

LEMMA DropRankedSound ==
  ASSUME CatalogInv, NEW i \in Index, DropRanked(i)
  PROVE  CatalogInv'
<1>1. /\ Altering /\ ready' = ready \ {i}
      /\ pool' = [pool EXCEPT !["SysPluginIndexes"] = {r \in @ : r[1] # i}]
      /\ UNCHANGED <<mode, disk, tables, indexes, spatial, registered, config, closedAs, dropped, early, crashed, spoilt>>
  BY DEF DropRanked, history
<1>2. PICK o \in rankedMeta : o[1] = i /\ rankedMeta' = rankedMeta \ {o}
  BY DEF DropRanked
<1>3. /\ TypeInv /\ OpenInv
      /\ pool["SysPlugins"] \in SUBSET (Plugin \X Config)
      /\ pool["SysPluginIndexes"] \in SUBSET (Index \X Table \X Plugin)
      /\ Described(pool["SysTables"], pool["SysColumns"], pool["SysIndexes"], pool["SysPlugins"],
                   pool["SysPluginIndexes"], tables, indexes, rankedMeta)
  BY <1>1, StatementState
<1>4. /\ pool' = [f \in File |-> pool'[f]]
      /\ \A f \in File \ {"SysPluginIndexes"} : pool'[f] = pool[f]
      /\ pool'["SysPlugins"] = pool["SysPlugins"]
      /\ pool'["SysPluginIndexes"] = {r \in pool["SysPluginIndexes"] : r[1] # i}
  BY <1>1, <1>3, SysNames DEF TypeInv
<1>5. \A q, r \in rankedMeta : q[1] = r[1] => q = r
  BY <1>3 DEF Described
<1>6. pool'["SysPluginIndexes"] = rankedMeta'
  BY <1>2, <1>3, <1>4, <1>5 DEF Described
<1>7. /\ pool'["SysPlugins"] \in SUBSET (Plugin \X Config)
      /\ pool'["SysPluginIndexes"] \in SUBSET (Index \X Table \X Plugin)
      /\ config' \in [Plugin -> Config \cup {None}] /\ registered' \subseteq Plugin
  BY <1>1, <1>3, <1>4 DEF TypeInv
<1>8. \A r \in rankedMeta' : /\ tables[r[2]] # None /\ tables[r[2]] = "text" /\ r[1] \in ready'
                             /\ \E x \in pool'["SysPlugins"] : x[1] = r[3]
                             /\ \A q \in rankedMeta' : q[1] = r[1] => q = r
  <2>1. \A r \in rankedMeta' : r \in rankedMeta /\ r[1] # i
    BY <1>2, <1>5
  <2> QED  BY <1>1, <1>3, <1>4, <2>1 DEF Described, OpenInv
<1>9. /\ \A x, y \in pool'["SysPlugins"] : x[1] = y[1] => x = y
      /\ \A x \in pool'["SysPlugins"] : config'[x[1]] = x[2]
  BY <1>1, <1>3, <1>4 DEF Described, OpenInv
<1> QED  BY <1>1, <1>4, <1>6, <1>7, <1>8, <1>9, PluginStatement

LEMMA CreateExtensionSound ==
  ASSUME CatalogInv, NEW p \in Plugin, NEW c \in Config, CreateExtension(p, c)
  PROVE  CatalogInv'
<1>1. /\ Altering /\ config' = [config EXCEPT ![p] = c]
      /\ pool' = [pool EXCEPT !["SysPlugins"] = {r \in @ : r[1] # p} \cup {<<p, c>>}]
      /\ UNCHANGED <<mode, disk, tables, indexes, spatial, rankedMeta, ready, registered,
                     closedAs, dropped, early, crashed, spoilt>>
  BY DEF CreateExtension, history
<1>2. /\ TypeInv /\ OpenInv
      /\ pool["SysPlugins"] \in SUBSET (Plugin \X Config)
      /\ pool["SysPluginIndexes"] \in SUBSET (Index \X Table \X Plugin)
      /\ Described(pool["SysTables"], pool["SysColumns"], pool["SysIndexes"], pool["SysPlugins"],
                   pool["SysPluginIndexes"], tables, indexes, rankedMeta)
  BY <1>1, StatementState
<1>3. /\ pool' = [f \in File |-> pool'[f]]
      /\ \A f \in File \ {"SysPlugins"} : pool'[f] = pool[f]
      /\ pool'["SysPlugins"] = {r \in pool["SysPlugins"] : r[1] # p} \cup {<<p, c>>}
      /\ pool'["SysPluginIndexes"] = pool["SysPluginIndexes"]
  BY <1>1, <1>2, SysNames DEF TypeInv
<1>4. /\ config' \in [Plugin -> Config \cup {None}] /\ config'[p] = c /\ registered' \subseteq Plugin
      /\ \A q \in Plugin \ {p} : config'[q] = config[q]
  BY <1>1, <1>2 DEF TypeInv
<1>5. /\ pool'["SysPlugins"] \in SUBSET (Plugin \X Config)
      /\ pool'["SysPluginIndexes"] \in SUBSET (Index \X Table \X Plugin)
      /\ pool'["SysPluginIndexes"] = rankedMeta'
  BY <1>1, <1>2, <1>3 DEF Described
<1>6. \A x \in pool'["SysPlugins"] : config'[x[1]] = x[2]
  BY <1>2, <1>3, <1>4 DEF OpenInv
<1>7. \A x, y \in pool'["SysPlugins"] : x[1] = y[1] => x = y
  BY <1>2, <1>3 DEF Described
<1>8. \A r \in rankedMeta' : \E x \in pool'["SysPlugins"] : x[1] = r[3]
  <2> TAKE r \in rankedMeta'
  <2>1. PICK x \in pool["SysPlugins"] : x[1] = r[3]
    BY <1>1, <1>2 DEF Described
  <2>2. <<p, c>>[1] = p
    OBVIOUS
  <2> QED  BY <1>3, <2>1, <2>2
<1>9. \A r \in rankedMeta' : /\ tables[r[2]] # None /\ tables[r[2]] = "text" /\ r[1] \in ready'
                             /\ \A q \in rankedMeta' : q[1] = r[1] => q = r
  BY <1>1, <1>2 DEF Described, OpenInv
<1> QED  BY <1>1, <1>3, <1>4, <1>5, <1>6, <1>7, <1>8, <1>9, PluginStatement

LEMMA DropExtensionSound ==
  ASSUME CatalogInv, NEW p \in Plugin, DropExtension(p)
  PROVE  CatalogInv'
<1>1. /\ Altering /\ config' = [config EXCEPT ![p] = None] /\ registered' = registered \ {p}
      /\ \A r \in pool["SysPluginIndexes"] : r[3] # p
      /\ pool' = [pool EXCEPT !["SysPlugins"] = {r \in @ : r[1] # p}]
      /\ UNCHANGED <<mode, disk, tables, indexes, spatial, rankedMeta, ready,
                     closedAs, dropped, early, crashed, spoilt>>
  BY DEF DropExtension, history
<1>2. /\ TypeInv /\ OpenInv
      /\ pool["SysPlugins"] \in SUBSET (Plugin \X Config)
      /\ pool["SysPluginIndexes"] \in SUBSET (Index \X Table \X Plugin)
      /\ Described(pool["SysTables"], pool["SysColumns"], pool["SysIndexes"], pool["SysPlugins"],
                   pool["SysPluginIndexes"], tables, indexes, rankedMeta)
  BY <1>1, StatementState
<1>3. /\ pool' = [f \in File |-> pool'[f]]
      /\ \A f \in File \ {"SysPlugins"} : pool'[f] = pool[f]
      /\ pool'["SysPlugins"] = {r \in pool["SysPlugins"] : r[1] # p}
      /\ pool'["SysPluginIndexes"] = pool["SysPluginIndexes"]
  BY <1>1, <1>2, SysNames DEF TypeInv
<1>4. /\ config' \in [Plugin -> Config \cup {None}] /\ registered' \subseteq Plugin
      /\ \A q \in Plugin \ {p} : config'[q] = config[q]
  BY <1>1, <1>2 DEF TypeInv
<1>5. /\ pool'["SysPlugins"] \in SUBSET (Plugin \X Config)
      /\ pool'["SysPluginIndexes"] \in SUBSET (Index \X Table \X Plugin)
      /\ pool'["SysPluginIndexes"] = rankedMeta'
  BY <1>1, <1>2, <1>3 DEF Described
<1>6. \A x \in pool'["SysPlugins"] : config'[x[1]] = x[2]
  BY <1>2, <1>3, <1>4 DEF OpenInv
<1>7. \A x, y \in pool'["SysPlugins"] : x[1] = y[1] => x = y
  BY <1>2, <1>3 DEF Described
<1>8. \A r \in rankedMeta' : \E x \in pool'["SysPlugins"] : x[1] = r[3]
  <2> TAKE r \in rankedMeta'
  <2>1. PICK x \in pool["SysPlugins"] : x[1] = r[3]
    BY <1>1, <1>2 DEF Described
  <2> QED  BY <1>1, <1>3, <1>5, <2>1
<1>9. \A r \in rankedMeta' : /\ tables[r[2]] # None /\ tables[r[2]] = "text" /\ r[1] \in ready'
                             /\ \A q \in rankedMeta' : q[1] = r[1] => q = r
  BY <1>1, <1>2 DEF Described, OpenInv
<1> QED  BY <1>1, <1>3, <1>4, <1>5, <1>6, <1>7, <1>8, <1>9, PluginStatement

-----------------------------------------------------------------------------
LEMMA NextSound == CatalogInv /\ [Next]_vars => CatalogInv'
<1> SUFFICES ASSUME CatalogInv, [Next]_vars  PROVE CatalogInv'
  OBVIOUS
<1>1. CASE Open  BY <1>1, OpenSound
<1>2. CASE Close  BY <1>2, CloseSound
<1>3. CASE CloseEnds  BY <1>3, CloseEndsSound
<1>4. CASE Crash  BY <1>4, CrashSound
<1>5. CASE \E f \in File : SaveFile(f) \/ Evict(f)  BY <1>5, SaveFileSound, EvictSound
<1>6. ASSUME NEW t \in Table,
             \/ \E type \in Type : CreateTable(t, type)
             \/ DropTable(t)
             \/ \E k \in Key \cup {Null} : InsertRow(t, k)
             \/ \E s \in 1 .. MaxSlots : DeleteRow(t, s)
             \/ \E i \in Index : CreateIndex(i, t) \/ CreateSpatialIndex(i, t)
             \/ \E i \in Index, p \in Plugin : CreateRanked(i, t, p)
      PROVE  CatalogInv'
  BY <1>6, CreateTableSound, DropTableSound, InsertRowSound, DeleteRowSound, CreateIndexSound,
     CreateSpatialIndexSound, CreateRankedSound
<1>7. ASSUME NEW i \in Index, DropIndex(i) \/ DropRanked(i)  PROVE CatalogInv'
  BY <1>7, DropIndexSound, DropRankedSound
<1>8. ASSUME NEW p \in Plugin, DropExtension(p) \/ \E c \in Config : CreateExtension(p, c)
      PROVE  CatalogInv'
  BY <1>8, DropExtensionSound, CreateExtensionSound
<1>9. CASE UNCHANGED vars
  <2>1. UNCHANGED <<mode, disk, pool, tables, indexes, spatial, rankedMeta, ready, registered, config,
                    closedAs, dropped, early, crashed, spoilt>>
    BY <1>9 DEF vars, memory, history
  <2>2. \A f : View(f)' = View(f) /\ OnDisk(f)' = OnDisk(f)
    BY <2>1 DEF View, OnDisk
  <2>3. Rows' = Rows /\ Bags' = Bags /\ Snapshot' = Snapshot
    BY <2>1, <2>2 DEF Rows, Bags, Snapshot, Known
  <2>4. (Running' <=> Running) /\ (Saving' <=> Saving) /\ (Torn' <=> Torn)
    BY <2>1 DEF Running, Saving, Torn
  <2>5. TypeInv' /\ ClosedInv'
    BY <2>1, <2>4 DEF CatalogInv, TypeInv, ClosedInv
  <2>6. PoolInv'
    BY <2>1, <2>4 DEF CatalogInv, PoolInv, Known
  <2>7. MemoryInv'
    BY <2>1, <2>2, <2>3, <2>4 DEF CatalogInv, MemoryInv, Described, Spatial, Filled, Known
  <2>8. DiskInv'
    BY <2>1, <2>2, <2>4 DEF CatalogInv, DiskInv, Described, Spatial, Filled
  <2> QED  BY <2>5, <2>6, <2>7, <2>8 DEF CatalogInv
<1> QED  BY <1>1, <1>2, <1>3, <1>4, <1>5, <1>6, <1>7, <1>8, <1>9 DEF Next

\* The invariant of the catalog and its files (catalog.py, file_manager.py):
\* through statements, closes, crashes and openings.
THEOREM CatalogInvariant == Spec => []CatalogInv
BY InitSound, NextSound, PTL DEF Spec

\* The system tables and the catalog in memory are changed together
\* (_insert_sys_row and its like beside every change of _tables, _indexes,
\* _ranked_meta and the registry).
THEOREM SysTablesMatch == Spec => []SysMatchesMemory
<1>1. CatalogInv => SysMatchesMemory
  <2> SUFFICES ASSUME CatalogInv, mode = "open", ~ Torn
               PROVE  /\ pool["SysTables"] = {t \in Table : Known(t)}
                      /\ pool["SysColumns"] = {<<t, tables[t]>> : t \in pool["SysTables"]}
                      /\ pool["SysIndexes"] = indexes /\ \A e \in indexes : Known(e[2])
                      /\ pool["SysPluginIndexes"] = rankedMeta
                      /\ \A r \in rankedMeta : /\ Known(r[2]) /\ r[1] \in ready
                                               /\ <<r[3], config[r[3]]>> \in pool["SysPlugins"]
    BY DEF SysMatchesMemory, Torn
  <2>1. OpenInv /\ TypeInv
    BY OpenState DEF CatalogInv
  <2>2. Described(pool["SysTables"], pool["SysColumns"], pool["SysIndexes"], pool["SysPlugins"],
                  pool["SysPluginIndexes"], tables, indexes, rankedMeta)
    BY <2>1 DEF OpenInv
  <2>3. ASSUME NEW r \in rankedMeta
        PROVE  <<r[3], config[r[3]]>> \in pool["SysPlugins"]
    <3>1. PICK x \in pool["SysPlugins"] : x[1] = r[3]
      BY <2>2 DEF Described
    <3>2. config[r[3]] = x[2]
      BY <2>1, <3>1 DEF OpenInv
    <3>3. pool["SysPlugins"] \in SUBSET (Plugin \X Config)
      BY <2>1, ContentsOf, SysNames, FileNames DEF OpenInv, TypeInv
    <3> QED  BY <3>1, <3>2, <3>3
  <2> QED  BY <2>1, <2>2, <2>3 DEF OpenInv, Described, Known
<1> QED  BY <1>1, CatalogInvariant, PTL

\* What an index answers from is the rows of its table (_fill_index, the loops
\* over _indexes of _execute_insert and _execute_delete, FileManager.drop), but
\* for what a failed CREATE INDEX or a crash has spoilt.
THEOREM IndexesHold == Spec => []IndexHoldsRows
<1>1. CatalogInv => IndexHoldsRows
  <2> SUFFICES ASSUME CatalogInv, mode = "open", NEW e \in indexes
               PROVE  IF e[3] = "RTREE"
                      THEN {<<x[3], x[4]>> : x \in {y \in spatial : y[1] = e[1] /\ y[2] = e[2]}}
                             = Located(pool[TableFile(e[2])])
                      ELSE e[1] \in spoilt \/ crashed = "torn"
                             \/ pool[IndexFile(e[1])] = SetToBag(RowsOf(pool[TableFile(e[2])]))
    BY DEF IndexHoldsRows
  <2>1. TypeInv /\ Running /\ ~ Saving /\ e = <<e[1], e[2], e[3]>> /\ e[1] \in Index /\ e[2] \in Table
        /\ e[3] \in {"BTREE", "RTREE"}
    BY DEF CatalogInv, TypeInv, Running, Saving
  <2>2. pool[TableFile(e[2])] = Rows[e[2]]
    BY <2>1 DEF CatalogInv, PoolInv, Rows, View
  <2>3. CASE e[3] = "RTREE"
    <3>1. Spatial(spatial, indexes, Rows)
      BY <2>1 DEF CatalogInv, MemoryInv
    <3>2. /\ \A k, s : <<k, s>> \in Located(Rows[e[2]]) <=>
               s \in DOMAIN Rows[e[2]] /\ Rows[e[2]][s] = k /\ k # Gone /\ k # Null
          /\ \A r \in Located(Rows[e[2]]) : r = <<r[1], r[2]>> /\ r[1] \in Key /\ r[2] \in 1 .. MaxSlots
          /\ \A k \in Key : k # Gone /\ k # Null
      BY <2>1, LocatedOf
    <3>3. \A k \in Key, s \in 1 .. MaxSlots :
            <<e[1], e[2], k, s>> \in spatial <=> <<k, s>> \in Located(Rows[e[2]])
      <4>1. <<e[1], e[2], "RTREE">> \in indexes
        BY <2>1, <2>3
      <4>2. \A k \in Key, s \in 1 .. MaxSlots :
              <<e[1], e[2], k, s>> \in spatial <=> s \in DOMAIN Rows[e[2]] /\ Rows[e[2]][s] = k
        BY <2>1, <3>1, <4>1 DEF Spatial
      <4> QED  BY <3>2, <4>2
    <3>4. \A x \in spatial : x = <<x[1], x[2], x[3], x[4]>> /\ x[3] \in Key /\ x[4] \in 1 .. MaxSlots
      BY <3>1 DEF Spatial
    <3>5. ASSUME NEW x \in spatial, x[1] = e[1], x[2] = e[2]
          PROVE  <<x[3], x[4]>> \in Located(Rows[e[2]])
      BY <3>3, <3>4, <3>5
    <3>6. ASSUME NEW r \in Located(Rows[e[2]])
          PROVE  r \in {<<x[3], x[4]>> : x \in {y \in spatial : y[1] = e[1] /\ y[2] = e[2]}}
      <4>1. r = <<r[1], r[2]>> /\ <<e[1], e[2], r[1], r[2]>> \in spatial
        BY <3>2, <3>3
      <4> DEFINE x == <<e[1], e[2], r[1], r[2]>>
      <4>2. x \in {y \in spatial : y[1] = e[1] /\ y[2] = e[2]} /\ r = <<x[3], x[4]>>
        BY <4>1
      <4> HIDE DEF x
      <4> QED  BY <4>2
    <3> QED  BY <2>2, <2>3, <3>5, <3>6
  <2>4. CASE e[3] = "BTREE" /\ e[1] \notin spoilt /\ ~ Torn
    <3>1. Filled(e[1], Bags[e[1]], indexes, Rows)
      BY <2>1, <2>4 DEF CatalogInv, MemoryInv
    <3>2. Bags[e[1]] = pool[IndexFile(e[1])]
      BY <2>1, <2>4 DEF CatalogInv, PoolInv, Bags, View
    <3> QED  BY <2>2, <2>4, <3>1, <3>2 DEF Filled
  <2> QED  BY <2>1, <2>3, <2>4 DEF Torn
<1> QED  BY <1>1, CatalogInvariant, PTL

\* A database that is not torn is refused for what was deleted or moved only.
LEMMA WhyRefused ==
  ASSUME CatalogInv, Open, ~ Torn, mode' # "open"
  PROVE  \/ \E e \in closedAs.indexes : e[3] = "BTREE" /\ IndexFile(e[1]) \in dropped
         \/ \E r \in closedAs.ranked : <<r[1], StoredConfig(r[3])>> \notin artifacts
<1>1. /\ mode \in {"closed", "refused"} /\ ~ Running /\ ~ Saving /\ TypeInv /\ DiskInv /\ Refuses
      /\ early \cap SysFiles = {}
  BY DEF Open, Running, Saving, CatalogInv, ClosedInv
<1>2. /\ StoredTables = {t \in Table : closedAs.tables[t] # None}
      /\ \A t \in StoredTables : TypeOfTable(t) = closedAs.tables[t]
      /\ StoredIndexes = closedAs.indexes /\ RankedRows = closedAs.ranked
      /\ Described(View("SysTables"), View("SysColumns"), View("SysIndexes"), View("SysPlugins"),
                   View("SysPluginIndexes"), closedAs.tables, closedAs.indexes, closedAs.ranked)
  BY <1>1, StoredAsClosed
<1>3. \A e \in StoredIndexes : e[3] = "BTREE" => Readable(IndexFile(e[1])) \/ IndexFile(e[1]) \in dropped
  BY <1>1, <1>2 DEF DiskInv, Readable
<1>4. \A e \in StoredIndexes : e[3] = "RTREE" => TypeOfTable(e[2]) # "none"
  <2> SUFFICES ASSUME NEW e \in StoredIndexes, e[3] = "RTREE"  PROVE TypeOfTable(e[2]) # "none"
    OBVIOUS
  <2>1. e[2] \in StoredTables /\ closedAs.tables[e[2]] = "point"
    BY <1>1, <1>2, StoredType DEF Described
  <2>2. "point" # "none"
    OBVIOUS
  <2> QED  BY <1>2, <2>1, <2>2
<1>5. \A r \in RankedRows : r[2] \in StoredTables /\ TypeOfTable(r[2]) = "text"
  <2>1. \A r \in RankedRows : r[2] \in Table
    BY <1>1, StoredType
  <2> QED  BY <1>2, <2>1 DEF Described
<1> QED  BY <1>1, <1>2, <1>3, <1>4, <1>5 DEF Refuses

\* Catalog.__init__ after Catalog.close: the same catalog, or a refusal that is
\* the fault of a CREATE EXTENSION.
THEOREM ReopensAsClosed == Spec => OpenRestores
<1>1. ASSUME CatalogInv, Open, crashed = "no"
      PROVE  IF mode' = "open" THEN Snapshot' = closedAs
             ELSE \E r \in closedAs.ranked : <<r[1], StoredConfig(r[3])>> \notin artifacts
  <2>1. /\ mode \in {"closed", "refused"} /\ ~ Torn /\ ~ Running /\ ~ Saving /\ TypeInv
        /\ CatalogInv' /\ closedAs' = closedAs /\ crashed' = crashed
        /\ dropped = {} /\ early = {}
    BY <1>1, OpenSound, OpenSeen DEF Open, Torn, Running, Saving, CatalogInv, ClosedInv
  <2>2. /\ StoredTables = {t \in Table : closedAs.tables[t] # None}
        /\ \A t \in StoredTables : TypeOfTable(t) = closedAs.tables[t]
        /\ StoredIndexes = closedAs.indexes /\ RankedRows = closedAs.ranked
        /\ Described(View("SysTables"), View("SysColumns"), View("SysIndexes"), View("SysPlugins"),
                     View("SysPluginIndexes"), closedAs.tables, closedAs.indexes, closedAs.ranked)
    BY <1>1, <2>1, StoredAsClosed
  <2>3. DiskInv
    BY <1>1 DEF CatalogInv
  <2>4. CASE mode' = "open"
    <3>1. /\ tables' = [t \in Table |-> IF t \in StoredTables THEN TypeOfTable(t) ELSE None]
          /\ indexes' = StoredIndexes /\ rankedMeta' = RankedRows
      BY <1>1, <2>4 DEF Open
    <3>2. tables' = closedAs.tables /\ indexes' = closedAs.indexes /\ rankedMeta' = closedAs.ranked
      BY <2>1, <2>2, <3>1 DEF TypeInv
    <3>3. \A t \in Table : IF Known(t)' THEN View(TableFile(t))' = closedAs.rows[t] ELSE closedAs.rows[t] = <<>>
      <4>1. \A t \in Table : View(TableFile(t))' = OnDisk(TableFile(t))
        BY <1>1, OpenSeen, FileNames
      <4> QED  BY <2>1, <2>3, <3>2, <4>1 DEF DiskInv, Known
    <3>4. /\ indexes' \in SUBSET (Index \X Table \X {"BTREE", "RTREE"})
          /\ \A e \in indexes' : Rows'[e[2]] = closedAs.rows[e[2]]
      <4>1. \A e \in indexes' : e[2] \in Table /\ Known(e[2])'
        BY <2>1, <2>4 DEF CatalogInv, TypeInv, PoolInv, Running
      <4>2. \A t \in Table : Rows'[t] = View(TableFile(t))'
        BY DEF Rows
      <4> QED  BY <2>1, <3>3, <4>1, <4>2 DEF CatalogInv, TypeInv
    <3>5. [t \in Table |-> IF Known(t)' THEN View(TableFile(t))' ELSE <<>>] = closedAs.rows
      <4>1. \A t \in Table : (IF Known(t)' THEN View(TableFile(t))' ELSE <<>>) = closedAs.rows[t]
        BY <3>3
      <4>2. closedAs.rows = [t \in Table |-> closedAs.rows[t]]
        BY <2>1 DEF TypeInv
      <4> QED  BY <4>1, <4>2
    <3>6. [i \in Index |-> IF \E e \in indexes' : e[1] = i /\ e[3] = "BTREE"
                           THEN View(IndexFile(i))' ELSE EmptyBag] = closedAs.entries
      <4>1. \A i \in Index : View(IndexFile(i))' = OnDisk(IndexFile(i))
        BY <1>1, OpenSeen, FileNames
      <4>2. \A i \in Index : (IF \E e \in indexes' : e[1] = i /\ e[3] = "BTREE"
                              THEN View(IndexFile(i))' ELSE EmptyBag) = closedAs.entries[i]
        BY <2>1, <2>3, <3>2, <4>1 DEF DiskInv
      <4>3. closedAs.entries = [i \in Index |-> closedAs.entries[i]]
        BY <2>1 DEF TypeInv
      <4> QED  BY <4>2, <4>3
    <3>7. spatial' = closedAs.spatial
      <4>1. Spatial(spatial', closedAs.indexes, closedAs.rows)
        <5>1. Spatial(spatial', indexes', Rows')
          BY <2>1, <2>4 DEF CatalogInv, MemoryInv, Running
        <5>2. Spatial(spatial', indexes', closedAs.rows)
          BY <3>4, <5>1, OfTheirTables
        <5> QED  BY <3>2, <5>2
      <4>2. Spatial(closedAs.spatial, closedAs.indexes, closedAs.rows)
        BY <2>1, <2>3 DEF DiskInv
      <4>3. ASSUME NEW S, NEW R, Spatial(S, closedAs.indexes, closedAs.rows),
                   Spatial(R, closedAs.indexes, closedAs.rows)
            PROVE  S \subseteq R
        <5>1. ASSUME NEW x \in S  PROVE x \in R
          <6>1. PICK i \in Index, t \in Table, k \in Key, s \in 1 .. MaxSlots : x = <<i, t, k, s>>
            BY <4>3 DEF Spatial
          <6>2. <<i, t, k, s>> \in S <=> <<i, t, "RTREE">> \in closedAs.indexes
                                           /\ s \in DOMAIN closedAs.rows[t] /\ closedAs.rows[t][s] = k
            BY <4>3 DEF Spatial
          <6>3. <<i, t, k, s>> \in R <=> <<i, t, "RTREE">> \in closedAs.indexes
                                           /\ s \in DOMAIN closedAs.rows[t] /\ closedAs.rows[t][s] = k
            BY <4>3 DEF Spatial
          <6> QED  BY <5>1, <6>1, <6>2, <6>3
        <5> QED  BY <5>1
      <4> QED  BY <4>1, <4>2, <4>3
    <3>8. Snapshot' = [tables |-> closedAs.tables, rows |-> closedAs.rows, indexes |-> closedAs.indexes,
                       entries |-> closedAs.entries, spatial |-> closedAs.spatial, ranked |-> closedAs.ranked]
      BY <3>2, <3>5, <3>6, <3>7 DEF Snapshot
    <3>9. closedAs = [tables |-> closedAs.tables, rows |-> closedAs.rows, indexes |-> closedAs.indexes,
                      entries |-> closedAs.entries, spatial |-> closedAs.spatial, ranked |-> closedAs.ranked]
      BY <2>1 DEF TypeInv
    <3> QED  BY <2>4, <3>8, <3>9
  <2>5. CASE mode' # "open"
    BY <1>1, <2>1, <2>5, WhyRefused
  <2> QED  BY <2>4, <2>5
<1>2. CatalogInv => [Open /\ crashed = "no" =>
                       IF mode' = "open" THEN Snapshot' = closedAs
                       ELSE \E r \in closedAs.ranked : <<r[1], StoredConfig(r[3])>> \notin artifacts]_vars
  BY <1>1
<1> QED  BY <1>2, CatalogInvariant, PTL DEF OpenRestores

\* A crash before Catalog.close takes the database back to the last close, but
\* for the files FileManager.drop has deleted since and those BufferManager.pin
\* has written pages of; and the open is refused only when a B+ tree's file or a
\* ranked index's artifact was deleted, or its plugin configured anew.
THEOREM RollsBack == Spec => CrashRollsBack
<1>1. ASSUME CatalogInv, Open, crashed = "lost", mode' = "open"
      PROVE  /\ tables' = closedAs.tables /\ indexes' = closedAs.indexes /\ rankedMeta' = closedAs.ranked
             /\ \A t \in Table : Known(t)' /\ TableFile(t) \notin early =>
                  pool'[TableFile(t)] = IF TableFile(t) \in dropped THEN <<>> ELSE closedAs.rows[t]
             /\ \A e \in indexes' : e[3] = "BTREE" /\ IndexFile(e[1]) \notin early =>
                  pool'[IndexFile(e[1])] = IF IndexFile(e[1]) \in dropped THEN EmptyBag
                                           ELSE closedAs.entries[e[1]]
  <2>1. /\ mode \in {"closed", "refused"} /\ ~ Torn /\ ~ Running /\ ~ Saving /\ TypeInv /\ DiskInv
        /\ CatalogInv' /\ Running' /\ ~ Saving' /\ early \cap SysFiles = {}
    BY <1>1, OpenSound DEF Open, Torn, Running, Saving, CatalogInv, ClosedInv
  <2>2. /\ StoredTables = {t \in Table : closedAs.tables[t] # None}
        /\ \A t \in StoredTables : TypeOfTable(t) = closedAs.tables[t]
        /\ StoredIndexes = closedAs.indexes /\ RankedRows = closedAs.ranked
    BY <1>1, <2>1, StoredAsClosed
  <2>3. /\ tables' = [t \in Table |-> IF t \in StoredTables THEN TypeOfTable(t) ELSE None]
        /\ indexes' = StoredIndexes /\ rankedMeta' = RankedRows
    BY <1>1 DEF Open
  <2>4. tables' = closedAs.tables /\ indexes' = closedAs.indexes /\ rankedMeta' = closedAs.ranked
    BY <2>1, <2>2, <2>3 DEF TypeInv
  <2>5. \A f \in File : pool'[f] # None => pool'[f] = OnDisk(f)
    BY <1>1, OpenSeen DEF View
  <2>6. /\ \A t \in Table : Known(t)' => pool'[TableFile(t)] # None
        /\ \A e \in indexes' : e[3] = "BTREE" => pool'[IndexFile(e[1])] # None
    BY <2>1 DEF CatalogInv, PoolInv
  <2>7. \A t \in Table : Known(t)' /\ TableFile(t) \notin early =>
          pool'[TableFile(t)] = IF TableFile(t) \in dropped THEN <<>> ELSE closedAs.rows[t]
    BY <2>1, <2>4, <2>5, <2>6, FileNames DEF DiskInv, Known
  <2>8. \A e \in indexes' : e[3] = "BTREE" /\ IndexFile(e[1]) \notin early =>
          pool'[IndexFile(e[1])] = IF IndexFile(e[1]) \in dropped THEN EmptyBag ELSE closedAs.entries[e[1]]
    <3>1. \A e \in closedAs.indexes : e[1] \in Index
      BY <2>1 DEF TypeInv
    <3> QED  BY <2>1, <2>4, <2>5, <2>6, <3>1, FileNames DEF DiskInv
  <2> QED  BY <2>4, <2>7, <2>8
<1>2. ASSUME CatalogInv, Open, crashed = "lost", mode' # "open"
      PROVE  \/ \E e \in closedAs.indexes : e[3] = "BTREE" /\ IndexFile(e[1]) \in dropped
             \/ \E r \in closedAs.ranked : <<r[1], StoredConfig(r[3])>> \notin artifacts
  BY <1>2, WhyRefused DEF Torn
<1>3. CatalogInv =>
        [Open /\ crashed = "lost" =>
           IF mode' = "open"
           THEN /\ tables' = closedAs.tables /\ indexes' = closedAs.indexes /\ rankedMeta' = closedAs.ranked
                /\ \A t \in Table : Known(t)' /\ TableFile(t) \notin early =>
                     pool'[TableFile(t)] = IF TableFile(t) \in dropped THEN <<>> ELSE closedAs.rows[t]
                /\ \A e \in indexes' : e[3] = "BTREE" /\ IndexFile(e[1]) \notin early =>
                     pool'[IndexFile(e[1])] = IF IndexFile(e[1]) \in dropped THEN EmptyBag
                                              ELSE closedAs.entries[e[1]]
           ELSE \/ \E e \in closedAs.indexes : e[3] = "BTREE" /\ IndexFile(e[1]) \in dropped
                \/ \E r \in closedAs.ranked : <<r[1], StoredConfig(r[3])>> \notin artifacts]_vars
  BY <1>1, <1>2
<1> QED  BY <1>3, CatalogInvariant, PTL DEF CrashRollsBack
=============================================================================

--------------------------- MODULE SequentialFile ---------------------------
(***************************************************************************)
(* SequentialFile (engine/storage/sequential_file.py): buckets in key      *)
(* order, each a main page and its chain of overflow pages.  The chains    *)
(* are pointers on the pages; the largest key of each bucket, the order of *)
(* the main pages and the owner of each page are kept in memory, and are   *)
(* rebuilt when the file is opened.                                        *)
(***************************************************************************)
EXTENDS SlottedPage, Functions

CONSTANTS MaxPages,  \* bound on the pages of the file
          Key        \* key_fn: the key of a record

VARIABLES pages,    \* page id -> the pointers and the body of the page
          maxKey,   \* _page_max_key, by main page
          mainNext, \* _main_next, by main page
          owner     \* _page_owner_main

seqVars == <<pages, maxKey, mainNext, owner>>

NoPage == -1  \* _NONE_PAGE, and None as a page id
NoKey  == -1  \* None, which no key is below
Count  == Cardinality(DOMAIN pages)

SeqPage == [next : {NoPage} \cup Nat, over : {NoPage} \cup Nat, body : Page]
Fresh(body) == [next |-> NoPage, over |-> NoPage, body |-> body]

SeqTypeOK ==
  /\ DOMAIN pages = 0 .. Count - 1
  /\ \A p \in DOMAIN pages : pages[p] \in SeqPage
  /\ DOMAIN owner = DOMAIN pages /\ \A p \in DOMAIN owner : owner[p] \in DOMAIN maxKey
  /\ DOMAIN mainNext = DOMAIN maxKey
  /\ \A m \in DOMAIN maxKey :
       maxKey[m] \in {NoKey} \cup Nat /\ mainNext[m] \in {NoPage} \cup DOMAIN maxKey

SeqInit ==
  /\ pages = [p \in {0} |-> Fresh(NewPage)]
  /\ maxKey = [p \in {0} |-> NoKey]
  /\ mainNext = [p \in {0} |-> NoPage]
  /\ owner = [p \in {0} |-> 0]

-----------------------------------------------------------------------------
With(f, x, y) == [z \in DOMAIN f \cup {x} |-> IF z = x THEN y ELSE f[z]]

\* The pages reached from p by following next, as long as there is one.
Path(p, next) ==
  LET walk[n \in 1 .. MaxPages] ==
        IF n = 1 THEN <<p>>
        ELSE LET w == walk[n - 1]
             IN IF next[w[Len(w)]] = NoPage THEN w ELSE Append(w, next[w[Len(w)]])
  IN walk[MaxPages]

\* In a file with the pages ps: the bucket of a main page, the main pages, and
\* what _bucket_max finds in a bucket.
Next(ps)      == [p \in DOMAIN ps |-> ps[p].next]
Bucket(ps, m) == IF ps[m].over = NoPage THEN <<m>> ELSE <<m>> \o Path(ps[m].over, Next(ps))
Mains(ps)     == Path(0, Next(ps))
BucketKeys(ps, m) ==
  UNION {{Key[ps[p].body.slots[i].val] : i \in LiveSlots(ps[p].body)} : p \in Range(Bucket(ps, m))}
BucketMax(ps, m) == Max(BucketKeys(ps, m) \cup {NoKey})

\* _target_main: the first main page with such a key, or the last one.
Target(k) ==
  LET mains == Path(0, mainNext)
      above == {i \in DOMAIN mains : maxKey[mains[i]] >= k}
  IN IF above = {} THEN [main |-> mains[Len(mains)], inRange |-> FALSE]
     ELSE [main |-> mains[Min(above)], inRange |-> TRUE]

\* The pages an insertion tries: of a bucket it is beyond, the main page only.
Tried(k) == LET t == Target(k) IN IF t.inRange THEN Bucket(pages, t.main) ELSE <<t.main>>
Roomy(v) ==
  LET tried == Tried(Key[v])
  IN {i \in DOMAIN tried : Fits(Prepared(pages[tried[i]].body, v), v)}

\* The pages, when those of S have been compacted for want of room for v.
PreparedPages(S, v) ==
  [p \in DOMAIN pages |->
     IF p \in S THEN [pages[p] EXCEPT !.body = Prepared(@, v)] ELSE pages[p]]

\* Mutant of BumpMax: the last key inserted counts as the largest.
BumpMaxToLast(m, k) == maxKey' = With(maxKey, m, k)
BumpMax(m, k) ==
  maxKey' = With(maxKey, m, IF m \in DOMAIN maxKey /\ maxKey[m] > k THEN maxKey[m] ELSE k)

\* The record goes to the first page tried that has room for it; the pages
\* before it have been compacted in vain.
InsertInBucket(v) ==
  /\ Roomy(v) # {}
  /\ LET tried == Tried(Key[v])
         last  == Min(Roomy(v))
     IN pages' = [PreparedPages({tried[i] : i \in 1 .. last}, v)
                    EXCEPT ![tried[last]].body = WithRecord(@, v)]
  /\ BumpMax(Target(Key[v]).main, Key[v])
  /\ UNCHANGED <<mainNext, owner>>

\* No page of the bucket has room: it grows by an overflow page.
InsertInOverflow(v) ==
  /\ Target(Key[v]).inRange /\ Roomy(v) = {} /\ Count < MaxPages
  /\ LET main   == Target(Key[v]).main
         tried  == Tried(Key[v])
         tail   == tried[Len(tried)]
         old    == PreparedPages(Range(tried), v)
         linked == IF tail = main THEN [old EXCEPT ![tail].over = Count]
                                  ELSE [old EXCEPT ![tail].next = Count]
     IN /\ pages' = With(linked, Count, Fresh(WithRecord(NewPage, v)))
        /\ owner' = With(owner, Count, main)
        /\ BumpMax(main, Key[v])
  /\ UNCHANGED mainNext

\* The key is beyond the last bucket, whose main page is full: a new bucket.
InsertInNewMain(v) ==
  /\ ~ Target(Key[v]).inRange /\ Roomy(v) = {} /\ Count < MaxPages
  /\ LET main == Target(Key[v]).main
     IN /\ pages' = With([PreparedPages({main}, v) EXCEPT ![main].next = Count],
                         Count, Fresh(WithRecord(NewPage, v)))
        /\ mainNext' = With(With(mainNext, Count, NoPage), main, Count)
  /\ owner' = With(owner, Count, Count)
  /\ BumpMax(Count, Key[v])

\* _global_waste_stats: what compaction would recover, and what is in use,
\* deleted records included.
Reached(ps)  == UNION {Range(Bucket(ps, m)) : m \in Range(Mains(ps))}
Waste(ps)    == MapThenSumSet(LAMBDA p : Reclaimable(ps[p].body), Reached(ps))
Occupied(ps) ==
  MapThenSumSet(LAMBDA p : PageSize - FreeSpace(ps[p].body) - DirectoryEnd(ps[p].body), Reached(ps))

Wasteful(ps) == LET occupied == Occupied(ps) IN occupied > 0 /\ Waste(ps) * 100 > occupied * 30

Reorganized(ps) ==
  LET reached == Reached(ps)
  IN [p \in DOMAIN ps |->
        IF p \in reached THEN [ps[p] EXCEPT !.body = Compacted(@)] ELSE ps[p]]

\* Mutant of Deleted: the largest key of the bucket is not looked for again.
DeletedKeepingMax(ps, m) == UNCHANGED maxKey
Deleted(ps, m) == maxKey' = [maxKey EXCEPT ![m] = BucketMax(ps, m)]

Remove(p, i) ==
  /\ i \in LiveSlots(pages[p].body)
  /\ LET rest == [pages EXCEPT ![p].body = WithoutRecord(@, i)]
     IN /\ Deleted(rest, owner[p])
        /\ pages' = IF Wasteful(rest) THEN Reorganized(rest) ELSE rest
  /\ UNCHANGED <<mainNext, owner>>

\* _rebuild_chain_metadata, of the pages of the file.
RebuiltMax   == [m \in Range(Mains(pages)) |-> BucketMax(pages, m)]
RebuiltNext  == [m \in Range(Mains(pages)) |-> pages[m].next]
RebuiltOwner ==
  LET bucket == [m \in Range(Mains(pages)) |-> Range(Bucket(pages, m))]
  IN [p \in Reached(pages) |-> CHOOSE m \in DOMAIN bucket : p \in bucket[m]]

Reopen ==
  /\ maxKey' = RebuiltMax /\ mainNext' = RebuiltNext /\ owner' = RebuiltOwner
  /\ UNCHANGED pages

SeqNext ==
  \/ \E v \in Val : InsertInBucket(v) \/ InsertInOverflow(v) \/ InsertInNewMain(v)
  \/ \E p \in DOMAIN pages : \E i \in DOMAIN pages[p].body.slots : Remove(p, i)
  \/ Reopen
=============================================================================

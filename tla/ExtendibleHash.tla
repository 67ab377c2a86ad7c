---------------------------- MODULE ExtendibleHash ---------------------------
(***************************************************************************)
(* The extendible hash index (engine/indexes/extendible_hash.py,           *)
(* _hash_page.py).  An insertion tries the bucket of its digest; a full    *)
(* bucket is split, the directory doubled first if it must be, and the     *)
(* insertion tries again, until the depth limit makes the bucket overflow. *)
(***************************************************************************)
EXTENDS Naturals, Sequences, SequencesExt

CONSTANTS Key, Rid,
          Digest,       \* _hash_encoded: of an int, the int itself
          EntrySize,    \* the bytes of an entry of a key
          BucketSize,   \* the bytes of a page after the bucket header
          MaxDepth,     \* HASH_GLOBAL_DEPTH_MAX
          HashPages     \* bound on the buckets of the file

VARIABLES directory,    \* the bucket of each slot
          globalDepth,
          buckets,      \* the bucket pages, overflow pages included
          inserting     \* the entry whose insertion is under way, if any

\* Page 0 is the metadata, which no chain leads to.
NoOverflow == 0
NoEntry == <<>>

Bit(n, i) == (n \div 2 ^ i) % 2
Slot(k) == Digest[k] % 2 ^ globalDepth
BucketOf(k) == directory[Slot(k)]

NewBucket(depth, es) == [depth |-> depth, entries |-> es, overflow |-> NoOverflow]

HasRoom(b, k) ==
  FoldLeft(LAMBDA n, e : n + EntrySize[e[1]], EntrySize[k], buckets[b].entries) <= BucketSize
\* Mutant of AddEntry: an entry takes the place of the others of its key.
AddEntryReplacing(b, e) ==
  [buckets EXCEPT ![b].entries = Append(SelectSeq(@, LAMBDA d : d[1] # e[1]), e)]
AddEntry(b, e) == [buckets EXCEPT ![b].entries = Append(@, e)]

\* The entries of a page that are in a set, in their order.
Only(es, X) ==
  LET From[i \in 0 .. Len(es)] ==
        IF i = 0 THEN <<>> ELSE IF es[i] \in X THEN Append(From[i - 1], es[i]) ELSE From[i - 1]
  IN From[Len(es)]

\* What a walk over a bucket and its overflow pages collects: a part per page.
Along(b, part) ==
  LET From[c \in DOMAIN buckets] ==
        IF buckets[c].overflow = NoOverflow THEN part[c] ELSE part[c] \o From[buckets[c].overflow]
  IN From[b]

ChainOf(b) == Along(b, [c \in DOMAIN buckets |-> <<c>>])

\* search
Found(k) == Along(BucketOf(k), [c \in DOMAIN buckets |-> Only(buckets[c].entries, {k} \X Rid)])

-----------------------------------------------------------------------------
HashInit ==
  /\ globalDepth = 0
  /\ directory = [s \in {0} |-> 1]
  /\ buckets = <<NewBucket(0, <<>>)>>
  /\ inserting = NoEntry

StartInsert(k, r) ==
  /\ inserting = NoEntry
  /\ EntrySize[k] <= BucketSize
  /\ inserting' = <<k, r>>
  /\ UNCHANGED <<directory, globalDepth, buckets>>

AddToBucket ==
  /\ inserting # NoEntry
  /\ HasRoom(BucketOf(inserting[1]), inserting[1])
  /\ buckets' = AddEntry(BucketOf(inserting[1]), inserting)
  /\ inserting' = NoEntry
  /\ UNCHANGED <<directory, globalDepth>>

Full == inserting # NoEntry /\ ~HasRoom(BucketOf(inserting[1]), inserting[1])

\* _double_directory: every new slot points where its suffix does.
Doubled == [s \in 0 .. 2 ^ (globalDepth + 1) - 1 |-> directory[s % 2 ^ globalDepth]]

\* _split_bucket: entries with a one in the next bit move to a new bucket, and
\* so does every slot of the bucket's suffix with that bit.
SplitBucket ==
  LET b == BucketOf(inserting[1])
      depth == buckets[b].depth
      suffix == Slot(inserting[1]) % 2 ^ depth
      dir == IF depth = globalDepth THEN Doubled ELSE directory
      Moving == {e \in Range(buckets[b].entries) : Bit(Digest[e[1]], depth) = 1}
      new == Len(buckets) + 1
  IN /\ Full
     /\ depth < MaxDepth
     /\ globalDepth' = IF depth = globalDepth THEN globalDepth + 1 ELSE globalDepth
     /\ buckets' = Append([buckets EXCEPT ![b].depth = depth + 1,
                                          ![b].entries = Only(@, Range(@) \ Moving)],
                          NewBucket(depth + 1, Only(buckets[b].entries, Moving)))
     /\ directory' = [s \in DOMAIN dir |-> IF s % 2 ^ (depth + 1) = suffix + 2 ^ depth THEN new ELSE dir[s]]
     /\ UNCHANGED inserting

\* _insert_into_overflow: the last page of the chain, or one more.
Overflow ==
  LET b == BucketOf(inserting[1])
      last == Last(ChainOf(b))
      new == Len(buckets) + 1
  IN /\ Full
     /\ buckets[b].depth >= MaxDepth
     /\ buckets' = IF HasRoom(last, inserting[1])
                   THEN AddEntry(last, inserting)
                   ELSE Append([buckets EXCEPT ![last].overflow = new],
                               NewBucket(MaxDepth, <<inserting>>))
     /\ inserting' = NoEntry
     /\ UNCHANGED <<directory, globalDepth>>

\* The pages after remove(key) or remove(key, rid).
Without(k, rids) ==
  [b \in DOMAIN buckets |->
     IF b \in Range(ChainOf(BucketOf(k)))
     THEN [buckets[b] EXCEPT !.entries = Only(@, Range(@) \ ({k} \X rids))]
     ELSE buckets[b]]

RemoveFromChain(k, rids) ==
  /\ inserting = NoEntry
  /\ buckets' = Without(k, rids)
  /\ UNCHANGED <<directory, globalDepth, inserting>>

EntriesOf(bs) == UNION {Range(bs[b].entries) : b \in DOMAIN bs}
Kept == EntriesOf(buckets)

HashNext ==
  \/ \E k \in Key, r \in Rid : /\ <<k, r>> \notin Kept
                               /\ Len(buckets) < HashPages
                               /\ StartInsert(k, r)
  \/ AddToBucket \/ SplitBucket \/ Overflow
  \/ \E k \in Key : \/ RemoveFromChain(k, Rid)
                    \/ \E r \in Rid : RemoveFromChain(k, {r})

-----------------------------------------------------------------------------
\* A slot leads to the bucket of its suffix, a bucket of depth d is led to by
\* every slot of its suffix and holds the keys of that suffix only, and every
\* page of the file is in the chain of exactly one slot class.
DirectorySound ==
  /\ DOMAIN directory = 0 .. 2 ^ globalDepth - 1 /\ globalDepth <= MaxDepth
  /\ \A s \in DOMAIN directory :
       LET b == directory[s]
           mask == 2 ^ buckets[b].depth IN
       /\ buckets[b].depth <= globalDepth
       /\ {t \in DOMAIN directory : directory[t] = b} = {t \in DOMAIN directory : t % mask = s % mask}
       /\ \A c \in Range(ChainOf(b)), k \in Key :
            (\E r \in Rid : <<k, r>> \in Range(buckets[c].entries)) => Digest[k] % mask = s % mask
  /\ \A b \in DOMAIN buckets : \E s \in DOMAIN directory : b \in Range(ChainOf(directory[s]))
=============================================================================

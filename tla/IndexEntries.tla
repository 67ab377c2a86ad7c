----------------------------- MODULE IndexEntries ----------------------------
(***************************************************************************)
(* What an index promises (engine/indexes/base.py, Index): it holds the    *)
(* (key, RID) entries inserted and not removed, whatever it does to its    *)
(* pages meanwhile, and what it opens with again are its entries as of the *)
(* last change that was saved.                                             *)
(***************************************************************************)
CONSTANTS Key, Rid

VARIABLES entries,
          saved  \* the entries it would open with

vars == <<entries, saved>>

Insert(k, r) == entries' = entries \cup {<<k, r>>}

\* The entry of a row that a crash lost gives way to the row that has its id.
Replace(k, r) == entries' = (entries \ (Key \X {r})) \cup {<<k, r>>}

\* remove(key) drops the RIDs of the key, remove(key, rid) the one entry.
Remove(k, rids) == entries' = entries \ ({k} \X rids)

\* A change is saved, or fails to be and is there until the index is opened again.
Save == saved' = entries' \/ UNCHANGED saved

Reopen == entries' = saved /\ UNCHANGED saved

\* CREATE INDEX fills it with what the table has.
IndexInit == entries \subseteq Key \X Rid /\ saved = entries

Change ==
  \E k \in Key : \/ \E r \in Rid : Insert(k, r) \/ Replace(k, r)
                 \/ \E rids \in SUBSET Rid : Remove(k, rids)

IndexNext == (Change /\ Save) \/ Reopen

IndexSpec == IndexInit /\ [][IndexNext]_vars
=============================================================================

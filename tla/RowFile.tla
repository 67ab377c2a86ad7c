------------------------------- MODULE RowFile ------------------------------
(***************************************************************************)
(* What a file organization promises (engine/storage/base.py): a row is    *)
(* kept under the record id its insertion returned until it is removed, no *)
(* id is given out twice, and a crash takes every page back to what was    *)
(* last saved of it.                                                       *)
(***************************************************************************)
CONSTANTS Val, PageId

VARIABLES rows,  \* the rows, by record id: page and slot
          used,  \* the record ids given out
          saved  \* the rows of the file on disk

fileVars == <<rows, used, saved>>

Nothing == [r \in {} |-> r]

FileInit == rows = Nothing /\ used = {} /\ saved = Nothing

Insert(r, v) ==
  /\ r \notin used
  /\ used' = used \cup {r}
  /\ rows' = [q \in DOMAIN rows \cup {r} |-> IF q = r THEN v ELSE rows[q]]
  /\ UNCHANGED saved

Remove(r) ==
  /\ r \in DOMAIN rows
  /\ rows' = [q \in DOMAIN rows \ {r} |-> rows[q]]
  /\ UNCHANGED <<used, saved>>

Save(p) ==
  /\ saved' = [r \in {q \in DOMAIN rows : q[1] = p} \cup {q \in DOMAIN saved : q[1] # p} |->
                 IF r[1] = p THEN rows[r] ELSE saved[r]]
  /\ UNCHANGED <<rows, used>>

Crash ==
  /\ rows' = saved
  /\ DOMAIN saved \subseteq used' /\ used' \subseteq used
  /\ UNCHANGED saved

FileNext ==
  \/ \E r \in used' \ used, v \in Val : Insert(r, v)
  \/ \E r \in DOMAIN rows : Remove(r)
  \/ \E p \in PageId : Save(p)
  \/ Crash

FileSpec == FileInit /\ [][FileNext]_fileVars
=============================================================================

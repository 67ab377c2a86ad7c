----------------------------- MODULE PageStore ------------------------------
(***************************************************************************)
(* What the storage layer promises of the pages of a file: a page is       *)
(* changed only by a client that has opened it and keeps what was last     *)
(* written to it; the content of a page may become durable at any time; a  *)
(* crash takes every page back to its durable content.                     *)
(***************************************************************************)
CONSTANTS Page, Data, Zero

VARIABLES content,  \* what a reader finds on each page
          durable,  \* what it would find after a crash
          open      \* the pages clients have opened

pageVars == <<content, durable, open>>

StoreInit ==
  /\ content = [p \in Page |-> Zero]
  /\ durable = [p \in Page |-> Zero]
  /\ open = {}

Open(p)  == open' = open \cup {p} /\ UNCHANGED <<content, durable>>
Close(p) == open' = open \ {p} /\ UNCHANGED <<content, durable>>

Write(p, d) ==
  /\ p \in open
  /\ content' = [content EXCEPT ![p] = d]
  /\ UNCHANGED <<durable, open>>

Flush(p) ==
  /\ durable' = [durable EXCEPT ![p] = content[p]]
  /\ UNCHANGED <<content, open>>

Crash == content' = durable /\ open' = {} /\ UNCHANGED durable

StoreNext ==
  \/ \E p \in Page, d \in Data : Write(p, d)
  \/ \E p \in Page : Open(p) \/ Close(p) \/ Flush(p)
  \/ Crash

StoreSpec == StoreInit /\ [][StoreNext]_pageVars
=============================================================================

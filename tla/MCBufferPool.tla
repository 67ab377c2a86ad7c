---------------------------- MODULE MCBufferPool ----------------------------
(***************************************************************************)
(* A model-checking instance of BufferPool.                                *)
(***************************************************************************)
EXTENDS BufferPool, TLC

Symmetric == Permutations(Data \ {Zero}) \cup Permutations(Thread)

\* Behaviours with calls that overlap are followed for readers of a file that has
\* its pages, who hold one page between them: what is checked of overlapping calls
\* depends on which pages are in the pool, not on what is in them.
Followed ==
  overlapped' => /\ count' = MaxPages /\ length' = MaxPages
                 /\ dirty' = {} /\ edited' = {}
                 /\ \A p \in Page : disk'[p] = Zero /\ frame'[p] = Zero
                 /\ \A e, f \in holds' : e[2] = f[2]
=============================================================================

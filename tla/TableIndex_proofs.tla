-------------------------- MODULE TableIndex_proofs --------------------------
(***************************************************************************)
(* Proofs about the indexes of a table, for any keys, record ids, sizes    *)
(* and bounds: the inverted index with its delta, then the extendible      *)
(* hash.  What is said of a kind of index is said of the behaviours of     *)
(* TableIndex in which the index is of that kind.                          *)
(***************************************************************************)
EXTENDS TableIndex, FiniteSetTheorems, SequenceTheorems,
        WellFoundedInduction, TLAPS

-----------------------------------------------------------------------------
(* The best hits of a search.                                               *)

Hit == Int \X Nat

\* The hits of X that are better than h.
Ahead(X, h) == {g \in X : I!Better(g, h)}

LEMMA FirstIs == \A X, n : I!First(X, n) = {h \in X : Cardinality(Ahead(X, h)) < n}
<1>1. \A T : I!Cardinality(T) = Cardinality(T)
  BY DEF I!Cardinality, Cardinality, I!IsFiniteSet, IsFiniteSet
<1> QED BY <1>1 DEF I!First, Ahead

LEMMA BetterOrders ==
  /\ \A g, h \in Hit : I!Better(g, h) => ~ I!Better(h, g)
  /\ \A f, g, h \in Hit : I!Better(f, g) /\ I!Better(g, h) => I!Better(f, h)
BY SMT DEF I!Better, Hit

LEMMA AheadFinite ==
  ASSUME NEW X, IsFiniteSet(X), NEW h
  PROVE  IsFiniteSet(Ahead(X, h)) /\ Cardinality(Ahead(X, h)) \in Nat
BY FS_Subset, FS_CardinalityType DEF Ahead

\* Fewer hits of a smaller set are better than a hit.
LEMMA AheadMonotone ==
  ASSUME NEW X, IsFiniteSet(X), NEW Y, Y \subseteq X, NEW h
  PROVE  Cardinality(Ahead(Y, h)) <= Cardinality(Ahead(X, h))
<1>1. Ahead(Y, h) \in SUBSET Ahead(X, h)
  BY DEF Ahead
<1> QED BY <1>1, AheadFinite, FS_Subset

\* A better hit has strictly fewer better than itself.
LEMMA AheadLess ==
  ASSUME NEW X \in SUBSET Hit, IsFiniteSet(X), NEW h \in Hit, NEW g \in X, I!Better(g, h)
  PROVE  Cardinality(Ahead(X, g)) < Cardinality(Ahead(X, h)) /\ Ahead(X, g) \subseteq Ahead(X, h)
<1>1. Ahead(X, g) \in SUBSET Ahead(X, h) /\ g \in Ahead(X, h) /\ g \notin Ahead(X, g)
  BY BetterOrders DEF Ahead
<1>2. Cardinality(Ahead(X, g)) <= Cardinality(Ahead(X, h))
  BY <1>1, AheadFinite, FS_Subset
<1>3. Cardinality(Ahead(X, g)) # Cardinality(Ahead(X, h))
  BY <1>1, AheadFinite, FS_Subset
<1> QED BY <1>1, <1>2, <1>3, AheadFinite

\* A set of subsets of a finite set has a minimal one.
LEMMA LeastSubset ==
  ASSUME NEW T, IsFiniteSet(T), NEW C \in SUBSET SUBSET T, C # {}
  PROVE  \E s \in C : \A u \in C : u \subseteq s => u = s
<1>1. IsWellFoundedOn(StrictSubsetOrdering(T), SUBSET T)
  BY FS_StrictSubsetOrderingWellFounded, FS_FiniteSubsetsOfFinite
<1>2. PICK s \in C : \A u \in C : ~ (<<u, s>> \in StrictSubsetOrdering(T))
  BY <1>1, WFMin
<1> QED BY <1>2 DEF StrictSubsetOrdering

\* Of some hits, one is better than all the others.
LEMMA BestHit ==
  ASSUME NEW X \in SUBSET Hit, IsFiniteSet(X), NEW W \in SUBSET X, W # {}
  PROVE  \E g \in W : \A f \in W : ~ I!Better(f, g)
<1> DEFINE C == {Ahead(X, g) : g \in W}
<1>1. C \in SUBSET SUBSET X /\ C # {}
  BY DEF Ahead
<1> HIDE DEF C
<1>2. PICK s \in C : \A u \in C : u \subseteq s => u = s
  BY <1>1, LeastSubset
<1>3. PICK g \in W : s = Ahead(X, g)
  BY <1>2 DEF C
<1>4. ASSUME NEW f \in W, I!Better(f, g) PROVE FALSE
  <2>1. Cardinality(Ahead(X, f)) < Cardinality(Ahead(X, g)) /\ Ahead(X, f) \subseteq Ahead(X, g)
    BY <1>4, AheadLess
  <2>2. Ahead(X, f) = Ahead(X, g)
    BY <1>2, <1>3, <2>1 DEF C
  <2> QED BY <2>1, <2>2, AheadFinite
<1> QED BY <1>4

\* The first n of a set of hits are those of any part that contains them.
LEMMA FirstOfPart ==
  ASSUME NEW X \in SUBSET Hit, IsFiniteSet(X), NEW Y \in SUBSET X, NEW n \in Nat,
         I!First(X, n) \subseteq Y
  PROVE  I!First(Y, n) = I!First(X, n)
<1>1. ASSUME NEW h \in I!First(X, n) PROVE h \in I!First(Y, n)
  <2>1. h \in Y /\ Cardinality(Ahead(X, h)) < n
    BY <1>1, FirstIs
  <2>2. Cardinality(Ahead(Y, h)) <= Cardinality(Ahead(X, h))
    BY AheadMonotone
  <2>3. IsFiniteSet(Y)
    BY FS_Subset
  <2> QED BY <2>1, <2>2, <2>3, FirstIs, AheadFinite
<1>2. ASSUME NEW h \in I!First(Y, n), h \notin I!First(X, n) PROVE FALSE
  <2> DEFINE W == {g \in X \ Y : I!Better(g, h)}
  <2>1. h \in Y /\ Cardinality(Ahead(Y, h)) < n
    BY <1>2, FirstIs
  <2>2. ~ (Cardinality(Ahead(X, h)) < n)
    BY <1>2, <2>1, FirstIs
  <2>3. W # {}
    <3>1. Ahead(X, h) # Ahead(Y, h)
      BY <2>1, <2>2
    <3> QED BY <3>1 DEF Ahead
  <2>4. PICK g \in W : \A f \in W : ~ I!Better(f, g)
    <3>1. W \in SUBSET X
      OBVIOUS
    <3> HIDE DEF W
    <3> QED BY <2>3, <3>1, BestHit
  <2>5. Ahead(X, g) \subseteq Ahead(Y, h)
    <3> SUFFICES ASSUME NEW f \in Ahead(X, g) PROVE f \in Ahead(Y, h)
      OBVIOUS
    <3>1. f \in X /\ I!Better(f, g) /\ g \in X /\ I!Better(g, h) /\ h \in X
      BY <2>1 DEF Ahead
    <3>2. I!Better(f, h)
      BY <3>1, BetterOrders
    <3>3. f \in Y
      BY <2>4, <3>1, <3>2
    <3> QED BY <3>2, <3>3 DEF Ahead
  <2>6. Cardinality(Ahead(X, g)) <= Cardinality(Ahead(Y, h))
    <3>1. IsFiniteSet(Ahead(Y, h))
      BY AheadFinite, FS_Subset
    <3> QED BY <2>5, <3>1, FS_Subset
  <2>7. g \in X /\ g \notin I!First(X, n)
    BY <2>4
  <2>8. ~ (Cardinality(Ahead(X, g)) < n)
    BY <2>7, FirstIs
  <2> QED BY <2>1, <2>6, <2>8, AheadFinite, FS_Subset
<1>3. I!First(Y, n) \subseteq X
  BY FirstIs
<1> QED BY <1>1, <1>2

-----------------------------------------------------------------------------
(* The inverted index: what is in its delta, and in the file of the delta.  *)

\* Documents that were added, and record ids that were removed.
DeltaOf(a, d) ==
  /\ DOMAIN a \subseteq Documents /\ a \in [DOMAIN a -> Key] /\ d \subseteq Documents
  /\ DOMAIN a \cap (d \cup DOMAIN built) = {}

Plus(a, r, k) == [x \in DOMAIN a \cup {r} |-> IF x = r THEN k ELSE a[x]]
Minus(a, r) == [x \in DOMAIN a \ {r} |-> a[x]]

\* The file may hold any delta, of whatever moment it was last written in.
InvertedInv ==
  /\ DOMAIN built \subseteq Documents /\ built \in [DOMAIN built -> Key]
  /\ sidecar = <<sidecar[1], sidecar[2]>>
  /\ DeltaOf(added, removed) /\ DeltaOf(sidecar[1], sidecar[2])

IsInverted == kind = "INVERTED"

LEMMA InvertedStarts == Init /\ IsInverted => InvertedInv
<1> SUFFICES ASSUME Init, IsInverted PROVE InvertedInv
  OBVIOUS
<1>1. I!InvertedInit
  BY DEF Init, IsInverted
<1>2. /\ DOMAIN built \subseteq Documents /\ built \in [DOMAIN built -> Key]
      /\ added = <<>> /\ removed = {} /\ sidecar = <<added, removed>>
  BY <1>1 DEF I!InvertedInit
<1>3. DeltaOf(added, removed)
  BY <1>2 DEF DeltaOf
<1> QED BY <1>2, <1>3 DEF InvertedInv

\* What a step does to the delta; it saves it, or leaves the file as it was.
LEMMA InsertDocumentIs ==
  ASSUME InvertedInv, NEW k \in Key, NEW r \in Documents, I!InsertDocument(k, r)
  PROVE  /\ r \notin DOMAIN built
         /\ added' = Plus(added, r, k) /\ removed' = removed \ {r} /\ built' = built
         /\ DeltaOf(added', removed')
         /\ sidecar' = <<added', removed'>> \/ sidecar' = sidecar
<1>1. /\ r \notin DOMAIN built
      /\ added' = Plus(added, r, k) /\ removed' = removed \ {r} /\ built' = built
      /\ sidecar' = <<added', removed'>> \/ sidecar' = sidecar
  BY DEF I!InsertDocument, I!Persist, Plus
<1>2. DeltaOf(Plus(added, r, k), removed \ {r})
  BY <1>1 DEF DeltaOf, Plus, InvertedInv
<1> QED BY <1>1, <1>2

LEMMA RemoveDocumentIs ==
  ASSUME InvertedInv, NEW r \in Documents, I!RemoveDocument(r)
  PROVE  /\ added' = Minus(added, r) /\ removed' = removed \cup {r} /\ built' = built
         /\ DeltaOf(added', removed')
         /\ sidecar' = <<added', removed'>> \/ sidecar' = sidecar
<1>1. /\ added' = Minus(added, r) /\ removed' = removed \cup {r} /\ built' = built
      /\ sidecar' = <<added', removed'>> \/ sidecar' = sidecar
  BY DEF I!RemoveDocument, I!AddedWithout, I!Persist, Minus
<1>2. DeltaOf(Minus(added, r), removed \cup {r})
  BY DEF DeltaOf, Minus, InvertedInv
<1> QED BY <1>1, <1>2

LEMMA ReopenInvertedIs ==
  ASSUME I!ReopenInverted
  PROVE  added' = sidecar[1] /\ removed' = sidecar[2] /\ built' = built /\ sidecar' = sidecar
BY DEF I!ReopenInverted

LEMMA InvertedStepKeeps ==
  ASSUME InvertedInv, I!InvertedNext
  PROVE  InvertedInv' /\ built' = built
<1>1. /\ DOMAIN built \subseteq Documents /\ built \in [DOMAIN built -> Key]
      /\ sidecar = <<sidecar[1], sidecar[2]>> /\ DeltaOf(sidecar[1], sidecar[2])
  BY DEF InvertedInv
<1>2. SUFFICES /\ built' = built /\ DeltaOf(added', removed')
               /\ sidecar' = <<added', removed'>> \/ sidecar' = sidecar
  BY <1>1 DEF InvertedInv, DeltaOf
<1>3. CASE \E k \in Key, r \in Documents : I!InsertDocument(k, r)
  BY <1>3, InsertDocumentIs
<1>4. CASE \E r \in Documents : I!RemoveDocument(r)
  BY <1>4, RemoveDocumentIs
<1>5. CASE I!ReopenInverted
  BY <1>1, <1>5, ReopenInvertedIs
<1> QED BY <1>3, <1>4, <1>5 DEF I!InvertedNext

LEMMA InvertedKeeps ==
  ASSUME IsInverted => InvertedInv, [Next]_vars
  PROVE  IsInverted' => InvertedInv'
<1>1. CASE UNCHANGED vars
  BY <1>1 DEF vars, textOnly, IsInverted, InvertedInv, DeltaOf
<1>2. CASE Next
  <2>1. kind' = kind
    BY <1>2 DEF Next
  <2>2. IsInverted => I!InvertedNext
    BY <1>2 DEF Next, IsInverted
  <2> QED BY <2>1, <2>2, InvertedStepKeeps DEF IsInverted
<1> QED BY <1>1, <1>2

\* What memory and the file hold of the delta of an inverted index, after any
\* additions and removals, any number of failed writes, and restarts.
THEOREM InvertedInvariant == Spec => [](IsInverted => InvertedInv)
BY InvertedStarts, InvertedKeeps, PTL DEF Spec

LEMMA DeltaHolds == InvertedInv => I!DeltaSound
BY DEF InvertedInv, DeltaOf, I!DeltaSound

-----------------------------------------------------------------------------
(* The documents of an inverted index, as the entries of an index.          *)

LEMMA TextsPlus ==
  ASSUME NEW a, NEW d, NEW r, NEW k, r \notin DOMAIN built
  PROVE  I!TextsOf(Plus(a, r, k), d \ {r})
           = {t \in I!TextsOf(a, d) : t[2] # r} \cup {<<k, r>>}
<1>1. DOMAIN Plus(a, r, k) = DOMAIN a \cup {r}
      /\ \A x \in DOMAIN a \cup {r} : Plus(a, r, k)[x] = IF x = r THEN k ELSE a[x]
  BY DEF Plus
<1>2. {<<Plus(a, r, k)[x], x>> : x \in DOMAIN a \cup {r}}
        = {<<a[x], x>> : x \in DOMAIN a \ {r}} \cup {<<k, r>>}
  BY <1>1
<1>3. I!TextsOf(Plus(a, r, k), d \ {r})
        = {<<a[x], x>> : x \in DOMAIN a \ {r}} \cup {<<built[x], x>> : x \in DOMAIN built \ d}
          \cup {<<k, r>>}
  BY <1>1, <1>2 DEF I!TextsOf
<1>4. {t \in I!TextsOf(a, d) : t[2] # r}
        = {<<a[x], x>> : x \in DOMAIN a \ {r}} \cup {<<built[x], x>> : x \in DOMAIN built \ d}
  BY DEF I!TextsOf
<1> QED BY <1>3, <1>4

LEMMA TextsMinus ==
  ASSUME NEW a, NEW d, NEW r
  PROVE  I!TextsOf(Minus(a, r), d \cup {r}) = {t \in I!TextsOf(a, d) : t[2] # r}
<1>1. DOMAIN Minus(a, r) = DOMAIN a \ {r} /\ \A x \in DOMAIN a \ {r} : Minus(a, r)[x] = a[x]
  BY DEF Minus
<1>2. I!TextsOf(Minus(a, r), d \cup {r})
        = {<<a[x], x>> : x \in DOMAIN a \ {r}} \cup {<<built[x], x>> : x \in (DOMAIN built \ d) \ {r}}
  BY <1>1 DEF I!TextsOf
<1>3. {t \in I!TextsOf(a, d) : t[2] # r}
        = {<<a[x], x>> : x \in DOMAIN a \ {r}} \cup {<<built[x], x>> : x \in (DOMAIN built \ d) \ {r}}
  BY DEF I!TextsOf
<1> QED BY <1>2, <1>3

LEMMA TextsTyped ==
  ASSUME NEW a, NEW d, DeltaOf(a, d), built \in [DOMAIN built -> Key], DOMAIN built \subseteq Documents
  PROVE  I!TextsOf(a, d) \subseteq Key \X Documents
BY DEF DeltaOf, I!TextsOf

\* A document has one text.
LEMMA OneText ==
  ASSUME NEW a, NEW d, DeltaOf(a, d), NEW t \in I!TextsOf(a, d), NEW u \in I!TextsOf(a, d), t[2] = u[2]
  PROVE  t = u
BY DEF DeltaOf, I!TextsOf

-----------------------------------------------------------------------------
(* The search of an inverted index.                                         *)

\* Hits, one for each of finitely many documents.
LEMMA HitsFinite ==
  ASSUME NEW D, IsFiniteSet(D), NEW s
  PROVE  IsFiniteSet({<<s[r], r>> : r \in D})
<1> DEFINE T == {<<s[r], r>> : r \in D}
           f == [r \in D |-> <<s[r], r>>]
<1>1. f \in Surjection(D, T)
  BY DEF Surjection
<1> HIDE DEF f, T
<1>2. IsFiniteSet(T)
  BY <1>1, FS_Surjection
<1> QED BY <1>2 DEF T

LEMMA HitsTyped ==
  ASSUME InvertedInv
  PROVE  /\ I!BuiltHits \in SUBSET Hit /\ IsFiniteSet(I!BuiltHits)
         /\ I!DeltaHits \in SUBSET Hit /\ IsFiniteSet(I!DeltaHits)
<1>1. /\ DOMAIN built \subseteq Documents /\ built \in [DOMAIN built -> Key]
      /\ DOMAIN added \subseteq Documents /\ added \in [DOMAIN added -> Key]
  BY DEF InvertedInv, DeltaOf
<1>2. Documents \subseteq Nat /\ IsFiniteSet(Documents)
  BY ConstantsAssumption
<1>3. \A k \in Key : (BuiltScore[k] # NoMatch => BuiltScore[k] \in Int) /\ DeltaScore[k] \in Int
  BY ConstantsAssumption
<1> DEFINE Matched == {x \in DOMAIN built : BuiltScore[built[x]] # NoMatch}
           Scored == {x \in DOMAIN added : DeltaScore[added[x]] > 0}
           bs == [r \in DOMAIN built |-> BuiltScore[built[r]]]
           ds == [r \in DOMAIN added |-> DeltaScore[added[r]]]
<1>4. I!BuiltHits = {<<bs[r], r>> : r \in Matched} /\ I!DeltaHits = {<<ds[r], r>> : r \in Scored}
  BY DEF I!BuiltHits, I!DeltaHits
<1>5. IsFiniteSet(Matched) /\ IsFiniteSet(Scored)
  <2>1. Matched \in SUBSET Documents /\ Scored \in SUBSET Documents
    BY <1>1
  <2> QED BY <1>2, <2>1, FS_Subset
<1>6. /\ \A r \in Matched : bs[r] \in Int /\ r \in Nat
      /\ \A r \in Scored : ds[r] \in Int /\ r \in Nat
  BY <1>1, <1>2, <1>3
<1> HIDE DEF Matched, Scored, bs, ds
<1>7. IsFiniteSet({<<bs[r], r>> : r \in Matched}) /\ IsFiniteSet({<<ds[r], r>> : r \in Scored})
  BY <1>5, HitsFinite
<1> QED BY <1>4, <1>6, <1>7 DEF Hit

LEMMA RelevantIs ==
  I!Relevant = {h \in I!BuiltHits : h[2] \notin removed} \cup I!DeltaHits
<1>1. DOMAIN I!Kept = DOMAIN built \ removed /\ \A r \in DOMAIN built \ removed : I!Kept[r] = built[r]
  BY DEF I!Kept
<1>2. {<<BuiltScore[I!Kept[r]], r>> : r \in {x \in DOMAIN I!Kept : BuiltScore[I!Kept[x]] # NoMatch}}
      = {<<BuiltScore[built[r]], r>> : r \in {x \in DOMAIN built \ removed : BuiltScore[built[x]] # NoMatch}}
  BY <1>1
<1>3. {h \in I!BuiltHits : h[2] \notin removed}
      = {<<BuiltScore[built[r]], r>> : r \in {x \in DOMAIN built \ removed : BuiltScore[built[x]] # NoMatch}}
  BY DEF I!BuiltHits
<1> QED BY <1>2, <1>3 DEF I!Relevant

\* The hits of the built index that are gone are no more than the removed ids.
LEMMA DeadHits ==
  ASSUME InvertedInv
  PROVE  LET dead == {h \in I!BuiltHits : h[2] \in removed}
         IN /\ IsFiniteSet(dead) /\ IsFiniteSet(removed)
            /\ Cardinality(dead) <= Cardinality(removed)
<1> DEFINE dead == {h \in I!BuiltHits : h[2] \in removed}
           f == [h \in dead |-> h[2]]
<1>1. IsFiniteSet(removed)
  <2>1. removed \in SUBSET Documents /\ IsFiniteSet(Documents)
    BY ConstantsAssumption DEF InvertedInv, DeltaOf
  <2> QED BY <2>1, FS_Subset
<1>2. \A h, g \in I!BuiltHits : h[2] = g[2] => h = g
  BY DEF I!BuiltHits
<1>3. f \in Injection(dead, removed)
  <2>1. f \in [dead -> removed]
    OBVIOUS
  <2>2. \A h, g \in dead : f[h] = f[g] => h = g
    BY <1>2
  <2> HIDE DEF f, dead
  <2> QED BY <2>1, <2>2 DEF Injection, IsInjective
<1>4. IsFiniteSet(dead) /\ Cardinality(dead) <= Cardinality(removed)
  <2> HIDE DEF f, dead
  <2>1. IsFiniteSet(dead)
    BY <1>1, <1>3, FS_Injection
  <2>2. Cardinality(dead) <= Cardinality(removed)
    BY <1>1, <1>3, FS_Injection
  <2> QED BY <2>1, <2>2
<1> QED BY <1>1, <1>4

LEMMA UnionBound ==
  ASSUME NEW S, IsFiniteSet(S), NEW T, IsFiniteSet(T)
  PROVE  IsFiniteSet(S \cup T) /\ Cardinality(S \cup T) <= Cardinality(S) + Cardinality(T)
<1>1. IsFiniteSet(S \cap T)
  BY FS_Intersection
<1>2. Cardinality(S) \in Nat /\ Cardinality(T) \in Nat /\ Cardinality(S \cap T) \in Nat
  BY <1>1, FS_CardinalityType
<1>3. Cardinality(S \cup T) = Cardinality(S) + Cardinality(T) - Cardinality(S \cap T)
  BY FS_Union
<1>4. IsFiniteSet(S \cup T)
  BY FS_Union
<1> QED BY <1>2, <1>3, <1>4

\* match_top_k answers with the best documents that are in the index.
LEMMA TopKIs ==
  ASSUME InvertedInv, NEW n \in Nat
  PROVE  I!MatchTopK(n) = I!First(I!Relevant, n)
<1> DEFINE dead == {h \in I!BuiltHits : h[2] \in removed}
           X == I!Relevant
           Y == {h \in I!First(I!BuiltHits, I!Needed(n)) : h[2] \notin removed} \cup I!DeltaHits
<1>1. /\ I!BuiltHits \in SUBSET Hit /\ IsFiniteSet(I!BuiltHits)
      /\ I!DeltaHits \in SUBSET Hit /\ IsFiniteSet(I!DeltaHits)
  BY HitsTyped
<1>2. IsFiniteSet(dead) /\ IsFiniteSet(removed) /\ Cardinality(dead) <= Cardinality(removed)
  BY DeadHits
<1>3. IsFiniteSet(X) /\ X \in SUBSET Hit
  <2>1. {h \in I!BuiltHits : h[2] \notin removed} \in SUBSET I!BuiltHits
    OBVIOUS
  <2>2. IsFiniteSet({h \in I!BuiltHits : h[2] \notin removed})
    BY <1>1, <2>1, FS_Subset
  <2> QED BY <1>1, <2>2, RelevantIs, FS_Union
<1>4. Y \in SUBSET X
  BY RelevantIs, FirstIs
<1>5. /\ Cardinality(removed) \in Nat /\ Cardinality(dead) \in Nat /\ I!Needed(n) \in Nat
      /\ n + Cardinality(removed) <= I!Needed(n)
  <2>1. \A T : I!Cardinality(T) = Cardinality(T)
    BY DEF I!Cardinality, Cardinality, I!IsFiniteSet, IsFiniteSet
  <2>2. IsFiniteSet(DOMAIN added)
    <3>1. DOMAIN added \in SUBSET Documents /\ IsFiniteSet(Documents)
      BY ConstantsAssumption DEF InvertedInv, DeltaOf
    <3> QED BY <3>1, FS_Subset
  <2>3. Cardinality(removed) \in Nat /\ Cardinality(dead) \in Nat /\ Cardinality(DOMAIN added) \in Nat
    BY <1>2, <2>2, FS_CardinalityType
  <2>4. I!Needed(n) = n + Cardinality(removed) + Cardinality(DOMAIN added)
    BY <2>1 DEF I!Needed
  <2> QED BY <2>3, <2>4
<1>6. ASSUME NEW h \in I!First(X, n), h \notin I!DeltaHits PROVE h \in Y
  <2>1. h \in X /\ Cardinality(Ahead(X, h)) < n /\ h \in I!BuiltHits /\ h[2] \notin removed
    BY <1>6, RelevantIs, FirstIs
  <2>2. Ahead(I!BuiltHits, h) \in SUBSET (Ahead(X, h) \cup dead)
    BY RelevantIs DEF Ahead
  <2>3. IsFiniteSet(Ahead(X, h)) /\ Cardinality(Ahead(X, h)) \in Nat
    BY <1>3, AheadFinite
  <2>4. /\ IsFiniteSet(Ahead(X, h) \cup dead)
        /\ Cardinality(Ahead(X, h) \cup dead) <= Cardinality(Ahead(X, h)) + Cardinality(dead)
    <3>1. IsFiniteSet(Ahead(X, h)) /\ IsFiniteSet(dead)
      BY <1>2, <2>3
    <3> HIDE DEF dead, X
    <3> QED BY <3>1, UnionBound
  <2>5. Cardinality(Ahead(I!BuiltHits, h)) <= Cardinality(Ahead(X, h) \cup dead)
    <3>1. IsFiniteSet(Ahead(X, h) \cup dead)
      BY <2>4
    <3> HIDE DEF dead, X
    <3> QED BY <2>2, <3>1, FS_Subset
  <2>6. Cardinality(Ahead(I!BuiltHits, h)) \in Nat /\ Cardinality(Ahead(X, h) \cup dead) \in Nat
    <3> HIDE DEF dead, X
    <3> QED BY <1>1, <2>4, AheadFinite, FS_CardinalityType
  <2>7. Cardinality(Ahead(I!BuiltHits, h)) < I!Needed(n)
    <3> HIDE DEF dead, X
    <3> QED BY <1>2, <1>5, <2>1, <2>3, <2>4, <2>5, <2>6
  <2>8. h \in I!First(I!BuiltHits, I!Needed(n))
    BY <2>1, <2>7, FirstIs
  <2> QED BY <2>1, <2>8
<1>7. I!First(X, n) \subseteq Y
  BY <1>6
<1>8. I!MatchTopK(n) = I!First(Y, n)
  BY DEF I!MatchTopK
<1> HIDE DEF X, Y
<1>9. I!First(Y, n) = I!First(X, n)
  BY <1>3, <1>4, <1>7, FirstOfPart
<1> QED BY <1>8, <1>9 DEF X

\* The sound delta, in every state of an inverted index: a document is in one
\* part of it, in memory and in the sidecar file.
THEOREM InvertedStructure == Spec => [](IsInverted => StructureSound)
<1>1. ASSUME IsInverted => InvertedInv PROVE IsInverted => StructureSound
  BY <1>1, DeltaHolds DEF IsInverted, StructureSound
<1> QED BY <1>1, InvertedInvariant, PTL

\* match_top_k returns the best documents of the index however many of the
\* best of the built index are removed; the other kinds answer no such query,
\* but for the R-tree.
THEOREM InvertedNearest == Spec => [](kind # "RTREE" => NearestExact)
<1>1. ASSUME IsInverted => InvertedInv PROVE kind # "RTREE" => NearestExact
  <2>1. ASSUME IsInverted, NEW n \in 0 .. Cardinality(Documents)
        PROVE  I!MatchTopK(n) = I!First(I!Relevant, n)
    <3>1. Cardinality(Documents) \in Nat
      BY ConstantsAssumption, FS_CardinalityType
    <3>2. n \in Nat
      BY <3>1
    <3> QED BY <1>1, <2>1, <3>2, TopKIs
  <2> QED BY <2>1 DEF IsInverted, NearestExact
<1> QED BY <1>1, InvertedInvariant, PTL

LEMMA InvertedEntries ==
  ASSUME IsInverted => InvertedInv, IsInverted, [Next]_vars
  PROVE  IsInverted' /\ [Entries!IndexNext]_(Entries!vars) /\ [InsertAdds]_vars
<1>1. /\ InvertedInv /\ DeltaOf(added, removed)
      /\ DOMAIN built \subseteq Documents /\ built \in [DOMAIN built -> Key]
  BY DEF InvertedInv
<1>2. kind = "INVERTED" /\ kind' = "INVERTED"
  BY DEF IsInverted, Next, vars
<1>3. /\ Stored = I!TextsOf(added, removed) /\ Stored' = I!Texts'
      /\ OnDisk = I!TextsOf(sidecar[1], sidecar[2]) /\ OnDisk' = I!SavedTexts'
  BY <1>2 DEF Stored, OnDisk, I!Texts, I!SavedTexts
<1>4. built' = built => /\ I!Texts' = I!TextsOf(added', removed')
                        /\ I!SavedTexts' = I!TextsOf(sidecar'[1], sidecar'[2])
  BY DEF I!Texts, I!SavedTexts, I!TextsOf
<1>5. CASE UNCHANGED vars
  <2>1. built' = built /\ added' = added /\ removed' = removed /\ sidecar' = sidecar
    BY <1>5 DEF vars, textOnly
  <2>2. UNCHANGED Entries!vars
    BY <1>3, <1>4, <2>1 DEF Entries!vars
  <2> QED BY <1>2, <1>5, <2>2 DEF IsInverted
<1>6. CASE I!InvertedNext
  <2>1. built' = built
    BY <1>1, <1>6, InvertedStepKeeps
  <2>2. sidecar' = <<added', removed'>> \/ sidecar' = sidecar => Entries!Save
    BY <1>3, <1>4, <2>1 DEF Entries!Save
  <2>3. ASSUME NEW k \in Key, NEW r \in Documents, I!InsertDocument(k, r)
        PROVE  Entries!IndexNext /\ <<k, r>> \in Stored'
    <3>1. /\ r \notin DOMAIN built /\ added' = Plus(added, r, k) /\ removed' = removed \ {r}
          /\ sidecar' = <<added', removed'>> \/ sidecar' = sidecar
      BY <1>1, <2>3, InsertDocumentIs
    <3>2. Stored' = {t \in Stored : t[2] # r} \cup {<<k, r>>}
      BY <1>3, <1>4, <2>1, <3>1, TextsPlus
    <3>3. Stored \subseteq Key \X Documents
      BY <1>1, <1>3, TextsTyped
    <3>4. {t \in Stored : t[2] # r} = Stored \ (Key \X {r})
      BY <3>3
    <3>5. Entries!Replace(k, r) /\ r \in Rid \cup Documents
      BY <3>2, <3>4 DEF Entries!Replace
    <3> QED BY <2>2, <3>1, <3>2, <3>5 DEF Entries!IndexNext, Entries!Change
  <2>4. ASSUME NEW r \in Documents, I!RemoveDocument(r)
        PROVE  Entries!IndexNext
    <3>1. /\ added' = Minus(added, r) /\ removed' = removed \cup {r}
          /\ sidecar' = <<added', removed'>> \/ sidecar' = sidecar
      BY <1>1, <2>4, RemoveDocumentIs
    <3>2. Stored' = {t \in Stored : t[2] # r} /\ Stored \subseteq Key \X Documents
      BY <1>1, <1>3, <1>4, <2>1, <3>1, TextsMinus, TextsTyped
    <3>3. \A t, u \in Stored : t[2] = u[2] => t = u
      BY <1>1, <1>3, OneText
    <3>4. CASE \E t \in Stored : t[2] = r
      <4>1. PICK t \in Stored : t[2] = r
        BY <3>4
      <4>2. t[1] \in Key /\ t = <<t[1], r>> /\ \A u \in Stored : u[2] = r => u = t
        BY <3>2, <3>3, <4>1
      <4>3. Stored' = Stored \ ({t[1]} \X {r})
        <5>1. {t[1]} \X {r} = {t}
          BY <4>2
        <5>2. {u \in Stored : u[2] # r} = Stored \ {t}
          BY <4>1, <4>2
        <5> QED BY <3>2, <5>1, <5>2
      <4>4. Entries!Remove(t[1], {r}) /\ {r} \in SUBSET (Rid \cup Documents)
        BY <4>3 DEF Entries!Remove
      <4> QED BY <2>2, <3>1, <4>2, <4>4 DEF Entries!IndexNext, Entries!Change
    <3>5. CASE ~ \E t \in Stored : t[2] = r
      <4>1. Stored' = Stored
        BY <3>2, <3>5
      <4>2. CASE Key = {}
        <5>1. Stored = {}
          BY <3>2, <4>2
        <5>2. OnDisk = {}
          BY <1>1, <1>3, <4>2, TextsTyped DEF InvertedInv
        <5>3. Entries!Reopen
          BY <2>2, <3>1, <4>1, <5>1, <5>2 DEF Entries!Reopen, Entries!Save
        <5> QED BY <5>3 DEF Entries!IndexNext
      <4>3. CASE Key # {}
        <5>1. PICK k \in Key : TRUE
          BY <4>3
        <5>2. Entries!Remove(k, {}) /\ {} \in SUBSET (Rid \cup Documents)
          BY <4>1 DEF Entries!Remove
        <5> QED BY <2>2, <3>1, <5>2 DEF Entries!IndexNext, Entries!Change
      <4> QED BY <4>2, <4>3
    <3> QED BY <3>4, <3>5
  <2>5. ASSUME I!ReopenInverted PROVE Entries!IndexNext
    <3>1. added' = sidecar[1] /\ removed' = sidecar[2] /\ sidecar' = sidecar
      BY <2>5, ReopenInvertedIs
    <3>2. Entries!Reopen
      BY <1>3, <1>4, <2>1, <3>1 DEF Entries!Reopen
    <3> QED BY <3>2 DEF Entries!IndexNext
  <2>6. Entries!IndexNext
    BY <1>6, <2>3, <2>4, <2>5 DEF I!InvertedNext
  <2>7. InsertAdds
    BY <1>2, <2>3 DEF InsertAdds
  <2> QED BY <1>2, <2>6, <2>7 DEF IsInverted
<1>7. CASE Next
  BY <1>2, <1>6, <1>7 DEF Next
<1> QED BY <1>5, <1>7

\* An inverted index is the set of the documents added and not removed: no
\* step loses another one, and an addition whose call returns is in.  Its file
\* is the index of some moment, however many writes have failed since, and a
\* restart goes back to that moment and to no other set of documents.
THEOREM InvertedRefinesEntries == Spec /\ IsInverted => EntriesRefined
<1>1. ASSUME Init, IsInverted PROVE Entries!IndexInit
  <2>1. InvertedInv /\ kind = "INVERTED"
    BY <1>1, InvertedStarts DEF IsInverted
  <2>2. sidecar = <<added, removed>>
    BY <1>1 DEF Init, IsInverted, I!InvertedInit
  <2>3. Stored = I!TextsOf(added, removed) /\ OnDisk = Stored
    BY <2>1, <2>2 DEF Stored, OnDisk, I!Texts, I!SavedTexts
  <2>4. Stored \subseteq Key \X Documents
    BY <2>1, <2>3, TextsTyped DEF InvertedInv
  <2> QED BY <2>3, <2>4 DEF Entries!IndexInit
<1>2. IsInverted /\ (IsInverted => InvertedInv) /\ [Next]_vars
      => IsInverted' /\ [Entries!IndexNext]_(Entries!vars) /\ [InsertAdds]_vars
  BY InvertedEntries
<1> QED BY <1>1, <1>2, InvertedInvariant, PTL DEF Spec, EntriesRefined, Entries!IndexSpec

-----------------------------------------------------------------------------
(* Numbers: induction, powers of two and the low bits of a digest.          *)

\* A set of numbers has a least one.
LEMMA LeastNat ==
  ASSUME NEW T \in SUBSET Nat, T # {}
  PROVE  \E m \in T : \A n \in T : m <= n
<1>1. PICK t \in T : TRUE
  OBVIOUS
<1> DEFINE C == {0 .. n : n \in {k \in T : k <= t}}
<1>2. IsFiniteSet(0 .. t)
  BY FS_Interval
<1>3. C \in SUBSET SUBSET (0 .. t) /\ C # {}
  <2>1. \A n \in Nat : n <= t => 0 .. n \subseteq 0 .. t
    OBVIOUS
  <2>2. \A s \in C : s \subseteq 0 .. t
    BY <2>1
  <2>3. 0 .. t \in C
    BY <1>1
  <2> HIDE DEF C
  <2> QED BY <2>2, <2>3
<1> HIDE DEF C
<1>4. PICK s \in C : \A u \in C : u \subseteq s => u = s
  <2> DEFINE A == 0 .. t
  <2>1. IsFiniteSet(A) /\ C \in SUBSET SUBSET A /\ C # {}
    BY <1>2, <1>3
  <2> HIDE DEF A
  <2> QED BY <2>1, LeastSubset
<1>5. PICK m \in T : m <= t /\ s = 0 .. m
  BY <1>4 DEF C
<1>6. ASSUME NEW n \in T PROVE m <= n
  <2>1. SUFFICES ASSUME n < m PROVE FALSE
    OBVIOUS
  <2>2. 0 .. n \in C /\ 0 .. n \subseteq 0 .. m
    BY <1>5, <2>1 DEF C
  <2>3. 0 .. n = 0 .. m
    BY <1>4, <1>5, <2>2
  <2>4. m \in 0 .. m /\ m \notin 0 .. n
    BY <2>1
  <2> QED BY <2>3, <2>4
<1> QED BY <1>6

LEMMA Ascending ==
  ASSUME NEW W \in SUBSET Nat, 0 \in W, \A n \in W : n + 1 \in W
  PROVE  W = Nat
<1> SUFFICES ASSUME Nat \ W # {} PROVE FALSE
  OBVIOUS
<1>1. PICK m \in Nat \ W : \A n \in Nat \ W : m <= n
  BY LeastNat
<1>2. m # 0 /\ m - 1 \in Nat
  BY <1>1
<1>3. m - 1 \in W
  BY <1>1, <1>2
<1>4. (m - 1) + 1 \in W
  BY <1>3
<1> QED BY <1>1, <1>2, <1>4

\* Induction from the last number of an interval to the first.
LEMMA Downward ==
  ASSUME NEW N \in Nat, NEW W \in SUBSET (1 .. N),
         \A c \in 1 .. N : (\A d \in c + 1 .. N : d \in W) => c \in W
  PROVE  W = 1 .. N
<1> SUFFICES ASSUME NEW x \in 1 .. N, x \notin W PROVE FALSE
  OBVIOUS
<1> DEFINE T == {N - c : c \in (1 .. N) \ W}
<1>1. T \in SUBSET Nat /\ T # {}
  OBVIOUS
<1>2. PICK m \in T : \A n \in T : m <= n
  BY <1>1, LeastNat
<1>3. PICK c \in (1 .. N) \ W : m = N - c
  BY <1>2
<1>4. ASSUME NEW d \in c + 1 .. N PROVE d \in W
  <2>1. SUFFICES ASSUME d \notin W PROVE FALSE
    OBVIOUS
  <2>2. N - d \in T
    BY <1>3, <1>4, <2>1
  <2>3. N - c <= N - d
    BY <1>2, <1>3, <2>2
  <2> QED BY <1>3, <1>4, <2>3
<1> QED BY <1>3, <1>4

LEMMA Doubling == \A n \in Nat : 2 ^ n \in Nat /\ 1 <= 2 ^ n /\ 2 ^ (n + 1) = 2 * 2 ^ n
<1> SUFFICES ASSUME NEW n \in Nat
             PROVE  2 ^ n \in Nat /\ 1 <= 2 ^ n /\ 2 ^ (n + 1) = 2 * 2 ^ n
  OBVIOUS
<1> DEFINE A == SUBSET (1 .. n)
           C == {t \cup {n + 1} : t \in A}
           D == SUBSET (1 .. n + 1)
<1>1. /\ IsFiniteSet(1 .. n) /\ Cardinality(1 .. n) = n
      /\ IsFiniteSet(1 .. n + 1) /\ Cardinality(1 .. n + 1) = n + 1
  BY FS_Interval
<1>2. IsFiniteSet(A) /\ Cardinality(A) = 2 ^ n
  BY <1>1, FS_SUBSET
<1>3. IsFiniteSet(D) /\ Cardinality(D) = 2 ^ (n + 1)
  BY <1>1, FS_SUBSET
<1>4. IsFiniteSet(C) /\ Cardinality(C) = Cardinality(A)
  <2> DEFINE f == [t \in A |-> t \cup {n + 1}]
  <2>1. f \in [A -> C] /\ (\A c \in C : \E t \in A : f[t] = c)
    OBVIOUS
  <2>2. \A t, u \in A : f[t] = f[u] => t = u
    OBVIOUS
  <2>3. f \in Bijection(A, C)
    <3> HIDE DEF A, C, f
    <3> QED BY <2>1, <2>2 DEF Bijection, Injection, IsInjective, Surjection
  <2>4. ExistsBijection(A, C)
    BY <2>3 DEF ExistsBijection
  <2> HIDE DEF A, C, f
  <2> QED BY <1>2, <2>4, FS_Bijection
<1>5. D = A \cup C /\ A \cap C = {}
  <2>1. ASSUME NEW t \in D, n + 1 \in t PROVE t \in C
    <3>1. t \ {n + 1} \in A /\ t = (t \ {n + 1}) \cup {n + 1}
      BY <2>1
    <3> QED BY <3>1
  <2>2. ASSUME NEW t \in D, n + 1 \notin t PROVE t \in A
    BY <2>2
  <2>3. A \subseteq D
    OBVIOUS
  <2>4. \A t \in A : n + 1 \notin t /\ t \cup {n + 1} \in D
    OBVIOUS
  <2>5. ASSUME NEW c \in C PROVE n + 1 \in c /\ c \in D
    <3>1. PICK t \in A : c = t \cup {n + 1}
      OBVIOUS
    <3> HIDE DEF A, C, D
    <3> QED BY <2>4, <3>1
  <2> HIDE DEF A, C, D
  <2>6. \A t : t \in D <=> t \in A \/ t \in C
    BY <2>1, <2>2, <2>3, <2>5
  <2>7. D = A \cup C
    BY <2>6
  <2>8. \A t : ~ (t \in A /\ t \in C)
    BY <2>4, <2>5
  <2> QED BY <2>7, <2>8
<1>6. {} \in A
  OBVIOUS
<1> HIDE DEF A, C, D
<1>7. Cardinality(A \cup C) = Cardinality(A) + Cardinality(C)
  <2>1. Cardinality(A \cap C) = 0
    BY <1>5, FS_EmptySet
  <2>2. Cardinality(A) \in Nat /\ Cardinality(C) \in Nat
    BY <1>2, <1>4, FS_CardinalityType
  <2>3. Cardinality(A \cup C) = Cardinality(A) + Cardinality(C) - Cardinality(A \cap C)
    BY <1>2, <1>4, FS_Union
  <2> QED BY <2>1, <2>2, <2>3
<1>8. Cardinality(A) \in Nat /\ Cardinality(A) # 0
  BY <1>2, <1>6, FS_CardinalityType, FS_EmptySet
<1> QED BY <1>2, <1>3, <1>4, <1>5, <1>7, <1>8

LEMMA Divide ==
  ASSUME NEW a \in Nat, NEW m \in Nat, m # 0
  PROVE  \E q, r \in Nat : a = m * q + r /\ r < m
<1> DEFINE T == {r \in Nat : \E q \in Nat : a = m * q + r}
<1>1. a = m * 0 + a
  OBVIOUS
<1>2. T \in SUBSET Nat /\ T # {}
  BY <1>1
<1>3. PICK r \in T : \A n \in T : r <= n
  BY <1>2, LeastNat
<1>4. PICK q \in Nat : a = m * q + r
  BY <1>3
<1>5. ASSUME r >= m PROVE FALSE
  <2>1. m * (q + 1) = m * q + m
    OBVIOUS
  <2>2. m * q \in Nat
    OBVIOUS
  <2>3. a = m * (q + 1) + (r - m)
    BY <1>4, <2>1, <2>2
  <2>4. r - m \in T
    BY <1>5, <2>3
  <2> QED BY <1>3, <2>4
<1> QED BY <1>4, <1>5

\* The d low bits of x.
Low(x, d) == x % 2 ^ d

LEMMA LowIs ==
  ASSUME NEW d \in Nat, NEW q \in Nat, NEW r \in Nat, r < 2 ^ d
  PROVE  Low(2 ^ d * q + r, d) = r /\ (2 ^ d * q + r) \div 2 ^ d = q
<1> DEFINE m == 2 ^ d
<1>1. m \in Nat /\ r < m
  BY Doubling
<1> HIDE DEF m
<1>2. (m * q + r) % m = r /\ (m * q + r) \div m = q
  BY <1>1
<1> QED BY <1>2 DEF Low, m

LEMMA LowParts ==
  ASSUME NEW x \in Nat, NEW d \in Nat
  PROVE  /\ Low(x, d) \in Nat /\ Low(x, d) < 2 ^ d
         /\ \E q \in Nat : x = 2 ^ d * q + Low(x, d) /\ x \div 2 ^ d = q
<1>1. 2 ^ d \in Nat /\ 2 ^ d # 0
  BY Doubling
<1>2. PICK q, r \in Nat : x = 2 ^ d * q + r /\ r < 2 ^ d
  BY <1>1, Divide
<1>3. Low(x, d) = r /\ x \div 2 ^ d = q
  BY <1>2, LowIs
<1> QED BY <1>2, <1>3

LEMMA LowSmall ==
  ASSUME NEW x \in Nat, NEW d \in Nat, x < 2 ^ d
  PROVE  Low(x, d) = x
<1>1. Low(2 ^ d * 0 + x, d) = x
  BY LowIs
<1>2. 2 ^ d * 0 + x = x
  BY Doubling
<1> QED BY <1>1, <1>2

LEMMA LargerPower ==
  ASSUME NEW d \in Nat, NEW g \in Nat, d <= g
  PROVE  2 ^ d <= 2 ^ g /\ \E p \in Nat : 2 ^ g = 2 ^ d * p
<1> DEFINE m == 2 ^ d
           power == [j \in Nat |-> 2 ^ (d + j)]
           W == {j \in Nat : \E p \in Nat : p >= 1 /\ power[j] = m * p}
<1>1. m \in Nat
  BY Doubling
<1>2. power[0] = m /\ \A j \in Nat : power[j + 1] = 2 * power[j]
  <2>1. power[0] = m
    OBVIOUS
  <2>2. ASSUME NEW j \in Nat PROVE power[j + 1] = 2 * power[j]
    <3>1. d + j \in Nat /\ (d + j) + 1 = d + (j + 1) /\ j + 1 \in Nat
      OBVIOUS
    <3>2. 2 ^ ((d + j) + 1) = 2 * 2 ^ (d + j)
      BY <3>1, Doubling
    <3>3. power[j + 1] = 2 ^ (d + (j + 1))
      BY <3>1
    <3> QED BY <3>1, <3>2, <3>3
  <2> QED BY <2>1, <2>2
<1>3. power[g - d] = 2 ^ g
  OBVIOUS
<1> HIDE DEF m, power
<1>4. 0 \in W /\ \A j \in W : j + 1 \in W
  <2>1. m = m * 1
    BY <1>1
  <2>2. 0 \in W
    BY <1>2, <2>1
  <2>3. ASSUME NEW j \in W PROVE j + 1 \in W
    <3>1. PICK p \in Nat : p >= 1 /\ power[j] = m * p
      OBVIOUS
    <3>2. 2 * (m * p) = m * (2 * p) /\ 2 * p \in Nat /\ 2 * p >= 1
      BY <1>1, <3>1
    <3>3. power[j + 1] = m * (2 * p)
      BY <1>2, <3>1, <3>2
    <3> QED BY <3>2, <3>3
  <2> QED BY <2>2, <2>3
<1>5. W = Nat
  <2>1. W \in SUBSET Nat
    OBVIOUS
  <2> HIDE DEF W
  <2> QED BY <1>4, <2>1, Ascending
<1>6. PICK p \in Nat : p >= 1 /\ 2 ^ g = m * p
  <2>1. g - d \in W
    BY <1>5
  <2> QED BY <1>3, <2>1
<1>7. m <= m * p
  <2>1. PICK n \in Nat : p = n + 1
    BY <1>6
  <2>2. m * (n + 1) = m * n + m /\ m * n \in Nat
    BY <1>1
  <2>3. m * p = m * n + m
    BY <2>1, <2>2
  <2> QED BY <1>1, <2>2, <2>3
<1> QED BY <1>6, <1>7 DEF m

\* Of the low bits, the lower ones are those of the number.
LEMMA LowLow ==
  ASSUME NEW x \in Nat, NEW d \in Nat, NEW g \in Nat, d <= g
  PROVE  Low(Low(x, g), d) = Low(x, d)
<1> DEFINE l == Low(x, g)
           r == Low(l, d)
<1>1. l \in Nat /\ \E q \in Nat : x = 2 ^ g * q + l
  BY LowParts
<1>2. r \in Nat /\ r < 2 ^ d /\ \E q \in Nat : l = 2 ^ d * q + r
  <2> HIDE DEF l
  <2> QED BY <1>1, LowParts
<1> HIDE DEF l, r
<1>3. PICK q \in Nat : x = 2 ^ g * q + l
  BY <1>1
<1>4. PICK u \in Nat : l = 2 ^ d * u + r
  BY <1>2
<1>5. PICK p \in Nat : 2 ^ g = 2 ^ d * p
  BY LargerPower
<1>6. 2 ^ d \in Nat
  BY Doubling
<1>7. (2 ^ d * p) * q + (2 ^ d * u + r) = 2 ^ d * (p * q + u) + r
  <2> DEFINE m == 2 ^ d
  <2>1. m \in Nat
    BY <1>6
  <2> HIDE DEF m
  <2>2. (m * p) * q + (m * u + r) = m * (p * q + u) + r
    BY <1>2, <2>1
  <2> QED BY <2>2 DEF m
<1>8. x = 2 ^ d * (p * q + u) + r
  BY <1>3, <1>4, <1>5, <1>7
<1>9. Low(2 ^ d * (p * q + u) + r, d) = r
  <2>1. p * q + u \in Nat
    OBVIOUS
  <2> QED BY <1>2, <2>1, LowIs
<1> QED BY <1>8, <1>9 DEF l, r

\* One more bit.
LEMMA LowNext ==
  ASSUME NEW x \in Nat, NEW d \in Nat
  PROVE  Low(x, d + 1) = IF H!Bit(x, d) = 1 THEN Low(x, d) + 2 ^ d ELSE Low(x, d)
<1> DEFINE m == 2 ^ d
           n == 2 ^ (d + 1)
           l == Low(x, d)
<1>1. m \in Nat /\ n = 2 * m /\ l \in Nat /\ l < m
  BY Doubling, LowParts
<1>2. PICK q \in Nat : x = m * q + l /\ x \div m = q
  BY LowParts
<1>3. H!Bit(x, d) = q % 2
  BY <1>2 DEF H!Bit
<1>4. PICK u, v \in Nat : q = 2 * u + v /\ v < 2
  <2> DEFINE two == 2
  <2>1. two \in Nat /\ two # 0
    OBVIOUS
  <2> HIDE DEF two
  <2>2. \E u, v \in Nat : q = two * u + v /\ v < two
    BY <2>1, Divide
  <2> QED BY <2>2 DEF two
<1>5. q % 2 = v /\ (v = 0 \/ v = 1)
  BY <1>4
<1>6. Low(n * u + (v * m + l), d + 1) = v * m + l
  <2> DEFINE w == v * m + l
  <2> HIDE DEF m, n, l
  <2>1. w \in Nat /\ w < n /\ d + 1 \in Nat
    <3>1. v = 0 => w = l
      BY <1>1
    <3>2. v = 1 => w = m + l
      BY <1>1
    <3> QED BY <1>1, <1>5, <3>1, <3>2
  <2> HIDE DEF w
  <2>2. Low(n * u + w, d + 1) = w
    BY <2>1, LowIs DEF n
  <2> QED BY <2>2 DEF w
<1>7. x = n * u + (v * m + l)
  <2> HIDE DEF m, n, l
  <2>1. m * (2 * u + v) + l = (2 * m) * u + (v * m + l)
    BY <1>1
  <2> QED BY <1>1, <1>2, <1>4, <2>1
<1>8. Low(x, d + 1) = v * m + l
  BY <1>6, <1>7
<1> HIDE DEF m, n, l
<1>9. v = 0 => v * m + l = l
  BY <1>1
<1>10. v = 1 => v * m + l = l + m
  BY <1>1
<1> QED BY <1>1, <1>3, <1>5, <1>8, <1>9, <1>10 DEF m, l

-----------------------------------------------------------------------------
(* Sequences: what they hold, and whether they hold it once.                *)

Elements(q) == {q[i] : i \in 1 .. Len(q)}
NoneTwice(q) == \A i, j \in 1 .. Len(q) : q[i] = q[j] => i = j

LEMMA RangeIsElements ==
  ASSUME NEW S, NEW q \in Seq(S)
  PROVE  Range(q) = Elements(q) /\ H!Range(q) = Elements(q) /\ Elements(q) \subseteq S
<1>1. DOMAIN q = 1 .. Len(q) /\ \A i \in 1 .. Len(q) : q[i] \in S
  BY LenProperties
<1> QED BY <1>1 DEF Range, H!Range, Elements

LEMMA EmptyElements == Elements(<<>>) = {} /\ NoneTwice(<<>>)
BY DEF Elements, NoneTwice

LEMMA SingleElements == \A x : Elements(<<x>>) = {x} /\ NoneTwice(<<x>>)
BY DEF Elements, NoneTwice

LEMMA AppendElements ==
  ASSUME NEW S, NEW q \in Seq(S), NEW x \in S
  PROVE  /\ Append(q, x) \in Seq(S)
         /\ Elements(Append(q, x)) = Elements(q) \cup {x}
         /\ NoneTwice(q) /\ x \notin Elements(q) => NoneTwice(Append(q, x))
<1>1. /\ Append(q, x) \in Seq(S) /\ Len(Append(q, x)) = Len(q) + 1 /\ Len(q) \in Nat
      /\ \A i \in 1 .. Len(q) : Append(q, x)[i] = q[i]
      /\ Append(q, x)[Len(q) + 1] = x
  BY AppendProperties, LenProperties
<1> QED BY <1>1 DEF Elements, NoneTwice

LEMMA ConcatElements ==
  ASSUME NEW S, NEW q \in Seq(S), NEW p \in Seq(S)
  PROVE  /\ q \o p \in Seq(S)
         /\ Elements(q \o p) = Elements(q) \cup Elements(p)
         /\ NoneTwice(q) /\ NoneTwice(p) /\ Elements(q) \cap Elements(p) = {} => NoneTwice(q \o p)
<1>1. /\ q \o p \in Seq(S) /\ Len(q \o p) = Len(q) + Len(p) /\ Len(q) \in Nat /\ Len(p) \in Nat
      /\ \A i \in 1 .. Len(q) + Len(p) : (q \o p)[i] = IF i <= Len(q) THEN q[i] ELSE p[i - Len(q)]
  BY ConcatProperties, LenProperties
<1>2. \A i \in 1 .. Len(q) : (q \o p)[i] = q[i]
  BY <1>1
<1>3. \A j \in 1 .. Len(p) : Len(q) + j \in 1 .. Len(q) + Len(p) /\ (q \o p)[Len(q) + j] = p[j]
  BY <1>1
<1>4. \A i \in 1 .. Len(q) + Len(p) : i \in 1 .. Len(q) \/ \E j \in 1 .. Len(p) : i = Len(q) + j
  <2> TAKE i \in 1 .. Len(q) + Len(p)
  <2>1. i <= Len(q) \/ (i - Len(q) \in 1 .. Len(p) /\ i = Len(q) + (i - Len(q)))
    BY <1>1
  <2> QED BY <1>1, <2>1
<1>5. Elements(q \o p) = Elements(q) \cup Elements(p)
  <2>1. Elements(q \o p) \subseteq Elements(q) \cup Elements(p)
    BY <1>1, <1>2, <1>3, <1>4 DEF Elements
  <2>2. Elements(q) \subseteq Elements(q \o p)
    BY <1>1, <1>2 DEF Elements
  <2>3. Elements(p) \subseteq Elements(q \o p)
    BY <1>1, <1>3 DEF Elements
  <2> QED BY <2>1, <2>2, <2>3
<1>6. ASSUME NoneTwice(q), NoneTwice(p), Elements(q) \cap Elements(p) = {} PROVE NoneTwice(q \o p)
  <2> SUFFICES ASSUME NEW i \in 1 .. Len(q) + Len(p), NEW j \in 1 .. Len(q) + Len(p),
                      (q \o p)[i] = (q \o p)[j]
               PROVE  i = j
    BY <1>1 DEF NoneTwice
  <2>1. CASE i \in 1 .. Len(q) /\ j \in 1 .. Len(q)
    BY <1>2, <1>6, <2>1 DEF NoneTwice
  <2>2. \A a \in 1 .. Len(q), b \in 1 .. Len(p) : q[a] # p[b]
    BY <1>6 DEF Elements
  <2>3. CASE i \notin 1 .. Len(q) /\ j \notin 1 .. Len(q)
    <3>1. PICK a, b \in 1 .. Len(p) : i = Len(q) + a /\ j = Len(q) + b
      BY <1>4, <2>3
    <3>2. p[a] = p[b]
      BY <1>3, <3>1
    <3> QED BY <1>6, <3>1, <3>2 DEF NoneTwice
  <2> QED BY <1>2, <1>3, <1>4, <2>1, <2>2, <2>3
<1> QED BY <1>1, <1>5, <1>6

LEMMA NoneTwiceCounts ==
  ASSUME NEW S, NEW q \in Seq(S), NoneTwice(q)
  PROVE  Len(q) = Cardinality(Elements(q))
<1> DEFINE n == Len(q)
<1>1. n \in Nat /\ q \in [1 .. n -> S]
  BY LenProperties
<1>2. q \in Bijection(1 .. n, Elements(q))
  BY <1>1 DEF NoneTwice, Elements, Bijection, Injection, IsInjective, Surjection
<1>3. IsFiniteSet(1 .. n) /\ Cardinality(1 .. n) = n
  BY <1>1, FS_Interval
<1>4. ExistsBijection(1 .. n, Elements(q))
  BY <1>2 DEF ExistsBijection
<1> HIDE DEF n
<1>5. Cardinality(Elements(q)) = Cardinality(1 .. n)
  BY <1>3, <1>4, FS_Bijection
<1> QED BY <1>3, <1>5 DEF n

\* f is defined by recursion along an interval: such a function exists.
Steps(f, m, first, step) == f[0] = first /\ \A i \in 1 .. m : f[i] = step[i][f[i - 1]]

LEMMA StepByStep ==
  ASSUME NEW n \in Nat, NEW T, NEW first \in T, NEW step \in [1 .. n -> [T -> T]]
  PROVE  \E f \in [0 .. n -> T] : Steps(f, n, first, step)
<1> DEFINE W == {m \in Nat : m <= n => \E f \in [0 .. m -> T] : Steps(f, m, first, step)}
<1>1. 0 \in W
  <2> DEFINE f == [i \in 0 .. 0 |-> first]
  <2>1. f \in [0 .. 0 -> T] /\ Steps(f, 0, first, step)
    BY DEF Steps
  <2> HIDE DEF f
  <2> QED BY <2>1
<1>2. ASSUME NEW m \in W PROVE m + 1 \in W
  <2> SUFFICES ASSUME m + 1 <= n PROVE \E f \in [0 .. m + 1 -> T] : Steps(f, m + 1, first, step)
    BY DEF W
  <2>1. PICK f \in [0 .. m -> T] : Steps(f, m, first, step)
    OBVIOUS
  <2> DEFINE g == [i \in 0 .. m + 1 |-> IF i = m + 1 THEN step[m + 1][f[m]] ELSE f[i]]
  <2>2. g \in [0 .. m + 1 -> T]
    <3>1. m + 1 \in 1 .. n /\ f[m] \in T
      OBVIOUS
    <3>2. step[m + 1][f[m]] \in T
      BY <3>1
    <3>3. \A i \in 0 .. m + 1 : i # m + 1 => f[i] \in T
      OBVIOUS
    <3> QED BY <3>2, <3>3
  <2>3. Steps(g, m + 1, first, step)
    <3>1. g[0] = first
      BY <2>1 DEF Steps
    <3>2. ASSUME NEW i \in 1 .. m + 1 PROVE g[i] = step[i][g[i - 1]]
      <4>1. CASE i = m + 1
        <5>1. g[i] = step[i][f[m]] /\ g[i - 1] = f[m]
          BY <4>1
        <5> QED BY <5>1
      <4>2. CASE i # m + 1
        <5>1. i \in 1 .. m /\ g[i] = f[i] /\ g[i - 1] = f[i - 1]
          BY <4>2
        <5> QED BY <2>1, <5>1 DEF Steps
      <4> QED BY <4>1, <4>2
    <3> QED BY <3>1, <3>2 DEF Steps
  <2> HIDE DEF g
  <2> QED BY <2>2, <2>3
<1>3. W = Nat
  <2>1. W \in SUBSET Nat
    OBVIOUS
  <2> HIDE DEF W
  <2> QED BY <1>1, <1>2, <2>1, Ascending
<1>4. \E f \in [0 .. n -> T] : Steps(f, n, first, step)
  <2>1. n \in W
    BY <1>3
  <2> QED BY <2>1
<1> QED BY <1>4

\* f[i] is what is kept of the first i entries.
Sifts(f, es, X) ==
  f = [i \in 0 .. Len(es) |-> IF i = 0 THEN <<>>
                              ELSE IF es[i] \in X THEN Append(f[i - 1], es[i]) ELSE f[i - 1]]

LEMMA SiftsExists ==
  ASSUME NEW S, NEW es \in Seq(S), NEW X
  PROVE  \E f : Sifts(f, es, X)
<1>1. PICK n \in Nat : n = Len(es) /\ \A i \in 1 .. n : es[i] \in S
  BY LenProperties
<1> DEFINE T == Seq(S)
           none == <<>>
           step == [i \in 1 .. n |-> [v \in T |-> IF es[i] \in X THEN Append(v, es[i]) ELSE v]]
<1>2. none \in T
  OBVIOUS
<1>3. step \in [1 .. n -> [T -> T]]
  <2>1. ASSUME NEW i \in 1 .. n, NEW v \in T
        PROVE  (IF es[i] \in X THEN Append(v, es[i]) ELSE v) \in T
    BY <1>1, AppendProperties
  <2> HIDE DEF T
  <2> QED BY <2>1
<1>4. \A i \in 1 .. n, v \in T : step[i][v] = IF es[i] \in X THEN Append(v, es[i]) ELSE v
  <2> HIDE DEF T
  <2> QED OBVIOUS
<1> HIDE DEF T, none, step
<1>5. PICK f \in [0 .. n -> T] : f[0] = none /\ \A i \in 1 .. n : f[i] = step[i][f[i - 1]]
  <2>1. PICK f \in [0 .. n -> T] : Steps(f, n, none, step)
    BY <1>2, <1>3, StepByStep
  <2> QED BY <2>1 DEF Steps
<1>7. ASSUME NEW i \in 1 .. n PROVE f[i] = IF es[i] \in X THEN Append(f[i - 1], es[i]) ELSE f[i - 1]
  <2>1. f[i] = step[i][f[i - 1]]
    BY <1>1, <1>5
  <2>2. f[i - 1] \in T
    BY <1>1
  <2> QED BY <1>4, <2>1, <2>2
<1>8. \A i \in 0 .. n : f[i] = IF i = 0 THEN none
                               ELSE IF es[i] \in X THEN Append(f[i - 1], es[i]) ELSE f[i - 1]
  <2> TAKE i \in 0 .. n
  <2>1. i = 0 \/ i \in 1 .. n
    BY <1>1
  <2>2. 0 \notin 1 .. n
    BY <1>1
  <2> QED BY <1>5, <1>7, <2>1, <2>2
<1>9. f = [i \in 0 .. n |-> IF i = 0 THEN none
                            ELSE IF es[i] \in X THEN Append(f[i - 1], es[i]) ELSE f[i - 1]]
  BY <1>8
<1> QED BY <1>1, <1>9 DEF Sifts, none

\* What a page keeps of its entries when those of a set stay.
LEMMA OnlyIs ==
  ASSUME NEW S, NEW es \in Seq(S), NEW X
  PROVE  /\ H!Only(es, X) \in Seq(S)
         /\ Elements(H!Only(es, X)) = Elements(es) \cap X
         /\ NoneTwice(es) => NoneTwice(H!Only(es, X))
<1> DEFINE n == Len(es)
           F == CHOOSE f : Sifts(f, es, X)
           Before(i) == {es[j] : j \in 1 .. i}
           Kept(f, i) == /\ Elements(f[i]) = Before(i) \cap X
                         /\ NoneTwice(es) => NoneTwice(f[i])
<1>1. n \in Nat /\ \A i \in 1 .. n : es[i] \in S
  BY LenProperties
<1>3. H!Only(es, X) = F[n]
  BY DEF H!Only, Sifts
<1>4. Sifts(F, es, X)
  BY SiftsExists
<1> HIDE DEF F
<1>5. /\ F[0] = <<>>
      /\ \A i \in 1 .. n : F[i] = IF es[i] \in X THEN Append(F[i - 1], es[i]) ELSE F[i - 1]
  <2> HIDE DEF n
  <2>1. F = [i \in 0 .. n |-> IF i = 0 THEN <<>>
                              ELSE IF es[i] \in X THEN Append(F[i - 1], es[i]) ELSE F[i - 1]]
    BY <1>4 DEF Sifts, n
  <2>2. 0 \in 0 .. n /\ \A i \in 1 .. n : i \in 0 .. n /\ i # 0
    BY <1>1
  <2>3. F[0] = <<>>
    BY <2>1, <2>2
  <2>4. ASSUME NEW i \in 1 .. n
        PROVE  F[i] = IF es[i] \in X THEN Append(F[i - 1], es[i]) ELSE F[i - 1]
    BY <2>1, <2>2
  <2> QED BY <2>3, <2>4
<1> HIDE DEF n
<1> DEFINE W == {m \in Nat : m <= n => F[m] \in Seq(S) /\ Kept(F, m)}
<1>6. 0 \in W
  <2>1. <<>> \in Seq(S) /\ Before(0) = {}
    OBVIOUS
  <2> HIDE DEF Before
  <2> QED BY <1>5, <2>1, EmptyElements
<1>7. ASSUME NEW m \in W PROVE m + 1 \in W
  <2> SUFFICES ASSUME m + 1 <= n PROVE F[m + 1] \in Seq(S) /\ Kept(F, m + 1)
    OBVIOUS
  <2> DEFINE q == F[m]
             x == es[m + 1]
  <2>1. m + 1 \in 1 .. n /\ (m + 1) - 1 = m
    OBVIOUS
  <2>2. q \in Seq(S) /\ Elements(q) = Before(m) \cap X /\ (NoneTwice(es) => NoneTwice(q)) /\ x \in S
    BY <1>1, <2>1
  <2>3. Before(m + 1) = Before(m) \cup {x}
    OBVIOUS
  <2>4. F[m + 1] = IF x \in X THEN Append(q, x) ELSE q
    BY <1>5, <2>1
  <2>5. NoneTwice(es) => x \notin Before(m)
    BY <2>1 DEF NoneTwice, n
  <2> HIDE DEF q, x, Before, W
  <2>6. CASE x \in X
    <3>1. /\ Append(q, x) \in Seq(S) /\ Elements(Append(q, x)) = Elements(q) \cup {x}
          /\ NoneTwice(q) /\ x \notin Elements(q) => NoneTwice(Append(q, x))
      BY <2>2, AppendElements
    <3> QED BY <2>2, <2>3, <2>4, <2>5, <2>6, <3>1
  <2>7. CASE x \notin X
    BY <2>2, <2>3, <2>4, <2>7
  <2> QED BY <2>6, <2>7
<1>8. W = Nat
  <2>1. W \in SUBSET Nat
    OBVIOUS
  <2> HIDE DEF W
  <2> QED BY <1>6, <1>7, <2>1, Ascending
<1>9. F[n] \in Seq(S) /\ Kept(F, n)
  <2>1. n \in W
    BY <1>1, <1>8
  <2> HIDE DEF Kept
  <2> QED BY <1>1, <2>1
<1>10. Before(n) = Elements(es)
  BY DEF Elements, n
<1> HIDE DEF Before
<1> QED BY <1>3, <1>9, <1>10

-----------------------------------------------------------------------------
(* A bucket of the hash and its overflow pages: each page leads to a later  *)
(* one, or to none.                                                         *)

Leads(N, next) == next \in [1 .. N -> Nat] /\ \A c \in 1 .. N : next[c] = 0 \/ next[c] \in c + 1 .. N

Unwound(f, N, next, part) ==
  \A c \in 1 .. N : f[c] = IF next[c] = 0 THEN part[c] ELSE part[c] \o f[next[c]]

LEMMA Unwinds ==
  ASSUME NEW N \in Nat, NEW next, Leads(N, next), NEW S, NEW part \in [1 .. N -> Seq(S)]
  PROVE  \E f \in [1 .. N -> Seq(S)] : Unwound(f, N, next, part)
<1> DEFINE Here(f, c) == IF next[c] = 0 THEN part[c] ELSE part[c] \o f[next[c]]
           From(c) == \E f \in [c .. N -> Seq(S)] : \A d \in c .. N : f[d] = Here(f, d)
           W == {c \in 1 .. N : From(c)}
<1>1. ASSUME NEW c \in 1 .. N, \A d \in c + 1 .. N : d \in W PROVE From(c)
  <2>1. From(c + 1)
    <3>1. CASE c = N
      <4>1. c + 1 .. N = {}
        BY <3>1
      <4> DEFINE e == [d \in c + 1 .. N |-> <<>>]
      <4>2. e \in [c + 1 .. N -> Seq(S)]
        OBVIOUS
      <4> HIDE DEF e, Here
      <4> QED BY <4>1, <4>2
    <3>2. CASE c # N
      <4>1. c + 1 \in c + 1 .. N
        BY <3>2
      <4>2. c + 1 \in W
        <5> HIDE DEF W
        <5> QED BY <1>1, <4>1
      <4> HIDE DEF From
      <4> QED BY <4>2
    <3> QED BY <3>1, <3>2
  <2>2. PICK g \in [c + 1 .. N -> Seq(S)] : \A d \in c + 1 .. N : g[d] = Here(g, d)
    BY <2>1
  <2>3. Here(g, c) \in Seq(S)
    <3>1. CASE next[c] = 0
      BY <3>1
    <3>2. CASE next[c] # 0
      <4>1. next[c] \in c + 1 .. N
        BY <3>2 DEF Leads
      <4>2. part[c] \in Seq(S) /\ g[next[c]] \in Seq(S)
        BY <4>1
      <4>3. part[c] \o g[next[c]] \in Seq(S)
        BY <4>2, ConcatElements
      <4> QED BY <3>2, <4>3
    <3> QED BY <3>1, <3>2
  <2> DEFINE h == Here(g, c)
             f == [d \in c .. N |-> IF d = c THEN h ELSE g[d]]
  <2>4. h = Here(g, c)
    OBVIOUS
  <2> HIDE DEF h
  <2>5. f \in [c .. N -> Seq(S)]
    <3>1. \A d \in c .. N : d # c => d \in c + 1 .. N
      OBVIOUS
    <3>2. \A d \in c .. N : d # c => g[d] \in Seq(S)
      BY <3>1
    <3> QED BY <2>3, <2>4, <3>2
  <2>6. ASSUME NEW d \in c .. N PROVE f[d] = Here(f, d)
    <3>1. d \in 1 .. N /\ (next[d] # 0 => next[d] \in d + 1 .. N)
      BY DEF Leads
    <3>2. next[d] # 0 => f[next[d]] = g[next[d]]
      BY <3>1
    <3>3. Here(f, d) = Here(g, d)
      <4> HIDE DEF f
      <4> QED BY <3>2
    <3>4. CASE d = c
      BY <2>4, <3>3, <3>4
    <3>5. CASE d # c
      <4>1. d \in c + 1 .. N
        BY <3>5
      <4>2. f[d] = g[d]
        BY <3>5
      <4> HIDE DEF f, Here
      <4> QED BY <2>2, <3>3, <4>1, <4>2
    <3> QED BY <3>4, <3>5
  <2> HIDE DEF f, Here
  <2> QED BY <2>5, <2>6
<1>2. W = 1 .. N
  <2>1. W \in SUBSET (1 .. N)
    OBVIOUS
  <2>2. \A c \in 1 .. N : (\A d \in c + 1 .. N : d \in W) => c \in W
    <3> HIDE DEF From
    <3> QED BY <1>1
  <2> HIDE DEF W
  <2> QED BY <2>1, <2>2, Downward
<1>3. \E f \in [1 .. N -> Seq(S)] : \A d \in 1 .. N : f[d] = Here(f, d)
  <2>1. CASE N = 0
    <3> DEFINE e == [d \in 1 .. N |-> <<>>]
    <3>1. 1 .. N = {} /\ e \in [1 .. N -> Seq(S)]
      BY <2>1
    <3> HIDE DEF e, Here
    <3> QED BY <3>1
  <2>2. CASE N # 0
    <3>1. 1 \in 1 .. N
      BY <2>2
    <3>2. 1 \in W
      <4> HIDE DEF W
      <4> QED BY <1>2, <3>1
    <3> QED BY <3>2
  <2> QED BY <2>1, <2>2
<1> QED BY <1>3 DEF Unwound

\* What the hash keeps in memory and in its pages.
Entry == Key \X Rid
Bucket == [depth : 0 .. MaxDepth, entries : Seq(Entry), overflow : Nat]
Pages == 1 .. Len(buckets)

HashTyped ==
  /\ globalDepth \in 0 .. MaxDepth
  /\ directory \in [0 .. 2 ^ globalDepth - 1 -> Pages]
  /\ buckets \in Seq(Bucket)
  /\ \A c \in Pages : buckets[c].overflow = 0 \/ buckets[c].overflow \in c + 1 .. Len(buckets)
  /\ inserting \in {<<>>} \cup Entry

LEMMA PagesAre ==
  ASSUME HashTyped
  PROVE  /\ Len(buckets) \in Nat /\ DOMAIN buckets = Pages
         /\ \A c \in Pages : /\ buckets[c] \in Bucket /\ buckets[c].depth \in 0 .. MaxDepth
                             /\ buckets[c].entries \in Seq(Entry) /\ buckets[c].overflow \in Nat
                             /\ buckets[c].overflow # 0 => buckets[c].overflow \in Pages
<1>1. buckets \in Seq(Bucket)
  BY DEF HashTyped
<1>2. /\ Len(buckets) \in Nat /\ DOMAIN buckets = 1 .. Len(buckets)
      /\ \A c \in 1 .. Len(buckets) : buckets[c] \in Bucket
  <2> HIDE DEF Bucket
  <2> QED BY <1>1, LenProperties
<1>3. \A c \in Pages : buckets[c].overflow # 0 => buckets[c].overflow \in Pages
  BY <1>2 DEF HashTyped, Pages
<1> QED BY <1>2, <1>3 DEF Pages, Bucket

\* f[c] is what a walk from page c collects.
Walks(f, part) ==
  f = [c \in DOMAIN buckets |-> IF buckets[c].overflow = H!NoOverflow THEN part[c]
                                ELSE part[c] \o f[buckets[c].overflow]]

LEMMA WalksExists ==
  ASSUME HashTyped, NEW S, NEW part \in [Pages -> Seq(S)]
  PROVE  \E f : Walks(f, part)
<1>1. PICK N \in Nat : N = Len(buckets)
  BY PagesAre
<1> DEFINE next == [c \in 1 .. N |-> buckets[c].overflow]
<1>2. Leads(N, next)
  <2>1. \A c \in 1 .. N : buckets[c].overflow \in Nat
    BY <1>1, PagesAre DEF Pages
  <2> QED BY <1>1, <2>1 DEF Leads, HashTyped, Pages
<1>3. part \in [1 .. N -> Seq(S)]
  BY <1>1 DEF Pages
<1>4. \A c \in 1 .. N : next[c] = buckets[c].overflow
  OBVIOUS
<1> HIDE DEF next
<1>5. PICK f \in [1 .. N -> Seq(S)] : Unwound(f, N, next, part)
  BY <1>2, <1>3, Unwinds
<1>6. f = [c \in 1 .. N |-> IF buckets[c].overflow = 0 THEN part[c] ELSE part[c] \o f[buckets[c].overflow]]
  BY <1>4, <1>5 DEF Unwound
<1>7. DOMAIN buckets = 1 .. N
  BY <1>1, PagesAre DEF Pages
<1> QED BY <1>6, <1>7 DEF Walks, H!NoOverflow

LEMMA AlongIs ==
  ASSUME HashTyped, NEW S, NEW part \in [Pages -> Seq(S)], NEW b \in Pages
  PROVE  /\ H!Along(b, part) \in Seq(S)
         /\ H!Along(b, part) = IF buckets[b].overflow = 0 THEN part[b]
                               ELSE part[b] \o H!Along(buckets[b].overflow, part)
<1> DEFINE F == CHOOSE f : Walks(f, part)
<1>1. \A c : H!Along(c, part) = F[c]
  BY DEF H!Along, Walks
<1>2. Walks(F, part)
  BY WalksExists
<1> HIDE DEF F
<1>3. \A c \in Pages : F[c] = IF buckets[c].overflow = 0 THEN part[c] ELSE part[c] \o F[buckets[c].overflow]
  <2>1. DOMAIN buckets = Pages
    BY PagesAre
  <2> QED BY <1>2, <2>1 DEF Walks, H!NoOverflow
<1>4. PICK N \in Nat : N = Len(buckets) /\ Pages = 1 .. N
  BY PagesAre DEF Pages
<1> DEFINE W == {c \in 1 .. N : F[c] \in Seq(S)}
<1>5. W = 1 .. N
  <2>1. ASSUME NEW c \in 1 .. N, \A d \in c + 1 .. N : d \in W PROVE F[c] \in Seq(S)
    <3>1. CASE buckets[c].overflow = 0
      BY <1>3, <1>4, <3>1
    <3>2. CASE buckets[c].overflow # 0
      <4>1. buckets[c].overflow \in c + 1 .. N
        BY <1>4, <3>2 DEF HashTyped
      <4>2. part[c] \in Seq(S) /\ F[buckets[c].overflow] \in Seq(S)
        BY <1>4, <2>1, <4>1
      <4>3. part[c] \o F[buckets[c].overflow] \in Seq(S)
        BY <4>2, ConcatElements
      <4> QED BY <1>3, <1>4, <3>2, <4>3
    <3> QED BY <3>1, <3>2
  <2>2. W \in SUBSET (1 .. N) /\ \A c \in 1 .. N : (\A d \in c + 1 .. N : d \in W) => c \in W
    BY <2>1
  <2> HIDE DEF W
  <2> QED BY <2>2, Downward
<1>6. F[b] \in Seq(S)
  BY <1>4, <1>5
<1> QED BY <1>1, <1>3, <1>6

\* The pages of the chain of a bucket.
Chain(b) == Elements(H!ChainOf(b))

LEMMA ChainStep ==
  ASSUME HashTyped, NEW b \in Pages
  PROVE  /\ H!ChainOf(b) \in Seq(Pages)
         /\ H!ChainOf(b) = IF buckets[b].overflow = 0 THEN <<b>> ELSE <<b>> \o H!ChainOf(buckets[b].overflow)
         /\ Chain(b) = IF buckets[b].overflow = 0 THEN {b} ELSE {b} \cup Chain(buckets[b].overflow)
<1> DEFINE part == [c \in DOMAIN buckets |-> <<c>>]
<1>1. part \in [Pages -> Seq(Pages)] /\ part[b] = <<b>>
  BY PagesAre
<1>2. \A c : H!ChainOf(c) = H!Along(c, part)
  BY DEF H!ChainOf
<1> HIDE DEF part
<1>3. /\ H!Along(b, part) \in Seq(Pages)
      /\ H!Along(b, part) = IF buckets[b].overflow = 0 THEN part[b]
                            ELSE part[b] \o H!Along(buckets[b].overflow, part)
  BY <1>1, AlongIs
<1>4. buckets[b].overflow # 0 => H!Along(buckets[b].overflow, part) \in Seq(Pages)
  BY <1>1, PagesAre, AlongIs
<1>5. <<b>> \in Seq(Pages) /\ Elements(<<b>>) = {b}
  BY SingleElements
<1>6. CASE buckets[b].overflow = 0
  BY <1>1, <1>2, <1>3, <1>5, <1>6 DEF Chain
<1>7. CASE buckets[b].overflow # 0
  <2> DEFINE p == <<b>>
             q == H!ChainOf(buckets[b].overflow)
  <2>1. p \in Seq(Pages) /\ q \in Seq(Pages)
    BY <1>2, <1>4, <1>5, <1>7
  <2>2. Elements(p \o q) = Elements(p) \cup Elements(q)
    <3> HIDE DEF p, q
    <3> QED BY <2>1, ConcatElements
  <2>3. H!ChainOf(b) = <<b>> \o q
    BY <1>1, <1>2, <1>3, <1>7
  <2>4. H!ChainOf(b) \in Seq(Pages)
    BY <1>2, <1>3
  <2> QED BY <1>5, <1>7, <2>2, <2>3, <2>4 DEF Chain
<1> QED BY <1>6, <1>7

\* A page that a page leads to comes later.
LEMMA OverflowLater ==
  ASSUME HashTyped, NEW b \in Pages, buckets[b].overflow # 0
  PROVE  buckets[b].overflow \in Pages /\ b < buckets[b].overflow /\ b \in Nat
BY PagesAre DEF HashTyped, Pages

\* Induction along the chains, from their ends.
LEMMA FromTheEnd ==
  ASSUME HashTyped, NEW W \in SUBSET Pages,
         \A c \in Pages : (buckets[c].overflow # 0 => buckets[c].overflow \in W) => c \in W
  PROVE  W = Pages
<1>1. PICK N \in Nat : N = Len(buckets) /\ Pages = 1 .. N
  BY PagesAre DEF Pages
<1>2. W \in SUBSET (1 .. N)
  BY <1>1
<1>3. ASSUME NEW c \in 1 .. N, \A d \in c + 1 .. N : d \in W PROVE c \in W
  <2>1. buckets[c].overflow # 0 => buckets[c].overflow \in c + 1 .. N
    BY <1>1 DEF HashTyped
  <2> QED BY <1>1, <1>3, <2>1
<1>4. W = 1 .. N
  <2>1. \A c \in 1 .. N : (\A d \in c + 1 .. N : d \in W) => c \in W
    BY <1>3
  <2> QED BY <1>2, <2>1, Downward
<1> QED BY <1>1, <1>4

LEMMA ChainRises ==
  ASSUME HashTyped
  PROVE  \A b \in Pages : /\ b \in Chain(b) /\ Chain(b) \subseteq Pages
                          /\ \A c \in Chain(b) : b <= c
<1> DEFINE W == {b \in Pages : /\ b \in Chain(b) /\ Chain(b) \subseteq Pages
                               /\ \A c \in Chain(b) : b <= c}
<1>1. ASSUME NEW c \in Pages, buckets[c].overflow # 0 => buckets[c].overflow \in W
      PROVE  c \in W
  <2>1. c \in Nat
    BY DEF Pages
  <2>2. CASE buckets[c].overflow = 0
    <3>1. Chain(c) = {c}
      BY <2>2, ChainStep
    <3> QED BY <2>1, <3>1
  <2>3. CASE buckets[c].overflow # 0
    <3>1. Chain(c) = {c} \cup Chain(buckets[c].overflow)
      BY <2>3, ChainStep
    <3>2. buckets[c].overflow \in W /\ c < buckets[c].overflow /\ buckets[c].overflow \in Nat
      BY <1>1, <2>3, OverflowLater DEF Pages
    <3>3. \A d \in Chain(buckets[c].overflow) : d \in Nat /\ buckets[c].overflow <= d
      BY <3>2 DEF Pages
    <3> QED BY <2>1, <3>1, <3>2, <3>3
  <2> QED BY <2>2, <2>3
<1>2. W = Pages
  <2>1. W \in SUBSET Pages
    OBVIOUS
  <2> HIDE DEF W
  <2> QED BY <1>1, <2>1, FromTheEnd
<1> QED BY <1>2

LEMMA ChainCloses ==
  ASSUME HashTyped
  PROVE  \A b \in Pages : \A d \in Chain(b) :
           buckets[d].overflow # 0 => buckets[d].overflow \in Chain(b)
<1> DEFINE W == {b \in Pages : \A d \in Chain(b) :
                   buckets[d].overflow # 0 => buckets[d].overflow \in Chain(b)}
<1>1. ASSUME NEW c \in Pages, buckets[c].overflow # 0 => buckets[c].overflow \in W
      PROVE  c \in W
  <2>1. CASE buckets[c].overflow = 0
    BY <2>1, ChainStep
  <2>2. CASE buckets[c].overflow # 0
    <3>1. Chain(c) = {c} \cup Chain(buckets[c].overflow)
      BY <2>2, ChainStep
    <3>2. buckets[c].overflow \in Chain(buckets[c].overflow)
      BY <2>2, OverflowLater, ChainRises
    <3> QED BY <1>1, <2>2, <3>1, <3>2
  <2> QED BY <2>1, <2>2
<1>2. W = Pages
  <2>1. W \in SUBSET Pages
    OBVIOUS
  <2> HIDE DEF W
  <2> QED BY <1>1, <2>1, FromTheEnd
<1> QED BY <1>2

\* The last page of a chain leads to none.
LEMMA ChainEnds ==
  ASSUME HashTyped
  PROVE  \A b \in Pages : /\ H!Last(H!ChainOf(b)) \in Chain(b)
                          /\ buckets[H!Last(H!ChainOf(b))].overflow = 0
<1> DEFINE W == {b \in Pages : /\ H!Last(H!ChainOf(b)) \in Chain(b)
                               /\ buckets[H!Last(H!ChainOf(b))].overflow = 0}
<1>1. ASSUME NEW c \in Pages, buckets[c].overflow # 0 => buckets[c].overflow \in W
      PROVE  c \in W
  <2>1. CASE buckets[c].overflow = 0
    <3>1. H!ChainOf(c) = <<c>> /\ Chain(c) = {c}
      BY <2>1, ChainStep
    <3>2. H!Last(<<c>>) = c
      BY DEF H!Last
    <3> QED BY <2>1, <3>1, <3>2
  <2>2. CASE buckets[c].overflow # 0
    <3> DEFINE o == buckets[c].overflow
               q == H!ChainOf(o)
    <3>1. H!ChainOf(c) = <<c>> \o q /\ Chain(c) = {c} \cup Chain(o) /\ q \in Seq(Pages)
      BY <2>2, ChainStep, OverflowLater
    <3>2. Len(q) \in Nat /\ Len(q) # 0
      <4>1. o \in Elements(q)
        BY <2>2, OverflowLater, ChainRises DEF Chain
      <4> HIDE DEF q, o
      <4>2. Len(q) \in Nat
        BY <3>1, LenProperties
      <4>3. PICK i \in 1 .. Len(q) : o = q[i]
        BY <4>1 DEF Elements
      <4> QED BY <4>2, <4>3
    <3>3. H!Last(<<c>> \o q) = H!Last(q)
      <4>1. <<c>> \in Seq(Pages)
        OBVIOUS
      <4> DEFINE p == <<c>>
      <4>2. p \in Seq(Pages) /\ Len(p) = 1
        OBVIOUS
      <4> HIDE DEF p, q
      <4>3. /\ Len(p \o q) = Len(p) + Len(q)
            /\ \A i \in 1 .. Len(p) + Len(q) : (p \o q)[i] = IF i <= Len(p) THEN p[i] ELSE q[i - Len(p)]
        BY <3>1, <4>2, ConcatProperties
      <4>4. Len(p) + Len(q) = 1 + Len(q) /\ 1 + Len(q) \in 1 .. 1 + Len(q) /\ (1 + Len(q)) - 1 = Len(q)
        BY <3>2, <4>2
      <4>5. ~ (1 + Len(q) <= 1)
        BY <3>2
      <4>6. (p \o q)[1 + Len(q)] = q[Len(q)]
        BY <4>2, <4>3, <4>4, <4>5
      <4> QED BY <4>3, <4>4, <4>6 DEF H!Last, p
    <3>4. o \in W
      BY <1>1, <2>2
    <3> HIDE DEF q
    <3> QED BY <3>1, <3>3, <3>4 DEF q
  <2> QED BY <2>1, <2>2
<1>2. W = Pages
  <2>1. W \in SUBSET Pages
    OBVIOUS
  <2> HIDE DEF W
  <2> QED BY <1>1, <2>1, FromTheEnd
<1> QED BY <1>2

\* What a walk collects: the parts of the pages of the chain, each once.
LEMMA AlongHolds ==
  ASSUME HashTyped, NEW S, NEW part \in [Pages -> Seq(S)]
  PROVE  \A b \in Pages : \A x :
           x \in Elements(H!Along(b, part)) <=> \E c \in Chain(b) : x \in Elements(part[c])
<1> DEFINE W == {b \in Pages : \A x :
                   x \in Elements(H!Along(b, part)) <=> \E c \in Chain(b) : x \in Elements(part[c])}
<1>1. ASSUME NEW c \in Pages, buckets[c].overflow # 0 => buckets[c].overflow \in W
      PROVE  c \in W
  <2>1. CASE buckets[c].overflow = 0
    BY <2>1, ChainStep, AlongIs
  <2>2. CASE buckets[c].overflow # 0
    <3> DEFINE q == H!Along(buckets[c].overflow, part)
               p == part[c]
    <3>1. H!Along(c, part) = p \o q /\ p \in Seq(S)
      BY <2>2, AlongIs
    <3>2. q \in Seq(S)
      BY <2>2, OverflowLater, AlongIs
    <3>3. Elements(p \o q) = Elements(p) \cup Elements(q)
      <4> HIDE DEF p, q
      <4> QED BY <3>1, <3>2, ConcatElements
    <3>4. Chain(c) = {c} \cup Chain(buckets[c].overflow)
      BY <2>2, ChainStep
    <3> QED BY <1>1, <2>2, <3>1, <3>3, <3>4
  <2> QED BY <2>1, <2>2
<1>2. W = Pages
  <2>1. W \in SUBSET Pages
    OBVIOUS
  <2> HIDE DEF W
  <2> QED BY <1>1, <2>1, FromTheEnd
<1> QED BY <1>2

LEMMA AlongOnce ==
  ASSUME HashTyped, NEW S, NEW part \in [Pages -> Seq(S)],
         \A c \in Pages : NoneTwice(part[c]),
         \A c, d \in Pages : c # d => Elements(part[c]) \cap Elements(part[d]) = {}
  PROVE  \A b \in Pages : NoneTwice(H!Along(b, part))
<1> DEFINE W == {b \in Pages : NoneTwice(H!Along(b, part))}
<1>1. ASSUME NEW c \in Pages, buckets[c].overflow # 0 => buckets[c].overflow \in W
      PROVE  c \in W
  <2>1. CASE buckets[c].overflow = 0
    BY <2>1, AlongIs
  <2>2. CASE buckets[c].overflow # 0
    <3> DEFINE o == buckets[c].overflow
               q == H!Along(o, part)
               p == part[c]
    <3>1. H!Along(c, part) = p \o q /\ p \in Seq(S)
      BY <2>2, AlongIs
    <3>2. q \in Seq(S) /\ o \in Pages /\ c < o
      BY <2>2, OverflowLater, AlongIs
    <3>3. \A d \in Chain(o) : d \in Pages /\ d # c
      BY <3>2, ChainRises DEF Pages
    <3>4. Elements(p) \cap Elements(q) = {}
      BY <3>2, <3>3, AlongHolds
    <3>5. NoneTwice(p) /\ NoneTwice(q)
      BY <1>1, <2>2
    <3>6. NoneTwice(p \o q)
      <4> HIDE DEF p, q
      <4> QED BY <3>1, <3>2, <3>4, <3>5, ConcatElements
    <3> QED BY <3>1, <3>6
  <2> QED BY <2>1, <2>2
<1>2. W = Pages
  <2>1. W \in SUBSET Pages
    OBVIOUS
  <2> HIDE DEF W
  <2> QED BY <1>1, <2>1, FromTheEnd
<1> QED BY <1>2

-----------------------------------------------------------------------------
(* The extendible hash: which pages belong to which bucket, which slots lead *)
(* to it and which entries are there.                                       *)

Slots == 0 .. 2 ^ globalDepth - 1

\* h gives each page its bucket, the head of the chain it is in.
Homed(h) ==
  /\ h \in [Pages -> Pages]
  /\ \A c \in Pages : buckets[c].overflow # 0 => h[buckets[c].overflow] = h[c]
  /\ \A c \in Pages : h[c] # c => /\ buckets[h[c]].depth = MaxDepth
                                  /\ \E p \in Pages : p < c /\ buckets[p].overflow = c
  /\ \A s \in Slots : h[directory[s]] = directory[s]
  /\ \A c \in Pages : \E s \in Slots : directory[s] = h[c]

\* The slots of a bucket are those of its suffix.
Classes ==
  \A s \in Slots :
    /\ buckets[directory[s]].depth <= globalDepth
    /\ \A t \in Slots : directory[t] = directory[s]
                        <=> Low(t, buckets[directory[s]].depth) = Low(s, buckets[directory[s]].depth)

Placed(h) ==
  \A c \in Pages, s \in Slots : directory[s] = h[c] =>
    \A e \in Elements(buckets[c].entries) :
      Low(Digest[e[1]], buckets[h[c]].depth) = Low(s, buckets[h[c]].depth)

\* No entry is in the pages twice, and the one being inserted is not in them.
Once ==
  /\ \A c \in Pages : NoneTwice(buckets[c].entries)
  /\ \A c, d \in Pages : c # d => Elements(buckets[c].entries) \cap Elements(buckets[d].entries) = {}
  /\ \A c \in Pages : inserting \notin Elements(buckets[c].entries)

HashInv == HashTyped /\ Classes /\ Once /\ \E h : Homed(h) /\ Placed(h)

IsHash == kind = "HASH"

LEMMA ChainHome ==
  ASSUME HashTyped, NEW h, Homed(h), NEW b \in Pages, h[b] = b
  PROVE  Chain(b) = {c \in Pages : h[c] = b}
<1> DEFINE W == {c \in Pages : \A d \in Chain(c) : h[d] = h[c]}
<1>1. ASSUME NEW c \in Pages, buckets[c].overflow # 0 => buckets[c].overflow \in W
      PROVE  c \in W
  <2>1. CASE buckets[c].overflow = 0
    <3>1. Chain(c) = {c}
      BY <2>1, ChainStep
    <3> QED BY <3>1
  <2>2. CASE buckets[c].overflow # 0
    <3>1. Chain(c) = {c} \cup Chain(buckets[c].overflow)
      BY <2>2, ChainStep
    <3>2. h[buckets[c].overflow] = h[c]
      BY <2>2 DEF Homed
    <3> QED BY <1>1, <2>2, <3>1, <3>2
  <2> QED BY <2>1, <2>2
<1>2. W = Pages
  <2>1. W \in SUBSET Pages
    OBVIOUS
  <2> HIDE DEF W
  <2> QED BY <1>1, <2>1, FromTheEnd
<1>3. Chain(b) \subseteq {c \in Pages : h[c] = b}
  BY <1>2, ChainRises
<1> DEFINE V == {c \in Pages : h[c] = b /\ c \notin Chain(b)}
<1>4. ASSUME V # {} PROVE FALSE
  <2>1. V \in SUBSET Nat
    BY DEF Pages
  <2>2. PICK c \in V : \A d \in V : c <= d
    <3> HIDE DEF V
    <3> QED BY <1>4, <2>1, LeastNat
  <2>3. c # b
    BY <2>2, ChainRises
  <2>4. PICK p \in Pages : p < c /\ buckets[p].overflow = c
    BY <2>2, <2>3 DEF Homed
  <2>5. c # 0 /\ p \in Nat /\ c \in Nat
    BY <2>2 DEF Pages
  <2>6. h[p] = b
    BY <2>2, <2>4, <2>5 DEF Homed
  <2>7. p \in Chain(b)
    BY <2>2, <2>4, <2>5, <2>6
  <2>8. c \in Chain(b)
    BY <2>4, <2>5, <2>7, ChainCloses
  <2> QED BY <2>2, <2>8
<1> QED BY <1>3, <1>4

LEMMA DigestIs == \A k \in Key : Digest[k] \in Nat
BY ConstantsAssumption

LEMMA SlotIs ==
  ASSUME HashTyped, NEW k \in Key
  PROVE  /\ H!Slot(k) = Low(Digest[k], globalDepth) /\ H!Slot(k) \in Slots
         /\ H!BucketOf(k) = directory[H!Slot(k)] /\ H!BucketOf(k) \in Pages
<1>1. globalDepth \in Nat
  BY ConstantsAssumption DEF HashTyped
<1>2. H!Slot(k) = Low(Digest[k], globalDepth)
  BY DEF H!Slot, Low
<1>3. Low(Digest[k], globalDepth) \in Nat /\ Low(Digest[k], globalDepth) < 2 ^ globalDepth
  BY <1>1, DigestIs, LowParts
<1>4. 2 ^ globalDepth \in Nat
  BY <1>1, Doubling
<1>5. H!Slot(k) \in Slots
  BY <1>2, <1>3, <1>4 DEF Slots
<1> QED BY <1>2, <1>5 DEF HashTyped, Slots, H!BucketOf

\* An entry is in the bucket its key leads to.
LEMMA EntryHome ==
  ASSUME HashTyped, Classes, NEW h, Homed(h), Placed(h),
         NEW c \in Pages, NEW e \in Elements(buckets[c].entries)
  PROVE  e \in Entry /\ h[c] = H!BucketOf(e[1])
<1>1. e \in Entry /\ e[1] \in Key
  <2>1. buckets[c].entries \in Seq(Entry)
    BY PagesAre
  <2>2. e \in Entry
    <3> HIDE DEF Entry
    <3> QED BY <2>1, RangeIsElements
  <2> QED BY <2>2 DEF Entry
<1> DEFINE k == e[1]
           d == buckets[h[c]].depth
<1>2. PICK s \in Slots : directory[s] = h[c]
  BY DEF Homed
<1>3. Low(Digest[k], d) = Low(s, d)
  BY <1>2 DEF Placed
<1>4. h[c] \in Pages /\ d \in 0 .. MaxDepth /\ d <= globalDepth
  BY <1>2, PagesAre DEF Homed, Classes
<1>5. globalDepth \in Nat /\ d \in Nat /\ Digest[k] \in Nat
  <2>1. globalDepth \in 0 .. MaxDepth
    BY DEF HashTyped
  <2> HIDE DEF d
  <2> QED BY <1>1, <1>4, <2>1, DigestIs
<1>6. H!Slot(k) = Low(Digest[k], globalDepth) /\ H!Slot(k) \in Slots /\ H!BucketOf(k) = directory[H!Slot(k)]
  BY <1>1, SlotIs
<1>7. Low(H!Slot(k), d) = Low(s, d)
  <2>1. Low(Low(Digest[k], globalDepth), d) = Low(Digest[k], d)
    <3> HIDE DEF d, k
    <3> QED BY <1>4, <1>5, LowLow
  <2> QED BY <1>3, <1>6, <2>1
<1>8. directory[H!Slot(k)] = directory[s]
  <2>1. \A t \in Slots : directory[t] = directory[s] <=> Low(t, d) = Low(s, d)
    BY <1>2 DEF Classes
  <2> HIDE DEF d
  <2> QED BY <1>6, <1>7, <2>1
<1> QED BY <1>1, <1>2, <1>6, <1>8

LEMMA HashKept ==
  ASSUME HashTyped
  PROVE  /\ \A e : e \in H!Kept <=> \E c \in Pages : e \in Elements(buckets[c].entries)
         /\ H!Kept \subseteq Entry
<1>1. \A c \in Pages : /\ H!Range(buckets[c].entries) = Elements(buckets[c].entries)
                       /\ Elements(buckets[c].entries) \subseteq Entry
  <2>1. \A c \in Pages : buckets[c].entries \in Seq(Entry)
    BY PagesAre
  <2> HIDE DEF Entry
  <2> QED BY <2>1, RangeIsElements
<1>2. H!Kept = UNION {H!Range(buckets[c].entries) : c \in Pages}
  BY PagesAre DEF H!Kept, H!EntriesOf
<1> QED BY <1>1, <1>2

\* The structure follows from the invariant.
LEMMA DirectoryHolds ==
  ASSUME HashInv
  PROVE  H!DirectorySound
<1>1. HashTyped /\ Classes
  BY DEF HashInv
<1>2. PICK h : Homed(h) /\ Placed(h)
  BY DEF HashInv
<1>3. DOMAIN directory = Slots /\ globalDepth <= MaxDepth /\ DOMAIN buckets = Pages
  BY <1>1, PagesAre, ConstantsAssumption DEF HashTyped, Slots
<1>4. \A b \in Pages : H!Range(H!ChainOf(b)) = Chain(b)
  BY <1>1, ChainStep, RangeIsElements DEF Chain
<1>5. ASSUME NEW s \in Slots
      PROVE  LET b == directory[s]
                 mask == 2 ^ buckets[b].depth
             IN /\ buckets[b].depth <= globalDepth
                /\ {t \in Slots : directory[t] = b} = {t \in Slots : t % mask = s % mask}
                /\ \A c \in H!Range(H!ChainOf(b)), k \in Key :
                     (\E r \in Rid : <<k, r>> \in H!Range(buckets[c].entries)) => Digest[k] % mask = s % mask
  <2> DEFINE b == directory[s]
             d == buckets[b].depth
  <2>1. b \in Pages /\ h[b] = b
    BY <1>1, <1>2 DEF HashTyped, Slots, Homed
  <2>2. d <= globalDepth /\ \A t \in Slots : directory[t] = b <=> Low(t, d) = Low(s, d)
    BY <1>1 DEF Classes
  <2>3. ASSUME NEW c \in Chain(b), NEW k \in Key, NEW r \in Rid, <<k, r>> \in H!Range(buckets[c].entries)
        PROVE  Low(Digest[k], d) = Low(s, d)
    <3>1. c \in Pages /\ h[c] = b
      BY <1>1, <1>2, <2>1, ChainHome
    <3>2. <<k, r>> \in Elements(buckets[c].entries)
      <4>1. buckets[c].entries \in Seq(Entry)
        BY <1>1, <3>1, PagesAre
      <4> HIDE DEF Entry
      <4> QED BY <2>3, <4>1, RangeIsElements
    <3>3. \A e \in Elements(buckets[c].entries) : Low(Digest[e[1]], d) = Low(s, d)
      BY <1>2, <3>1 DEF Placed
    <3>4. <<k, r>>[1] = k
      OBVIOUS
    <3> HIDE DEF d
    <3> QED BY <3>2, <3>3, <3>4
  <2> QED BY <1>4, <2>1, <2>2, <2>3 DEF Low
<1>6. ASSUME NEW c \in Pages PROVE \E s \in Slots : c \in H!Range(H!ChainOf(directory[s]))
  <2>1. PICK s \in Slots : directory[s] = h[c]
    BY <1>2 DEF Homed
  <2>2. directory[s] \in Pages /\ h[directory[s]] = directory[s]
    BY <1>1, <1>2 DEF HashTyped, Slots, Homed
  <2>3. c \in Chain(directory[s])
    BY <1>1, <1>2, <2>1, <2>2, ChainHome
  <2> QED BY <1>4, <2>2, <2>3
<1> QED BY <1>1, <1>3, <1>5, <1>6 DEF H!DirectorySound, Slots

\* search returns the entries of the key, each once.
LEMMA FoundHolds ==
  ASSUME HashInv, NEW k \in Key
  PROVE  Lists(H!Found(k), {e \in H!Kept : e[1] = k})
<1>1. HashTyped /\ Classes /\ Once
  BY DEF HashInv
<1>2. PICK h : Homed(h) /\ Placed(h)
  BY DEF HashInv
<1> DEFINE b == H!BucketOf(k)
           X == {k} \X Rid
           part == [c \in DOMAIN buckets |-> H!Only(buckets[c].entries, X)]
<1>3. b \in Pages /\ h[b] = b
  BY <1>1, <1>2, SlotIs DEF Homed
<1>4. \A c \in Pages : /\ H!Only(buckets[c].entries, X) \in Seq(Entry)
                       /\ Elements(H!Only(buckets[c].entries, X)) = Elements(buckets[c].entries) \cap X
                       /\ NoneTwice(H!Only(buckets[c].entries, X))
  <2>1. \A c \in Pages : buckets[c].entries \in Seq(Entry) /\ NoneTwice(buckets[c].entries)
    BY <1>1, PagesAre DEF Once
  <2> HIDE DEF Entry, X
  <2> QED BY <2>1, OnlyIs
<1>5. DOMAIN buckets = Pages
  BY <1>1, PagesAre
<1>6. part \in [Pages -> Seq(Entry)] /\ \A c \in Pages : part[c] = H!Only(buckets[c].entries, X)
  <2> HIDE DEF Entry, X
  <2> QED BY <1>4, <1>5
<1>7. H!Found(k) = H!Along(b, part)
  BY DEF H!Found
<1> HIDE DEF part, b, X, Entry
<1>8. H!Found(k) \in Seq(Entry)
  BY <1>1, <1>3, <1>6, <1>7, AlongIs
<1>9. NoneTwice(H!Found(k))
  <2>1. \A c \in Pages : NoneTwice(part[c])
    BY <1>4, <1>6
  <2>2. \A c, d \in Pages : c # d => Elements(part[c]) \cap Elements(part[d]) = {}
    <3>1. \A c, d \in Pages : c # d => Elements(buckets[c].entries) \cap Elements(buckets[d].entries) = {}
      BY <1>1 DEF Once
    <3> QED BY <1>4, <1>6, <3>1
  <2> QED BY <1>1, <1>3, <1>6, <1>7, <2>1, <2>2, AlongOnce
<1>10. \A x : x \in Elements(H!Found(k)) <=> \E c \in Chain(b) : x \in Elements(part[c])
  BY <1>1, <1>3, <1>6, <1>7, AlongHolds
<1>11. Chain(b) = {c \in Pages : h[c] = b}
  BY <1>1, <1>2, <1>3, ChainHome
<1>12. Elements(H!Found(k)) = {e \in H!Kept : e[1] = k}
  <2>1. ASSUME NEW e \in Elements(H!Found(k)) PROVE e \in H!Kept /\ e[1] = k
    <3>1. PICK c \in Chain(b) : e \in Elements(part[c])
      BY <1>10
    <3>2. c \in Pages /\ e \in Elements(buckets[c].entries) /\ e \in X
      BY <1>4, <1>6, <1>11, <3>1
    <3>3. e \in H!Kept
      BY <1>1, <3>2, HashKept
    <3> QED BY <3>2, <3>3 DEF X
  <2>2. ASSUME NEW e \in H!Kept, e[1] = k PROVE e \in Elements(H!Found(k))
    <3>1. PICK c \in Pages : e \in Elements(buckets[c].entries)
      BY <1>1, HashKept
    <3>2. e \in Entry /\ h[c] = H!BucketOf(e[1])
      BY <1>1, <1>2, <3>1, EntryHome
    <3>3. c \in Chain(b)
      BY <1>11, <2>2, <3>2 DEF b
    <3>4. e \in X
      BY <2>2, <3>2 DEF X, Entry
    <3>5. e \in Elements(part[c])
      BY <1>4, <1>6, <3>1, <3>4
    <3> QED BY <1>10, <3>3, <3>5
  <2> QED BY <2>1, <2>2
<1>13. Range(H!Found(k)) = Elements(H!Found(k)) /\ Len(H!Found(k)) = Cardinality(Elements(H!Found(k)))
  BY <1>8, <1>9, RangeIsElements, NoneTwiceCounts
<1> QED BY <1>12, <1>13 DEF Lists

-----------------------------------------------------------------------------
(* The steps of the hash.  What none of them but a split and an overflow    *)
(* changes is how the pages and the directory lead to each other.           *)

SamePages ==
  /\ UNCHANGED <<directory, globalDepth>>
  /\ buckets' \in Seq(Bucket) /\ Len(buckets') = Len(buckets)
  /\ \A c \in Pages : buckets'[c].depth = buckets[c].depth /\ buckets'[c].overflow = buckets[c].overflow

LEMMA SamePagesKeep ==
  ASSUME HashTyped, Classes, NEW h, Homed(h), SamePages
  PROVE  /\ Pages' = Pages /\ Classes' /\ Homed(h)'
         /\ inserting' \in {<<>>} \cup Entry => HashTyped'
         /\ (\A c \in Pages, s \in Slots : directory[s] = h[c] =>
               \A e \in Elements(buckets'[c].entries) :
                 Low(Digest[e[1]], buckets[h[c]].depth) = Low(s, buckets[h[c]].depth)) => Placed(h)'
<1>1. Pages' = Pages /\ Slots' = Slots /\ directory' = directory /\ globalDepth' = globalDepth
  BY DEF SamePages, Pages, Slots
<1>2. \A s \in Slots : directory[s] \in Pages
  BY DEF HashTyped, Slots
<1>3. h \in [Pages -> Pages]
  BY DEF Homed
<1>4. Classes'
  BY <1>1, <1>2 DEF Classes, SamePages
<1>5. Homed(h)'
  BY <1>1, <1>2, <1>3 DEF Homed, SamePages
<1>6. inserting' \in {<<>>} \cup Entry => HashTyped'
  BY <1>1 DEF HashTyped, SamePages
<1>7. \A c \in Pages : buckets'[h[c]].depth = buckets[h[c]].depth
  BY <1>3 DEF SamePages
<1> QED BY <1>1, <1>4, <1>5, <1>6, <1>7 DEF Placed

\* The slots of the bucket of a key have the low bits of its digest.
LEMMA KeyPlaced ==
  ASSUME HashTyped, Classes, NEW k \in Key, NEW s \in Slots, directory[s] = H!BucketOf(k)
  PROVE  Low(Digest[k], buckets[directory[s]].depth) = Low(s, buckets[directory[s]].depth)
<1> DEFINE b == directory[s]
           d == buckets[b].depth
<1>1. H!Slot(k) = Low(Digest[k], globalDepth) /\ H!Slot(k) \in Slots /\ directory[H!Slot(k)] = b /\ b \in Pages
  BY SlotIs
<1>2. Low(H!Slot(k), d) = Low(s, d) /\ d <= globalDepth
  BY <1>1 DEF Classes
<1>3. d \in Nat /\ globalDepth \in Nat /\ Digest[k] \in Nat
  <2>1. d \in 0 .. MaxDepth /\ globalDepth \in 0 .. MaxDepth
    BY <1>1, PagesAre DEF HashTyped
  <2> HIDE DEF d
  <2> QED BY <2>1, DigestIs
<1>4. Low(Low(Digest[k], globalDepth), d) = Low(Digest[k], d)
  <2> HIDE DEF d
  <2> QED BY <1>2, <1>3, LowLow
<1> QED BY <1>1, <1>2, <1>4

\* The entries in the pages.
Held == UNION {Elements(buckets[c].entries) : c \in Pages}

\* An entry that is new to the hash, put in a page of its bucket.
LEMMA AddKeeps ==
  ASSUME HashTyped, Classes, Once, NEW h, Homed(h), Placed(h),
         inserting \in Entry, NEW c \in Pages, h[c] = H!BucketOf(inserting[1]),
         buckets' = [buckets EXCEPT ![c].entries = Append(@, inserting)],
         inserting' = <<>>, UNCHANGED <<directory, globalDepth>>
  PROVE  HashInv' /\ Held' = Held \cup {inserting}
<1> DEFINE x == inserting
           es == buckets[c].entries
           new == [buckets[c] EXCEPT !.entries = Append(es, x)]
<1>1. buckets \in Seq(Bucket) /\ buckets[c] \in Bucket /\ es \in Seq(Entry)
  BY PagesAre DEF HashTyped
<1>2. /\ Append(es, x) \in Seq(Entry) /\ Elements(Append(es, x)) = Elements(es) \cup {x}
      /\ NoneTwice(es) /\ x \notin Elements(es) => NoneTwice(Append(es, x))
  <2> HIDE DEF es, Entry
  <2> QED BY <1>1, AppendElements
<1>3. /\ new \in Bucket /\ new.depth = buckets[c].depth /\ new.overflow = buckets[c].overflow
      /\ new.entries = Append(es, x)
  <2> DEFINE q == Append(es, x)
  <2>1. q \in Seq(Entry)
    BY <1>2
  <2> HIDE DEF es, Entry, q
  <2>2. [buckets[c] EXCEPT !.entries = q] \in Bucket
    BY <1>1, <2>1 DEF Bucket
  <2>3. /\ [buckets[c] EXCEPT !.entries = q].entries = q
        /\ [buckets[c] EXCEPT !.entries = q].depth = buckets[c].depth
        /\ [buckets[c] EXCEPT !.entries = q].overflow = buckets[c].overflow
    BY <1>1 DEF Bucket
  <2> QED BY <2>2, <2>3 DEF q
<1>4. buckets' = [buckets EXCEPT ![c] = new]
  OBVIOUS
<1> HIDE DEF new
<1>5. /\ buckets' \in Seq(Bucket) /\ Len(buckets') = Len(buckets)
      /\ \A d \in Pages : buckets'[d] = IF d = c THEN new ELSE buckets[d]
  <2>1. c \in 1 .. Len(buckets)
    BY DEF Pages
  <2> HIDE DEF Bucket
  <2>2. /\ [buckets EXCEPT ![c] = new] \in Seq(Bucket) /\ Len([buckets EXCEPT ![c] = new]) = Len(buckets)
        /\ \A d \in 1 .. Len(buckets) : [buckets EXCEPT ![c] = new][d] = IF d = c THEN new ELSE buckets[d]
    BY <1>1, <1>3, <2>1, ExceptSeq
  <2> QED BY <1>4, <2>2 DEF Pages
<1>6. SamePages
  BY <1>3, <1>5 DEF SamePages
<1>7. \A d \in Pages : buckets'[d].entries = IF d = c THEN Append(es, x) ELSE buckets[d].entries
  BY <1>3, <1>5
<1> HIDE DEF es, Entry
<1>8. HashTyped' /\ Classes' /\ Homed(h)' /\ Pages' = Pages
  BY <1>6, SamePagesKeep
<1>9. Placed(h)'
  <2> SUFFICES ASSUME NEW d \in Pages, NEW s \in Slots, directory[s] = h[d],
                      NEW e \in Elements(buckets'[d].entries)
               PROVE  Low(Digest[e[1]], buckets[h[d]].depth) = Low(s, buckets[h[d]].depth)
    BY <1>6, SamePagesKeep
  <2>1. CASE e \in Elements(buckets[d].entries)
    BY <2>1 DEF Placed
  <2>2. CASE e \notin Elements(buckets[d].entries)
    <3>1. d = c /\ e = x
      BY <1>2, <1>7, <2>2 DEF es
    <3>2. x[1] \in Key /\ directory[s] = H!BucketOf(x[1]) /\ directory[s] = h[d]
      BY <3>1 DEF Entry
    <3> QED BY <3>1, <3>2, KeyPlaced
  <2> QED BY <2>1, <2>2
<1>10. Once'
  <2>1. \A d \in Pages : NoneTwice(buckets'[d].entries)
    BY <1>2, <1>7 DEF Once, es
  <2>2. \A d, g \in Pages : d # g => Elements(buckets'[d].entries) \cap Elements(buckets'[g].entries) = {}
    BY <1>2, <1>7 DEF Once, es
  <2>3. \A d \in Pages : inserting' \notin Elements(buckets'[d].entries)
    <3>1. \A d \in Pages : buckets'[d].entries \in Seq(Entry)
      BY <1>1, <1>2, <1>7, PagesAre DEF es
    <3>2. <<>> \notin Entry
      BY DEF Entry
    <3> QED BY <3>1, <3>2, RangeIsElements
  <2> QED BY <1>8, <2>1, <2>2, <2>3 DEF Once
<1>11. Held' = Held \cup {x}
  <2>1. \A d \in Pages : Elements(buckets'[d].entries) = IF d = c THEN Elements(es) \cup {x}
                                                        ELSE Elements(buckets[d].entries)
    <3> SUFFICES ASSUME NEW d \in Pages
                 PROVE  Elements(buckets'[d].entries) = IF d = c THEN Elements(es) \cup {x}
                                                         ELSE Elements(buckets[d].entries)
      OBVIOUS
    <3> DEFINE q == Append(es, x)
    <3>1. Elements(q) = Elements(es) \cup {x} /\ buckets'[d].entries = IF d = c THEN q ELSE buckets[d].entries
      BY <1>2, <1>7
    <3> HIDE DEF q
    <3>2. CASE d = c
      <4>1. buckets'[d].entries = q
        BY <3>1, <3>2
      <4> QED BY <3>1, <3>2, <4>1
    <3>3. CASE d # c
      <4>1. buckets'[d].entries = buckets[d].entries
        BY <3>1, <3>3
      <4> QED BY <3>3, <4>1
    <3> QED BY <3>2, <3>3
  <2>2. c \in Pages /\ es = buckets[c].entries
    BY DEF es
  <2>3. /\ \A e : e \in Held <=> \E d \in Pages : e \in Elements(buckets[d].entries)
        /\ \A e : e \in Held' <=> \E d \in Pages : e \in Elements(buckets'[d].entries)
    BY <1>8 DEF Held
  <2> HIDE DEF x
  <2>4. \A e : e \in Held' <=> e \in Held \/ e = x
    BY <2>1, <2>2, <2>3
  <2> QED BY <2>4
<1> QED BY <1>8, <1>9, <1>10, <1>11 DEF HashInv

LEMMA HashStarts == Init /\ IsHash => HashInv
<1> SUFFICES ASSUME H!HashInit PROVE HashInv
  BY DEF Init, IsHash
<1> DEFINE first == [depth |-> 0, entries |-> <<>>, overflow |-> 0]
           h == [c \in {1} |-> 1]
<1>1. 2 ^ 0 = 1
  OBVIOUS
<1>2. /\ globalDepth = 0 /\ directory = [s \in {0} |-> 1] /\ inserting = <<>>
      /\ buckets = <<first>>
  BY DEF H!HashInit, H!NewBucket, H!NoOverflow, H!NoEntry
<1>3. Len(buckets) = 1 /\ Pages = {1} /\ Slots = {0} /\ buckets[1] = first
  BY <1>1, <1>2 DEF Pages, Slots
<1>4. HashTyped
  <2>1. first \in Bucket
    BY ConstantsAssumption DEF Bucket
  <2>2. buckets \in Seq(Bucket)
    <3> HIDE DEF first, Bucket
    <3> QED BY <1>2, <2>1
  <2>3. directory \in [0 .. 2 ^ globalDepth - 1 -> Pages]
    BY <1>2, <1>3 DEF Slots
  <2> QED BY <1>2, <1>3, <2>2, <2>3, ConstantsAssumption DEF HashTyped
<1>5. Classes
  BY <1>2, <1>3 DEF Classes
<1>6. Elements(buckets[1].entries) = {} /\ NoneTwice(buckets[1].entries)
  BY <1>3, EmptyElements
<1>7. Once
  BY <1>3, <1>6 DEF Once
<1>8. Homed(h) /\ Placed(h)
  BY <1>2, <1>3, <1>6 DEF Homed, Placed
<1> QED BY <1>4, <1>5, <1>7, <1>8 DEF HashInv

LEMMA StartKeeps ==
  ASSUME HashInv, NEW k \in Key, NEW r \in Rid, <<k, r>> \notin H!Kept, H!StartInsert(k, r)
  PROVE  HashInv' /\ Held' = Held
<1>1. /\ inserting' = <<k, r>> /\ <<k, r>> \in Entry
      /\ directory' = directory /\ globalDepth' = globalDepth /\ buckets' = buckets
  BY DEF H!StartInsert, Entry
<1>2. HashTyped /\ Classes /\ Once
  BY DEF HashInv
<1>3. PICK h : Homed(h) /\ Placed(h)
  BY DEF HashInv
<1>4. Pages' = Pages /\ Slots' = Slots
  BY <1>1 DEF Pages, Slots
<1>5. HashTyped'
  BY <1>1, <1>2, <1>4 DEF HashTyped
<1>6. Classes'
  BY <1>1, <1>2, <1>4 DEF Classes
<1>7. Homed(h)' /\ Placed(h)'
  BY <1>1, <1>3, <1>4 DEF Homed, Placed
<1>8. Once'
  <2>1. \A c \in Pages : <<k, r>> \notin Elements(buckets[c].entries)
    BY <1>2, HashKept
  <2> QED BY <1>1, <1>2, <1>4, <2>1 DEF Once
<1>9. Held' = Held
  BY <1>1, <1>4 DEF Held
<1> QED BY <1>5, <1>6, <1>7, <1>8, <1>9 DEF HashInv

\* _add to a bucket with room.
LEMMA AddToBucketKeeps ==
  ASSUME HashInv, H!AddToBucket
  PROVE  HashInv' /\ Held' = Held \cup {inserting}
<1>1. HashTyped /\ Classes /\ Once
  BY DEF HashInv
<1>2. PICK h : Homed(h) /\ Placed(h)
  BY DEF HashInv
<1>3. inserting \in Entry
  BY <1>1 DEF H!AddToBucket, H!NoEntry, HashTyped
<1> DEFINE b == H!BucketOf(inserting[1])
<1>4. inserting[1] \in Key
  BY <1>3 DEF Entry
<1>5. b \in Pages /\ h[b] = b
  BY <1>1, <1>2, <1>4, SlotIs DEF Homed
<1>6. /\ buckets' = [buckets EXCEPT ![b].entries = Append(@, inserting)]
      /\ inserting' = <<>> /\ UNCHANGED <<directory, globalDepth>>
  BY DEF H!AddToBucket, H!AddEntry, H!NoEntry
<1> QED BY <1>1, <1>2, <1>3, <1>5, <1>6, AddKeeps

\* What a removal leaves in the pages: the entries of the key are in no chain
\* but the one it walks along.
LEMMA WithoutIs ==
  ASSUME HashInv, NEW k \in Key, NEW rids
  PROVE  LET left == H!Without(k, rids)
         IN /\ left \in Seq(Bucket) /\ Len(left) = Len(buckets) /\ DOMAIN left = Pages
            /\ \A c \in Pages : /\ left[c].depth = buckets[c].depth /\ left[c].overflow = buckets[c].overflow
                                /\ left[c].entries \in Seq(Entry) /\ NoneTwice(left[c].entries)
                                /\ Elements(left[c].entries) = Elements(buckets[c].entries) \ ({k} \X rids)
<1>1. HashTyped /\ Classes /\ Once
  BY DEF HashInv
<1>2. PICK h : Homed(h) /\ Placed(h)
  BY DEF HashInv
<1> DEFINE b == H!BucketOf(k)
           X == {k} \X rids
           left == [c \in Pages |-> H!Only(buckets[c].entries, H!Range(buckets[c].entries) \ X)]
           inChain == H!Range(H!ChainOf(b))
           page == [c \in Pages |-> IF c \in inChain
                                    THEN [buckets[c] EXCEPT !.entries = left[c]] ELSE buckets[c]]
<1>3. b \in Pages /\ h[b] = b /\ DOMAIN buckets = Pages
  BY <1>1, <1>2, SlotIs, PagesAre DEF Homed
<1>4. inChain = {c \in Pages : h[c] = b}
  <2>1. inChain = Chain(b)
    BY <1>1, <1>3, ChainStep, RangeIsElements DEF Chain
  <2> QED BY <1>1, <1>2, <1>3, <2>1, ChainHome
<1>5. H!Without(k, rids) = page /\ DOMAIN page = Pages
  BY <1>3 DEF H!Without
<1>6. \A c \in Pages : /\ left[c] \in Seq(Entry) /\ NoneTwice(left[c])
                       /\ Elements(left[c]) = Elements(buckets[c].entries) \ X
  <2> SUFFICES ASSUME NEW c \in Pages
               PROVE  /\ left[c] \in Seq(Entry) /\ NoneTwice(left[c])
                      /\ Elements(left[c]) = Elements(buckets[c].entries) \ X
    OBVIOUS
  <2> DEFINE es == buckets[c].entries
             Y == H!Range(es) \ X
  <2>1. es \in Seq(Entry) /\ NoneTwice(es)
    BY <1>1, PagesAre DEF Once
  <2>2. H!Range(es) = Elements(es)
    <3> HIDE DEF Entry, es
    <3> QED BY <2>1, RangeIsElements
  <2>3. left[c] = H!Only(es, Y)
    OBVIOUS
  <2>4. /\ H!Only(es, Y) \in Seq(Entry) /\ Elements(H!Only(es, Y)) = Elements(es) \cap Y
        /\ NoneTwice(H!Only(es, Y))
    <3> HIDE DEF Entry, es, Y
    <3> QED BY <2>1, OnlyIs
  <2>5. Elements(es) \cap Y = Elements(es) \ X
    <3> HIDE DEF es, X
    <3> QED BY <2>2
  <2> HIDE DEF left, Y, X
  <2> QED BY <2>3, <2>4, <2>5
<1> HIDE DEF left, X
<1>7. \A c \in Pages : /\ page[c] \in Bucket
                       /\ page[c].depth = buckets[c].depth /\ page[c].overflow = buckets[c].overflow
                       /\ page[c].entries = IF c \in inChain THEN left[c] ELSE buckets[c].entries
  <2> SUFFICES ASSUME NEW c \in Pages
               PROVE  /\ page[c] \in Bucket
                      /\ page[c].depth = buckets[c].depth /\ page[c].overflow = buckets[c].overflow
                      /\ page[c].entries = IF c \in inChain THEN left[c] ELSE buckets[c].entries
    OBVIOUS
  <2>1. buckets[c] \in Bucket /\ left[c] \in Seq(Entry)
    BY <1>1, <1>6, PagesAre
  <2>2. page[c] = IF c \in inChain THEN [buckets[c] EXCEPT !.entries = left[c]] ELSE buckets[c]
    OBVIOUS
  <2> HIDE DEF page, inChain, Entry
  <2>3. /\ [buckets[c] EXCEPT !.entries = left[c]] \in Bucket
        /\ [buckets[c] EXCEPT !.entries = left[c]].depth = buckets[c].depth
        /\ [buckets[c] EXCEPT !.entries = left[c]].overflow = buckets[c].overflow
        /\ [buckets[c] EXCEPT !.entries = left[c]].entries = left[c]
    BY <2>1 DEF Bucket
  <2> HIDE DEF Bucket
  <2>4. CASE c \in inChain
    BY <2>2, <2>3, <2>4
  <2>5. CASE c \notin inChain
    BY <2>1, <2>2, <2>5
  <2> QED BY <2>4, <2>5
<1>8. page \in Seq(Bucket) /\ Len(page) = Len(buckets)
  <2>1. DOMAIN page = Pages
    OBVIOUS
  <2>2. page \in [Pages -> Bucket]
    <3>1. page = [c \in Pages |-> page[c]]
      OBVIOUS
    <3> HIDE DEF page, Bucket
    <3> QED BY <1>7, <3>1
  <2>3. PICK N \in Nat : N = Len(buckets) /\ Pages = 1 .. N
    BY <1>1, PagesAre DEF Pages
  <2> HIDE DEF page, Bucket
  <2>4. page \in [1 .. N -> Bucket]
    BY <2>2, <2>3
  <2>5. page \in Seq(Bucket)
    BY <2>4
  <2>6. Len(page) \in Nat /\ DOMAIN page = 1 .. Len(page)
    BY <2>5, LenProperties
  <2>7. PICK M \in Nat : M = Len(page) /\ 1 .. N = 1 .. M
    BY <2>1, <2>3, <2>6
  <2>8. M = N
    <3>1. ~ M < N
      <4>1. M < N => N \in 1 .. N /\ N \notin 1 .. M
        OBVIOUS
      <4> QED BY <2>7, <4>1
    <3>2. ~ N < M
      <4>1. N < M => M \in 1 .. M /\ M \notin 1 .. N
        OBVIOUS
      <4> QED BY <2>7, <4>1
    <3> QED BY <3>1, <3>2
  <2> QED BY <2>3, <2>5, <2>7, <2>8
<1> HIDE DEF page
<1>10. ASSUME NEW c \in Pages, c \notin inChain PROVE Elements(buckets[c].entries) \cap X = {}
  <2> SUFFICES ASSUME NEW e \in Elements(buckets[c].entries), e \in X PROVE FALSE
    OBVIOUS
  <2>1. e[1] = k
    BY DEF X
  <2>2. h[c] = H!BucketOf(e[1])
    BY <1>1, <1>2, EntryHome
  <2> QED BY <1>4, <1>10, <2>1, <2>2
<1>11. ASSUME NEW c \in Pages
       PROVE  /\ page[c].entries \in Seq(Entry) /\ NoneTwice(page[c].entries)
              /\ Elements(page[c].entries) = Elements(buckets[c].entries) \ X
  <2>1. CASE c \in inChain
    <3>1. page[c].entries = left[c]
      BY <1>7, <2>1
    <3> QED BY <1>6, <3>1
  <2>2. CASE c \notin inChain
    <3>1. page[c].entries = buckets[c].entries
      BY <1>7, <2>2
    <3>2. buckets[c].entries \in Seq(Entry) /\ NoneTwice(buckets[c].entries)
      BY <1>1, PagesAre DEF Once
    <3>3. Elements(buckets[c].entries) \cap X = {}
      BY <1>10, <2>2
    <3> QED BY <3>1, <3>2, <3>3
  <2> QED BY <2>1, <2>2
<1>12. \A c \in Pages : page[c].depth = buckets[c].depth /\ page[c].overflow = buckets[c].overflow
  BY <1>7
<1> QED BY <1>5, <1>8, <1>11, <1>12 DEF X

LEMMA RemovedFrom ==
  ASSUME HashInv, NEW k \in Key, NEW rids, H!RemoveFromChain(k, rids)
  PROVE  /\ SamePages /\ inserting' = inserting
         /\ \A c \in Pages : /\ buckets'[c].entries \in Seq(Entry)
                             /\ Elements(buckets'[c].entries) = Elements(buckets[c].entries) \ ({k} \X rids)
                             /\ NoneTwice(buckets'[c].entries)
<1>1. buckets' = H!Without(k, rids) /\ UNCHANGED <<directory, globalDepth, inserting>>
  BY DEF H!RemoveFromChain
<1>2. PICK left : left = H!Without(k, rids)
  OBVIOUS
<1>3. /\ left \in Seq(Bucket) /\ Len(left) = Len(buckets)
      /\ \A c \in Pages : /\ left[c].depth = buckets[c].depth /\ left[c].overflow = buckets[c].overflow
                          /\ left[c].entries \in Seq(Entry) /\ NoneTwice(left[c].entries)
                          /\ Elements(left[c].entries) = Elements(buckets[c].entries) \ ({k} \X rids)
  BY <1>2, WithoutIs
<1> HIDE DEF Bucket, Entry
<1> QED BY <1>1, <1>2, <1>3 DEF SamePages

LEMMA WithoutHolds ==
  ASSUME HashInv, NEW k \in Key, NEW rids
  PROVE  H!EntriesOf(H!Without(k, rids)) = H!Kept \ ({k} \X rids)
<1>1. PICK left : left = H!Without(k, rids)
  OBVIOUS
<1>2. /\ DOMAIN left = Pages
      /\ \A c \in Pages : /\ left[c].entries \in Seq(Entry)
                          /\ Elements(left[c].entries) = Elements(buckets[c].entries) \ ({k} \X rids)
  BY <1>1, WithoutIs
<1>3. \A c \in Pages : H!Range(left[c].entries) = Elements(left[c].entries)
  <2> HIDE DEF Entry
  <2> QED BY <1>2, RangeIsElements
<1>4. \A e : e \in H!Kept <=> \E c \in Pages : e \in Elements(buckets[c].entries)
  BY HashKept DEF HashInv
<1>5. H!EntriesOf(left) = UNION {Elements(left[c].entries) : c \in Pages}
  BY <1>2, <1>3 DEF H!EntriesOf
<1> QED BY <1>1, <1>2, <1>4, <1>5

LEMMA RemoveKeeps ==
  ASSUME HashInv, NEW k \in Key, NEW rids, H!RemoveFromChain(k, rids)
  PROVE  HashInv' /\ Held' = Held \ ({k} \X rids)
<1>1. HashTyped /\ Classes /\ Once
  BY DEF HashInv
<1>2. PICK h : Homed(h) /\ Placed(h)
  BY DEF HashInv
<1> DEFINE X == {k} \X rids
<1>3. SamePages /\ inserting' = inserting
  BY RemovedFrom
<1>4. \A c \in Pages : /\ Elements(buckets'[c].entries) = Elements(buckets[c].entries) \ X
                       /\ NoneTwice(buckets'[c].entries)
  BY RemovedFrom
<1> HIDE DEF X
<1>5. Pages' = Pages /\ Classes' /\ Homed(h)'
  BY <1>1, <1>2, <1>3, SamePagesKeep
<1>6. HashTyped'
  <2>1. inserting' \in {<<>>} \cup Entry
    BY <1>1, <1>3 DEF HashTyped
  <2> QED BY <1>1, <1>2, <1>3, <2>1, SamePagesKeep
<1>7. Placed(h)'
  <2>1. \A c \in Pages, s \in Slots : directory[s] = h[c] =>
          \A e \in Elements(buckets'[c].entries) :
            Low(Digest[e[1]], buckets[h[c]].depth) = Low(s, buckets[h[c]].depth)
    BY <1>2, <1>4 DEF Placed
  <2> QED BY <1>1, <1>2, <1>3, <2>1, SamePagesKeep
<1>8. Once'
  BY <1>1, <1>3, <1>4, <1>5 DEF Once
<1>9. Held' = Held \ X
  <2>1. /\ \A e : e \in Held <=> \E c \in Pages : e \in Elements(buckets[c].entries)
        /\ \A e : e \in Held' <=> \E c \in Pages : e \in Elements(buckets'[c].entries)
    BY <1>5 DEF Held
  <2> QED BY <1>4, <2>1
<1> QED BY <1>5, <1>6, <1>7, <1>8, <1>9 DEF HashInv, X

\* A page rewritten and another one added at the end of the file.
LEMMA PageAppended ==
  ASSUME NEW S, NEW old \in Seq(S), NEW i \in 1 .. Len(old), NEW w \in S, NEW x \in S
  PROVE  /\ Append([old EXCEPT ![i] = w], x) \in Seq(S)
         /\ Len(Append([old EXCEPT ![i] = w], x)) = Len(old) + 1
         /\ \A j \in 1 .. Len(old) : Append([old EXCEPT ![i] = w], x)[j] = IF j = i THEN w ELSE old[j]
         /\ Append([old EXCEPT ![i] = w], x)[Len(old) + 1] = x
<1> DEFINE q == [old EXCEPT ![i] = w]
<1>1. q \in Seq(S) /\ Len(q) = Len(old) /\ \A j \in 1 .. Len(old) : q[j] = IF j = i THEN w ELSE old[j]
  BY ExceptSeq
<1>2. Len(old) \in Nat
  BY LenProperties
<1> HIDE DEF q
<1>3. /\ Append(q, x) \in Seq(S) /\ Len(Append(q, x)) = Len(q) + 1
      /\ \A j \in 1 .. Len(q) : Append(q, x)[j] = q[j]
      /\ Append(q, x)[Len(q) + 1] = x
  BY <1>1, AppendProperties
<1> QED BY <1>1, <1>3 DEF q

\* The full chain of a bucket at the depth limit gets one more page.
PageAdded(last) ==
  /\ buckets' \in Seq(Bucket) /\ Len(buckets') = Len(buckets) + 1
  /\ \A c \in Pages : /\ buckets'[c].depth = buckets[c].depth /\ buckets'[c].entries = buckets[c].entries
                      /\ buckets'[c].overflow = IF c = last THEN Len(buckets) + 1 ELSE buckets[c].overflow
  /\ buckets'[Len(buckets) + 1].depth = MaxDepth
  /\ buckets'[Len(buckets) + 1].entries = <<inserting>>
  /\ buckets'[Len(buckets) + 1].overflow = 0

LEMMA NewPageIs ==
  ASSUME HashTyped, inserting \in Entry, NEW last \in Pages,
         buckets' = Append([buckets EXCEPT ![last].overflow = Len(buckets) + 1],
                           H!NewBucket(MaxDepth, <<inserting>>))
  PROVE  PageAdded(last)
<1> DEFINE x == inserting
           N == Len(buckets)
           w == [buckets[last] EXCEPT !.overflow = N + 1]
           page == [depth |-> MaxDepth, entries |-> <<x>>, overflow |-> 0]
<1>1. /\ buckets \in Seq(Bucket) /\ N \in Nat /\ Pages = 1 .. N
      /\ MaxDepth \in Nat /\ last \in 1 .. N
  BY PagesAre, ConstantsAssumption DEF HashTyped, Pages
<1>2. /\ w \in Bucket /\ w.depth = buckets[last].depth /\ w.entries = buckets[last].entries
      /\ w.overflow = N + 1
  <2>1. buckets[last] \in Bucket /\ N + 1 \in Nat
    BY <1>1, PagesAre
  <2> HIDE DEF N, Entry
  <2> QED BY <2>1 DEF Bucket
<1>3. page \in Bucket /\ page.depth = MaxDepth /\ page.entries = <<x>> /\ page.overflow = 0
  BY <1>1 DEF Bucket
<1>4. buckets' = Append([buckets EXCEPT ![last] = w], page)
  BY DEF H!NewBucket, H!NoOverflow
<1>5. /\ buckets' \in Seq(Bucket) /\ Len(buckets') = N + 1
      /\ \A j \in 1 .. N : buckets'[j] = IF j = last THEN w ELSE buckets[j]
      /\ buckets'[N + 1] = page
  <2> DEFINE q == Append([buckets EXCEPT ![last] = w], page)
  <2>1. /\ q \in Seq(Bucket) /\ Len(q) = Len(buckets) + 1
        /\ \A j \in 1 .. Len(buckets) : q[j] = IF j = last THEN w ELSE buckets[j]
        /\ q[Len(buckets) + 1] = page
    <3>1. last \in 1 .. Len(buckets)
      BY <1>1
    <3> HIDE DEF w, page, Bucket, N
    <3> QED BY <1>1, <1>2, <1>3, <3>1, PageAppended
  <2>2. buckets' = q
    BY <1>4
  <2> HIDE DEF q, w, page, Bucket
  <2> QED BY <2>1, <2>2
<1>6. \A c \in Pages : /\ buckets'[c].depth = buckets[c].depth /\ buckets'[c].entries = buckets[c].entries
                       /\ buckets'[c].overflow = IF c = last THEN N + 1 ELSE buckets[c].overflow
  <2> SUFFICES ASSUME NEW c \in Pages
               PROVE  /\ buckets'[c].depth = buckets[c].depth /\ buckets'[c].entries = buckets[c].entries
                      /\ buckets'[c].overflow = IF c = last THEN N + 1 ELSE buckets[c].overflow
    OBVIOUS
  <2>1. buckets'[c] = IF c = last THEN w ELSE buckets[c]
    BY <1>1, <1>5
  <2> HIDE DEF N, w
  <2> QED BY <1>2, <2>1
<1>7. buckets'[N + 1].depth = MaxDepth /\ buckets'[N + 1].entries = <<x>> /\ buckets'[N + 1].overflow = 0
  BY <1>3, <1>5
<1> QED BY <1>5, <1>6, <1>7 DEF PageAdded

LEMMA NewPageKeeps ==
  ASSUME HashTyped, Classes, Once, NEW h, Homed(h), Placed(h), inserting \in Entry,
         NEW b, b = H!BucketOf(inserting[1]), buckets[b].depth = MaxDepth,
         NEW last \in Pages, h[last] = b, buckets[last].overflow = 0, PageAdded(last),
         inserting' = <<>>, directory' = directory, globalDepth' = globalDepth
  PROVE  HashInv' /\ Held' = Held \cup {inserting}
<1> DEFINE x == inserting
           N == Len(buckets)
<1>1. N \in Nat /\ Pages = 1 .. N /\ b \in Pages /\ h[b] = b /\ x[1] \in Key
  <2>1. x[1] \in Key
    BY DEF Entry
  <2>2. N \in Nat /\ b \in Pages
    BY <2>1, SlotIs, PagesAre
  <2>3. h[b] = b
    BY <2>2 DEF Homed
  <2> QED BY <2>1, <2>2, <2>3 DEF Pages
<1>2. Pages' = Pages \cup {N + 1} /\ N + 1 \notin Pages /\ N + 1 \in Nat
  <2>1. Len(buckets') = N + 1
    BY DEF PageAdded
  <2> HIDE DEF N
  <2> QED BY <1>1, <2>1 DEF Pages
<1>3. \A c \in Pages : /\ buckets'[c].depth = buckets[c].depth /\ buckets'[c].entries = buckets[c].entries
                       /\ buckets'[c].overflow = IF c = last THEN N + 1 ELSE buckets[c].overflow
                       /\ c \in Nat /\ c < N + 1 /\ c # N + 1
                       /\ (buckets[c].overflow # 0 => buckets[c].overflow \in Pages)
  <2>1. \A c \in Pages : c \in Nat /\ c < N + 1 /\ c # N + 1
    <3> HIDE DEF N
    <3> QED BY <1>1
  <2> QED BY <2>1, PagesAre DEF PageAdded
<1>4. buckets'[N + 1].depth = MaxDepth /\ buckets'[N + 1].entries = <<x>> /\ buckets'[N + 1].overflow = 0
  BY DEF PageAdded
<1>5. Slots' = Slots /\ \A s \in Slots : directory[s] \in Pages
  BY DEF Slots, HashTyped
<1>6. HashTyped'
  <2>1. globalDepth' \in 0 .. MaxDepth
    BY DEF HashTyped
  <2>2. directory' \in [0 .. 2 ^ globalDepth' - 1 -> Pages']
    <3>1. directory \in [0 .. 2 ^ globalDepth - 1 -> Pages]
      BY DEF HashTyped
    <3> HIDE DEF N
    <3> QED BY <1>2, <3>1
  <2>3. buckets' \in Seq(Bucket)
    BY DEF PageAdded
  <2>4. ASSUME NEW c \in Pages'
        PROVE  buckets'[c].overflow = 0 \/ buckets'[c].overflow \in c + 1 .. Len(buckets')
    <3>1. Len(buckets') = N + 1
      BY DEF PageAdded
    <3>2. c \in Pages => buckets[c].overflow = 0 \/ buckets[c].overflow \in c + 1 .. N
      BY DEF HashTyped
    <3> HIDE DEF N
    <3>3. CASE c = N + 1
      BY <1>4, <3>3
    <3>4. CASE c = last
      BY <1>1, <1>2, <1>3, <3>1, <3>4
    <3>5. CASE c # N + 1 /\ c # last
      BY <1>1, <1>2, <1>3, <3>1, <3>2, <3>5
    <3> QED BY <3>3, <3>4, <3>5
  <2> HIDE DEF N
  <2> QED BY <2>1, <2>2, <2>3, <2>4 DEF HashTyped
<1>7. Classes'
  <2>1. \A s \in Slots : buckets'[directory[s]].depth = buckets[directory[s]].depth
    BY <1>3, <1>5
  <2> QED BY <1>5, <2>1 DEF Classes
<1> HIDE DEF N
<1>8. PICK g : g = [c \in Pages \cup {N + 1} |-> IF c = N + 1 THEN b ELSE h[c]]
  OBVIOUS
<1>9. \A c \in Pages : g[c] = h[c] /\ h[c] \in Pages
  BY <1>3, <1>8 DEF Homed
<1>10. g[N + 1] = b /\ g \in [Pages' -> Pages']
  <2>1. g[N + 1] = b
    BY <1>8
  <2>2. \A c \in Pages' : g[c] \in Pages'
    BY <1>1, <1>2, <1>9, <2>1
  <2>3. g = [c \in Pages' |-> g[c]]
    BY <1>2, <1>8
  <2> QED BY <2>1, <2>2, <2>3
<1>11. Homed(g)'
  <2>1. ASSUME NEW c \in Pages', buckets'[c].overflow # 0 PROVE g[buckets'[c].overflow] = g[c]
    <3>1. c \in Pages
      BY <1>2, <1>4, <2>1
    <3>2. CASE c = last
      BY <1>3, <1>9, <1>10, <3>2
    <3>3. CASE c # last
      <4>1. buckets[c].overflow # 0 /\ buckets[c].overflow \in Pages /\ buckets'[c].overflow = buckets[c].overflow
        BY <1>3, <2>1, <3>1, <3>3
      <4>2. h[buckets[c].overflow] = h[c]
        BY <3>1, <4>1 DEF Homed
      <4> QED BY <1>9, <3>1, <4>1, <4>2
    <3> QED BY <3>2, <3>3
  <2>2. ASSUME NEW c \in Pages', g[c] # c
        PROVE  buckets'[g[c]].depth = MaxDepth /\ \E p \in Pages' : p < c /\ buckets'[p].overflow = c
    <3>1. CASE c = N + 1
      <4>1. last \in Pages' /\ last < c /\ buckets'[last].overflow = c
        BY <1>2, <1>3, <3>1
      <4> QED BY <1>1, <1>3, <1>10, <3>1, <4>1
    <3>2. CASE c # N + 1
      <4>1. c \in Pages /\ h[c] # c /\ g[c] = h[c]
        BY <1>2, <1>9, <2>2, <3>2
      <4>2. buckets[h[c]].depth = MaxDepth /\ h[c] \in Pages
        BY <1>9, <4>1 DEF Homed
      <4>3. PICK p \in Pages : p < c /\ buckets[p].overflow = c
        BY <4>1 DEF Homed
      <4>4. p # last
        BY <1>1, <4>1, <4>3
      <4>5. p \in Pages' /\ buckets'[p].overflow = c
        BY <1>2, <1>3, <4>3, <4>4
      <4> QED BY <1>3, <4>1, <4>2, <4>3, <4>5
    <3> QED BY <3>1, <3>2
  <2>3. \A s \in Slots' : g[directory'[s]] = directory'[s]
    BY <1>5, <1>9 DEF Homed
  <2>4. \A c \in Pages' : \E s \in Slots' : directory'[s] = g[c]
    <3>1. \A c \in Pages : \E s \in Slots : directory[s] = h[c]
      BY DEF Homed
    <3>2. \A c \in Pages' : \E d \in Pages : g[c] = h[d]
      BY <1>1, <1>2, <1>9, <1>10
    <3> QED BY <1>5, <3>1, <3>2
  <2> QED BY <1>10, <2>1, <2>2, <2>3, <2>4 DEF Homed
<1>12. Placed(g)'
  <2> SUFFICES ASSUME NEW c \in Pages', NEW s \in Slots', directory'[s] = g[c],
                      NEW e \in Elements(buckets'[c].entries)
               PROVE  Low(Digest[e[1]], buckets'[g[c]].depth) = Low(s, buckets'[g[c]].depth)
    BY DEF Placed
  <2>1. s \in Slots /\ directory[s] = g[c]
    BY <1>5
  <2>2. CASE c = N + 1
    <3>1. e = x
      BY <1>4, <2>2, SingleElements
    <3>2. g[c] = b /\ buckets'[b].depth = buckets[b].depth /\ directory[s] = b
      BY <1>1, <1>3, <1>10, <2>1, <2>2
    <3>3. Low(Digest[x[1]], buckets[b].depth) = Low(s, buckets[b].depth)
      BY <1>1, <2>1, <3>2, KeyPlaced
    <3> HIDE DEF x
    <3> QED BY <3>1, <3>2, <3>3
  <2>3. CASE c # N + 1
    <3>1. c \in Pages /\ g[c] = h[c] /\ h[c] \in Pages /\ buckets'[c].entries = buckets[c].entries
      BY <1>2, <1>3, <1>9, <2>3
    <3>2. buckets'[g[c]].depth = buckets[h[c]].depth
      BY <1>3, <3>1
    <3> QED BY <2>1, <3>1, <3>2 DEF Placed
  <2> QED BY <2>2, <2>3
<1>13. Elements(buckets'[N + 1].entries) = {x} /\ NoneTwice(buckets'[N + 1].entries)
  BY <1>4, SingleElements
<1>14. \A c \in Pages : x \notin Elements(buckets[c].entries)
  BY DEF Once
<1>15. Once'
  <2>1. \A c \in Pages' : NoneTwice(buckets'[c].entries)
    BY <1>2, <1>3, <1>13 DEF Once
  <2>2. \A c, d \in Pages : c # d => Elements(buckets'[c].entries) \cap Elements(buckets'[d].entries) = {}
    BY <1>3 DEF Once
  <2>3. \A c \in Pages : Elements(buckets'[c].entries) \cap Elements(buckets'[N + 1].entries) = {}
    BY <1>3, <1>13, <1>14
  <2>4. \A c, d \in Pages' : c # d => Elements(buckets'[c].entries) \cap Elements(buckets'[d].entries) = {}
    BY <1>2, <2>2, <2>3
  <2>5. \A c \in Pages' : inserting' \notin Elements(buckets'[c].entries)
    <3>1. \A c \in Pages : buckets[c].entries \in Seq(Entry)
      BY PagesAre
    <3>2. <<>> \notin Entry
      BY DEF Entry
    <3>3. x # <<>> /\ \A c \in Pages : <<>> \notin Elements(buckets[c].entries)
      <4> HIDE DEF Entry
      <4> QED BY <3>1, <3>2, RangeIsElements
    <3> HIDE DEF x
    <3> QED BY <1>2, <1>3, <1>13, <3>3
  <2> QED BY <2>1, <2>4, <2>5 DEF Once
<1>16. Held' = Held \cup {x}
  <2>1. /\ \A e : e \in Held <=> \E c \in Pages : e \in Elements(buckets[c].entries)
        /\ \A e : e \in Held' <=> \E c \in Pages' : e \in Elements(buckets'[c].entries)
    BY DEF Held
  <2> HIDE DEF x
  <2>2. \A e : e \in Held' <=> e \in Held \/ e = x
    BY <1>2, <1>3, <1>13, <2>1
  <2> QED BY <2>2
<1> QED BY <1>6, <1>7, <1>11, <1>12, <1>15, <1>16 DEF HashInv

\* _insert_into_overflow.
LEMMA OverflowKeeps ==
  ASSUME HashInv, H!Overflow
  PROVE  HashInv' /\ Held' = Held \cup {inserting}
<1>1. HashTyped /\ Classes /\ Once
  BY DEF HashInv
<1>2. PICK h : Homed(h) /\ Placed(h)
  BY DEF HashInv
<1>3. inserting \in Entry /\ inserting[1] \in Key
  BY <1>1 DEF H!Overflow, H!Full, H!NoEntry, HashTyped, Entry
<1> DEFINE b == H!BucketOf(inserting[1])
           last == H!Last(H!ChainOf(b))
<1>4. b \in Pages /\ h[b] = b
  BY <1>1, <1>2, <1>3, SlotIs DEF Homed
<1>5. last \in Pages /\ h[last] = b /\ buckets[last].overflow = 0
  <2>1. last \in Chain(b) /\ buckets[last].overflow = 0
    BY <1>1, <1>4, ChainEnds
  <2>2. Chain(b) = {c \in Pages : h[c] = b}
    BY <1>1, <1>2, <1>4, ChainHome
  <2> HIDE DEF last, b
  <2> QED BY <2>1, <2>2
<1>6. buckets[b].depth = MaxDepth
  <2>1. buckets[b].depth \in 0 .. MaxDepth /\ buckets[b].depth >= MaxDepth /\ MaxDepth \in Nat
    BY <1>1, <1>4, PagesAre, ConstantsAssumption DEF H!Overflow
  <2> HIDE DEF b
  <2> QED BY <2>1
<1>7. inserting' = <<>> /\ directory' = directory /\ globalDepth' = globalDepth
  BY DEF H!Overflow, H!NoEntry
<1>8. \/ buckets' = [buckets EXCEPT ![last].entries = Append(@, inserting)]
      \/ buckets' = Append([buckets EXCEPT ![last].overflow = Len(buckets) + 1],
                           H!NewBucket(MaxDepth, <<inserting>>))
  BY DEF H!Overflow, H!AddEntry
<1>9. CASE buckets' = [buckets EXCEPT ![last].entries = Append(@, inserting)]
  <2>1. UNCHANGED <<directory, globalDepth>>
    BY <1>7
  <2> HIDE DEF last
  <2> QED BY <1>1, <1>2, <1>3, <1>5, <1>7, <1>9, <2>1, AddKeeps
<1>10. CASE buckets' = Append([buckets EXCEPT ![last].overflow = Len(buckets) + 1],
                              H!NewBucket(MaxDepth, <<inserting>>))
  <2> HIDE DEF last
  <2>1. PageAdded(last)
    BY <1>1, <1>3, <1>5, <1>10, NewPageIs
  <2> QED BY <1>1, <1>2, <1>3, <1>5, <1>6, <1>7, <2>1, NewPageKeeps
<1> QED BY <1>8, <1>9, <1>10

\* _split_bucket: the pages.  An entry goes when the next bit of its digest is one.
Goes(e, d) == H!Bit(Digest[e[1]], d) = 1

PageSplit(b) ==
  /\ buckets' \in Seq(Bucket) /\ Len(buckets') = Len(buckets) + 1
  /\ \A c \in Pages : buckets'[c].overflow = buckets[c].overflow
  /\ \A c \in Pages \ {b} : /\ buckets'[c].depth = buckets[c].depth
                            /\ buckets'[c].entries = buckets[c].entries
  /\ buckets'[b].depth = buckets[b].depth + 1
  /\ NoneTwice(buckets'[b].entries)
  /\ Elements(buckets'[b].entries) = {e \in Elements(buckets[b].entries) : ~ Goes(e, buckets[b].depth)}
  /\ buckets'[Len(buckets) + 1].depth = buckets[b].depth + 1
  /\ buckets'[Len(buckets) + 1].overflow = 0
  /\ NoneTwice(buckets'[Len(buckets) + 1].entries)
  /\ Elements(buckets'[Len(buckets) + 1].entries)
       = {e \in Elements(buckets[b].entries) : Goes(e, buckets[b].depth)}

LEMMA SplitPages ==
  ASSUME HashTyped, Once, inserting \in Entry, H!SplitBucket
  PROVE  PageSplit(H!BucketOf(inserting[1]))
<1> DEFINE b == H!BucketOf(inserting[1])
           N == Len(buckets)
           d == buckets[b].depth
           es == buckets[b].entries
           X == {e \in H!Range(es) : Goes(e, d)}
           stay == H!Only(es, H!Range(es) \ X)
           go == H!Only(es, X)
           w == [buckets[b] EXCEPT !.depth = d + 1, !.entries = stay]
           page == [depth |-> d + 1, entries |-> go, overflow |-> 0]
<1>1. inserting[1] \in Key
  BY DEF Entry
<1>2. b \in Pages /\ buckets \in Seq(Bucket) /\ N \in Nat
  BY <1>1, SlotIs, PagesAre DEF HashTyped
<1>3. b \in 1 .. N /\ Pages = 1 .. N
  BY <1>2 DEF Pages
<1>4. buckets[b] \in Bucket /\ es \in Seq(Entry) /\ NoneTwice(es) /\ d \in 0 .. MaxDepth
  BY <1>2, PagesAre DEF Once
<1>5. d + 1 \in 0 .. MaxDepth
  <2>1. d < MaxDepth /\ MaxDepth \in Nat
    BY ConstantsAssumption DEF H!SplitBucket
  <2> HIDE DEF d
  <2> QED BY <1>4, <2>1
<1>6. H!Range(es) = Elements(es)
  <2> HIDE DEF es, Entry
  <2> QED BY <1>4, RangeIsElements
<1>7. /\ stay \in Seq(Entry) /\ NoneTwice(stay)
      /\ Elements(stay) = {e \in Elements(es) : ~ Goes(e, d)}
  <2> DEFINE Y == H!Range(es) \ X
  <2>1. Y = {e \in Elements(es) : ~ Goes(e, d)}
    <3> HIDE DEF es, d
    <3> QED BY <1>6
  <2> HIDE DEF es, Entry, d, Y
  <2>2. H!Only(es, Y) \in Seq(Entry) /\ NoneTwice(H!Only(es, Y)) /\ Elements(H!Only(es, Y)) = Elements(es) \cap Y
    BY <1>4, OnlyIs
  <2>3. Elements(es) \cap Y = {e \in Elements(es) : ~ Goes(e, d)}
    BY <2>1
  <2> QED BY <2>2, <2>3 DEF Y
<1>8. /\ go \in Seq(Entry) /\ NoneTwice(go)
      /\ Elements(go) = {e \in Elements(es) : Goes(e, d)}
  <2>1. X = {e \in Elements(es) : Goes(e, d)}
    <3> HIDE DEF es, d
    <3> QED BY <1>6
  <2> HIDE DEF es, Entry, d, X
  <2>2. H!Only(es, X) \in Seq(Entry) /\ NoneTwice(H!Only(es, X)) /\ Elements(H!Only(es, X)) = Elements(es) \cap X
    BY <1>4, OnlyIs
  <2>3. Elements(es) \cap X = {e \in Elements(es) : Goes(e, d)}
    BY <2>1
  <2> QED BY <2>2, <2>3 DEF X
<1>9. /\ w \in Bucket /\ w.depth = d + 1 /\ w.entries = stay /\ w.overflow = buckets[b].overflow
  <2> HIDE DEF d, stay, b, Entry
  <2> QED BY <1>4, <1>5, <1>7 DEF Bucket
<1>10. page \in Bucket /\ page.depth = d + 1 /\ page.entries = go /\ page.overflow = 0
  <2> HIDE DEF d, go, Entry
  <2> QED BY <1>5, <1>8 DEF Bucket
<1>11. buckets' = Append([buckets EXCEPT ![b] = w], page)
  <2>1. {e \in H!Range(es) : H!Bit(Digest[e[1]], d) = 1} = X
    BY DEF Goes
  <2>2. buckets' = Append([buckets EXCEPT ![b].depth = d + 1, ![b].entries = stay], page)
    BY <2>1 DEF H!SplitBucket, H!NewBucket, H!NoOverflow
  <2>3. [buckets EXCEPT ![b].depth = d + 1, ![b].entries = stay] = [buckets EXCEPT ![b] = w]
    <3> HIDE DEF d, stay, b, Bucket
    <3> QED BY <1>2, <1>3, <1>4
  <2> QED BY <2>2, <2>3
<1>12. /\ buckets' \in Seq(Bucket) /\ Len(buckets') = N + 1
       /\ \A j \in 1 .. N : buckets'[j] = IF j = b THEN w ELSE buckets[j]
       /\ buckets'[N + 1] = page
  <2> DEFINE q == Append([buckets EXCEPT ![b] = w], page)
  <2>1. /\ q \in Seq(Bucket) /\ Len(q) = Len(buckets) + 1
        /\ \A j \in 1 .. Len(buckets) : q[j] = IF j = b THEN w ELSE buckets[j]
        /\ q[Len(buckets) + 1] = page
    <3>1. b \in 1 .. Len(buckets)
      BY <1>3
    <3> HIDE DEF w, page, b, Bucket, N
    <3> QED BY <1>2, <1>9, <1>10, <3>1, PageAppended
  <2>2. buckets' = q
    BY <1>11
  <2> HIDE DEF q, w, page, b, Bucket
  <2> QED BY <2>1, <2>2
<1> HIDE DEF w, page, stay, go
<1>13. \A c \in Pages \ {b} : buckets'[c] = buckets[c]
  BY <1>3, <1>12
<1>14. buckets'[b] = w
  BY <1>3, <1>12
<1> HIDE DEF b
<1>15. \A c \in Pages : buckets'[c].overflow = buckets[c].overflow
  BY <1>9, <1>13, <1>14
<1> QED BY <1>7, <1>8, <1>9, <1>10, <1>12, <1>13, <1>14, <1>15 DEF PageSplit, b

\* _split_bucket: the slots, of the doubled directory when the bucket had one.
DirectorySplit(b, d, l) ==
  /\ d \in Nat /\ d < MaxDepth /\ d <= globalDepth
  /\ globalDepth' \in 0 .. MaxDepth /\ globalDepth <= globalDepth' /\ d + 1 <= globalDepth'
  /\ directory' \in [Slots' -> Pages \cup {Len(buckets) + 1}]
  /\ Slots \subseteq Slots' /\ \A s \in Slots : Low(s, globalDepth) = s
  /\ \A s \in Slots' :
       /\ s \in Nat /\ Low(s, globalDepth) \in Slots
       /\ directory[Low(s, globalDepth)] = b <=> Low(s, d) = l
       /\ directory'[s] = IF Low(s, d) = l /\ H!Bit(s, d) = 1 THEN Len(buckets) + 1
                          ELSE directory[Low(s, globalDepth)]
  /\ l \in Nat /\ l < 2 ^ d /\ l \in Slots' /\ l + 2 ^ d \in Slots'

\* The suffixes of a bucket that is split, and of the slots that leave it.
LEMMA NextBit ==
  ASSUME NEW x \in Nat, NEW d \in Nat, NEW l \in Nat, l < 2 ^ d
  PROVE  /\ Low(x, d + 1) = l + 2 ^ d <=> Low(x, d) = l /\ H!Bit(x, d) = 1
         /\ Low(x, d + 1) = l <=> Low(x, d) = l /\ H!Bit(x, d) # 1
<1> DEFINE m == 2 ^ d
           y == Low(x, d)
           bit == H!Bit(x, d) = 1
<1>1. m \in Nat /\ y \in Nat /\ y < m /\ l < m
  BY Doubling, LowParts
<1>2. Low(x, d + 1) = IF bit THEN y + m ELSE y
  BY LowNext
<1> HIDE DEF m, y, bit
<1>3. CASE bit
  BY <1>1, <1>2, <1>3 DEF m, y, bit
<1>4. CASE ~ bit
  BY <1>1, <1>2, <1>4 DEF m, y, bit
<1> QED BY <1>3, <1>4

\* A doubled directory leads where the shorter one did.
LEMMA DoubledIs ==
  ASSUME globalDepth \in Nat
  PROVE  /\ DOMAIN H!Doubled = 0 .. 2 ^ (globalDepth + 1) - 1
         /\ \A s \in 0 .. 2 ^ (globalDepth + 1) - 1 : H!Doubled[s] = directory[Low(s, globalDepth)]
BY DEF H!Doubled, Low

LEMMA SplitSlots ==
  ASSUME HashTyped, Classes, inserting \in Entry, H!SplitBucket,
         NEW b, b = H!BucketOf(inserting[1]), NEW d, d = buckets[b].depth
  PROVE  DirectorySplit(b, d, Low(H!Slot(inserting[1]), d))
<1> DEFINE t == H!Slot(inserting[1])
           gd == globalDepth
           dir == IF d = gd THEN H!Doubled ELSE directory
           new == Len(buckets) + 1
<1>1. t \in Slots /\ directory[t] = b /\ b \in Pages
  <2>1. inserting[1] \in Key
    BY DEF Entry
  <2> QED BY <2>1, SlotIs
<1>2. d \in Nat /\ gd \in Nat /\ d <= gd /\ d < MaxDepth /\ MaxDepth \in Nat /\ gd <= MaxDepth
  <2>1. d \in 0 .. MaxDepth /\ gd \in 0 .. MaxDepth /\ MaxDepth \in Nat
    BY <1>1, PagesAre, ConstantsAssumption DEF HashTyped
  <2>2. d <= gd
    BY <1>1 DEF Classes
  <2>3. d < MaxDepth
    BY DEF H!SplitBucket
  <2> QED BY <2>1, <2>2, <2>3
<1>3. /\ globalDepth' = IF d = gd THEN gd + 1 ELSE gd
      /\ directory' = [s \in DOMAIN dir |->
                         IF s % 2 ^ (d + 1) = (t % 2 ^ d) + 2 ^ d THEN new ELSE dir[s]]
  BY DEF H!SplitBucket
<1> DEFINE l == Low(t, d)
<1>4. directory' = [s \in DOMAIN dir |-> IF Low(s, d + 1) = l + 2 ^ d THEN new ELSE dir[s]]
  BY <1>3 DEF Low
<1> HIDE DEF t, new
<1>5. globalDepth' \in 0 .. MaxDepth /\ gd <= globalDepth' /\ d + 1 <= globalDepth' /\ globalDepth' \in Nat
  BY <1>2, <1>3
<1>6. \A n \in Nat : 2 ^ n \in Nat
  BY Doubling
<1>7. Slots \subseteq Nat /\ Slots' \subseteq Nat /\ (\A s \in Slots : s < 2 ^ gd)
      /\ (\A s \in Slots' : s < 2 ^ globalDepth') /\ \A n \in Nat : n < 2 ^ globalDepth' => n \in Slots'
  <2> DEFINE p == 2 ^ gd
             q == 2 ^ globalDepth'
  <2>1. p \in Nat /\ q \in Nat
    BY <1>2, <1>5, <1>6
  <2>2. Slots = 0 .. p - 1 /\ Slots' = 0 .. q - 1
    BY DEF Slots
  <2> HIDE DEF p, q
  <2>3. 0 .. p - 1 \subseteq Nat /\ 0 .. q - 1 \subseteq Nat /\ (\A s \in 0 .. p - 1 : s < p)
        /\ (\A s \in 0 .. q - 1 : s < q) /\ \A n \in Nat : n < q => n \in 0 .. q - 1
    BY <2>1
  <2> QED BY <2>2, <2>3 DEF p, q
<1>8. \A s \in Slots : Low(s, gd) = s
  BY <1>2, <1>7, LowSmall
<1>9. Slots \subseteq Slots'
  <2>1. 2 ^ gd <= 2 ^ globalDepth'
    BY <1>2, <1>5, LargerPower
  <2> DEFINE p == 2 ^ gd
             q == 2 ^ globalDepth'
  <2>2. p \in Nat /\ q \in Nat /\ p <= q
    BY <1>2, <1>5, <1>6, <2>1
  <2>3. \A s \in Slots : s \in Nat /\ s < p
    BY <1>7
  <2> HIDE DEF p, q
  <2>4. \A s \in Slots : s \in Nat /\ s < q
    BY <2>2, <2>3
  <2> QED BY <1>7, <2>4 DEF q
<1>10. \A s \in Slots' : Low(s, gd) \in Slots
  <2> SUFFICES ASSUME NEW s \in Slots' PROVE Low(s, gd) \in Slots
    OBVIOUS
  <2> DEFINE p == 2 ^ gd
             r == Low(s, gd)
  <2>1. r \in Nat /\ r < p /\ p \in Nat
    BY <1>2, <1>6, <1>7, LowParts
  <2>2. Slots = 0 .. p - 1
    BY DEF Slots
  <2> HIDE DEF p, r
  <2>3. r \in Slots
    BY <2>1, <2>2
  <2> QED BY <2>3 DEF r
<1>11. DOMAIN dir = Slots' /\ \A s \in Slots' : dir[s] = directory[Low(s, gd)]
  <2>1. CASE d = gd
    <3>1. dir = H!Doubled /\ globalDepth' = gd + 1
      BY <1>3, <2>1
    <3>2. Slots' = 0 .. 2 ^ (gd + 1) - 1
      BY <3>1 DEF Slots
    <3> QED BY <1>2, <3>1, <3>2, DoubledIs
  <2>2. CASE d # gd
    <3>1. dir = directory /\ globalDepth' = gd
      BY <1>3, <2>2
    <3>2. Slots' = Slots
      BY <3>1 DEF Slots
    <3>3. DOMAIN directory = Slots
      BY DEF HashTyped, Slots
    <3> QED BY <1>8, <3>1, <3>2, <3>3
  <2> QED BY <2>1, <2>2
<1> HIDE DEF dir
<1>12. t \in Nat /\ l \in Nat /\ l < 2 ^ d
  BY <1>1, <1>2, <1>7, LowParts
<1> HIDE DEF l
<1>13. \A s \in Slots' : Low(s, d + 1) = l + 2 ^ d <=> Low(s, d) = l /\ H!Bit(s, d) = 1
  BY <1>2, <1>7, <1>12, NextBit
<1>14. \A s \in Slots' : directory[Low(s, gd)] = b <=> Low(s, d) = l
  <2> SUFFICES ASSUME NEW s \in Slots' PROVE directory[Low(s, gd)] = b <=> Low(s, d) = l
    OBVIOUS
  <2>1. \A u \in Slots : directory[u] = b <=> Low(u, d) = l
    BY <1>1 DEF Classes, l
  <2>2. Low(Low(s, gd), d) = Low(s, d)
    BY <1>2, <1>7, LowLow
  <2> QED BY <1>10, <2>1, <2>2
<1>15. \A s \in Slots' : directory'[s] = IF Low(s, d) = l /\ H!Bit(s, d) = 1 THEN new
                                         ELSE directory[Low(s, gd)]
  BY <1>4, <1>11, <1>13
<1>16. directory' \in [Slots' -> Pages \cup {new}]
  <2>1. \A s \in Slots' : directory[Low(s, gd)] \in Pages
    BY <1>10 DEF HashTyped, Slots
  <2>2. \A s \in Slots' : directory'[s] \in Pages \cup {new}
    BY <1>15, <2>1
  <2>3. directory' = [s \in Slots' |-> directory'[s]]
    BY <1>4, <1>11
  <2> QED BY <2>2, <2>3
<1>17. l \in Slots' /\ l + 2 ^ d \in Slots'
  <2> DEFINE m == 2 ^ d
             n == 2 ^ (d + 1)
             q == 2 ^ globalDepth'
  <2>1. n <= q
    BY <1>2, <1>5, LargerPower
  <2>2. m \in Nat /\ n = 2 * m /\ q \in Nat /\ l < m
    BY <1>2, <1>5, <1>12, Doubling
  <2>3. \A i \in Nat : i < q => i \in Slots'
    BY <1>7
  <2> HIDE DEF m, n, q
  <2>4. l + m \in Nat /\ l + m < q /\ l < q
    BY <1>12, <2>1, <2>2
  <2> QED BY <1>12, <2>3, <2>4 DEF m
<1>18. DirectorySplit(b, d, l)
  BY <1>2, <1>5, <1>7, <1>8, <1>9, <1>10, <1>12, <1>14, <1>15, <1>16, <1>17 DEF DirectorySplit, new
<1> QED BY <1>18 DEF l, t

LEMMA SplitKeeps ==
  ASSUME HashInv, H!SplitBucket
  PROVE  HashInv' /\ Held' = Held
<1>1. HashTyped /\ Classes /\ Once
  BY DEF HashInv
<1>2. PICK h : Homed(h) /\ Placed(h)
  BY DEF HashInv
<1>3. inserting \in Entry /\ inserting[1] \in Key /\ inserting' = inserting
  BY <1>1 DEF H!SplitBucket, H!Full, H!NoEntry, HashTyped, Entry
<1>4. PICK b : b = H!BucketOf(inserting[1])
  OBVIOUS
<1>5. PICK d : d = buckets[b].depth
  OBVIOUS
<1>6. PICK t : t = H!Slot(inserting[1])
  OBVIOUS
<1>7. PICK l : l = Low(t, d)
  OBVIOUS
<1>8. PICK N \in Nat : N = Len(buckets) /\ Pages = 1 .. N
  BY <1>1, PagesAre DEF Pages
<1>9. PageSplit(b) /\ DirectorySplit(b, d, l)
  BY <1>1, <1>3, <1>4, <1>5, <1>6, <1>7, SplitPages, SplitSlots
<1>10. t \in Slots /\ directory[t] = b /\ b \in Pages /\ h[b] = b
  BY <1>1, <1>2, <1>3, <1>4, <1>6, SlotIs DEF Homed
<1>11. Pages' = Pages \cup {N + 1} /\ N + 1 \notin Pages /\ N + 1 \in Nat
  <2>1. Len(buckets') = N + 1
    BY <1>8, <1>9 DEF PageSplit
  <2> QED BY <1>8, <2>1 DEF Pages
<1>12. \A c \in Pages : /\ buckets'[c].overflow = buckets[c].overflow /\ c # N + 1
                        /\ buckets'[c].depth = IF c = b THEN d + 1 ELSE buckets[c].depth
                        /\ buckets[c].overflow # 0 => buckets[c].overflow \in Pages
  BY <1>1, <1>5, <1>9, <1>11, PagesAre DEF PageSplit
<1>13. buckets'[N + 1].depth = d + 1 /\ buckets'[N + 1].overflow = 0
  BY <1>5, <1>8, <1>9 DEF PageSplit
<1>14. /\ d \in Nat /\ d < MaxDepth /\ d <= globalDepth
       /\ globalDepth' \in 0 .. MaxDepth /\ globalDepth <= globalDepth' /\ d + 1 <= globalDepth'
       /\ globalDepth \in Nat /\ globalDepth' \in Nat
       /\ l \in Nat /\ l < 2 ^ d /\ l \in Slots' /\ l + 2 ^ d \in Slots'
       /\ Slots \subseteq Slots' /\ \A s \in Slots : Low(s, globalDepth) = s
  BY <1>1, <1>9 DEF DirectorySplit, HashTyped
<1>15. ASSUME NEW s \in Slots'
       PROVE  /\ s \in Nat /\ Low(s, globalDepth) \in Slots
              /\ directory[Low(s, globalDepth)] \in Pages
              /\ h[directory[Low(s, globalDepth)]] = directory[Low(s, globalDepth)]
              /\ directory[Low(s, globalDepth)] = b <=> Low(s, d) = l
              /\ directory'[s] = N + 1 <=> Low(s, d + 1) = l + 2 ^ d
              /\ directory'[s] = b <=> Low(s, d + 1) = l
              /\ directory'[s] # N + 1 => directory'[s] = directory[Low(s, globalDepth)]
              /\ Low(s, d) # l => directory'[s] = directory[Low(s, globalDepth)]
  <2>1. /\ s \in Nat /\ Low(s, globalDepth) \in Slots
        /\ directory[Low(s, globalDepth)] = b <=> Low(s, d) = l
        /\ directory'[s] = IF Low(s, d) = l /\ H!Bit(s, d) = 1 THEN N + 1
                           ELSE directory[Low(s, globalDepth)]
    BY <1>8, <1>9 DEF DirectorySplit
  <2>2. directory[Low(s, globalDepth)] \in Pages /\ directory[Low(s, globalDepth)] # N + 1
    BY <1>1, <1>11, <2>1 DEF HashTyped, Slots
  <2>3. h[directory[Low(s, globalDepth)]] = directory[Low(s, globalDepth)]
    BY <1>2, <2>1 DEF Homed
  <2>4. /\ Low(s, d + 1) = l + 2 ^ d <=> Low(s, d) = l /\ H!Bit(s, d) = 1
        /\ Low(s, d + 1) = l <=> Low(s, d) = l /\ H!Bit(s, d) # 1
    BY <1>14, <2>1, NextBit
  <2> QED BY <1>10, <1>11, <2>1, <2>2, <2>3, <2>4
\* The slots of a bucket that is not split are those that were its own, and more.
<1>16. ASSUME NEW s \in Slots', directory'[s] # N + 1, directory'[s] # b
       PROVE  /\ Low(s, d) # l /\ directory'[s] \in Pages
              /\ directory[Low(s, globalDepth)] = directory'[s]
              /\ buckets'[directory'[s]].depth = buckets[directory'[s]].depth
              /\ buckets[directory'[s]].depth \in Nat /\ buckets[directory'[s]].depth <= globalDepth
              /\ Low(Low(s, globalDepth), buckets[directory'[s]].depth) = Low(s, buckets[directory'[s]].depth)
  <2>1. /\ directory[Low(s, globalDepth)] = directory'[s] /\ directory'[s] \in Pages
        /\ Low(s, d) # l /\ s \in Nat /\ Low(s, globalDepth) \in Slots
    BY <1>15, <1>16
  <2>2. buckets[directory'[s]].depth \in 0 .. MaxDepth
    BY <1>1, <2>1, PagesAre
  <2>3. buckets[directory'[s]].depth <= globalDepth
    BY <1>1, <2>1 DEF Classes
  <2>4. buckets[directory'[s]].depth \in Nat
    BY <2>2
  <2>5. Low(Low(s, globalDepth), buckets[directory'[s]].depth) = Low(s, buckets[directory'[s]].depth)
    BY <1>14, <2>1, <2>3, <2>4, LowLow
  <2> QED BY <1>12, <1>16, <2>1, <2>3, <2>4, <2>5
<1>17. HashTyped'
  <2>1. directory' \in [0 .. 2 ^ globalDepth' - 1 -> Pages']
    BY <1>8, <1>9, <1>11 DEF DirectorySplit, Slots
  <2>2. buckets' \in Seq(Bucket) /\ Len(buckets') = N + 1
    BY <1>8, <1>9 DEF PageSplit
  <2>3. \A c \in Pages' : buckets'[c].overflow = 0 \/ buckets'[c].overflow \in c + 1 .. Len(buckets')
    <3>1. \A c \in Pages : buckets[c].overflow = 0 \/ buckets[c].overflow \in c + 1 .. N + 1
      <4>1. \A c \in Pages : buckets[c].overflow = 0 \/ buckets[c].overflow \in c + 1 .. N
        BY <1>1, <1>8 DEF HashTyped
      <4> QED BY <1>8, <4>1
    <3> QED BY <1>11, <1>12, <1>13, <2>2, <3>1
  <2>4. inserting' \in {<<>>} \cup Entry
    BY <1>3
  <2> QED BY <1>14, <2>1, <2>2, <2>3, <2>4 DEF HashTyped
<1>18. ASSUME NEW s \in Slots'
       PROVE  /\ buckets'[directory'[s]].depth <= globalDepth'
              /\ \A u \in Slots' : directory'[u] = directory'[s]
                   <=> Low(u, buckets'[directory'[s]].depth) = Low(s, buckets'[directory'[s]].depth)
  <2>1. CASE directory'[s] = N + 1
    <3>1. Low(s, d + 1) = l + 2 ^ d
      BY <1>15, <2>1
    <3> QED BY <1>13, <1>14, <1>15, <2>1, <3>1
  <2>2. CASE directory'[s] = b
    <3>1. Low(s, d + 1) = l /\ buckets'[b].depth = d + 1
      BY <1>10, <1>12, <1>15, <2>2
    <3> QED BY <1>14, <1>15, <2>2, <3>1
  <2>3. CASE directory'[s] # N + 1 /\ directory'[s] # b
    <3>1. PICK p : p = directory'[s]
      OBVIOUS
    <3>2. PICK q : q = buckets[p].depth
      OBVIOUS
    <3>3. /\ Low(s, d) # l /\ p \in Pages /\ directory[Low(s, globalDepth)] = p
          /\ buckets'[p].depth = q /\ q \in Nat /\ q <= globalDepth
          /\ Low(Low(s, globalDepth), q) = Low(s, q)
      BY <1>16, <2>3, <3>1, <3>2
    <3>4. ASSUME NEW u \in Slots' PROVE directory'[u] = p <=> Low(u, q) = Low(s, q)
      <4>1. directory[Low(u, globalDepth)] = p <=> Low(Low(u, globalDepth), q) = Low(Low(s, globalDepth), q)
        BY <1>1, <1>15, <3>2, <3>3 DEF Classes
      <4>2. Low(Low(u, globalDepth), q) = Low(u, q)
        BY <1>14, <1>15, <3>3, LowLow
      <4>3. directory'[u] = p <=> directory[Low(u, globalDepth)] = p
        BY <1>11, <1>15, <2>3, <3>1, <3>3
      <4> QED BY <3>3, <4>1, <4>2, <4>3
    <3> QED BY <1>14, <3>1, <3>3, <3>4
  <2> QED BY <2>1, <2>2, <2>3
<1>19. Classes'
  BY <1>18 DEF Classes
<1>20. PICK g : g = [c \in Pages \cup {N + 1} |-> IF c = N + 1 THEN N + 1 ELSE h[c]]
  OBVIOUS
<1>21. /\ g[N + 1] = N + 1 /\ g \in [Pages' -> Pages']
       /\ \A c \in Pages : g[c] = h[c] /\ h[c] \in Pages
  <2>1. \A c \in Pages : g[c] = h[c] /\ h[c] \in Pages
    BY <1>2, <1>11, <1>20 DEF Homed
  <2>2. g[N + 1] = N + 1
    BY <1>20
  <2>3. \A c \in Pages' : g[c] \in Pages'
    BY <1>11, <2>1, <2>2
  <2>4. g = [c \in Pages' |-> g[c]]
    BY <1>11, <1>20
  <2> QED BY <2>1, <2>2, <2>3, <2>4
\* The bucket that is split had no overflow page.
<1>22. \A c \in Pages : h[c] = b => c = b
  BY <1>2, <1>5, <1>14 DEF Homed
<1>23. Homed(g)'
  <2>1. ASSUME NEW c \in Pages', buckets'[c].overflow # 0 PROVE g[buckets'[c].overflow] = g[c]
    <3>1. c \in Pages /\ buckets'[c].overflow = buckets[c].overflow /\ buckets[c].overflow \in Pages
      BY <1>11, <1>12, <1>13, <2>1
    <3>2. h[buckets[c].overflow] = h[c]
      BY <1>2, <2>1, <3>1 DEF Homed
    <3> QED BY <1>21, <3>1, <3>2
  <2>2. ASSUME NEW c \in Pages', g[c] # c
        PROVE  buckets'[g[c]].depth = MaxDepth /\ \E p \in Pages' : p < c /\ buckets'[p].overflow = c
    <3>1. c \in Pages /\ g[c] = h[c] /\ h[c] \in Pages /\ h[c] # c
      BY <1>11, <1>21, <2>2
    <3>2. buckets[h[c]].depth = MaxDepth /\ \E p \in Pages : p < c /\ buckets[p].overflow = c
      BY <1>2, <3>1 DEF Homed
    <3>3. h[c] # b
      BY <1>22, <3>1
    <3> QED BY <1>11, <1>12, <3>1, <3>2, <3>3
  <2>3. \A s \in Slots' : g[directory'[s]] = directory'[s]
    BY <1>15, <1>21
  <2>4. ASSUME NEW c \in Pages' PROVE \E s \in Slots' : directory'[s] = g[c]
    <3>1. CASE c = N + 1
      <4> DEFINE s == l + 2 ^ d
      <4>1. s \in Slots'
        BY <1>14
      <4>2. l < 2 ^ d /\ 2 ^ d \in Nat /\ 2 ^ (d + 1) = 2 * 2 ^ d /\ d + 1 \in Nat
        BY <1>14, Doubling
      <4>3. s \in Nat /\ s < 2 ^ (d + 1)
        <5> DEFINE m == 2 ^ d
                   n == 2 ^ (d + 1)
        <5>1. m \in Nat /\ n = 2 * m /\ l < m /\ l \in Nat
          BY <1>14, <4>2
        <5> HIDE DEF m, n
        <5>2. l + m \in Nat /\ l + m < n
          BY <5>1
        <5> QED BY <5>2 DEF m, n
      <4>4. Low(s, d + 1) = l + 2 ^ d
        <5>1. PICK v \in Nat : v = s
          BY <4>3
        <5>2. v < 2 ^ (d + 1)
          BY <4>3, <5>1
        <5> HIDE DEF s
        <5>3. Low(v, d + 1) = v
          BY <4>2, <5>2, LowSmall
        <5> QED BY <5>1, <5>3 DEF s
      <4>5. directory'[s] = N + 1
        BY <1>15, <4>1, <4>4
      <4> QED BY <1>21, <3>1, <4>1, <4>5
    <3>2. CASE c # N + 1 /\ h[c] = b
      <4>1. Low(l, d) = l
        BY <1>14, LowSmall
      <4>2. l < 2 ^ (d + 1) /\ d + 1 \in Nat
        <5> DEFINE m == 2 ^ d
                   n == 2 ^ (d + 1)
        <5>1. m \in Nat /\ n = 2 * m /\ l < m /\ l \in Nat
          BY <1>14, Doubling
        <5> HIDE DEF m, n
        <5>2. l < n
          BY <5>1
        <5> QED BY <1>14, <5>2 DEF n
      <4>3. Low(l, d + 1) = l
        BY <1>14, <4>2, LowSmall
      <4>4. directory'[l] = b
        BY <1>14, <1>15, <4>3
      <4> QED BY <1>11, <1>14, <1>21, <3>2, <4>4
    <3>3. CASE c # N + 1 /\ h[c] # b
      <4>1. c \in Pages /\ g[c] = h[c]
        BY <1>11, <1>21, <3>3
      <4>2. PICK s \in Slots : directory[s] = h[c]
        BY <1>2, <4>1 DEF Homed
      <4>3. s \in Slots' /\ Low(s, globalDepth) = s
        BY <1>14
      <4>4. Low(s, d) # l
        BY <1>15, <3>3, <4>2, <4>3
      <4>5. directory'[s] = directory[s]
        BY <1>15, <4>3, <4>4
      <4> QED BY <4>1, <4>2, <4>3, <4>5
    <3> QED BY <3>1, <3>2, <3>3
  <2> QED BY <1>21, <2>1, <2>2, <2>3, <2>4 DEF Homed
<1>24. \A e \in Elements(buckets[b].entries) :
         Digest[e[1]] \in Nat /\ Low(Digest[e[1]], d) = l
  <2> SUFFICES ASSUME NEW e \in Elements(buckets[b].entries)
               PROVE  Digest[e[1]] \in Nat /\ Low(Digest[e[1]], d) = l
    OBVIOUS
  <2>1. e \in Entry
    BY <1>1, <1>2, <1>10, EntryHome
  <2>2. Digest[e[1]] \in Nat
    BY <2>1, DigestIs DEF Entry
  <2>3. Low(Digest[e[1]], d) = Low(t, d)
    BY <1>2, <1>5, <1>10 DEF Placed
  <2> QED BY <1>7, <2>2, <2>3
<1>25. /\ NoneTwice(buckets'[b].entries) /\ NoneTwice(buckets'[N + 1].entries)
       /\ Elements(buckets'[b].entries) = {e \in Elements(buckets[b].entries) : ~ Goes(e, d)}
       /\ Elements(buckets'[N + 1].entries) = {e \in Elements(buckets[b].entries) : Goes(e, d)}
       /\ \A c \in Pages \ {b} : buckets'[c].entries = buckets[c].entries
  BY <1>5, <1>8, <1>9 DEF PageSplit
<1>26. /\ \A e \in Elements(buckets'[N + 1].entries) : Low(Digest[e[1]], d + 1) = l + 2 ^ d
       /\ \A e \in Elements(buckets'[b].entries) : Low(Digest[e[1]], d + 1) = l
  BY <1>14, <1>24, <1>25, NextBit DEF Goes
<1>27. Placed(g)'
  <2> SUFFICES ASSUME NEW c \in Pages', NEW s \in Slots', directory'[s] = g[c],
                      NEW e \in Elements(buckets'[c].entries)
               PROVE  Low(Digest[e[1]], buckets'[g[c]].depth) = Low(s, buckets'[g[c]].depth)
    BY DEF Placed
  <2>1. CASE c = N + 1
    <3>1. g[c] = N + 1 /\ buckets'[g[c]].depth = d + 1 /\ Low(s, d + 1) = l + 2 ^ d
      BY <1>13, <1>15, <1>21, <2>1
    <3>2. Low(Digest[e[1]], d + 1) = l + 2 ^ d
      BY <1>26, <2>1
    <3> QED BY <3>1, <3>2
  <2>2. CASE c # N + 1 /\ g[c] = b
    <3>1. c = b
      BY <1>11, <1>21, <1>22, <2>2
    <3>2. buckets'[g[c]].depth = d + 1 /\ Low(s, d + 1) = l
      BY <1>10, <1>12, <1>15, <2>2
    <3>3. Low(Digest[e[1]], d + 1) = l
      BY <1>26, <3>1
    <3> QED BY <3>2, <3>3
  <2>3. CASE c # N + 1 /\ g[c] # b
    <3>1. c \in Pages /\ g[c] = h[c] /\ h[c] \in Pages /\ c # b
      BY <1>10, <1>11, <1>21, <2>3
    <3>2. PICK p : p = h[c]
      OBVIOUS
    <3>3. PICK q : q = buckets[p].depth
      OBVIOUS
    <3>4. /\ directory[Low(s, globalDepth)] = p /\ buckets'[p].depth = q
          /\ Low(Low(s, globalDepth), q) = Low(s, q) /\ Low(s, globalDepth) \in Slots
      BY <1>11, <1>15, <1>16, <2>3, <3>1, <3>2, <3>3
    <3>5. e \in Elements(buckets[c].entries)
      BY <1>25, <3>1
    <3>6. Low(Digest[e[1]], q) = Low(Low(s, globalDepth), q)
      BY <1>2, <3>1, <3>2, <3>3, <3>4, <3>5 DEF Placed
    <3> QED BY <3>1, <3>2, <3>4, <3>6
  <2> QED BY <2>1, <2>2, <2>3
<1>28. Once'
  <2>1. \A c \in Pages' : NoneTwice(buckets'[c].entries)
    BY <1>1, <1>11, <1>25 DEF Once
  <2>2. \A c \in Pages : Elements(buckets'[c].entries) \subseteq Elements(buckets[c].entries)
    BY <1>25
  <2>3. \A c, e \in Pages : c # e => Elements(buckets'[c].entries) \cap Elements(buckets'[e].entries) = {}
    BY <1>1, <2>2 DEF Once
  <2>4. \A c \in Pages : Elements(buckets'[c].entries) \cap Elements(buckets'[N + 1].entries) = {}
    <3>1. Elements(buckets'[N + 1].entries) \subseteq Elements(buckets[b].entries)
      BY <1>25
    <3>2. \A c \in Pages \ {b} : Elements(buckets[c].entries) \cap Elements(buckets[b].entries) = {}
      BY <1>1, <1>10 DEF Once
    <3>3. Elements(buckets'[b].entries) \cap Elements(buckets'[N + 1].entries) = {}
      BY <1>25
    <3> QED BY <2>2, <3>1, <3>2, <3>3
  <2>5. \A c, e \in Pages' : c # e => Elements(buckets'[c].entries) \cap Elements(buckets'[e].entries) = {}
    BY <1>11, <2>3, <2>4
  <2>6. \A c \in Pages' : inserting' \notin Elements(buckets'[c].entries)
    <3>1. \A c \in Pages : inserting \notin Elements(buckets[c].entries)
      BY <1>1 DEF Once
    <3> QED BY <1>3, <1>10, <1>11, <1>25, <2>2, <3>1
  <2> QED BY <2>1, <2>5, <2>6 DEF Once
<1>29. Held' = Held
  <2>1. /\ \A e : e \in Held <=> \E c \in Pages : e \in Elements(buckets[c].entries)
        /\ \A e : e \in Held' <=> \E c \in Pages' : e \in Elements(buckets'[c].entries)
    BY DEF Held
  <2>2. \A e : e \in Elements(buckets[b].entries)
               <=> e \in Elements(buckets'[b].entries) \/ e \in Elements(buckets'[N + 1].entries)
    BY <1>25
  <2>3. \A e : e \in Held' <=> e \in Held
    BY <1>10, <1>11, <1>25, <2>1, <2>2
  <2> QED BY <2>3
<1> QED BY <1>17, <1>19, <1>23, <1>27, <1>28, <1>29 DEF HashInv

-----------------------------------------------------------------------------
(* What the hash promises.                                                  *)

LEMMA KeptIsHeld == HashInv => H!Kept = Held /\ Held \subseteq Entry
<1> SUFFICES ASSUME HashInv PROVE H!Kept = Held /\ Held \subseteq Entry
  OBVIOUS
<1>1. HashTyped
  BY DEF HashInv
<1>2. /\ \A e : e \in H!Kept <=> \E c \in Pages : e \in Elements(buckets[c].entries)
      /\ H!Kept \subseteq Entry
  BY <1>1, HashKept
<1>3. \A e : e \in Held <=> \E c \in Pages : e \in Elements(buckets[c].entries)
  BY DEF Held
<1> QED BY <1>2, <1>3

\* Every step of the hash keeps the invariant and changes the entries as one
\* insertion or removal, if it does.
HashChanges ==
  \/ Held' = Held /\ (inserting' = <<>> => inserting = <<>>)
  \/ inserting \in Entry /\ Held' = Held \cup {inserting}
  \/ \E k \in Key, rids \in {Rid} \cup {{r} : r \in Rid} :
       Held' = Held \ ({k} \X rids) /\ inserting = <<>>

LEMMA HashStepKeeps ==
  ASSUME HashInv, H!HashNext
  PROVE  HashInv' /\ HashChanges
<1>1. CASE \E k \in Key, r \in Rid : <<k, r>> \notin H!Kept /\ H!StartInsert(k, r)
  <2>1. PICK k \in Key, r \in Rid : <<k, r>> \notin H!Kept /\ H!StartInsert(k, r)
    BY <1>1
  <2>2. HashInv' /\ Held' = Held
    BY <2>1, StartKeeps
  <2>3. inserting = <<>>
    BY <2>1 DEF H!StartInsert, H!NoEntry
  <2> QED BY <2>2, <2>3 DEF HashChanges
<1>2. inserting # <<>> => inserting \in Entry
  BY DEF HashInv, HashTyped
<1>3. CASE H!AddToBucket
  <2>1. inserting # <<>>
    BY <1>3 DEF H!AddToBucket, H!NoEntry
  <2> QED BY <1>2, <1>3, <2>1, AddToBucketKeeps DEF HashChanges
<1>4. CASE H!SplitBucket
  <2>1. inserting' = inserting
    BY <1>4 DEF H!SplitBucket
  <2> QED BY <1>4, <2>1, SplitKeeps DEF HashChanges
<1>5. CASE H!Overflow
  <2>1. inserting # <<>>
    BY <1>5 DEF H!Overflow, H!Full, H!NoEntry
  <2> QED BY <1>2, <1>5, <2>1, OverflowKeeps DEF HashChanges
<1>6. CASE \E k \in Key, rids \in {Rid} \cup {{r} : r \in Rid} : H!RemoveFromChain(k, rids)
  <2>1. PICK k \in Key, rids \in {Rid} \cup {{r} : r \in Rid} : H!RemoveFromChain(k, rids)
    BY <1>6
  <2>2. HashInv' /\ Held' = Held \ ({k} \X rids)
    BY <2>1, RemoveKeeps
  <2>3. inserting = <<>>
    BY <2>1 DEF H!RemoveFromChain, H!NoEntry
  <2> QED BY <2>2, <2>3 DEF HashChanges
<1> QED BY <1>1, <1>3, <1>4, <1>5, <1>6 DEF H!HashNext

LEMMA HashKeeps ==
  ASSUME IsHash => HashInv, [Next]_vars
  PROVE  IsHash' => HashInv'
<1>1. CASE UNCHANGED vars
  <2>1. /\ kind' = kind /\ directory' = directory /\ globalDepth' = globalDepth
        /\ buckets' = buckets /\ inserting' = inserting
    BY <1>1 DEF vars, hashOnly
  <2>2. HashInv => HashInv'
    <3>1. Pages' = Pages /\ Slots' = Slots
      BY <2>1 DEF Pages, Slots
    <3>2. HashTyped => HashTyped'
      BY <2>1, <3>1 DEF HashTyped
    <3>3. Classes => Classes'
      BY <2>1, <3>1 DEF Classes
    <3>4. Once => Once'
      BY <2>1, <3>1 DEF Once
    <3>5. ASSUME NEW h, Homed(h), Placed(h) PROVE Homed(h)' /\ Placed(h)'
      BY <2>1, <3>1, <3>5 DEF Homed, Placed
    <3> QED BY <3>2, <3>3, <3>4, <3>5 DEF HashInv
  <2> QED BY <2>1, <2>2 DEF IsHash
<1>2. CASE Next
  <2>1. kind' = kind
    BY <1>2 DEF Next
  <2>2. IsHash => H!HashNext
    BY <1>2 DEF Next, IsHash
  <2> QED BY <2>1, <2>2, HashStepKeeps DEF IsHash
<1> QED BY <1>1, <1>2

\* The pages, chains and slots of a hash and where its entries are, after any
\* insertions and removals, also while an insertion splits its bucket.
THEOREM HashInvariant == Spec => [](IsHash => HashInv)
BY HashStarts, HashKeeps, PTL DEF Spec

\* The sound directory of a hash and the sound delta of an inverted index, in
\* every state: splits and doublings of any depth lead each slot to the bucket
\* of its suffix, and no page is lost from the chains.
THEOREM HashAndInvertedStructure ==
  Spec => [](kind \in {"HASH", "INVERTED"} => StructureSound)
<1>1. ASSUME IsHash => HashInv PROVE IsHash => StructureSound
  BY <1>1, DirectoryHolds DEF IsHash, StructureSound
<1>2. (IsHash => StructureSound) /\ (IsInverted => StructureSound)
      => (kind \in {"HASH", "INVERTED"} => StructureSound)
  BY DEF IsHash, IsInverted
<1> QED BY <1>1, <1>2, HashInvariant, InvertedStructure, PTL

\* A search of a hash returns each entry of the key once, also from the
\* overflow pages and in the middle of an insertion.
THEOREM HashSearch == Spec => [](kind \in {"HASH", "INVERTED"} => SearchExact)
<1>1. ASSUME IsHash => HashInv PROVE kind \in {"HASH", "INVERTED"} => SearchExact
  <2>1. IsHash => \A k \in Key : Lists(H!Found(k), {e \in H!Kept : e[1] = k})
    BY <1>1, FoundHolds
  <2>2. IsHash => Stored = H!Kept
    BY DEF IsHash, Stored
  <2>3. IsHash => SearchExact
    BY <2>1, <2>2 DEF IsHash, SearchExact
  <2>4. kind = "INVERTED" => SearchExact
    BY DEF SearchExact
  <2> QED BY <2>3, <2>4 DEF IsHash
<1> QED BY <1>1, HashInvariant, PTL

\* A removal from a hash takes every entry it is asked for, along all pages of
\* the chain, and no other; one from an inverted index takes the one document.
THEOREM HashAndInvertedRemoval == Spec => [](kind \in {"HASH", "INVERTED"} => RemovalExact)
<1>1. ASSUME IsHash => HashInv PROVE IsHash => RemovalExact
  <2>1. IsHash => Stored = H!Kept
    BY DEF IsHash, Stored
  <2>2. IsHash => \A k \in Key, rids \in {Rid} \cup {{r} : r \in Rid} :
                    H!EntriesOf(H!Without(k, rids)) = Stored \ ({k} \X rids)
    BY <1>1, <2>1, WithoutHolds
  <2> QED BY <2>2 DEF IsHash, RemovalExact
<1>2. ASSUME IsInverted => InvertedInv PROVE IsInverted => RemovalExact
  <2> SUFFICES ASSUME IsInverted, NEW r \in Documents
               PROVE  I!TextsOf(I!AddedWithout(r), removed \cup {r}) = Stored \ (Key \X {r})
    BY DEF IsInverted, RemovalExact
  <2>1. Stored = I!TextsOf(added, removed)
    BY DEF IsInverted, Stored, I!Texts
  <2>2. Stored \subseteq Key \X Documents
    BY <1>2, <2>1, TextsTyped DEF InvertedInv
  <2>3. I!TextsOf(Minus(added, r), removed \cup {r}) = {t \in Stored : t[2] # r}
    BY <2>1, TextsMinus
  <2> QED BY <2>2, <2>3 DEF I!AddedWithout, Minus
<1>3. (IsHash => RemovalExact) /\ (IsInverted => RemovalExact)
      => (kind \in {"HASH", "INVERTED"} => RemovalExact)
  BY DEF IsHash, IsInverted
<1> QED BY <1>1, <1>2, <1>3, HashInvariant, InvertedInvariant, PTL

LEMMA HashEntries ==
  ASSUME IsHash, HashInv, H!Kept = Held, (H!Kept = Held)', [Next]_vars
  PROVE  IsHash' /\ [Entries!IndexNext]_(Entries!vars) /\ [InsertAdds]_vars
<1>1. kind = "HASH" /\ kind' = "HASH"
  BY DEF IsHash, Next, vars
<1>2. /\ Stored = Held /\ Stored' = Held' /\ Held \subseteq Entry
      /\ OnDisk = Stored /\ OnDisk' = Stored' /\ Entries!Save
  BY <1>1, KeptIsHeld DEF Stored, OnDisk, Entries!Save
<1>3. CASE UNCHANGED vars
  <2>1. Held' = Held
    BY <1>3 DEF vars, hashOnly, Held, Pages
  <2>2. UNCHANGED Entries!vars
    BY <1>2, <2>1 DEF Entries!vars
  <2> QED BY <1>1, <1>3, <2>2 DEF IsHash
<1>4. CASE Next
  <2>1. HashChanges
    BY <1>1, <1>4, HashStepKeeps DEF Next
  <2>2. [Entries!IndexNext]_(Entries!vars)
    <3>1. CASE Held' = Held
      BY <1>2, <3>1 DEF Entries!vars
    <3>2. CASE inserting \in Entry /\ Held' = Held \cup {inserting}
      <4>1. PICK k \in Key, r \in Rid : inserting = <<k, r>>
        BY <3>2 DEF Entry
      <4>2. Entries!Insert(k, r) /\ r \in Rid \cup Documents
        BY <1>2, <3>2, <4>1 DEF Entries!Insert
      <4> QED BY <1>2, <4>2 DEF Entries!IndexNext, Entries!Change
    <3>3. CASE \E k \in Key, rids \in {Rid} \cup {{r} : r \in Rid} : Held' = Held \ ({k} \X rids)
      <4>1. PICK k \in Key, rids \in {Rid} \cup {{r} : r \in Rid} : Held' = Held \ ({k} \X rids)
        BY <3>3
      <4>2. CASE rids = Rid
        <5>1. Held \ ({k} \X Rid) = Held \ ({k} \X (Rid \cup Documents))
          BY <1>2 DEF Entry
        <5>2. Entries!Remove(k, Rid \cup Documents)
          BY <1>2, <4>1, <4>2, <5>1 DEF Entries!Remove
        <5> QED BY <1>2, <5>2 DEF Entries!IndexNext, Entries!Change
      <4>3. CASE \E r \in Rid : rids = {r}
        <5>1. PICK r \in Rid : rids = {r}
          BY <4>3
        <5>2. Entries!Remove(k, {r}) /\ {r} \in SUBSET (Rid \cup Documents)
          BY <1>2, <4>1, <5>1 DEF Entries!Remove
        <5> QED BY <1>2, <5>2 DEF Entries!IndexNext, Entries!Change
      <4> QED BY <4>2, <4>3
    <3> QED BY <2>1, <3>1, <3>2, <3>3 DEF HashChanges
  <2>3. inserting # <<>> /\ inserting' = <<>> => inserting \in Held'
    BY <2>1 DEF HashChanges
  <2>4. InsertAdds
    BY <1>1, <1>2, <2>3 DEF InsertAdds, H!NoEntry
  <2> QED BY <1>1, <2>2, <2>4 DEF IsHash
<1> QED BY <1>3, <1>4

\* A hash is the set of the entries inserted and not removed: a split moves
\* entries and loses none, an insertion that is over has stored its entry, in
\* a bucket or an overflow page, and a removal takes no other key's entry.
THEOREM HashRefinesEntries == Spec /\ IsHash => EntriesRefined
<1>1. ASSUME Init, IsHash PROVE Entries!IndexInit
  <2>1. H!Kept \subseteq Entry
    BY <1>1, HashStarts, KeptIsHeld
  <2>2. Stored = H!Kept /\ OnDisk = Stored
    BY <1>1 DEF IsHash, Stored, OnDisk
  <2> QED BY <2>1, <2>2 DEF Entries!IndexInit, Entry
<1>2. (IsHash => HashInv) => (IsHash => HashInv /\ H!Kept = Held)
  BY KeptIsHeld
<1>3. IsHash /\ HashInv /\ H!Kept = Held /\ (IsHash => HashInv /\ H!Kept = Held)' /\ [Next]_vars
      => IsHash' /\ [Entries!IndexNext]_(Entries!vars) /\ [InsertAdds]_vars
  <2> SUFFICES ASSUME IsHash, HashInv, H!Kept = Held, (IsHash => HashInv /\ H!Kept = Held)', [Next]_vars
               PROVE  IsHash' /\ [Entries!IndexNext]_(Entries!vars) /\ [InsertAdds]_vars
    OBVIOUS
  <2>1. IsHash'
    BY DEF IsHash, Next, vars
  <2>2. (H!Kept = Held)'
    BY <2>1
  <2> QED BY <2>2, HashEntries
<1> QED BY <1>1, <1>2, <1>3, HashInvariant, PTL DEF Spec, EntriesRefined, Entries!IndexSpec
=============================================================================

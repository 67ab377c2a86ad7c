------------------------- MODULE SlottedPage_proofs -------------------------
(***************************************************************************)
(* Lemmas about slotted pages, for any records, lengths and page size:     *)
(* sums of lengths, and what storing, removing and compaction do to the    *)
(* layout of a page.                                                       *)
(***************************************************************************)
EXTENDS SlottedPage, FiniteSetTheorems, WellFoundedInduction, SequenceTheorems, TLAPS

-----------------------------------------------------------------------------
\* Sums over the subsets of a finite set, as MapThenSumSet defines them: f is
\* the sum of the weights w over each subset of T.
Chosen(s) == CHOOSE x \in s : TRUE
SumsBy(f, w, T) ==
  f = [s \in SUBSET T |-> IF s = {} THEN 0 ELSE w[Chosen(s)] + f[s \ {Chosen(s)}]]

\* A set of subsets of a finite set has a minimal one.
LEMMA LeastSubset ==
  ASSUME NEW T, IsFiniteSet(T), NEW B \in SUBSET SUBSET T, B # {}
  PROVE  \E s \in B : \A u \in B : u \subseteq s => u = s
<1>1. IsWellFoundedOn(StrictSubsetOrdering(T), SUBSET T)
  BY FS_StrictSubsetOrderingWellFounded, FS_FiniteSubsetsOfFinite
<1>2. PICK s \in B : \A u \in B : ~ (<<u, s>> \in StrictSubsetOrdering(T))
  BY <1>1, WFMin
<1> QED BY <1>2 DEF StrictSubsetOrdering

LEMMA SumStep ==
  ASSUME NEW f, NEW w, NEW T, SumsBy(f, w, T), NEW s \in SUBSET T, s # {}
  PROVE  Chosen(s) \in s /\ f[s] = w[Chosen(s)] + f[s \ {Chosen(s)}]
BY DEF SumsBy, Chosen

LEMMA SumEmpty ==
  ASSUME NEW f, NEW w, NEW T, SumsBy(f, w, T)
  PROVE  f[{}] = 0
BY DEF SumsBy

\* A sum depends on the weights that are summed only.
LEMMA SumSame ==
  ASSUME NEW f, NEW v, NEW T, SumsBy(f, v, T), NEW g, NEW w, NEW U, SumsBy(g, w, U),
         NEW S, IsFiniteSet(S), S \subseteq T, S \subseteq U, \A x \in S : v[x] = w[x]
  PROVE  f[S] = g[S]
<1> DEFINE B == {s \in SUBSET S : f[s] # g[s]}
<1> SUFFICES ASSUME B # {} PROVE FALSE
  OBVIOUS
<1>a. B \in SUBSET SUBSET S
  OBVIOUS
<1> HIDE DEF B
<1>1. PICK s \in B : \A u \in B : u \subseteq s => u = s
  BY <1>a, LeastSubset
<1> USE DEF B
<1>2. s # {}
  BY <1>1, SumEmpty
<1>3. Chosen(s) \in s /\ f[s] = v[Chosen(s)] + f[s \ {Chosen(s)}]
  BY <1>2, SumStep
<1>4. g[s] = w[Chosen(s)] + g[s \ {Chosen(s)}]
  BY <1>2, SumStep
<1>5. f[s \ {Chosen(s)}] = g[s \ {Chosen(s)}]
  BY <1>1, <1>3
<1> QED BY <1>1, <1>3, <1>4, <1>5

LEMMA SumExists ==
  ASSUME NEW T, IsFiniteSet(T), NEW w
  PROVE  \E f : SumsBy(f, w, T)
<1> DEFINE B == {U \in SUBSET T : ~ \E f : SumsBy(f, w, U)}
<1> SUFFICES ASSUME B # {} PROVE FALSE
  OBVIOUS
<1>a. B \in SUBSET SUBSET T
  OBVIOUS
<1> HIDE DEF B
<1>1. PICK U \in B : \A V \in B : V \subseteq U => V = U
  BY <1>a, LeastSubset
<1> USE DEF B
<1> DEFINE h(V) == CHOOSE f : SumsBy(f, w, V)
<1>2. ASSUME NEW V \in SUBSET U, V # U PROVE SumsBy(h(V), w, V) /\ IsFiniteSet(V)
  BY <1>1, <1>2, FS_Subset
<1> DEFINE f == [s \in SUBSET U |-> IF s = {} THEN 0
                                    ELSE w[Chosen(s)] + h(s \ {Chosen(s)})[s \ {Chosen(s)}]]
<1> HIDE DEF h
<1>3. ASSUME NEW s \in SUBSET U, s # {} PROVE h(s \ {Chosen(s)})[s \ {Chosen(s)}] = f[s \ {Chosen(s)}]
  <2> DEFINE u == s \ {Chosen(s)}
  <2>1. Chosen(s) \in s /\ u \in SUBSET U /\ u # U
    BY <1>3 DEF Chosen
  <2>2. SumsBy(h(u), w, u) /\ IsFiniteSet(u)
    BY <1>2, <2>1
  <2>3. CASE u = {}
    BY <2>2, <2>3, SumEmpty
  <2>4. CASE u # {}
    <3> DEFINE x == Chosen(u)
    <3>a. u \in SUBSET u
      OBVIOUS
    <3>1. x \in u /\ h(u)[u] = w[x] + h(u)[u \ {x}]
      <4> HIDE DEF u
      <4> QED BY <2>2, <2>4, <3>a, SumStep
    <3>2. u \ {x} \in SUBSET U /\ u \ {x} # U /\ u \ {x} \subseteq u
      BY <2>1, <3>1
    <3>3. SumsBy(h(u \ {x}), w, u \ {x}) /\ IsFiniteSet(u \ {x})
      BY <1>2, <3>2
    <3>4. h(u)[u \ {x}] = h(u \ {x})[u \ {x}]
      BY <2>2, <3>2, <3>3, SumSame
    <3>5. f[u] = w[x] + h(u \ {x})[u \ {x}]
      BY <2>1, <2>4, <3>1
    <3> QED BY <3>1, <3>4, <3>5
  <2> QED BY <2>3, <2>4
<1>4. SumsBy(f, w, U)
  <2> DEFINE e == [s \in SUBSET U |-> IF s = {} THEN 0 ELSE w[Chosen(s)] + f[s \ {Chosen(s)}]]
  <2>1. \A s \in SUBSET U : f[s] = e[s]
    BY <1>3
  <2>2. f = e
    BY <2>1
  <2> QED BY <2>2 DEF SumsBy
<1> QED BY <1>1, <1>4

\* The order of the elements does not matter.
LEMMA SumAny ==
  ASSUME NEW f, NEW w, NEW T, IsFiniteSet(T), SumsBy(f, w, T),
         \A x \in T : w[x] \in Nat
  PROVE  \A s \in SUBSET T : f[s] \in Nat /\ \A x \in s : f[s] = w[x] + f[s \ {x}]
<1>1. \A s \in SUBSET T : f[s] \in Nat
  <2> DEFINE B == {s \in SUBSET T : f[s] \notin Nat}
  <2> SUFFICES ASSUME B # {} PROVE FALSE
    OBVIOUS
  <2>a. B \in SUBSET SUBSET T
    OBVIOUS
  <2> HIDE DEF B
  <2>1. PICK s \in B : \A u \in B : u \subseteq s => u = s
    BY <2>a, LeastSubset
  <2> USE DEF B
  <2>b. f[{}] = 0
    BY SumEmpty
  <2>c. s \in SUBSET T /\ f[s] \notin Nat /\ \A u \in SUBSET T : u \subseteq s /\ u # s => f[u] \in Nat
    BY <2>1
  <2> HIDE DEF B
  <2>e. 0 \in Nat
    OBVIOUS
  <2>2. s # {}
    BY <2>b, <2>c, <2>e, Zenon
  <2>3. Chosen(s) \in s /\ f[s] = w[Chosen(s)] + f[s \ {Chosen(s)}]
    BY <2>2, <2>c, SumStep
  <2> DEFINE x == Chosen(s)
  <2>4. f[s \ {x}] \in Nat /\ w[x] \in Nat
    BY <2>c, <2>3
  <2> QED BY <2>c, <2>3, <2>4
<1> DEFINE B == {s \in SUBSET T : \E x \in s : f[s] # w[x] + f[s \ {x}]}
<1> SUFFICES ASSUME B # {} PROVE FALSE
  BY <1>1
<1>a. B \in SUBSET SUBSET T
  OBVIOUS
<1> HIDE DEF B
<1>2. PICK s \in B : \A u \in B : u \subseteq s => u = s
  BY <1>a, LeastSubset
<1> USE DEF B
<1>3. PICK x \in s : f[s] # w[x] + f[s \ {x}]
  BY <1>2
<1>c. s \in SUBSET T /\ \A u \in SUBSET T : u \subseteq s /\ u # s =>
                          \A z \in u : f[u] = w[z] + f[u \ {z}]
  BY <1>2
<1> HIDE DEF B
<1> DEFINE y == Chosen(s)
<1>4. y \in s /\ f[s] = w[y] + f[s \ {y}]
  BY <1>3, <1>c, SumStep
<1> HIDE DEF y
<1>5. x \in s /\ x # y /\ y \in s \ {x} /\ x \in s \ {y}
  BY <1>3, <1>4
<1>b. ASSUME NEW z \in s PROVE \A u \in s \ {z} : f[s \ {z}] = w[u] + f[(s \ {z}) \ {u}]
  <2>1. s \ {z} \in SUBSET T /\ s \ {z} \subseteq s /\ s \ {z} # s
    BY <1>c
  <2> QED BY <1>c, <2>1
<1>6. f[s \ {y}] = w[x] + f[(s \ {y}) \ {x}]
  BY <1>b, <1>4, <1>5
<1>7. f[s \ {x}] = w[y] + f[(s \ {x}) \ {y}]
  BY <1>b, <1>5
<1>8. (s \ {y}) \ {x} = (s \ {x}) \ {y} /\ (s \ {x}) \ {y} \in SUBSET T
  <2>1. (s \ {x}) \ {y} \in SUBSET T
    BY <1>c
  <2> QED BY <2>1
<1>9. w[x] \in Nat /\ w[y] \in Nat /\ f[(s \ {x}) \ {y}] \in Nat
  <2>1. x \in T /\ y \in T
    BY <1>c, <1>4, <1>5
  <2> QED BY <1>1, <1>8, <2>1
<1> QED BY <1>3, <1>4, <1>6, <1>7, <1>8, <1>9

LEMMA SumMonotone ==
  ASSUME NEW f, NEW w, NEW T, IsFiniteSet(T), SumsBy(f, w, T),
         \A x \in T : w[x] \in Nat, NEW S \in SUBSET T
  PROVE  f[S] <= f[T]
<1> DEFINE B == {s \in SUBSET T : S \subseteq s /\ ~ f[S] <= f[s]}
<1> SUFFICES ASSUME B # {} PROVE FALSE
  OBVIOUS
<1>a. B \in SUBSET SUBSET T
  OBVIOUS
<1> HIDE DEF B
<1>1. PICK s \in B : \A u \in B : u \subseteq s => u = s
  BY <1>a, LeastSubset
<1> USE DEF B
<1>2. \A u \in SUBSET T : f[u] \in Nat
  BY SumAny
<1>3. PICK x \in s : x \notin S
  BY <1>1, <1>2
<1>4. f[s] = w[x] + f[s \ {x}] /\ w[x] \in Nat
  BY <1>1, SumAny
<1>5. f[S] <= f[s \ {x}]
  BY <1>1, <1>3
<1>6. f[S] \in Nat /\ f[s] \in Nat /\ f[s \ {x}] \in Nat
  BY <1>1, <1>2
<1> QED BY <1>1, <1>4, <1>5, <1>6

\* Smaller weights have a smaller sum, and the sum of ones counts.
LEMMA SumLess ==
  ASSUME NEW f, NEW v, NEW T, IsFiniteSet(T), SumsBy(f, v, T),
         NEW g, NEW w, NEW U, SumsBy(g, w, U), T \subseteq U, IsFiniteSet(U),
         \A x \in T : v[x] \in Nat /\ v[x] <= w[x], \A x \in U : w[x] \in Nat
  PROVE  f[T] \in Nat /\ g[U] \in Nat /\ f[T] <= g[U]
<1> DEFINE B == {s \in SUBSET T : ~ f[s] <= g[s]}
<1>1. \A s \in SUBSET T : f[s] \in Nat
  BY SumAny
<1>2. \A s \in SUBSET U : g[s] \in Nat
  BY SumAny
<1>3. B = {}
  <2> SUFFICES ASSUME B # {} PROVE FALSE
    OBVIOUS
  <2>a. B \in SUBSET SUBSET T
    OBVIOUS
  <2> HIDE DEF B
  <2>1. PICK s \in B : \A u \in B : u \subseteq s => u = s
    BY <2>a, LeastSubset
  <2> USE DEF B
  <2>2. s \in SUBSET T /\ s \in SUBSET U /\ ~ f[s] <= g[s]
    BY <2>1
  <2>3. s # {}
    <3>1. f[{}] = 0 /\ g[{}] = 0
      BY SumEmpty
    <3>2. 0 <= 0
      OBVIOUS
    <3> QED BY <2>2, <3>1, <3>2, Zenon
  <2>4. PICK x : x \in s
    BY <2>3
  <2>5. f[s] = v[x] + f[s \ {x}]
    BY <2>2, <2>4, SumAny
  <2>6. g[s] = w[x] + g[s \ {x}]
    BY <2>2, <2>4, SumAny
  <2>7. s \ {x} \in SUBSET T /\ s \ {x} \in SUBSET U
    BY <2>2
  <2>8. f[s \ {x}] <= g[s \ {x}]
    BY <2>1, <2>4, <2>7
  <2>9. /\ f[s \ {x}] \in Nat /\ g[s \ {x}] \in Nat /\ v[x] \in Nat /\ w[x] \in Nat
        /\ v[x] <= w[x]
    BY <1>1, <1>2, <2>2, <2>4, <2>7
  <2> QED BY <2>2, <2>5, <2>6, <2>8, <2>9
<1>4. f[T] <= g[T]
  BY <1>3
<1>5. g[T] <= g[U]
  BY SumMonotone
<1> QED BY <1>1, <1>2, <1>4, <1>5

LEMMA SumOnes ==
  ASSUME NEW f, NEW w, NEW T, IsFiniteSet(T), SumsBy(f, w, T), \A x \in T : w[x] = 1
  PROVE  f[T] = Cardinality(T)
<1> DEFINE B == {s \in SUBSET T : f[s] # Cardinality(s)}
<1> SUFFICES ASSUME B # {} PROVE FALSE
  OBVIOUS
<1>a. B \in SUBSET SUBSET T
  OBVIOUS
<1> HIDE DEF B
<1>1. PICK s \in B : \A u \in B : u \subseteq s => u = s
  BY <1>a, LeastSubset
<1> USE DEF B
<1>2. s \in SUBSET T /\ f[s] # Cardinality(s)
  BY <1>1
<1>3. s # {}
  <2>1. f[{}] = 0 /\ Cardinality({}) = 0
    BY SumEmpty, FS_EmptySet
  <2> QED BY <1>2, <2>1, Zenon
<1>4. PICK x : x \in s
  BY <1>3
<1>5. IsFiniteSet(s)
  BY <1>2, FS_Subset
<1>6. f[s] = w[x] + f[s \ {x}] /\ w[x] = 1
  <2>1. \A y \in T : w[y] \in Nat
    OBVIOUS
  <2> QED BY <1>2, <1>4, <2>1, SumAny
<1>7. f[s \ {x}] = Cardinality(s \ {x})
  <2>1. s \ {x} \in SUBSET T
    BY <1>2
  <2> QED BY <1>1, <1>4, <2>1
<1>8. Cardinality(s \ {x}) = Cardinality(s) - 1 /\ Cardinality(s) \in Nat
  BY <1>4, <1>5, FS_RemoveElement, FS_CardinalityType
<1> QED BY <1>2, <1>6, <1>7, <1>8

-----------------------------------------------------------------------------
\* The same of Bytes.
Weights(pg, S) == [i \in S |-> Size[pg.slots[i].val]]

LEMMA BytesIsSum ==
  ASSUME NEW pg, NEW S, IsFiniteSet(S)
  PROVE  \E g : SumsBy(g, Weights(pg, S), S) /\ Bytes(pg, S) = g[S]
<1> DEFINE Summed(g) == [s \in SUBSET S |-> IF s = {} THEN 0
                          ELSE LET x == CHOOSE x \in s : TRUE
                               IN Size[pg.slots[x].val] + g[s \ {x}]]
<1>1. PICK f : SumsBy(f, Weights(pg, S), S)
  BY SumExists
<1>2. ASSUME NEW g PROVE (g = Summed(g)) <=> SumsBy(g, Weights(pg, S), S)
  <2>1. \A s \in SUBSET S : s # {} => Chosen(s) \in S
    BY DEF Chosen
  <2>2. Summed(g) = [s \in SUBSET S |-> IF s = {} THEN 0
                       ELSE Weights(pg, S)[Chosen(s)] + g[s \ {Chosen(s)}]]
    BY <2>1 DEF Weights, Chosen
  <2> QED BY <2>2 DEF SumsBy
<1>3. Bytes(pg, S) = (CHOOSE g : g = Summed(g))[S]
  BY DEF Bytes, MapThenSumSet, MapThenFoldSet
<1> HIDE DEF Summed
<1>4. f = Summed(f)
  BY <1>1, <1>2
<1>5. PICK h : h = (CHOOSE g : g = Summed(g)) /\ h = Summed(h)
  BY <1>4
<1> QED BY <1>2, <1>3, <1>5

Sized(pg, S) == IsFiniteSet(S) /\ \A i \in S : Size[pg.slots[i].val] \in Nat

LEMMA BytesSame ==
  ASSUME NEW pg, NEW S, IsFiniteSet(S), NEW q,
         \A i \in S : pg.slots[i].val = q.slots[i].val
  PROVE  Bytes(pg, S) = Bytes(q, S)
<1>1. PICK f : SumsBy(f, Weights(pg, S), S) /\ Bytes(pg, S) = f[S]
  BY BytesIsSum
<1>2. PICK g : SumsBy(g, Weights(q, S), S) /\ Bytes(q, S) = g[S]
  BY BytesIsSum
<1>3. \A i \in S : Weights(pg, S)[i] = Weights(q, S)[i]
  BY DEF Weights
<1> QED BY <1>1, <1>2, <1>3, SumSame

LEMMA BytesNone == ASSUME NEW pg PROVE Bytes(pg, {}) = 0
BY BytesIsSum, SumEmpty, FS_EmptySet

\* One record more, and more records.
LEMMA BytesSum ==
  ASSUME NEW pg, NEW S, Sized(pg, S)
  PROVE  /\ Bytes(pg, S) \in Nat
         /\ \A x \in S : Bytes(pg, S) = Size[pg.slots[x].val] + Bytes(pg, S \ {x})
         /\ \A s \in SUBSET S : Bytes(pg, s) \in Nat /\ Bytes(pg, s) <= Bytes(pg, S)
<1>1. PICK f : SumsBy(f, Weights(pg, S), S) /\ Bytes(pg, S) = f[S]
  BY BytesIsSum DEF Sized
<1>2. \A x \in S : Weights(pg, S)[x] = Size[pg.slots[x].val] /\ Weights(pg, S)[x] \in Nat
  BY DEF Weights, Sized
<1>3. ASSUME NEW s \in SUBSET S PROVE Bytes(pg, s) = f[s]
  <2>1. IsFiniteSet(s)
    BY FS_Subset DEF Sized
  <2>2. PICK g : SumsBy(g, Weights(pg, s), s) /\ Bytes(pg, s) = g[s]
    BY <2>1, BytesIsSum
  <2>3. \A i \in s : Weights(pg, S)[i] = Weights(pg, s)[i]
    BY DEF Weights
  <2> QED BY <1>1, <2>1, <2>2, <2>3, SumSame
<1> PICK w : w = Weights(pg, S)
  OBVIOUS
<1>a. IsFiniteSet(S) /\ SumsBy(f, w, S) /\ \A x \in S : w[x] \in Nat
  BY <1>1, <1>2 DEF Sized
<1>4. \A s \in SUBSET S : f[s] \in Nat /\ \A x \in s : f[s] = w[x] + f[s \ {x}]
  BY <1>a, SumAny
<1>5. ASSUME NEW s \in SUBSET S PROVE f[s] <= f[S]
  BY <1>a, SumMonotone
<1>6. \A x \in S : S \ {x} \in SUBSET S
  OBVIOUS
<1>7. Bytes(pg, S) \in Nat
  BY <1>1, <1>4
<1>8. ASSUME NEW x \in S PROVE Bytes(pg, S) = Size[pg.slots[x].val] + Bytes(pg, S \ {x})
  <2>1. f[S] = w[x] + f[S \ {x}] /\ w[x] = Size[pg.slots[x].val]
    BY <1>2, <1>4
  <2>2. Bytes(pg, S) = f[S] /\ Bytes(pg, S \ {x}) = f[S \ {x}]
    BY <1>1, <1>3, <1>6
  <2> QED BY <2>1, <2>2
<1>9. \A s \in SUBSET S : Bytes(pg, s) \in Nat /\ Bytes(pg, s) <= Bytes(pg, S)
  BY <1>1, <1>3, <1>4, <1>5
<1> QED BY <1>7, <1>8, <1>9

-----------------------------------------------------------------------------
\* The layout of a page.

\* A page whose records leave the room that is counted.
WellLaid(pg) ==
  /\ pg \in Page
  /\ Sound(pg)
  /\ DirectoryEnd(pg) + Bytes(pg, LiveSlots(pg)) <= PageSize
  /\ Bytes(pg, LiveSlots(pg)) <= PageSize - pg.free

LEMMA SizeType ==
  ASSUME NEW v \in Val
  PROVE  /\ Size[v] \in Nat /\ 0 < Size[v]
         /\ HeaderSize + SlotSize + Size[v] <= PageSize
         /\ HeaderSize \in Nat /\ SlotSize \in Nat /\ PageSize \in Nat /\ 0 < HeaderSize
BY SizesAssumption

LEMMA SlotType ==
  ASSUME NEW pg \in Page
  PROVE  /\ Len(pg.slots) \in Nat /\ DOMAIN pg.slots = 1 .. Len(pg.slots)
         /\ \A i \in DOMAIN pg.slots : /\ pg.slots[i].at \in 0 .. PageSize
                                       /\ pg.slots[i].val \in Val
                                       /\ pg.slots[i] = [at |-> pg.slots[i].at, val |-> pg.slots[i].val]
         /\ pg.free \in 0 .. PageSize /\ pg.free \in Int
         /\ LiveSlots(pg) \subseteq DOMAIN pg.slots
         /\ DirectoryEnd(pg) \in Nat /\ FreeSpace(pg) \in Int
<1>1. pg.slots \in Seq([at : 0 .. PageSize, val : Val]) /\ pg.free \in 0 .. PageSize
  BY DEF Page
<1>2. /\ Len(pg.slots) \in Nat /\ DOMAIN pg.slots = 1 .. Len(pg.slots)
      /\ \A i \in DOMAIN pg.slots : pg.slots[i] \in [at : 0 .. PageSize, val : Val]
  <2> DEFINE S == [at : 0 .. PageSize, val : Val]
             q == pg.slots
  <2>1. q \in Seq(S)
    BY <1>1
  <2> HIDE DEF S, q
  <2>2. Len(q) \in Nat /\ DOMAIN q = 1 .. Len(q) /\ \A i \in DOMAIN q : q[i] \in S
    BY <2>1, ElementOfSeq
  <2> QED BY <2>2 DEF S, q
<1>3. PageSize \in Nat /\ HeaderSize \in Nat /\ SlotSize \in Nat
  BY SizesAssumption
<1>4. pg.free \in Int
  BY <1>1, <1>3
<1>5. Len(pg.slots) * SlotSize \in Nat
  BY <1>2, <1>3
<1>6. DirectoryEnd(pg) \in Nat /\ FreeSpace(pg) \in Int
  BY <1>3, <1>4, <1>5 DEF DirectoryEnd, FreeSpace
<1> QED BY <1>1, <1>2, <1>4, <1>6 DEF LiveSlots

\* A slot more makes the directory longer by that much.
LEMMA DirectoryGrows ==
  ASSUME NEW pg \in Page
  PROVE  /\ HeaderSize <= DirectoryEnd(pg)
         /\ \A q \in Page : /\ Len(q.slots) = Len(pg.slots) + 1
                              => DirectoryEnd(q) = DirectoryEnd(pg) + SlotSize
                            /\ Len(q.slots) = Len(pg.slots)
                              => DirectoryEnd(q) = DirectoryEnd(pg)
<1>1. /\ Len(pg.slots) \in Nat /\ \A q \in Page : Len(q.slots) \in Nat
      /\ HeaderSize \in Nat /\ SlotSize \in Nat
  BY SlotType, SizesAssumption
<1>2. \A n, m \in Nat : n * m \in Nat /\ (n + 1) * m = n * m + m
  OBVIOUS
<1>3. /\ Len(pg.slots) * SlotSize \in Nat
      /\ (Len(pg.slots) + 1) * SlotSize = Len(pg.slots) * SlotSize + SlotSize
  BY <1>1, <1>2
<1> QED BY <1>1, <1>3 DEF DirectoryEnd

LEMMA SlotsSized ==
  ASSUME NEW pg \in Page, NEW S \in SUBSET DOMAIN pg.slots
  PROVE  Sized(pg, S)
<1>1. IsFiniteSet(DOMAIN pg.slots)
  BY SlotType, FS_Interval
<1>2. IsFiniteSet(S)
  BY <1>1, FS_Subset
<1>3. \A i \in S : Size[pg.slots[i].val] \in Nat
  BY SlotType, SizeType
<1> QED BY <1>2, <1>3 DEF Sized

LEMMA LiveBytes ==
  ASSUME NEW pg \in Page
  PROVE  Bytes(pg, LiveSlots(pg)) \in Nat /\ Reclaimable(pg) \in Int
<1>1. Bytes(pg, LiveSlots(pg)) \in Nat
  BY SlotType, SlotsSized, BytesSum
<1> QED BY <1>1, SlotType, SizesAssumption DEF Reclaimable

\* A new page, and the page of zeros a file grows by.
LEMMA FirstPages ==
  /\ WellLaid(NewPage) /\ WellLaid(ZeroPage)
  /\ LiveSlots(NewPage) = {} /\ LiveSlots(ZeroPage) = {}
  /\ Len(NewPage.slots) = 0 /\ Len(ZeroPage.slots) = 0
  /\ DOMAIN NewPage.slots = {} /\ DOMAIN ZeroPage.slots = {}
  /\ \A v \in Val : Fits(NewPage, v)
<1>1. /\ NewPage.slots = <<>> /\ NewPage.free = PageSize
      /\ ZeroPage.slots = <<>> /\ ZeroPage.free = 0
  BY DEF NewPage, ZeroPage
<1>2. LiveSlots(NewPage) = {} /\ LiveSlots(ZeroPage) = {}
  BY <1>1 DEF LiveSlots
<1>3. Bytes(NewPage, {}) = 0 /\ Bytes(ZeroPage, {}) = 0
  BY BytesNone
<1>4. PICK x \in Val : TRUE
  BY SizesAssumption
<1>5. PageSize \in Nat /\ HeaderSize \in Nat /\ HeaderSize <= PageSize
  BY <1>4, SizeType
<1>6. NewPage \in Page /\ ZeroPage \in Page
  BY <1>5 DEF NewPage, ZeroPage, Page
<1>7. DirectoryEnd(NewPage) = HeaderSize /\ DirectoryEnd(ZeroPage) = HeaderSize
  <2>1. Len(NewPage.slots) * SlotSize = 0 /\ Len(ZeroPage.slots) * SlotSize = 0
    <3>1. Len(NewPage.slots) = 0 /\ Len(ZeroPage.slots) = 0 /\ SlotSize \in Nat
      BY <1>1, SizesAssumption
    <3> QED BY <3>1
  <2> QED BY <1>5, <2>1 DEF DirectoryEnd
<1>8. Sound(NewPage) /\ Sound(ZeroPage)
  BY <1>1, <1>2, <1>5, <1>7 DEF Sound
<1>9. \A v \in Val : Fits(NewPage, v)
  BY <1>1, <1>7, SizeType DEF Fits, FreeSpace
<1>10. WellLaid(NewPage) /\ WellLaid(ZeroPage)
  BY <1>1, <1>2, <1>3, <1>5, <1>6, <1>7, <1>8 DEF WellLaid
<1> QED BY <1>1, <1>2, <1>9, <1>10

\* A record is stored where there is room for it and a slot.
LEMMA StoreRecord ==
  ASSUME NEW pg, WellLaid(pg), NEW v \in Val, Fits(pg, v)
  PROVE  /\ WellLaid(WithRecord(pg, v))
         /\ DOMAIN WithRecord(pg, v).slots = DOMAIN pg.slots \cup {Len(pg.slots) + 1}
         /\ Len(pg.slots) + 1 \notin DOMAIN pg.slots
         /\ LiveSlots(WithRecord(pg, v)) = LiveSlots(pg) \cup {Len(pg.slots) + 1}
         /\ WithRecord(pg, v).slots[Len(pg.slots) + 1].val = v
         /\ \A i \in DOMAIN pg.slots : WithRecord(pg, v).slots[i] = pg.slots[i]
         /\ FreeSpace(WithRecord(pg, v)) + Reclaimable(WithRecord(pg, v))
              = FreeSpace(pg) + Reclaimable(pg) - Size[v] - SlotSize
<1> DEFINE new  == WithRecord(pg, v)
           n    == Len(pg.slots)
           s    == [at |-> pg.free - Size[v], val |-> v]
           live == LiveSlots(pg)
<1>1. /\ pg \in Page /\ Sound(pg) /\ DirectoryEnd(pg) + Bytes(pg, live) <= PageSize
      /\ Bytes(pg, live) <= PageSize - pg.free
  BY DEF WellLaid
<1>2. /\ n \in Nat /\ DOMAIN pg.slots = 1 .. n /\ pg.free \in 0 .. PageSize /\ pg.free \in Int
      /\ DirectoryEnd(pg) \in Nat /\ FreeSpace(pg) \in Int /\ live \subseteq 1 .. n
      /\ \A i \in 1 .. n : pg.slots[i].at \in 0 .. PageSize /\ pg.slots[i].val \in Val
      /\ pg.slots \in Seq([at : 0 .. PageSize, val : Val])
  BY <1>1, SlotType DEF Page
<1>3. /\ Size[v] \in Nat /\ 0 < Size[v] /\ HeaderSize \in Nat /\ SlotSize \in Nat
      /\ PageSize \in Nat /\ 0 < HeaderSize
  BY SizeType
<1>4. /\ Size[v] + SlotSize <= pg.free - DirectoryEnd(pg)
      /\ HeaderSize <= DirectoryEnd(pg)
  BY <1>1, <1>2, <1>3, DirectoryGrows DEF Fits, FreeSpace
<1>5. new.slots = Append(pg.slots, s) /\ new.free = pg.free - Size[v]
  BY DEF WithRecord
<1>6. new.free \in 0 .. PageSize /\ DirectoryEnd(pg) + SlotSize <= new.free
  BY <1>2, <1>3, <1>4, <1>5
<1>7. s \in [at : 0 .. PageSize, val : Val] /\ s.at # 0 /\ s.val = v /\ s.at = new.free
  BY <1>2, <1>3, <1>4, <1>5, <1>6
<1>n. /\ pg.free \in Int /\ new.free = pg.free - Size[v] /\ new.free \in Int
      /\ DirectoryEnd(pg) \in Nat
  BY <1>2, <1>5, <1>6
<1> HIDE DEF s
<1>8. /\ Len(new.slots) = n + 1 /\ DOMAIN new.slots = 1 .. (n + 1) /\ new.slots[n + 1] = s
      /\ \A i \in 1 .. n : new.slots[i] = pg.slots[i]
      /\ new.slots \in Seq([at : 0 .. PageSize, val : Val])
  BY <1>2, <1>5, <1>7
<1>9. new \in Page
  BY <1>6, <1>8 DEF WithRecord, Page
<1>10. LiveSlots(new) = live \cup {n + 1} /\ n + 1 \notin live
  <2>1. n + 1 \notin 1 .. n /\ 1 .. (n + 1) = (1 .. n) \cup {n + 1}
    BY <1>2
  <2>2. \A i \in 1 .. n : new.slots[i].at # 0 <=> i \in live
    BY <1>2, <1>8 DEF LiveSlots
  <2>3. new.slots[n + 1].at # 0
    BY <1>7, <1>8
  <2>4. \A i : i \in LiveSlots(new) <=> i \in 1 .. (n + 1) /\ new.slots[i].at # 0
    BY <1>8 DEF LiveSlots
  <2> QED BY <1>2, <2>1, <2>2, <2>3, <2>4
<1>11. Bytes(new, live \cup {n + 1}) = Size[v] + Bytes(pg, live) /\ Bytes(pg, live) \in Nat
  <2>1. Sized(new, live \cup {n + 1})
    BY <1>9, <1>10, SlotType, SlotsSized
  <2>2. Bytes(new, live \cup {n + 1}) = Size[v] + Bytes(new, (live \cup {n + 1}) \ {n + 1})
    <3>1. n + 1 \in live \cup {n + 1} /\ new.slots[n + 1].val = v
      BY <1>7, <1>8
    <3> QED BY <2>1, <3>1, BytesSum
  <2>3. (live \cup {n + 1}) \ {n + 1} = live
    BY <1>10
  <2>4. Bytes(new, live) = Bytes(pg, live)
    BY <1>1, <1>2, <1>8, SlotsSized, BytesSame DEF Sized
  <2> QED BY <1>1, <2>2, <2>3, <2>4, LiveBytes
<1>12. DirectoryEnd(new) = DirectoryEnd(pg) + SlotSize
  BY <1>1, <1>8, <1>9, DirectoryGrows
<1>13. DirectoryEnd(new) <= new.free
  BY <1>2, <1>3, <1>4, <1>5, <1>12
<1>14. DirectoryEnd(pg) <= pg.free
  BY <1>2, <1>3, <1>4
<1> DEFINE old(i) == pg.slots[i]
<1>15. \A i \in live : Extent(new, i) = Extent(pg, i) /\ Extent(pg, i) \subseteq pg.free .. PageSize - 1
  BY <1>1, <1>2, <1>8 DEF Sound, Extent
<1>16. Extent(new, n + 1) = new.free .. pg.free - 1
  BY <1>2, <1>3, <1>5, <1>7, <1>8 DEF Extent
<1>17. \A i \in live : Extent(new, i) \cap Extent(new, n + 1) = {}
  <2>1. \A k : k \in pg.free .. PageSize - 1 => k \notin new.free .. pg.free - 1
    BY <1>2, <1>3, <1>6
  <2> QED BY <1>15, <1>16, <2>1
<1>18. \A i \in live : Extent(new, i) \subseteq new.free .. PageSize - 1
  <2>1. pg.free .. PageSize - 1 \subseteq new.free .. PageSize - 1
    <3>1. PICK a, b, c \in Int : a = new.free /\ b = pg.free /\ c = PageSize - 1 /\ a <= b
      BY <1>2, <1>3, <1>5, <1>6
    <3>2. b .. c \subseteq a .. c
      BY <3>1
    <3> QED BY <3>1, <3>2
  <2> QED BY <1>15, <2>1
<1>19. Extent(new, n + 1) \subseteq new.free .. PageSize - 1
  <2>1. PICK a, b, c \in Int : a = new.free /\ b = pg.free - 1 /\ c = PageSize - 1 /\ b <= c
    BY <1>2, <1>3, <1>6
  <2>2. a .. b \subseteq a .. c
    BY <2>1
  <2> QED BY <1>16, <2>1, <2>2
<1>20. \A i, j \in live : i # j => Extent(new, i) \cap Extent(new, j) = {}
  BY <1>1, <1>15 DEF Sound
<1>21. Sound(new)
  <2>1. \A i \in LiveSlots(new) : Extent(new, i) \subseteq new.free .. PageSize - 1
    BY <1>10, <1>18, <1>19
  <2>2. \A i \in LiveSlots(new) : \A j \in LiveSlots(new) \ {i} :
          Extent(new, i) \cap Extent(new, j) = {}
    BY <1>10, <1>17, <1>20
  <2> QED BY <1>13, <2>1, <2>2 DEF Sound
<1>22. Bytes(new, LiveSlots(new)) = Size[v] + Bytes(pg, live)
  BY <1>10, <1>11
<1> DEFINE d == DirectoryEnd(pg)
           e == DirectoryEnd(new)
           b == Bytes(pg, live)
           c == Bytes(new, LiveSlots(new))
           f == pg.free
           g == new.free
           z == Size[v]
<1>23. /\ d \in Nat /\ b \in Nat /\ f \in Int /\ z \in Nat /\ PageSize \in Nat /\ SlotSize \in Nat
       /\ g = f - z /\ c = z + b /\ e = d + SlotSize
       /\ z + SlotSize <= f - d /\ d + b <= PageSize /\ b <= PageSize - f
  BY <1>1, <1>3, <1>4, <1>11, <1>12, <1>22, <1>n
<1>24. WellLaid(new)
  <2> SUFFICES e + c <= PageSize /\ c <= PageSize - g
    BY <1>9, <1>21 DEF WellLaid
  <2> HIDE DEF d, e, b, c, f, g, z
  <2> QED BY <1>23
<1>25. FreeSpace(new) + Reclaimable(new) = FreeSpace(pg) + Reclaimable(pg) - Size[v] - SlotSize
  <2>1. /\ FreeSpace(new) = g - e /\ Reclaimable(new) = PageSize - g - c
        /\ FreeSpace(pg) = f - d /\ Reclaimable(pg) = PageSize - f - b
    BY DEF FreeSpace, Reclaimable
  <2> SUFFICES FreeSpace(new) + Reclaimable(new) = FreeSpace(pg) + Reclaimable(pg) - z - SlotSize
    OBVIOUS
  <2> HIDE DEF d, e, b, c, f, g, z
  <2> QED BY <1>23, <2>1
<1>26. DOMAIN new.slots = DOMAIN pg.slots \cup {n + 1} /\ n + 1 \notin DOMAIN pg.slots
  BY <1>2, <1>8
<1>27. new.slots[n + 1].val = v /\ \A i \in DOMAIN pg.slots : new.slots[i] = pg.slots[i]
  BY <1>2, <1>7, <1>8
<1> QED BY <1>10, <1>24, <1>25, <1>26, <1>27

LEMMA WithoutRecordIs ==
  ASSUME NEW pg \in Page, NEW i
  PROVE  WithoutRecord(pg, i) = [slots |-> [pg.slots EXCEPT ![i] = Tombstone], free |-> pg.free]
<1> DEFINE S == Seq([at : 0 .. PageSize, val : Val])
<1>1. pg \in [slots : S, free : 0 .. PageSize]
  BY DEF Page
<1> HIDE DEF S
<1> QED BY <1>1 DEF WithoutRecord

\* A record is removed: its slot stays, without it.
LEMMA RemoveRecord ==
  ASSUME NEW pg, WellLaid(pg), NEW i \in LiveSlots(pg)
  PROVE  /\ WellLaid(WithoutRecord(pg, i))
         /\ DOMAIN WithoutRecord(pg, i).slots = DOMAIN pg.slots
         /\ LiveSlots(WithoutRecord(pg, i)) = LiveSlots(pg) \ {i}
         /\ \A j \in DOMAIN pg.slots \ {i} : WithoutRecord(pg, i).slots[j] = pg.slots[j]
<1> DEFINE new  == WithoutRecord(pg, i)
           n    == Len(pg.slots)
           live == LiveSlots(pg)
<1>1. /\ pg \in Page /\ Sound(pg) /\ DirectoryEnd(pg) + Bytes(pg, live) <= PageSize
      /\ Bytes(pg, live) <= PageSize - pg.free
  BY DEF WellLaid
<1>2. /\ n \in Nat /\ DOMAIN pg.slots = 1 .. n /\ pg.free \in 0 .. PageSize
      /\ live \subseteq 1 .. n /\ i \in 1 .. n
      /\ \A j \in 1 .. n : pg.slots[j].at \in 0 .. PageSize /\ pg.slots[j].val \in Val
      /\ pg.slots \in Seq([at : 0 .. PageSize, val : Val])
  BY <1>1, SlotType DEF Page
<1>3. PageSize \in Nat /\ HeaderSize \in Nat /\ SlotSize \in Nat
  BY SizesAssumption
<1>4. Tombstone \in [at : 0 .. PageSize, val : Val] /\ Tombstone.at = 0
  BY <1>2, <1>3 DEF Tombstone
<1>5. new.slots = [pg.slots EXCEPT ![i] = Tombstone] /\ new.free = pg.free
  BY <1>1 DEF WithoutRecord, Page
<1>6. /\ new.slots \in Seq([at : 0 .. PageSize, val : Val]) /\ DOMAIN new.slots = 1 .. n
      /\ Len(new.slots) = n /\ new.slots[i] = Tombstone
      /\ \A j \in 1 .. n \ {i} : new.slots[j] = pg.slots[j]
  BY <1>2, <1>4, <1>5, ExceptSeq
<1>7. new \in Page
  <2>1. new = [slots |-> new.slots, free |-> new.free]
    BY <1>1, <1>5, WithoutRecordIs
  <2> HIDE DEF new
  <2> QED BY <1>2, <1>5, <1>6, <2>1 DEF Page
<1>8. LiveSlots(new) = live \ {i}
  <2>1. \A j : j \in LiveSlots(new) <=> j \in 1 .. n /\ new.slots[j].at # 0
    BY <1>6 DEF LiveSlots
  <2>2. \A j : j \in live <=> j \in 1 .. n /\ pg.slots[j].at # 0
    BY <1>2 DEF LiveSlots
  <2> QED BY <1>4, <1>6, <2>1, <2>2
<1>9. Bytes(new, LiveSlots(new)) <= Bytes(pg, live) /\ Bytes(new, LiveSlots(new)) \in Nat
      /\ Bytes(pg, live) \in Nat
  <2>1. Sized(pg, live) /\ live \ {i} \in SUBSET live
    BY <1>1, <1>2, SlotsSized
  <2>2. Bytes(pg, live \ {i}) \in Nat /\ Bytes(pg, live \ {i}) <= Bytes(pg, live)
        /\ Bytes(pg, live) \in Nat
    BY <2>1, BytesSum
  <2>3. IsFiniteSet(live \ {i})
    BY <2>1, FS_Subset DEF Sized
  <2>4. \A j \in live \ {i} : new.slots[j].val = pg.slots[j].val
    BY <1>2, <1>6
  <2>5. Bytes(new, live \ {i}) = Bytes(pg, live \ {i})
    BY <2>3, <2>4, BytesSame
  <2> QED BY <1>8, <2>2, <2>5
<1>10. DirectoryEnd(new) = DirectoryEnd(pg) /\ DirectoryEnd(pg) \in Nat
  BY <1>1, <1>6, <1>7, DirectoryGrows, SlotType
<1>11. pg # ZeroPage
  BY <1>2 DEF ZeroPage
<1>12. \A j \in live \ {i} : Extent(new, j) = Extent(pg, j)
  BY <1>2, <1>6 DEF Extent
<1>13. Sound(new)
  <2>1. DirectoryEnd(new) <= new.free
    BY <1>1, <1>5, <1>10, <1>11 DEF Sound
  <2>2. \A j \in LiveSlots(new) : Extent(new, j) \subseteq new.free .. PageSize - 1
    BY <1>1, <1>5, <1>8, <1>12 DEF Sound
  <2>3. \A j \in LiveSlots(new) : \A k \in LiveSlots(new) \ {j} :
          Extent(new, j) \cap Extent(new, k) = {}
    BY <1>1, <1>8, <1>12 DEF Sound
  <2> QED BY <2>1, <2>2, <2>3 DEF Sound
<1> DEFINE b == Bytes(pg, live)
           c == Bytes(new, LiveSlots(new))
           d == DirectoryEnd(pg)
           f == pg.free
<1>14. /\ b \in Nat /\ c \in Nat /\ c <= b /\ d \in Nat /\ f \in Int /\ PageSize \in Nat
       /\ d + b <= PageSize /\ b <= PageSize - f
  BY <1>1, <1>2, <1>3, <1>9, <1>10
<1>15. WellLaid(new)
  <2> SUFFICES d + c <= PageSize /\ c <= PageSize - f
    BY <1>5, <1>7, <1>10, <1>13 DEF WellLaid
  <2> HIDE DEF b, c, d, f
  <2> QED BY <1>14
<1> QED BY <1>2, <1>6, <1>8, <1>15

\* Compaction: every live record is moved, none is lost, and the room they had
\* left between them becomes free space.
LEMMA CompactPage ==
  ASSUME NEW pg, WellLaid(pg)
  PROVE  /\ WellLaid(Compacted(pg))
         /\ DOMAIN Compacted(pg).slots = DOMAIN pg.slots
         /\ LiveSlots(Compacted(pg)) = LiveSlots(pg)
         /\ \A i \in DOMAIN pg.slots : Compacted(pg).slots[i].val = pg.slots[i].val
         /\ FreeSpace(Compacted(pg)) = FreeSpace(pg) + Reclaimable(pg)
         /\ Reclaimable(Compacted(pg)) = 0
<1> DEFINE new  == Compacted(pg)
           n    == Len(pg.slots)
           live == LiveSlots(pg)
           Above(i) == {j \in live : pg.slots[j].at >= pg.slots[i].at}
           b    == Bytes(pg, live)
           size(i) == Size[pg.slots[i].val]
<1>1. pg \in Page /\ Sound(pg) /\ DirectoryEnd(pg) + b <= PageSize /\ b <= PageSize - pg.free
  BY DEF WellLaid
<1>2. /\ n \in Nat /\ DOMAIN pg.slots = 1 .. n /\ pg.free \in 0 .. PageSize
      /\ live \subseteq 1 .. n
      /\ \A j \in 1 .. n : /\ pg.slots[j].at \in 0 .. PageSize /\ pg.slots[j].val \in Val
                           /\ pg.slots[j] = [at |-> pg.slots[j].at, val |-> pg.slots[j].val]
  BY <1>1, SlotType
<1>3. PageSize \in Nat /\ HeaderSize \in Nat /\ SlotSize \in Nat /\ 0 < HeaderSize
  BY SizesAssumption
<1>4. \A j \in live : size(j) \in Nat /\ 0 < size(j)
  BY <1>2, SizeType
<1>5. b \in Nat
  BY <1>1, LiveBytes
<1>a. \A j \in live : pg.slots[j].at \in Int
  <2>1. \A x \in 0 .. PageSize : x \in Int
    BY <1>3
  <2>2. \A j \in live : pg.slots[j].at \in 0 .. PageSize
    BY <1>2
  <2> QED BY <2>1, <2>2
<1>6. new.free = PageSize - b /\ new.free \in 0 .. PageSize
  BY <1>1, <1>3, <1>5, SlotType DEF Compacted
\* The place a live record moves to.
<1> DEFINE to(i) == PageSize - Bytes(pg, Above(i))
<1>7. ASSUME NEW i \in live
      PROVE  /\ Bytes(pg, Above(i)) \in Nat /\ Bytes(pg, Above(i)) <= b
             /\ size(i) <= Bytes(pg, Above(i))
  <2>1. Sized(pg, live) /\ Above(i) \in SUBSET live
    BY <1>1, <1>2, SlotsSized
  <2>2. Bytes(pg, Above(i)) \in Nat /\ Bytes(pg, Above(i)) <= b
    BY <2>1, BytesSum
  <2>3. Sized(pg, Above(i)) /\ i \in Above(i)
    <3>1. i \in Above(i)
      BY <1>a
    <3>2. Above(i) \in SUBSET DOMAIN pg.slots
      BY <1>2
    <3> QED BY <1>1, <3>1, <3>2, SlotsSized
  <2>4. /\ Bytes(pg, Above(i)) = size(i) + Bytes(pg, Above(i) \ {i})
        /\ Bytes(pg, Above(i) \ {i}) \in Nat
    BY <2>3, BytesSum
  <2> QED BY <1>4, <2>2, <2>4
<1>8. ASSUME NEW i \in live, NEW j \in live, pg.slots[i].at > pg.slots[j].at
      PROVE  size(j) + Bytes(pg, Above(i)) <= Bytes(pg, Above(j))
  <2>1. Sized(pg, Above(j)) /\ j \in Above(j) /\ Above(i) \in SUBSET (Above(j) \ {j})
    <3>1. j \in Above(j) /\ j \notin Above(i)
      BY <1>a, <1>8
    <3>2. \A k \in Above(i) : k \in Above(j)
      BY <1>a, <1>8
    <3>3. Above(j) \in SUBSET DOMAIN pg.slots
      BY <1>2
    <3> QED BY <1>1, <3>1, <3>2, <3>3, SlotsSized
  <2>2. Bytes(pg, Above(j)) = size(j) + Bytes(pg, Above(j) \ {j})
    BY <2>1, BytesSum
  <2>3. Sized(pg, Above(j) \ {j})
    BY <1>1, <1>2, SlotsSized
  <2>4. /\ Bytes(pg, Above(i)) \in Nat /\ Bytes(pg, Above(j) \ {j}) \in Nat
        /\ Bytes(pg, Above(i)) <= Bytes(pg, Above(j) \ {j})
    BY <2>1, <2>3, BytesSum
  <2> QED BY <1>4, <2>2, <2>4
<1>9. DirectoryEnd(pg) <= PageSize - b /\ HeaderSize <= DirectoryEnd(pg) /\ DirectoryEnd(pg) \in Nat
  <2>1. DirectoryEnd(pg) \in Nat /\ HeaderSize <= DirectoryEnd(pg)
    BY <1>1, SlotType, DirectoryGrows
  <2> HIDE DEF b
  <2> QED BY <1>1, <1>3, <1>5, <2>1
<1>10. \A i \in live : to(i) \in 0 .. PageSize /\ to(i) # 0 /\ PageSize - b <= to(i)
  BY <1>3, <1>5, <1>7, <1>9
<1>11. /\ DOMAIN new.slots = 1 .. n
       /\ \A i \in 1 .. n : i \notin live => new.slots[i] = pg.slots[i]
       /\ \A i \in live : new.slots[i] = [at |-> to(i), val |-> pg.slots[i].val]
  <2>1. new.slots = [i \in DOMAIN pg.slots |->
                       IF i \notin live THEN pg.slots[i]
                       ELSE [pg.slots[i] EXCEPT !.at = to(i)]]
    BY DEF Compacted
  <2> HIDE DEF new, to, live
  <2>2. \A i \in 1 .. n : i \notin live => new.slots[i] = pg.slots[i]
    BY <1>2, <2>1
  <2>3. \A i \in live : new.slots[i] = [pg.slots[i] EXCEPT !.at = to(i)]
    BY <1>2, <2>1
  <2>4. \A i \in live : [pg.slots[i] EXCEPT !.at = to(i)] = [at |-> to(i), val |-> pg.slots[i].val]
    <3> TAKE i \in live
    <3> DEFINE s == pg.slots[i]
               t == to(i)
    <3>1. s = [at |-> s.at, val |-> s.val]
      BY <1>2
    <3>2. [s EXCEPT !.at = t] = [at |-> t, val |-> s.val]
      <4> HIDE DEF s, t
      <4> QED BY <3>1
    <3> QED BY <3>2
  <2> QED BY <1>2, <2>1, <2>2, <2>3, <2>4
<1>12. /\ Len(new.slots) = n
       /\ \A i \in 1 .. n : /\ new.slots[i] \in [at : 0 .. PageSize, val : Val]
                            /\ new.slots[i].val = pg.slots[i].val
                            /\ (new.slots[i].at # 0 <=> i \in live)
       /\ \A i \in live : new.slots[i].at = to(i)
  <2>1. \A i \in 1 .. n : i \in live <=> pg.slots[i].at # 0
    BY <1>2 DEF LiveSlots
  <2> HIDE DEF new, to, live
  <2>2. Len(new.slots) = n
    BY <1>2, <1>11
  <2>3. ASSUME NEW i \in 1 .. n
        PROVE  /\ new.slots[i] \in [at : 0 .. PageSize, val : Val]
               /\ new.slots[i].val = pg.slots[i].val
               /\ (new.slots[i].at # 0 <=> i \in live)
    <3>1. CASE i \in live
      <4>1. new.slots[i] = [at |-> to(i), val |-> pg.slots[i].val] /\ pg.slots[i].val \in Val
        BY <1>2, <1>11, <3>1
      <4> QED BY <1>10, <3>1, <4>1
    <3>2. CASE i \notin live
      <4>1. new.slots[i] = pg.slots[i] /\ pg.slots[i].at = 0
        BY <1>11, <2>1, <3>2
      <4>2. pg.slots[i] = [at |-> pg.slots[i].at, val |-> pg.slots[i].val]
            /\ pg.slots[i].at \in 0 .. PageSize /\ pg.slots[i].val \in Val
        BY <1>2
      <4>3. pg.slots[i] \in [at : 0 .. PageSize, val : Val]
        BY <4>2
      <4> QED BY <3>2, <4>1, <4>3
    <3> QED BY <3>1, <3>2
  <2>4. \A i \in live : new.slots[i].at = to(i)
    <3> TAKE i \in live
    <3>1. new.slots[i] = [at |-> to(i), val |-> pg.slots[i].val]
      BY <1>11
    <3> QED BY <3>1
  <2>5. \A i \in 1 .. n : /\ new.slots[i] \in [at : 0 .. PageSize, val : Val]
                         /\ new.slots[i].val = pg.slots[i].val
                         /\ (new.slots[i].at # 0 <=> i \in live)
    BY <2>3
  <2> QED BY <2>2, <2>4, <2>5
<1>13. new \in Page
  <2>1. new = [slots |-> new.slots, free |-> new.free]
    BY DEF Compacted
  <2> HIDE DEF new
  <2>2. new.slots \in Seq([at : 0 .. PageSize, val : Val])
    <3> DEFINE S == [at : 0 .. PageSize, val : Val]
               q == new.slots
    <3>1. q \in [1 .. n -> S]
      <4>1. q = [i \in 1 .. n |-> q[i]]
        <5>1. \E e : q = [i \in DOMAIN pg.slots |-> e[i]]
          <6> DEFINE e == [i \in DOMAIN pg.slots |->
                             IF i \notin live THEN pg.slots[i]
                             ELSE [pg.slots[i] EXCEPT !.at = to(i)]]
          <6>1. q = e
            BY DEF Compacted, new
          <6>2. e = [i \in DOMAIN pg.slots |-> e[i]]
            OBVIOUS
          <6>3. q = [i \in DOMAIN pg.slots |-> e[i]]
            BY <6>1, <6>2
          <6> HIDE DEF e, q
          <6> QED BY <6>3
        <5> HIDE DEF q
        <5> QED BY <1>2, <5>1
      <4>2. \A i \in 1 .. n : q[i] \in S
        BY <1>12
      <4> HIDE DEF q, S, n
      <4> QED BY <4>1, <4>2
    <3> HIDE DEF q, S, n
    <3>2. n \in Nat
      BY <1>2
    <3>3. q \in Seq(S)
      BY <3>1, <3>2, SeqDef
    <3> QED BY <3>3 DEF q, S
  <2> QED BY <1>6, <2>1, <2>2 DEF Page
<1>14. LiveSlots(new) = live
  BY <1>2, <1>11, <1>12 DEF LiveSlots
<1>15. Bytes(new, live) = b
  <2>1. IsFiniteSet(live) /\ \A i \in live : new.slots[i].val = pg.slots[i].val
    BY <1>1, <1>2, <1>12, SlotsSized DEF Sized
  <2> QED BY <2>1, BytesSame
<1>16. DirectoryEnd(new) = DirectoryEnd(pg)
  BY <1>1, <1>12, <1>13, DirectoryGrows
<1>17. \A i \in live : Extent(new, i) = to(i) .. to(i) + size(i) - 1
  BY <1>2, <1>12 DEF Extent
<1>18. ASSUME NEW i \in live PROVE Extent(new, i) \subseteq new.free .. PageSize - 1
  <2> DEFINE t == to(i)
             z == size(i)
             a == Bytes(pg, Above(i))
  <2>1. /\ t = PageSize - a /\ a \in Nat /\ z \in Nat /\ z <= a /\ a <= b
        /\ new.free = PageSize - b
    BY <1>4, <1>6, <1>7
  <2>2. Extent(new, i) = t .. t + z - 1
    BY <1>17
  <2> HIDE DEF t, z, a, b, new
  <2> QED BY <1>3, <1>5, <2>1, <2>2
<1>19. ASSUME NEW i \in live, NEW j \in live, pg.slots[i].at > pg.slots[j].at
       PROVE  Extent(new, i) \cap Extent(new, j) = {}
  <2> DEFINE t == to(i)
             u == to(j)
             z == size(j)
             y == size(i)
             a == Bytes(pg, Above(i))
             c == Bytes(pg, Above(j))
  <2>1. /\ t = PageSize - a /\ u = PageSize - c /\ a \in Nat /\ c \in Nat /\ z \in Nat
        /\ y \in Nat /\ z + a <= c
    BY <1>4, <1>7, <1>8, <1>19
  <2>2. Extent(new, i) = t .. t + y - 1 /\ Extent(new, j) = u .. u + z - 1
    BY <1>17
  <2> HIDE DEF t, u, z, y, a, c, new
  <2>3. \A k \in t .. t + y - 1 : k \notin u .. u + z - 1
    BY <1>3, <2>1
  <2> QED BY <2>2, <2>3
<1>20. ASSUME NEW i \in live, NEW j \in live, i # j
       PROVE  Extent(new, i) \cap Extent(new, j) = {}
  <2>1. pg.slots[i].at \in Int /\ pg.slots[j].at \in Int
    BY <1>a
  <2>2. pg.slots[i].at # pg.slots[j].at
    <3>1. Extent(pg, i) \cap Extent(pg, j) = {}
      BY <1>1, <1>20 DEF Sound
    <3>2. pg.slots[i].at \in Extent(pg, i) /\ pg.slots[j].at \in Extent(pg, j)
      BY <1>4, <2>1 DEF Extent
    <3> QED BY <3>1, <3>2
  <2>3. CASE pg.slots[i].at > pg.slots[j].at
    BY <1>19, <2>3
  <2>4. CASE pg.slots[j].at > pg.slots[i].at
    BY <1>19, <2>4
  <2> QED BY <2>1, <2>2, <2>3, <2>4
<1>21. Sound(new)
  <2>1. DirectoryEnd(new) <= new.free
    BY <1>6, <1>9, <1>16
  <2> QED BY <1>14, <1>18, <1>20, <2>1 DEF Sound
<1>22. WellLaid(new)
  <2>1. /\ DirectoryEnd(new) + Bytes(new, LiveSlots(new)) <= PageSize
        /\ Bytes(new, LiveSlots(new)) <= PageSize - new.free
    <3>1. Bytes(new, LiveSlots(new)) = b /\ PageSize - new.free = b
      BY <1>3, <1>5, <1>6, <1>14, <1>15
    <3> HIDE DEF b, new
    <3> QED BY <1>1, <1>5, <1>16, <3>1
  <2> QED BY <1>13, <1>21, <2>1 DEF WellLaid
<1>23. /\ FreeSpace(new) = FreeSpace(pg) + Reclaimable(pg)
       /\ Reclaimable(new) = 0
  <2> DEFINE d == DirectoryEnd(pg)
             f == pg.free
             g == new.free
  <2>1. /\ FreeSpace(new) = g - d /\ Reclaimable(new) = PageSize - g - b
        /\ FreeSpace(pg) = f - d /\ Reclaimable(pg) = PageSize - f - b
        /\ g = PageSize - b /\ d \in Nat /\ f \in Int
    BY <1>1, <1>6, <1>9, <1>14, <1>15, <1>16, SlotType DEF FreeSpace, Reclaimable
  <2> HIDE DEF d, f, g, b, new
  <2> QED BY <1>3, <1>5, <2>1
<1> QED BY <1>2, <1>11, <1>12, <1>14, <1>22, <1>23

\* A page that may have been compacted for a record holds what it held, and has
\* room for the record if what was counted says so.
LEMMA PreparePage ==
  ASSUME NEW pg, WellLaid(pg), NEW v \in Val
  PROVE  /\ WellLaid(Prepared(pg, v))
         /\ DOMAIN Prepared(pg, v).slots = DOMAIN pg.slots
         /\ LiveSlots(Prepared(pg, v)) = LiveSlots(pg)
         /\ \A i \in DOMAIN pg.slots : Prepared(pg, v).slots[i].val = pg.slots[i].val
         /\ Fits(Prepared(pg, v), v) <=> Size[v] + SlotSize <= FreeSpace(pg) + Reclaimable(pg)
<1>1. /\ FreeSpace(pg) \in Int /\ Reclaimable(pg) \in Int /\ 0 <= Reclaimable(pg)
      /\ Size[v] \in Nat /\ SlotSize \in Nat
  <2>1. pg \in Page /\ Bytes(pg, LiveSlots(pg)) <= PageSize - pg.free
    BY DEF WellLaid
  <2>2. Bytes(pg, LiveSlots(pg)) \in Nat /\ pg.free \in Int /\ PageSize \in Nat
    BY <2>1, LiveBytes, SlotType, SizesAssumption
  <2>3. 0 <= Reclaimable(pg)
    BY <2>1, <2>2 DEF Reclaimable
  <2> QED BY <2>1, <2>3, SlotType, LiveBytes, SizeType
<1>2. CASE Fits(pg, v) \/ Reclaimable(pg) = 0
  <2>1. Prepared(pg, v) = pg
    BY <1>2 DEF Prepared
  <2>2. Fits(pg, v) <=> Size[v] + SlotSize <= FreeSpace(pg) + Reclaimable(pg)
    BY <1>1, <1>2 DEF Fits
  <2> QED BY <2>1, <2>2
<1>3. CASE ~ Fits(pg, v) /\ Reclaimable(pg) # 0
  <2>1. Prepared(pg, v) = Compacted(pg)
    BY <1>3 DEF Prepared
  <2>2. FreeSpace(Compacted(pg)) = FreeSpace(pg) + Reclaimable(pg)
    BY CompactPage
  <2>3. Fits(Compacted(pg), v) <=> Size[v] + SlotSize <= FreeSpace(pg) + Reclaimable(pg)
    BY <2>2 DEF Fits
  <2> QED BY <2>1, <2>3, CompactPage
<1> QED BY <1>2, <1>3

-----------------------------------------------------------------------------
\* What a page holds: the ids given out on it, and the records under them.
Held(pg) == [ids |-> DOMAIN pg.slots, rows |-> [i \in LiveSlots(pg) |-> pg.slots[i].val]]

LEMMA HeldParts ==
  ASSUME NEW pg
  PROVE  /\ Held(pg).ids = DOMAIN pg.slots /\ DOMAIN Held(pg).rows = LiveSlots(pg)
         /\ \A i \in LiveSlots(pg) : Held(pg).rows[i] = pg.slots[i].val
BY DEF Held

LEMMA PrepareHolds ==
  ASSUME NEW pg, WellLaid(pg), NEW v \in Val
  PROVE  Held(Prepared(pg, v)) = Held(pg)
<1>1. /\ DOMAIN Prepared(pg, v).slots = DOMAIN pg.slots
      /\ LiveSlots(Prepared(pg, v)) = LiveSlots(pg)
      /\ \A i \in DOMAIN pg.slots : Prepared(pg, v).slots[i].val = pg.slots[i].val
  BY PreparePage
<1>2. \A i \in LiveSlots(pg) : i \in DOMAIN pg.slots
  BY DEF LiveSlots
<1> QED BY <1>1, <1>2 DEF Held

LEMMA CompactHolds ==
  ASSUME NEW pg, WellLaid(pg)
  PROVE  WellLaid(Compacted(pg)) /\ Held(Compacted(pg)) = Held(pg)
<1>1. \A i \in LiveSlots(pg) : i \in DOMAIN pg.slots
  BY DEF LiveSlots
<1> QED BY <1>1, CompactPage DEF Held

LEMMA StoreHolds ==
  ASSUME NEW pg, WellLaid(pg), NEW v \in Val, Fits(pg, v)
  PROVE  LET i == Len(pg.slots) + 1
         IN /\ i \notin Held(pg).ids /\ i \in Nat
            /\ Held(WithRecord(pg, v)) =
                 [ids  |-> Held(pg).ids \cup {i},
                  rows |-> [j \in DOMAIN Held(pg).rows \cup {i} |->
                              IF j = i THEN v ELSE Held(pg).rows[j]]]
<1> DEFINE n == Len(pg.slots) + 1
           new == WithRecord(pg, v)
<1>1. /\ DOMAIN new.slots = DOMAIN pg.slots \cup {n} /\ n \notin DOMAIN pg.slots
      /\ LiveSlots(new) = LiveSlots(pg) \cup {n} /\ new.slots[n].val = v
      /\ \A j \in DOMAIN pg.slots : new.slots[j] = pg.slots[j]
  BY StoreRecord
<1>2. n \in Nat
  BY SlotType DEF WellLaid
<1>3. \A j \in LiveSlots(pg) : j \in DOMAIN pg.slots
  BY DEF LiveSlots
<1> HIDE DEF n, new
<1>4. Held(new).rows = [j \in LiveSlots(pg) \cup {n} |->
                          IF j = n THEN v ELSE Held(pg).rows[j]]
  BY <1>1, <1>3 DEF Held
<1>5. Held(new) = [ids  |-> Held(pg).ids \cup {n},
                   rows |-> [j \in DOMAIN Held(pg).rows \cup {n} |->
                               IF j = n THEN v ELSE Held(pg).rows[j]]]
  BY <1>1, <1>4 DEF Held
<1> QED BY <1>1, <1>2, <1>5, HeldParts DEF n, new

LEMMA RemoveHolds ==
  ASSUME NEW pg, WellLaid(pg), NEW i \in LiveSlots(pg)
  PROVE  Held(WithoutRecord(pg, i)) =
           [ids  |-> Held(pg).ids,
            rows |-> [j \in DOMAIN Held(pg).rows \ {i} |-> Held(pg).rows[j]]]
<1> DEFINE new == WithoutRecord(pg, i)
<1>1. /\ DOMAIN new.slots = DOMAIN pg.slots /\ LiveSlots(new) = LiveSlots(pg) \ {i}
      /\ \A j \in DOMAIN pg.slots \ {i} : new.slots[j] = pg.slots[j]
  BY RemoveRecord
<1>2. \A j \in LiveSlots(pg) : j \in DOMAIN pg.slots
  BY DEF LiveSlots
<1> HIDE DEF new
<1>3. Held(new).rows = [j \in LiveSlots(pg) \ {i} |-> Held(pg).rows[j]]
  BY <1>1, <1>2 DEF Held
<1> QED BY <1>1, <1>3 DEF Held, new

\* A new page, and a page of zeros, hold nothing.
LEMMA FirstHold ==
  /\ Held(NewPage) = [ids |-> {}, rows |-> [i \in {} |-> i]]
  /\ Held(ZeroPage) = [ids |-> {}, rows |-> [i \in {} |-> i]]
BY FirstPages DEF Held
=============================================================================

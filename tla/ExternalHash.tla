----------------------------- MODULE ExternalHash ----------------------------
(***************************************************************************)
(* external_hash_group_by and external_hash_join                           *)
(* (engine/algorithms/external_hash.py).  Records are written to           *)
(* partitions by a hash of their keys; a partition too large for the       *)
(* memory is partitioned again with the salt of the next level, until the  *)
(* levels are spent.  A record is <<key, size, identity>>.  The recursion  *)
(* over partitions is a list of tasks, first task first; a task of a       *)
(* GROUP BY has no right side.                                             *)
(***************************************************************************)
EXTENDS Integers, Sequences, SequencesExt, FiniteSets

CONSTANTS HashInputs,    \* the <<left, right>> record sequences
          HashMemory, Partitions, MaxPartitionDepth,
          PartitionOf    \* level -> key -> partition, of _partition_index

ASSUME HashAssumption ==
  HashMemory \in Nat \ {0} /\ Partitions \in Nat \ {0, 1} /\ MaxPartitionDepth \in Nat

VARIABLES joining,   \* whether it is a join
          sides,     \* what was given
          tasks,     \* [left, right, level] still to do
          block,     \* the rest of the build side of a block join, or <<>>
          groups,    \* the <<key, records>> given by a GROUP BY
          pairs      \* the <<left, right>> records given by a join

hashVars == <<joining, sides, tasks, block, groups, pairs>>

Size(records) == FoldLeft(LAMBDA sum, r : sum + r[2], 0, records)

\* _partition_records: the records of each partition, in their order.
Partitioned(records, level) ==
  [p \in 1 .. Partitions |-> SelectSeq(records, LAMBDA r : PartitionOf[level][r[1]] = p - 1)]

Split(task) ==
  LET left  == Partitioned(task.left, task.level)
      right == Partitioned(task.right, task.level)
  IN [p \in 1 .. Partitions |-> [left |-> left[p], right |-> right[p], level |-> task.level + 1]]

task == Head(tasks)
Least(a, b) == IF a < b THEN a ELSE b
buildLeft == Size(task.left) <= Size(task.right)
smaller == Least(Size(task.left), Size(task.right))

\* Mutant of TooLarge: partitions are divided as long as they are too large.
TooLargeForEver == IF joining THEN smaller > HashMemory ELSE Size(task.left) > HashMemory
\* A partition is divided again when it is too large and a level is left.
TooLarge ==
  /\ IF joining THEN smaller > HashMemory ELSE Size(task.left) > HashMemory
  /\ task.level <= MaxPartitionDepth

\* The first partitioning, of what is given, has no condition: it is level 0.
Partition ==
  /\ tasks # <<>> /\ block = <<>>
  /\ task.level = 0 \/ (TooLarge /\ (joining => task.left # <<>> /\ task.right # <<>>))
  /\ tasks' = Split(task) \o Tail(tasks)
  /\ UNCHANGED <<joining, sides, block, groups, pairs>>

\* The groups of a partition: dict order is that of the first record of a key.
GroupsOf(records) ==
  LET keys == FoldLeft(LAMBDA seen, r : IF r[1] \in Range(seen) THEN seen ELSE Append(seen, r[1]), <<>>, records)
  IN [i \in DOMAIN keys |-> <<keys[i], SelectSeq(records, LAMBDA r : r[1] = keys[i])>>]

GroupInMemory ==
  /\ tasks # <<>> /\ ~joining /\ task.level > 0 /\ ~TooLarge
  /\ groups' = groups \o GroupsOf(task.left)
  /\ tasks' = Tail(tasks)
  /\ UNCHANGED <<joining, sides, block, pairs>>

\* The pairs of a table of build records probed with all records of the other
\* side, in the order of the probe; left records stay left.
Joined(build, probe, buildIsLeft) ==
  FlattenSeq([i \in DOMAIN probe |->
    LET matches == SelectSeq(build, LAMBDA r : r[1] = probe[i][1])
    IN [j \in DOMAIN matches |-> IF buildIsLeft THEN <<matches[j], probe[i]>> ELSE <<probe[i], matches[j]>>]])

EmptySide ==
  /\ tasks # <<>> /\ joining /\ task.level > 0 /\ (task.left = <<>> \/ task.right = <<>>)
  /\ tasks' = Tail(tasks)
  /\ UNCHANGED <<joining, sides, block, groups, pairs>>

build == IF buildLeft THEN task.left ELSE task.right
probe == IF buildLeft THEN task.right ELSE task.left

JoinInMemory ==
  /\ tasks # <<>> /\ joining /\ task.level > 0 /\ task.left # <<>> /\ task.right # <<>>
  /\ smaller <= HashMemory
  /\ pairs' = pairs \o Joined(build, probe, buildLeft)
  /\ tasks' = Tail(tasks)
  /\ UNCHANGED <<joining, sides, block, groups>>

\* Levels spent: the smaller side is joined chunk by chunk with the whole of
\* the other one.
OpenBlocks ==
  /\ tasks # <<>> /\ block = <<>> /\ joining /\ task.level > 0 /\ task.left # <<>> /\ task.right # <<>>
  /\ smaller > HashMemory /\ ~TooLarge
  /\ block' = build
  /\ UNCHANGED <<joining, sides, tasks, groups, pairs>>

\* _record_chunks: as many records as fit, at least one.
Chunk(records) ==
  LET fits == {n \in 1 .. Len(records) : n = 1 \/ Size(SubSeq(records, 1, n)) <= HashMemory}
  IN SubSeq(records, 1, CHOOSE n \in fits : \A m \in fits : m <= n)

JoinBlock ==
  /\ block # <<>>
  /\ LET chunk == Chunk(block) IN
     /\ pairs' = pairs \o Joined(chunk, probe, buildLeft)
     /\ block' = SubSeq(block, Len(chunk) + 1, Len(block))
     /\ tasks' = IF Len(chunk) = Len(block) THEN Tail(tasks) ELSE tasks
  /\ UNCHANGED <<joining, sides, groups>>

HashInit ==
  /\ joining \in BOOLEAN /\ sides \in HashInputs
  /\ tasks = <<[left |-> sides[1], right |-> IF joining THEN sides[2] ELSE <<>>, level |-> 0]>>
  /\ block = <<>> /\ groups = <<>> /\ pairs = <<>>

HashNext == Partition \/ GroupInMemory \/ EmptySide \/ JoinInMemory \/ OpenBlocks \/ JoinBlock

-----------------------------------------------------------------------------
\* Partitions are divided at most MaxPartitionDepth times, however equal the
\* hashes of their keys.
DepthBounded == \A i \in DOMAIN tasks : tasks[i].level <= MaxPartitionDepth + 1

\* A join builds its tables within the memory, but for a record that exceeds it.
TablesBounded == block # <<>> => Len(Chunk(block)) = 1 \/ Size(Chunk(block)) <= HashMemory

\* The pairs a task is still to give.
Due(i) ==
  LET t == tasks[i]
      leftRest  == IF i = 1 /\ block # <<>> /\ buildLeft THEN block ELSE t.left
      rightRest == IF i = 1 /\ block # <<>> /\ ~buildLeft THEN block ELSE t.right
  IN {<<l, r>> \in Range(leftRest) \X Range(rightRest) : l[1] = r[1]}

Matching == {<<l, r>> \in Range(sides[1]) \X Range(sides[2]) : l[1] = r[1]}

\* Every pair of equal keys is given once or due from one task.
PairsExact ==
  /\ Len(pairs) + FoldLeft(LAMBDA n, i : n + Cardinality(Due(i)), 0, [i \in DOMAIN tasks |-> i])
       = Cardinality(Matching)
  /\ Range(pairs) \cup UNION {Due(i) : i \in DOMAIN tasks} = Matching

\* Every record is in one group or one task, and a key in one group or in tasks.
GroupsExact ==
  LET given == FlattenSeq([i \in DOMAIN groups |-> groups[i][2]])
      due   == FlattenSeq([i \in DOMAIN tasks |-> tasks[i].left])
  IN /\ Len(given) + Len(due) = Len(sides[1]) /\ Range(given) \cup Range(due) = Range(sides[1])
     /\ \A i \in DOMAIN groups : \A r \in Range(groups[i][2]) : r[1] = groups[i][1]
     /\ \A i, j \in DOMAIN groups : i # j => groups[i][1] # groups[j][1]
     /\ \A i \in DOMAIN groups, r \in Range(due) : r[1] # groups[i][1]

\* Partitioning, however deep and however skewed the keys, loses no record,
\* gives no group or pair twice, and ends.
HashExact ==
  /\ DepthBounded /\ TablesBounded
  /\ IF joining THEN PairsExact ELSE GroupsExact
=============================================================================

----------------------------- MODULE ExternalSort ----------------------------
(***************************************************************************)
(* external_sort and merge_sorted_runs (engine/algorithms/external_sort.py)*)
(* : records are cut into runs that fit in memory, each sorted and written *)
(* to a file, and passes over the runs merge FanIn of them at a time until *)
(* one is left.  A record is <<key, size, identity>>; a file is a sequence *)
(* of records under a name.                                                *)
(***************************************************************************)
EXTENDS Integers, Sequences, SequencesExt, FiniteSets

CONSTANTS SortInputs,   \* the record sequences given to external_sort
          MergeInputs,  \* the sequences of sorted runs given to merge_sorted_runs
          SortMemory, FanIn

ASSUME SortAssumption == SortMemory \in Nat \ {0} /\ FanIn \in Nat \ {0, 1}

VARIABLES given,   \* <<"records", sequence>> or <<"runs", sequences>>
          rest, chunk,   \* what _create_initial_runs has to read, and its chunk
          disk,    \* the files
          runs, pass, outputs,   \* the files of a pass to merge, its number, its outputs
          merging  \* the merge at work: [inputs, at, heap, out, pushed]

sortVars == <<given, rest, chunk, disk, runs, pass, outputs, merging>>

NoMerge == [inputs |-> <<>>, at |-> <<>>, heap |-> {}, out |-> <<>>, pushed |-> 0]

Bytes(records) == FoldLeft(LAMBDA sum, r : sum + r[2], 0, records)
Sorted(records) == \A i \in 1 .. Len(records) - 1 : records[i][1] <= records[i + 1][1]

\* _write_sorted_run: list.sort is stable.
SortedChunk(records) ==
  LET Rank(i) == 1 + Cardinality({j \in DOMAIN records :
                       records[j][1] < records[i][1] \/ (records[j][1] = records[i][1] /\ j < i)})
  IN [n \in DOMAIN records |-> records[CHOOSE i \in DOMAIN records : Rank(i) = n]]

With(files, name, content) == [f \in DOMAIN files \cup {name} |-> IF f = name THEN content ELSE files[f]]
RunName(n) == <<"initial", n>>

\* One record of _create_initial_runs: the chunk is written before it when it
\* would not fit, and after it when memory is full.
TakeRecord ==
  LET r     == Head(rest)
      full  == chunk # <<>> /\ Bytes(chunk) + r[2] > SortMemory
      next  == IF full THEN <<r>> ELSE Append(chunk, r)
      cut   == Bytes(next) >= SortMemory
      first == IF full THEN With(disk, RunName(Len(runs)), SortedChunk(chunk)) ELSE disk
      names == IF full THEN Append(runs, RunName(Len(runs))) ELSE runs
  IN /\ rest # <<>>
     /\ rest' = Tail(rest)
     /\ disk' = IF cut THEN With(first, RunName(Len(names)), SortedChunk(next)) ELSE first
     /\ runs' = IF cut THEN Append(names, RunName(Len(names))) ELSE names
     /\ chunk' = IF cut THEN <<>> ELSE next
     /\ UNCHANGED <<given, pass, outputs, merging>>

LastRun ==
  /\ rest = <<>> /\ chunk # <<>>
  /\ disk' = With(disk, RunName(Len(runs)), SortedChunk(chunk))
  /\ runs' = Append(runs, RunName(Len(runs)))
  /\ chunk' = <<>>
  /\ UNCHANGED <<given, rest, pass, outputs, merging>>

read == rest = <<>> /\ chunk = <<>>

\* A group of one run is passed on as it is; a larger one is opened, and the
\* first record of each run goes on the heap.
OpenGroup ==
  /\ read /\ merging = NoMerge /\ runs # <<>> /\ (outputs # <<>> \/ Len(runs) > 1)
  /\ LET group == SubSeq(runs, 1, IF Len(runs) < FanIn THEN Len(runs) ELSE FanIn)
         some  == SelectSeq([i \in DOMAIN group |-> i], LAMBDA i : disk[group[i]] # <<>>)
     IN /\ runs' = SubSeq(runs, Len(group) + 1, Len(runs))
        /\ IF Len(group) = 1 THEN outputs' = Append(outputs, group[1]) /\ merging' = merging
           ELSE /\ merging' = [inputs |-> group, at |-> [i \in DOMAIN group |-> 1], out |-> <<>>,
                               heap |-> {<<disk[group[some[n]]][1][1], n - 1, some[n]>> : n \in DOMAIN some},
                               pushed |-> Len(some)]
                /\ outputs' = outputs
  /\ UNCHANGED <<given, rest, chunk, disk, pass>>

\* The least key, and of equal keys the one pushed first, is written; the next
\* record of its run goes on the heap.
PopRecord ==
  /\ merging.heap # {}
  /\ LET least == CHOOSE h \in merging.heap : \A g \in merging.heap :
                    h[1] < g[1] \/ (h[1] = g[1] /\ h[2] <= g[2])
         i     == least[3]
         file  == disk[merging.inputs[i]]
         there == merging.at[i]
         more  == there < Len(file)
     IN merging' = [merging EXCEPT
                      !.out = Append(@, file[there]), !.at[i] = @ + 1,
                      !.heap = (@ \ {least}) \cup (IF more THEN {<<file[there + 1][1], merging.pushed, i>>} ELSE {}),
                      !.pushed = IF more THEN @ + 1 ELSE @]
  /\ UNCHANGED <<given, rest, chunk, disk, runs, pass, outputs>>

CloseGroup ==
  /\ merging # NoMerge /\ merging.heap = {}
  /\ LET name == <<"pass", pass, Len(outputs)>>
     IN disk' = With(disk, name, merging.out) /\ outputs' = Append(outputs, name)
  /\ merging' = NoMerge
  /\ UNCHANGED <<given, rest, chunk, runs, pass>>

\* merge_sorted_runs deletes its own files of the pass before, but for those
\* that were passed on; external_sort leaves them to the directory.
Obsolete(names) ==
  IF given[1] = "records" THEN {} ELSE {f \in names : f[1] = "pass" /\ f[2] < pass}
\* Mutant of Dropped: a run that was passed on is deleted as well.
DroppedAll == Obsolete(DOMAIN disk)
Dropped == Obsolete(DOMAIN disk) \ Range(outputs)

EndPass ==
  /\ read /\ merging = NoMerge /\ runs = <<>> /\ outputs # <<>>
  /\ runs' = outputs /\ outputs' = <<>> /\ pass' = pass + 1
  /\ disk' = [f \in DOMAIN disk \ Dropped |-> disk[f]]
  /\ UNCHANGED <<given, rest, chunk, merging>>

SortInit ==
  /\ pass = 0 /\ outputs = <<>> /\ merging = NoMerge /\ chunk = <<>>
  /\ \/ \E records \in SortInputs :
          given = <<"records", records>> /\ rest = records /\ disk = <<>> /\ runs = <<>>
     \/ \E files \in MergeInputs :
          /\ given = <<"runs", files>> /\ rest = <<>>
          /\ disk = [f \in {<<"input", n>> : n \in DOMAIN files} |-> files[f[2]]]
          /\ runs = [n \in DOMAIN files |-> <<"input", n>>]

SortNext == TakeRecord \/ LastRun \/ OpenGroup \/ PopRecord \/ CloseGroup \/ EndPass

-----------------------------------------------------------------------------
\* The records a merge has still to read from its inputs.
Unread == [i \in DOMAIN merging.inputs |->
             SubSeq(disk[merging.inputs[i]], merging.at[i], Len(disk[merging.inputs[i]]))]

\* Where the records are: still to be read, in memory, or in a file of the pass.
Live == FlattenSeq(<<rest, chunk, merging.out>> \o Unread
                   \o [i \in DOMAIN runs |-> disk[runs[i]]] \o [i \in DOMAIN outputs |-> disk[outputs[i]]])

\* No file is read that was deleted: a run passed on from an earlier pass is kept.
FilesThere == Range(runs) \cup Range(outputs) \cup Range(merging.inputs) \subseteq DOMAIN disk

\* A run never exceeds the memory, unless it is one record that does.
RunsBounded == \A f \in DOMAIN disk :
  f[1] = "initial" => disk[f] # <<>> /\ (Len(disk[f]) = 1 \/ Bytes(disk[f]) <= SortMemory)

RunsSorted == Sorted(merging.out) /\ \A f \in DOMAIN disk : Sorted(disk[f])

\* Through runs, passes, and files passed on or deleted, every record given is
\* in one place; the files are sorted, so the last one is the sorted input; an
\* initial run is no larger than the memory allows.
SortExact ==
  /\ FilesThere /\ RunsBounded /\ RunsSorted
  /\ LET all == IF given[1] = "records" THEN given[2] ELSE FlattenSeq(given[2])
     IN Len(Live) = Len(all) /\ Range(Live) = Range(all)
=============================================================================

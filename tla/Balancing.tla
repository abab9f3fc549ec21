----------------------------- MODULE Balancing ------------------------------
(***************************************************************************)
(* verl/utils/seqlen_balancing.py: lists of rows of about equal workload by*)
(* the largest differencing method, for the ranks of data parallelism and  *)
(* for the micro-batches of a rank, and the way back to the order of the   *)
(* rows.  Rows count from 1.                                               *)
(***************************************************************************)
EXTENDS Integers, Sequences, FiniteSets, FiniteSetsExt, SequencesExt

calculate_workload(lengths) == [i \in DOMAIN lengths |-> 24576 * lengths[i] + lengths[i] ^ 2]

CeilDiv(a, b) == (a + b - 1) \div b
Total(f)      == SumFunctionOnSet(f, DOMAIN f)

\* set[::2] and set[1::2]
EveryOther(s, from) == [i \in 1 .. (Len(s) - from + 2) \div 2 |-> s[2 * i + from - 2]]
Firsts(s)  == EveryOther(s, 1)
Seconds(s) == EveryOther(s, 2)
-----------------------------------------------------------------------------
(* karmarkar_karp.  A state is a sequence of k Sets, heaviest first;       *)
(* load[i] is what row i weighs.                                           *)

\* A Set of the code: its rows and their weight.
Bag(rows, sum) == [rows |-> rows, sum |-> sum]
Union(a, b)    == Bag(a.rows \o b.rows, a.sum + b.sum)

\* Set.__lt__, the other way round: no two Sets have a row in common.
Heavier(a, b) ==
  \/ a.sum > b.sum
  \/ a.sum = b.sum /\ Len(a.rows) > Len(b.rows)
  \/ a.sum = b.sum /\ Len(a.rows) = Len(b.rows) /\ a.rows /= <<>> /\ a.rows[1] > b.rows[1]

HeaviestFirst(sets) == SortSeq(sets, Heavier)
Spread(state)       == state[1].sum - state[Len(state)].sum

\* heappop: the largest spread, then the heaviest Set.
Popped(states) ==
  CHOOSE s \in states : \A t \in states \ {s} :
    Spread(s) > Spread(t) \/ (Spread(s) = Spread(t) /\ Heavier(s[1], t[1]))

\* State.merge: heavy Sets meet light ones.
Merged(s, t) == HeaviestFirst([i \in DOMAIN s |-> Union(s[i], t[Len(t) + 1 - i])])

\* sorted_seqlen_list, lightest first, as rows.
SortedRows(load) ==
  SortSeq([i \in DOMAIN load |-> i], LAMBDA i, j : load[i] < load[j] \/ (load[i] = load[j] /\ i < j))

FirstStates(load, k, equalSize) ==
  LET rows == SortedRows(load)
      One(row) == Bag(<<row>>, load[row])
  IN  IF equalSize
      THEN {HeaviestFirst([i \in 1 .. k |-> One(rows[n * k + i])]) : n \in 0 .. Len(rows) \div k - 1}
      ELSE {[i \in 1 .. k |-> IF i = 1 THEN One(row) ELSE Bag(<<>>, 0)] : row \in DOMAIN load}

karmarkar_karp(load, k, equalSize) ==
  LET first == FirstStates(load, k, equalSize)
      after[merges \in 0 .. Cardinality(first) - 1] ==
        IF merges = 0 THEN first
        ELSE LET states == after[merges - 1]
                 s == Popped(states)
                 t == Popped(states \ {s})
             IN  (states \ {s, t}) \union {Merged(s, t)}
      final == CHOOSE s \in after[Cardinality(first) - 1] : TRUE
  IN  [i \in 1 .. k |-> final[i].rows]

Ascending(rows) == SortSeq(rows, LAMBDA i, j : i < j)

get_seqlen_balanced_partitions(load, k, equalSize) ==
  LET partitions == karmarkar_karp(load, k, equalSize)
  IN  [i \in 1 .. k |-> Ascending(partitions[i])]
-----------------------------------------------------------------------------
(* RayPPOTrainer._balance_batch: global_idx.  Light rows stand at both ends*)
(* of what a rank is given.                                                *)
OrderOfRank(load, rows) ==
  LET sorted == SortSeq(rows, LAMBDA i, j : load[i] < load[j] \/ (load[i] = load[j] /\ i < j))
  IN  Firsts(sorted) \o Reverse(Seconds(sorted))

\* Mutant: the ranks' lists are dealt out row by row.
GlobalIdx_Dealt(lengths, worldSize) ==
  LET load == calculate_workload(lengths)
      lists == get_seqlen_balanced_partitions(load, worldSize, TRUE)
      orders == [r \in 1 .. worldSize |-> OrderOfRank(load, lists[r])]
  IN  [i \in DOMAIN lengths |-> orders[((i - 1) % worldSize) + 1][((i - 1) \div worldSize) + 1]]

GlobalIdx(lengths, worldSize) ==
  LET load == calculate_workload(lengths)
      lists == get_seqlen_balanced_partitions(load, worldSize, TRUE)
  IN  FlattenSeq([r \in 1 .. worldSize |-> OrderOfRank(load, lists[r])])

(* rearrange_micro_batches: how many, the largest number of any rank, and  *)
(* which rows; the light ones run first and last.                          *)
NumMicroBatches(lengths, maxTokenLen) ==
  Min({Len(lengths), CeilDiv(Total(lengths), maxTokenLen)})

MicroBatches(lengths, num) ==
  LET load      == calculate_workload(lengths)
      lists     == get_seqlen_balanced_partitions(load, num, FALSE)
      Weight(p) == SumFunctionOnSet(load, ToSet(p))
      sorted    == SortSeq(lists, LAMBDA p, q :
                     Weight(p) > Weight(q) \/ (Weight(p) = Weight(q) /\ p[1] > q[1]))
  IN  Reverse(Firsts(sorted)) \o Seconds(sorted)

\* get_reverse_idx
ReverseIdx(idx) == [row \in DOMAIN idx |-> CHOOSE i \in DOMAIN idx : idx[i] = row]

\* restore_dynamic_batch
Restored(data, idx) ==
  LET back == ReverseIdx(idx) IN [row \in DOMAIN data |-> data[back[row]]]
=============================================================================

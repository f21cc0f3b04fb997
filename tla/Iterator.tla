------------------------------ MODULE Iterator ------------------------------
(* The client's Iterator over a table (client/iterator.cc), the requests it  *)
(* sends to the partitions (Cluster::InnerListTable) and their answers       *)
(* (Cache::List in node/cache.cc), while keys are erased from the table, by  *)
(* deletion or by the expiry sweep. Erasing keeps the iteration order of the *)
(* other keys of the unordered map. A key that has expired and is still in   *)
(* the map has its place in the pages; only its value is left out.           *)
EXTENDS Integers, Sequences, FiniteSetsExt

CONSTANTS
  PartitionNum,   \* partitions of the table
  MaxKeys,        \* bound: keys of the table
  MaxSize,        \* bound: size of a page
  MaxErased       \* bound: keys erased

ASSUME PartitionNumAssumption == PartitionNum \in Nat \ {0}
ASSUME BoundsAssumption == MaxKeys \in Nat /\ MaxSize \in Nat \ {0} /\ MaxErased \in Nat

Ids == 0 .. PartitionNum - 1
NoKey == << >>

VARIABLES
  cache,        \* per partition its keys, in the iteration order of key_values_
  table_info,   \* Iterator::table_info_: sums of the sizes, << >> before the first List
  last_id, last_end, last_key,
  page,         \* the last List: its offset, its size, the keys it returned, end
  seen,         \* history: keys returned since the last jump to another offset
  backward,     \* history: one of them was returned again, not in the page that followed
  erased,       \* history: the number of keys erased
  gap           \* history: the scan has gone on after a page that failed

vars == <<cache, table_info, last_id, last_end, last_key, page, seen, backward, erased, gap>>

Init ==
  /\ \E size \in [Ids -> 0 .. MaxKeys] :
       MapThenSumSet(LAMBDA i : size[i], Ids) <= MaxKeys /\ cache = [i \in Ids |-> [k \in 1 .. size[i] |-> <<i, k>>]]
  /\ table_info = << >>
  /\ last_id = 0 /\ last_end = 0 /\ last_key = NoKey
  /\ page = [offset |-> 0, size |-> 0, keys |-> {}, end |-> FALSE]
  /\ seen = {} /\ backward = FALSE /\ erased = 0 /\ gap = FALSE

-----------------------------------------------------------------------------
Elems(s) == {s[k] : k \in DOMAIN s}

\* Mutant of CacheList: the key to go on with is the last one of the page.
CacheListLast(s, offset, size, key) ==
  LET start == IF key \in Elems(s) THEN CHOOSE k \in DOMAIN s : s[k] = key ELSE offset + 1
      rest == {k \in DOMAIN s : k >= start + size}
  IN  [keys |-> {s[k] : k \in {l \in DOMAIN s : start <= l} \ rest},
       key |-> IF rest = {} THEN NoKey ELSE s[start + size - 1]]

\* Mutant of CacheList: when the key asked for is gone, from the beginning.
CacheListBegin(s, offset, size, key) ==
  LET start == IF key \in Elems(s) THEN CHOOSE k \in DOMAIN s : s[k] = key
               ELSE IF key = NoKey THEN offset + 1 ELSE 1
      rest == {k \in DOMAIN s : k >= start + size}
  IN  [keys |-> {s[k] : k \in {l \in DOMAIN s : start <= l} \ rest},
       key |-> IF rest = {} THEN NoKey ELSE s[start + size]]

\* Cache::List: from the key asked for if it is still there, otherwise from the
\* offset. key is the one after the page, NoKey at the end of the partition.
CacheList(s, offset, size, key) ==
  LET start == IF key \in Elems(s) THEN CHOOSE k \in DOMAIN s : s[k] = key ELSE offset + 1
      rest == {k \in DOMAIN s : k >= start + size}
  IN  [keys |-> {s[k] : k \in {l \in DOMAIN s : start <= l} \ rest},
       key |-> IF rest = {} THEN NoKey ELSE s[start + size]]

\* InnerListTableInfo: the running sums of the total_size of the partitions.
InnerListTableInfo ==
  LET sum[i \in Ids] == Len(cache[i]) + (IF i = 0 THEN 0 ELSE sum[i - 1])
  IN  sum

\* First position of partition i in the table.
Base(info, i) == IF i = 0 THEN 0 ELSE info[i - 1]

\* SplitSection: the parts of the page, one per partition it touches. The search
\* starts at the partition the last page ended in unless the offset is before it,
\* and the key to go on with is passed to the first part of the next page.
SplitSection(info, offset, size) ==
  LET end == offset + size
      first == IF offset >= last_end THEN last_id ELSE 0
      Start(i) == IF i = first THEN offset ELSE Max({offset, Base(info, i)})
      Stop(i) == Min({end, info[i]})
      ids == {i \in first .. PartitionNum - 1 :
                Start(i) < info[i] /\ \A j \in first .. i - 1 : end > info[j]}
  IN  {[id |-> i, offset |-> Start(i) - Base(info, i), size |-> Stop(i) - Start(i),
        last_key |-> IF offset = last_end /\ i = Min(ids) THEN last_key ELSE NoKey] : i \in ids}

\* What SplitSection leaves in the iterator, before any partition is asked.
Advance(info, parts, offset, size) ==
  LET final == {p.id : p \in {q \in parts : offset + size <= info[q.id]}}
  IN  /\ table_info' = info
      /\ last_id' = IF final = {} THEN last_id ELSE Min(final)
      /\ last_end' = offset + size

Info == IF table_info = << >> THEN InnerListTableInfo ELSE table_info

\* Iterator::List, which loads table_info_ the first time. Of the answers that
\* are not the end of their partition the last one sets last_key_.
List(offset, size) ==
  LET parts == SplitSection(Info, offset, size)
      answers == {[id |-> p.id, list |-> CacheList(cache[p.id], p.offset, p.size, p.last_key)] : p \in parts}
      keys == UNION {a.list.keys : a \in answers}
      unfinished == {a.id : a \in {b \in answers : b.list.key # NoKey}}
      before == IF offset = last_end THEN seen ELSE {}
  IN  /\ Advance(Info, parts, offset, size)
      /\ last_key' = IF unfinished # {}
                     THEN (CHOOSE a \in answers : a.id = Max(unfinished)).list.key
                     ELSE IF offset = last_end THEN last_key ELSE NoKey
      /\ page' = [offset |-> offset, size |-> size, keys |-> keys,
                  end |-> offset + size >= Info[PartitionNum - 1] \/ parts = {}]
      /\ seen' = before \cup keys
      /\ backward' = ~(before \cap keys \subseteq page.keys)
      /\ gap' = (gap /\ offset = last_end)
      /\ UNCHANGED <<cache, erased>>

\* Iterator::List when ListTable returns an error: the page is not delivered and
\* the position has moved already.
ListFailed(offset, size) ==
  /\ LET parts == SplitSection(Info, offset, size)
     IN  parts # {} /\ Advance(Info, parts, offset, size)
  /\ last_key' = IF offset = last_end THEN last_key ELSE NoKey
  /\ seen' = IF offset = last_end THEN seen ELSE {}
  /\ gap' = TRUE
  /\ UNCHANGED <<cache, page, backward, erased>>

\* A key is deleted or swept away.
Erase(i, k) ==
  /\ erased < MaxErased
  /\ cache' = [cache EXCEPT ![i] = SubSeq(@, 1, k - 1) \o SubSeq(@, k + 1, Len(@))]
  /\ erased' = erased + 1
  /\ UNCHANGED <<table_info, last_id, last_end, last_key, page, seen, backward, gap>>

Next ==
  \/ \E offset \in 0 .. MaxKeys, size \in 1 .. MaxSize :
       List(offset, size) \/ ListFailed(offset, size)
  \/ \E i \in Ids : \E k \in DOMAIN cache[i] : Erase(i, k)

Spec == Init /\ [][Next]_vars

-----------------------------------------------------------------------------
\* Key number n of the table, from 0, in the order of the partitions.
KeyAt(n) ==
  LET i == CHOOSE j \in Ids : Base(table_info, j) <= n /\ n < table_info[j]
  IN  cache[i][n - Base(table_info, i) + 1]

\* Whatever pages were asked for before, forwards or backwards, List returns
\* exactly the keys from offset to offset + size of a table that has not changed,
\* and end when the page reaches the last of them. A page that failed has to be
\* asked for again: after a scan has gone on without it, its key is the one the
\* next page starts from.
PageExact ==
  table_info # << >> /\ erased = 0 /\ ~gap =>
    LET total == table_info[PartitionNum - 1]
    IN  /\ page.keys = {KeyAt(n) : n \in page.offset .. Min({page.offset + page.size, total}) - 1}
        /\ page.end = (page.offset + page.size >= total)

\* A scan that goes on where the last page ended never goes back, although keys
\* are erased meanwhile, the one it would go on with included: a key it returns
\* again was in the page just before. That much happens: at the end of a
\* partition that has become shorter last_key_ keeps the old key, and the next page
\* starts from it again.
ScanForward == ~backward

=============================================================================

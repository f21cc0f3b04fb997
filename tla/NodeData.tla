------------------------------ MODULE NodeData ------------------------------
(* The data of one partition on one node server: the entry of caches_ in     *)
(* NodeData (node/node_data.cc) and the Cache objects behind it              *)
(* (node/cache.cc), under request threads that set and delete keys, the      *)
(* expiry sweep and a DropTabler. A thread keeps the CachePtr it looked up,  *)
(* so a cache that has left caches_ lives on while somebody uses it.         *)
EXTENDS Integers, Sequences, SequencesExt

CONSTANTS
  Key,
  Writer,      \* request threads
  Ttls,        \* times to live of Set, 0 for a key that does not expire
  Batch,       \* FLAGS_batch_expired_size
  MaxCaches,   \* bound: caches in use at a time
  Loads        \* bound: the keys and request threads of a behaviour, how many
               \* caches it uses and the last second of its clock

ASSUME BatchAssumption == Batch \in Nat \ {0}
ASSUME TtlsAssumption == Ttls \subseteq Nat
ASSUME LoadsAssumption ==
  /\ MaxCaches \in Nat \ {0}
  /\ Loads \subseteq [keys : SUBSET Key, writers : SUBSET Writer,
                      caches : 1 .. MaxCaches, time : Nat]

Caches == 1 .. MaxCaches
NoCache == 0

VARIABLES
  now,       \* gettimeofday_s
  heap,      \* the Cache objects
  current,   \* the partition's entry in caches_, NoCache if there is none
  writer,    \* what each request thread does
  sweep,     \* what the sweep does
  drop,      \* the cache the DropTabler has taken out of caches_
  written,   \* history: per key the expiry last written since the table was
             \* dropped, or -1
  missed,    \* history: an undisturbed sweep left a key that was due
  load       \* the load of this behaviour

vars == <<now, heap, current, writer, sweep, drop, written, missed, load>>

\* key_values_ in iteration order, the expiry of each key, expired_.
EmptyCache == [order |-> << >>, expiry |-> [k \in Key |-> 0], expired |-> FALSE]

Idle == [step |-> "idle", cache |-> NoCache]

Init ==
  /\ now = 0
  /\ heap = [c \in Caches |-> EmptyCache]
  /\ current = NoCache
  /\ writer = [w \in Writer |-> Idle]
  /\ sweep = Idle
  /\ drop = NoCache
  /\ written = [k \in Key |-> -1]
  /\ missed = FALSE
  /\ load \in Loads

-----------------------------------------------------------------------------
Held == {writer[w].cache : w \in Writer} \cup {sweep.cache, drop, current}

\* A cache goes with the last CachePtr to it.
Freed(caches) == [c \in Caches |-> IF c \in Held' THEN caches[c] ELSE EmptyCache]

\* NodeData::Set up to the lookup of GetCache, under the reader lock.
Set(w, k, ttl) ==
  /\ writer[w] = Idle
  /\ writer' = [writer EXCEPT ![w] =
       [step |-> IF current = NoCache THEN "create" ELSE "found",
        cache |-> current, key |-> k, ttl |-> ttl]]
  /\ UNCHANGED <<now, heap, current, sweep, drop, written, missed>>

\* Mutant of CreateCache: the second lookup is left out.
CreateCacheBlind(w) ==
  /\ writer[w].step = "create"
  /\ \E c \in (1 .. load.caches) \ Held :
       /\ current' = c
       /\ heap' = [heap EXCEPT ![c] = EmptyCache]
  /\ writer' = [writer EXCEPT ![w].step = "found", ![w].cache = current']
  /\ UNCHANGED <<now, sweep, drop, written, missed>>

\* The rest of GetCache, under the writer lock: it looks again.
CreateCache(w) ==
  /\ writer[w].step = "create"
  /\ IF current # NoCache
     THEN UNCHANGED <<heap, current>>
     ELSE \E c \in (1 .. load.caches) \ Held :
            /\ current' = c
            /\ heap' = [heap EXCEPT ![c] = EmptyCache]
  /\ writer' = [writer EXCEPT ![w].step = "found", ![w].cache = current']
  /\ UNCHANGED <<now, sweep, drop, written, missed>>

\* Cache::Set before its lock: the expiry is computed and expired_ is raised.
SetExpiry(w) ==
  /\ writer[w].step = "found"
  /\ LET ttl == writer[w].ttl
         c == writer[w].cache
     IN  /\ heap' = [heap EXCEPT ![c].expired = @ \/ ttl > 0]
         /\ writer' = [writer EXCEPT ![w] =
              [step |-> "write", cache |-> c, key |-> writer[w].key,
               expiry |-> IF ttl > 0 THEN now + ttl ELSE 0]]
  /\ UNCHANGED <<now, current, sweep, drop, written, missed>>

\* A new key may rehash the map: its order can become any other.
Orders(order, k) ==
  IF Contains(order, k) THEN {order} ELSE SetToSeqs(ToSet(order) \cup {k})

\* Erasing keeps the order of the other keys.
Erasures(order, gone) ==
  {kept \in SetToSeqs(ToSet(order) \ gone) :
     \A i, j \in DOMAIN kept : i < j =>
       \E k, l \in DOMAIN order : k < l /\ order[k] = kept[i] /\ order[l] = kept[j]}

\* Cache::Set under its lock.
Write(w) ==
  /\ writer[w].step = "write"
  /\ LET c == writer[w].cache
         k == writer[w].key
         e == writer[w].expiry
     IN  /\ written' = IF c = current THEN [written EXCEPT ![k] = e] ELSE written
         /\ sweep' = IF sweep.cache = c THEN [sweep EXCEPT !.disturbed = TRUE] ELSE sweep
         /\ writer' = [writer EXCEPT ![w] = Idle]
         /\ UNCHANGED <<now, current, drop, missed>>
         /\ \E order \in Orders(heap[c].order, k) :
              heap' = Freed([heap EXCEPT ![c].order = order, ![c].expiry[k] = e])

\* NodeData::Del, which creates no cache, and Cache::Del.
Del(w, k) ==
  /\ writer[w] = Idle
  /\ current # NoCache
  /\ writer' = [writer EXCEPT ![w] = [step |-> "del", cache |-> current, key |-> k]]
  /\ UNCHANGED <<now, heap, current, sweep, drop, written, missed>>

Erase(w) ==
  /\ writer[w].step = "del"
  /\ LET c == writer[w].cache
         k == writer[w].key
     IN  /\ written' = IF c = current THEN [written EXCEPT ![k] = -1] ELSE written
         /\ writer' = [writer EXCEPT ![w] = Idle]
         /\ UNCHANGED <<now, current, sweep, drop, missed>>
         /\ \E kept \in Erasures(heap[c].order, {k}) :
              heap' = Freed([heap EXCEPT ![c].order = kept, ![c].expiry[k] = 0])

-----------------------------------------------------------------------------
\* NodeData::CheckExpired copies caches_; Cache::CheckExpired of the copy does
\* nothing if expired_ is not set. (It reads expired_ without the lock.)
CheckExpired ==
  /\ sweep = Idle
  /\ current # NoCache
  /\ heap[current].expired
  /\ sweep' = [step |-> "sleep", cache |-> current, last_key |-> << >>,
               start |-> now, disturbed |-> FALSE]
  /\ UNCHANGED <<now, heap, current, writer, drop, written, missed>>

\* The time of a batch is read before the lock is taken.
ReadTime ==
  /\ sweep.step = "sleep"
  /\ sweep' = [step |-> "batch", cache |-> sweep.cache, last_key |-> sweep.last_key,
               start |-> sweep.start, disturbed |-> sweep.disturbed, time |-> now]
  /\ UNCHANGED <<now, heap, current, writer, drop, written, missed>>

Due(cache, k, time) == cache.expiry[k] # 0 /\ cache.expiry[k] <= time

\* Mutant of First: a sweep whose last_key is gone has come to its end.
FirstOrEnd(order) ==
  IF sweep.last_key = << >> THEN 1
  ELSE IF Contains(order, sweep.last_key[1])
  THEN CHOOSE i \in DOMAIN order : order[i] = sweep.last_key[1]
  ELSE Len(order) + 1

\* Where a batch begins: at last_key, or at the beginning if that is gone.
First(order) ==
  IF sweep.last_key # << >> /\ Contains(order, sweep.last_key[1])
  THEN CHOOSE i \in DOMAIN order : order[i] = sweep.last_key[1]
  ELSE 1

\* A batch under the lock: up to Batch keys are looked at, those that are due are
\* erased, and the key after them is where the next batch begins.
SweepBatch ==
  /\ sweep.step = "batch"
  /\ LET c == sweep.cache
         order == heap[c].order
         first == First(order)
         gone == {order[i] : i \in {j \in first .. first + Batch - 1 :
                    j \in DOMAIN order /\ Due(heap[c], order[j], sweep.time)}}
         ended == first + Batch > Len(order)
     IN  /\ sweep' = IF ended THEN Idle
                     ELSE [step |-> "sleep", cache |-> c, last_key |-> <<order[first + Batch]>>,
                           start |-> sweep.start, disturbed |-> sweep.disturbed]
         /\ missed' = (ended /\ ~sweep.disturbed
                         /\ \E k \in ToSet(order) \ gone : Due(heap[c], k, sweep.start))
         /\ UNCHANGED <<now, current, writer, drop, written>>
         /\ \E kept \in Erasures(order, gone) :
              heap' = Freed([heap EXCEPT ![c].order = kept,
                                         ![c].expiry = [k \in Key |-> IF k \in gone THEN 0 ELSE @[k]]])

-----------------------------------------------------------------------------
\* Mutant of ClearTables: the caches are cleared where they are.
ClearTablesInPlace ==
  /\ drop = NoCache /\ current # NoCache
  /\ drop' = current
  /\ written' = [k \in Key |-> -1]
  /\ UNCHANGED <<now, heap, current, writer, sweep, missed>>

\* DropTable of the DropTabler: ClearTables takes the cache out of caches_, then
\* Cache::Clear empties it.
ClearTables ==
  /\ drop = NoCache /\ current # NoCache
  /\ drop' = current
  /\ current' = NoCache
  /\ written' = [k \in Key |-> -1]
  /\ UNCHANGED <<now, heap, writer, sweep, missed>>

Clear ==
  /\ drop # NoCache
  /\ drop' = NoCache
  /\ heap' = [heap EXCEPT ![drop] = EmptyCache]
  /\ UNCHANGED <<now, current, writer, sweep, written, missed>>

Tick ==
  /\ now < load.time
  /\ now' = now + 1
  /\ UNCHANGED <<heap, current, writer, sweep, drop, written, missed>>

Next ==
  /\ \/ \E w \in load.writers :
          \/ \E k \in load.keys, ttl \in Ttls : Set(w, k, ttl)
          \/ CreateCache(w) \/ SetExpiry(w) \/ Write(w)
          \/ \E k \in load.keys : Del(w, k)
          \/ Erase(w)
     \/ CheckExpired \/ ReadTime \/ SweepBatch
     \/ ClearTables \/ Clear
     \/ Tick
  /\ UNCHANGED load

Spec == Init /\ [][Next]_vars

-----------------------------------------------------------------------------
\* A key written into the partition stays in the cache that requests find, until
\* it is deleted, expires or the table is dropped: neither two threads that
\* create the cache at once nor a sweep or a DropTabler that still works on an
\* older cache of the partition loses it.
WritesKept ==
  \A k \in Key :
    written[k] = 0 \/ written[k] > now =>
      /\ current # NoCache
      /\ Contains(heap[current].order, k)
      /\ heap[current].expiry[k] = written[k]

\* If the cache that requests find has a key that expires then expired_ is set,
\* although Set raises it before it takes the lock and Clear lowers it: otherwise
\* CheckExpired would pass the cache by.
FlagCovers ==
  current # NoCache =>
    \A k \in ToSet(heap[current].order) :
      heap[current].expiry[k] # 0 => heap[current].expired

\* A sweep during which nothing is written leaves no key that was due when it
\* began, although it lets the lock go between batches and keys are deleted then,
\* the one it was to go on with included.
SweepComplete == ~missed

=============================================================================

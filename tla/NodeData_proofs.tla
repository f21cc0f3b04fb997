-------------------------- MODULE NodeData_proofs ---------------------------
(* No write is lost, the flag covers and a sweep is complete: for any keys,  *)
(* request threads, caches, batch size and clock.                            *)
EXTENDS NodeData, FiniteSetTheorems, TLAPS

IsOrder(s) == s \in Seq(Key) /\ \A i, j \in DOMAIN s : s[i] = s[j] => i = j

\* An order of a finite set has its elements and no other, each once.
LEMMA SetToSeqsOrder ==
  ASSUME NEW S, IsFiniteSet(S), NEW s \in SetToSeqs(S)
  PROVE  /\ s \in Seq(S) /\ ToSet(s) = S
         /\ \A i, j \in DOMAIN s : s[i] = s[j] => i = j
<1> DEFINE n == Cardinality(S)
           T == ToSet(s)
<1>1. n \in Nat
  BY FS_CardinalityType
<1>2. /\ s \in [1 .. n -> S]
      /\ \A i, j \in 1 .. n : i # j => s[i] # s[j]
  BY DEF SetToSeqs
<1>3. T \subseteq S
  BY <1>2 DEF ToSet
<1>4. IsFiniteSet(T) /\ Cardinality(T) = n
  <2>1. s \in [1 .. n -> T]
    BY <1>2 DEF ToSet
  <2>2. \A t \in T : \E i \in 1 .. n : s[i] = t
    BY <1>2 DEF ToSet
  <2>3. s \in Bijection(1 .. n, T)
    BY <1>2, <2>1, <2>2 DEF Bijection, Injection, Surjection, IsInjective
  <2>4. IsFiniteSet(1 .. n) /\ Cardinality(1 .. n) = n
    BY <1>1, FS_Interval
  <2>5. ExistsBijection(1 .. n, T)
    BY <2>3 DEF ExistsBijection
  <2> HIDE DEF T, n
  <2> QED BY <2>4, <2>5, FS_Bijection
<1>5. T = S
  <2> HIDE DEF T
  <2> QED BY <1>3, <1>4, FS_Subset
<1> QED
  BY <1>1, <1>2, <1>5

LEMMA ContainsSet ==
  ASSUME NEW s, IsOrder(s), NEW e
  PROVE  Contains(s, e) <=> e \in ToSet(s)
  BY DEF IsOrder, Contains, ToSet

\* A sequence of keys has finitely many of them.
LEMMA OrderFinite ==
  ASSUME NEW s \in Seq(Key)
  PROVE  IsFiniteSet(ToSet(s)) /\ ToSet(s) \subseteq Key
<1>1. Len(s) \in Nat /\ s \in [1 .. Len(s) -> Key]
  OBVIOUS
<1>2. IsFiniteSet(1 .. Len(s))
  BY <1>1, FS_Interval
<1>3. s \in Surjection(1 .. Len(s), ToSet(s))
  BY <1>1 DEF Surjection, ToSet
<1>4. IsFiniteSet(ToSet(s))
  BY <1>2, <1>3, FS_Surjection
<1> QED
  BY <1>1, <1>4 DEF ToSet

\* A write adds its key, wherever it comes in the order.
LEMMA OrdersAdd ==
  ASSUME NEW s, IsOrder(s), NEW k \in Key, NEW order \in Orders(s, k)
  PROVE  IsOrder(order) /\ ToSet(order) = ToSet(s) \cup {k}
<1>1. s \in Seq(Key) /\ IsFiniteSet(ToSet(s)) /\ ToSet(s) \subseteq Key
  BY OrderFinite DEF IsOrder
<1>2. CASE Contains(s, k)
  <2>1. k \in ToSet(s)
    BY <1>1, <1>2 DEF Contains, ToSet
  <2> QED BY <1>2, <2>1 DEF Orders
<1>3. CASE ~Contains(s, k)
  <2>1. IsFiniteSet(ToSet(s) \cup {k})
    BY <1>1, FS_AddElement
  <2>2. order \in SetToSeqs(ToSet(s) \cup {k})
    BY <1>3 DEF Orders
  <2>3. /\ order \in Seq(ToSet(s) \cup {k}) /\ ToSet(order) = ToSet(s) \cup {k}
        /\ \A i, j \in DOMAIN order : order[i] = order[j] => i = j
    BY <2>1, <2>2, SetToSeqsOrder
  <2>4. order \in Seq(Key)
    BY <1>1, <2>3
  <2> QED BY <2>3, <2>4 DEF IsOrder
<1> QED
  BY <1>2, <1>3

\* What is erased is gone, the rest stays, and what came before a key that
\* stays came before it already.
LEMMA ErasuresRemove ==
  ASSUME NEW s, IsOrder(s), NEW gone, NEW kept \in Erasures(s, gone)
  PROVE  /\ IsOrder(kept) /\ ToSet(kept) = ToSet(s) \ gone
         /\ \A i, j \in DOMAIN kept : i < j =>
              \E k, l \in DOMAIN s : k < l /\ s[k] = kept[i] /\ s[l] = kept[j]
<1>1. s \in Seq(Key) /\ IsFiniteSet(ToSet(s)) /\ ToSet(s) \subseteq Key
  BY OrderFinite DEF IsOrder
<1>2. IsFiniteSet(ToSet(s) \ gone)
  BY <1>1, FS_Subset
<1>3. kept \in SetToSeqs(ToSet(s) \ gone)
  BY DEF Erasures
<1>4. /\ kept \in Seq(ToSet(s) \ gone) /\ ToSet(kept) = ToSet(s) \ gone
      /\ \A i, j \in DOMAIN kept : kept[i] = kept[j] => i = j
  BY <1>2, <1>3, SetToSeqsOrder
<1>5. kept \in Seq(Key)
  BY <1>1, <1>4
<1> QED
  BY <1>4, <1>5 DEF IsOrder, Erasures

-----------------------------------------------------------------------------
CacheType == [order : Seq(Key), expiry : [Key -> Nat], expired : BOOLEAN]

WriterType ==
  {Idle}
    \cup [step : {"create"}, cache : {NoCache}, key : Key, ttl : Nat]
    \cup [step : {"found"}, cache : Caches, key : Key, ttl : Nat]
    \cup [step : {"write"}, cache : Caches, key : Key, expiry : Nat]
    \cup [step : {"del"}, cache : Caches, key : Key]

SweepType ==
  {Idle}
    \cup [step : {"sleep"}, cache : Caches, last_key : Seq(Key), start : Nat,
          disturbed : BOOLEAN]
    \cup [step : {"batch"}, cache : Caches, last_key : Seq(Key), start : Nat,
          disturbed : BOOLEAN, time : Nat]

TypeInv ==
  /\ now \in Nat
  /\ heap \in [Caches -> CacheType]
  /\ \A c \in Caches : IsOrder(heap[c].order)
  /\ current \in Caches \cup {NoCache} /\ drop \in Caches \cup {NoCache}
  /\ writer \in [Writer -> WriterType]
  /\ sweep \in SweepType
  /\ written \in [Key -> Int]
  /\ missed \in BOOLEAN
  /\ load \in Loads

\* The cache the DropTabler has taken out is not found by requests again.
DropInv == drop # NoCache => drop # current

\* A thread that has raised expired_ of the cache that requests find, and not
\* written yet, still finds it raised.
RaisedInv ==
  current # NoCache =>
    \A w \in Writer :
      writer[w].step = "write" /\ writer[w].cache = current /\ writer[w].expiry # 0
        => heap[current].expired

\* The sweep's clock does not run ahead, and what is before the place where an
\* undisturbed sweep goes on was not due when it began.
SweepInv ==
  /\ sweep # Idle => sweep.start <= now
  /\ sweep.step = "batch" => sweep.start <= sweep.time /\ sweep.time <= now
  /\ sweep # Idle /\ ~sweep.disturbed =>
       \A j \in DOMAIN heap[sweep.cache].order :
         j < First(heap[sweep.cache].order) =>
           ~Due(heap[sweep.cache], heap[sweep.cache].order[j], sweep.start)

\* The inductive invariant.
Inv == /\ TypeInv /\ DropInv /\ RaisedInv /\ SweepInv
       /\ WritesKept /\ FlagCovers /\ SweepComplete

-----------------------------------------------------------------------------
LEMMA EmptyCacheType == EmptyCache \in CacheType /\ IsOrder(EmptyCache.order)
  BY DEF EmptyCache, CacheType, IsOrder

LEMMA InitInv == Init => Inv
<1> SUFFICES ASSUME Init PROVE Inv
  OBVIOUS
<1>1. TypeInv
  <2>1. Idle \in WriterType /\ Idle \in SweepType
    BY DEF WriterType, SweepType
  <2>2. heap \in [Caches -> CacheType] /\ \A c \in Caches : IsOrder(heap[c].order)
    BY EmptyCacheType DEF Init
  <2>3. writer \in [Writer -> WriterType] /\ sweep \in SweepType
    BY <2>1 DEF Init
  <2>4. now \in Nat /\ written \in [Key -> Int]
    BY DEF Init
  <2>5. missed \in BOOLEAN /\ current \in {NoCache} /\ drop \in {NoCache} /\ load \in Loads
    BY DEF Init
  <2> QED BY <2>2, <2>3, <2>4, <2>5 DEF TypeInv
<1>2. DropInv /\ RaisedInv /\ SweepInv
  BY DEF Init, DropInv, RaisedInv, SweepInv, Idle
<1>3. WritesKept /\ FlagCovers /\ SweepComplete
  BY DEF Init, WritesKept, FlagCovers, SweepComplete, NoCache
<1> QED
  BY <1>1, <1>2, <1>3 DEF Inv

\* The caches somebody has a CachePtr to are not freed.
LEMMA FreedHeap ==
  ASSUME NEW h \in [Caches -> CacheType], \A c \in Caches : IsOrder(h[c].order),
         heap' = Freed(h)
  PROVE  /\ heap' \in [Caches -> CacheType]
         /\ \A c \in Caches : IsOrder(heap'[c].order)
         /\ \A w \in Writer : writer'[w].cache \in Caches =>
              heap'[writer'[w].cache] = h[writer'[w].cache]
         /\ sweep'.cache \in Caches => heap'[sweep'.cache] = h[sweep'.cache]
         /\ current' \in Caches => heap'[current'] = h[current']
<1>1. heap' = [c \in Caches |-> IF c \in Held' THEN h[c] ELSE EmptyCache]
  BY DEF Freed
<1>2. /\ \A w \in Writer : writer'[w].cache \in Held'
      /\ sweep'.cache \in Held' /\ current' \in Held'
  BY DEF Held
<1> QED
  BY <1>1, <1>2, EmptyCacheType

\* What a request thread and the sweep hold at each step.
LEMMA WriterFacts ==
  ASSUME TypeInv, NEW w \in Writer
  PROVE  /\ writer[w] = Idle \/ writer[w].step \in {"create", "found", "write", "del"}
         /\ writer[w].cache \in Caches \cup {NoCache}
         /\ writer[w].step # "idle" => writer[w].key \in Key
         /\ writer[w].step = "create" => writer[w].ttl \in Nat /\ writer[w].cache = NoCache
         /\ writer[w].step = "found" => writer[w].ttl \in Nat /\ writer[w].cache \in Caches
         /\ writer[w].step = "write" => writer[w].expiry \in Nat /\ writer[w].cache \in Caches
         /\ writer[w].step = "del" => writer[w].cache \in Caches
<1>1. writer[w] \in WriterType
  BY DEF TypeInv
<1> QED
  BY <1>1 DEF WriterType, Idle

LEMMA SweepFacts ==
  ASSUME TypeInv
  PROVE  /\ sweep = Idle \/ sweep.step \in {"sleep", "batch"}
         /\ sweep.cache \in Caches \cup {NoCache}
         /\ sweep # Idle => /\ sweep.cache \in Caches /\ sweep.last_key \in Seq(Key)
                            /\ sweep.start \in Nat /\ sweep.disturbed \in BOOLEAN
         /\ sweep.step = "batch" => sweep.time \in Nat
<1>1. sweep \in SweepType
  BY DEF TypeInv
<1> QED
  BY <1>1 DEF SweepType, Idle

LEMMA CachesFacts == NoCache \notin Caches /\ Idle.cache = NoCache /\ Idle.step = "idle"
  BY DEF Caches, NoCache, Idle

-----------------------------------------------------------------------------
\* NodeData::Set, the first lookup.
LEMMA SetKeeps ==
  ASSUME Inv, UNCHANGED load, NEW w \in Writer, NEW k \in Key, NEW ttl \in Ttls, Set(w, k, ttl)
  PROVE  Inv'
<1>1. UNCHANGED <<now, heap, current, sweep, drop, written, missed, load>>
  BY DEF Set
<1> DEFINE r == [step |-> IF current = NoCache THEN "create" ELSE "found",
                 cache |-> current, key |-> k, ttl |-> ttl]
<1>2. writer' = [writer EXCEPT ![w] = r] /\ r.step # "write"
  BY DEF Set
<1>3. r \in WriterType
  BY TtlsAssumption DEF WriterType, Inv, TypeInv
<1> HIDE DEF r
<1>4. TypeInv'
  BY <1>1, <1>2, <1>3 DEF Inv, TypeInv
<1>5. RaisedInv'
  BY <1>1, <1>2 DEF Inv, RaisedInv, TypeInv
<1> QED
  BY <1>1, <1>4, <1>5 DEF Inv, DropInv, SweepInv, First, WritesKept, FlagCovers, SweepComplete

\* NodeData::Del, the lookup.
LEMMA DelKeeps ==
  ASSUME Inv, UNCHANGED load, NEW w \in Writer, NEW k \in Key, Del(w, k)
  PROVE  Inv'
<1>1. UNCHANGED <<now, heap, current, sweep, drop, written, missed, load>>
  BY DEF Del
<1> DEFINE r == [step |-> "del", cache |-> current, key |-> k]
<1>2. writer' = [writer EXCEPT ![w] = r] /\ r.step # "write" /\ current # NoCache
  BY DEF Del
<1>3. r \in WriterType
  BY <1>2 DEF WriterType, Inv, TypeInv
<1> HIDE DEF r
<1>4. TypeInv'
  BY <1>1, <1>2, <1>3 DEF Inv, TypeInv
<1>5. RaisedInv'
  BY <1>1, <1>2 DEF Inv, RaisedInv, TypeInv
<1> QED
  BY <1>1, <1>4, <1>5 DEF Inv, DropInv, SweepInv, First, WritesKept, FlagCovers, SweepComplete

\* The rest of GetCache: a new cache is one that nobody holds.
LEMMA CreateCacheKeeps ==
  ASSUME Inv, UNCHANGED load, NEW w \in Writer, CreateCache(w)
  PROVE  Inv'
<1>1. /\ UNCHANGED <<now, sweep, drop, written, missed, load>>
      /\ writer[w].step = "create" /\ writer[w].key \in Key /\ writer[w].ttl \in Nat
  BY WriterFacts DEF CreateCache, Inv
<1>2. /\ heap' \in [Caches -> CacheType] /\ \A c \in Caches : IsOrder(heap'[c].order)
      /\ current' \in Caches
      /\ \A c \in Held \ {NoCache} : heap'[c] = heap[c]
      /\ \/ current # NoCache /\ current' = current
         \/ current = NoCache /\ current' \notin Held /\ heap'[current'] = EmptyCache
  <2>1. CASE current # NoCache
    BY <2>1 DEF CreateCache, Inv, TypeInv
  <2>2. CASE current = NoCache
    <3>1. PICK c \in (1 .. load.caches) \ Held : current' = c /\ heap' = [heap EXCEPT ![c] = EmptyCache]
      BY <2>2 DEF CreateCache
    <3>2. c \in Caches
      BY <3>1, LoadsAssumption DEF Inv, TypeInv, Caches
    <3> QED BY <2>2, <3>1, <3>2, EmptyCacheType DEF Inv, TypeInv
  <2> QED BY <2>1, <2>2
<1> DEFINE r == [writer[w] EXCEPT !.step = "found", !.cache = current']
<1>3. writer' = [writer EXCEPT ![w] = r]
  BY DEF CreateCache
<1>4. r \in WriterType /\ r.step # "write"
  <2>1. writer[w] \in [step : {"create"}, cache : {NoCache}, key : Key, ttl : Nat]
    BY <1>1 DEF Inv, TypeInv, WriterType, Idle
  <2>2. r \in [step : {"found"}, cache : Caches, key : Key, ttl : Nat]
    BY <1>2, <2>1
  <2> QED BY <2>2 DEF WriterType
<1> HIDE DEF r
<1>5. TypeInv'
  BY <1>1, <1>2, <1>3, <1>4 DEF Inv, TypeInv
<1>6. DropInv'
  BY <1>1, <1>2 DEF Inv, DropInv, Held
<1>7. RaisedInv'
  <2> SUFFICES ASSUME NEW v \in Writer, writer'[v].step = "write", writer'[v].cache = current',
                      writer'[v].expiry # 0
               PROVE  heap'[current'].expired
    BY DEF RaisedInv
  <2>1. v # w /\ writer'[v] = writer[v]
    BY <1>3, <1>4 DEF Inv, TypeInv
  <2>2. current' \in Held
    BY <2>1 DEF Held
  <2> QED BY <1>2, <2>1, <2>2, CachesFacts DEF Inv, RaisedInv
<1>8. SweepInv'
  <2>1. sweep # Idle => heap'[sweep.cache] = heap[sweep.cache]
    BY <1>2, SweepFacts, CachesFacts DEF Held, Inv
  <2> QED BY <1>1, <2>1 DEF Inv, SweepInv, First
<1>9. WritesKept'
  <2>1. CASE current # NoCache
    BY <1>1, <1>2, <2>1 DEF Inv, WritesKept, Held
  <2>2. CASE current = NoCache
    BY <1>1, <2>2 DEF Inv, WritesKept
  <2> QED BY <2>1, <2>2
<1>10. FlagCovers'
  <2>1. CASE current # NoCache
    BY <1>1, <1>2, <2>1 DEF Inv, FlagCovers, Held
  <2>2. CASE current = NoCache
    BY <1>2, <2>2 DEF FlagCovers, EmptyCache, ToSet
  <2> QED BY <2>1, <2>2
<1> QED
  BY <1>1, <1>5, <1>6, <1>7, <1>8, <1>9, <1>10 DEF Inv, SweepComplete

-----------------------------------------------------------------------------
\* Cache::Set before its lock.
LEMMA SetExpiryKeeps ==
  ASSUME Inv, UNCHANGED load, NEW w \in Writer, SetExpiry(w)
  PROVE  Inv'
<1> DEFINE ttl == writer[w].ttl
           c == writer[w].cache
           r == [step |-> "write", cache |-> c, key |-> writer[w].key,
                 expiry |-> IF ttl > 0 THEN now + ttl ELSE 0]
<1>1. /\ UNCHANGED <<now, current, sweep, drop, written, missed, load>>
      /\ heap' = [heap EXCEPT ![c].expired = @ \/ ttl > 0]
      /\ writer' = [writer EXCEPT ![w] = r]
  BY DEF SetExpiry
<1>2. writer[w].key \in Key /\ ttl \in Nat /\ c \in Caches /\ now \in Nat
  BY WriterFacts DEF SetExpiry, Inv, TypeInv
<1>3. r \in WriterType /\ r.cache = c /\ (r.expiry # 0 => ttl > 0)
  BY <1>2 DEF WriterType
<1> HIDE DEF ttl, c, r
<1>4. /\ heap' \in [Caches -> CacheType]
      /\ \A d \in Caches : /\ heap'[d].order = heap[d].order /\ heap'[d].expiry = heap[d].expiry
                           /\ heap[d].expired => heap'[d].expired
      /\ ttl > 0 => heap'[c].expired
  BY <1>1, <1>2 DEF Inv, TypeInv, CacheType
<1>5. TypeInv'
  BY <1>1, <1>3, <1>4 DEF Inv, TypeInv
<1>6. RaisedInv'
  BY <1>1, <1>3, <1>4 DEF Inv, RaisedInv, TypeInv
<1>7. SweepInv'
  <2>1. sweep # Idle => /\ heap'[sweep.cache].order = heap[sweep.cache].order
                        /\ heap'[sweep.cache].expiry = heap[sweep.cache].expiry
    BY <1>4, SweepFacts DEF Inv
  <2>2. \A order : First(order)' = First(order)
    BY <1>1 DEF First
  <2> QED BY <1>1, <2>1, <2>2 DEF Inv, SweepInv, Due
<1>8. WritesKept' /\ FlagCovers'
  BY <1>1, <1>4 DEF Inv, TypeInv, WritesKept, FlagCovers
<1> QED
  BY <1>1, <1>5, <1>6, <1>7, <1>8 DEF Inv, DropInv, SweepComplete

\* Cache::Set under its lock.
LEMMA WriteKeeps ==
  ASSUME Inv, UNCHANGED load, NEW w \in Writer, Write(w)
  PROVE  Inv'
<1> DEFINE c == writer[w].cache
           k == writer[w].key
           e == writer[w].expiry
<1>1. /\ UNCHANGED <<now, current, drop, missed, load>>
      /\ written' = IF c = current THEN [written EXCEPT ![k] = e] ELSE written
      /\ sweep' = IF sweep.cache = c THEN [sweep EXCEPT !.disturbed = TRUE] ELSE sweep
      /\ writer' = [writer EXCEPT ![w] = Idle]
      /\ writer[w].step = "write"
  BY DEF Write
<1>2. k \in Key /\ e \in Nat /\ c \in Caches
  BY <1>1, WriterFacts DEF Inv
<1>3. PICK order \in Orders(heap[c].order, k) :
        heap' = Freed([heap EXCEPT ![c].order = order, ![c].expiry[k] = e])
  BY DEF Write
<1>4. IsOrder(order) /\ ToSet(order) = ToSet(heap[c].order) \cup {k}
  BY <1>2, <1>3, OrdersAdd DEF Inv, TypeInv
<1> DEFINE h == [heap EXCEPT ![c].order = order, ![c].expiry[k] = e]
<1> HIDE DEF c, k, e
<1>5. /\ h \in [Caches -> CacheType] /\ \A d \in Caches : IsOrder(h[d].order)
      /\ \A d \in Caches \ {c} : h[d] = heap[d]
      /\ h[c].order = order /\ h[c].expiry = [heap[c].expiry EXCEPT ![k] = e]
      /\ h[c].expired = heap[c].expired
  <2>1. heap \in [Caches -> CacheType] /\ heap[c] \in CacheType
    BY <1>2 DEF Inv, TypeInv
  <2>2. /\ \A d \in Caches \ {c} : h[d] = heap[d]
        /\ h[c].order = order /\ h[c].expired = heap[c].expired
        /\ h[c].expiry = [heap[c].expiry EXCEPT ![k] = e]
    BY <1>2, <2>1 DEF CacheType
  <2>3. h[c] \in CacheType
    BY <1>2, <1>4, <2>1 DEF CacheType, IsOrder
  <2>4. h \in [Caches -> CacheType]
    BY <2>1, <2>2, <2>3
  <2>5. \A d \in Caches : IsOrder(h[d].order)
    BY <1>4, <2>2 DEF Inv, TypeInv
  <2> QED BY <2>2, <2>4, <2>5
<1> HIDE DEF h
<1>6. /\ heap' \in [Caches -> CacheType] /\ \A d \in Caches : IsOrder(heap'[d].order)
      /\ sweep'.cache \in Caches => heap'[sweep'.cache] = h[sweep'.cache]
      /\ current' \in Caches => heap'[current'] = h[current']
  BY <1>3, <1>5, FreedHeap DEF h
<1>7. /\ sweep' \in SweepType /\ sweep'.cache = sweep.cache
      /\ sweep.cache # c => sweep' = sweep
      /\ sweep.cache = c => /\ sweep # Idle /\ sweep'.disturbed /\ sweep'.start = sweep.start
                            /\ sweep'.step = sweep.step
                            /\ sweep.step = "batch" => sweep'.time = sweep.time
  <2>1. CASE sweep.cache # c
    BY <1>1, <2>1 DEF Inv, TypeInv
  <2>2. CASE sweep.cache = c
    BY <1>1, <1>2, <2>2, CachesFacts DEF Inv, TypeInv, SweepType
  <2> QED BY <2>1, <2>2
<1>8. TypeInv'
  <2>1. writer' \in [Writer -> WriterType]
    BY <1>1 DEF Inv, TypeInv, WriterType
  <2>2. written' \in [Key -> Int]
    BY <1>1, <1>2 DEF Inv, TypeInv
  <2> QED BY <1>1, <1>6, <1>7, <2>1, <2>2 DEF Inv, TypeInv
<1>9. RaisedInv'
  <2>1. current' # NoCache => heap'[current'].expired = heap[current].expired
    BY <1>1, <1>5, <1>6 DEF Inv, TypeInv
  <2>2. \A v \in Writer : writer'[v].step = "write" => writer'[v] = writer[v]
    BY <1>1, CachesFacts DEF Inv, TypeInv
  <2> QED BY <1>1, <2>1, <2>2 DEF Inv, RaisedInv
<1>10. SweepInv'
  <2>1. CASE sweep.cache # c
    <3>1. sweep' = sweep /\ (sweep # Idle => heap'[sweep.cache] = heap[sweep.cache])
      BY <1>5, <1>6, <1>7, <2>1, SweepFacts DEF Inv
    <3> QED BY <1>1, <3>1 DEF Inv, SweepInv, First
  <2>2. CASE sweep.cache = c
    BY <1>1, <1>7, <2>2 DEF Inv, SweepInv
  <2> QED BY <2>1, <2>2
<1>11. WritesKept'
  <2> SUFFICES ASSUME NEW l \in Key, written'[l] = 0 \/ written'[l] > now'
               PROVE  /\ current' # NoCache /\ Contains(heap'[current'].order, l)
                      /\ heap'[current'].expiry[l] = written'[l]
    BY DEF WritesKept
  <2>1. CASE c # current
    <3>1. /\ written'[l] = 0 \/ written'[l] > now
          /\ current # NoCache /\ heap'[current] = heap[current]
      BY <1>1, <1>5, <1>6, <2>1 DEF Inv, TypeInv, WritesKept
    <3> QED BY <1>1, <2>1, <3>1 DEF Inv, WritesKept
  <2>2. CASE c = current
    <3>1. heap'[current] = h[c] /\ current # NoCache /\ current' = current
      BY <1>1, <1>2, <1>6, <2>2, CachesFacts
    <3>2. l \in ToSet(order)
      <4>1. CASE l = k
        BY <1>4, <4>1
      <4>2. CASE l # k
        <5>1. Contains(heap[c].order, l)
          BY <1>1, <2>2, <4>2 DEF Inv, WritesKept, TypeInv
        <5>2. l \in ToSet(heap[c].order)
          BY <1>2, <5>1 DEF Contains, ToSet, Inv, TypeInv, IsOrder
        <5> QED BY <1>4, <5>2
      <4> QED BY <4>1, <4>2
    <3>3. Contains(order, l)
      BY <1>4, <3>2 DEF Contains, ToSet, IsOrder
    <3>4. h[c].expiry[l] = written'[l]
      BY <1>1, <1>2, <1>5, <2>2 DEF Inv, TypeInv, WritesKept, CacheType
    <3> QED BY <1>5, <3>1, <3>3, <3>4
  <2> QED BY <2>1, <2>2
<1>12. FlagCovers'
  <2> SUFFICES ASSUME current' # NoCache, NEW l \in ToSet(heap'[current'].order),
                      heap'[current'].expiry[l] # 0
               PROVE  heap'[current'].expired
    BY DEF FlagCovers
  <2>1. current' = current /\ current \in Caches /\ heap'[current] = h[current]
    BY <1>1, <1>6 DEF Inv, TypeInv
  <2>2. CASE c # current
    BY <1>5, <2>1, <2>2 DEF Inv, FlagCovers
  <2>3. CASE c = current
    <3>1. CASE l = k
      <4>1. e # 0
        BY <1>2, <1>5, <2>1, <2>3, <3>1 DEF Inv, TypeInv, CacheType
      <4>2. heap[current].expired
        BY <1>1, <2>1, <2>3, <4>1 DEF Inv, RaisedInv, c, e
      <4> QED BY <1>5, <2>1, <2>3, <4>2
    <3>2. CASE l # k
      <4>1. l \in ToSet(heap[c].order)
        BY <1>4, <1>5, <2>1, <2>3, <3>2
      <4>2. l \in Key
        BY <1>2, <4>1, OrderFinite DEF Inv, TypeInv, IsOrder
      <4>3. heap[c].expiry[l] # 0
        BY <1>2, <1>5, <2>1, <2>3, <3>2, <4>2 DEF Inv, TypeInv, CacheType
      <4> QED BY <1>5, <2>1, <2>3, <4>1, <4>3 DEF Inv, FlagCovers
    <3> QED BY <3>1, <3>2
  <2> QED BY <2>2, <2>3
<1> QED
  BY <1>1, <1>8, <1>9, <1>10, <1>11, <1>12 DEF Inv, DropInv, SweepComplete

-----------------------------------------------------------------------------
\* First, of a last_key that need not be the sweep's.
Place(last_key, order) ==
  IF last_key # << >> /\ Contains(order, last_key[1])
  THEN CHOOSE i \in DOMAIN order : order[i] = last_key[1]
  ELSE 1

LEMMA PlaceFacts ==
  ASSUME NEW s, IsOrder(s), NEW last
  PROVE  /\ Place(last, s) \in Nat \ {0}
         /\ \A i \in DOMAIN s : last # << >> /\ s[i] = last[1] => Place(last, s) = i
         /\ Place(last, s) # 1 => /\ last # << >> /\ Place(last, s) \in DOMAIN s
                                  /\ s[Place(last, s)] = last[1]
<1>1. s \in Seq(Key) /\ DOMAIN s = 1 .. Len(s) /\ Len(s) \in Nat
  BY DEF IsOrder
<1>2. CASE last # << >> /\ \E i \in DOMAIN s : s[i] = last[1]
  <2>1. Contains(s, last[1])
    BY <1>1, <1>2 DEF Contains
  <2>2. Place(last, s) = CHOOSE i \in DOMAIN s : s[i] = last[1]
    BY <1>2, <2>1 DEF Place
  <2>3. Place(last, s) \in DOMAIN s /\ s[Place(last, s)] = last[1]
    BY <1>2, <2>2
  <2> HIDE DEF Place
  <2> QED BY <1>1, <1>2, <2>3 DEF IsOrder
<1>3. CASE ~(last # << >> /\ \E i \in DOMAIN s : s[i] = last[1])
  <2>1. Place(last, s) = 1
    BY <1>1, <1>3 DEF Place, Contains
  <2> QED BY <1>3, <2>1
<1> QED
  BY <1>2, <1>3

\* Erasing brings nothing before the place where a sweep goes on.
LEMMA PlaceErased ==
  ASSUME NEW s, IsOrder(s), NEW gone, NEW kept \in Erasures(s, gone), NEW last,
         NEW j \in DOMAIN kept, j < Place(last, kept)
  PROVE  /\ last # << >> /\ kept[j] \notin gone
         /\ \E k \in DOMAIN s : s[k] = kept[j] /\ k < Place(last, s)
<1>1. /\ IsOrder(kept) /\ ToSet(kept) = ToSet(s) \ gone
      /\ \A i, l \in DOMAIN kept : i < l =>
           \E k, m \in DOMAIN s : k < m /\ s[k] = kept[i] /\ s[m] = kept[l]
  BY ErasuresRemove
<1>2. j \in 1 .. Len(kept) /\ Len(kept) \in Nat
  BY <1>1 DEF IsOrder
<1>3. /\ last # << >> /\ Place(last, kept) \in DOMAIN kept
      /\ kept[Place(last, kept)] = last[1]
  BY <1>1, <1>2, PlaceFacts
<1>4. PICK k, m \in DOMAIN s : k < m /\ s[k] = kept[j] /\ s[m] = last[1]
  BY <1>1, <1>3
<1>5. Place(last, s) = m
  BY <1>3, <1>4, PlaceFacts
<1>6. kept[j] \notin gone
  BY <1>1 DEF ToSet
<1> QED
  BY <1>3, <1>4, <1>5, <1>6

\* Cache::Del under its lock.
LEMMA EraseKeeps ==
  ASSUME Inv, UNCHANGED load, NEW w \in Writer, Erase(w)
  PROVE  Inv'
<1> DEFINE c == writer[w].cache
           k == writer[w].key
<1>1. /\ UNCHANGED <<now, current, sweep, drop, missed, load>>
      /\ written' = IF c = current THEN [written EXCEPT ![k] = -1] ELSE written
      /\ writer' = [writer EXCEPT ![w] = Idle]
      /\ writer[w].step = "del"
  BY DEF Erase
<1>2. k \in Key /\ c \in Caches
  BY <1>1, WriterFacts DEF Inv
<1>3. PICK kept \in Erasures(heap[c].order, {k}) :
        heap' = Freed([heap EXCEPT ![c].order = kept, ![c].expiry[k] = 0])
  BY DEF Erase
<1>4. IsOrder(heap[c].order) /\ IsOrder(kept) /\ ToSet(kept) = ToSet(heap[c].order) \ {k}
  BY <1>2, <1>3, ErasuresRemove DEF Inv, TypeInv
<1> DEFINE h == [heap EXCEPT ![c].order = kept, ![c].expiry[k] = 0]
<1> HIDE DEF c, k
<1>5. /\ h \in [Caches -> CacheType] /\ \A d \in Caches : IsOrder(h[d].order)
      /\ \A d \in Caches \ {c} : h[d] = heap[d]
      /\ h[c].order = kept /\ h[c].expiry = [heap[c].expiry EXCEPT ![k] = 0]
      /\ \A d \in Caches : h[d].expired = heap[d].expired
  <2>1. heap \in [Caches -> CacheType] /\ heap[c] \in CacheType
    BY <1>2 DEF Inv, TypeInv
  <2>2. /\ \A d \in Caches \ {c} : h[d] = heap[d]
        /\ h[c].order = kept /\ h[c].expired = heap[c].expired
        /\ h[c].expiry = [heap[c].expiry EXCEPT ![k] = 0]
    BY <1>2, <2>1 DEF CacheType
  <2>3. h[c] \in CacheType
    BY <1>2, <1>4, <2>1 DEF CacheType, IsOrder
  <2>4. h \in [Caches -> CacheType]
    BY <2>1, <2>2, <2>3
  <2>5. \A d \in Caches : IsOrder(h[d].order)
    BY <1>4, <2>2 DEF Inv, TypeInv
  <2> QED BY <2>2, <2>4, <2>5
<1> HIDE DEF h
<1>6. /\ heap' \in [Caches -> CacheType] /\ \A d \in Caches : IsOrder(heap'[d].order)
      /\ sweep'.cache \in Caches => heap'[sweep'.cache] = h[sweep'.cache]
      /\ current' \in Caches => heap'[current'] = h[current']
  BY <1>3, <1>5, FreedHeap DEF h
<1>7. heap[c].expiry \in [Key -> Nat]
  BY <1>2 DEF Inv, TypeInv, CacheType
<1>8. TypeInv'
  <2>1. writer' \in [Writer -> WriterType]
    BY <1>1 DEF Inv, TypeInv, WriterType
  <2>2. written' \in [Key -> Int]
    BY <1>1, <1>2 DEF Inv, TypeInv
  <2> QED BY <1>1, <1>6, <2>1, <2>2 DEF Inv, TypeInv
<1>9. RaisedInv'
  <2>1. current' # NoCache => heap'[current'].expired = heap[current].expired
    BY <1>1, <1>5, <1>6 DEF Inv, TypeInv
  <2>2. \A v \in Writer : writer'[v].step = "write" => writer'[v] = writer[v]
    BY <1>1, CachesFacts DEF Inv, TypeInv
  <2> QED BY <1>1, <2>1, <2>2 DEF Inv, RaisedInv
<1>10. SweepInv'
  <2>1. CASE sweep.cache # c
    <3>1. sweep # Idle => heap'[sweep.cache] = heap[sweep.cache]
      BY <1>1, <1>5, <1>6, <2>1, SweepFacts DEF Inv
    <3> QED BY <1>1, <3>1 DEF Inv, SweepInv, First
  <2>2. CASE sweep.cache = c
    <3>a. heap'[sweep'.cache] = h[c] /\ h[c].order = kept /\ sweep' = sweep
      BY <1>1, <1>2, <1>5, <1>6, <2>2
    <3>b. \A order : /\ First(order) = Place(sweep.last_key, order)
                     /\ First(order)' = Place(sweep.last_key, order)
      BY <1>1 DEF First, Place
    <3> SUFFICES ASSUME ~sweep.disturbed, NEW j \in DOMAIN kept, sweep # Idle,
                        j < Place(sweep.last_key, kept)
                 PROVE  ~Due(h[c], kept[j], sweep.start)
      BY <1>1, <3>a, <3>b DEF Inv, SweepInv, Due
    <3>1. kept[j] # k /\ \E i \in DOMAIN heap[c].order :
                           heap[c].order[i] = kept[j] /\ i < First(heap[c].order)
      BY <1>3, <1>4, <3>b, PlaceErased
    <3>2. ~Due(heap[c], kept[j], sweep.start)
      BY <2>2, <3>1 DEF Inv, SweepInv
    <3>3. kept[j] \in Key
      BY <1>4 DEF IsOrder
    <3> QED BY <1>2, <1>5, <1>7, <3>1, <3>2, <3>3 DEF Due
  <2> QED BY <2>1, <2>2
<1>11. WritesKept'
  <2> SUFFICES ASSUME NEW l \in Key, written'[l] = 0 \/ written'[l] > now'
               PROVE  /\ current' # NoCache /\ Contains(heap'[current'].order, l)
                      /\ heap'[current'].expiry[l] = written'[l]
    BY DEF WritesKept
  <2>0. now \in Nat
    BY DEF Inv, TypeInv
  <2>1. CASE c # current
    <3>1. /\ written'[l] = 0 \/ written'[l] > now
          /\ current # NoCache /\ heap'[current] = heap[current]
      BY <1>1, <1>5, <1>6, <2>1 DEF Inv, TypeInv, WritesKept
    <3> QED BY <1>1, <2>1, <3>1 DEF Inv, WritesKept
  <2>2. CASE c = current
    <3>1. heap'[current] = h[c] /\ current # NoCache /\ current' = current
      BY <1>1, <1>2, <1>6, <2>2, CachesFacts
    <3>2. l # k /\ written'[l] = written[l]
      BY <1>1, <1>2, <2>0, <2>2 DEF Inv, TypeInv
    <3>3. Contains(heap[c].order, l) /\ heap[c].expiry[l] = written[l]
      BY <1>1, <2>2, <3>2 DEF Inv, WritesKept
    <3>4. Contains(kept, l)
      BY <1>4, <3>2, <3>3, ContainsSet
    <3> QED BY <1>2, <1>5, <1>7, <3>1, <3>2, <3>3, <3>4
  <2> QED BY <2>1, <2>2
<1>12. FlagCovers'
  <2> SUFFICES ASSUME current' # NoCache, NEW l \in ToSet(heap'[current'].order),
                      heap'[current'].expiry[l] # 0
               PROVE  heap'[current'].expired
    BY DEF FlagCovers
  <2>1. current' = current /\ current \in Caches /\ heap'[current] = h[current]
    BY <1>1, <1>6 DEF Inv, TypeInv
  <2>2. CASE c # current
    BY <1>5, <2>1, <2>2 DEF Inv, FlagCovers
  <2>3. CASE c = current
    <3>1. l \in ToSet(heap[c].order) /\ l # k
      BY <1>4, <1>5, <2>1, <2>3
    <3>2. l \in Key
      BY <1>4, <3>1, OrderFinite DEF IsOrder
    <3>3. heap[c].expiry[l] # 0
      BY <1>2, <1>5, <1>7, <2>1, <2>3, <3>1, <3>2
    <3> QED BY <1>5, <2>1, <2>3, <3>1, <3>3 DEF Inv, FlagCovers
  <2> QED BY <2>2, <2>3
<1> QED
  BY <1>1, <1>8, <1>9, <1>10, <1>11, <1>12 DEF Inv, DropInv, SweepComplete

-----------------------------------------------------------------------------
\* NodeData::CheckExpired.
LEMMA CheckExpiredKeeps ==
  ASSUME Inv, UNCHANGED load, CheckExpired
  PROVE  Inv'
<1>1. /\ UNCHANGED <<now, heap, current, writer, drop, written, missed, load>>
      /\ sweep' = [step |-> "sleep", cache |-> current, last_key |-> << >>,
                   start |-> now, disturbed |-> FALSE]
      /\ current \in Caches /\ now \in Nat
  BY DEF CheckExpired, Inv, TypeInv
<1>2. sweep' \in SweepType
  BY <1>1 DEF SweepType
<1>3. TypeInv'
  BY <1>1, <1>2 DEF Inv, TypeInv
<1>4. SweepInv'
  <2>1. \A order : First(order)' = 1
    BY <1>1 DEF First
  <2>2. IsOrder(heap[current].order)
    BY <1>1 DEF Inv, TypeInv
  <2>3. \A j \in DOMAIN heap[current].order : ~(j < 1)
    BY <2>2 DEF IsOrder
  <2>4. sweep'.start <= now /\ sweep'.step # "batch" /\ sweep'.cache = current
    BY <1>1
  <2> QED BY <1>1, <2>1, <2>3, <2>4 DEF SweepInv
<1> QED
  BY <1>1, <1>3, <1>4 DEF Inv, DropInv, RaisedInv, WritesKept, FlagCovers, SweepComplete

\* The time of a batch.
LEMMA ReadTimeKeeps ==
  ASSUME Inv, UNCHANGED load, ReadTime
  PROVE  Inv'
<1>1. /\ UNCHANGED <<now, heap, current, writer, drop, written, missed, load>>
      /\ sweep' = [step |-> "batch", cache |-> sweep.cache, last_key |-> sweep.last_key,
                   start |-> sweep.start, disturbed |-> sweep.disturbed, time |-> now]
      /\ sweep # Idle /\ now \in Nat
  BY DEF ReadTime, Inv, TypeInv, Idle
<1>2. sweep' \in SweepType
  BY <1>1, SweepFacts DEF Inv, SweepType
<1>3. TypeInv'
  BY <1>1, <1>2 DEF Inv, TypeInv
<1>4. SweepInv'
  <2>1. /\ sweep'.start = sweep.start /\ sweep'.time = now /\ sweep'.cache = sweep.cache
        /\ sweep'.disturbed = sweep.disturbed /\ sweep'.last_key = sweep.last_key
    BY <1>1
  <2>2. \A order : First(order)' = First(order)
    BY <2>1 DEF First
  <2>3. sweep.start <= now
    BY <1>1 DEF Inv, SweepInv
  <2>4. ~sweep.disturbed =>
          \A j \in DOMAIN heap[sweep.cache].order :
            j < First(heap[sweep.cache].order) =>
              ~Due(heap[sweep.cache], heap[sweep.cache].order[j], sweep.start)
    BY <1>1 DEF Inv, SweepInv
  <2> HIDE DEF First
  <2>5. heap' = heap /\ now' = now /\ now <= now
    BY <1>1
  <2> QED BY <2>1, <2>2, <2>3, <2>4, <2>5 DEF SweepInv, Due
<1> QED
  BY <1>1, <1>3, <1>4 DEF Inv, DropInv, RaisedInv, WritesKept, FlagCovers, SweepComplete

\* ClearTables of the DropTabler: no write counts any more.
LEMMA ClearTablesKeeps ==
  ASSUME Inv, UNCHANGED load, ClearTables
  PROVE  Inv'
<1>1. /\ UNCHANGED <<now, heap, writer, sweep, missed, load>>
      /\ drop' = current /\ current # NoCache /\ current' = NoCache
      /\ written' = [k \in Key |-> -1] /\ now \in Nat
  BY DEF ClearTables, Inv, TypeInv
<1>2. TypeInv'
  BY <1>1 DEF Inv, TypeInv
<1>3. WritesKept'
  BY <1>1 DEF WritesKept
<1> QED
  BY <1>1, <1>2, <1>3 DEF Inv, DropInv, RaisedInv, SweepInv, First, FlagCovers, SweepComplete

\* Cache::Clear: the cache it empties is not the one that requests find.
LEMMA ClearKeeps ==
  ASSUME Inv, UNCHANGED load, Clear
  PROVE  Inv'
<1>1. /\ UNCHANGED <<now, current, writer, sweep, written, missed, load>>
      /\ drop' = NoCache /\ drop \in Caches /\ drop # current
      /\ heap' = [heap EXCEPT ![drop] = EmptyCache]
  BY DEF Clear, Inv, TypeInv, DropInv
<1>2. /\ heap' \in [Caches -> CacheType] /\ \A c \in Caches : IsOrder(heap'[c].order)
      /\ heap'[drop] = EmptyCache /\ \A c \in Caches \ {drop} : heap'[c] = heap[c]
      /\ current # NoCache => heap'[current] = heap[current]
  BY <1>1, EmptyCacheType DEF Inv, TypeInv
<1>3. TypeInv'
  BY <1>1, <1>2 DEF Inv, TypeInv
<1>4. SweepInv'
  <2>1. \A order : First(order)' = First(order)
    BY <1>1 DEF First
  <2>2. CASE sweep.cache = drop
    <3>1. DOMAIN EmptyCache.order = {}
      BY DEF EmptyCache
    <3> QED BY <1>1, <1>2, <2>2, <3>1 DEF Inv, SweepInv
  <2>3. CASE sweep.cache # drop
    <3>1. sweep # Idle => heap'[sweep.cache] = heap[sweep.cache]
      BY <1>2, <2>3, SweepFacts DEF Inv
    <3> QED BY <1>1, <2>1, <3>1 DEF Inv, SweepInv
  <2> QED BY <2>2, <2>3
<1>5. RaisedInv' /\ WritesKept' /\ FlagCovers'
  BY <1>1, <1>2 DEF Inv, RaisedInv, WritesKept, FlagCovers
<1> QED
  BY <1>1, <1>3, <1>4, <1>5 DEF Inv, DropInv, SweepComplete

LEMMA TickKeeps ==
  ASSUME Inv, UNCHANGED load, Tick
  PROVE  Inv'
<1>1. /\ UNCHANGED <<heap, current, writer, sweep, drop, written, missed, load>>
      /\ now \in Nat /\ now' = now + 1 /\ written \in [Key -> Int]
  BY DEF Tick, Inv, TypeInv
<1>2. TypeInv'
  BY <1>1 DEF Inv, TypeInv
<1>3. WritesKept'
  BY <1>1 DEF Inv, WritesKept
<1>4. SweepInv'
  <2>1. \A order : First(order)' = First(order)
    BY <1>1 DEF First
  <2>2. /\ sweep # Idle => sweep.start <= now + 1
        /\ sweep.step = "batch" => sweep.time <= now + 1
    BY <1>1, SweepFacts DEF Inv, SweepInv
  <2> QED BY <1>1, <2>1, <2>2 DEF Inv, SweepInv
<1> QED
  BY <1>1, <1>2, <1>3, <1>4 DEF Inv, DropInv, RaisedInv, FlagCovers, SweepComplete

-----------------------------------------------------------------------------
\* A batch of the sweep.
LEMMA SweepBatchKeeps ==
  ASSUME Inv, UNCHANGED load, SweepBatch
  PROVE  Inv'
<1> DEFINE c == sweep.cache
           order == heap[c].order
           first == First(order)
           gone == {order[i] : i \in {j \in first .. first + Batch - 1 :
                      j \in DOMAIN order /\ Due(heap[c], order[j], sweep.time)}}
           ended == first + Batch > Len(order)
           left == [step |-> "sleep", cache |-> c, last_key |-> <<order[first + Batch]>>,
                    start |-> sweep.start, disturbed |-> sweep.disturbed]
<1>1. /\ UNCHANGED <<now, current, writer, drop, written, load>>
      /\ sweep' = IF ended THEN Idle ELSE left
      /\ missed' = (ended /\ ~sweep.disturbed
                      /\ \E k \in ToSet(order) \ gone : Due(heap[c], k, sweep.start))
  BY DEF SweepBatch
<1>2. PICK kept \in Erasures(order, gone) :
        heap' = Freed([heap EXCEPT ![c].order = kept,
                                   ![c].expiry = [k \in Key |-> IF k \in gone THEN 0 ELSE @[k]]])
  BY DEF SweepBatch
<1>3. /\ sweep # Idle /\ c \in Caches /\ sweep.last_key \in Seq(Key) /\ sweep.start \in Nat
      /\ sweep.disturbed \in BOOLEAN /\ sweep.time \in Nat /\ now \in Nat /\ Batch \in Nat \ {0}
      /\ sweep.start <= sweep.time /\ sweep.time <= now
  BY SweepFacts, BatchAssumption, CachesFacts DEF SweepBatch, Inv, TypeInv, SweepInv
<1>4. heap[c] \in CacheType /\ IsOrder(order) /\ order \in Seq(Key)
  BY <1>3 DEF Inv, TypeInv, IsOrder
<1>5. /\ IsOrder(kept) /\ ToSet(kept) = ToSet(order) \ gone
      /\ \A i, j \in DOMAIN kept : i < j =>
           \E k, l \in DOMAIN order : k < l /\ order[k] = kept[i] /\ order[l] = kept[j]
  <2> HIDE DEF order, gone
  <2> QED BY <1>2, <1>4, ErasuresRemove
<1>6. first \in Nat \ {0} /\ DOMAIN order = 1 .. Len(order) /\ Len(order) \in Nat
  <2>1. first = Place(sweep.last_key, order)
    BY DEF First, Place
  <2>2. DOMAIN order = 1 .. Len(order) /\ Len(order) \in Nat
    BY <1>4
  <2> HIDE DEF first, order
  <2> QED BY <1>4, <2>1, <2>2, PlaceFacts
\* What is erased was due, and what was looked at and stays was not.
<1>7. /\ \A k \in gone : Due(heap[c], k, sweep.time)
      /\ \A i \in DOMAIN order : first <= i /\ i < first + Batch /\ order[i] \notin gone
                                    => ~Due(heap[c], order[i], sweep.time)
      /\ \A i \in DOMAIN order : order[i] \in gone => first <= i /\ i < first + Batch
  <2> HIDE DEF first
  <2>1. \A k \in gone : Due(heap[c], k, sweep.time)
    OBVIOUS
  <2>2. \A i \in DOMAIN order : first <= i /\ i < first + Batch => i \in first .. first + Batch - 1
    BY <1>3, <1>6
  <2>3. \A i \in first .. first + Batch - 1 : first <= i /\ i < first + Batch
    BY <1>3, <1>6
  <2>4. \A i, j \in DOMAIN order : order[i] = order[j] => i = j
    BY <1>4 DEF IsOrder
  <2> QED BY <2>1, <2>2, <2>3, <2>4
<1>8. \A i \in DOMAIN order : i < first /\ ~sweep.disturbed => ~Due(heap[c], order[i], sweep.start)
  BY <1>3 DEF Inv, SweepInv
<1> DEFINE h == [heap EXCEPT ![c].order = kept,
                             ![c].expiry = [k \in Key |-> IF k \in gone THEN 0 ELSE @[k]]]
<1> HIDE DEF c, order, first, gone, ended, left
<1>9. /\ \A k \in Key : Due(heap[c], k, sweep.start) => Due(heap[c], k, sweep.time)
      /\ sweep.start <= now
  <2>1. heap[c].expiry \in [Key -> Nat]
    BY <1>4 DEF CacheType
  <2> QED BY <1>3, <2>1 DEF Due
<1>10. /\ h \in [Caches -> CacheType] /\ \A d \in Caches : IsOrder(h[d].order)
       /\ \A d \in Caches \ {c} : h[d] = heap[d]
       /\ h[c].order = kept
       /\ \A k \in Key : h[c].expiry[k] = IF k \in gone THEN 0 ELSE heap[c].expiry[k]
       /\ \A d \in Caches : h[d].expired = heap[d].expired
  <2>1. heap \in [Caches -> CacheType]
    BY DEF Inv, TypeInv
  <2>2. /\ \A d \in Caches \ {c} : h[d] = heap[d]
        /\ h[c].order = kept /\ h[c].expired = heap[c].expired
        /\ h[c].expiry = [k \in Key |-> IF k \in gone THEN 0 ELSE heap[c].expiry[k]]
    BY <1>3, <1>4, <2>1 DEF CacheType
  <2>3. h[c] \in CacheType
    <3>1. [k \in Key |-> IF k \in gone THEN 0 ELSE heap[c].expiry[k]] \in [Key -> Nat]
      BY <1>4 DEF CacheType
    <3> DEFINE E == [k \in Key |-> IF k \in gone THEN 0 ELSE heap[c].expiry[k]]
    <3>2. h[c] = [heap[c] EXCEPT !.order = kept, !.expiry = E]
      BY <1>3, <1>4, <2>1 DEF CacheType
    <3>3. kept \in Seq(Key)
      BY <1>5 DEF IsOrder
    <3> HIDE DEF E
    <3>4. E \in [Key -> Nat]
      BY <3>1 DEF E
    <3> HIDE DEF h
    <3> QED BY <1>4, <3>2, <3>3, <3>4 DEF CacheType
  <2>4. h \in [Caches -> CacheType]
    BY <2>1, <2>2, <2>3
  <2>5. \A d \in Caches : IsOrder(h[d].order)
    BY <1>5, <2>2 DEF Inv, TypeInv
  <2> QED BY <2>2, <2>4, <2>5
<1> HIDE DEF h
<1>11. /\ heap' \in [Caches -> CacheType] /\ \A d \in Caches : IsOrder(heap'[d].order)
       /\ sweep'.cache \in Caches => heap'[sweep'.cache] = h[sweep'.cache]
       /\ current' \in Caches => heap'[current'] = h[current']
  BY <1>2, <1>10, FreedHeap DEF h
<1>12. ASSUME ~ended
       PROVE  /\ order[first + Batch] \in Key /\ first + Batch \in DOMAIN order
              /\ left \in SweepType /\ left.step = "sleep" /\ left.cache = c
              /\ left.start = sweep.start /\ left.disturbed = sweep.disturbed
              /\ left.last_key = <<order[first + Batch]>>
  <2>1. order[first + Batch] \in Key /\ first + Batch \in DOMAIN order
    BY <1>3, <1>4, <1>6, <1>12 DEF ended
  <2>2. /\ left.step = "sleep" /\ left.cache = c /\ left.start = sweep.start
        /\ left.disturbed = sweep.disturbed /\ left.last_key = <<order[first + Batch]>>
    BY DEF left
  <2>3. <<order[first + Batch]>> \in Seq(Key)
    BY <2>1
  <2>4. left \in SweepType
    BY <1>3, <2>3 DEF left, SweepType
  <2> QED BY <2>1, <2>2, <2>4
<1>13. ~missed'
  <2> SUFFICES ASSUME ended, ~sweep.disturbed, NEW k \in ToSet(order) \ gone,
                      Due(heap[c], k, sweep.start)
               PROVE  FALSE
    BY <1>1
  <2>1. PICK i \in DOMAIN order : order[i] = k
    BY DEF ToSet
  <2>2. i < first \/ (first <= i /\ i < first + Batch)
    BY <1>3, <1>6 DEF ended
  <2>3. k \in Key
    BY <1>4, <2>1
  <2> QED BY <1>7, <1>8, <1>9, <2>1, <2>2, <2>3
<1>14. TypeInv'
  <2>1. sweep' \in SweepType
    BY <1>1, <1>12 DEF SweepType
  <2>2. missed' \in BOOLEAN
    BY <1>1
  <2> QED BY <1>1, <1>11, <2>1, <2>2 DEF Inv, TypeInv
<1>15. current' # NoCache => heap'[current'].expired = heap[current].expired
  BY <1>1, <1>10, <1>11 DEF Inv, TypeInv
<1>16. SweepInv'
  <2>1. CASE ended
    BY <1>1, <2>1, CachesFacts DEF SweepInv
  <2>2. CASE ~ended
    <3>1. sweep' = left /\ heap'[left.cache] = h[c]
      BY <1>1, <1>3, <1>11, <1>12, <2>2
    <3>2. left.start <= now
      BY <1>9, <1>12, <2>2
    <3>3. \A s : First(s)' = Place(left.last_key, s)
      BY <3>1 DEF First, Place
    <3> SUFFICES ASSUME ~sweep.disturbed, NEW j \in DOMAIN kept, j < Place(left.last_key, kept)
                 PROVE  ~Due(h[c], kept[j], sweep.start)
      BY <1>1, <1>10, <1>12, <2>2, <3>1, <3>2, <3>3 DEF SweepInv
    <3>4. PICK i \in DOMAIN order : order[i] = kept[j] /\ i < Place(left.last_key, order)
      BY <1>2, <1>4, PlaceErased
    <3>5. Place(left.last_key, order) = first + Batch
      <4>1. /\ left.last_key # << >> /\ order[first + Batch] = left.last_key[1]
            /\ first + Batch \in DOMAIN order
        BY <1>12, <2>2
      <4> QED BY <1>4, <4>1, PlaceFacts
    <3>6. kept[j] \in Key /\ kept[j] \notin gone
      <4>1. kept[j] \notin gone
        BY <1>2, <1>4, PlaceErased
      <4> QED BY <1>5, <4>1 DEF IsOrder
    <3>7. i < first \/ (first <= i /\ i < first + Batch)
      BY <1>3, <1>6, <3>4, <3>5
    <3>8. ~Due(heap[c], kept[j], sweep.start)
      BY <1>7, <1>8, <1>9, <3>4, <3>6, <3>7
    <3> QED BY <1>10, <3>6, <3>8 DEF Due
  <2> QED BY <2>1, <2>2
<1>17. WritesKept'
  <2> SUFFICES ASSUME NEW l \in Key, written[l] = 0 \/ written[l] > now
               PROVE  /\ current # NoCache /\ Contains(heap'[current].order, l)
                      /\ heap'[current].expiry[l] = written[l]
    BY <1>1 DEF WritesKept
  <2>1. /\ current # NoCache /\ Contains(heap[current].order, l)
        /\ heap[current].expiry[l] = written[l]
        /\ current \in Caches /\ heap'[current] = h[current]
    BY <1>1, <1>11 DEF Inv, WritesKept, TypeInv
  <2>2. CASE c # current
    BY <1>10, <2>1, <2>2
  <2>3. CASE c = current
    <3>1. written[l] \in Int
      BY DEF Inv, TypeInv
    <3>2. ~Due(heap[c], l, sweep.time)
      <4>1. written[l] = 0 \/ ~(written[l] <= sweep.time)
        BY <1>3, <3>1
      <4> QED BY <2>1, <2>3, <4>1 DEF Due
    <3>3. l \notin gone
      BY <1>7, <3>2
    <3>4. Contains(kept, l)
      BY <1>4, <1>5, <2>1, <2>3, <3>3, ContainsSet DEF order
    <3> QED BY <1>10, <2>1, <2>3, <3>3, <3>4
  <2> QED BY <2>2, <2>3
<1>18. FlagCovers'
  <2> SUFFICES ASSUME current # NoCache, NEW l \in ToSet(heap'[current].order),
                      heap'[current].expiry[l] # 0
               PROVE  heap[current].expired
    BY <1>1, <1>15 DEF FlagCovers
  <2>1. current \in Caches /\ heap'[current] = h[current]
    BY <1>1, <1>11 DEF Inv, TypeInv
  <2>2. CASE c # current
    BY <1>10, <2>1, <2>2 DEF Inv, FlagCovers
  <2>3. CASE c = current
    <3>1. l \in ToSet(order) /\ l \notin gone
      BY <1>5, <1>10, <2>1, <2>3
    <3>2. l \in Key
      BY <1>4, <3>1, OrderFinite
    <3>3. heap[c].expiry[l] # 0
      BY <1>10, <2>1, <2>3, <3>1, <3>2
    <3> QED BY <2>3, <3>1, <3>3 DEF Inv, FlagCovers, order
  <2> QED BY <2>2, <2>3
<1> QED
  BY <1>1, <1>13, <1>14, <1>15, <1>16, <1>17, <1>18 DEF Inv, DropInv, RaisedInv, SweepComplete

-----------------------------------------------------------------------------
LEMMA InvStep == Inv /\ [Next]_vars => Inv'
<1> SUFFICES ASSUME Inv, [Next]_vars PROVE Inv'
  OBVIOUS
<1>1. load.writers \subseteq Writer /\ load.keys \subseteq Key
  BY LoadsAssumption DEF Inv, TypeInv
<1>2. CASE UNCHANGED vars
  BY <1>2 DEF vars, Inv, TypeInv, DropInv, RaisedInv, SweepInv, First, WritesKept, FlagCovers,
              SweepComplete
<1>3. ASSUME NEW w \in load.writers, NEW k \in load.keys, NEW ttl \in Ttls, Set(w, k, ttl),
             UNCHANGED load
      PROVE  Inv'
  BY <1>1, <1>3, SetKeeps
<1>4. ASSUME NEW w \in load.writers, NEW k \in load.keys, Del(w, k), UNCHANGED load
      PROVE  Inv'
  BY <1>1, <1>4, DelKeeps
<1>5. ASSUME NEW w \in load.writers, CreateCache(w) \/ SetExpiry(w) \/ Write(w) \/ Erase(w),
             UNCHANGED load
      PROVE  Inv'
  BY <1>1, <1>5, CreateCacheKeeps, SetExpiryKeeps, WriteKeeps, EraseKeeps
<1>6. ASSUME CheckExpired \/ ReadTime \/ SweepBatch, UNCHANGED load
      PROVE  Inv'
  BY <1>6, CheckExpiredKeeps, ReadTimeKeeps, SweepBatchKeeps
<1>7. ASSUME ClearTables \/ Clear \/ Tick, UNCHANGED load
      PROVE  Inv'
  BY <1>7, ClearTablesKeeps, ClearKeeps, TickKeeps
<1> QED
  BY <1>2, <1>3, <1>4, <1>5, <1>6, <1>7 DEF Next

LEMMA AlwaysInv == Spec => []Inv
  BY InitInv, InvStep, PTL DEF Spec

\* NodeData::GetCache, Set, Del, CheckExpired and ClearTables together lose no
\* write: whatever the threads, the sweep and the DropTabler do between, a key
\* written stays until it is deleted, expires or the table is dropped.
THEOREM NoWriteLost == Spec => []WritesKept
<1>1. Inv => WritesKept
  BY DEF Inv
<1> QED
  BY <1>1, AlwaysInv, PTL

\* Cache::CheckExpired never passes by a cache in use that has a key to expire,
\* although Cache::Set raises expired_ before it takes the lock.
THEOREM ExpiryFlagCovers == Spec => []FlagCovers
<1>1. Inv => FlagCovers
  BY DEF Inv
<1> QED
  BY <1>1, AlwaysInv, PTL

\* Cache::CheckExpired, in batches of any size that go on at last_key, leaves no
\* key that was due when it began if nothing is written meanwhile.
THEOREM SweepMissesNothing == Spec => []SweepComplete
<1>1. Inv => SweepComplete
  BY DEF Inv
<1> QED
  BY <1>1, AlwaysInv, PTL
=============================================================================

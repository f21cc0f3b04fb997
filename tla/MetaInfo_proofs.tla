-------------------------- MODULE MetaInfo_proofs ---------------------------
(* Lemmas about the operators of MetaInfo: what each of them preserves.      *)
EXTENDS MetaInfo, FiniteSetTheorems, NaturalsInduction, WellFoundedInduction, TLAPS

\* Every nonempty set of naturals has a least element: induction over the
\* loops below is by least counterexample.
LEMMA LeastNat ==
  ASSUME NEW T \in SUBSET Nat, T # {}
  PROVE  \E k \in T : \A l \in T : k <= l
<1>1. PICK k \in T : \A l \in T : <<l, k>> \notin OpToRel(<, Nat)
  BY NatLessThanWellFounded, WFMin
<1>2. \A l \in T : ~(l < k)
  BY <1>1 DEF OpToRel
<1> QED
  BY <1>2

\* A set that holds before the first round of a loop and that every round
\* stays in holds after every round.
LEMMA LoopInvariant ==
  ASSUME NEW S, NEW N \in Nat, NEW f,
         f[0] \in S,
         \A k \in 1 .. N : f[k - 1] \in S => f[k] \in S
  PROVE  \A k \in 0 .. N : f[k] \in S
<1> DEFINE Bad == {k \in 0 .. N : f[k] \notin S}
<1> SUFFICES ASSUME Bad # {} PROVE FALSE
  OBVIOUS
<1>1. Bad \in SUBSET Nat
  OBVIOUS
<1>2. \E k \in Bad : \A l \in Bad : k <= l
  <2> HIDE DEF Bad
  <2> QED BY <1>1, LeastNat
<1>3. PICK k \in Bad : \A l \in Bad : k <= l
  BY <1>2
<1>4. k \in 1 .. N
  BY <1>3
<1>5. k - 1 \in 0 .. N /\ k - 1 \notin Bad
  BY <1>3, <1>4
<1> QED
  BY <1>3, <1>4, <1>5

\* A loop of N rounds over S that starts with a and whose round k is g.
IsLoop(S, a, N, g) == a \in S /\ N \in Nat /\ g \in [S \X (1 .. N) -> S]

\* f is what the loop computes: its state after each round.
IsTrace(S, a, N, g, f) ==
  f \in [0 .. N -> S] /\ f[0] = a /\ \A k \in 1 .. N : f[k] = g[<<f[k - 1], k>>]

\* Every loop has a trace.
LEMMA LoopExists ==
  ASSUME NEW S, NEW a, NEW N, NEW g, IsLoop(S, a, N, g)
  PROVE  \E f : IsTrace(S, a, N, g, f)
<1> USE DEF IsLoop
<1> DEFINE Trace(f, j) == f[0] = a /\ \A k \in 1 .. j : f[k] = g[<<f[k - 1], k>>]
           Good(j) == \E f \in [0 .. j -> S] : Trace(f, j)
           Bad == {j \in 0 .. N : ~Good(j)}
<1>1. Good(0)
  <2> DEFINE f == [k \in 0 .. 0 |-> a]
  <2>1. f \in [0 .. 0 -> S] /\ Trace(f, 0)
    OBVIOUS
  <2> QED BY <2>1
<1>2. ASSUME NEW j \in 1 .. N, Good(j - 1)
      PROVE  Good(j)
  <2>1. PICK f \in [0 .. j - 1 -> S] : Trace(f, j - 1)
    BY <1>2
  <2> DEFINE h == [k \in 0 .. j |-> IF k = j THEN g[<<f[j - 1], j>>] ELSE f[k]]
  <2>2. g[<<f[j - 1], j>>] \in S
    OBVIOUS
  <2>3. h \in [0 .. j -> S]
    BY <2>2
  <2>4. Trace(h, j)
    <3>1. h[0] = a
      BY <2>1
    <3>2. ASSUME NEW k \in 1 .. j PROVE h[k] = g[<<h[k - 1], k>>]
      <4>1. h[k - 1] = f[k - 1]
        OBVIOUS
      <4>2. CASE k = j
        <5>1. h[j] = g[<<f[j - 1], j>>]
          OBVIOUS
        <5> HIDE DEF h
        <5> QED BY <4>1, <4>2, <5>1
      <4>3. CASE k # j
        <5>1. k \in 1 .. j - 1 /\ h[k] = f[k]
          BY <4>3
        <5> QED BY <5>1, <4>1, <2>1
      <4> QED BY <4>2, <4>3
    <3> QED BY <3>1, <3>2
  <2> QED BY <2>3, <2>4
<1> HIDE DEF Good
<1>3. Bad = {}
  <2> SUFFICES ASSUME Bad # {} PROVE FALSE
    OBVIOUS
  <2>1. Bad \in SUBSET Nat
    OBVIOUS
  <2>2. \E j \in Bad : \A l \in Bad : j <= l
    <3> HIDE DEF Bad
    <3> QED BY <2>1, LeastNat
  <2>3. PICK j \in Bad : \A l \in Bad : j <= l
    BY <2>2
  <2>4. j \in 1 .. N
    BY <2>3, <1>1
  <2>5. j - 1 \in 0 .. N /\ j - 1 \notin Bad
    BY <2>3, <2>4
  <2> QED BY <2>3, <2>4, <2>5, <1>2
<1>4. Good(N)
  BY <1>3
<1> QED
  BY <1>4 DEF Good, IsTrace

\* Induction up to N: what holds of 0 and goes from k - 1 to k holds up to N.
LEMMA UpTo ==
  ASSUME NEW G, NEW N \in Nat, 0 \in G, \A k \in 1 .. N : k - 1 \in G => k \in G
  PROVE  \A k \in 0 .. N : k \in G
<1> DEFINE f == [k \in 0 .. N |-> k]
<1>1. f[0] \in G /\ \A k \in 1 .. N : f[k - 1] \in G => f[k] \in G
  OBVIOUS
<1>2. \A k \in 0 .. N : f[k] \in G
  <2> HIDE DEF f
  <2> QED BY <1>1, LoopInvariant
<1> QED
  BY <1>2

\* No element comes twice.
Once(s) == \A k, l \in DOMAIN s : s[k] = s[l] => k = l

\* Appending an element.
LEMMA AppendElems ==
  ASSUME NEW S, NEW q \in Seq(S), NEW x \in S
  PROVE  /\ Append(q, x) \in Seq(S) /\ Elems(Append(q, x)) = Elems(q) \cup {x}
         /\ Once(q) /\ x \notin Elems(q) => Once(Append(q, x))
<1> DEFINE z == Append(q, x)
<1>1. /\ z \in Seq(S) /\ DOMAIN z = 1 .. Len(q) + 1 /\ DOMAIN q = 1 .. Len(q) /\ Len(q) \in Nat
      /\ z[Len(q) + 1] = x /\ \A k \in 1 .. Len(q) : z[k] = q[k]
  OBVIOUS
<1> HIDE DEF z
<1>2. Elems(z) = Elems(q) \cup {x}
  <2>1. \A k \in DOMAIN z : z[k] \in Elems(q) \cup {x}
    BY <1>1 DEF Elems
  <2>2. x \in Elems(z)
    BY <1>1 DEF Elems
  <2>3. \A k \in DOMAIN q : q[k] \in Elems(z)
    BY <1>1 DEF Elems
  <2> QED BY <2>1, <2>2, <2>3 DEF Elems
<1>3. Once(q) /\ x \notin Elems(q) => Once(z)
  BY <1>1 DEF Once, Elems
<1> QED
  BY <1>1, <1>2, <1>3 DEF z

\* Without, unfolded.
LEMMA WithoutTrace ==
  ASSUME NEW S, NEW s \in Seq(S), NEW n
  PROVE  \E kept : /\ kept[0] = << >>
                   /\ \A k \in 1 .. Len(s) :
                        kept[k] = IF s[k] = n THEN kept[k - 1] ELSE Append(kept[k - 1], s[k])
                   /\ Without(s, n) = kept[Len(s)]
<1> DEFINE N == Len(s)
           Q == Seq(S)
           empty == << >>
           Round(q, k) == IF s[k] = n THEN q ELSE Append(q, s[k])
           kept[k \in 0 .. N] == IF k = 0 THEN empty ELSE Round(kept[k - 1], k)
           g == [p \in Q \X (1 .. N) |-> Round(p[1], p[2])]
<1>1. N \in Nat /\ empty \in Q
  OBVIOUS
<1>2. ASSUME NEW k \in 1 .. N, NEW q \in Q PROVE Round(q, k) \in Q
  OBVIOUS
<1>0. Without(s, n) = kept[N]
  BY DEF Without
<1> HIDE DEF N, Q, empty, Round
<1>3. g \in [Q \X (1 .. N) -> Q]
  BY <1>2
<1>4. PICK f : IsTrace(Q, empty, N, g, f)
  <2>1. IsLoop(Q, empty, N, g)
    BY <1>1, <1>3 DEF IsLoop
  <2> HIDE DEF g
  <2> QED BY <2>1, LoopExists
<1>5. ASSUME NEW k \in 1 .. N PROVE f[k] = Round(f[k - 1], k)
  <2>1. f[k - 1] \in Q
    BY <1>1, <1>4 DEF IsTrace
  <2>2. g[<<f[k - 1], k>>] = Round(f[k - 1], k)
    BY <2>1
  <2> QED BY <2>2, <1>4 DEF IsTrace
<1>6. f = [k \in 0 .. N |-> IF k = 0 THEN empty ELSE Round(f[k - 1], k)]
  BY <1>1, <1>4, <1>5 DEF IsTrace
<1>7. kept = [k \in 0 .. N |-> IF k = 0 THEN empty ELSE Round(kept[k - 1], k)]
  BY <1>6
<1> HIDE DEF kept
<1>8. kept[0] = empty /\ \A k \in 1 .. N : kept[k] = Round(kept[k - 1], k)
  BY <1>1, <1>7
<1> QED
  BY <1>0, <1>8 DEF N, empty, Round

\* Without takes n out, in whatever place it is, and nothing else.
LEMMA WithoutElems ==
  ASSUME NEW S, NEW s \in Seq(S), NEW n
  PROVE  /\ Without(s, n) \in Seq(S)
         /\ Elems(Without(s, n)) = Elems(s) \ {n}
         /\ n \notin Elems(s) => Without(s, n) = s
         /\ Once(s) => Once(Without(s, n))
<1> DEFINE N == Len(s)
           Prefix(k) == {s[j] : j \in 1 .. k}
           Good(k, q) == /\ q \in Seq(S) /\ Elems(q) = Prefix(k) \ {n}
                         /\ n \notin Elems(s) => q = SubSeq(s, 1, k)
                         /\ Once(s) => Once(q)
<1>1. PICK kept : /\ kept[0] = << >>
                  /\ \A k \in 1 .. N :
                       kept[k] = IF s[k] = n THEN kept[k - 1] ELSE Append(kept[k - 1], s[k])
                  /\ Without(s, n) = kept[N]
  BY WithoutTrace
<1>2. N \in Nat /\ DOMAIN s = 1 .. N /\ Elems(s) = Prefix(N)
  BY DEF Elems
<1> DEFINE G == {k \in 0 .. N : Good(k, kept[k])}
<1>3. 0 \in G
  <2>1. << >> \in Seq(S) /\ Elems(<< >>) = {} /\ Prefix(0) = {} /\ SubSeq(s, 1, 0) = << >>
        /\ Once(<< >>)
    BY DEF Elems, Once
  <2>2. Good(0, << >>)
    BY <2>1
  <2>3. 0 \in 0 .. N /\ kept[0] = << >>
    BY <1>1, <1>2
  <2> HIDE DEF Good
  <2> QED BY <2>2, <2>3
<1>4. ASSUME NEW k \in 1 .. N, k - 1 \in G
      PROVE  k \in G
  <2> DEFINE q == kept[k - 1]
  <2>1. Good(k - 1, q)
    BY <1>4
  <2>2. Prefix(k) = Prefix(k - 1) \cup {s[k]}
    BY <1>2
  <2>3. SubSeq(s, 1, k) = Append(SubSeq(s, 1, k - 1), s[k])
    BY <1>2
  <2>4. s[k] \in Elems(s) /\ s[k] \in S
    BY <1>2 DEF Elems
  <2> SUFFICES Good(k, kept[k])
    BY <1>2
  <2>5. CASE s[k] = n
    <3>1. kept[k] = q
      BY <1>1, <2>5
    <3> QED BY <2>1, <2>2, <2>4, <2>5, <3>1
  <2>6. CASE s[k] # n
    <3>1. kept[k] = Append(q, s[k])
      BY <1>1, <2>6
    <3> HIDE DEF q
    <3>2. /\ Append(q, s[k]) \in Seq(S) /\ Elems(Append(q, s[k])) = Elems(q) \cup {s[k]}
          /\ Once(q) /\ s[k] \notin Elems(q) => Once(Append(q, s[k]))
      BY <2>1, <2>4, AppendElems
    <3>3. Elems(Append(q, s[k])) = Prefix(k) \ {n}
      BY <2>1, <2>2, <2>6, <3>2
    <3>4. n \notin Elems(s) => Append(q, s[k]) = SubSeq(s, 1, k)
      BY <2>1, <2>3
    <3>5. Once(s) => s[k] \notin Prefix(k - 1)
      BY <1>2 DEF Once
    <3> QED BY <2>1, <3>1, <3>2, <3>3, <3>4, <3>5
  <2> QED BY <2>5, <2>6
<1>5. N \in G
  <2>1. \A k \in 1 .. N : k - 1 \in G => k \in G
    <3> HIDE DEF G
    <3> QED BY <1>4
  <2>2. N \in Nat
    BY <1>2
  <2> HIDE DEF G, N
  <2>3. \A k \in 0 .. N : k \in G
    BY <1>3, <2>1, <2>2, UpTo
  <2> QED BY <2>2, <2>3
<1>6. Good(N, Without(s, n))
  BY <1>1, <1>5
<1>7. SubSeq(s, 1, N) = s
  OBVIOUS
<1> QED
  BY <1>2, <1>6, <1>7

\* A sequence without its k-th element.
LEMMA RemoveAt ==
  ASSUME NEW S, NEW s \in Seq(S), NEW k \in 1 .. Len(s), Once(s)
  PROVE  LET rest == SubSeq(s, 1, k - 1) \o SubSeq(s, k + 1, Len(s))
         IN  rest \in Seq(S) /\ Elems(rest) = Elems(s) \ {s[k]} /\ Once(rest)
<1> DEFINE rest == SubSeq(s, 1, k - 1) \o SubSeq(s, k + 1, Len(s))
           N == Len(s)
           At1(l) == IF l < k THEN l ELSE l + 1
           a == SubSeq(s, 1, k - 1)
           b == SubSeq(s, k + 1, N)
<1>a. a \in Seq(S) /\ Len(a) = k - 1 /\ \A l \in 1 .. k - 1 : a[l] = s[l]
  OBVIOUS
<1>b. b \in Seq(S) /\ Len(b) = N - k /\ \A l \in 1 .. N - k : b[l] = s[l + k]
  OBVIOUS
<1>1. rest \in Seq(S) /\ Len(rest) = N - 1 /\ DOMAIN rest = 1 .. N - 1
  <2> HIDE DEF a, b
  <2>0. N \in Nat /\ k \in 1 .. N
    OBVIOUS
  <2>1. (a \o b) \in Seq(S) /\ Len(a \o b) = Len(a) + Len(b)
    <3>1. a \in Seq(S) /\ b \in Seq(S)
      BY <1>a, <1>b
    <3> QED BY <3>1
  <2>2. Len(a) + Len(b) = N - 1
    BY <1>a, <1>b, <2>0
  <2>3. rest = a \o b
    BY DEF a, b
  <2> HIDE DEF rest
  <2>4. DOMAIN rest = 1 .. Len(rest)
    BY <2>1, <2>3
  <2> QED BY <2>1, <2>2, <2>3, <2>4
<1>2. \A l \in 1 .. N - 1 : rest[l] = s[At1(l)]
  <2> HIDE DEF a, b
  <2>1. N \in Nat /\ k \in 1 .. N
    OBVIOUS
  <2> HIDE DEF N
  <2> SUFFICES ASSUME NEW l \in 1 .. N - 1 PROVE (a \o b)[l] = s[At1(l)]
    BY DEF a, b, N
  <2>2. CASE l < k
    BY <1>a, <1>b, <2>1, <2>2
  <2>3. CASE l >= k
    <3>1. (a \o b)[l] = b[l - (k - 1)]
      BY <1>a, <1>b, <2>1, <2>3
    <3>2. b[l - (k - 1)] = s[l + 1]
      BY <1>b, <2>1, <2>3
    <3>3. At1(l) = l + 1
      BY <2>1, <2>3
    <3> HIDE DEF At1
    <3> QED BY <3>1, <3>2, <3>3
  <2>4. l < k \/ l >= k
    BY <2>1
  <2> HIDE DEF At1
  <2> QED BY <2>2, <2>3, <2>4
<1>3. N \in Nat /\ DOMAIN s = 1 .. N
  OBVIOUS
<1> HIDE DEF rest
<1>4. \A l \in 1 .. N - 1 : At1(l) \in 1 .. N /\ At1(l) # k
  BY <1>3
<1>5. \A x \in 1 .. N : x # k => \E l \in 1 .. N - 1 : At1(l) = x
  <2> SUFFICES ASSUME NEW x \in 1 .. N, x # k PROVE \E l \in 1 .. N - 1 : At1(l) = x
    OBVIOUS
  <2>1. CASE x < k
    <3>1. x \in 1 .. N - 1 /\ At1(x) = x
      BY <1>3, <2>1
    <3> QED BY <3>1
  <2>2. CASE x > k
    <3>1. x - 1 \in 1 .. N - 1 /\ At1(x - 1) = x
      BY <1>3, <2>2
    <3> QED BY <3>1
  <2> QED BY <2>1, <2>2
<1>6. \A l, x \in 1 .. N - 1 : At1(l) = At1(x) => l = x
  BY <1>3
<1> HIDE DEF At1, N
<1>7. \A x, y \in 1 .. N : s[x] = s[y] => x = y
  BY <1>3 DEF Once
<1>8. Elems(rest) = Elems(s) \ {s[k]}
  <2>1. \A l \in 1 .. N - 1 : rest[l] \in Elems(s) \ {s[k]}
    BY <1>2, <1>3, <1>4, <1>7 DEF Elems, N
  <2>2. \A x \in 1 .. N : s[x] # s[k] => s[x] \in Elems(rest)
    BY <1>1, <1>2, <1>3, <1>5 DEF Elems
  <2> QED BY <1>1, <1>3, <2>1, <2>2 DEF Elems
<1>9. Once(rest)
  <2> SUFFICES ASSUME NEW x \in 1 .. N - 1, NEW y \in 1 .. N - 1, rest[x] = rest[y]
               PROVE  x = y
    BY <1>1 DEF Once
  <2>1. At1(x) \in 1 .. N /\ At1(y) \in 1 .. N
    BY <1>4
  <2>2. s[At1(x)] = s[At1(y)]
    BY <1>2
  <2>3. At1(x) = At1(y)
    BY <1>7, <2>1, <2>2
  <2> QED BY <1>6, <2>3
<1> QED
  BY <1>1, <1>8, <1>9 DEF rest

\* Without keeps the elements of its argument: a slave list stays a slave list.
LEMMA WithoutType ==
  ASSUME NEW S, NEW s \in Seq(S), NEW n
  PROVE  Without(s, n) \in Seq(S)
  BY WithoutElems

-----------------------------------------------------------------------------
\* Taking a node out of a partition (MigrateFromTable) leaves a partition.
LEMMA MigrateFromPartitionType ==
  ASSUME NEW known \in SUBSET Node, NEW p \in Partition, NEW n \in Node
  PROVE  MigrateFromPartition(known, p, n) \in Partition
<1> DEFINE S == Node \cup {NoNode}
<1>1. ASSUME NEW q \in Partition PROVE Released(q, n) \in Partition
  <2>1. Without(q.slaves, n) \in Seq(S)
    BY WithoutType DEF Partition
  <2> QED BY <2>1 DEF Released, Partition
<1>2. ASSUME NEW q \in Partition PROVE Promoted(known, q) \in Partition
  <2> DEFINE candidates == {k \in DOMAIN q.slaves : q.slaves[k] \in known}
             first == CHOOSE k \in candidates : \A l \in candidates : k <= l
             rest == SubSeq(q.slaves, 1, first - 1) \o SubSeq(q.slaves, first + 1, Len(q.slaves))
  <2>1. CASE q.master # NoNode \/ candidates = {}
    BY <2>1 DEF Promoted
  <2>2. CASE q.master = NoNode /\ candidates # {}
    <3>1. q.slaves \in Seq(S) /\ candidates \in SUBSET Nat
      BY DEF Partition
    <3>2. first \in candidates
      <4> HIDE DEF candidates
      <4>1. \E k \in candidates : \A l \in candidates : k <= l
        BY <2>2, <3>1, LeastNat
      <4> QED BY <4>1
    <3> HIDE DEF first
    <3>3. first \in 1 .. Len(q.slaves) /\ q.slaves[first] \in Node
      BY <3>1, <3>2
    <3>4. rest \in Seq(S)
      BY <3>1, <3>3
    <3>5. Promoted(known, q) = [q EXCEPT !.master = q.slaves[first], !.slaves = rest]
      BY <2>2 DEF Promoted, first
    <3> HIDE DEF rest
    <3> QED BY <3>3, <3>4, <3>5 DEF Partition
  <2> QED BY <2>1, <2>2
<1>3. Released(p, n) \in Partition /\ Promoted(known, Released(p, n)) \in Partition
  BY <1>1, <1>2
<1> QED
  BY <1>3 DEF MigrateFromPartition, Partition

\* A record over a set of tables is a meta record.
LEMMA MetaOverType ==
  ASSUME NEW D \in SUBSET Table, NEW m \in MetaOver(D)
  PROVE  IsMeta(m) /\ DOMAIN m.table_info = D
<1>1. m.table_info \in [D -> TableInfo]
  BY DEF MetaOver
<1>2. DOMAIN m.table_info = D
  BY <1>1
<1> QED
  BY <1>2 DEF IsMeta

\* Assignments to the fields of a meta record.
LEMMA AssignVersion ==
  ASSUME NEW D, NEW m \in MetaOver(D), NEW x \in VersionInfo
  PROVE  /\ [m EXCEPT !.version = x] \in MetaOver(D)
         /\ [m EXCEPT !.version = x].version = x
         /\ [m EXCEPT !.version = x].table_info = m.table_info
         /\ [m EXCEPT !.version = x].nodes = m.nodes
  BY DEF MetaOver

LEMMA AssignTableInfo ==
  ASSUME NEW D, NEW m \in MetaOver(D), NEW E, NEW x \in [E -> TableInfo]
  PROVE  /\ [m EXCEPT !.table_info = x] \in MetaOver(E)
         /\ [m EXCEPT !.table_info = x].version = m.version
         /\ [m EXCEPT !.table_info = x].table_info = x
         /\ [m EXCEPT !.table_info = x].nodes = m.nodes
  BY DEF MetaOver

LEMMA AssignNodeTable ==
  ASSUME NEW D, NEW m \in MetaOver(D), NEW x \in [Node -> SUBSET Table]
  PROVE  /\ [m EXCEPT !.node_table = x] \in MetaOver(D)
         /\ [m EXCEPT !.node_table = x].version = m.version
         /\ [m EXCEPT !.node_table = x].table_info = m.table_info
         /\ [m EXCEPT !.node_table = x].nodes = m.nodes
  BY DEF MetaOver

LEMMA AssignNodes ==
  ASSUME NEW D, NEW m \in MetaOver(D), NEW x \in Seq(Node)
  PROVE  /\ [m EXCEPT !.nodes = x] \in MetaOver(D)
         /\ [m EXCEPT !.nodes = x].version = m.version
         /\ [m EXCEPT !.nodes = x].table_info = m.table_info
         /\ [m EXCEPT !.nodes = x].nodes = x
  BY DEF MetaOver

LEMMA AssignAlive ==
  ASSUME NEW D, NEW m \in MetaOver(D), NEW x \in SUBSET Node
  PROVE  /\ [m EXCEPT !.alive = x] \in MetaOver(D)
         /\ [m EXCEPT !.alive = x].version = m.version
         /\ [m EXCEPT !.alive = x].table_info = m.table_info
         /\ [m EXCEPT !.alive = x].nodes = m.nodes
  BY DEF MetaOver

LEMMA MigrateFromTableType ==
  ASSUME NEW m, IsMeta(m), NEW table \in TableInfo, NEW n \in Node
  PROVE  MigrateFromTable(m, table, n) \in TableInfo
<1> DEFINE parts == [i \in Ids |-> MigrateFromPartition(Elems(m.nodes), table.partitions[i], n)]
<1>1. Elems(m.nodes) \in SUBSET Node
  BY DEF IsMeta, MetaOver, Elems
<1>2. parts \in [Ids -> Partition]
  BY <1>1, MigrateFromPartitionType DEF TableInfo
<1>3. m.version.version \in Int
  BY DEF IsMeta, MetaOver, VersionInfo
<1> HIDE DEF parts
<1>4. [table EXCEPT !.partitions = parts, !.version = m.version.version] \in TableInfo
  BY <1>2, <1>3 DEF TableInfo
<1> QED
  BY <1>4 DEF MigrateFromTable, parts

\* The records over the tables D at version v none of whose tables is ahead of v.
At(D, v) == {m \in MetaOver(D) : m.version = v /\ \A t \in D : m.table_info[t].version <= v.version}

\* MigrateFromNode rewrites tables that exist, at the current version.
LEMMA MigrateFromNodeType ==
  ASSUME NEW D \in SUBSET Table, NEW v \in VersionInfo, NEW m \in At(D, v), NEW n \in Node
  PROVE  MigrateFromNode(m, n) \in At(D, v) /\ MigrateFromNode(m, n).nodes = m.nodes
<1> DEFINE moved == [t \in DOMAIN m.table_info |->
                       IF t \in m.node_table[n]
                       THEN MigrateFromTable(m, m.table_info[t], n)
                       ELSE m.table_info[t]]
<1>0. m \in MetaOver(D)
  BY DEF At
<1>1. IsMeta(m) /\ DOMAIN m.table_info = D /\ m.version = v
  BY <1>0, MetaOverType DEF At
<1>2. moved \in [D -> TableInfo]
  BY <1>0, <1>1, MigrateFromTableType DEF MetaOver
<1>3. ASSUME NEW t \in D PROVE moved[t].version <= v.version
  <2>1. m.table_info[t] \in TableInfo /\ m.table_info[t].version <= v.version
    BY <1>1 DEF At, MetaOver
  <2>2. MigrateFromTable(m, m.table_info[t], n).version \in {v.version, m.table_info[t].version}
    BY <1>1, <2>1 DEF MigrateFromTable, TableInfo
  <2> QED BY <1>1, <2>1, <2>2 DEF VersionInfo
<1> DEFINE left == [m.node_table EXCEPT ![n] = {}]
           r == [m EXCEPT !.node_table = left]
<1>4. MigrateFromNode(m, n) = [r EXCEPT !.table_info = moved]
  BY DEF MigrateFromNode
<1>5. left \in [Node -> SUBSET Table]
  BY <1>0 DEF MetaOver
<1> HIDE DEF moved, left
<1>6. r \in MetaOver(D) /\ r.version = v /\ r.nodes = m.nodes
  BY <1>0, <1>1, <1>5, AssignNodeTable
<1> HIDE DEF r
<1>7. /\ MigrateFromNode(m, n) \in MetaOver(D)
      /\ MigrateFromNode(m, n).version = v
      /\ MigrateFromNode(m, n).table_info = moved
      /\ MigrateFromNode(m, n).nodes = m.nodes
  BY <1>2, <1>4, <1>6, AssignTableInfo
<1> QED
  BY <1>3, <1>7 DEF At

\* node_table_ without the tables of a node that went down.
Unrecorded(m, n) == [m.node_table EXCEPT ![n] = {}]

\* What MigrateFromNode does to the fields of a record.
Migrated(r, D, m, n) ==
  /\ r.nodes = m.nodes /\ r.alive = m.alive /\ r.node_table = Unrecorded(m, n)
  /\ \A t \in D : r.table_info[t] = IF t \in m.node_table[n]
                                   THEN MigrateFromTable(m, m.table_info[t], n)
                                   ELSE m.table_info[t]

LEMMA MigrateFromNodeFields ==
  ASSUME NEW D, NEW m \in MetaOver(D), NEW n \in Node
  PROVE  Migrated(MigrateFromNode(m, n), D, m, n)
<1> DEFINE moved == [t \in DOMAIN m.table_info |->
                       IF t \in m.node_table[n]
                       THEN MigrateFromTable(m, m.table_info[t], n)
                       ELSE m.table_info[t]]
           left == [m.node_table EXCEPT ![n] = {}]
<1>1. MigrateFromNode(m, n) = [m EXCEPT !.node_table = left, !.table_info = moved]
  BY DEF MigrateFromNode
<1>2. DOMAIN m.table_info = D
  BY DEF MetaOver
<1>3. \A t \in D : moved[t] = IF t \in m.node_table[n]
                              THEN MigrateFromTable(m, m.table_info[t], n)
                              ELSE m.table_info[t]
  BY <1>2
<1> HIDE DEF moved, left
<1>4. LET r == [m EXCEPT !.node_table = left, !.table_info = moved]
      IN  r.nodes = m.nodes /\ r.alive = m.alive /\ r.node_table = left /\ r.table_info = moved
  BY DEF MetaOver
<1> QED
  BY <1>1, <1>3, <1>4 DEF left, Unrecorded, Migrated

\* The loop over the nodes that went down, unfolded.
LEMMA GenerateTrace ==
  ASSUME NEW D \in SUBSET Table, NEW v \in VersionInfo, NEW m \in At(D, v), NEW ns \in Seq(Node)
  PROVE  \E after : /\ after[0] = m
                    /\ \A k \in 1 .. Len(ns) : after[k] = MigrateFromNode(after[k - 1], ns[k])
                    /\ \A k \in 0 .. Len(ns) : /\ after[k] \in At(D, v)
                                               /\ after[k].nodes = m.nodes
                                               /\ after[k].alive = m.alive
                    /\ GenerateMigrateTasks(m, ns) = after[Len(ns)]
<1> DEFINE N == Len(ns)
           Q == {r \in At(D, v) : r.nodes = m.nodes /\ r.alive = m.alive}
           Round(r, k) == MigrateFromNode(r, ns[k])
           after[k \in 0 .. N] == IF k = 0 THEN m ELSE Round(after[k - 1], k)
           g == [p \in Q \X (1 .. N) |-> Round(p[1], p[2])]
<1>1. N \in Nat /\ m \in Q
  OBVIOUS
<1>2. ASSUME NEW k \in 1 .. N, NEW r \in Q PROVE Round(r, k) \in Q
  <2>0. r \in At(D, v) /\ r.nodes = m.nodes /\ r.alive = m.alive /\ ns[k] \in Node
    OBVIOUS
  <2>1. r \in MetaOver(D)
    BY <2>0 DEF At
  <2>2. Round(r, k) \in At(D, v)
    BY <2>0, MigrateFromNodeType
  <2>3. Round(r, k).nodes = r.nodes /\ Round(r, k).alive = r.alive
    <3> DEFINE n == ns[k]
    <3>1. n \in Node
      BY <2>0
    <3> HIDE DEF n, Q
    <3>2. MigrateFromNode(r, n).nodes = r.nodes /\ MigrateFromNode(r, n).alive = r.alive
      <4>1. Migrated(MigrateFromNode(r, n), D, r, n)
        BY <2>1, <3>1, MigrateFromNodeFields
      <4> QED BY <4>1 DEF Migrated
    <3> QED BY <3>2 DEF n
  <2> HIDE DEF Round
  <2> QED BY <2>0, <2>2, <2>3
<1>0. GenerateMigrateTasks(m, ns) = after[N]
  BY DEF GenerateMigrateTasks
<1>p. \A r \in Q : r \in At(D, v) /\ r.nodes = m.nodes /\ r.alive = m.alive
  OBVIOUS
<1>r. \A r, k : Round(r, k) = MigrateFromNode(r, ns[k])
  OBVIOUS
<1> HIDE DEF N, Q, Round
<1>3. g \in [Q \X (1 .. N) -> Q]
  BY <1>2
<1>4. PICK f : IsTrace(Q, m, N, g, f)
  <2>1. IsLoop(Q, m, N, g)
    BY <1>1, <1>3 DEF IsLoop
  <2> HIDE DEF g
  <2> QED BY <2>1, LoopExists
<1>5. ASSUME NEW k \in 1 .. N PROVE f[k] = Round(f[k - 1], k)
  <2>1. f[k - 1] \in Q
    BY <1>1, <1>4 DEF IsTrace
  <2>2. g[<<f[k - 1], k>>] = Round(f[k - 1], k)
    BY <2>1
  <2> QED BY <2>2, <1>4 DEF IsTrace
<1>6. f = [k \in 0 .. N |-> IF k = 0 THEN m ELSE Round(f[k - 1], k)]
  BY <1>1, <1>4, <1>5 DEF IsTrace
<1>7. after = [k \in 0 .. N |-> IF k = 0 THEN m ELSE Round(after[k - 1], k)]
  BY <1>6
<1> HIDE DEF after
<1>8. after[0] = m /\ \A k \in 1 .. N : after[k] = Round(after[k - 1], k)
  BY <1>1, <1>7
<1>9. after[0] \in Q /\ \A k \in 1 .. N : after[k - 1] \in Q => after[k] \in Q
  BY <1>1, <1>2, <1>8
<1>10. \A k \in 0 .. N : after[k] \in Q
  BY <1>1, <1>9, LoopInvariant
<1>11. \A k \in 0 .. N : after[k] \in At(D, v) /\ after[k].nodes = m.nodes /\ after[k].alive = m.alive
  BY <1>10, <1>p
<1>12. \A k \in 1 .. N : after[k] = MigrateFromNode(after[k - 1], ns[k])
  BY <1>8, <1>r
<1> QED
  BY <1>0, <1>8, <1>11, <1>12 DEF N

\* The loop keeps the tables, the order of the nodes and the nodes that are up.
LEMMA GenerateMigrateTasksType ==
  ASSUME NEW D \in SUBSET Table, NEW v \in VersionInfo, NEW m \in At(D, v), NEW ns \in Seq(Node)
  PROVE  LET r == GenerateMigrateTasks(m, ns)
         IN  r \in At(D, v) /\ r.nodes = m.nodes /\ r.alive = m.alive
<1>1. Len(ns) \in 0 .. Len(ns)
  OBVIOUS
<1> QED
  BY <1>1, GenerateTrace

-----------------------------------------------------------------------------
\* One epoch, or one version, later.
NextEpoch(v) == [v EXCEPT !.epoch = @ + 1]
NextVersion(v) == [v EXCEPT !.version = @ + 1]

LEMMA NextVersionInfo ==
  ASSUME NEW v \in VersionInfo
  PROVE  /\ NextEpoch(v) \in VersionInfo
         /\ NextEpoch(v).epoch = v.epoch + 1 /\ NextEpoch(v).version = v.version
         /\ NextVersion(v) \in VersionInfo
         /\ NextVersion(v).epoch = v.epoch /\ NextVersion(v).version = v.version + 1
  BY DEF VersionInfo, NextEpoch, NextVersion

\* The record with the nodes of the list marked down, which DownNodes starts from.
Marked(m, ns) == [m EXCEPT !.alive = @ \ Elems(ns), !.version.epoch = @ + 1]

\* The nodes that are up when those of a list have gone down.
StillUp(m, ns) == m.alive \ Elems(ns)

\* Marking them is a new epoch.
LEMMA MarkedType ==
  ASSUME NEW D \in SUBSET Table, NEW v \in VersionInfo, NEW m \in At(D, v), NEW ns \in Seq(Node)
  PROVE  LET r == Marked(m, ns)
         IN  /\ r \in At(D, NextEpoch(v)) /\ r.table_info = m.table_info /\ r.nodes = m.nodes
             /\ r.alive = StillUp(m, ns) /\ r.node_table = m.node_table
<1> DEFINE up == StillUp(m, ns)
           s == [m EXCEPT !.alive = up]
           later == NextEpoch(v)
           r == [s EXCEPT !.version = later]
<1>1. m \in MetaOver(D) /\ m.version = v
  BY DEF At
<1>2. up \in SUBSET Node
  BY <1>1 DEF MetaOver, StillUp
<1>3. Marked(m, ns) = r
  BY <1>1 DEF Marked, NextEpoch, StillUp
<1> HIDE DEF up
<1>4. /\ s \in MetaOver(D) /\ s.table_info = m.table_info
      /\ s.nodes = m.nodes /\ s.alive = up /\ s.node_table = m.node_table
  BY <1>1, <1>2 DEF MetaOver
<1>5. later \in VersionInfo /\ later.version = v.version
  BY NextVersionInfo
<1> HIDE DEF s, later
<1>6. /\ r \in MetaOver(D) /\ r.version = later
      /\ r.table_info = m.table_info /\ r.nodes = m.nodes
      /\ r.alive = up /\ r.node_table = m.node_table
  BY <1>4, <1>5 DEF MetaOver
<1> HIDE DEF r
<1>7. r \in At(D, later)
  BY <1>5, <1>6 DEF At
<1> QED
  BY <1>3, <1>6, <1>7 DEF later, up

\* Taking nodes down does nothing when none of them is known, and is a new
\* epoch otherwise.
LEMMA DownNodesType ==
  ASSUME NEW D \in SUBSET Table, NEW v \in VersionInfo, NEW m \in At(D, v), NEW ns \in Seq(Node)
  PROVE  \/ DownNodes(m, ns) = m
         \/ DownNodes(m, ns) \in At(D, NextEpoch(v)) /\ DownNodes(m, ns).nodes = m.nodes
<1> DEFINE r == Marked(m, ns)
           later == NextEpoch(v)
<1>1. DownNodes(m, ns) \in {m, GenerateMigrateTasks(r, ns)}
  BY DEF DownNodes, Marked
<1>2. r \in At(D, later) /\ r.nodes = m.nodes
  BY MarkedType
<1>3. later \in VersionInfo
  BY NextVersionInfo
<1> HIDE DEF r, later
<1>4. GenerateMigrateTasks(r, ns) \in At(D, later) /\ GenerateMigrateTasks(r, ns).nodes = r.nodes
  BY <1>2, <1>3, GenerateMigrateTasksType
<1> QED
  BY <1>1, <1>2, <1>4 DEF later

\* A node the server did not know: a new epoch.
LEMMA UpdateNewNodeType ==
  ASSUME NEW D \in SUBSET Table, NEW v \in VersionInfo, NEW m \in At(D, v),
         NEW n \in Node, NEW order \in Seq(Node)
  PROVE  /\ UpdateNewNode(m, n, order) \in At(D, NextEpoch(v))
         /\ UpdateNewNode(m, n, order).nodes = order
<1> DEFINE up == m.alive \cup {n}
           r == [m EXCEPT !.nodes = order]
           s == [r EXCEPT !.alive = up]
           later == NextEpoch(v)
<1>1. m \in MetaOver(D) /\ m.version = v
  BY DEF At
<1>2. up \in SUBSET Node
  BY <1>1 DEF MetaOver
<1>3. UpdateNewNode(m, n, order) = [s EXCEPT !.version = later]
  BY <1>1 DEF UpdateNewNode, NextEpoch
<1> HIDE DEF up
<1>4. r \in MetaOver(D) /\ r.version = v /\ r.table_info = m.table_info /\ r.nodes = order
  BY <1>1, AssignNodes
<1> HIDE DEF r
<1>5. s \in MetaOver(D) /\ s.version = v /\ s.table_info = m.table_info /\ s.nodes = order
  BY <1>2, <1>4, AssignAlive
<1>6. later \in VersionInfo /\ later.version = v.version
  BY NextVersionInfo
<1> HIDE DEF s, later
<1>7. /\ UpdateNewNode(m, n, order) \in MetaOver(D)
      /\ UpdateNewNode(m, n, order).version = later
      /\ UpdateNewNode(m, n, order).table_info = m.table_info
      /\ UpdateNewNode(m, n, order).nodes = order
  BY <1>3, <1>5, <1>6, AssignVersion
<1> QED
  BY <1>6, <1>7 DEF At, later

\* A table with new partitions and a new version.
Rewritten(table, parts, w) == [table EXCEPT !.partitions = parts, !.version = w]

LEMMA RewrittenType ==
  ASSUME NEW table \in TableInfo, NEW parts \in [Ids -> Partition], NEW w \in Int
  PROVE  Rewritten(table, parts, w) \in TableInfo /\ Rewritten(table, parts, w).version = w
  BY DEF TableInfo, Rewritten

\* A partition stays one when a node is put back into it.
LEMMA UpdatePartitionType ==
  ASSUME NEW p \in Partition, NEW n \in Node, NEW j, NEW dup
  PROVE  Recount(Rejoined(p, n, j, dup), dup) \in Partition
<1>1. Rejoined(p, n, j, dup) \in Partition
  <2>1. Append(p.slaves, n) \in Seq(Node \cup {NoNode})
        /\ Append(p.slaves, p.master) \in Seq(Node \cup {NoNode})
    BY DEF Partition
  <2> QED BY <2>1 DEF Rejoined, Partition
<1>2. ASSUME NEW q \in Partition PROVE Recount(q, dup) \in Partition
  BY DEF Recount, Partition
<1> QED
  BY <1>1, <1>2

\* A node that fails back: a new epoch, and every table it is put into is at the
\* current version at most.
LEMMA UpdateDownNodeType ==
  ASSUME NEW D \in SUBSET Table, NEW v \in VersionInfo, NEW m \in At(D, v),
         NEW n \in Node, NEW carried
  PROVE  /\ UpdateDownNode(m, n, carried) \in At(D, NextEpoch(v))
         /\ UpdateDownNode(m, n, carried).nodes = m.nodes
<1> DEFINE up == m.alive \cup {n}
           r == [m EXCEPT !.alive = up]
           joined == [r.node_table EXCEPT ![n] =
                        @ \cup {t \in Degraded(r) : r.table_info[t].duplicate_num > 0}]
           Parts(t) == [i \in Ids |-> UpdatePartition(r, t, i, n)]
           New(t) == [r.table_info[t] EXCEPT
                        !.partitions = Parts(t),
                        !.version = IF t \in Changes(r, n) \cup carried
                                    THEN r.version.version ELSE @]
           tables == [t \in DOMAIN r.table_info |-> New(t)]
           s == [r EXCEPT !.node_table = joined]
           u == [s EXCEPT !.table_info = tables]
           later == NextEpoch(v)
<1>1. m \in MetaOver(D) /\ m.version = v
  BY DEF At
<1>2. up \in SUBSET Node
  BY <1>1 DEF MetaOver
<1>3. UpdatePartNodeMS(r, n, carried) = u
  BY DEF UpdatePartNodeMS
<1>4. UpdateDownNode(m, n, carried) = [u EXCEPT !.version.epoch = @ + 1]
  BY <1>3 DEF UpdateDownNode
<1> HIDE DEF up
<1>5. r \in MetaOver(D) /\ r.version = v /\ r.table_info = m.table_info /\ r.nodes = m.nodes
  BY <1>1, <1>2, AssignAlive
<1> HIDE DEF r
<1>6. DOMAIN r.table_info = D /\ v.version \in Int
  BY <1>5 DEF MetaOver, VersionInfo
<1>7. joined \in [Node -> SUBSET Table]
  <2>1. {t \in Degraded(r) : r.table_info[t].duplicate_num > 0} \in SUBSET Table
    BY <1>6 DEF Degraded
  <2> QED BY <1>5, <2>1 DEF MetaOver
<1>8. ASSUME NEW t \in D PROVE New(t) \in TableInfo /\ New(t).version <= v.version
  <2>1. r.table_info[t] \in TableInfo /\ r.table_info[t].version <= v.version
    BY <1>5 DEF At, MetaOver
  <2>2. Parts(t) \in [Ids -> Partition]
    BY <2>1, UpdatePartitionType DEF UpdatePartition, TableInfo
  <2> DEFINE w == IF t \in Changes(r, n) \cup carried
                  THEN r.version.version ELSE r.table_info[t].version
  <2>3. w \in Int /\ w <= v.version
    BY <1>5, <1>6, <2>1 DEF TableInfo
  <2>4. New(t) = Rewritten(r.table_info[t], Parts(t), w)
    BY DEF Rewritten
  <2> HIDE DEF Parts, w, New
  <2>5. New(t) \in TableInfo /\ New(t).version = w
    BY <2>1, <2>2, <2>3, <2>4, RewrittenType
  <2> QED BY <2>3, <2>5
<1>9. tables \in [D -> TableInfo] /\ \A t \in D : tables[t].version <= v.version
  BY <1>6, <1>8
<1> HIDE DEF joined, tables
<1>10. s \in MetaOver(D) /\ s.version = v /\ s.nodes = m.nodes
  BY <1>5, <1>7, AssignNodeTable
<1> HIDE DEF s
<1>11. u \in MetaOver(D) /\ u.version = v /\ u.table_info = tables /\ u.nodes = m.nodes
  BY <1>9, <1>10, AssignTableInfo
<1> HIDE DEF u
<1>12. UpdateDownNode(m, n, carried) = [u EXCEPT !.version = later]
  BY <1>4, <1>11 DEF NextEpoch
<1>13. later \in VersionInfo /\ later.version = v.version
  BY NextVersionInfo
<1> HIDE DEF later
<1>14. /\ UpdateDownNode(m, n, carried) \in MetaOver(D)
       /\ UpdateDownNode(m, n, carried).version = later
       /\ UpdateDownNode(m, n, carried).table_info = tables
       /\ UpdateDownNode(m, n, carried).nodes = m.nodes
  BY <1>11, <1>12, <1>13, AssignVersion
<1> QED
  BY <1>9, <1>13, <1>14 DEF At, later

-----------------------------------------------------------------------------
\* Every copy of a partition is placed on a node.
LEMMA PlacedType ==
  ASSUME NEW order \in Seq(Node), Len(order) # 0, NEW t \in Table, NEW i \in Int, NEW j \in Int
  PROVE  Placed(order, t, i, j) \in Node
<1> DEFINE k == (Hash[t] + i + j) % Len(order)
<1>1. Hash[t] + i + j \in Int /\ Len(order) \in Nat \ {0}
  BY HashAssumption
<1>2. k \in 0 .. Len(order) - 1
  BY <1>1
<1> HIDE DEF k
<1>3. order[k + 1] \in Node
  BY <1>2
<1> QED
  BY <1>3 DEF Placed, k

LEMMA NewTableType ==
  ASSUME NEW order \in Seq(Node), Len(order) # 0, NEW t \in Table, NEW dup \in Nat \ {0}
  PROVE  NewTable(order, t, dup) \in TableInfo
<1> DEFINE Slaves(i) == [j \in 1 .. dup - 1 |-> Placed(order, t, i, j)]
           New(i) == [master |-> Placed(order, t, i, 0), slaves |-> Slaves(i), status |-> "ACTIVE"]
<1>1. ASSUME NEW i \in Ids PROVE New(i) \in Partition
  <2>1. i \in Int
    BY PartitionNumAssumption DEF Ids
  <2>2. Placed(order, t, i, 0) \in Node
    BY <2>1, PlacedType
  <2>3. Slaves(i) \in Seq(Node \cup {NoNode})
    <3>1. Slaves(i) \in [1 .. dup - 1 -> Node \cup {NoNode}]
      BY <2>1, PlacedType
    <3>2. dup - 1 \in Nat
      OBVIOUS
    <3> HIDE DEF Slaves
    <3> QED BY <3>1, <3>2
  <2> HIDE DEF Slaves
  <2> QED BY <2>2, <2>3 DEF Partition
<1> QED
  BY <1>1 DEF NewTable, TableInfo

\* Every table of r is as it is in m, or is ahead of the version of m.
AsIn(r, m) ==
  \A t \in DOMAIN r.table_info :
    \/ t \in DOMAIN m.table_info /\ r.table_info[t] = m.table_info[t]
    \/ r.table_info[t].version > m.version.version

\* Creating a table: a new version, which only that table has.
LEMMA CreateTableType ==
  ASSUME NEW D \in SUBSET Table, NEW v \in VersionInfo, NEW m \in At(D, v),
         NEW t \in Table, NEW table \in TableInfo
  PROVE  /\ CreateTable(m, t, table) \in At(D \cup {t}, NextVersion(v))
         /\ AsIn(CreateTable(m, t, table), m)
         /\ CreateTable(m, t, table).nodes = m.nodes
<1> DEFINE E == D \cup {t}
           recorded == SetNodeTable(m.node_table, t, table)
           new == [table EXCEPT !.version = v.version + 1]
           tables == WithTable(m.table_info, t, new)
           later == NextVersion(v)
           r == [m EXCEPT !.node_table = recorded]
           s == [r EXCEPT !.version = later]
<1>1. m \in MetaOver(D) /\ m.version = v
  BY DEF At
<1>2. v.version \in Int /\ m.table_info \in [D -> TableInfo]
  BY <1>1 DEF MetaOver, VersionInfo
<1>3. CreateTable(m, t, table) = [s EXCEPT !.table_info = tables]
  BY <1>1 DEF CreateTable, NextVersion
<1>4. recorded \in [Node -> SUBSET Table]
  BY <1>1 DEF MetaOver, SetNodeTable
<1>5. new \in TableInfo /\ new.version = v.version + 1
  BY <1>2 DEF TableInfo
<1>6. ASSUME NEW u \in D PROVE m.table_info[u].version \in Int /\ m.table_info[u].version <= v.version
  BY <1>1 DEF At, MetaOver, TableInfo
<1> HIDE DEF recorded, new
<1>7. /\ tables \in [E -> TableInfo]
      /\ tables[t] = new
      /\ \A u \in D \ {t} : tables[u] = m.table_info[u]
  BY <1>2, <1>5 DEF WithTable
<1>8. later \in VersionInfo /\ later.version = v.version + 1
  BY NextVersionInfo
<1>9. \A u \in E : tables[u].version <= later.version
  BY <1>2, <1>5, <1>6, <1>7, <1>8
<1> HIDE DEF tables, later
<1>10. r \in MetaOver(D) /\ r.nodes = m.nodes
  BY <1>1, <1>4, AssignNodeTable
<1> HIDE DEF r
<1>11. s \in MetaOver(D) /\ s.version = later /\ s.nodes = m.nodes
  BY <1>8, <1>10, AssignVersion
<1> HIDE DEF s, E
<1>12. /\ CreateTable(m, t, table) \in MetaOver(E)
       /\ CreateTable(m, t, table).version = later
       /\ CreateTable(m, t, table).table_info = tables
       /\ CreateTable(m, t, table).nodes = m.nodes
  BY <1>3, <1>7, <1>11, AssignTableInfo
<1>13. CreateTable(m, t, table) \in At(E, later)
  BY <1>9, <1>12 DEF At
<1>14. AsIn(CreateTable(m, t, table), m)
  BY <1>1, <1>2, <1>5, <1>7, <1>12 DEF AsIn, E
<1> QED
  BY <1>12, <1>13, <1>14 DEF E, later

\* Dropping tables does nothing when none of them exists, and is a new version
\* without them otherwise.
LEMMA DropTableType ==
  ASSUME NEW D \in SUBSET Table, NEW v \in VersionInfo, NEW m \in At(D, v), NEW ts \in SUBSET Table
  PROVE  \/ DropTable(m, ts) = m
         \/ /\ DropTable(m, ts) \in At(D \ ts, NextVersion(v))
            /\ AsIn(DropTable(m, ts), m)
            /\ DropTable(m, ts).nodes = m.nodes
<1> DEFINE E == D \ ts
           dropped == ts \cap DOMAIN m.table_info
           cleared == [n \in Node |->
                         m.node_table[n] \ {t \in dropped : n \in TableMembers(m.table_info[t])}]
           tables == [t \in DOMAIN m.table_info \ dropped |-> m.table_info[t]]
           later == NextVersion(v)
           r == [m EXCEPT !.node_table = cleared]
           s == [r EXCEPT !.table_info = tables]
<1>1. m \in MetaOver(D) /\ m.version = v
  BY DEF At
<1>2. v.version \in Int /\ m.table_info \in [D -> TableInfo] /\ m.node_table \in [Node -> SUBSET Table]
  BY <1>1 DEF MetaOver, VersionInfo
<1>3. DropTable(m, ts) \in {m, [s EXCEPT !.version = later]}
  BY <1>1 DEF DropTable, NextVersion
<1>4. cleared \in [Node -> SUBSET Table]
  BY <1>2
<1>5. tables \in [E -> TableInfo] /\ \A t \in E : tables[t] = m.table_info[t]
  BY <1>2
<1>6. later \in VersionInfo /\ later.version = v.version + 1
  BY NextVersionInfo
<1>7. \A t \in E : tables[t].version <= later.version
  <2> TAKE t \in E
  <2>1. m.table_info[t].version \in Int /\ m.table_info[t].version <= v.version
    BY <1>2 DEF At, TableInfo
  <2> HIDE DEF tables, later
  <2> QED BY <1>2, <1>5, <1>6, <2>1
<1> HIDE DEF cleared, tables, later
<1>8. r \in MetaOver(D) /\ r.nodes = m.nodes
  BY <1>1, <1>4, AssignNodeTable
<1> HIDE DEF r, E
<1>9. s \in MetaOver(E) /\ s.table_info = tables /\ s.nodes = m.nodes
  BY <1>5, <1>8, AssignTableInfo
<1> HIDE DEF s
<1> DEFINE done == [s EXCEPT !.version = later]
<1>10. done \in At(E, later) /\ done.table_info = tables /\ done.nodes = m.nodes
  <2>1. /\ done \in MetaOver(E) /\ done.version = later
        /\ done.table_info = tables /\ done.nodes = m.nodes
    BY <1>6, <1>9, AssignVersion
  <2> HIDE DEF done
  <2> QED BY <2>1, <1>7 DEF At
<1> HIDE DEF done
<1>11. AsIn(done, m)
  BY <1>2, <1>5, <1>10 DEF AsIn, E
<1> QED
  BY <1>3, <1>10, <1>11 DEF E, later, done

\* Committing a migration does nothing when the node is a member already, and is
\* a new version, which only that table has, otherwise.
LEMMA CommitMigrateType ==
  ASSUME NEW D \in SUBSET Table, NEW v \in VersionInfo, NEW m \in At(D, v),
         NEW t \in D, NEW i \in Ids, NEW dst \in Node, NEW role
  PROVE  \/ CommitMigrate(m, t, i, dst, role) = m
         \/ /\ CommitMigrate(m, t, i, dst, role) \in At(D, NextVersion(v))
            /\ AsIn(CommitMigrate(m, t, i, dst, role), m)
<1> DEFINE table == m.table_info[t]
           p == table.partitions[i]
           q == IF role = "MASTER" THEN [p EXCEPT !.slaves = Append(@, p.master), !.master = dst]
                                   ELSE [p EXCEPT !.slaves = Append(@, dst)]
           z == IF 1 + Len(q.slaves) = table.duplicate_num THEN [q EXCEPT !.status = "ACTIVE"] ELSE q
           parts == [table.partitions EXCEPT ![i] = z]
           w == v.version + 1
           new == Rewritten(table, parts, w)
           recorded == [m.node_table EXCEPT ![dst] = @ \cup {t}]
           tables == [m.table_info EXCEPT ![t] = new]
           later == NextVersion(v)
           r == [m EXCEPT !.node_table = recorded]
           s == [r EXCEPT !.table_info = tables]
<1>1. m \in MetaOver(D) /\ m.version = v
  BY DEF At
<1>2. v.version \in Int /\ m.table_info \in [D -> TableInfo] /\ m.node_table \in [Node -> SUBSET Table]
  BY <1>1 DEF MetaOver, VersionInfo
<1>3. table \in TableInfo /\ p \in Partition /\ w \in Int
  BY <1>2 DEF TableInfo
<1>4. CommitMigrate(m, t, i, dst, role) \in {m, [s EXCEPT !.version = later]}
  <2> DEFINE done == [m EXCEPT !.node_table = recorded, !.table_info = tables,
                               !.version.version = @ + 1]
  <2>1. CommitMigrate(m, t, i, dst, role) \in {m, done}
    BY <1>1 DEF CommitMigrate, Rewritten
  <2>2. done = [s EXCEPT !.version = later]
    <3> HIDE DEF recorded, tables
    <3> QED BY <1>1 DEF NextVersion
  <2> HIDE DEF done, s
  <2> QED BY <2>1, <2>2
<1> HIDE DEF p
<1>5. q \in Partition
  <2>1. Append(p.slaves, p.master) \in Seq(Node \cup {NoNode})
        /\ Append(p.slaves, dst) \in Seq(Node \cup {NoNode})
    BY <1>3 DEF Partition
  <2> QED BY <1>3, <2>1 DEF Partition
<1> HIDE DEF q
<1>6. z \in Partition
  BY <1>5 DEF Partition
<1> HIDE DEF z
<1>7. parts \in [Ids -> Partition]
  BY <1>3, <1>6 DEF TableInfo
<1> HIDE DEF table, parts, w
<1>8. new \in TableInfo /\ new.version = w
  BY <1>3, <1>7, RewrittenType
<1> HIDE DEF new
<1>9. recorded \in [Node -> SUBSET Table]
  BY <1>2
<1>10. /\ tables \in [D -> TableInfo]
       /\ tables[t] = new
       /\ \A u \in D \ {t} : tables[u] = m.table_info[u]
  BY <1>2, <1>8
<1>11. later \in VersionInfo /\ later.version = w
  BY NextVersionInfo DEF w
<1>12. \A u \in D : tables[u].version <= later.version
  <2> TAKE u \in D
  <2>1. m.table_info[u].version \in Int /\ m.table_info[u].version <= v.version
    BY <1>2 DEF At, TableInfo
  <2> HIDE DEF tables, later
  <2> QED BY <1>2, <1>3, <1>8, <1>10, <1>11, <2>1 DEF w
<1> HIDE DEF recorded, tables, later
<1>13. r \in MetaOver(D)
  BY <1>1, <1>9, AssignNodeTable
<1> HIDE DEF r
<1>14. s \in MetaOver(D) /\ s.table_info = tables
  BY <1>10, <1>13, AssignTableInfo
<1> HIDE DEF s
<1> DEFINE done == [s EXCEPT !.version = later]
<1>15. done \in At(D, later) /\ done.table_info = tables
  <2>1. done \in MetaOver(D) /\ done.version = later /\ done.table_info = tables
    BY <1>11, <1>14, AssignVersion
  <2> HIDE DEF done
  <2> QED BY <2>1, <1>12 DEF At
<1> HIDE DEF done
<1>16. AsIn(done, m)
  BY <1>1, <1>2, <1>8, <1>10, <1>15 DEF AsIn, w
<1> QED
  BY <1>4, <1>15, <1>16 DEF later, done

-----------------------------------------------------------------------------
\* A meta record no table of which is ahead of the server's version.
Sound(m) == DOMAIN m.table_info \subseteq Table /\ m \in At(DOMAIN m.table_info, m.version)

LEMMA SoundAt ==
  ASSUME NEW D \in SUBSET Table, NEW v, NEW m \in At(D, v)
  PROVE  Sound(m) /\ m.version = v
<1>1. m \in MetaOver(D) /\ m.version = v
  BY DEF At
<1>2. DOMAIN m.table_info = D
  BY <1>1, MetaOverType
<1> QED
  BY <1>1, <1>2 DEF Sound

LEMMA SoundType ==
  ASSUME NEW m, Sound(m)
  PROVE  IsMeta(m) /\ m.version \in VersionInfo /\ m.nodes \in Seq(Node) /\ m.alive \in SUBSET Node
<1>1. m \in MetaOver(DOMAIN m.table_info)
  BY DEF Sound, At
<1> QED
  BY <1>1 DEF Sound, IsMeta, MetaOver

\* What a command may do to the state: nothing; a new epoch; or a new version
\* in which the tables are as they were, or have the new version.
Moves(r, m) ==
  \/ r = m
  \/ Sound(r) /\ r.version = NextEpoch(m.version)
  \/ Sound(r) /\ r.version = NextVersion(m.version) /\ AsIn(r, m)

\* The numbers after a move.
LEMMA MovesForward ==
  ASSUME NEW m, Sound(m), NEW r, Moves(r, m)
  PROVE  /\ Sound(r) /\ r.version \in VersionInfo
         /\ r.version.epoch >= m.version.epoch
         /\ r.version.version >= m.version.version
         /\ r # m => Changed(r, m.version)
<1>1. m.version \in VersionInfo
  BY SoundType
<1>2. m.version.epoch \in Int /\ m.version.version \in Int
  BY <1>1 DEF VersionInfo
<1>3. CASE r = m
  BY <1>1, <1>2, <1>3
<1>4. CASE Sound(r) /\ r.version = NextEpoch(m.version)
  BY <1>1, <1>2, <1>4, NextVersionInfo DEF Changed
<1>5. CASE Sound(r) /\ r.version = NextVersion(m.version)
  BY <1>1, <1>2, <1>5, NextVersionInfo DEF Changed
<1> QED
  BY <1>3, <1>4, <1>5 DEF Moves

-----------------------------------------------------------------------------
\* A master and slaves that are exactly the copies that are up, each once; the
\* master is missing only while copy 0 is down.
Held(master, slaves, copies, first, up) ==
  /\ master \in Node \cup {NoNode} /\ slaves \in Seq(Node)
  /\ master \notin Elems(slaves) /\ Once(slaves)
  /\ ({master} \cup Elems(slaves)) \ {NoNode} = copies \cap up
  /\ master = NoNode => first \notin up

\* A partition that is held so, and that is ACTIVE exactly when all copies are up.
Holds(p, copies, first, up) ==
  /\ p \in Partition
  /\ Held(p.master, p.slaves, copies, first, up)
  /\ (p.status = "ACTIVE") <=> (copies \subseteq up)

\* Releasing a node that holds the partition. The master may be missing now.
LEMMA ReleasedHeld ==
  ASSUME NEW p \in Partition, NEW n \in Node, p.slaves \in Seq(Node),
         p.master \notin Elems(p.slaves), Once(p.slaves)
  PROVE  LET q == Released(p, n)
         IN  /\ q \in Partition /\ q.slaves \in Seq(Node)
             /\ q.master \notin Elems(q.slaves) /\ Once(q.slaves)
             /\ Members(q) = Members(p) \ {n}
             /\ q = p <=> n \notin Members(p)
<1> DEFINE w == Without(p.slaves, n)
<1>1. /\ w \in Seq(Node) /\ Elems(w) = Elems(p.slaves) \ {n}
      /\ n \notin Elems(p.slaves) => w = p.slaves
      /\ Once(w)
  BY WithoutElems
<1>2. NoNode \notin Elems(p.slaves) /\ n # NoNode
  BY NoNodeAssumption DEF Elems
<1> HIDE DEF w
<1>3. CASE p.master = n
  <2> DEFINE q == [p EXCEPT !.master = NoNode]
  <2>1. Released(p, n) = q
    BY <1>3 DEF Released
  <2>2. q \in Partition /\ q.master = NoNode /\ q.slaves = p.slaves
    BY DEF Partition
  <2> HIDE DEF q
  <2> QED BY <1>2, <1>3, <2>1, <2>2 DEF Members
<1>4. CASE p.master # n
  <2> DEFINE q == [p EXCEPT !.slaves = w]
  <2>1. Released(p, n) = q
    BY <1>4 DEF Released, w
  <2>0. w \in Seq(Node \cup {NoNode})
    BY <1>1
  <2>2. q \in Partition /\ q.master = p.master /\ q.slaves = w
    BY <2>0 DEF Partition
  <2>3. w = p.slaves => q = p
    BY DEF Partition
  <2> HIDE DEF q
  <2>4. Members(q) = Members(p) \ {n}
    BY <1>1, <1>4, <2>2 DEF Members
  <2>5. q = p <=> n \notin Members(p)
    BY <1>1, <1>2, <1>4, <2>2, <2>3, <2>4 DEF Members
  <2> QED BY <1>1, <2>1, <2>2, <2>4, <2>5
<1> QED
  BY <1>3, <1>4

LEMMA PromotedHeld ==
  ASSUME NEW known, NEW q \in Partition, q.slaves \in Seq(Node),
         q.master \notin Elems(q.slaves), Once(q.slaves), Elems(q.slaves) \subseteq known
  PROVE  LET r == Promoted(known, q)
         IN  /\ r \in Partition /\ r.slaves \in Seq(Node)
             /\ r.master \notin Elems(r.slaves) /\ Once(r.slaves)
             /\ Members(r) = Members(q)
             /\ r.master = NoNode => Members(r) = {}
<1> DEFINE candidates == {k \in DOMAIN q.slaves : q.slaves[k] \in known}
           first == CHOOSE k \in candidates : \A l \in candidates : k <= l
           rest == SubSeq(q.slaves, 1, first - 1) \o SubSeq(q.slaves, first + 1, Len(q.slaves))
<1>1. candidates = 1 .. Len(q.slaves) /\ DOMAIN q.slaves = 1 .. Len(q.slaves)
  BY DEF Elems
<1>2. CASE q.master # NoNode \/ candidates = {}
  <2>1. Promoted(known, q) = q
    BY <1>2 DEF Promoted
  <2>2. q.master = NoNode => Elems(q.slaves) = {}
    BY <1>1, <1>2 DEF Elems
  <2> QED BY <2>1, <2>2 DEF Members
<1>3. CASE q.master = NoNode /\ candidates # {}
  <2>1. Promoted(known, q) = [q EXCEPT !.master = q.slaves[first], !.slaves = rest]
    BY <1>3 DEF Promoted
  <2>2. first \in candidates
    <3>0. candidates \in SUBSET Nat
      BY <1>1
    <3> HIDE DEF candidates
    <3>1. \E k \in candidates : \A l \in candidates : k <= l
      BY <1>3, <3>0, LeastNat
    <3> QED BY <3>1
  <2> HIDE DEF first
  <2>3. first \in 1 .. Len(q.slaves) /\ q.slaves[first] \in Node /\ q.slaves[first] \in Elems(q.slaves)
    BY <1>1, <2>2 DEF Elems
  <2>4. rest \in Seq(Node) /\ Elems(rest) = Elems(q.slaves) \ {q.slaves[first]} /\ Once(rest)
    BY <2>3, RemoveAt
  <2> HIDE DEF rest
  <2> DEFINE a == q.slaves[first]
             r == [q EXCEPT !.master = a, !.slaves = rest]
  <2>5. rest \in Seq(Node \cup {NoNode}) /\ a \in Node
    BY <2>3, <2>4
  <2> HIDE DEF a
  <2>6. r \in Partition /\ r.master = a /\ r.slaves = rest
    BY <2>5 DEF Partition
  <2> HIDE DEF r
  <2>7. Members(r) = Members(q)
    BY <1>3, <2>3, <2>4, <2>6 DEF Members, a
  <2> QED BY <2>1, <2>4, <2>5, <2>6, <2>7, NoNodeAssumption DEF r, a
<1> QED
  BY <1>2, <1>3

\* A node that goes down leaves the partition to the other copies that are up.
LEMMA MigrateHolds ==
  ASSUME NEW copies \in SUBSET Node, NEW first \in copies, NEW known, copies \subseteq known,
         NEW up, NEW p, Holds(p, copies, first, up), NEW n \in Node
  PROVE  LET r == MigrateFromPartition(known, p, n)
         IN  Holds(r, copies, first, up \ {n}) /\ (n \notin Members(p) => r = p)
<1> DEFINE q == Released(p, n)
           r == Promoted(known, q)
<1>1. /\ p \in Partition /\ p.slaves \in Seq(Node)
      /\ p.master \notin Elems(p.slaves) /\ Once(p.slaves) /\ Members(p) = copies \cap up
  BY DEF Holds, Held, Members
<1>2. /\ q \in Partition /\ q.slaves \in Seq(Node)
      /\ q.master \notin Elems(q.slaves) /\ Once(q.slaves)
      /\ Members(q) = Members(p) \ {n}
      /\ q = p <=> n \notin Members(p)
  BY <1>1, ReleasedHeld
<1>3. MigrateFromPartition(known, p, n) =
        IF q = p THEN p
        ELSE [r EXCEPT !.status = IF r.master = NoNode THEN "STUCK" ELSE "SLOWDOWN"]
  BY DEF MigrateFromPartition
<1> HIDE DEF q
<1>4. CASE n \notin Members(p)
  <2>1. copies \cap (up \ {n}) = copies \cap up
    BY <1>1, <1>4
  <2>2. copies \subseteq up \ {n} <=> copies \subseteq up
    BY <1>1, <1>4
  <2> QED BY <1>2, <1>3, <1>4, <2>1, <2>2 DEF Holds, Held
<1>5. CASE n \in Members(p)
  <2>1. Elems(q.slaves) \subseteq known
    <3>1. NoNode \notin Elems(q.slaves)
      BY <1>2, NoNodeAssumption DEF Elems
    <3> QED BY <1>1, <1>2, <3>1 DEF Members
  <2>2. /\ r \in Partition /\ r.slaves \in Seq(Node)
        /\ r.master \notin Elems(r.slaves) /\ Once(r.slaves)
        /\ Members(r) = Members(q) /\ (r.master = NoNode => Members(r) = {})
    BY <1>2, <2>1, PromotedHeld
  <2> HIDE DEF r
  <2> DEFINE st == IF r.master = NoNode THEN "STUCK" ELSE "SLOWDOWN"
             z == [r EXCEPT !.status = st]
  <2>3. z \in Partition /\ z.master = r.master /\ z.slaves = r.slaves /\ z.status # "ACTIVE"
    BY <2>2 DEF Partition
  <2>4. MigrateFromPartition(known, p, n) = z
    BY <1>2, <1>3, <1>5
  <2> HIDE DEF z
  <2>5. Members(r) = copies \cap (up \ {n})
    BY <1>1, <1>2, <2>2
  <2>6. r.master \in Node \cup {NoNode}
    BY <2>2 DEF Partition
  <2>7. Held(z.master, z.slaves, copies, first, up \ {n})
    BY <2>2, <2>3, <2>5, <2>6 DEF Held, Members
  <2> QED BY <1>1, <1>5, <2>3, <2>4, <2>7 DEF Holds
<1> QED
  BY <1>4, <1>5

-----------------------------------------------------------------------------
\* Remainders: the one of a in 0 .. N - 1.
LEMMA Remainder ==
  ASSUME NEW a \in Int, NEW N \in Nat \ {0}
  PROVE  a % N \in 0 .. N - 1 /\ \E q \in Int : a = N * q + (a % N)
<1>1. a = N * (a \div N) + (a % N) /\ a % N \in 0 .. N - 1
  OBVIOUS
<1>2. a \div N \in Int
  OBVIOUS
<1> QED
  BY <1>1, <1>2

LEMMA RemainderUnique ==
  ASSUME NEW N \in Nat \ {0}, NEW x \in 0 .. N - 1, NEW y \in 0 .. N - 1, NEW q \in Int,
         x - y = N * q
  PROVE  x = y
<1> DEFINE z == N * q
<1>1. q >= 1 => z >= N
  OBVIOUS
<1>2. q <= -1 => z <= - N
  OBVIOUS
<1>3. q = 0 => z = 0
  OBVIOUS
<1>4. z \in Int
  OBVIOUS
<1>5. q >= 1 \/ q <= -1 \/ q = 0
  OBVIOUS
<1>6. x - y = z
  OBVIOUS
<1> HIDE DEF z
<1> QED
  BY <1>1, <1>2, <1>3, <1>4, <1>5, <1>6

\* Two numbers of copies that lead to the same position are equal.
LEMMA ShiftInjective ==
  ASSUME NEW N \in Nat \ {0}, NEW a \in Int, NEW x \in 0 .. N - 1, NEW y \in 0 .. N - 1,
         (a + x) % N = (a + y) % N
  PROVE  x = y
<1>1. PICK q \in Int : a + x = N * q + ((a + x) % N)
  <2>1. a + x \in Int
    OBVIOUS
  <2> QED BY <2>1, Remainder
<1>2. PICK r \in Int : a + y = N * r + ((a + y) % N)
  <2>1. a + y \in Int
    OBVIOUS
  <2> QED BY <2>1, Remainder
<1>3. N * q - N * r = N * (q - r) /\ q - r \in Int
  OBVIOUS
<1>4. N * q \in Int /\ N * r \in Int /\ (a + x) % N \in Int
  OBVIOUS
<1>5. x - y = N * q - N * r
  BY <1>1, <1>2, <1>4
<1> QED
  BY <1>3, <1>5, RemainderUnique

\* The distance from a to position r, added to a, leads to r.
LEMMA ShiftBack ==
  ASSUME NEW N \in Nat \ {0}, NEW a \in Int, NEW r \in 0 .. N - 1
  PROVE  (a + ((r - a) % N)) % N = r
<1> DEFINE d == (r - a) % N
           e == (a + d) % N
<1>1. r - a \in Int
  OBVIOUS
<1>2. PICK q \in Int : r - a = N * q + d
  BY <1>1, Remainder
<1>3. d \in 0 .. N - 1
  BY <1>1, Remainder
<1> HIDE DEF d
<1>4. PICK k \in Int : a + d = N * k + e
  <2>1. a + d \in Int
    BY <1>3
  <2> QED BY <2>1, Remainder
<1>5. e \in 0 .. N - 1
  BY <1>3, Remainder
<1> HIDE DEF e
<1>6. N * q + N * k = N * (q + k) /\ q + k \in Int /\ N * q \in Int /\ N * k \in Int
  OBVIOUS
<1>7. r - e = N * (q + k)
  BY <1>2, <1>3, <1>4, <1>5, <1>6
<1>8. r = e
  BY <1>5, <1>6, <1>7, RemainderUnique
<1> QED
  BY <1>8 DEF e, d

LEMMA ImageCardinality ==
  ASSUME NEW D, IsFiniteSet(D), NEW f, f \in [D -> {f[x] : x \in D}],
         \A x, y \in D : f[x] = f[y] => x = y
  PROVE  IsFiniteSet({f[x] : x \in D}) /\ Cardinality({f[x] : x \in D}) = Cardinality(D)
<1> DEFINE T == {f[x] : x \in D}
<1>1. f \in Surjection(D, T)
  BY DEF Surjection
<1>2. f \in Injection(D, T)
  BY DEF Injection, IsInjective
<1> HIDE DEF T
<1> QED
  BY <1>1, <1>2, FS_Surjection DEF T

LEMMA ListCardinality ==
  ASSUME NEW S, NEW s \in Seq(S), Once(s)
  PROVE  IsFiniteSet(Elems(s)) /\ Cardinality(Elems(s)) = Len(s)
<1>1. IsFiniteSet(1 .. Len(s)) /\ Cardinality(1 .. Len(s)) = Len(s)
  <2>1. Len(s) \in Int /\ 1 \in Int /\ Len(s) >= 0
    OBVIOUS
  <2> DEFINE N == Len(s)
  <2> HIDE DEF N
  <2>2. IsFiniteSet(1 .. N) /\ Cardinality(1 .. N) = IF 1 > N THEN 0 ELSE N - 1 + 1
    BY <2>1, FS_Interval DEF N
  <2>3. Cardinality(1 .. N) = N
    BY <2>1, <2>2 DEF N
  <2> QED BY <2>2, <2>3 DEF N
<1>2. DOMAIN s = 1 .. Len(s) /\ s \in [DOMAIN s -> Elems(s)]
  BY DEF Elems
<1> QED
  BY <1>1, <1>2, ImageCardinality DEF Elems, Once

\* The copies of partition i of a table with dup copies.
CopiesIn(order, t, i, dup) == {Placed(order, t, i, j) : j \in 0 .. dup - 1}

\* No two copies of a partition are placed on one node.
LEMMA PlacedOnce ==
  ASSUME NEW order \in Seq(Node), Once(order), NEW t \in Table, NEW i \in Ids,
         NEW x \in 0 .. Len(order) - 1, NEW y \in 0 .. Len(order) - 1,
         Placed(order, t, i, x) = Placed(order, t, i, y)
  PROVE  x = y
<1> DEFINE N == Len(order)
           a == Hash[t] + i
<1>1. N \in Nat \ {0} /\ a \in Int /\ DOMAIN order = 1 .. N
  BY HashAssumption, PartitionNumAssumption DEF Ids
<1>2. Placed(order, t, i, x) = order[((a + x) % N) + 1] /\ Placed(order, t, i, y) = order[((a + y) % N) + 1]
  BY DEF Placed
<1>3. x \in 0 .. N - 1 /\ y \in 0 .. N - 1
  OBVIOUS
<1> HIDE DEF a, N
<1>4. (a + x) % N \in 0 .. N - 1 /\ (a + y) % N \in 0 .. N - 1
  BY <1>1, <1>3
<1>5. ((a + x) % N) + 1 = ((a + y) % N) + 1
  <2> DEFINE u == ((a + x) % N) + 1
             w == ((a + y) % N) + 1
  <2>1. u \in 1 .. N /\ w \in 1 .. N
    BY <1>1, <1>4
  <2>2. order[u] = order[w]
    BY <1>2
  <2> HIDE DEF u, w
  <2>3. u = w
    BY <1>1, <2>1, <2>2 DEF Once
  <2> QED BY <2>3 DEF u, w
<1>6. (a + x) % N = (a + y) % N
  BY <1>4, <1>5
<1> QED
  BY <1>1, <1>3, <1>6, ShiftInjective

\* The copy UpdatePartNodeMS finds a node to be is the one placed on it.
LEMMA CopyFound ==
  ASSUME NEW m, m.nodes \in Seq(Node), Once(m.nodes), NEW t \in Table, NEW i \in Ids,
         NEW n \in Elems(m.nodes)
  PROVE  LET j == CopyOf(m, t, i, n)
         IN  j \in 0 .. Len(m.nodes) - 1 /\ Placed(m.nodes, t, i, j) = n
<1> DEFINE order == m.nodes
           N == Len(order)
           a == Hash[t] + i
           r == Rank(m, n)
           j == (r - a) % N
<1>1. N \in Nat /\ DOMAIN order = 1 .. N /\ a \in Int /\ Hash[t] \in Int /\ i \in Int
  BY HashAssumption, PartitionNumAssumption DEF Ids
<1>2. r + 1 \in 1 .. N /\ order[r + 1] = n /\ r \in 0 .. N - 1
  <2> DEFINE c == CHOOSE k \in DOMAIN m.nodes : m.nodes[k] = n
  <2>1. c \in DOMAIN m.nodes /\ m.nodes[c] = n
    BY DEF Elems
  <2>2. r = c - 1
    BY DEF Rank
  <2> HIDE DEF c, r
  <2> QED BY <1>1, <2>1, <2>2
<1> HIDE DEF r
<1>3. CopyOf(m, t, i, n) = j
  <2>1. r - Hash[t] - i = r - a
    BY <1>1, <1>2
  <2> QED BY <2>1 DEF CopyOf, r
<1>4. Placed(order, t, i, j) = order[((a + j) % N) + 1]
  BY DEF Placed
<1> HIDE DEF a, N, order
<1>5. N \in Nat \ {0} /\ r - a \in Int
  BY <1>1, <1>2
<1>6. (a + j) % N = r
  BY <1>1, <1>2, <1>5, ShiftBack
<1>7. j \in 0 .. N - 1
  BY <1>5, Remainder
<1> QED
  BY <1>2, <1>3, <1>4, <1>6, <1>7 DEF order, N

LEMMA CopiesKnown ==
  ASSUME NEW order \in Seq(Node), Once(order), NEW t \in Table, NEW i \in Ids,
         NEW dup \in 1 .. Len(order)
  PROVE  LET copies == CopiesIn(order, t, i, dup)
         IN  /\ IsFiniteSet(copies) /\ Cardinality(copies) = dup
             /\ copies \subseteq Elems(order) /\ copies \subseteq Node
             /\ Placed(order, t, i, 0) \in copies
<1> DEFINE D == 0 .. dup - 1
           f == [j \in D |-> Placed(order, t, i, j)]
<1>1. {f[j] : j \in D} = CopiesIn(order, t, i, dup)
  BY DEF CopiesIn
<1>2. IsFiniteSet(D) /\ Cardinality(D) = dup
  <2>1. 0 \in Int /\ dup - 1 \in Int /\ dup >= 1
    OBVIOUS
  <2> QED BY <2>1, FS_Interval
<1>3. D \subseteq 0 .. Len(order) - 1 /\ 0 \in D
  OBVIOUS
<1>4. \A x, y \in D : f[x] = f[y] => x = y
  BY <1>3, PlacedOnce
<1>5. \A j \in D : Placed(order, t, i, j) \in Elems(order)
  <2> SUFFICES ASSUME NEW j \in D PROVE Placed(order, t, i, j) \in Elems(order)
    OBVIOUS
  <2> DEFINE k == (Hash[t] + i + j) % Len(order)
  <2>1. Hash[t] + i + j \in Int /\ Len(order) \in Nat \ {0}
    BY HashAssumption, PartitionNumAssumption DEF Ids
  <2>2. k \in 0 .. Len(order) - 1
    BY <2>1, Remainder
  <2>3. Placed(order, t, i, j) = order[k + 1]
    BY DEF Placed
  <2> HIDE DEF k
  <2> QED BY <2>2, <2>3 DEF Elems
<1>6. Elems(order) \subseteq Node
  BY DEF Elems
<1>7. f \in [D -> {f[x] : x \in D}]
  OBVIOUS
<1>8. IsFiniteSet({f[j] : j \in D}) /\ Cardinality({f[j] : j \in D}) = dup
  <2> HIDE DEF f, D
  <2> QED BY <1>2, <1>4, <1>7, ImageCardinality
<1>9. CopiesIn(order, t, i, dup) \subseteq Elems(order) /\ Placed(order, t, i, 0) \in CopiesIn(order, t, i, dup)
  BY <1>3, <1>5 DEF CopiesIn
<1> QED
  BY <1>1, <1>6, <1>8, <1>9

-----------------------------------------------------------------------------
\* What a partition's recounted status says.
LEMMA RecountHolds ==
  ASSUME NEW copies, IsFiniteSet(copies), NEW first \in copies,
         NEW up, NEW p \in Partition, Held(p.master, p.slaves, copies, first, up)
  PROVE  Holds(Recount(p, Cardinality(copies)), copies, first, up)
<1> DEFINE dup == Cardinality(copies)
           st == IF p.master # NoNode /\ 1 + Len(p.slaves) = dup THEN "ACTIVE"
                 ELSE IF p.master # NoNode \/ Len(p.slaves) > 0 THEN "SLOWDOWN"
                 ELSE "STUCK"
           q == [p EXCEPT !.status = st]
<1>1. Recount(p, dup) = q
  BY DEF Recount
<1>2. st \in {"ACTIVE", "SLOWDOWN", "STUCK"} /\ (st = "ACTIVE" <=> p.master # NoNode /\ 1 + Len(p.slaves) = dup)
  OBVIOUS
<1> HIDE DEF st
<1>3. q \in Partition /\ q.master = p.master /\ q.slaves = p.slaves /\ q.status = st
  BY <1>2 DEF Partition
<1> HIDE DEF q
<1>4. /\ p.slaves \in Seq(Node) /\ p.master \notin Elems(p.slaves) /\ Once(p.slaves)
      /\ ({p.master} \cup Elems(p.slaves)) \ {NoNode} = copies \cap up
      /\ p.master = NoNode => first \notin up
  BY DEF Held
<1>5. IsFiniteSet(Elems(p.slaves)) /\ Cardinality(Elems(p.slaves)) = Len(p.slaves)
  BY <1>4, ListCardinality
<1>6. NoNode \notin Elems(p.slaves)
  BY <1>4, NoNodeAssumption DEF Elems
<1>7. p.master # NoNode => Cardinality(copies \cap up) = 1 + Len(p.slaves)
  <2>1. p.master # NoNode => copies \cap up = Elems(p.slaves) \cup {p.master}
    BY <1>4, <1>6
  <2>2. Cardinality(Elems(p.slaves) \cup {p.master}) = Len(p.slaves) + 1
    BY <1>4, <1>5, FS_AddElement
  <2>3. Len(p.slaves) \in Nat
    BY <1>4
  <2> DEFINE held == copies \cap up
             both == Elems(p.slaves) \cup {p.master}
  <2>4. p.master # NoNode => held = both
    BY <2>1
  <2>5. Cardinality(both) = 1 + Len(p.slaves)
    BY <2>2, <2>3
  <2> HIDE DEF held, both
  <2>6. p.master # NoNode => Cardinality(held) = 1 + Len(p.slaves)
    BY <2>4, <2>5
  <2> QED BY <2>6 DEF held
<1>8. st = "ACTIVE" <=> copies \subseteq up
  <2>1. ASSUME st = "ACTIVE" PROVE copies \subseteq up
    <3>1. copies \cap up \in SUBSET copies /\ Cardinality(copies) = Cardinality(copies \cap up)
      BY <1>2, <1>7, <2>1
    <3>2. copies = copies \cap up
      BY <3>1, FS_Subset
    <3> QED BY <3>2
  <2>2. ASSUME copies \subseteq up PROVE st = "ACTIVE"
    <3>1. copies \cap up = copies /\ p.master # NoNode
      BY <1>4, <2>2
    <3> QED BY <1>2, <1>7, <3>1
  <2> QED BY <2>1, <2>2
<1> QED
  BY <1>1, <1>3, <1>8 DEF Holds

\* A node that was down returns as copy j of a partition.
LEMMA RejoinedHeld ==
  ASSUME NEW copies \in SUBSET Node, NEW first \in copies,
         NEW up, NEW p, Holds(p, copies, first, up), NEW n \in Node, n \notin up,
         NEW j \in Nat, NEW dup \in Nat, j = 0 <=> n = first, j < dup <=> n \in copies
  PROVE  LET q == Rejoined(p, n, j, dup)
         IN  q \in Partition /\ Held(q.master, q.slaves, copies, first, up \cup {n})
<1> DEFINE a == p.master
           s == p.slaves
<1>1. /\ p \in Partition /\ a \in Node \cup {NoNode} /\ s \in Seq(Node)
      /\ a \notin Elems(s) /\ Once(s)
      /\ ({a} \cup Elems(s)) \ {NoNode} = copies \cap up
      /\ a = NoNode => first \notin up
  BY DEF Holds, Held
<1>2. n # NoNode /\ NoNode \notin Elems(s) /\ s \in Seq(Node \cup {NoNode})
  BY <1>1, NoNodeAssumption DEF Elems
<1>3. n \notin Elems(s) /\ n # a
  BY <1>1, <1>2
<1>4. CASE j >= dup
  <2>1. n \notin copies /\ Rejoined(p, n, j, dup) = p
    BY <1>4 DEF Rejoined
  <2>2. copies \cap (up \cup {n}) = copies \cap up /\ n # first
    BY <2>1
  <2> QED BY <1>1, <2>1, <2>2 DEF Held
<1>5. CASE j < dup /\ j > 0
  <2> DEFINE z == Append(s, n)
             q == [p EXCEPT !.slaves = z]
  <2>1. Rejoined(p, n, j, dup) = q
    BY <1>5 DEF Rejoined
  <2>2. z \in Seq(Node) /\ Elems(z) = Elems(s) \cup {n} /\ Once(z)
    BY <1>1, <1>3, AppendElems
  <2> HIDE DEF z
  <2>3. z \in Seq(Node \cup {NoNode})
    BY <2>2
  <2>4. q \in Partition /\ q.master = a /\ q.slaves = z
    BY <1>1, <2>3 DEF Partition
  <2> HIDE DEF q
  <2>5. n \in copies /\ n # first
    BY <1>5
  <2>6. ({a} \cup Elems(z)) \ {NoNode} = copies \cap (up \cup {n})
    BY <1>1, <1>2, <2>2, <2>5
  <2>7. Held(a, z, copies, first, up \cup {n})
    BY <1>1, <1>3, <2>2, <2>5, <2>6 DEF Held
  <2> QED BY <2>1, <2>4, <2>7
<1>6. CASE j < dup /\ j = 0 /\ a = NoNode
  <2> DEFINE q == [p EXCEPT !.master = n]
  <2>1. Rejoined(p, n, j, dup) = q
    BY <1>6 DEF Rejoined
  <2>4. q \in Partition /\ q.master = n /\ q.slaves = s
    BY <1>1 DEF Partition
  <2> HIDE DEF q
  <2>5. n \in copies
    BY <1>6
  <2>6. ({n} \cup Elems(s)) \ {NoNode} = copies \cap (up \cup {n})
    BY <1>1, <1>2, <1>6, <2>5
  <2>7. Held(n, s, copies, first, up \cup {n})
    BY <1>1, <1>2, <1>3, <2>6 DEF Held
  <2> QED BY <2>1, <2>4, <2>7
<1>7. CASE j < dup /\ j = 0 /\ a # NoNode
  <2> DEFINE z == Append(s, a)
             q == [p EXCEPT !.master = n, !.slaves = z]
  <2>1. Rejoined(p, n, j, dup) = q
    BY <1>3, <1>7 DEF Rejoined
  <2>2. z \in Seq(Node) /\ Elems(z) = Elems(s) \cup {a} /\ Once(z)
    BY <1>1, <1>7, AppendElems
  <2> HIDE DEF z
  <2>3. z \in Seq(Node \cup {NoNode})
    BY <2>2
  <2>4. q \in Partition /\ q.master = n /\ q.slaves = z
    BY <1>1, <2>3 DEF Partition
  <2> HIDE DEF q
  <2>5. n \in copies
    BY <1>7
  <2>6. ({n} \cup Elems(z)) \ {NoNode} = copies \cap (up \cup {n})
    BY <1>1, <1>2, <1>7, <2>2, <2>5
  <2>7. Held(n, z, copies, first, up \cup {n})
    BY <1>2, <1>3, <2>2, <2>6 DEF Held
  <2> QED BY <2>1, <2>4, <2>7
<1>8. j >= dup \/ (j < dup /\ (j > 0 \/ j = 0))
  OBVIOUS
<1> QED
  BY <1>4, <1>5, <1>6, <1>7, <1>8

\* UpdatePartition puts a returning node back where the placement rule wants it.
LEMMA UpdateHolds ==
  ASSUME NEW m, m.nodes \in Seq(Node), Once(m.nodes), NEW t \in Table, NEW i \in Ids,
         NEW n \in Elems(m.nodes), NEW up, n \notin up,
         m.table_info[t].duplicate_num \in 1 .. Len(m.nodes),
         Holds(m.table_info[t].partitions[i],
               CopiesIn(m.nodes, t, i, m.table_info[t].duplicate_num),
               Placed(m.nodes, t, i, 0), up)
  PROVE  Holds(UpdatePartition(m, t, i, n),
               CopiesIn(m.nodes, t, i, m.table_info[t].duplicate_num),
               Placed(m.nodes, t, i, 0), up \cup {n})
<1> DEFINE order == m.nodes
           dup == m.table_info[t].duplicate_num
           p == m.table_info[t].partitions[i]
           copies == CopiesIn(order, t, i, dup)
           first == Placed(order, t, i, 0)
           j == CopyOf(m, t, i, n)
           q == Rejoined(p, n, j, dup)
<1>1. /\ IsFiniteSet(copies) /\ Cardinality(copies) = dup
      /\ copies \subseteq Elems(order) /\ copies \subseteq Node /\ first \in copies
  BY CopiesKnown
<1>2. j \in 0 .. Len(order) - 1 /\ Placed(order, t, i, j) = n /\ n \in Node
  <2>1. n \in Node
    BY DEF Elems
  <2> QED BY <2>1, CopyFound
<1>3. UpdatePartition(m, t, i, n) = IF p.status = "ACTIVE" THEN p ELSE Recount(q, dup)
  BY DEF UpdatePartition
<1>4. j = 0 <=> n = first
  <2>1. 0 \in 0 .. Len(order) - 1
    BY <1>2
  <2> HIDE DEF j
  <2> QED BY <1>2, <2>1, PlacedOnce
<1>5. j < dup <=> n \in copies
  <2>1. \A x \in 0 .. dup - 1 : x \in 0 .. Len(order) - 1
    OBVIOUS
  <2>0. j \in Int /\ dup \in Int /\ j >= 0
    BY <1>2
  <2>2. ASSUME n \in copies PROVE j < dup
    <3>1. PICK x \in 0 .. dup - 1 : n = Placed(order, t, i, x)
      BY <2>2 DEF CopiesIn
    <3> HIDE DEF j
    <3>2. x = j
      BY <1>2, <2>1, <3>1, PlacedOnce
    <3> QED BY <3>2
  <2>3. ASSUME j < dup PROVE n \in copies
    <3> HIDE DEF j, dup
    <3>1. j \in 0 .. dup - 1
      BY <2>0, <2>3
    <3> QED BY <1>2, <3>1 DEF CopiesIn
  <2> QED BY <2>2, <2>3
<1>6. Holds(p, copies, first, up)
  OBVIOUS
<1>7. dup \in Nat /\ j \in Nat
  BY <1>2
<1> HIDE DEF j, dup, copies, first, p
<1>8. CASE p.status = "ACTIVE"
  <2>1. copies \subseteq up
    BY <1>6, <1>8 DEF Holds
  <2>2. n \notin copies /\ n # first
    BY <1>1, <2>1
  <2>3. copies \cap (up \cup {n}) = copies \cap up /\ copies \subseteq up \cup {n}
    BY <2>1, <2>2
  <2>4. Holds(p, copies, first, up \cup {n})
    BY <1>6, <1>8, <2>2, <2>3 DEF Holds, Held
  <2> QED BY <1>3, <1>8, <2>4 DEF copies, first, dup
<1>9. CASE p.status # "ACTIVE"
  <2>1. q \in Partition /\ Held(q.master, q.slaves, copies, first, up \cup {n})
    <3>1. /\ copies \in SUBSET Node /\ first \in copies /\ n \in Node /\ n \notin up
          /\ j \in Nat /\ dup \in Nat /\ (j = 0 <=> n = first) /\ (j < dup <=> n \in copies)
      BY <1>1, <1>2, <1>4, <1>5, <1>7
    <3> HIDE DEF order
    <3> QED BY <1>6, <3>1, RejoinedHeld
  <2> HIDE DEF q
  <2>2. Holds(Recount(q, dup), copies, first, up \cup {n})
    BY <1>1, <2>1, RecountHolds
  <2> QED BY <1>3, <1>9, <2>2 DEF copies, first, dup
<1> QED
  BY <1>8, <1>9

-----------------------------------------------------------------------------
\* Table t of m is placed by the rule on the nodes that are up, and node_table_
\* covers it.
Intact(m, t, up) ==
  LET table == m.table_info[t]
      dup == table.duplicate_num
  IN  /\ dup \in 1 .. Len(m.nodes)
      /\ \A i \in Ids : Holds(table.partitions[i], CopiesIn(m.nodes, t, i, dup),
                              Placed(m.nodes, t, i, 0), up)
      /\ \A n \in TableMembers(table) : t \in m.node_table[n]

\* What Intact reads of a record: a record that has the table as it was, the same
\* order of the nodes, and at least the recorded tables has it intact.
LEMMA IntactKept ==
  ASSUME NEW m, NEW r, NEW t, NEW up, Intact(m, t, up),
         r.nodes = m.nodes, r.table_info[t] = m.table_info[t],
         \A n \in TableMembers(m.table_info[t]) : t \in m.node_table[n] => t \in r.node_table[n]
  PROVE  Intact(r, t, up)
  BY DEF Intact

\* The members of a partition that is held so.
LEMMA HoldsMembers ==
  ASSUME NEW p, NEW copies, NEW first, NEW up, Holds(p, copies, first, up), NEW x
  PROVE  x \in Members(p) <=> x \in copies /\ x \in up
  BY DEF Holds, Held, Members

\* Nodes hold an intact table.
LEMMA IntactNodes ==
  ASSUME NEW m, NEW t, NEW up, Intact(m, t, up)
  PROVE  \A n \in TableMembers(m.table_info[t]) : n \in Node
<1> TAKE n \in TableMembers(m.table_info[t])
<1> DEFINE parts == m.table_info[t].partitions
<1>1. PICK i \in Ids : n \in Members(parts[i])
  BY DEF TableMembers
<1>2. parts[i].master \in Node \cup {NoNode} /\ parts[i].slaves \in Seq(Node)
  BY DEF Intact, Holds, Held
<1> HIDE DEF parts
<1> QED
  BY <1>1, <1>2 DEF Members, Elems

\* A node that goes down is taken out of an intact table wherever it is.
LEMMA MigrateIntact ==
  ASSUME NEW D \in SUBSET Table, NEW m \in MetaOver(D), Once(m.nodes), NEW n \in Node,
         NEW t \in D, NEW up, Intact(m, t, up)
  PROVE  Intact(MigrateFromNode(m, n), t, up \ {n})
<1> DEFINE r == MigrateFromNode(m, n)
           table == m.table_info[t]
           after == r.table_info[t]
           dup == table.duplicate_num
           Part(i) == MigrateFromPartition(Elems(m.nodes), table.partitions[i], n)
           Copies0(i) == CopiesIn(m.nodes, t, i, dup)
           First0(i) == Placed(m.nodes, t, i, 0)
<1>1. /\ r.nodes = m.nodes
      /\ r.node_table = Unrecorded(m, n)
      /\ after = IF t \in m.node_table[n] THEN MigrateFromTable(m, table, n) ELSE table
  <2>1. Migrated(r, D, m, n)
    BY MigrateFromNodeFields
  <2> HIDE DEF r
  <2> QED BY <2>1 DEF Migrated
<1>2. m.nodes \in Seq(Node) /\ table \in TableInfo /\ m.node_table \in [Node -> SUBSET Table]
  BY DEF MetaOver
<1>3. dup \in 1 .. Len(m.nodes) /\ \A i \in Ids : Holds(table.partitions[i], Copies0(i), First0(i), up)
  BY DEF Intact
<1>4. ASSUME NEW i \in Ids
      PROVE  /\ Holds(Part(i), Copies0(i), First0(i), up \ {n})
             /\ n \notin Members(table.partitions[i]) => Part(i) = table.partitions[i]
  <2>1. /\ Copies0(i) \subseteq Elems(m.nodes) /\ Copies0(i) \in SUBSET Node
        /\ First0(i) \in Copies0(i)
    BY <1>2, <1>3, CopiesKnown
  <2>2. Holds(table.partitions[i], Copies0(i), First0(i), up)
    BY <1>3
  <2> HIDE DEF Copies0, First0, table
  <2> QED BY <2>1, <2>2, MigrateHolds
<1>5. after.duplicate_num = dup /\ \A i \in Ids : after.partitions[i] = Part(i)
  <2>1. CASE t \in m.node_table[n]
    <3> DEFINE parts == [i \in Ids |-> Part(i)]
    <3>1. after = IF parts = table.partitions THEN table
                  ELSE [table EXCEPT !.partitions = parts, !.version = m.version.version]
      BY <1>1, <2>1 DEF MigrateFromTable
    <3>2. \A i \in Ids : parts[i] = Part(i)
      OBVIOUS
    <3> HIDE DEF parts, Part
    <3>3. after.duplicate_num = dup /\ after.partitions = parts
      BY <1>2, <3>1 DEF TableInfo
    <3> QED BY <3>2, <3>3
  <2>2. CASE t \notin m.node_table[n]
    <3>1. after = table
      BY <1>1, <2>2
    <3>2. n \notin TableMembers(table)
      BY <2>2 DEF Intact
    <3>3. \A i \in Ids : n \notin Members(table.partitions[i])
      BY <3>2 DEF TableMembers
    <3> QED BY <1>4, <3>1, <3>3
  <2> QED BY <2>1, <2>2
<1>6. ASSUME NEW x \in TableMembers(after) PROVE t \in r.node_table[x]
  <2>1. PICK i \in Ids : x \in Members(after.partitions[i])
    BY <1>6 DEF TableMembers
  <2>2. x \in Copies0(i) /\ x \in up \ {n}
    <3> DEFINE p == after.partitions[i]
               fewer == up \ {n}
    <3>1. Holds(p, Copies0(i), First0(i), fewer) /\ x \in Members(p)
      BY <1>4, <1>5, <2>1
    <3> HIDE DEF p, Copies0, First0, fewer
    <3>2. x \in Copies0(i) /\ x \in fewer
      BY <3>1, HoldsMembers
    <3> QED BY <3>2 DEF fewer
  <2>3. x \in Members(table.partitions[i])
    <3> DEFINE p == table.partitions[i]
    <3>1. Holds(p, Copies0(i), First0(i), up) /\ x \in up
      BY <1>3, <2>2
    <3> HIDE DEF p, Copies0, First0
    <3>2. x \in Members(p)
      BY <2>2, <3>1, HoldsMembers
    <3> QED BY <3>2 DEF p
  <2>4. x \in TableMembers(table)
    BY <2>3 DEF TableMembers
  <2>5. x # n /\ t \in m.node_table[x] /\ x \in Node
    <3>1. Copies0(i) \subseteq Node
      BY <1>2, <1>3, CopiesKnown
    <3> QED BY <2>2, <2>4, <3>1 DEF Intact
  <2> QED BY <1>1, <1>2, <2>5 DEF Unrecorded
<1>7. \A i \in Ids : Holds(after.partitions[i], Copies0(i), First0(i), up \ {n})
  BY <1>4, <1>5
<1>8. after.duplicate_num \in 1 .. Len(r.nodes)
  BY <1>1, <1>3, <1>5
<1>9. \A i \in Ids : Holds(after.partitions[i], CopiesIn(r.nodes, t, i, after.duplicate_num),
                          Placed(r.nodes, t, i, 0), up \ {n})
  BY <1>1, <1>5, <1>7
<1>10. \A x \in TableMembers(after) : t \in r.node_table[x]
  BY <1>6
<1> HIDE DEF r
<1>11. Intact(r, t, up \ {n})
  BY <1>8, <1>9, <1>10 DEF Intact
<1> QED
  BY <1>11 DEF r

\* An intact table stays intact when the nodes of a list go down together.
LEMMA GenerateIntact ==
  ASSUME NEW D \in SUBSET Table, NEW v \in VersionInfo, NEW m \in At(D, v), NEW ns \in Seq(Node),
         Once(m.nodes), NEW t \in D, NEW up, Intact(m, t, up)
  PROVE  LET r == GenerateMigrateTasks(m, ns)
         IN  Intact(r, t, up \ Elems(ns))
<1> DEFINE N == Len(ns)
           Left(k) == up \ {ns[j] : j \in 1 .. k}
<1>1. PICK after : /\ after[0] = m
                   /\ \A k \in 1 .. N : after[k] = MigrateFromNode(after[k - 1], ns[k])
                   /\ \A k \in 0 .. N : /\ after[k] \in At(D, v)
                                        /\ after[k].nodes = m.nodes
                                        /\ after[k].alive = m.alive
                   /\ GenerateMigrateTasks(m, ns) = after[N]
  BY GenerateTrace
<1>2. N \in Nat /\ DOMAIN ns = 1 .. N /\ \A k \in 1 .. N : ns[k] \in Node
  OBVIOUS
<1>3. Left(0) = up /\ Left(N) = up \ Elems(ns) /\ \A k \in 1 .. N : Left(k) = Left(k - 1) \ {ns[k]}
  <2>1. Left(0) = up
    OBVIOUS
  <2>2. Left(N) = up \ Elems(ns)
    BY <1>2 DEF Elems
  <2>3. \A k \in 1 .. N : Left(k) = Left(k - 1) \ {ns[k]}
    <3> SUFFICES ASSUME NEW k \in 1 .. N
                 PROVE  {ns[j] : j \in 1 .. k} = {ns[j] : j \in 1 .. k - 1} \cup {ns[k]}
      OBVIOUS
    <3>1. 1 .. k = (1 .. k - 1) \cup {k}
      BY <1>2
    <3> QED BY <3>1
  <2> QED BY <2>1, <2>2, <2>3
<1> HIDE DEF Left
<1> DEFINE G == {k \in 0 .. N : Intact(after[k], t, Left(k))}
<1>4. 0 \in G
  <2>1. Intact(after[0], t, Left(0))
    BY <1>1, <1>3
  <2>2. 0 \in 0 .. N
    BY <1>2
  <2> QED BY <2>1, <2>2
<1>5. ASSUME NEW k \in 1 .. N, k - 1 \in G PROVE k \in G
  <2> DEFINE r == after[k - 1]
  <2>1. Intact(r, t, Left(k - 1)) /\ k - 1 \in 0 .. N
    BY <1>5
  <2>2. r \in MetaOver(D) /\ Once(r.nodes)
    BY <1>1, <2>1 DEF At
  <2> HIDE DEF r
  <2>3. Intact(MigrateFromNode(r, ns[k]), t, Left(k - 1) \ {ns[k]})
    BY <1>2, <2>1, <2>2, MigrateIntact
  <2>4. Intact(after[k], t, Left(k))
    BY <1>1, <1>3, <2>3 DEF r
  <2> QED BY <1>2, <2>4
<1>6. N \in G
  <2>1. \A k \in 1 .. N : k - 1 \in G => k \in G
    <3> HIDE DEF G
    <3> QED BY <1>5
  <2> HIDE DEF G, N
  <2>2. \A k \in 0 .. N : k \in G
    BY <1>2, <1>4, <2>1, UpTo
  <2> QED BY <1>2, <2>2
<1>7. N \in 0 .. N
  BY <1>2
<1> QED
  BY <1>1, <1>3, <1>6, <1>7

\* DownNodes: the nodes of the list are down afterwards, and out of the table.
LEMMA DownIntact ==
  ASSUME NEW D \in SUBSET Table, NEW v \in VersionInfo, NEW m \in At(D, v), NEW ns \in Seq(Node),
         Once(m.nodes), m.alive \subseteq Elems(m.nodes)
  PROVE  LET r == DownNodes(m, ns)
         IN  /\ r.alive = StillUp(m, ns)
             /\ \A t \in D : Intact(m, t, m.alive) => Intact(r, t, StillUp(m, ns))
<1> DEFINE up == StillUp(m, ns)
           s == Marked(m, ns)
           r == DownNodes(m, ns)
<1>1. r = IF Elems(ns) \cap Elems(m.nodes) = {} THEN m ELSE GenerateMigrateTasks(s, ns)
  BY DEF DownNodes, Marked
<1> HIDE DEF r
<1>2. CASE Elems(ns) \cap Elems(m.nodes) = {}
  <2>1. up = m.alive
    BY <1>2 DEF StillUp
  <2> QED BY <1>1, <1>2, <2>1 DEF r
<1>3. CASE Elems(ns) \cap Elems(m.nodes) # {}
  <2>1. /\ s \in At(D, NextEpoch(v)) /\ s.table_info = m.table_info /\ s.nodes = m.nodes
        /\ s.alive = up /\ s.node_table = m.node_table
    BY MarkedType
  <2>2. NextEpoch(v) \in VersionInfo /\ r = GenerateMigrateTasks(s, ns)
    BY <1>1, <1>3, NextVersionInfo
  <2> DEFINE later == NextEpoch(v)
  <2> HIDE DEF s
  <2>3. r.alive = s.alive
    <3>1. later \in VersionInfo /\ s \in At(D, later)
      BY <2>1, <2>2
    <3> HIDE DEF later
    <3>2. GenerateMigrateTasks(s, ns).alive = s.alive
      BY <3>1, GenerateMigrateTasksType
    <3> QED BY <2>2, <3>2
  <2>4. ASSUME NEW t \in D, Intact(m, t, m.alive) PROVE Intact(r, t, up)
    <3>1. Intact(s, t, m.alive)
      BY <2>1, <2>4, IntactKept
    <3>2. Intact(r, t, m.alive \ Elems(ns))
      BY <2>1, <2>2, <3>1, GenerateIntact
    <3> QED BY <3>2 DEF StillUp
  <2> QED BY <2>1, <2>3, <2>4 DEF r
<1> QED
  BY <1>2, <1>3

\* The nodes that are up when one has returned.
UpWith(m, n) == m.alive \cup {n}

\* node_table_ when it has.
RecordedWith(m, n) ==
  [m.node_table EXCEPT ![n] = @ \cup {t \in Degraded(m) : m.table_info[t].duplicate_num > 0}]

\* What UpdateDownNode does to the fields of a record.
Returned(r, D, m, n) ==
  /\ r.nodes = m.nodes /\ r.alive = UpWith(m, n)
  /\ r.node_table = RecordedWith(m, n)
  /\ \A t \in D :
       /\ r.table_info[t].duplicate_num = m.table_info[t].duplicate_num
       /\ \A i \in Ids : r.table_info[t].partitions[i] = UpdatePartition(m, t, i, n)

LEMMA UpdateDownNodeFields ==
  ASSUME NEW D, NEW m \in MetaOver(D), NEW n \in Node, NEW carried
  PROVE  Returned(UpdateDownNode(m, n, carried), D, m, n)
<1> DEFINE up == m.alive \cup {n}
           r == [m EXCEPT !.alive = up]
           joined == [r.node_table EXCEPT ![n] =
                        @ \cup {t \in Degraded(r) : r.table_info[t].duplicate_num > 0}]
           New(t) == [r.table_info[t] EXCEPT
                        !.partitions = [i \in Ids |-> UpdatePartition(r, t, i, n)],
                        !.version = IF t \in Changes(r, n) \cup carried
                                    THEN r.version.version ELSE @]
           tables == [t \in DOMAIN r.table_info |-> New(t)]
           u == [r EXCEPT !.node_table = joined, !.table_info = tables]
<1>1. UpdateDownNode(m, n, carried) = [u EXCEPT !.version.epoch = @ + 1]
  BY DEF UpdateDownNode, UpdatePartNodeMS
<1>2. m.table_info \in [D -> TableInfo]
  BY DEF MetaOver
<1> HIDE DEF up
<1>3. r.nodes = m.nodes /\ r.alive = up /\ r.node_table = m.node_table /\ r.table_info = m.table_info
      /\ r \in [version : VersionInfo, table_info : [D -> TableInfo], nodes : Seq(Node),
                node_table : [Node -> SUBSET Table], alive : {up}]
  BY DEF MetaOver
<1> HIDE DEF r
<1>4. Degraded(r) = Degraded(m)
  BY <1>3 DEF Degraded
<1>5. \A t, i : UpdatePartition(r, t, i, n) = UpdatePartition(m, t, i, n)
  <2>1. \A t, i : CopyOf(r, t, i, n) = CopyOf(m, t, i, n)
    BY <1>3 DEF CopyOf, Rank
  <2> QED BY <1>3, <2>1 DEF UpdatePartition
<1>6. joined = RecordedWith(m, n)
  BY <1>3, <1>4 DEF RecordedWith
<1>7. ASSUME NEW t \in D
      PROVE  /\ tables[t].duplicate_num = m.table_info[t].duplicate_num
             /\ \A i \in Ids : tables[t].partitions[i] = UpdatePartition(m, t, i, n)
  <2> DEFINE parts == [i \in Ids |-> UpdatePartition(r, t, i, n)]
             w == IF t \in Changes(r, n) \cup carried
                  THEN r.version.version ELSE r.table_info[t].version
  <2>1. \A i \in Ids : parts[i] = UpdatePartition(m, t, i, n)
    BY <1>5
  <2>2. tables[t] = [m.table_info[t] EXCEPT !.partitions = parts, !.version = w]
    BY <1>2, <1>3
  <2>3. m.table_info[t] \in TableInfo
    BY <1>2
  <2> HIDE DEF parts, w, tables
  <2>4. tables[t].duplicate_num = m.table_info[t].duplicate_num /\ tables[t].partitions = parts
    BY <2>2, <2>3 DEF TableInfo
  <2> QED BY <2>1, <2>4
<1> HIDE DEF joined, tables
<1>8. u.nodes = m.nodes /\ u.alive = up /\ u.node_table = joined /\ u.table_info = tables
      /\ DOMAIN u = {"version", "table_info", "nodes", "node_table", "alive"}
  BY <1>3
<1> HIDE DEF u
<1>9. LET z == [u EXCEPT !.version.epoch = @ + 1]
      IN  z.nodes = m.nodes /\ z.alive = up /\ z.node_table = joined /\ z.table_info = tables
  BY <1>8
<1> QED
  BY <1>1, <1>6, <1>7, <1>9 DEF up, UpWith, Returned

\* A node that was down returns to an intact table.
LEMMA ReturnIntact ==
  ASSUME NEW D \in SUBSET Table, NEW m \in MetaOver(D), Once(m.nodes),
         NEW n \in Elems(m.nodes) \ m.alive, NEW carried, NEW t \in D, Intact(m, t, m.alive)
  PROVE  Intact(UpdateDownNode(m, n, carried), t, UpWith(m, n))
<1> DEFINE r == UpdateDownNode(m, n, carried)
           table == m.table_info[t]
           after == r.table_info[t]
           dup == table.duplicate_num
           up == m.alive
           Copies0(i) == CopiesIn(m.nodes, t, i, dup)
           First0(i) == Placed(m.nodes, t, i, 0)
<1>1. m.nodes \in Seq(Node) /\ n \in Node /\ m.node_table \in [Node -> SUBSET Table]
      /\ DOMAIN m.table_info = D
  BY DEF MetaOver, Elems
<1>2. /\ r.nodes = m.nodes /\ r.node_table = RecordedWith(m, n)
      /\ after.duplicate_num = dup
      /\ \A i \in Ids : after.partitions[i] = UpdatePartition(m, t, i, n)
  <2>1. Returned(r, D, m, n)
    BY <1>1, UpdateDownNodeFields
  <2> HIDE DEF r
  <2> QED BY <2>1 DEF Returned
<1> HIDE DEF r
<1>3. dup \in 1 .. Len(m.nodes) /\ \A i \in Ids : Holds(table.partitions[i], Copies0(i), First0(i), up)
  BY DEF Intact
<1>4. ASSUME NEW i \in Ids
      PROVE  Holds(after.partitions[i], Copies0(i), First0(i), up \cup {n})
  <2>1. after.partitions[i] = UpdatePartition(m, t, i, n)
    BY <1>2
  <2>2. Holds(UpdatePartition(m, t, i, n), Copies0(i), First0(i), up \cup {n})
    BY <1>1, <1>3, UpdateHolds
  <2> QED BY <2>1, <2>2
<1>5. ASSUME NEW x \in TableMembers(after) PROVE t \in r.node_table[x]
  <2>1. PICK i \in Ids : x \in Members(after.partitions[i])
    BY <1>5 DEF TableMembers
  <2>2. x \in Copies0(i) /\ x \in up \cup {n}
    <3> DEFINE p == after.partitions[i]
               more == up \cup {n}
    <3>1. Holds(p, Copies0(i), First0(i), more) /\ x \in Members(p)
      BY <1>4, <2>1
    <3> HIDE DEF p, Copies0, First0, more
    <3>2. x \in Members(p) <=> x \in Copies0(i) /\ x \in more
      BY <3>1, HoldsMembers
    <3> QED BY <3>1, <3>2 DEF more
  <2>4. x \in Node
    <3>1. Copies0(i) \subseteq Node
      BY <1>1, <1>3, CopiesKnown
    <3> QED BY <2>2, <3>1
  <2>5. CASE x \in up
    <3>0. x \in Members(table.partitions[i])
      <4> DEFINE p == table.partitions[i]
      <4>1. Holds(p, Copies0(i), First0(i), up)
        BY <1>3
      <4> HIDE DEF p, Copies0, First0
      <4>2. x \in Members(p) <=> x \in Copies0(i) /\ x \in up
        BY <4>1, HoldsMembers
      <4> QED BY <2>2, <2>5, <4>2 DEF p
    <3>1. x \in TableMembers(table)
      BY <3>0 DEF TableMembers
    <3>2. t \in m.node_table[x]
      BY <3>1 DEF Intact
    <3> QED BY <1>1, <1>2, <2>4, <3>2 DEF RecordedWith
  <2>6. CASE x = n
    <3>1. ~(Copies0(i) \subseteq up)
      BY <2>2, <2>6
    <3>2. table.partitions[i].status # "ACTIVE"
      BY <1>3, <3>1 DEF Holds
    <3>3. t \in Degraded(m)
      BY <1>1, <3>2 DEF Degraded
    <3>4. dup > 0
      <4>1. dup \in 1 .. Len(m.nodes)
        BY <1>3
      <4> QED BY <4>1
    <3>5. t \in {u \in Degraded(m) : m.table_info[u].duplicate_num > 0}
      BY <3>3, <3>4
    <3> QED BY <1>1, <1>2, <2>6, <3>5 DEF RecordedWith
  <2> QED BY <2>2, <2>5, <2>6
<1>6. after.duplicate_num \in 1 .. Len(r.nodes)
  BY <1>2, <1>3
<1>7. \A i \in Ids : Holds(after.partitions[i], CopiesIn(r.nodes, t, i, after.duplicate_num),
                          Placed(r.nodes, t, i, 0), up \cup {n})
  BY <1>2, <1>4
<1>8. \A x \in TableMembers(after) : t \in r.node_table[x]
  BY <1>5
<1>9. Intact(r, t, up \cup {n})
  BY <1>6, <1>7, <1>8 DEF Intact
<1> QED
  BY <1>9 DEF r, UpWith

\* A partition as CreateTable places it.
LEMMA NewHolds ==
  ASSUME NEW order \in Seq(Node), Once(order), NEW t \in Table, NEW i \in Ids,
         NEW dup \in 1 .. Len(order)
  PROVE  Holds(NewTable(order, t, dup).partitions[i], CopiesIn(order, t, i, dup),
               Placed(order, t, i, 0), Elems(order))
<1> DEFINE s == [j \in 1 .. dup - 1 |-> Placed(order, t, i, j)]
           first == Placed(order, t, i, 0)
           copies == CopiesIn(order, t, i, dup)
           p == [master |-> first, slaves |-> s, status |-> "ACTIVE"]
<1>1. NewTable(order, t, dup).partitions[i] = p
  BY DEF NewTable
<1>2. copies \subseteq Elems(order) /\ copies \subseteq Node /\ first \in copies
  BY CopiesKnown
<1>3. \A j \in 0 .. dup - 1 : Placed(order, t, i, j) \in copies
  BY DEF CopiesIn
<1>4. \A j \in 1 .. dup - 1 : j \in 0 .. dup - 1
  OBVIOUS
<1>5. s \in [1 .. dup - 1 -> Node]
  BY <1>2, <1>3, <1>4
<1>6. s \in Seq(Node)
  <2>1. dup - 1 \in Nat
    OBVIOUS
  <2> QED BY <1>5, <2>1
<1>7. \A x, y \in 0 .. dup - 1 : Placed(order, t, i, x) = Placed(order, t, i, y) => x = y
  <2>1. \A x \in 0 .. dup - 1 : x \in 0 .. Len(order) - 1
    OBVIOUS
  <2> QED BY <2>1, PlacedOnce
<1>8. Once(s)
  BY <1>4, <1>7 DEF Once
<1>9. first \notin Elems(s)
  <2>1. 0 \in 0 .. dup - 1 /\ \A j \in 1 .. dup - 1 : j # 0
    OBVIOUS
  <2> QED BY <1>4, <1>7, <2>1 DEF Elems
<1>10. {first} \cup Elems(s) = copies
  <2>1. \A j \in 0 .. dup - 1 : j = 0 \/ j \in 1 .. dup - 1
    OBVIOUS
  <2>2. Elems(s) = {Placed(order, t, i, j) : j \in 1 .. dup - 1}
    BY DEF Elems
  <2>3. copies \subseteq {first} \cup Elems(s)
    BY <2>1, <2>2 DEF CopiesIn
  <2>4. Elems(s) \subseteq copies
    BY <1>3, <1>4, <2>2
  <2> QED BY <1>2, <2>3, <2>4
<1> HIDE DEF s, first, copies
<1>11. NoNode \notin copies /\ copies \cap Elems(order) = copies
  BY <1>2, NoNodeAssumption
<1>12. ({first} \cup Elems(s)) \ {NoNode} = copies \cap Elems(order)
  BY <1>10, <1>11
<1>13. Held(first, s, copies, first, Elems(order))
  BY <1>2, <1>6, <1>8, <1>9, <1>12, NoNodeAssumption DEF Held
<1>14. s \in Seq(Node \cup {NoNode}) /\ first \in Node \cup {NoNode}
  BY <1>2, <1>6
<1>15. p \in Partition
  BY <1>14 DEF Partition
<1>16. Holds(p, copies, first, Elems(order))
  BY <1>2, <1>13, <1>15 DEF Holds
<1> QED
  BY <1>1, <1>16 DEF copies, first

\* Creating a table while every node is up leaves it intact, and the others.
NewlyPlaced(r, D, m, t) ==
  /\ r.nodes = m.nodes /\ r.alive = m.alive
  /\ \A u \in DOMAIN r.table_info : u = t \/ u \in D
  /\ Intact(r, t, Elems(m.nodes))
  /\ \A u \in D : \A up : Intact(m, u, up) => Intact(r, u, up)

LEMMA CreateIntact ==
  ASSUME NEW D \in SUBSET Table, NEW m \in MetaOver(D), Once(m.nodes), NEW t \in Table \ D,
         NEW dup \in 1 .. Len(m.nodes)
  PROVE  NewlyPlaced(CreateTable(m, t, NewTable(m.nodes, t, dup)), D, m, t)
<1> DEFINE table == NewTable(m.nodes, t, dup)
           recorded == SetNodeTable(m.node_table, t, table)
           new == [table EXCEPT !.version = m.version.version + 1]
           tables == WithTable(m.table_info, t, new)
           r == CreateTable(m, t, table)
<1>1. m.nodes \in Seq(Node) /\ m.node_table \in [Node -> SUBSET Table] /\ DOMAIN m.table_info = D
  BY DEF MetaOver
<1>2. r = [m EXCEPT !.node_table = recorded, !.version.version = @ + 1, !.table_info = tables]
  BY DEF CreateTable
<1>3. /\ DOMAIN tables = D \cup {t} /\ tables[t] = new
      /\ \A u \in D : tables[u] = m.table_info[u]
  BY <1>1 DEF WithTable
<1>4. new.duplicate_num = dup /\ new.partitions = table.partitions
  BY DEF NewTable
<1>5. \A n \in Node : recorded[n] = m.node_table[n] \cup (IF n \in TableMembers(table) THEN {t} ELSE {})
  BY DEF SetNodeTable
<1> HIDE DEF recorded, tables, new, table, r
<1>6. r.nodes = m.nodes /\ r.alive = m.alive /\ r.node_table = recorded /\ r.table_info = tables
  BY <1>2 DEF MetaOver
<1>7. \A i \in Ids : Holds(table.partitions[i], CopiesIn(m.nodes, t, i, dup), Placed(m.nodes, t, i, 0),
                           Elems(m.nodes))
  BY <1>1, NewHolds DEF table
<1>8. \A n \in TableMembers(new) : n \in Node /\ n \in TableMembers(table)
  <2> TAKE n \in TableMembers(new)
  <2>1. PICK i \in Ids : n \in Members(table.partitions[i])
    BY <1>4 DEF TableMembers
  <2>2. n \in CopiesIn(m.nodes, t, i, dup)
    BY <1>7, <2>1 DEF Holds, Held, Members
  <2>3. n \in Node
    BY <1>1, <2>2, CopiesKnown
  <2> QED BY <2>1, <2>3 DEF TableMembers
<1>9. \A n \in TableMembers(new) : t \in recorded[n]
  BY <1>5, <1>8
<1>10. r.table_info[t] = new
  BY <1>3, <1>6
<1>11. Intact(r, t, Elems(m.nodes))
  BY <1>4, <1>6, <1>7, <1>9, <1>10 DEF Intact
<1>12. ASSUME NEW u \in D, NEW up, Intact(m, u, up) PROVE Intact(r, u, up)
  <2>1. ASSUME NEW n \in TableMembers(m.table_info[u]), u \in m.node_table[n]
        PROVE  u \in r.node_table[n]
    <3>1. n \in Node
      BY <1>12, <2>1, IntactNodes
    <3> QED BY <1>5, <1>6, <2>1, <3>1
  <2>2. r.table_info[u] = m.table_info[u]
    BY <1>3, <1>6
  <2> QED BY <1>6, <1>12, <2>1, <2>2, IntactKept
<1> QED
  BY <1>3, <1>6, <1>11, <1>12 DEF r, table, NewlyPlaced

\* Dropping tables does not touch the others.
LEMMA DropIntact ==
  ASSUME NEW D \in SUBSET Table, NEW m \in MetaOver(D), NEW ts \in SUBSET Table
  PROVE  LET r == DropTable(m, ts)
         IN  /\ r.nodes = m.nodes /\ r.alive = m.alive /\ DOMAIN r.table_info \subseteq D
             /\ \A u \in DOMAIN r.table_info : \A up : Intact(m, u, up) => Intact(r, u, up)
<1> DEFINE dropped == ts \cap DOMAIN m.table_info
           cleared == [n \in Node |->
                         m.node_table[n] \ {t \in dropped : n \in TableMembers(m.table_info[t])}]
           tables == [t \in DOMAIN m.table_info \ dropped |-> m.table_info[t]]
           r == DropTable(m, ts)
<1>1. m.node_table \in [Node -> SUBSET Table] /\ DOMAIN m.table_info = D
  BY DEF MetaOver
<1>2. CASE dropped = {}
  <2>1. r = m
    BY <1>2 DEF DropTable
  <2> HIDE DEF r
  <2> QED BY <1>1, <2>1 DEF r
<1>3. CASE dropped # {}
  <2>1. r = [m EXCEPT !.node_table = cleared, !.table_info = tables, !.version.version = @ + 1]
    BY <1>3 DEF DropTable
  <2>2. DOMAIN tables = D \ dropped /\ \A u \in D \ dropped : tables[u] = m.table_info[u]
    BY <1>1
  <2>3. \A n \in Node, u \in D \ dropped : u \in m.node_table[n] => u \in cleared[n]
    OBVIOUS
  <2> HIDE DEF cleared, tables, r, dropped
  <2>4. r.nodes = m.nodes /\ r.alive = m.alive /\ r.node_table = cleared /\ r.table_info = tables
    BY <2>1 DEF MetaOver
  <2>5. ASSUME NEW u \in DOMAIN r.table_info, NEW up, Intact(m, u, up) PROVE Intact(r, u, up)
    <3>1. \A n \in TableMembers(m.table_info[u]) : n \in Node
      BY <2>5, IntactNodes
    <3>2. u \in D \ dropped
      BY <2>2, <2>4, <2>5
    <3> QED BY <2>2, <2>3, <2>4, <2>5, <3>1, <3>2, IntactKept
  <2> QED BY <2>2, <2>4, <2>5 DEF r
<1> QED
  BY <1>2, <1>3

\* Committing a migration touches only its table.
LEMMA CommitIntact ==
  ASSUME NEW D \in SUBSET Table, NEW m \in MetaOver(D), NEW t \in D, NEW i \in Ids,
         NEW dst \in Node, NEW role
  PROVE  LET r == CommitMigrate(m, t, i, dst, role)
         IN  /\ r.nodes = m.nodes /\ r.alive = m.alive /\ DOMAIN r.table_info = D
             /\ \A u \in D \ {t} : \A up : Intact(m, u, up) => Intact(r, u, up)
<1> DEFINE table == m.table_info[t]
           p == table.partitions[i]
           q == IF role = "MASTER" THEN [p EXCEPT !.slaves = Append(@, p.master), !.master = dst]
                                   ELSE [p EXCEPT !.slaves = Append(@, dst)]
           z == IF 1 + Len(q.slaves) = table.duplicate_num THEN [q EXCEPT !.status = "ACTIVE"] ELSE q
           new == [table EXCEPT !.partitions[i] = z, !.version = m.version.version + 1]
           recorded == [m.node_table EXCEPT ![dst] = @ \cup {t}]
           tables == [m.table_info EXCEPT ![t] = new]
           r == CommitMigrate(m, t, i, dst, role)
<1>1. m.node_table \in [Node -> SUBSET Table] /\ DOMAIN m.table_info = D
  BY DEF MetaOver
<1>2. r = IF dst \in Members(p) THEN m
          ELSE [m EXCEPT !.node_table = recorded, !.table_info = tables, !.version.version = @ + 1]
  BY DEF CommitMigrate
<1> HIDE DEF new
<1>3. DOMAIN tables = D /\ \A u \in D \ {t} : tables[u] = m.table_info[u]
  BY <1>1
<1>4. \A n \in Node, u \in D \ {t} : u \in m.node_table[n] => u \in recorded[n]
  BY <1>1
<1> HIDE DEF tables, recorded, r
<1>5. CASE r = m
  BY <1>1, <1>5 DEF r
<1>6. CASE r = [m EXCEPT !.node_table = recorded, !.table_info = tables, !.version.version = @ + 1]
  <2>1. r.nodes = m.nodes /\ r.alive = m.alive /\ r.node_table = recorded /\ r.table_info = tables
    BY <1>6 DEF MetaOver
  <2>2. ASSUME NEW u \in D \ {t}, NEW up, Intact(m, u, up) PROVE Intact(r, u, up)
    <3>1. \A n \in TableMembers(m.table_info[u]) : n \in Node
      BY <2>2, IntactNodes
    <3> QED BY <1>3, <1>4, <2>1, <2>2, <3>1, IntactKept
  <2> QED BY <1>3, <2>1, <2>2 DEF r
<1> QED
  BY <1>2, <1>5, <1>6
=============================================================================

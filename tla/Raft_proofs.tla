---------------------------- MODULE Raft_proofs -----------------------------
(* At most one leader in a term, for any number of servers and any number of *)
(* elections, faults and messages.                                           *)
EXTENDS RaftVotes, FiniteSetTheorems, TLAPS

-----------------------------------------------------------------------------
\* A set of servers that holds a quorum is a quorum.
LEMMA LargerQuorum ==
  ASSUME NEW Q, NEW R, Q \subseteq R, R \subseteq Server, IsQuorum(Q)
  PROVE  IsQuorum(R)
<1>1. IsFiniteSet(R) /\ IsFiniteSet(Q) /\ Cardinality(Q) <= Cardinality(R)
  BY ServerAssumption, FS_Subset
<1>2. Cardinality(Q) \in Nat /\ Cardinality(R) \in Nat /\ Cardinality(Server) \in Nat
  BY <1>1, ServerAssumption, FS_CardinalityType
<1> QED
  BY <1>1, <1>2 DEF IsQuorum

\* Two quorums have a server in common.
LEMMA QuorumsMeet ==
  ASSUME NEW Q, NEW R, Q \subseteq Server, R \subseteq Server, IsQuorum(Q), IsQuorum(R)
  PROVE  Q \cap R # {}
<1>1. IsFiniteSet(R) /\ IsFiniteSet(Q)
  BY ServerAssumption, FS_Subset
<1>2. Cardinality(Q) \in Nat /\ Cardinality(R) \in Nat /\ Cardinality(Server) \in Nat
  BY <1>1, ServerAssumption, FS_CardinalityType
<1>3. Cardinality(Q) + Cardinality(R) > Cardinality(Server)
  BY <1>2 DEF IsQuorum
<1> QED
  BY <1>3, ServerAssumption, FS_MajoritiesIntersect

LEMMA VotesAreServers == \A i, t : Votes(i, t) \subseteq Server
  BY DEF Votes

\* The invariant is enough: the voters of two leaders of a term meet.
LEMMA InvElectionSafety == Inv => ElectionSafety
<1> SUFFICES ASSUME Inv, NEW m \in msgs, NEW n \in msgs,
                    m.type = "append", n.type = "append", m.term = n.term,
                    m.backed, n.backed
             PROVE  m.from = n.from
  BY DEF ElectionSafety
<1>1. /\ m.from \in Server /\ n.from \in Server /\ m.term \in Nat
      /\ IsQuorum(Votes(m.from, m.term)) /\ IsQuorum(Votes(n.from, m.term))
  BY DEF Inv, MsgInv
<1>2. PICK p \in Server : p \in Votes(m.from, m.term) /\ p \in Votes(n.from, m.term)
  BY <1>1, QuorumsMeet, VotesAreServers
<1> QED
  BY <1>1, <1>2 DEF Inv, GrantInv

LEMMA InitInv == Init => Inv
<1> SUFFICES ASSUME Init PROVE Inv
  OBVIOUS
<1>1. TypeInv
  BY DEF Init, TypeInv, Voter
<1>2. StoredInv /\ ElectInv /\ VoteInv /\ MsgInv
  BY DEF Init, StoredInv, ElectInv, VoteInv, MsgInv
<1>3. GrantInv
  BY DEF Init, GrantInv, Votes
<1> QED
  BY <1>1, <1>2, <1>3 DEF Inv

-----------------------------------------------------------------------------
(* What the steps have in common.                                          *)

\* Only a "granted" message is a vote.
LEMMA SameVotes ==
  ASSUME \A m \in msgs' : m \notin msgs => m.type # "granted",
         \A m \in msgs : m \notin msgs' => m.type # "granted"
  PROVE  \A c, t : Votes(c, t)' = Votes(c, t)
  BY DEF Votes, Granted

\* The quorums of leaders stay, and new messages have one.
LEMMA MsgStep ==
  ASSUME Inv, \A c, t : Votes(c, t) \subseteq Votes(c, t)',
         \A m \in msgs' : m \notin msgs =>
            /\ m.type = "vote" => /\ m.from \in Server /\ m.to \in Server
                                  /\ m.from # m.to /\ m.term \in Nat
            /\ m.type = "append" => /\ m.from \in Server /\ m.term \in Nat
                                    /\ m.backed => IsQuorum(Votes(m.from, m.term))
  PROVE  MsgInv'
<1> SUFFICES ASSUME NEW m \in msgs'
             PROVE  /\ m.type = "vote" => /\ m.from \in Server /\ m.to \in Server
                                          /\ m.from # m.to /\ m.term \in Nat
                    /\ m.type = "append" => /\ m.from \in Server /\ m.term \in Nat
                                            /\ m.backed => IsQuorum(Votes(m.from, m.term)')
  BY DEF MsgInv, IsQuorum
<1>1. /\ m.type = "vote" => /\ m.from \in Server /\ m.to \in Server
                            /\ m.from # m.to /\ m.term \in Nat
      /\ m.type = "append" => /\ m.from \in Server /\ m.term \in Nat
                              /\ m.backed => IsQuorum(Votes(m.from, m.term))
  BY DEF Inv, MsgInv
<1>2. Votes(m.from, m.term)' \subseteq Server
  BY DEF Votes
<1> QED
  BY <1>1, <1>2, LargerQuorum

\* No vote is cast, and nothing that is stored for the voter is lost.
LEMMA GrantStep ==
  ASSUME Inv, \A c, t : Votes(c, t)' \subseteq Votes(c, t),
         \A p \in Server : meta'[p] = meta[p] \/ meta'[p][1] > meta[p][1],
         meta' \in [Server -> Nat \X Voter]
  PROVE  GrantInv'
<1> SUFFICES ASSUME NEW p \in Server, NEW c \in Server, NEW t \in Nat, p \in Votes(c, t)
             PROVE  /\ meta'[p][1] > t \/ meta'[p] = <<t, c>>
                    /\ \A d \in Server : p \in Votes(d, t) => c = d
  BY DEF GrantInv
<1>1. /\ meta[p][1] > t \/ meta[p] = <<t, c>>
      /\ \A d \in Server : p \in Votes(d, t) => c = d
  BY DEF Inv, GrantInv
<1>2. meta[p] \in Nat \X Voter /\ meta'[p] \in Nat \X Voter
  BY DEF Inv, TypeInv
<1> QED
  BY <1>1, <1>2

\* p grants a vote it has stored, and had stored no other in that term.
LEMMA NewGrant ==
  ASSUME Inv, NEW p \in Server, NEW c \in Server, NEW t \in Nat,
         \A e, u : \A q \in Votes(e, u)' :
            q \in Votes(e, u) \/ (q = p /\ e = c /\ u = t),
         meta'[p] = <<t, c>>,
         meta[p] = <<t, c>> \/ meta[p][1] < t \/ meta[p] = <<t, Nobody>>,
         \A q \in Server : q # p => meta'[q] = meta[q]
  PROVE  GrantInv'
<1> SUFFICES ASSUME NEW q \in Server, NEW e \in Server, NEW u \in Nat, q \in Votes(e, u)'
             PROVE  /\ meta'[q][1] > u \/ meta'[q] = <<u, e>>
                    /\ \A d \in Server : q \in Votes(d, u)' => e = d
  BY DEF GrantInv
<1>1. \A d \in Server : q \in Votes(d, u) =>
        /\ meta[q][1] > u \/ meta[q] = <<u, d>>
        /\ \A f \in Server : q \in Votes(f, u) => d = f
  BY DEF Inv, GrantInv
<1>2. CASE q # p
  BY <1>1, <1>2
<1>3. CASE q = p
  <2>1. meta[p] \in Nat \X Voter /\ meta'[p][1] = t
    BY DEF Inv, TypeInv
  <2>2. \A d \in Server : q \in Votes(d, u) => u < t \/ (u = t /\ d = c)
    BY <1>1, <1>3, <2>1, ServerAssumption
  <2> QED
    BY <1>3, <2>1, <2>2, <1>1
<1> QED
  BY <1>2, <1>3

\* A server that changes neither its term nor its vote.
LEMMA QuietVotes ==
  ASSUME Inv, UNCHANGED <<term, voted, meta>>
  PROVE  StoredInv'
  BY DEF Inv, StoredInv

LEMMA QuietWindows ==
  ASSUME Inv, UNCHANGED <<term, voted, meta>>,
         \A j \in Server : window'[j] \subseteq window[j]
  PROVE  ElectInv' /\ VoteInv'
  BY DEF Inv, ElectInv, VoteInv

\* A step that sends nothing and leaves terms, votes and windows alone.
LEMMA QuietKeeps ==
  ASSUME Inv, UNCHANGED <<term, voted, meta, window, msgs>>
  PROVE  Inv'
<1>1. \A c, t : Votes(c, t)' = Votes(c, t)
  BY SameVotes
<1>2. TypeInv' /\ MsgInv'
  BY <1>1, MsgStep DEF Inv, TypeInv
<1>3. GrantInv'
  BY <1>1, <1>2, GrantStep DEF TypeInv
<1> QED
  BY <1>2, <1>3, QuietVotes, QuietWindows DEF Inv

\* step_down.
LEMMA StepDownKeeps ==
  ASSUME Inv, NEW i \in Server, NEW t \in Nat, NEW l, t >= term[i], StepDown(i, t, l),
         \A c, u : Votes(c, u)' \subseteq Votes(c, u) /\ Votes(c, u) \subseteq Votes(c, u)',
         window' = [j \in Server |-> window'[j]],
         \A j \in Server : window'[j] \subseteq window[j]
  PROVE  TypeInv' /\ StoredInv' /\ ElectInv' /\ VoteInv' /\ GrantInv'
<1>1. TypeInv'
  <2>1. meta' \in [Server -> Nat \X Voter]
    BY DEF Inv, TypeInv, StepDown, Persist, Voter
  <2> QED
    BY <2>1 DEF Inv, TypeInv, StepDown, Voter
<1>2. CASE t = term[i]
  <2>1. UNCHANGED <<term, voted, meta>>
    BY <1>2 DEF StepDown, Inv, TypeInv
  <2>2. GrantInv'
    BY <1>1, <2>1, GrantStep DEF TypeInv
  <2> QED
    BY <1>1, <2>1, <2>2, QuietVotes, QuietWindows
<1>3. CASE t > term[i]
  <2>1. /\ term' = [term EXCEPT ![i] = t] /\ voted' = [voted EXCEPT ![i] = Nobody]
        /\ meta' = meta \/ meta' = [meta EXCEPT ![i] = <<t, Nobody>>]
    BY <1>3 DEF StepDown, Persist
  <2>2. term[i] \in Nat /\ meta[i] \in Nat \X Voter /\ meta[i][1] <= term[i]
    BY DEF Inv, TypeInv, StoredInv
  <2>3. /\ term'[i] = t /\ voted'[i] = Nobody
        /\ meta'[i] = meta[i] \/ meta'[i] = <<t, Nobody>>
        /\ \A j \in Server : j # i => /\ term'[j] = term[j] /\ voted'[j] = voted[j]
                                      /\ meta'[j] = meta[j]
    BY <2>1 DEF Inv, TypeInv
  <2>4. meta[i][1] < t /\ (meta'[i] = meta[i] \/ (meta'[i][1] = t /\ meta'[i][2] = Nobody))
    BY <1>3, <2>2, <2>3
  <2>5. StoredInv'
    BY <1>3, <2>2, <2>3, <2>4 DEF Inv, StoredInv
  <2>6. ElectInv'
    <3> SUFFICES ASSUME NEW j \in Server, NEW w \in window'[j], w.op = "elect"
                 PROVE  /\ w.term \in Nat /\ w.term <= term'[j]
                        /\ w.term = term'[j] => voted'[j] = j /\ meta'[j][1] < term'[j]
                        /\ \A v \in window'[j] : v.op = "elect" /\ v.term = w.term => v = w
      BY DEF ElectInv
    <3>1. /\ w.term \in Nat /\ w.term <= term[j]
          /\ w.term = term[j] => voted[j] = j /\ meta[j][1] < term[j]
          /\ \A v \in window'[j] : v.op = "elect" /\ v.term = w.term => v = w
      BY DEF Inv, ElectInv
    <3>2. CASE j = i
      BY <3>1, <3>2, <1>3, <2>2, <2>3
    <3>3. CASE j # i
      BY <3>1, <3>3, <2>3
    <3> QED
      BY <3>2, <3>3
  <2>7. VoteInv'
    BY DEF Inv, VoteInv
  <2>8. GrantInv'
    BY <1>1, <2>2, <2>3, <2>4, GrantStep DEF TypeInv
  <2> QED
    BY <1>1, <2>5, <2>6, <2>7, <2>8
<1>4. t = term[i] \/ t > term[i]
  <2>1. term[i] \in Nat
    BY DEF Inv, TypeInv
  <2> QED
    BY <2>1
<1> QED
  BY <1>2, <1>3, <1>4

-----------------------------------------------------------------------------
(* The steps.                                                              *)

LEMMA TimedOutKeeps ==
  ASSUME Inv, NEW i \in Server, NEW prevote, TimedOut(i, prevote)
  PROVE  Inv'
  BY QuietKeeps DEF TimedOut

\* A response of a higher term.
LEMMA HigherTermKeeps ==
  ASSUME Inv, NEW i \in Server, NEW t \in HigherTerms(i), NEW l, StepDown(i, t, l),
         UNCHANGED <<window, msgs>>
  PROVE  Inv'
<1>1. t \in Nat /\ t >= term[i]
  BY DEF HigherTerms, Inv, TypeInv
<1>2. \A c, u : Votes(c, u)' = Votes(c, u)
  BY SameVotes
<1>3. window' = [j \in Server |-> window'[j]]
  BY DEF Inv, TypeInv
<1>4. MsgInv'
  BY <1>2, MsgStep
<1> QED
  BY <1>1, <1>2, <1>3, <1>4, StepDownKeeps DEF Inv

LEMMA ElectSelfKeeps ==
  ASSUME Inv, NEW i \in Server, ElectSelf(i)
  PROVE  Inv'
<1> DEFINE o == OpenWindow(i, "elect", term[i] + 1, Nobody)
<1>1. \A c, t : Votes(c, t)' = Votes(c, t)
  BY SameVotes DEF ElectSelf
<1>2. TypeInv'
  <2>1. term' \in [Server -> Nat] /\ voted' \in [Server -> Voter]
    BY DEF Inv, TypeInv, ElectSelf, Voter
  <2>2. window' = [j \in Server |-> window'[j]]
    BY DEF Inv, TypeInv, ElectSelf
  <2> QED
    BY <2>1, <2>2 DEF Inv, TypeInv, ElectSelf
<1>3. /\ term'[i] = term[i] + 1 /\ voted'[i] = i /\ meta[i][1] <= term[i]
      /\ term[i] \in Nat /\ meta[i][1] \in Nat
      /\ \A j \in Server : j # i => term'[j] = term[j] /\ voted'[j] = voted[j]
  BY DEF Inv, TypeInv, StoredInv, ElectSelf
<1>4. StoredInv'
  BY <1>3 DEF Inv, StoredInv, ElectSelf
<1>5. /\ window'[i] = window[i] \cup {o}
      /\ \A j \in Server : j # i => window'[j] = window[j]
  BY DEF Inv, TypeInv, ElectSelf
<1>6. /\ o.op = "elect" /\ o.term = term[i] + 1
      /\ DOMAIN o = {"op", "term", "req", "last", "ahead"}
  BY DEF OpenWindow
<1> HIDE DEF o
<1>7. ElectInv'
  <2> SUFFICES ASSUME NEW j \in Server, NEW w \in window'[j], w.op = "elect"
               PROVE  /\ w.term \in Nat /\ w.term <= term'[j]
                      /\ w.term = term'[j] => voted'[j] = j /\ meta[j][1] < term'[j]
                      /\ \A v \in window'[j] : v.op = "elect" /\ v.term = w.term => v = w
    BY DEF ElectInv, ElectSelf
  <2>1. CASE j # i
    BY <2>1, <1>3, <1>5 DEF Inv, ElectInv
  <2>2. CASE j = i /\ w = o
    BY <2>2, <1>3, <1>5, <1>6 DEF Inv, ElectInv
  <2>3. CASE j = i /\ w # o
    <3>1. w \in window[i] /\ w.term \in Nat /\ w.term <= term[i]
      BY <2>3, <1>5 DEF Inv, ElectInv
    <3>2. \A v \in window[i] : v.op = "elect" /\ v.term = w.term => v = w
      BY <3>1 DEF Inv, ElectInv
    <3>3. \A v \in window'[i] : v.op = "elect" /\ v.term = w.term => v = w
      BY <3>1, <3>2, <1>3, <1>5, <1>6
    <3> QED
      BY <2>3, <3>1, <3>3, <1>3
  <2> QED
    BY <2>1, <2>2, <2>3
<1>8. VoteInv'
  BY <1>5, <1>6 DEF Inv, VoteInv
<1>9. GrantInv'
  BY <1>1, <1>2, GrantStep DEF TypeInv, ElectSelf
<1>10. MsgInv'
  BY <1>1, MsgStep DEF ElectSelf
<1> QED
  BY <1>2, <1>4, <1>7, <1>8, <1>9, <1>10 DEF Inv

LEMMA ElectionTimeoutKeeps ==
  ASSUME Inv, NEW i \in Server, ElectionTimeout(i)
  PROVE  Inv'
<1>1. CASE \E t \in HigherTerms(i) : StepDown(i, t, Nobody)
  BY <1>1, HigherTermKeeps DEF ElectionTimeout
<1>2. CASE UNCHANGED <<term, voted, meta, window, msgs>>
  BY <1>2, QuietKeeps
<1> QED
  BY <1>1, <1>2 DEF ElectionTimeout

LEMMA RestartKeeps ==
  ASSUME Inv, NEW i \in Server, Restart(i)
  PROVE  Inv'
<1>1. \A c, t : Votes(c, t)' = Votes(c, t)
  BY SameVotes DEF Restart
<1>2. meta[i] \in Nat \X Voter /\ meta[i] = <<meta[i][1], meta[i][2]>>
  BY DEF Inv, TypeInv
<1>3. meta' = meta
  BY <1>2 DEF Restart, Reload, Inv, TypeInv
<1>4. TypeInv'
  BY <1>2, <1>3 DEF Inv, TypeInv, Restart, Reload
<1>5. /\ term'[i] = meta[i][1] /\ voted'[i] = meta[i][2] /\ window'[i] = {}
      /\ \A j \in Server : j # i => /\ term'[j] = term[j] /\ voted'[j] = voted[j]
                                    /\ window'[j] = window[j]
  BY DEF Inv, TypeInv, Restart, Reload
<1>6. StoredInv'
  BY <1>2, <1>3, <1>5 DEF Inv, StoredInv
<1>7. ElectInv' /\ VoteInv'
  BY <1>3, <1>5 DEF Inv, ElectInv, VoteInv
<1>8. GrantInv'
  BY <1>1, <1>3, <1>4, GrantStep DEF TypeInv
<1>9. MsgInv'
  BY <1>1, MsgStep DEF Restart
<1> QED
  BY <1>4, <1>6, <1>7, <1>8, <1>9 DEF Inv

LEMMA ElectSelfLockedCases ==
  ASSUME NEW i \in Server, ElectSelfLocked(i)
  PROVE  \E w \in window[i] :
        /\ w.op = "elect" /\ w.ahead = 0
        /\ window' = [window EXCEPT ![i] = @ \ {w}]
        /\ \/ UNCHANGED <<voted, meta, asked, msgs>>
           \/ /\ w.term = term[i]
              /\ asked' = [asked EXCEPT ![i] = w.last]
              /\ \E ok \in BOOLEAN :
                   /\ Persist(i, term[i], i, ok)
                   /\ voted' = IF ok THEN voted ELSE [voted EXCEPT ![i] = Nobody]
                   /\ msgs' = msgs \cup Campaign(i, w.last, ok)
        /\ UNCHANGED <<state, term, leaderId, lastLeader, prevoted, logVars, leaderVars>>
  BY DEF ElectSelfLocked

\* elect_self after the lock: the vote for itself is the first of its term.
LEMMA ElectSelfLockedKeeps ==
  ASSUME Inv, NEW i \in Server, ElectSelfLocked(i)
  PROVE  Inv'
<1>1. PICK w \in window[i] :
        /\ w.op = "elect"
        /\ window' = [window EXCEPT ![i] = @ \ {w}]
        /\ \/ UNCHANGED <<voted, meta, asked, msgs>>
           \/ /\ w.term = term[i]
              /\ \E ok \in BOOLEAN :
                   /\ Persist(i, term[i], i, ok)
                   /\ voted' = IF ok THEN voted ELSE [voted EXCEPT ![i] = Nobody]
                   /\ msgs' = msgs \cup Campaign(i, w.last, ok)
        /\ term' = term
  BY ElectSelfLockedCases
<1>2. /\ window' = [j \in Server |-> window'[j]]
      /\ \A j \in Server : window'[j] \subseteq window[j]
      /\ w \notin window'[i]
  BY <1>1 DEF Inv, TypeInv
<1>3. CASE UNCHANGED <<voted, meta, asked, msgs>>
  <2>1. \A c, t : Votes(c, t)' = Votes(c, t)
    BY <1>3, SameVotes
  <2>2. TypeInv'
    BY <1>1, <1>2, <1>3 DEF Inv, TypeInv
  <2>3. StoredInv' /\ ElectInv' /\ VoteInv'
    BY <1>1, <1>2, <1>3, QuietVotes, QuietWindows
  <2>4. GrantInv'
    BY <1>3, <2>1, <2>2, GrantStep DEF TypeInv
  <2>5. MsgInv'
    BY <1>3, <2>1, MsgStep
  <2> QED
    BY <2>2, <2>3, <2>4, <2>5 DEF Inv
<1>4. ASSUME w.term = term[i], NEW ok \in BOOLEAN, Persist(i, term[i], i, ok),
             voted' = IF ok THEN voted ELSE [voted EXCEPT ![i] = Nobody],
             msgs' = msgs \cup Campaign(i, w.last, ok)
      PROVE  Inv'
  <2>1. PICK t \in Nat : t = term[i]
    BY DEF Inv, TypeInv
  <2>2. voted[i] = i /\ meta[i][1] < t /\ meta[i] \in Nat \X Voter
    BY <1>1, <1>4, <2>1 DEF Inv, ElectInv, TypeInv
  <2>3. /\ meta' = IF ok THEN [meta EXCEPT ![i] = <<t, i>>] ELSE meta
        /\ meta' \in [Server -> Nat \X Voter]
        /\ voted' \in [Server -> Voter]
    BY <1>4, <2>1 DEF Persist, Inv, TypeInv, Voter
  <2>4. TypeInv'
    BY <1>1, <1>2, <2>3 DEF Inv, TypeInv
  <2>5. /\ meta'[i] = IF ok THEN <<t, i>> ELSE meta[i]
        /\ voted'[i] = IF ok THEN i ELSE Nobody
        /\ \A j \in Server : j # i => meta'[j] = meta[j] /\ voted'[j] = voted[j]
    BY <1>4, <2>2, <2>3 DEF Inv, TypeInv
  <2>6. StoredInv'
    <3> SUFFICES ASSUME NEW j \in Server
                 PROVE  /\ meta'[j][1] <= term[j]
                        /\ meta'[j][1] = term[j] /\ meta'[j][2] # Nobody
                             => voted'[j] = meta'[j][2]
                        /\ voted'[j] \notin {Nobody, j} => meta'[j] = <<term[j], voted'[j]>>
      BY <1>1 DEF StoredInv
    <3>1. CASE j = i
      BY <2>1, <2>2, <2>5, <3>1
    <3>2. CASE j # i
      BY <2>5, <3>2 DEF Inv, StoredInv
    <3> QED BY <3>1, <3>2
  <2>7. ElectInv'
    <3> SUFFICES ASSUME NEW j \in Server, NEW v \in window'[j], v.op = "elect"
                 PROVE  /\ v.term \in Nat /\ v.term <= term[j]
                        /\ v.term = term[j] => voted'[j] = j /\ meta'[j][1] < term[j]
                        /\ \A x \in window'[j] : x.op = "elect" /\ x.term = v.term => x = v
      BY <1>1 DEF ElectInv
    <3>1. /\ v.term \in Nat /\ v.term <= term[j]
          /\ v.term = term[j] => voted[j] = j /\ meta[j][1] < term[j]
          /\ \A x \in window[j] : x.op = "elect" /\ x.term = v.term => x = v
      BY <1>2 DEF Inv, ElectInv
    <3>2. CASE j = i
      BY <1>1, <1>2, <1>4, <3>1, <3>2
    <3>3. CASE j # i
      BY <1>2, <2>5, <3>1, <3>3
    <3> QED
      BY <3>2, <3>3
  <2>8. VoteInv'
    BY <1>2 DEF Inv, VoteInv
  <2>9. \A c, u : /\ Votes(c, u) \subseteq Votes(c, u)'
                  /\ \A p \in Votes(c, u)' : p \in Votes(c, u) \/ (ok /\ p = i /\ c = i /\ u = t)
    BY <1>4, <2>1 DEF Votes, Granted, Campaign
  <2>10. GrantInv'
    <3>1. CASE ok
      BY <2>2, <2>5, <2>9, <3>1, NewGrant
    <3>2. CASE ~ok
      <4>1. \A c, u : Votes(c, u)' \subseteq Votes(c, u)
        BY <2>9, <3>2
      <4> QED
        BY <2>3, <2>5, <3>2, <4>1, GrantStep
    <3> QED
      BY <3>1, <3>2
  <2>11. MsgInv'
    <3>1. \A m \in msgs' : m \notin msgs =>
            /\ m.type = "vote" => /\ m.from \in Server /\ m.to \in Server
                                  /\ m.from # m.to /\ m.term \in Nat
            /\ m.type # "append"
      BY <1>4, <2>1 DEF Granted, Campaign
    <3> QED
      BY <2>9, <3>1, MsgStep
  <2> QED
    BY <2>4, <2>6, <2>7, <2>8, <2>10, <2>11 DEF Inv
<1> QED
  BY <1>1, <1>3, <1>4

LEMMA RequestVoteKeeps ==
  ASSUME Inv, NEW i \in Server, NEW m \in msgs, RequestVote(i, m)
  PROVE  Inv'
<1> DEFINE o == OpenWindow(i, "vote", term[i], m)
<1>1. m.type = "vote" /\ m.from \in Server \ {i} /\ m.term \in Nat /\ m.term >= term[i]
  BY DEF RequestVote, Inv, MsgInv
<1>2. \A c, t : Votes(c, t)' = Votes(c, t)
  <2>1. \A n \in msgs : n \notin msgs' => n.type # "granted"
    BY <1>1 DEF RequestVote
  <2> QED
    BY <2>1, SameVotes DEF RequestVote
<1>3. /\ window' = [j \in Server |-> window'[j]]
      /\ window'[i] = window[i] \cup {o}
      /\ \A j \in Server : j # i => window'[j] = window[j]
  BY DEF RequestVote, Inv, TypeInv
<1>4. TypeInv'
  BY <1>3 DEF RequestVote, Inv, TypeInv
<1>5. /\ o.op = "vote" /\ o.term = term[i] /\ o.req = m
      /\ DOMAIN o = {"op", "term", "req", "last", "ahead"}
  BY DEF OpenWindow
<1> HIDE DEF o
<1>6. UNCHANGED <<term, voted, meta>>
  BY DEF RequestVote
<1>7. ElectInv'
  BY <1>3, <1>5, <1>6 DEF Inv, ElectInv
<1>8. VoteInv'
  BY <1>1, <1>3, <1>5, <1>6 DEF Inv, VoteInv, TypeInv
<1>9. GrantInv'
  BY <1>2, <1>4, <1>6, GrantStep DEF TypeInv
<1>10. MsgInv'
  BY <1>2, MsgStep DEF RequestVote
<1> QED
  BY <1>4, <1>6, <1>7, <1>8, <1>9, <1>10, QuietVotes DEF Inv

\* handle_request_vote_request after the lock.
LEMMA RequestVoteLockedKeeps ==
  ASSUME Inv, NEW i \in Server, RequestVoteLocked(i)
  PROVE  Inv'
<1>1. PICK w \in window[i] :
        /\ w.op = "vote"
        /\ window' = [window EXCEPT ![i] = @ \ {w}]
        /\ \/ /\ w.term = term[i] /\ (w.req.term > term[i] \/ voted[i] = Nobody)
              /\ term' = [term EXCEPT ![i] = w.req.term]
              /\ \E ok \in BOOLEAN :
                   /\ \/ Persist(i, w.req.term, w.req.from, ok)
                      \/ ~ok /\ w.req.term > term[i] /\ StoreTermOnly(i, w.req.term)
                   /\ voted' = [voted EXCEPT ![i] = IF ok THEN w.req.from ELSE Nobody]
           \/ w.req.term > term[i] /\ StepDown(i, w.req.term, Nobody)
           \/ UNCHANGED <<term, voted, meta>>
        /\ msgs' = msgs \cup Reply(i, w.req, term'[i], voted'[i])
  BY DEF RequestVoteLocked
<1>2. PICK c, t : c = w.req.from /\ t = w.req.term
  OBVIOUS
<1>3. c \in Server \ {i} /\ c # Nobody /\ t \in Nat /\ term[i] \in Nat /\ (w.term = term[i] => t >= term[i])
  BY <1>1, <1>2, ServerAssumption DEF Inv, VoteInv, TypeInv
<1>4. /\ window' = [j \in Server |-> window'[j]]
      /\ \A j \in Server : window'[j] \subseteq window[j]
  BY <1>1 DEF Inv, TypeInv
<1>5. \A e, u : /\ Votes(e, u) \subseteq Votes(e, u)'
                /\ \A q \in Votes(e, u)' :
                     q \in Votes(e, u)
                     \/ (q = i /\ e = c /\ u = t /\ t = term'[i] /\ voted'[i] = c)
  BY <1>1, <1>2 DEF Votes, Granted, Reply
<1>6. MsgInv'
  <2>1. \A m \in Reply(i, w.req, term'[i], voted'[i]) : m.type = "granted"
    BY DEF Reply, Granted
  <2>2. msgs' = msgs \cup Reply(i, w.req, term'[i], voted'[i])
    BY <1>1
  <2>3. \A m \in msgs' : m \notin msgs => m.type # "vote" /\ m.type # "append"
    BY <2>1, <2>2
  <2> QED
    BY <1>5, <2>3, MsgStep
<1>7. meta[i] \in Nat \X Voter /\ meta[i][1] <= term[i] /\ voted[i] \in Voter
  BY DEF Inv, TypeInv, StoredInv
<1>8. ASSUME w.term = term[i], t > term[i] \/ voted[i] = Nobody,
             term' = [term EXCEPT ![i] = t],
             NEW ok \in BOOLEAN,
             \/ Persist(i, t, c, ok)
             \/ ~ok /\ t > term[i] /\ StoreTermOnly(i, t),
             voted' = [voted EXCEPT ![i] = IF ok THEN c ELSE Nobody]
      PROVE  Inv'
  <2>1. \/ ok /\ meta' = [meta EXCEPT ![i] = <<t, c>>]
        \/ ~ok /\ meta' = meta
        \/ ~ok /\ t > term[i] /\ meta' = [meta EXCEPT ![i] = <<t, Nobody>>]
    BY <1>8 DEF Persist, StoreTermOnly
  <2>2. TypeInv'
    <3>1. meta' \in [Server -> Nat \X Voter]
      BY <2>1, <1>3 DEF Inv, TypeInv, Voter
    <3>2. voted' \in [Server -> Voter] /\ term' \in [Server -> Nat]
      BY <1>3, <1>8 DEF Inv, TypeInv, Voter
    <3> QED
      BY <1>4, <3>1, <3>2 DEF Inv, TypeInv
  <2>3. /\ term'[i] = t /\ voted'[i] = IF ok THEN c ELSE Nobody
        /\ \/ ok /\ meta'[i] = <<t, c>>
           \/ ~ok /\ meta'[i] = meta[i]
           \/ ~ok /\ t > term[i] /\ meta'[i] = <<t, Nobody>>
        /\ \A j \in Server : j # i => /\ term'[j] = term[j] /\ voted'[j] = voted[j]
                                      /\ meta'[j] = meta[j]
    BY <1>8, <2>1 DEF Inv, TypeInv
  <2>4. meta[i][1] < t \/ meta[i] = <<t, Nobody>>
    <3>1. meta[i][1] = t => meta[i][2] = Nobody
      BY <1>3, <1>7, <1>8 DEF Inv, StoredInv
    <3>2. meta[i] = <<meta[i][1], meta[i][2]>> /\ meta[i][1] <= t
      BY <1>3, <1>7, <1>8
    <3> QED
      BY <1>3, <1>7, <3>1, <3>2
  <2>5. StoredInv'
    <3>1. /\ meta'[i][1] <= t
          /\ meta'[i][1] = t /\ meta'[i][2] # Nobody => voted'[i] = meta'[i][2]
          /\ voted'[i] \notin {Nobody, i} => meta'[i] = <<t, voted'[i]>>
      BY <1>3, <1>7, <2>3, <2>4
    <3> SUFFICES ASSUME NEW j \in Server
                 PROVE  /\ meta'[j][1] <= term'[j]
                        /\ meta'[j][1] = term'[j] /\ meta'[j][2] # Nobody
                             => voted'[j] = meta'[j][2]
                        /\ voted'[j] \notin {Nobody, j} => meta'[j] = <<term'[j], voted'[j]>>
      BY DEF StoredInv
    <3>2. CASE j = i
      <4>1. term'[i] = t
        BY <2>3
      <4> QED
        BY <3>1, <3>2, <4>1
    <3>3. CASE j # i
      <4>1. term'[j] = term[j] /\ voted'[j] = voted[j] /\ meta'[j] = meta[j]
        BY <2>3, <3>3
      <4> QED
        BY <4>1 DEF Inv, StoredInv
    <3> QED
      BY <3>2, <3>3
  <2>6. ElectInv'
    <3> SUFFICES ASSUME NEW j \in Server, NEW v \in window'[j], v.op = "elect"
                 PROVE  /\ v.term \in Nat /\ v.term <= term'[j]
                        /\ v.term = term'[j] => voted'[j] = j /\ meta'[j][1] < term'[j]
                        /\ \A x \in window'[j] : x.op = "elect" /\ x.term = v.term => x = v
      BY DEF ElectInv
    <3>1. /\ v.term \in Nat /\ v.term <= term[j]
          /\ v.term = term[j] => voted[j] = j /\ meta[j][1] < term[j]
          /\ \A x \in window'[j] : x.op = "elect" /\ x.term = v.term => x = v
      BY <1>4 DEF Inv, ElectInv
    <3>2. CASE j = i
      <4>1. term'[i] = t /\ t \in Nat /\ term[i] \in Nat /\ t >= term[i]
        BY <1>3, <1>8, <2>3
      <4>2. v.term \in Nat /\ v.term <= term'[i]
        BY <3>1, <3>2, <4>1
      <4>3. v.term # t
        <5>1. CASE t > term[i]
          BY <3>1, <3>2, <4>1, <5>1
        <5>2. CASE voted[i] = Nobody
          BY <3>1, <3>2, <4>1, <5>2, ServerAssumption
        <5> QED
          BY <1>8, <5>1, <5>2
      <4> QED
        BY <3>1, <3>2, <4>1, <4>2, <4>3
    <3>3. CASE j # i
      BY <2>3, <3>1, <3>3
    <3> QED
      BY <3>2, <3>3
  <2>7. VoteInv'
    BY <1>4 DEF Inv, VoteInv
  <2>8. GrantInv'
    <3>1. CASE ok
      BY <1>3, <1>5, <2>3, <2>4, <3>1, NewGrant
    <3>2. CASE ~ok
      <4>1. \A e, u : Votes(e, u)' \subseteq Votes(e, u)
        BY <1>3, <1>5, <2>3, <3>2
      <4>2. meta'[i] = meta[i] \/ meta'[i][1] > meta[i][1]
        <5>1. meta'[i] = meta[i] \/ (t > term[i] /\ meta'[i] = <<t, Nobody>>)
          BY <2>3, <3>2
        <5> QED
          BY <1>3, <1>7, <5>1
      <4> QED
        BY <2>2, <2>3, <4>1, <4>2, GrantStep DEF TypeInv
    <3> QED
      BY <3>1, <3>2
  <2> QED
    BY <1>6, <2>2, <2>5, <2>6, <2>7, <2>8 DEF Inv
<1>9. CASE t > term[i] /\ StepDown(i, t, Nobody)
  <2>1. voted'[i] = Nobody
    BY <1>9 DEF StepDown, Inv, TypeInv
  <2>2. \A e, u : Votes(e, u)' \subseteq Votes(e, u) /\ Votes(e, u) \subseteq Votes(e, u)'
    BY <1>3, <1>5, <2>1
  <2> QED
    BY <1>3, <1>4, <1>6, <1>9, <2>2, StepDownKeeps DEF Inv
<1>10. CASE UNCHANGED <<term, voted, meta>>
  <2>1. TypeInv'
    BY <1>4, <1>10 DEF Inv, TypeInv
  <2>2. StoredInv' /\ ElectInv' /\ VoteInv'
    BY <1>4, <1>10, QuietVotes, QuietWindows
  <2>3. GrantInv'
    <3>1. CASE t = term[i] /\ voted[i] = c
      <4>1. meta[i] = <<t, c>>
        BY <1>3, <3>1 DEF Inv, StoredInv
      <4> QED
        BY <1>3, <1>5, <1>10, <4>1, NewGrant
    <3>2. CASE ~(t = term[i] /\ voted[i] = c)
      <4>1. \A e, u : Votes(e, u)' \subseteq Votes(e, u)
        BY <1>5, <1>10, <3>2
      <4> QED
        BY <1>10, <2>1, <4>1, GrantStep DEF TypeInv
    <3> QED
      BY <3>1, <3>2
  <2> QED
    BY <1>6, <2>1, <2>2, <2>3 DEF Inv
<1> QED
  BY <1>1, <1>2, <1>8, <1>9, <1>10

-----------------------------------------------------------------------------
(* Replication casts no vote: it needs one for what it sends.              *)

\* A leader sends.
LEMMA Send ==
  ASSUME Inv, NEW i \in Server, msgs \subseteq msgs',
         \A m \in msgs' : m \in msgs \/ m.type = "ok" \/ \E e, c : m = Sendable(i, e, c)
  PROVE  MsgInv' /\ \A c, t : Votes(c, t)' = Votes(c, t)
<1>1. term[i] \in Nat
  BY DEF Inv, TypeInv
<1>2. \A m \in msgs' : m \notin msgs /\ m.type # "ok" =>
        /\ m.type = "append" /\ m.from = i /\ m.term = term[i]
        /\ m.backed = IsQuorum(Votes(i, term[i]))
  BY DEF Sendable
<1>3. \A c, t : Votes(c, t)' = Votes(c, t)
  BY <1>1, <1>2, SameVotes
<1>4. \A m \in msgs' : m \notin msgs /\ m.type # "ok" =>
        /\ m.type = "append" /\ m.from \in Server /\ m.term \in Nat
        /\ m.backed => IsQuorum(Votes(m.from, m.term))
  BY <1>1, <1>2
<1> QED
  BY <1>3, <1>4, MsgStep

\* BallotBox::commit_at.
LEMMA CommitAtSends ==
  ASSUME NEW i \in Server, NEW first, NEW last, NEW peer, CommitAt(i, first, last, peer)
  PROVE  msgs \subseteq msgs' /\ \A m \in msgs' :
           m \in msgs \/ m.type = "ok" \/ \E e, c : m = Sendable(i, e, c)
<1> DEFINE ok == Ok(peer, term[i], i, first, last)
<1>1. \/ msgs' = msgs
      \/ msgs' = msgs \cup {ok}
      \/ \E e, c : msgs' = msgs \cup {ok, Sendable(i, e, c)}
  BY DEF CommitAt
<1>2. ok.type = "ok"
  BY DEF Ok
<1> HIDE DEF ok
<1> QED
  BY <1>1, <1>2

LEMMA CommitAtKeeps ==
  ASSUME Inv, NEW i \in Server, NEW first, NEW last, NEW peer,
         CommitAt(i, first, last, peer)
  PROVE  MsgInv' /\ \A c, t : Votes(c, t)' = Votes(c, t)
  BY CommitAtSends, Send

\* A step that leaves terms, votes and windows alone.
LEMMA Replicates ==
  ASSUME Inv, UNCHANGED <<term, voted, meta>>, \A c, t : Votes(c, t)' = Votes(c, t),
         TypeInv', ElectInv', VoteInv', MsgInv'
  PROVE  Inv'
<1>1. GrantInv'
  BY GrantStep DEF TypeInv
<1> QED
  BY <1>1, QuietVotes DEF Inv

\* BecomeLeader, Apply and AppendOk.
LEMMA LeaderKeeps ==
  ASSUME Inv, UNCHANGED <<term, voted, meta, window>>,
         MsgInv', \A c, t : Votes(c, t)' = Votes(c, t)
  PROVE  Inv'
<1>1. TypeInv'
  BY DEF Inv, TypeInv
<1> QED
  BY <1>1, QuietWindows, Replicates

LEMMA BecomeLeaderKeeps ==
  ASSUME Inv, NEW i \in Server, BecomeLeader(i)
  PROVE  Inv'
<1>1. UNCHANGED <<term, voted, meta, window>>
  BY DEF BecomeLeader
<1>2. MsgInv' /\ \A c, t : Votes(c, t)' = Votes(c, t)
  BY Send DEF BecomeLeader, LeaderAppend
<1> QED
  BY <1>1, <1>2, LeaderKeeps

LEMMA ApplyKeeps ==
  ASSUME Inv, NEW i \in Server, Apply(i)
  PROVE  Inv'
<1>1. UNCHANGED <<term, voted, meta, window>>
  BY DEF Apply, voteVars
<1>2. MsgInv' /\ \A c, t : Votes(c, t)' = Votes(c, t)
  BY Send DEF Apply, LeaderAppend
<1> QED
  BY <1>1, <1>2, LeaderKeeps

LEMMA AppendOkKeeps ==
  ASSUME Inv, NEW i \in Server, NEW m \in msgs, AppendOk(i, m)
  PROVE  Inv'
<1>1. UNCHANGED <<term, voted, meta, window>>
  BY DEF AppendOk, voteVars
<1>2. MsgInv' /\ \A c, t : Votes(c, t)' = Votes(c, t)
  BY CommitAtKeeps DEF AppendOk
<1> QED
  BY <1>1, <1>2, LeaderKeeps

\* handle_append_entries_request that meets a second leader.
LEMMA LeaderConflictKeeps ==
  ASSUME Inv, NEW i \in Server, NEW m \in msgs, LeaderConflict(i, m)
  PROVE  Inv'
<1>1. PICK t \in Nat : t = m.term + 1 /\ t >= term[i] /\ StepDown(i, t, Nobody)
  BY SMTT(20) DEF LeaderConflict, Inv, MsgInv
<1>2. UNCHANGED <<window, msgs>>
  BY DEF LeaderConflict
<1>3. \A c, u : Votes(c, u)' = Votes(c, u)
  BY <1>2, SameVotes
<1>4. MsgInv' /\ window' = [j \in Server |-> window'[j]]
  BY <1>2, <1>3, MsgStep DEF Inv, TypeInv
<1> QED
  BY <1>1, <1>2, <1>3, <1>4, StepDownKeeps DEF Inv

\* handle_append_entries_request.
LEMMA AppendEntriesKeeps ==
  ASSUME Inv, NEW i \in Server, NEW m \in msgs, AppendEntries(i, m)
  PROVE  Inv'
<1>1. PICK t \in Nat : t = m.term /\ t >= term[i] /\ StepDown(i, t, m.from)
  BY DEF AppendEntries, Inv, MsgInv
<1>2. window' = window /\ \E first, last :
        msgs' = msgs \/ msgs' = msgs \cup Respond(Served(i, m.term, m.from, first, last))
  BY DEF AppendEntries
<1>3. \A n \in msgs' : n \notin msgs => n.type = "ok"
  BY <1>2 DEF Respond, Served, Ok
<1>4. msgs \subseteq msgs'
  BY <1>2
<1>5. \A c, u : Votes(c, u)' = Votes(c, u)
  BY <1>3, <1>4, SameVotes
<1>6. MsgInv'
  BY <1>3, <1>5, MsgStep
<1>7. window' = [j \in Server |-> window'[j]] /\ \A j \in Server : window'[j] \subseteq window[j]
  BY <1>2 DEF Inv, TypeInv
<1> QED
  BY <1>1, <1>5, <1>6, <1>7, StepDownKeeps DEF Inv

\* LogManager::disk_thread.
LEMMA DiskThreadKeeps ==
  ASSUME Inv, NEW i \in Server, DiskThread(i)
  PROVE  Inv'
<1>1. UNCHANGED <<term, voted, meta>>
  BY DEF DiskThread
<1>2. MsgInv' /\ \A c, t : Votes(c, t)' = Votes(c, t)
  <2>1. CASE \E first, last, peer : CommitAt(i, first, last, peer)
    BY <2>1, CommitAtKeeps
  <2>2. CASE \/ msgs' = msgs
             \/ \E t, leader, first, last :
                  msgs' = msgs \cup Respond(Served(i, t, leader, first, last))
    <3>1. \A n \in msgs' : n \notin msgs => n.type = "ok"
      BY <2>2, SMTT(20) DEF Respond, Served, Ok
    <3>2. msgs \subseteq msgs'
      BY <2>2
    <3>3. \A c, t : Votes(c, t)' = Votes(c, t)
      BY <3>1, <3>2, SameVotes
    <3>4. MsgInv'
      BY <3>1, <3>3, MsgStep
    <3> QED
      BY <3>3, <3>4
  <2> QED
    BY <2>1, <2>2 DEF DiskThread, TruncateSuffix, LeaderStable, FollowerStable
<1> PICK id : window' = [window EXCEPT ![i] = {Closer(w, id) : w \in @}]
  <2>1. PICK written, ended : SetDiskId(i, written, ended)
    BY DEF DiskThread
  <2> DEFINE last == IF written THEN LastId(disk'[i]) ELSE lastId[i]
             given == IF ended THEN NewerOf(last, diskId[i]) ELSE last
  <2> HIDE DEF given
  <2>2. window' = [window EXCEPT ![i] = {Closer(w, given) : w \in @}]
    BY <2>1 DEF SetDiskId, given
  <2> QED
    BY <2>2
<1>3. /\ window' = [j \in Server |-> window'[j]]
      /\ \A j \in Server : j # i => window'[j] = window[j]
      /\ window'[i] = {Closer(w, id) : w \in window[i]}
  BY DEF Inv, TypeInv
<1>4. TypeInv'
  BY <1>1, <1>3 DEF Inv, TypeInv
<1>5. \A v \in window[i] : /\ DOMAIN Closer(v, id) = {"op", "term", "req", "last", "ahead"}
                           /\ Closer(v, id).op = v.op /\ Closer(v, id).term = v.term
                           /\ Closer(v, id).req = v.req
  BY DEF Inv, VoteInv, Closer
<1>6. \A w \in window'[i] : \E v \in window[i] : w = Closer(v, id)
  BY <1>3
<1>7. ElectInv'
  <2> SUFFICES ASSUME NEW j \in Server, NEW w \in window'[j], w.op = "elect"
               PROVE  /\ w.term \in Nat /\ w.term <= term[j]
                      /\ w.term = term[j] => voted[j] = j /\ meta[j][1] < term[j]
                      /\ \A x \in window'[j] : x.op = "elect" /\ x.term = w.term => x = w
    BY <1>1 DEF ElectInv
  <2>1. CASE j # i
    BY <1>3, <2>1 DEF Inv, ElectInv
  <2>2. CASE j = i
    <3>1. PICK v \in window[i] : w = Closer(v, id)
      BY <1>6, <2>2
    <3>2. /\ v.term \in Nat /\ v.term <= term[i] /\ v.term = w.term
          /\ v.term = term[i] => voted[i] = i /\ meta[i][1] < term[i]
          /\ \A x \in window[i] : x.op = "elect" /\ x.term = v.term => x = v
      BY <1>5, <3>1 DEF Inv, ElectInv
    <3>3. ASSUME NEW x \in window'[i], x.op = "elect", x.term = w.term
          PROVE  x = w
      <4>1. PICK y \in window[i] : x = Closer(y, id)
        BY <1>6
      <4> QED
        BY <1>5, <3>1, <3>2, <3>3, <4>1
    <3> QED
      BY <2>2, <3>2, <3>3
  <2> QED
    BY <2>1, <2>2
<1>8. VoteInv'
  <2> SUFFICES ASSUME NEW j \in Server, NEW w \in window'[j]
               PROVE  /\ DOMAIN w = {"op", "term", "req", "last", "ahead"}
                      /\ w.op = "vote" =>
                           /\ w.req.from \in Server \ {j} /\ w.req.term \in Nat
                           /\ w.term \in Nat /\ w.req.term >= w.term
    BY DEF VoteInv
  <2>1. CASE j # i
    BY <1>3, <2>1 DEF Inv, VoteInv
  <2>2. CASE j = i
    <3>1. PICK v \in window[i] : w = Closer(v, id)
      BY <1>6, <2>2
    <3> QED
      BY <1>5, <2>2, <3>1 DEF Inv, VoteInv
  <2> QED
    BY <2>1, <2>2
<1> QED
  BY <1>1, <1>2, <1>4, <1>7, <1>8, Replicates

-----------------------------------------------------------------------------
LEMMA NextInv == Inv /\ [Next]_vars => Inv'
<1> SUFFICES ASSUME Inv, [Next]_vars PROVE Inv'
  OBVIOUS
<1>1. ASSUME NEW i \in Server, ElectionTimeout(i) PROVE Inv'
  BY <1>1, ElectionTimeoutKeeps
<1>2. ASSUME NEW i \in Server, VoteTimeout(i) \/ StepdownTimeout(i) PROVE Inv'
  BY <1>2, TimedOutKeeps DEF VoteTimeout, StepdownTimeout
<1>3. ASSUME NEW i \in Server, ElectSelfLocked(i) PROVE Inv'
  BY <1>3, ElectSelfLockedKeeps
<1>4. ASSUME NEW i \in Server, RequestVoteLocked(i) PROVE Inv'
  BY <1>4, RequestVoteLockedKeeps
<1>5. ASSUME NEW i \in Server, BecomeLeader(i) PROVE Inv'
  BY <1>5, BecomeLeaderKeeps
<1>6. ASSUME NEW i \in Server, HigherTerm(i) PROVE Inv'
  BY <1>6, HigherTermKeeps DEF HigherTerm
<1>7. ASSUME NEW i \in Server, Apply(i) PROVE Inv'
  BY <1>7, ApplyKeeps
<1>8. ASSUME NEW i \in Server, DiskThread(i) PROVE Inv'
  BY <1>8, DiskThreadKeeps
<1>9. ASSUME NEW i \in Server, Restart(i) PROVE Inv'
  BY <1>9, RestartKeeps
<1>10. ASSUME NEW i \in Server, NEW m \in msgs, RequestVote(i, m) PROVE Inv'
  BY <1>10, RequestVoteKeeps
<1>11. ASSUME NEW i \in Server, NEW m \in msgs, AppendEntries(i, m) PROVE Inv'
  BY <1>11, AppendEntriesKeeps
<1>12. ASSUME NEW i \in Server, NEW m \in msgs, AppendOk(i, m) PROVE Inv'
  BY <1>12, AppendOkKeeps
<1>13. CASE UNCHANGED vars
  <2>1. UNCHANGED <<term, voted, meta, window, msgs>>
    BY <1>13 DEF vars, voteVars
  <2> QED
    BY <2>1, QuietKeeps
<1>14. ASSUME NEW i \in Server, ElectSelf(i) PROVE Inv'
  BY <1>14, ElectSelfKeeps
<1>15. ASSUME NEW i \in Server, NEW m \in msgs, LeaderConflict(i, m) PROVE Inv'
  BY <1>15, LeaderConflictKeeps
<1> QED
  BY <1>1, <1>2, <1>3, <1>4, <1>5, <1>6, <1>7, <1>8, <1>9, <1>10, <1>11, <1>12, <1>13,
     <1>14, <1>15 DEF Next

\* Election safety: whatever the number of servers, of elections, of restarts
\* and of failed writes of the meta storage, and in whatever order the requests
\* and responses arrive, only one server leads in a term with stored votes.
THEOREM RaftElectionSafety == Spec => []ElectionSafety
  BY InitInv, NextInv, InvElectionSafety, PTL DEF Spec
=============================================================================

----------------------------- MODULE RaftVotes ------------------------------
(* The inductive invariant of Raft's elections: what servers remember and    *)
(* store of terms and votes, and what the messages in flight say of them.    *)
EXTENDS Raft

Voter == Server \cup {Nobody}

TypeInv ==
  /\ term \in [Server -> Nat]
  /\ voted \in [Server -> Voter]
  /\ meta \in [Server -> Nat \X Voter]
  /\ window = [i \in Server |-> window[i]]

\* Memory and meta storage: a vote in the storage for the current term is the
\* vote in memory, and a vote for another server was stored.
StoredInv ==
  \A i \in Server :
    /\ meta[i][1] <= term[i]
    /\ meta[i][1] = term[i] /\ meta[i][2] # Nobody => voted[i] = meta[i][2]
    /\ voted[i] \notin {Nobody, i} => meta[i] = <<term[i], voted[i]>>

\* A thread in elect_self has its term to itself: nothing of the term is stored.
ElectInv ==
  \A i \in Server : \A w \in window[i] : w.op = "elect" =>
    /\ w.term \in Nat /\ w.term <= term[i]
    /\ w.term = term[i] => voted[i] = i /\ meta[i][1] < term[i]
    /\ \A v \in window[i] : v.op = "elect" /\ v.term = w.term => v = w

\* A thread in handle_request_vote_request.
VoteInv ==
  \A i \in Server : \A w \in window[i] :
    /\ DOMAIN w = {"op", "term", "req", "last", "ahead"}
    /\ w.op = "vote" =>
         /\ w.req.from \in Server \ {i} /\ w.req.term \in Nat
         /\ w.term \in Nat /\ w.req.term >= w.term

\* A vote that was granted is in the storage until the voter enters a later
\* term, and a server grants one vote in a term.
GrantInv ==
  \A p, c \in Server : \A t \in Nat : p \in Votes(c, t) =>
    /\ meta[p][1] > t \/ meta[p] = <<t, c>>
    /\ \A d \in Server : p \in Votes(d, t) => c = d

\* Votes are never lost: what elected a leader is there when it sends.
MsgInv ==
  \A m \in msgs :
    /\ m.type = "vote" => /\ m.from \in Server /\ m.to \in Server
                          /\ m.from # m.to /\ m.term \in Nat
    /\ m.type = "append" => /\ m.from \in Server /\ m.term \in Nat
                            /\ m.backed => IsQuorum(Votes(m.from, m.term))

\* The inductive invariant.
Inv == TypeInv /\ StoredInv /\ ElectInv /\ VoteInv /\ GrantInv /\ MsgInv
=============================================================================

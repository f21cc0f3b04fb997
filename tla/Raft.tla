-------------------------------- MODULE Raft --------------------------------
(***************************************************************************)
(* One braft group: what replicates the commands of the MetaServers.       *)
(* NodeImpl (elections, term and vote, the handlers of the RPCs),          *)
(* LogManager (the log in memory, the storage and the disk queue between   *)
(* them) and BallotBox (what is committed), for a fixed configuration,     *)
(* without snapshots and with the default flags: no leader lease.          *)
(*                                                                         *)
(* NodeImpl holds _mutex in every handler, but elect_self and              *)
(* handle_request_vote_request release it while the disk queue answers     *)
(* last_log_id(true): a thread in that window is an element of `window'.   *)
(* A message stays in `msgs': it may arrive late, more than once (a vote   *)
(* request: once), out of order, or never.  What a replicator chooses to   *)
(* send is left open: a message of type "append" is the leader's log and   *)
(* committed index at some moment, and a follower may receive any stretch  *)
(* of its entries (an empty one is a heartbeat).                           *)
(* A process that stops and starts again later is one step: meanwhile it   *)
(* takes part in none.                                                     *)
(***************************************************************************)
EXTENDS Integers, Sequences, FiniteSets

CONSTANTS Server,      \* the peers of initial_conf
          Nobody,      \* the empty PeerId
          Budgets,     \* what schedules have of elections and events
          MaxQueue,    \* a follower accepts entries while its queue is shorter
          MaxWindows   \* servers with a thread between unlock and lock

ASSUME ServerAssumption == /\ IsFiniteSet(Server)
                           /\ Cardinality(Server) > 1
                           /\ Nobody \notin Server

\* Mutant of IsQuorum: Ballot::init with half of the peers.
IsHalf(Q) == Cardinality(Q) >= Cardinality(Server) \div 2

\* Ballot::granted() once peers of a set have granted.
IsQuorum(Q) == Cardinality(Q) >= Cardinality(Server) \div 2 + 1

VARIABLES
  state,      \* _state: STATE_FOLLOWER, STATE_CANDIDATE or STATE_LEADER
  term,       \* _current_term
  voted,      \* _voted_id
  meta,       \* <<term, votedfor>> in the meta storage
  leaderId,   \* _leader_id
  lastLeader, \* _follower_lease.last_leader(), kept with the lease off too
  prevoted,   \* whether grants of _pre_vote_ctx by a quorum are on their way
  window,     \* threads that wait for last_log_id(true)
  asked,      \* _vote_ctx.last_log_id(): what a candidate asks votes with
  log,        \* the log in memory: entries <<term, leader that wrote it>>
  disk,       \* the log storage
  diskq,      \* _disk_queue: the closures not yet executed
  diskId,     \* _disk_id
  lastId,     \* last_id of disk_thread
  pending,    \* _pending_index; 0 when it is no leader
  ballots,    \* _pending_meta_queue: who stored the entries from `pending' on
  committed,  \* _last_committed_index
  msgs,       \* requests and responses sent so far
  left,       \* of the budget: rounds of pre_vote and the terms elections may
              \* reach, tasks, and faults (restarts, failed writes, timeouts)
  lapsed      \* for the properties: whether a server has known the leader of a
              \* term, or led it, before it had stored the term

voteVars == <<state, term, voted, meta, leaderId, lastLeader, prevoted,
              window, asked>>
diskVars == <<disk, diskId, lastId>>
logVars == <<log, diskVars, diskq, committed>>
leaderVars == <<pending, ballots>>
vars == <<voteVars, logVars, leaderVars, msgs, left, lapsed>>

LastId(s) == <<IF s = <<>> THEN 0 ELSE s[Len(s)][1], Len(s)>>

\* LogId::operator>=
NotOlder(a, b) == a[1] > b[1] \/ (a[1] = b[1] /\ a[2] >= b[2])

\* LogManager::get_term: 0 for index 0 and past the end.
TermAt(s, k) == IF k \in DOMAIN s THEN s[k][1] ELSE 0

NewerOf(a, b) == IF NotOlder(a, b) THEN a ELSE b

LeastOf(a, b) == IF a < b THEN a ELSE b

Spend(what) == left[what] > 0 /\ left' = [left EXCEPT ![what] = @ - 1]

-----------------------------------------------------------------------------
(* step_down: every way back to a follower.                                *)

\* A failed write of the meta storage leaves what was there.
Persist(i, t, v, ok) ==
  /\ meta' = IF ok THEN [meta EXCEPT ![i] = <<t, v>>] ELSE meta
  /\ IF ok THEN UNCHANGED left ELSE Spend("faults")

\* step_down stores the term, and storing the vote fails after that.
StoreTermOnly(i, t) ==
  /\ meta' = [meta EXCEPT ![i] = <<t, Nobody>>]
  /\ Spend("faults")

\* _vote_ctx.reset.
NoVoteContext(i) == asked' = [asked EXCEPT ![i] = <<0, 0>>]

\* clear_pending_tasks.
NoLeaderState(i) ==
  /\ pending' = [pending EXCEPT ![i] = 0]
  /\ ballots' = [ballots EXCEPT ![i] = <<>>]

\* The leader it knows afterwards is l, if any.
StepDown(i, t, l) ==
  /\ state' = [state EXCEPT ![i] = "FOLLOWER"]
  /\ leaderId' = [leaderId EXCEPT ![i] = l]
  /\ prevoted' = [prevoted EXCEPT ![i] = FALSE]
  /\ NoVoteContext(i)
  /\ NoLeaderState(i)
  /\ IF t > term[i]
     THEN /\ term' = [term EXCEPT ![i] = t]
          /\ voted' = [voted EXCEPT ![i] = Nobody]
          /\ \E ok \in BOOLEAN : Persist(i, t, Nobody, ok)
     ELSE UNCHANGED <<term, voted, meta, left>>

\* What the responses of the peers, old ones too, may tell of higher terms.
HigherTerms(i) == UNION {term[i] + 1 .. term[p] : p \in Server}

-----------------------------------------------------------------------------
(* Elections.                                                              *)

\* last_log_id(true), called: the answer is the last_id of disk_thread when the
\* closures queued so far are executed.
OpenWindow(i, op, t, req) ==
  [op |-> op, term |-> t, req |-> req, last |-> lastId[i],
   ahead |-> Len(diskq[i])]

OpenWindows == Cardinality({i \in Server : window[i] # {}})

\* handle_pre_vote_response with the last grant, and elect_self up to the
\* unlock.  Until then the grants of a round may wait: a later round, and every
\* step_down, makes them void.
ElectSelf(i) ==
  /\ state[i] = "FOLLOWER" /\ prevoted[i]
  /\ term[i] < left.term
  /\ OpenWindows < MaxWindows
  /\ state' = [state EXCEPT ![i] = "CANDIDATE"]
  /\ term' = [term EXCEPT ![i] = @ + 1]
  /\ voted' = [voted EXCEPT ![i] = i]
  /\ leaderId' = [leaderId EXCEPT ![i] = Nobody]
  /\ prevoted' = [prevoted EXCEPT ![i] = FALSE]
  /\ window' = [window EXCEPT ![i] =
                  @ \cup {OpenWindow(i, "elect", term[i] + 1, Nobody)}]
  /\ NoVoteContext(i)
  /\ UNCHANGED <<meta, lastLeader, logVars, leaderVars, msgs, left>>

\* The vote of p for c, that asked for it with `last'.  `fresh' is no part of the
\* response: it tells, for the properties, whether this was not older than the
\* last entry of p when p voted.
Granted(p, c, t, last, fresh) ==
  [type |-> "granted", term |-> t, from |-> p, to |-> c, last |-> last,
   fresh |-> fresh]

\* What elect_self sends: the requests, and its own vote when that is stored.
Campaign(i, last, ok) ==
  {[type |-> "vote", term |-> term[i], from |-> i, to |-> p, last |-> last] : p \in Server \ {i}}
    \cup (IF ok THEN {Granted(i, i, term[i], last, TRUE)} ELSE {})

\* elect_self after the lock: the requests go out before the vote is stored,
\* and the vote for itself counts after that.
ElectSelfLocked(i) ==
  \E w \in window[i] :
    /\ w.op = "elect" /\ w.ahead = 0
    /\ window' = [window EXCEPT ![i] = @ \ {w}]
    /\ \/ /\ w.term # term[i]
          /\ UNCHANGED <<voted, meta, asked, msgs, left>>
       \/ /\ w.term = term[i]
          /\ asked' = [asked EXCEPT ![i] = w.last]
          /\ \E ok \in BOOLEAN :
               /\ Persist(i, term[i], i, ok)
               /\ voted' = IF ok THEN voted ELSE [voted EXCEPT ![i] = Nobody]
               /\ msgs' = msgs \cup Campaign(i, w.last, ok)
    /\ UNCHANGED <<state, term, leaderId, lastLeader, prevoted, logVars, leaderVars>>

\* What last_log_id(true) may answer when nothing more is queued: disk_thread
\* goes on with the batch, or begins another.
FlushedIds(p) ==
  {NewerOf(LastId(log[p]), diskId[p])}
    \cup (IF diskq[p] = <<>> THEN {} ELSE {LastId(log[p])})

\* pre_vote, and handle_pre_vote_request at the peers, which changes nothing
\* there: whether a quorum may answer with a grant.
PreVote(i) ==
  /\ term[i] < left.term
  /\ \E a \in FlushedIds(i) :
       IsQuorum({i} \cup {p \in Server : /\ term[p] <= term[i]
                                         /\ \E b \in FlushedIds(p) : NotOlder(a, b)})

\* handle_election_timeout, or a response to pre_vote of a higher term.
ElectionTimeout(i) ==
  /\ state[i] = "FOLLOWER"
  /\ UNCHANGED <<lastLeader, window, logVars, msgs>>
  /\ \/ \E t \in HigherTerms(i) : StepDown(i, t, Nobody)
     \/ /\ Spend("elections")
        /\ leaderId' = [leaderId EXCEPT ![i] = Nobody]
        /\ prevoted' = [prevoted EXCEPT ![i] = PreVote(i)]
        /\ UNCHANGED <<state, term, voted, meta, asked, leaderVars>>

\* step_down in the same term, when no answer came in time.
TimedOut(i, prevote) ==
  /\ Spend("faults")
  /\ state' = [state EXCEPT ![i] = "FOLLOWER"]
  /\ leaderId' = [leaderId EXCEPT ![i] = Nobody]
  /\ prevoted' = [prevoted EXCEPT ![i] = prevote]
  /\ NoVoteContext(i)
  /\ NoLeaderState(i)
  /\ UNCHANGED <<term, voted, meta, lastLeader, window, logVars, msgs>>

\* handle_vote_timeout with raft_step_down_when_vote_timedout.
VoteTimeout(i) ==
  /\ state[i] = "CANDIDATE"
  /\ TimedOut(i, PreVote(i))

\* The response to a vote request.  One that does not grant only tells the
\* voter's term (HigherTerm).
Reply(p, m, t, v) ==
  IF m.term = t /\ v = m.from
  THEN {Granted(p, m.from, t, m.last, NotOlder(m.last, LastId(log[p])))}
  ELSE {}

\* handle_request_vote_request up to the unlock.
RequestVote(p, m) ==
  /\ m.type = "vote" /\ m.to = p /\ m.term >= term[p]
  /\ OpenWindows < MaxWindows
  /\ window' = [window EXCEPT ![p] = @ \cup {OpenWindow(p, "vote", term[p], m)}]
  /\ msgs' = msgs \ {m}
  /\ UNCHANGED <<state, term, voted, meta, leaderId, lastLeader, prevoted, asked,
                 logVars, leaderVars, left>>

\* handle_request_vote_request after the lock: whether the candidate's log is
\* recent enough is judged by what disk_thread answered.
RequestVoteLocked(p) ==
  \E w \in window[p] :
    LET m == w.req
        grant == /\ NotOlder(m.last, w.last)
                 /\ m.term > term[p] \/ voted[p] = Nobody
    IN /\ w.op = "vote" /\ w.ahead = 0
       /\ window' = [window EXCEPT ![p] = @ \ {w}]
       /\ \/ /\ w.term = term[p] /\ grant
             /\ state' = [state EXCEPT ![p] = "FOLLOWER"]
             /\ leaderId' = [leaderId EXCEPT ![p] = Nobody]
             /\ prevoted' = [prevoted EXCEPT ![p] = FALSE]
             /\ term' = [term EXCEPT ![p] = m.term]
             /\ \E ok \in BOOLEAN :
                  /\ \/ Persist(p, m.term, m.from, ok)
                     \/ ~ok /\ m.term > term[p] /\ StoreTermOnly(p, m.term)
                  /\ voted' = [voted EXCEPT ![p] = IF ok THEN m.from ELSE Nobody]
             /\ NoVoteContext(p)
             /\ NoLeaderState(p)
          \/ /\ w.term = term[p] /\ ~grant /\ m.term > term[p]
             /\ StepDown(p, m.term, Nobody)
          \/ /\ w.term # term[p] \/ (~grant /\ m.term = term[p])
             /\ UNCHANGED <<state, term, voted, meta, leaderId, prevoted, asked,
                            leaderVars, left>>
       /\ msgs' = msgs \cup Reply(p, m, term'[p], voted'[p])
       /\ UNCHANGED <<lastLeader, logVars>>

\* Who has granted its vote of a term to i, as responses tell.
Votes(i, t) ==
  {p \in Server : \E m \in msgs : /\ m.type = "granted" /\ m.from = p
                                 /\ m.to = i /\ m.term = t}

\* Of those, the ones that answer what i asks now.  The version of _vote_ctx
\* makes the others void; here what was asked with tells them apart.
Answers(i, t) ==
  {p \in Server : \E fresh \in BOOLEAN : Granted(p, i, t, asked[i], fresh) \in msgs}

\* _vote_ctx: the vote of the last leader brings the candidate's own with it,
\* also when elect_self could not store that one.
Counted(i, t) ==
  Answers(i, t) \cup (IF lastLeader[i] \in Answers(i, t) THEN {i} ELSE {})

\* What the replicators of a leader may send from now on.  `backed' is no part
\* of the request: it tells whether votes that are stored elected the leader.
Sendable(i, entries, commit) ==
  [type |-> "append", term |-> term[i], from |-> i, log |-> entries,
   commit |-> commit, backed |-> IsQuorum(Votes(i, term[i]))]

\* An entry the leader appends: the log, and the closure of the disk queue
\* that will grant the leader's own vote.
LeaderAppend(i) ==
  /\ log' = [log EXCEPT ![i] = Append(@, <<term[i], i>>)]
  /\ diskq' = [diskq EXCEPT ![i] =
                 Append(@, [op |-> "lead", entries |-> <<<<term[i], i>>>>,
                            index |-> Len(log[i]) + 1])]
  /\ msgs' = msgs \cup {Sendable(i, log'[i], committed[i])}

\* handle_request_vote_response with the last grant, and become_leader: the
\* replicators start and a configuration entry is appended.
BecomeLeader(i) ==
  /\ state[i] = "CANDIDATE"
  /\ IsQuorum(Counted(i, term[i]))
  /\ state' = [state EXCEPT ![i] = "LEADER"]
  /\ leaderId' = [leaderId EXCEPT ![i] = i]
  /\ lastLeader' = [lastLeader EXCEPT ![i] = Nobody]
  /\ NoVoteContext(i)
  /\ pending' = [pending EXCEPT ![i] = Len(log[i]) + 1]
  /\ ballots' = [ballots EXCEPT ![i] = <<{}>>]
  /\ LeaderAppend(i)
  /\ UNCHANGED <<term, voted, meta, prevoted, window, diskVars, committed, left>>

\* A response of a higher term from any peer: handle_request_vote_response at a
\* candidate, _on_rpc_returned and increase_term_to at a leader.
HigherTerm(i) ==
  /\ state[i] # "FOLLOWER"
  /\ \E t \in HigherTerms(i) : StepDown(i, t, Nobody)
  /\ UNCHANGED <<lastLeader, window, logVars, msgs>>

\* handle_stepdown_timeout: a majority of the peers did not answer.
StepdownTimeout(i) ==
  /\ state[i] = "LEADER"
  /\ TimedOut(i, FALSE)

-----------------------------------------------------------------------------
(* Replication.                                                            *)

\* NodeImpl::apply of one task.
Apply(i) ==
  /\ state[i] = "LEADER"
  /\ Spend("tasks")
  /\ ballots' = [ballots EXCEPT ![i] = Append(@, {})]
  /\ LeaderAppend(i)
  /\ UNCHANGED <<voteVars, diskVars, committed, pending>>

\* Peer p has stored the entries first .. last for the leader `to' of term t.
Ok(p, t, to, first, last) ==
  [type |-> "ok", term |-> t, from |-> p, to |-> to, last |-> last, first |-> first]

\* The ballots of i once peer has stored the entries first .. last.
Polled(i, first, last, peer) ==
  [k \in DOMAIN ballots[i] |-> IF pending[i] + k - 1 \in first .. last
                               THEN ballots[i][k] \cup {peer} ELSE ballots[i][k]]

\* The last of these entries that a majority has; 0 when there is none.
Majority(i, first, last, polled) ==
  LET full == {k \in DOMAIN polled : /\ pending[i] + k - 1 \in first .. last
                                     /\ IsQuorum(polled[k])}
  IN IF full = {} THEN 0 ELSE CHOOSE k \in full : \A j \in full : k >= j

\* BallotBox::commit_at.  The leader's own vote is kept with the responses.
CommitAt(i, first, last, peer) ==
  LET polled == Polled(i, first, last, peer)
      top == Majority(i, first, last, polled)
  IN IF \/ pending[i] = 0
        \/ last \notin pending[i] .. pending[i] + Len(ballots[i]) - 1
     THEN UNCHANGED <<pending, ballots, committed, msgs>>
     ELSE IF top = 0
     THEN /\ ballots' = [ballots EXCEPT ![i] = polled]
          /\ msgs' = msgs \cup {Ok(peer, term[i], i, first, last)}
          /\ UNCHANGED <<pending, committed>>
     ELSE /\ committed' = [committed EXCEPT ![i] = pending[i] + top - 1]
          /\ pending' = [pending EXCEPT ![i] = @ + top]
          /\ ballots' = [ballots EXCEPT ![i] = SubSeq(polled, top + 1, Len(polled))]
          /\ msgs' = msgs \cup {Ok(peer, term[i], i, first, last),
                               Sendable(i, log[i], committed'[i])}

\* Replicator::_on_rpc_returned of a success.
AppendOk(i, m) ==
  /\ m.type = "ok" /\ m.to = i /\ m.term = term[i] /\ state[i] = "LEADER"
  /\ m.last >= pending[i]
  /\ m.from \notin ballots[i][m.last - pending[i] + 1]
  /\ CommitAt(i, m.first, m.last, m.from)
  /\ UNCHANGED <<voteVars, log, diskVars, diskq, left>>

\* BallotBox::set_last_committed_index at a follower.
Learn(p, c) == committed' = [committed EXCEPT ![p] = IF c > @ THEN c ELSE @]

\* Mutant of Reload: the vote is not read back.
ReloadTermOnly(p, t, v) ==
  /\ state' = [state EXCEPT ![p] = "FOLLOWER"]
  /\ term' = [term EXCEPT ![p] = t]
  /\ voted' = [voted EXCEPT ![p] = Nobody]
  /\ meta' = [meta EXCEPT ![p] = <<t, Nobody>>]
  /\ leaderId' = [leaderId EXCEPT ![p] = Nobody]
  /\ lastLeader' = [lastLeader EXCEPT ![p] = Nobody]
  /\ prevoted' = [prevoted EXCEPT ![p] = FALSE]
  /\ window' = [window EXCEPT ![p] = {}]
  /\ NoVoteContext(p)
  /\ log' = [log EXCEPT ![p] = disk[p]]
  /\ diskq' = [diskq EXCEPT ![p] = <<>>]
  /\ diskId' = [diskId EXCEPT ![p] = LastId(disk[p])]
  /\ lastId' = [lastId EXCEPT ![p] = LastId(disk[p])]
  /\ committed' = [committed EXCEPT ![p] = 0]
  /\ NoLeaderState(p)
  /\ UNCHANGED disk

\* NodeImpl::init after the process stopped: the term and vote <<t, v>> and the
\* log come from the storage.
Reload(p, t, v) ==
  /\ state' = [state EXCEPT ![p] = "FOLLOWER"]
  /\ term' = [term EXCEPT ![p] = t]
  /\ voted' = [voted EXCEPT ![p] = v]
  /\ meta' = [meta EXCEPT ![p] = <<t, v>>]
  /\ leaderId' = [leaderId EXCEPT ![p] = Nobody]
  /\ lastLeader' = [lastLeader EXCEPT ![p] = Nobody]
  /\ prevoted' = [prevoted EXCEPT ![p] = FALSE]
  /\ window' = [window EXCEPT ![p] = {}]
  /\ NoVoteContext(p)
  /\ log' = [log EXCEPT ![p] = disk[p]]
  /\ diskq' = [diskq EXCEPT ![p] = <<>>]
  /\ diskId' = [diskId EXCEPT ![p] = LastId(disk[p])]
  /\ lastId' = [lastId EXCEPT ![p] = LastId(disk[p])]
  /\ committed' = [committed EXCEPT ![p] = 0]
  /\ NoLeaderState(p)
  /\ UNCHANGED disk

Restart(p) ==
  /\ Spend("faults")
  /\ Reload(p, meta[p][1], meta[p][2])
  /\ UNCHANGED msgs

\* check_and_resolve_conflict: the first entry of the request that is not in
\* the log; one past `last' when there is none.
Conflict(p, m, first, last) ==
  CHOOSE k \in first .. last + 1 :
    /\ \A j \in first .. k - 1 : TermAt(log[p], j) = m.log[j][1]
    /\ k <= last => TermAt(log[p], k) # m.log[k][1]

\* A success.  The one of an empty request commits nothing and is left out, and
\* so are the indexes before _pending_index, that commit_at skips.
Served(p, t, to, first, last) ==
  IF first > last THEN {}
  ELSE {Ok(p, t, to, IF pending[to] > first THEN pending[to] ELSE first, last)}

\* A response that commit_at would ignore, now and later, is left out.
Respond(resp) ==
  {r \in resp : /\ state[r.to] = "LEADER" /\ term[r.to] = r.term
                /\ r.last >= pending[r.to]}

\* Mutant of FollowerAppend: only the log in memory is truncated.
FollowerAppendInMemory(p, m, first, last) ==
  LET k == Conflict(p, m, first, last)
      rest == SubSeq(m.log, k, last)
      cut == k <= last /\ k <= Len(log[p])
      kept == IF cut THEN SubSeq(log[p], 1, k - 1) ELSE log[p]
  IN /\ log' = [log EXCEPT ![p] = kept \o rest]
     /\ diskq' = [diskq EXCEPT ![p] =
          @ \o <<[op |-> "follow", entries |-> rest, term |-> m.term,
                  commit |-> LeastOf(m.commit, last),
                  leader |-> m.from, first |-> first, last |-> last]>>]

\* LogManager::append_entries at a follower: the conflicting suffix goes, the
\* rest of the entries comes; the response waits in the disk queue.
FollowerAppend(p, m, first, last) ==
  LET k == Conflict(p, m, first, last)
      rest == SubSeq(m.log, k, last)
      cut == k <= last /\ k <= Len(log[p])
      kept == IF cut THEN SubSeq(log[p], 1, k - 1) ELSE log[p]
  IN /\ log' = [log EXCEPT ![p] = kept \o rest]
     /\ diskq' = [diskq EXCEPT ![p] =
          @ \o (IF cut THEN <<[op |-> "cut", to |-> k - 1]>> ELSE <<>>)
            \o <<[op |-> "follow", entries |-> rest, term |-> m.term,
                  commit |-> LeastOf(m.commit, last),
                  leader |-> m.from, first |-> first, last |-> last]>>]

\* unsafe_truncate_suffix below the applied index: LOG(FATAL).
Fatal(p, m, first, last, applied) ==
  LET k == Conflict(p, m, first, last)
  IN k <= last /\ k <= Len(log[p]) /\ k - 1 < applied

\* handle_append_entries_request of a second leader in the term: to end the
\* split, the next term begins.
LeaderConflict(p, m) ==
  /\ m.type = "append" /\ m.from # p
  /\ m.term = term[p] /\ state[p] = "FOLLOWER" /\ leaderId[p] \notin {Nobody, m.from}
  /\ StepDown(p, m.term + 1, Nobody)
  /\ UNCHANGED <<lastLeader, window, logVars, msgs>>

\* handle_append_entries_request: no match at the previous entry; nothing new;
\* or entries to append.  FSMCaller applies what is committed in a thread of its
\* own: _applied_id is any index up to the committed one.  A request that would
\* change nothing, and one that would kill the process, are left out.
AppendEntries(p, m) ==
  /\ m.type = "append" /\ m.from # p /\ m.term >= term[p]
  /\ m.term > term[p] \/ state[p] # "FOLLOWER" \/ leaderId[p] \in {Nobody, m.from}
  /\ \E first \in 1 .. Len(m.log) + 1, applied \in 0 .. committed[p] :
     \E last \in first - 1 .. Len(m.log) :
       LET match == TermAt(log[p], first - 1) = TermAt(m.log, first - 1)
           new == last >= first /\ last > applied
           follows == m.term = term[p] /\ lastLeader[p] = m.from /\ leaderId[p] = m.from
           served == Respond(Served(p, m.term, m.from, first, last))
           answered == served \subseteq msgs
       IN /\ \/ /\ ~match /\ ~follows
                /\ UNCHANGED <<log, diskq, committed, msgs>>
             \/ /\ match /\ ~new
                /\ ~follows \/ ~answered \/ LeastOf(m.commit, last) > committed[p]
                /\ msgs' = msgs \cup served
                /\ Learn(p, LeastOf(m.commit, last))
                /\ UNCHANGED <<log, diskq>>
             \/ /\ match /\ new /\ Len(diskq[p]) < MaxQueue
                /\ ~Fatal(p, m, first, last, applied)
                /\ Conflict(p, m, first, last) <= last \/ ~answered
                /\ FollowerAppend(p, m, first, last)
                /\ UNCHANGED <<committed, msgs>>
          /\ StepDown(p, m.term, m.from)
          /\ lastLeader' = [lastLeader EXCEPT ![p] = m.from]
          /\ UNCHANGED <<window, diskVars>>

\* A thread that waits for last_log_id(true), after one more closure; LastLogIdClosure
\* gets the id when it is next.
Closer(w, id) == IF w.ahead = 0 THEN w ELSE [w EXCEPT !.ahead = @ - 1, !.last = id]

\* What disk_thread keeps of the last entry, after a closure that made
\* disk' of the storage, or left it alone.  Where a batch ends, set_disk_id
\* ignores an id that is lower than _disk_id, and the next batch begins with
\* _disk_id: threads that wait for this closure are answered before that or
\* after it.  A batch ends at the latest when the queue is empty.
SetDiskId(p, written, ended) ==
  LET id == IF written THEN LastId(disk'[p]) ELSE lastId[p]
      top == NewerOf(id, diskId[p])
      over == ended \/ Len(diskq[p]) = 1
  IN /\ diskId' = [diskId EXCEPT ![p] = IF over THEN top ELSE @]
     /\ lastId' = [lastId EXCEPT ![p] = IF over THEN top ELSE id]
     /\ window' = [window EXCEPT ![p] =
                     {Closer(w, IF ended THEN top ELSE id) : w \in @}]

\* disk_thread: a TruncateSuffixClosure.
TruncateSuffix(p, c) ==
  /\ c.op = "cut"
  /\ disk' = [disk EXCEPT ![p] = SubSeq(@, 1, c.to)]
  /\ UNCHANGED <<leaderVars, committed, msgs>>

\* LeaderStableClosure grants the leader's own vote.
LeaderStable(p, c) ==
  /\ c.op = "lead"
  /\ disk' = [disk EXCEPT ![p] = @ \o c.entries]
  /\ CommitAt(p, c.index, c.index, p)

\* FollowerStableClosure responds, unless the term has changed since.
FollowerStable(p, c) ==
  /\ c.op = "follow"
  /\ disk' = [disk EXCEPT ![p] = @ \o c.entries]
  /\ IF c.term # term[p] \/ pending[p] # 0
     THEN UNCHANGED committed ELSE Learn(p, c.commit)
  /\ msgs' = IF c.term # term[p] THEN msgs
             ELSE msgs \cup Respond(Served(p, c.term, c.leader, c.first, c.last))
  /\ UNCHANGED leaderVars

\* disk_thread: one closure.
DiskThread(p) ==
  LET c == Head(diskq[p])
  IN /\ diskq[p] # <<>>
     /\ diskq' = [diskq EXCEPT ![p] = Tail(@)]
     /\ TruncateSuffix(p, c) \/ LeaderStable(p, c) \/ FollowerStable(p, c)
     /\ \E ended \in BOOLEAN : SetDiskId(p, c.op = "cut" \/ c.entries # <<>>, ended)
     /\ UNCHANGED <<state, term, voted, meta, leaderId, lastLeader, prevoted, asked, log,
                    left>>

-----------------------------------------------------------------------------
Init ==
  /\ state = [i \in Server |-> "FOLLOWER"]
  /\ term = [i \in Server |-> 1]
  /\ voted = [i \in Server |-> Nobody]
  /\ meta = [i \in Server |-> <<1, Nobody>>]
  /\ leaderId = voted
  /\ lastLeader = voted
  /\ prevoted = [i \in Server |-> FALSE]
  /\ window = [i \in Server |-> {}]
  /\ asked = [i \in Server |-> <<0, 0>>]
  /\ log = [i \in Server |-> <<>>]
  /\ disk = log
  /\ diskq = log
  /\ diskId = asked
  /\ lastId = asked
  /\ pending = [i \in Server |-> 0]
  /\ ballots = log
  /\ committed = pending
  /\ msgs = {}
  /\ left \in Budgets
  /\ lapsed = FALSE

\* A server knows the leader of a term that its meta storage does not hold:
\* step_down and elect_self go on when a write fails, and until elect_self has
\* the mutex again nothing of the new term is stored.
Lapse == \E i \in Server : leaderId[i] # Nobody /\ meta[i][1] < term[i]

Next ==
  /\ \E i \in Server :
       \/ ElectionTimeout(i) \/ ElectSelf(i) \/ VoteTimeout(i) \/ StepdownTimeout(i)
       \/ ElectSelfLocked(i) \/ RequestVoteLocked(i) \/ BecomeLeader(i)
       \/ HigherTerm(i) \/ Apply(i) \/ DiskThread(i)
       \/ Restart(i)
       \/ \E m \in msgs :
            RequestVote(i, m) \/ AppendEntries(i, m) \/ LeaderConflict(i, m) \/ AppendOk(i, m)
  /\ lapsed' = (lapsed \/ Lapse')

Spec == Init /\ [][Next]_vars

-----------------------------------------------------------------------------
\* At most one leader in a term, whatever was lost in restarts and failed
\* writes: what become_leader lets out in a term comes from one server.  A
\* leader that counted a vote of its own that elect_self could not store is left
\* out: the same vote may elect another one.
ElectionSafety ==
  \A m, n \in {a \in msgs : a.type = "append" /\ a.backed} :
    m.term = n.term => m.from = n.from

\* Each vote so far went to a candidate that claimed a last entry not older than
\* the voter's, and was stored before it made a leader.
FreshVotes == \A m \in msgs : /\ m.type = "granted" => m.fresh
                              /\ m.type = "append" => m.backed

\* What a server counts committed is in its log and in the storage of a
\* majority, whatever was queued, cut or restarted and whoever leads since: a
\* response of success never runs ahead of the disk queue.
CommittedStored ==
  FreshVotes /\ ~lapsed => \A i \in Server : \A k \in 1 .. committed[i] :
    /\ k <= Len(log[i])
    /\ IsQuorum({p \in Server : k <= Len(disk[p]) /\ disk[p][k] = log[i][k]})

\* raft.h: committed tasks in different peers with the same index are always
\* the same.
Uniqueness ==
  \A i, j \in Server :
    \A k \in 1 .. LeastOf(committed[i], committed[j]) :
      k \in DOMAIN log[i] \cap DOMAIN log[j] => log[i][k] = log[j][k]

\* Only a vote and a term that were not kept can lose a committed entry: while
\* handle_request_vote_request granted no vote to an older log, and every server
\* stored a term before it took part in its replication, committed entries are
\* unique.
FreshVotesKeepUniqueness == FreshVotes /\ ~lapsed => Uniqueness
=============================================================================

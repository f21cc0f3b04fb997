------------------------------- MODULE MCRaft -------------------------------
EXTENDS Raft, TLC

CONSTANTS s1, s2, s3

\* The properties tell no server from another, and Next neither.
Symmetry == Permutations({s2, s3})

Left(elections, t, tasks, faults) ==
  [elections |-> elections, term |-> t, tasks |-> tasks, faults |-> faults]

\* Two elections of the same term with a fault between any of their steps, or
\* one that times out and is tried again in the next term.
MCBudgets == {Left(2, 2, 0, 1), Left(1, 3, 0, 1)}

Message(i, t, entries, commit, backed) ==
  [type |-> "append", term |-> t, from |-> i, log |-> entries, commit |-> commit,
   backed |-> backed]

\* A group right after an election: s1 has become the leader of term t with the
\* votes of all but the servers of `cut', stored its first entry and probed the
\* others.  Those of `cut' have heard nothing since a pre-vote in term 1.
Elected(t, cut) ==
  LET entries == <<<<t, s1>>>>
  IN
  /\ state = [i \in Server |-> IF i = s1 THEN "LEADER" ELSE "FOLLOWER"]
  /\ term = [i \in Server |-> IF i \in cut THEN 1 ELSE t]
  /\ voted = [i \in Server |-> IF i \in cut THEN Nobody ELSE s1]
  /\ meta = [i \in Server |-> <<term[i], voted[i]>>]
  /\ leaderId = voted
  /\ lastLeader = [voted EXCEPT ![s1] = Nobody]
  /\ prevoted = [i \in Server |-> i \in cut]
  /\ log = [i \in Server |-> IF i = s1 THEN entries ELSE <<>>]
  /\ window = [i \in Server |-> {}]
  /\ asked = [i \in Server |-> <<0, 0>>]
  /\ pending = [i \in Server |-> IF i = s1 THEN 1 ELSE 0]
  /\ ballots = [i \in Server |-> IF i = s1 THEN <<{s1}>> ELSE <<>>]
  /\ committed = [i \in Server |-> 0]
  /\ msgs = {Granted(i, s1, t, <<0, 0>>, TRUE) : i \in Server \ cut}
              \cup {Message(s1, t, entries, 0, TRUE), Ok(s1, t, s1, 1, 1)}

\* Then another server is elected, a task is applied, or something fails; or
\* the server that was cut off stands for a term that is over.
Going ==
  \/ /\ Elected(2, {})
     /\ left \in {Left(1, 3, 0, 0), Left(0, 2, 1, 0), Left(0, 2, 0, 1)}
  \/ /\ Elected(3, {s3})
     /\ left = Left(0, 3, 0, 0)

\* The entry of term 2 is everywhere; s2 and s3 are candidates in term 3.  s2
\* could not store its vote, but has the one of s1, its last leader, and leads;
\* a thread of it that judges the request of s3 began before that.
Split ==
  /\ state = [i \in Server |-> CASE i = s1 -> "FOLLOWER"
                                 [] i = s2 -> "LEADER" [] OTHER -> "CANDIDATE"]
  /\ term = [i \in Server |-> 3]
  /\ voted = [i \in Server |-> CASE i = s1 -> s2 [] i = s2 -> Nobody [] OTHER -> s3]
  /\ meta = [i \in Server |-> IF i = s2 THEN <<2, s1>> ELSE <<3, voted[i]>>]
  /\ leaderId = [i \in Server |-> IF i = s2 THEN s2 ELSE Nobody]
  /\ lastLeader = [i \in Server |-> IF i = s3 THEN s1 ELSE Nobody]
  /\ prevoted = [i \in Server |-> FALSE]
  /\ log = [i \in Server |-> <<<<2, s1>>>> \o IF i = s2 THEN <<<<3, s2>>>> ELSE <<>>]
  /\ window = [i \in Server |-> IF i # s2 THEN {} ELSE
                 {[op |-> "vote", term |-> 3, last |-> <<2, 1>>, ahead |-> 0,
                   req |-> [type |-> "vote", term |-> 3, from |-> s3, to |-> s2,
                            last |-> <<2, 1>>]]}]
  /\ pending = [i \in Server |-> IF i = s2 THEN 2 ELSE 0]
  /\ ballots = [i \in Server |-> IF i = s2 THEN <<{s2}>> ELSE <<>>]
  /\ committed = [i \in Server |-> 1]
  /\ asked = [i \in Server |-> IF i = s3 THEN <<2, 1>> ELSE <<0, 0>>]
  /\ msgs = {Granted(i, s1, 2, <<0, 0>>, TRUE) : i \in Server}
              \cup {Granted(s1, s2, 3, <<2, 1>>, TRUE), Granted(s3, s3, 3, <<2, 1>>, TRUE)}
              \cup {Message(s1, 2, log[s1], 1, TRUE), Message(s2, 3, log[s2], 1, FALSE)}
              \cup {Ok(i, 2, s1, 1, 1) : i \in Server} \cup {Ok(s2, 3, s2, 2, 2)}
  /\ left = Left(0, 3, 0, 0)

Stored == /\ disk = log
          /\ diskq = [i \in Server |-> <<>>]
          /\ diskId = [i \in Server |-> LastId(disk[i])]

\* s1 led in term 2 and s2 in term 3, each alone with its entry, and s1 leads
\* again in term 4.  s2 has received the older entry of s1 in the place of its
\* own, but nothing of that is stored yet, and a pre-vote.
Overtaken ==
  /\ state = [i \in Server |-> IF i = s1 THEN "LEADER" ELSE "FOLLOWER"]
  /\ term = [i \in Server |-> 4]
  /\ voted = [i \in Server |-> IF i = s2 THEN Nobody ELSE s1]
  /\ meta = [i \in Server |-> <<4, voted[i]>>]
  /\ leaderId = [i \in Server |-> IF i = s1 THEN s1 ELSE Nobody]
  /\ lastLeader = [i \in Server |-> IF i = s2 THEN s1 ELSE Nobody]
  /\ prevoted = [i \in Server |-> i = s2]
  /\ log = [i \in Server |-> CASE i = s1 -> <<<<2, s1>>, <<4, s1>>>>
                                [] i = s2 -> <<<<2, s1>>>> [] OTHER -> <<>>]
  /\ disk = [log EXCEPT ![s2] = <<<<3, s2>>>>]
  /\ diskq = [i \in Server |-> IF i # s2 THEN <<>> ELSE
                <<[op |-> "cut", to |-> 0],
                  [op |-> "follow", entries |-> <<<<2, s1>>>>, term |-> 4, commit |-> 0,
                   leader |-> s1, first |-> 1, last |-> 1]>>]
  /\ diskId = [i \in Server |-> LastId(disk[i])]
  /\ window = [i \in Server |-> {}]
  /\ pending = [i \in Server |-> IF i = s1 THEN 2 ELSE 0]
  /\ ballots = [i \in Server |-> IF i = s1 THEN <<{s1}>> ELSE <<>>]
  /\ committed = [i \in Server |-> 0]
  /\ asked = [i \in Server |-> <<0, 0>>]
  /\ msgs = {Granted(i, s1, t, <<0, 0>>, TRUE) : i \in {s1, s3}, t \in {2, 4}}
              \cup {Granted(i, s2, 3, <<0, 0>>, TRUE) : i \in {s2, s3}}
              \cup {Message(s1, 2, <<<<2, s1>>>>, 0, TRUE), Message(s2, 3, disk[s2], 0, TRUE),
                    Message(s1, 4, log[s1], 0, TRUE)}
              \cup {Ok(s1, 2, s1, 1, 1), Ok(s2, 3, s2, 1, 1), Ok(s1, 4, s1, 2, 2)}
  /\ left = Left(0, 5, 0, 0)

MCInit == \/ Init
          \/ /\ (Going \/ Split) /\ Stored
             /\ lastId = diskId /\ lapsed = Lapse
          \/ Overtaken /\ lastId = diskId /\ lapsed = Lapse

MCSpec == MCInit /\ [][Next]_vars
GoingSpec == Going /\ Stored /\ lastId = diskId /\ lapsed = Lapse /\ [][Next]_vars
=============================================================================

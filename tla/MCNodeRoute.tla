---------------------------- MODULE MCNodeRoute -----------------------------
EXTENDS NodeRoute, TLC

CONSTANTS n1, n2, t1,
          MaxChanges   \* bound: no failure and no table command once the epoch
                       \* and the version add up to it

HashOne == (t1 :> 1)

Fails == ~(meta.alive \subseteq meta'.alive)

MCNext ==
  /\ RouteNext
  /\ Fails \/ meta'.version.version > meta.version.version =>
       meta.version.epoch + meta.version.version < MaxChanges

MCSpec == RouteInit /\ [][MCNext]_<<vars, held>>
=============================================================================

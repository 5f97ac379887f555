---------------------------- MODULE RequestPool ----------------------------
(***************************************************************************)
(* What the permits of main/async_server_utils.h are for: no more requests *)
(* are open at a time than the pool has places.  A place can be lost for   *)
(* good when a request fails to start; it is never gained.  HttpWorkers    *)
(* implements this module.                                                 *)
(***************************************************************************)
EXTENDS Integers, FiniteSets

CONSTANTS Requests, Capacity

VARIABLES
  open,     \* requests being served
  places    \* how many may be

poolVars == <<open, places>>

PoolInit == open = {} /\ places = Capacity

Accept(r) ==
  /\ r \notin open /\ Cardinality(open) < places
  /\ open' = open \cup {r}
  /\ UNCHANGED places

Finish(r) == r \in open /\ open' = open \ {r} /\ UNCHANGED places

\* The request's place goes with it.
Lose(r) == r \in open /\ open' = open \ {r} /\ places' = places - 1

PoolNext == \E r \in Requests : Accept(r) \/ Finish(r) \/ Lose(r)

PoolSpec == PoolInit /\ [][PoolNext]_poolVars
=============================================================================

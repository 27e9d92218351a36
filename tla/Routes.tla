------------------------------- MODULE Routes -------------------------------
(***************************************************************************)
(* How a client gets routes through bridges.  A bridge registers with the  *)
(* broker (geph5-bridge/src/main.rs); get_routes chooses one bridge of     *)
(* each pool (geph5-broker/src/rpc_impl.rs, database.rs) and has it open a *)
(* listener for the exit (routes.rs; listen_forward.rs of the bridge).     *)
(*                                                                         *)
(* One pool, one token and one exit.  A bridge that starts again has a new *)
(* port and cookie, so it is another bridge.  Ages and ticks are as in     *)
(* Exits.                                                                  *)
(***************************************************************************)
EXTENDS Integers

CONSTANTS
  Bridges,     \* the bridges of the pool
  ROW,         \* lifetime of a row, 120 s
  GC,          \* period of database_gc_loop, 1 to 2 s
  QUERY,       \* lifetime of the cache of query_bridges, 300 s
  ROUTE,       \* lifetime of the cache of bridge_to_leaf_route, 600 s
  MAPPING,     \* how long an idle entry of MAPPING lives, 3600 s
  MaxFaults    \* bound: crashes, failed calls, deletes and lookups

\* What the lifetimes are taken to be: a listener's is not below a route's.
LifetimesAssumption == ROUTE \in Nat /\ MAPPING \in Nat /\ ROUTE <= MAPPING

VARIABLES
  faults,      \* how many of them are to come
  up,          \* per bridge: "new", "up" or "down"
  uploaded,    \* per bridge: whether broker_loop had its round in this tick
  row,         \* table bridges_new: the age of each row
  gc,          \* ticks since database_gc_loop began its round
  query,       \* cache of query_bridges: its age and the chosen bridge
  route,       \* cache of routes: per bridge the age and the Result
  mapped,      \* MAPPING: per bridge the age of the entry of its last route
  listener,    \* per bridge: whether handle_one_listener runs for that entry
  served       \* what get_routes returned last: a bridge, or "none"

bridge_vars == <<up, uploaded, mapped, listener>>
broker_vars == <<row, gc, query, route>>
vars == <<faults, bridge_vars, broker_vars, served>>

\* The age of what is not there.
Gone == -9
NoQuery == [age |-> Gone, bridge |-> "none"]
NoRoute == [age |-> Gone, ok |-> FALSE]

Fault == faults > 0 /\ faults' = faults - 1
Fine == UNCHANGED faults
Set(f, x, v) == [f EXCEPT ![x] = v]

Init ==
  /\ faults = MaxFaults
  /\ up = [b \in Bridges |-> "new"] /\ uploaded = [b \in Bridges |-> FALSE]
  /\ row = [b \in Bridges |-> Gone] /\ gc = 0
  /\ query = NoQuery /\ route = [b \in Bridges |-> NoRoute]
  /\ mapped = [b \in Bridges |-> Gone] /\ listener = [b \in Bridges |-> FALSE]
  /\ served = "none"

----------------------------------------------------------------------------
(* A bridge.                                                               *)

\* main: the port and the cookie are chosen, and both loops start.
Boot(b) ==
  /\ up[b] = "new" /\ up' = Set(up, b, "up")
  /\ UNCHANGED <<faults, uploaded, mapped, listener, broker_vars, served>>

Crash(b) ==
  /\ Fault /\ up[b] = "up" /\ up' = Set(up, b, "down")
  /\ mapped' = Set(mapped, b, Gone) /\ listener' = Set(listener, b, FALSE)
  /\ UNCHANGED <<uploaded, broker_vars, served>>

\* insert_bridge of the broker.
InsertBridge(b) == row' = Set(row, b, 0)

\* A round of broker_loop; the call may fail.
Upload(b) ==
  /\ up[b] = "up" /\ ~uploaded[b] /\ uploaded' = Set(uploaded, b, TRUE)
  /\ \/ Fine /\ InsertBridge(b)
     \/ Fault /\ UNCHANGED row
  /\ UNCHANGED <<up, mapped, listener, gc, query, route, served>>

\* ip_to_asn fails, and with it handle_one_listener; the entry stays.
ListenerDies(b) ==
  /\ Fault /\ listener[b] /\ listener' = Set(listener, b, FALSE)
  /\ UNCHANGED <<up, uploaded, mapped, broker_vars, served>>

----------------------------------------------------------------------------
(* The broker.                                                             *)

\* A round of database_gc_loop.  A delete may fail: the one of exits comes first,
\* and the loop starts again.
Collect ==
  /\ gc > 0 /\ gc' = 0
  /\ \/ Fine /\ row' = [b \in Bridges |-> IF row[b] > ROW THEN Gone ELSE row[b]]
     \/ Fault /\ UNCHANGED row
  /\ UNCHANGED <<bridge_vars, query, route, served>>

\* query_bridges: a bridge of the pool, by a hash of its address and the
\* token; nobody when the pool has no row.  An empty answer is cached, too.
QueryBridges ==
  /\ query = NoQuery /\ served = "none"
  /\ \E b \in Bridges \cup {"none"} :
       /\ IF \E c \in Bridges : row[c] # Gone
          THEN b \in Bridges /\ row[b] # Gone ELSE b = "none"
       /\ query' = [age |-> 0, bridge |-> b]
  /\ UNCHANGED <<faults, bridge_vars, row, gc, route, served>>

\* tcp_forward of the bridge opens a listener for a protocol, under a metadata
\* with a new expiry and thus a new key of MAPPING.
TcpForward(b) == mapped' = Set(mapped, b, 0) /\ listener' = Set(listener, b, TRUE)

\* bridge_to_leaf_route_inner calls it; a bridge that is down does not answer.
LeafRoute(b, ok) ==
  \/ ok /\ Fine /\ up[b] = "up" /\ TcpForward(b)
  \/ ~ok /\ (IF up[b] = "up" THEN Fault ELSE Fine) /\ UNCHANGED <<mapped, listener>>

\* bridge_to_leaf_route: a failure is cached as well.
MakeRoute(b) ==
  /\ query.bridge = b /\ route[b] = NoRoute
  /\ \E ok \in BOOLEAN : LeafRoute(b, ok) /\ route' = Set(route, b, [age |-> 0, ok |-> ok])
  /\ UNCHANGED <<up, uploaded, row, gc, query, served>>

\* get_routes: routes that failed are left out.
GetRoutes ==
  /\ query # NoQuery
  /\ \/ query.bridge = "none" /\ served' = "nothing"
     \/ \E b \in Bridges : /\ query.bridge = b /\ route[b] # NoRoute
                           /\ served' = IF route[b].ok THEN b ELSE "nothing"
  /\ UNCHANGED <<faults, bridge_vars, broker_vars>>

----------------------------------------------------------------------------
(* Time.  The caches are independent of each other: an entry expires when  *)
(* its own lifetime is over.                                               *)

OlderMappingIsShort(b) == IF mapped[b] \in 0 .. ROUTE - 2 THEN mapped[b] + 1 ELSE Gone
OlderMapping(b) == IF mapped[b] \in 0 .. MAPPING - 1 THEN mapped[b] + 1 ELSE Gone

\* An evicted entry of MAPPING drops the task of its listener.
Tick ==
  /\ gc < GC /\ \A b \in Bridges : up[b] = "up" => uploaded[b]
  /\ gc' = gc + 1 /\ uploaded' = [b \in Bridges |-> FALSE]
  /\ row' = [b \in Bridges |-> IF row[b] = Gone THEN Gone ELSE row[b] + 1]
  /\ query' = IF query.age \in {Gone, QUERY} THEN NoQuery
              ELSE [query EXCEPT !.age = @ + 1]
  /\ route' = [b \in Bridges |-> IF route[b].age \in {Gone, ROUTE} THEN NoRoute
                                 ELSE [route[b] EXCEPT !.age = @ + 1]]
  /\ mapped' = [b \in Bridges |-> OlderMapping(b)]
  /\ listener' = [b \in Bridges |-> listener[b] /\ mapped'[b] # Gone]
  /\ served' = "none"
  /\ UNCHANGED <<faults, up>>

Broker == Collect \/ QueryBridges \/ GetRoutes \/ \E b \in Bridges : MakeRoute(b)

Next ==
  \/ Tick \/ Broker
  \/ \E b \in Bridges : Boot(b) \/ Crash(b) \/ Upload(b) \/ ListenerDies(b)

\* Timers fire, and clients ask for routes again and again.
Fairness ==
  /\ WF_vars(Tick) /\ WF_vars(Collect) /\ WF_vars(QueryBridges) /\ WF_vars(GetRoutes)
  /\ \A b \in Bridges : WF_vars(Upload(b)) /\ WF_vars(MakeRoute(b))

Spec == Init /\ [][Next]_vars /\ Fairness

----------------------------------------------------------------------------

\* A listener outlives every copy of its route in the broker's cache: unless
\* its bridge crashed or its task failed, a cached route leads to a listener.
RouteHasListener ==
  \A b \in Bridges : route[b].ok => mapped[b] # Gone \/ up[b] = "down"

\* One failure does not last: when some bridge of the pool stays up, and no
\* more faults happen, the routes served in the end lead through a bridge that
\* is up and to a listener that runs, whatever the three caches held before.
RoutesRecover ==
  (\E b \in Bridges : <>[](up[b] = "up"))
    => <>[](served # "none" => served \in Bridges /\ up[served] = "up" /\ listener[served])
=============================================================================

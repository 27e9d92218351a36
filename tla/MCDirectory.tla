----------------------------- MODULE MCDirectory ---------------------------
(***************************************************************************)
(* What the broker tells clients, each part on its own: which exits there  *)
(* are (Exits) and which routes lead to them (Routes).  A behaviour is one *)
(* of one part: the other keeps its initial state.  A clock is behind only *)
(* where the client's level is Plus.                                       *)
(***************************************************************************)
EXTENDS Exits

CONSTANTS Bridges, BRIDGE_ROW, QUERY, ROUTE, MAPPING, MaxRouteFaults  \* Routes

VARIABLES part,
          route_faults, bridge_up, uploaded, bridge_row, bridge_gc, query, route,
          mapped, listener, served

RouteCache == INSTANCE Routes
  WITH ROW <- BRIDGE_ROW, MaxFaults <- MaxRouteFaults, faults <- route_faults,
       up <- bridge_up, row <- bridge_row, gc <- bridge_gc

ASSUME RoutesAssumption == RouteCache!LifetimesAssumption

routeVars == <<route_faults, bridge_up, uploaded, bridge_row, bridge_gc, query, route,
               mapped, listener, served>>
mcvars == <<part, vars, routeVars>>

MCInit ==
  /\ part \in {"exits", "routes"}
  /\ Init /\ RouteCache!Init
  /\ part = "exits" \/ behind = {}
  /\ level = "Free" => part = "exits" /\ behind = {}

MCNext ==
  /\ UNCHANGED part
  /\ \/ part = "exits" /\ Next /\ UNCHANGED routeVars
     \/ part = "routes" /\ RouteCache!Next /\ UNCHANGED vars

\* The fairness of the part that runs.
MCFairness ==
  \/ part = "exits" /\ Fairness
  \/ part = "routes" /\ RouteCache!Fairness

MCSpec == MCInit /\ [][MCNext]_mcvars /\ MCFairness

----------------------------------------------------------------------------

\* A cached route leads to a listener (Routes).
RouteHasListener == RouteCache!RouteHasListener

\* The routes served recover from whatever was cached (Routes).
RoutesRecover == RouteCache!RoutesRecover
=============================================================================

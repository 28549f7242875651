--------------------------- MODULE SettlementRoutes ---------------------------
(***************************************************************************)
(* payment_rails.py and settlement_routes.py: the owner's evidence of how  *)
(* money can be received.  All rails are one JSON row of SystemSetting, all*)
(* routes another; a request reads the whole catalogue, changes one record *)
(* and writes the whole catalogue back.                                    *)
(***************************************************************************)

CONSTANTS
    Requests,  \* concurrent requests of the owner
    Rails, RoutedMarkets,
    Unmapped,  \* the rail of a route that selects none
    Idle       \* the catalogue of a request that holds none

RoutesAssumption == Unmapped \notin Rails \cup RoutedMarkets
ASSUME RoutesAssumption

(* What is known of a rail: nothing verified, verified for checkout only,  *)
(* or verified and able to receive a payout or a final settlement.         *)
RailTruths == {"UNPROVEN", "CHECKOUT", "RECEIVES"}
Routes == [status : {"UNMAPPED", "PROPOSED", "VERIFIED"}, rail : Rails \cup {Unmapped}]
NoRoute == [status |-> "UNMAPPED", rail |-> Unmapped]

VARIABLES
    rails, routes,   \* the two catalogues
    railEdit, routeEdit,  \* the edit each request is in, with its copy of the catalogue
    payoutReady,     \* markets whose payout is verified
    acceptedRails, acceptedRoutes  \* what the owner was last told is stored (ghosts)

routeVars == <<rails, routes, railEdit, routeEdit, payoutReady, acceptedRails, acceptedRoutes>>

NoRailEdit == [key |-> Unmapped, truth |-> "UNPROVEN", copy |-> Idle]
NoRouteEdit == [key |-> Unmapped, route |-> NoRoute, copy |-> Idle]

RoutesInit ==
    /\ rails = [r \in Rails |-> "UNPROVEN"] /\ acceptedRails = rails
    /\ routes = [m \in RoutedMarkets |-> NoRoute] /\ acceptedRoutes = routes
    /\ railEdit = [q \in Requests |-> NoRailEdit]
    /\ routeEdit = [q \in Requests |-> NoRouteEdit]
    /\ payoutReady = {}

Free(q) == railEdit[q] = NoRailEdit /\ routeEdit[q] = NoRouteEdit
(* select_for_update of the setting; mutant: a plain read.                 *)
MayRead(edits) == TRUE
MayLock(edits) == \A q \in Requests : edits[q].key = Unmapped

(* settlement_route_blockers, but for the status of the route itself.      *)
Receivable(m, rail) == rail # Unmapped /\ m \in payoutReady /\ rails[rail] = "RECEIVES"

ReadRails(q, r, truth) ==
    /\ Free(q) /\ MayLock(railEdit)
    /\ railEdit' = [railEdit EXCEPT ![q] = [key |-> r, truth |-> truth, copy |-> rails]]
    /\ UNCHANGED <<rails, routes, routeEdit, payoutReady, acceptedRails, acceptedRoutes>>

UpdatePaymentRailProof(q) ==
    LET e == railEdit[q] IN
    /\ e # NoRailEdit
    /\ rails' = [e.copy EXCEPT ![e.key] = e.truth]
    /\ acceptedRails' = [acceptedRails EXCEPT ![e.key] = e.truth]
    /\ railEdit' = [railEdit EXCEPT ![q] = NoRailEdit]
    /\ UNCHANGED <<routes, routeEdit, payoutReady, acceptedRoutes>>

ReadRoutes(q, m, route) ==
    /\ Free(q) /\ MayLock(routeEdit)
    /\ routeEdit' = [routeEdit EXCEPT ![q] = [key |-> m, route |-> route, copy |-> routes]]
    /\ UNCHANGED <<rails, routes, railEdit, payoutReady, acceptedRails, acceptedRoutes>>

(* A route is VERIFIED only without blockers; else the request is refused. *)
UpdateMarketSettlementRoute(q) ==
    LET e == routeEdit[q]
        allowed == e.route.status = "VERIFIED" => Receivable(e.key, e.route.rail)
    IN
    /\ e # NoRouteEdit
    /\ routes' = IF allowed THEN [e.copy EXCEPT ![e.key] = e.route] ELSE routes
    /\ acceptedRoutes' = IF allowed THEN [acceptedRoutes EXCEPT ![e.key] = e.route]
                         ELSE acceptedRoutes
    /\ routeEdit' = [routeEdit EXCEPT ![q] = NoRouteEdit]
    /\ UNCHANGED <<rails, railEdit, payoutReady, acceptedRails>>

(* External: an operator verifies a market's payout, or withdraws that.    *)
PayoutTruthChanges(m) ==
    /\ payoutReady' \in {payoutReady \cup {m}, payoutReady \ {m}}
    /\ UNCHANGED <<rails, routes, railEdit, routeEdit, acceptedRails, acceptedRoutes>>

RoutesNext ==
    \/ \E q \in Requests :
          \/ \E r \in Rails, truth \in RailTruths : ReadRails(q, r, truth)
          \/ UpdatePaymentRailProof(q)
          \/ \E m \in RoutedMarkets, route \in Routes : ReadRoutes(q, m, route)
          \/ UpdateMarketSettlementRoute(q)
    \/ \E m \in RoutedMarkets : PayoutTruthChanges(m)

RoutesSpec == RoutesInit /\ [][RoutesNext]_routeVars

-----------------------------------------------------------------------------
(* What the owner was told is stored stays stored: an edit of one rail or  *)
(* route never takes back another that was accepted while it ran, although *)
(* each writes the whole catalogue (payment_rails.py:300-330,              *)
(* settlement_routes.py:155-181).                                          *)
ProofsAreKept == rails = acceptedRails /\ routes = acceptedRoutes
=============================================================================

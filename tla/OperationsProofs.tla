-------------------------- MODULE OperationsProofs --------------------------
(***************************************************************************)
(* Proofs about the catalogues of payment rails and routes, the sandbox    *)
(* proxy, the switch of a market, the price of a listing, the quality gate,*)
(* the dependency caches of the sandbox broker, the cost of a call by      *)
(* balance evidence, paid web research, the findings of safety research    *)
(* and the selection of a portfolio, for any requests, threads, tests,     *)
(* prices, sources, attempts, caches, calls, models and rankings.          *)
(***************************************************************************)
EXTENDS SettlementRoutes, SandboxProxy, Integrations, SalesChannels, QualityGate,
        SandboxBroker, UsageEvidence, WebResearch, SafetyResearch, Portfolio, SumTheorems,
        FiniteSetTheorems, WellFoundedInduction, SequenceTheorems, TLAPS

-----------------------------------------------------------------------------
(* The catalogues.  Who holds the row has a copy of the whole catalogue as *)
(* it is, and nobody else holds it.                                        *)

RailEdits == [key : Rails \cup {Unmapped}, truth : RailTruths, copy : {Idle} \cup [Rails -> RailTruths]]
RouteEdits ==
    [key : RoutedMarkets \cup {Unmapped}, route : Routes, copy : {Idle} \cup [RoutedMarkets -> Routes]]

RailInv ==
    /\ rails \in [Rails -> RailTruths]
    /\ railEdit \in [Requests -> RailEdits]
    /\ \A q \in Requests : railEdit[q] # NoRailEdit => railEdit[q].key \in Rails /\ railEdit[q].copy = rails
    /\ \A p, q \in Requests : railEdit[p] # NoRailEdit /\ railEdit[q] # NoRailEdit => p = q
    /\ rails = acceptedRails

RouteInv ==
    /\ routes \in [RoutedMarkets -> Routes]
    /\ routeEdit \in [Requests -> RouteEdits]
    /\ \A q \in Requests :
          routeEdit[q] # NoRouteEdit => routeEdit[q].key \in RoutedMarkets /\ routeEdit[q].copy = routes
    /\ \A p, q \in Requests : routeEdit[p] # NoRouteEdit /\ routeEdit[q] # NoRouteEdit => p = q
    /\ routes = acceptedRoutes

LEMMA CataloguesBegin == RoutesInit => RailInv /\ RouteInv
<1> SUFFICES ASSUME RoutesInit PROVE RailInv /\ RouteInv
  OBVIOUS
<1>1. NoRailEdit \in RailEdits
  BY DEF NoRailEdit, RailEdits, RailTruths
<1>2. NoRoute \in Routes
  BY DEF NoRoute, Routes
<1>3. NoRouteEdit \in RouteEdits
  BY <1>2 DEF NoRouteEdit, RouteEdits
<1>4. RailInv
  BY <1>1 DEF RoutesInit, RailInv, RailTruths
<1>5. RouteInv
  BY <1>2, <1>3 DEF RoutesInit, RouteInv
<1> QED BY <1>4, <1>5

(* The lock is free only if nobody holds a copy.                           *)
LEMMA LockIsFree ==
    /\ RailInv /\ MayLock(railEdit) => \A q \in Requests : railEdit[q] = NoRailEdit
    /\ RouteInv /\ MayLock(routeEdit) => \A q \in Requests : routeEdit[q] = NoRouteEdit
BY RoutesAssumption DEF RoutesAssumption, RailInv, RouteInv, MayLock

LEMMA RailsKept == RailInv /\ [RoutesNext]_routeVars => RailInv'
<1> SUFFICES ASSUME RailInv, [RoutesNext]_routeVars PROVE RailInv'
  OBVIOUS
<1>1. ASSUME NEW q \in Requests, NEW r \in Rails, NEW truth \in RailTruths, ReadRails(q, r, truth)
      PROVE  RailInv'
  <2>1. \A p \in Requests : railEdit[p] = NoRailEdit
    BY <1>1, LockIsFree DEF ReadRails
  <2>2. [key |-> r, truth |-> truth, copy |-> rails] \in RailEdits
    BY DEF RailInv, RailEdits
  <2>3. railEdit' = [railEdit EXCEPT ![q] = [key |-> r, truth |-> truth, copy |-> rails]]
        /\ UNCHANGED <<rails, acceptedRails>>
    BY <1>1 DEF ReadRails
  <2> QED BY <2>1, <2>2, <2>3 DEF RailInv
<1>2. ASSUME NEW q \in Requests, UpdatePaymentRailProof(q)
      PROVE  RailInv'
  <2>1. /\ railEdit[q] # NoRailEdit
        /\ rails' = [railEdit[q].copy EXCEPT ![railEdit[q].key] = railEdit[q].truth]
        /\ acceptedRails' = [acceptedRails EXCEPT ![railEdit[q].key] = railEdit[q].truth]
        /\ railEdit' = [railEdit EXCEPT ![q] = NoRailEdit]
    BY <1>2 DEF UpdatePaymentRailProof
  <2>2. railEdit[q].copy = rails /\ railEdit[q].truth \in RailTruths
    BY <2>1 DEF RailInv, RailEdits
  <2>3. rails' = acceptedRails' /\ rails' \in [Rails -> RailTruths]
    BY <2>1, <2>2 DEF RailInv
  <2>4. \A p \in Requests : railEdit'[p] = NoRailEdit
    BY <2>1 DEF RailInv
  <2>5. railEdit' \in [Requests -> RailEdits]
    BY <2>1 DEF RailInv, RailEdits, NoRailEdit, RailTruths
  <2> QED BY <2>3, <2>4, <2>5 DEF RailInv
<1>3. CASE \E q \in Requests :
              \/ \E m \in RoutedMarkets, route \in Routes : ReadRoutes(q, m, route)
              \/ UpdateMarketSettlementRoute(q)
  BY <1>3 DEF RailInv, ReadRoutes, UpdateMarketSettlementRoute
<1>4. CASE \E m \in RoutedMarkets : PayoutTruthChanges(m)
  BY <1>4 DEF RailInv, PayoutTruthChanges
<1>5. CASE UNCHANGED routeVars
  BY <1>5 DEF RailInv, routeVars
<1> QED BY <1>1, <1>2, <1>3, <1>4, <1>5 DEF RoutesNext

LEMMA RoutesKept == RouteInv /\ [RoutesNext]_routeVars => RouteInv'
<1> SUFFICES ASSUME RouteInv, [RoutesNext]_routeVars PROVE RouteInv'
  OBVIOUS
<1>1. ASSUME NEW q \in Requests, NEW m \in RoutedMarkets, NEW route \in Routes, ReadRoutes(q, m, route)
      PROVE  RouteInv'
  <2>1. \A p \in Requests : routeEdit[p] = NoRouteEdit
    BY <1>1, LockIsFree DEF ReadRoutes
  <2>2. [key |-> m, route |-> route, copy |-> routes] \in RouteEdits
    BY DEF RouteInv, RouteEdits
  <2>3. routeEdit' = [routeEdit EXCEPT ![q] = [key |-> m, route |-> route, copy |-> routes]]
        /\ UNCHANGED <<routes, acceptedRoutes>>
    BY <1>1 DEF ReadRoutes
  <2> QED BY <2>1, <2>2, <2>3 DEF RouteInv
<1>2. ASSUME NEW q \in Requests, UpdateMarketSettlementRoute(q)
      PROVE  RouteInv'
  <2>1. PICK allowed \in BOOLEAN :
        /\ routeEdit[q] # NoRouteEdit
        /\ routes' = IF allowed THEN [routeEdit[q].copy EXCEPT ![routeEdit[q].key] = routeEdit[q].route]
                     ELSE routes
        /\ acceptedRoutes' =
              IF allowed THEN [acceptedRoutes EXCEPT ![routeEdit[q].key] = routeEdit[q].route]
              ELSE acceptedRoutes
        /\ routeEdit' = [routeEdit EXCEPT ![q] = NoRouteEdit]
    BY <1>2 DEF UpdateMarketSettlementRoute
  <2>2. routeEdit[q].copy = routes /\ routeEdit[q].route \in Routes
    BY <2>1 DEF RouteInv, RouteEdits
  <2>3. routes' = acceptedRoutes' /\ routes' \in [RoutedMarkets -> Routes]
    BY <2>1, <2>2 DEF RouteInv
  <2>4. \A p \in Requests : routeEdit'[p] = NoRouteEdit
    BY <2>1 DEF RouteInv
  <2>5. NoRouteEdit \in RouteEdits
    BY DEF NoRouteEdit, NoRoute, RouteEdits, Routes
  <2>6. routeEdit' \in [Requests -> RouteEdits]
    BY <2>1, <2>5 DEF RouteInv
  <2> QED BY <2>3, <2>4, <2>6 DEF RouteInv
<1>3. CASE \E q \in Requests :
              \/ \E r \in Rails, truth \in RailTruths : ReadRails(q, r, truth)
              \/ UpdatePaymentRailProof(q)
  BY <1>3 DEF RouteInv, ReadRails, UpdatePaymentRailProof
<1>4. CASE \E m \in RoutedMarkets : PayoutTruthChanges(m)
  BY <1>4 DEF RouteInv, PayoutTruthChanges
<1>5. CASE UNCHANGED routeVars
  BY <1>5 DEF RouteInv, routeVars
<1> QED BY <1>1, <1>2, <1>3, <1>4, <1>5 DEF RoutesNext

(* Whatever the number of requests, rails and markets: no edit takes back  *)
(* what another was told is stored (payment_rails.py:300,                  *)
(* settlement_routes.py:155).                                              *)
THEOREM ProofsKept == RoutesSpec => []ProofsAreKept
<1>1. RailInv /\ RouteInv => ProofsAreKept
  BY DEF RailInv, RouteInv, ProofsAreKept
<1> QED BY <1>1, CataloguesBegin, RailsKept, RoutesKept, PTL DEF RoutesSpec

-----------------------------------------------------------------------------
(* Completions of the sandbox proxy.  A thread that is about to post holds *)
(* a reservation of its own that nothing was posted for.                   *)

ProxyHandler == [key : Prompts \cup {NoPrompt}, step : Serving]
InFlight(h) == handler[h].step \in {"post", "record"}

ProxyTypes ==
    /\ call \in [Prompts -> CallStatuses]
    /\ handler \in [Handlers -> ProxyHandler]
    /\ postings \in [Prompts -> Nat]
    /\ \A h \in Handlers : handler[h].step # "idle" => handler[h].key \in Prompts

ProxyInv ==
    /\ ProxyTypes
    /\ \A h \in Handlers :
          /\ InFlight(h) => call[handler[h].key] = "RESERVED"
          /\ handler[h].step = "post" => postings[handler[h].key] = 0
    /\ \A g, h \in Handlers : InFlight(g) /\ InFlight(h) /\ handler[g].key = handler[h].key => g = h
    /\ CompletionPaidOnce

LEMMA ProxyBegins == ProxyInit => ProxyInv
<1> SUFFICES ASSUME ProxyInit PROVE ProxyInv
  OBVIOUS
<1>1. Waiting \in ProxyHandler /\ Waiting.step = "idle"
  BY DEF Waiting, ProxyHandler, Serving
<1> QED BY <1>1 DEF ProxyInit, ProxyInv, ProxyTypes, CompletionPaidOnce, CallStatuses, InFlight

(* A thread that answers its agent leaves the rest as it was.              *)
LEMMA ReplyFrees ==
    ASSUME ProxyTypes, NEW h \in Handlers, NEW keys, Reply(h, keys)
    PROVE  /\ handler' \in [Handlers -> ProxyHandler]
           /\ handler'[h].step = "idle"
           /\ \A g \in Handlers \ {h} : handler'[g] = handler[g]
BY DEF ProxyTypes, Reply, Waiting, ProxyHandler, Serving

LEMMA ProxyKept == ProxyInv /\ [ProxyNext]_proxyVars => ProxyInv'
<1> SUFFICES ASSUME ProxyInv, [ProxyNext]_proxyVars PROVE ProxyInv'
  OBVIOUS
<1> USE DEF ProxyInv, ProxyTypes
<1>1. ASSUME NEW h \in Handlers, NEW q \in Prompts, ReserveCompletion(h, q)
      PROVE  ProxyInv'
  <2>1. CASE /\ MayPost(q)
             /\ call' = [call EXCEPT ![q] = "RESERVED"]
             /\ handler' = [handler EXCEPT ![h] = [key |-> q, step |-> "post"]]
             /\ UNCHANGED <<postings, replied>>
    <3>1. call[q] = "NONE" /\ postings[q] = 0
      BY <2>1 DEF MayPost, CompletionPaidOnce
    <3>2. \A g \in Handlers : InFlight(g) => handler[g].key # q
      BY <3>1
    <3>3. handler'[h] = [key |-> q, step |-> "post"] /\ \A g \in Handlers \ {h} : handler'[g] = handler[g]
      BY <2>1
    <3>4. ProxyTypes'
      BY <2>1, <3>3 DEF ProxyHandler, Serving, CallStatuses
    <3>5. CompletionPaidOnce'
      BY <2>1, <3>1 DEF CompletionPaidOnce
    <3> QED BY <2>1, <3>1, <3>2, <3>3, <3>4, <3>5 DEF InFlight
  <2>2. CASE Reply(h, {q}) /\ UNCHANGED <<call, postings>>
    BY <2>2, ReplyFrees DEF CompletionPaidOnce, InFlight
  <2> QED BY <1>1, <2>1, <2>2 DEF ReserveCompletion
<1>2. ASSUME NEW h \in Handlers, NEW status \in {"FAILED", "UNKNOWN_REMOTE_STATE", "RESERVED"},
             NEW paid \in 0..1,
             handler[h].step = "post", paid = 1 => status # "FAILED",
             call' = [call EXCEPT ![handler[h].key] = status],
             postings' = [postings EXCEPT ![handler[h].key] = @ + paid], Reply(h, {})
      PROVE  ProxyInv'
  <2>1. handler[h].key \in Prompts /\ postings[handler[h].key] = 0 /\ InFlight(h)
    BY <1>2 DEF InFlight
  <2>2. \A g \in Handlers \ {h} : InFlight(g) => handler[g].key # handler[h].key
    BY <2>1
  <2>3. ProxyTypes'
    BY <1>2, <2>1, ReplyFrees DEF CallStatuses
  <2>4. CompletionPaidOnce'
    BY <1>2, <2>1 DEF CompletionPaidOnce
  <2> QED BY <1>2, <2>1, <2>2, <2>3, <2>4, ReplyFrees DEF InFlight
<1>3. ASSUME NEW h \in Handlers, NotConfigured(h)
      PROVE  ProxyInv'
  <2>1. handler[h].key \in Prompts /\ postings[handler[h].key] = 0 /\ InFlight(h)
    BY <1>3 DEF NotConfigured, InFlight
  <2>2. \A g \in Handlers \ {h} : InFlight(g) => handler[g].key # handler[h].key
    BY <2>1
  <2>3. /\ Reply(h, {}) /\ UNCHANGED postings
        /\ call' = [call EXCEPT ![handler[h].key] = "FAILED"]
    BY <1>3 DEF NotConfigured
  <2>4. ProxyTypes'
    BY <2>1, <2>3, ReplyFrees DEF CallStatuses
  <2>5. CompletionPaidOnce'
    BY <2>1, <2>3 DEF CompletionPaidOnce
  <2> QED BY <2>1, <2>2, <2>3, <2>4, <2>5, ReplyFrees DEF InFlight
<1>4. ASSUME NEW h \in Handlers, PostUpstream(h)
      PROVE  ProxyInv'
  <2>1. handler[h].step = "post" /\ handler[h].key \in Prompts /\ InFlight(h)
    BY <1>4 DEF PostUpstream, InFlight
  <2>2. CASE /\ handler' = [handler EXCEPT ![h].step = "record"]
             /\ postings' = [postings EXCEPT ![handler[h].key] = @ + 1]
             /\ UNCHANGED call
    <3>1. /\ handler'[h].step = "record" /\ handler'[h].key = handler[h].key
          /\ \A g \in Handlers \ {h} : handler'[g] = handler[g]
      BY <2>2 DEF ProxyHandler
    <3>2. handler' \in [Handlers -> ProxyHandler]
      BY <2>2 DEF ProxyHandler, Serving
    <3>3. call[handler[h].key] = "RESERVED" /\ postings[handler[h].key] = 0
      BY <2>1
    <3>4. CompletionPaidOnce'
      BY <2>2, <3>3 DEF CompletionPaidOnce
    <3>5. \A g \in Handlers \ {h} : InFlight(g) => handler[g].key # handler[h].key
      BY <2>1
    <3> QED BY <2>1, <2>2, <3>1, <3>2, <3>3, <3>4, <3>5 DEF InFlight
  <2> QED BY <1>2, <1>4, <2>1, <2>2 DEF PostUpstream
<1>5. ASSUME NEW h \in Handlers, ReconcileAnswer(h)
      PROVE  ProxyInv'
  <2>1. handler[h].key \in Prompts /\ InFlight(h)
    BY <1>5 DEF ReconcileAnswer, InFlight
  <2>2. /\ handler'[h].step = "store" /\ handler'[h].key = handler[h].key
        /\ \A g \in Handlers \ {h} : handler'[g] = handler[g]
    BY <1>5 DEF ReconcileAnswer, ProxyHandler
  <2>3. handler' \in [Handlers -> ProxyHandler]
    BY <1>5 DEF ReconcileAnswer, ProxyHandler, Serving
  <2>4. \A g \in Handlers \ {h} : InFlight(g) => handler[g].key # handler[h].key
    BY <2>1
  <2>5. call' = [call EXCEPT ![handler[h].key] = "COMPLETED"] /\ UNCHANGED postings
    BY <1>5 DEF ReconcileAnswer
  <2>6. CompletionPaidOnce'
    BY <2>1, <2>5 DEF CompletionPaidOnce
  <2>7. ProxyTypes'
    BY <2>1, <2>2, <2>3, <2>5 DEF CallStatuses
  <2> QED BY <2>1, <2>2, <2>4, <2>5, <2>6, <2>7 DEF InFlight
<1>6. ASSUME NEW h \in Handlers, StoreResponse(h)
      PROVE  ProxyInv'
  BY <1>6, ReplyFrees DEF StoreResponse, CompletionPaidOnce, InFlight
<1>7. CASE \E q \in Prompts : AnswerExpires(q)
  BY <1>7 DEF AnswerExpires, CompletionPaidOnce, InFlight
<1>8. CASE ProxyDies
  BY <1>8 DEF ProxyDies, Waiting, ProxyHandler, Serving, CompletionPaidOnce, InFlight
<1>9. CASE UNCHANGED proxyVars
  BY <1>9 DEF proxyVars, CompletionPaidOnce, InFlight
<1> QED BY <1>1, <1>3, <1>4, <1>5, <1>6, <1>7, <1>8, <1>9 DEF ProxyNext

(* Whatever the number of threads, prompts, deaths and repeated requests:  *)
(* a completion is paid for once, and never behind a FAILED row            *)
(* (sandbox_genx_proxy.py:106).                                            *)
THEOREM PaidCompletions == ProxySpec => []CompletionPaidOnce
<1>1. ProxyInv => CompletionPaidOnce
  BY DEF ProxyInv
<1> QED BY <1>1, ProxyBegins, ProxyKept, PTL DEF ProxySpec

-----------------------------------------------------------------------------
(* The switch of a market.  On Dealwork the blocker says whether the proof *)
(* is missing, an armed market has none, and without overlapping writes a  *)
(* copy of the profile is never older than the profile.                    *)

MarketRow == [enabled : BOOLEAN, status : Statuses, payoutReady : BOOLEAN]
ProfileRow == [connection : {"UNVERIFIED", "VERIFIED", "REVOKED"},
               credential : {"NOT_CONFIGURED", "PARTIAL", "CONFIGURED", "VERIFIED"},
               armed : BOOLEAN, proof : BOOLEAN, blocker : BOOLEAN, backoff : BOOLEAN]
SnapshotRow == [proof : BOOLEAN, armed : BOOLEAN, of : {"none", "bootstrap", "submission"}]

SwitchTypes ==
    /\ kind \in Kinds /\ overlaps \in BOOLEAN
    /\ market \in MarketRow /\ profile \in ProfileRow /\ snapshot \in SnapshotRow
    /\ tester \in [Testers -> {"idle", "passed", "failed", "rejected"}]
    /\ trusted \in BOOLEAN

ProofAgrees ==
    kind = "dealwork" /\ ~overlaps =>
        /\ (profile.blocker <=> ~profile.proof)
        /\ profile.armed => ~profile.blocker
        /\ snapshot # NoSnapshot => snapshot.proof = profile.proof

SwitchInv == SwitchTypes /\ (market.enabled => trusted) /\ ProofAgrees

LEMMA SwitchBegins == IntegrationInit => SwitchInv
<1> SUFFICES ASSUME IntegrationInit PROVE SwitchInv
  OBVIOUS
<1>1. market \in MarketRow
  BY DEF IntegrationInit, MarketRow, Statuses
<1>2. profile \in ProfileRow
  BY DEF IntegrationInit, ProfileRow
<1>3. snapshot \in SnapshotRow
  BY DEF IntegrationInit, SnapshotRow, NoSnapshot
<1>4. SwitchTypes
  BY <1>1, <1>2, <1>3 DEF IntegrationInit, SwitchTypes
<1>5. (market.enabled => trusted) /\ ProofAgrees
  BY DEF IntegrationInit, ProofAgrees
<1> QED BY <1>4, <1>5 DEF SwitchInv

(* What the invariant needs of a step that leaves the market's kind and the*)
(* snapshot alone: its rows keep their types, the switch is opened by the  *)
(* owner only, and proof, blocker and arming still agree.                  *)
LEMMA SwitchStep ==
    ASSUME SwitchInv, UNCHANGED <<kind, overlaps, snapshot>>,
           tester' \in [Testers -> {"idle", "passed", "failed", "rejected"}],
           market' \in MarketRow, profile' \in ProfileRow, trusted' \in BOOLEAN,
           market'.enabled => trusted',
           profile'.proof = profile.proof, profile'.blocker = profile.blocker,
           profile'.armed => profile.armed \/ ~profile.blocker
    PROVE  SwitchInv'
BY DEF SwitchInv, SwitchTypes, ProofAgrees

LEMMA SwitchKept == SwitchInv /\ [IntegrationNext]_integrationVars => SwitchInv'
<1> SUFFICES ASSUME SwitchInv, [IntegrationNext]_integrationVars PROVE SwitchInv'
  OBVIOUS
<1>0. /\ market \in MarketRow /\ profile \in ProfileRow /\ snapshot \in SnapshotRow
      /\ tester \in [Testers -> {"idle", "passed", "failed", "rejected"}]
      /\ trusted \in BOOLEAN /\ (market.enabled => trusted)
  BY DEF SwitchInv, SwitchTypes
<1>a. ASSUME NEW enabled \in BOOLEAN, NEW ready \in BOOLEAN
      PROVE  LET new == [market EXCEPT !.enabled = enabled, !.payoutReady = ready]
             IN  new \in MarketRow /\ new.enabled = enabled
  BY <1>0 DEF MarketRow
<1>b. Shut => market' \in MarketRow /\ ~market'.enabled /\ trusted' = FALSE
  BY <1>0, <1>a DEF Shut, MarketRow
<1>1. ASSUME NEW complete \in BOOLEAN, StoreCredentials(complete)
      PROVE  SwitchInv'
  <2>1. profile' = [profile EXCEPT !.credential = IF complete THEN "CONFIGURED" ELSE "PARTIAL",
                                   !.connection = "UNVERIFIED", !.backoff = FALSE]
        /\ Shut /\ UNCHANGED <<kind, overlaps, tester, snapshot>>
    BY <1>1 DEF StoreCredentials
  <2>2. /\ profile' \in ProfileRow /\ profile'.proof = profile.proof
        /\ profile'.blocker = profile.blocker /\ profile'.armed = profile.armed
    BY <1>0, <2>1 DEF ProfileRow
  <2> QED BY <1>0, <1>b, <2>1, <2>2, SwitchStep
<1>2. CASE RevokeCredentials
  <2>1. /\ profile' = [profile EXCEPT !.credential = "NOT_CONFIGURED", !.connection = "REVOKED",
                                      !.armed = FALSE, !.backoff = TRUE]
        /\ market' = [enabled |-> FALSE, status |-> "AUTH_EXPIRED", payoutReady |-> FALSE]
        /\ trusted' = FALSE /\ UNCHANGED <<kind, overlaps, tester, snapshot>>
    BY <1>2 DEF RevokeCredentials
  <2>2. /\ profile' \in ProfileRow /\ profile'.proof = profile.proof
        /\ profile'.blocker = profile.blocker /\ profile'.armed = FALSE
    BY <1>0, <2>1 DEF ProfileRow
  <2>3. market' \in MarketRow /\ ~market'.enabled
    BY <2>1 DEF MarketRow, Statuses
  <2> QED BY <1>0, <2>1, <2>2, <2>3, SwitchStep
<1>3. CASE VerifyPayout
  <2>1. market' = [market EXCEPT !.payoutReady = TRUE]
        /\ UNCHANGED <<kind, overlaps, profile, tester, snapshot, trusted>>
    BY <1>3 DEF VerifyPayout
  <2>2. market' \in MarketRow /\ market'.enabled = market.enabled
    BY <1>0, <2>1 DEF MarketRow
  <2> QED BY <1>0, <2>1, <2>2, SwitchStep
<1>4. CASE BootstrapMarket
  <2>1. snapshot.proof \in BOOLEAN /\ snapshot.armed \in BOOLEAN /\ snapshot # NoSnapshot
    BY <1>0, <1>4 DEF BootstrapMarket, NoSnapshot, SnapshotRow
  <2>2. /\ profile' = [profile EXCEPT !.proof = snapshot.proof,
                                      !.blocker = kind = "dealwork" /\ ~snapshot.proof,
                                      !.armed = snapshot.armed /\ ~(kind = "dealwork" /\ ~snapshot.proof)]
        /\ snapshot' = NoSnapshot
        /\ UNCHANGED <<kind, overlaps, market, tester, trusted>>
    BY <1>0, <1>4 DEF BootstrapMarket, OverlayTruth, ProfileRow
  <2>3. profile' \in ProfileRow /\ profile'.proof = snapshot.proof
        /\ profile'.blocker = (kind = "dealwork" /\ ~snapshot.proof)
        /\ (profile'.armed => ~profile'.blocker)
    BY <1>0, <2>1, <2>2 DEF ProfileRow
  <2>4. snapshot' \in SnapshotRow
    BY <2>2 DEF NoSnapshot, SnapshotRow
  <2> QED BY <2>1, <2>2, <2>3, <2>4 DEF SwitchInv, SwitchTypes, ProofAgrees
<1>5. CASE SubmitProof
  <2>1. snapshot # NoSnapshot /\ snapshot.proof \in BOOLEAN
    BY <1>0, <1>5 DEF SubmitProof, NoSnapshot, SnapshotRow
  <2>2. /\ profile' = [profile EXCEPT !.proof = snapshot.proof] /\ snapshot' = NoSnapshot
        /\ UNCHANGED <<kind, overlaps, market, tester, trusted>>
    BY <1>5 DEF SubmitProof
  <2>3. /\ profile' \in ProfileRow /\ profile'.proof = snapshot.proof
        /\ profile'.blocker = profile.blocker /\ profile'.armed = profile.armed
    BY <1>0, <2>1, <2>2 DEF ProfileRow
  <2>4. snapshot' \in SnapshotRow
    BY <2>2 DEF NoSnapshot, SnapshotRow
  <2> QED BY <2>1, <2>2, <2>3, <2>4 DEF SwitchInv, SwitchTypes, ProofAgrees
<1>6. ASSUME NEW t \in Testers, TestConnection(t)
      PROVE  SwitchInv'
  <2>1. tester' \in [Testers -> {"idle", "passed", "failed", "rejected"}]
    BY <1>0, <1>6 DEF TestConnection
  <2> QED BY <1>0, <1>6, <2>1, SwitchStep DEF TestConnection
<1>7. ASSUME NEW t \in Testers, PersistConnectionResult(t)
      PROVE  SwitchInv'
  <2>1. /\ tester' = [tester EXCEPT ![t] = "idle"] /\ UNCHANGED <<kind, overlaps, snapshot>>
        /\ tester' \in [Testers -> {"idle", "passed", "failed", "rejected"}]
    BY <1>0, <1>7 DEF PersistConnectionResult
  <2>2. CASE tester[t] = "passed"
    <3>1. /\ profile' = [profile EXCEPT !.connection = "VERIFIED", !.credential = "VERIFIED",
                                        !.backoff = FALSE]
          /\ UNCHANGED <<market, trusted>>
      BY <1>7, <2>2 DEF PersistConnectionResult
    <3>2. /\ profile' \in ProfileRow /\ profile'.proof = profile.proof
          /\ profile'.blocker = profile.blocker /\ profile'.armed = profile.armed
      BY <1>0, <3>1 DEF ProfileRow
    <3> QED BY <1>0, <2>1, <3>1, <3>2, SwitchStep
  <2>3. CASE tester[t] # "passed"
    <3> DEFINE backoff == tester[t] = "rejected"
    <3>1. Disarm([profile EXCEPT !.connection = "UNVERIFIED", !.backoff = backoff])
          /\ backoff \in BOOLEAN
      BY <1>7, <2>3 DEF PersistConnectionResult
    <3> HIDE DEF backoff
    <3>2. Shut /\ profile' = [[profile EXCEPT !.connection = "UNVERIFIED", !.backoff = backoff]
                              EXCEPT !.armed = FALSE]
      BY <3>1 DEF Disarm
    <3>3. /\ profile' \in ProfileRow /\ profile'.proof = profile.proof
          /\ profile'.blocker = profile.blocker /\ profile'.armed = FALSE
      BY <1>0, <3>1, <3>2 DEF ProfileRow
    <3> QED BY <1>0, <1>b, <2>1, <3>2, <3>3, SwitchStep
  <2> QED BY <2>2, <2>3
<1>8. ASSUME NEW outcome \in {"done", "rejected", "failed"}, ReconcileIntegration(outcome)
      PROVE  SwitchInv'
  <2>1. UNCHANGED <<kind, overlaps, tester, snapshot>>
    BY <1>8 DEF ReconcileIntegration
  <2>2. CASE outcome = "rejected"
    <3>1. Shut /\ profile' = [[profile EXCEPT !.connection = "UNVERIFIED", !.backoff = TRUE]
                              EXCEPT !.armed = FALSE]
      BY <1>8, <2>2 DEF ReconcileIntegration, Disarm
    <3>2. /\ profile' \in ProfileRow /\ profile'.proof = profile.proof
          /\ profile'.blocker = profile.blocker /\ profile'.armed = FALSE
      BY <1>0, <3>1 DEF ProfileRow
    <3> QED BY <1>0, <1>b, <2>1, <3>1, <3>2, SwitchStep
  <2>3. CASE outcome # "rejected"
    <3>1. UNCHANGED <<market, profile, trusted>>
      BY <1>8, <2>3 DEF ReconcileIntegration
    <3> QED BY <1>0, <2>1, <3>1, SwitchStep
  <2> QED BY <2>2, <2>3
<1>9. ASSUME NEW of \in {"bootstrap", "submission"}, ReadProfile(of)
      PROVE  SwitchInv'
  <2>1. /\ snapshot' = [proof |-> profile.proof, armed |-> profile.armed /\ Live, of |-> of]
        /\ UNCHANGED <<kind, overlaps, market, profile, tester, trusted>>
    BY <1>9 DEF ReadProfile
  <2>2. profile.proof \in BOOLEAN /\ (profile.armed /\ Live) \in BOOLEAN
    BY <1>0 DEF ProfileRow
  <2>3. snapshot' \in SnapshotRow /\ snapshot'.proof = profile.proof
    BY <2>1, <2>2 DEF SnapshotRow
  <2> QED BY <2>1, <2>3 DEF SwitchInv, SwitchTypes, ProofAgrees
<1>10. ASSUME NEW ok \in BOOLEAN, SyncMarketHealth(ok)
       PROVE  SwitchInv'
  BY <1>10 DEF SyncMarketHealth, SwitchInv, SwitchTypes, ProofAgrees
<1>11. ASSUME NEW verified \in BOOLEAN, UpdateComplianceProof(verified)
       PROVE  SwitchInv'
  <2>1. /\ kind = "dealwork" /\ Undisturbed /\ UNCHANGED <<kind, overlaps, tester, snapshot>>
        /\ profile' = [profile EXCEPT !.proof = verified, !.blocker = ~verified,
                                      !.armed = @ /\ verified]
    BY <1>11 DEF UpdateComplianceProof
  <2>2. /\ profile' \in ProfileRow /\ profile'.proof = verified /\ profile'.blocker = ~verified
        /\ profile'.armed => verified
    BY <1>0, <2>1 DEF ProfileRow
  <2>3. market' \in MarketRow /\ trusted' \in BOOLEAN /\ (market'.enabled => trusted')
    <3>1. CASE verified
      BY <1>0, <1>11, <3>1 DEF UpdateComplianceProof
    <3>2. CASE ~verified
      <4>1. /\ market' = [market EXCEPT !.enabled = FALSE,
                                        !.status = IF market.status = "LIVE" THEN "WATCH_ONLY"
                                                   ELSE market.status]
            /\ trusted' = FALSE
        BY <1>0, <1>11, <3>2 DEF UpdateComplianceProof, WithdrawProof
      <4> QED BY <1>0, <4>1 DEF MarketRow, Statuses
    <3> QED BY <3>1, <3>2
  <2> QED BY <2>1, <2>2, <2>3 DEF SwitchInv, SwitchTypes, ProofAgrees, Undisturbed
<1>12. ASSUME NEW enabled \in BOOLEAN, NEW arm \in BOOLEAN, NEW policy \in BOOLEAN,
              UpdateOperatingState(enabled, arm, policy)
       PROVE  SwitchInv'
  <2>1. /\ enabled => ~profile.blocker
        /\ market' = [market EXCEPT !.enabled = enabled,
                                    !.status = IF enabled THEN "LIVE" ELSE "WATCH_ONLY"]
        /\ profile' = [profile EXCEPT !.armed = enabled /\ arm]
        /\ trusted' = enabled /\ UNCHANGED <<kind, overlaps, tester, snapshot>>
    BY <1>12 DEF UpdateOperatingState, LiveEntryReady
  <2>2. market' \in MarketRow /\ market'.enabled = enabled
    BY <1>0, <2>1 DEF MarketRow, Statuses
  <2>3. /\ profile' \in ProfileRow /\ profile'.proof = profile.proof
        /\ profile'.blocker = profile.blocker /\ profile'.armed = (enabled /\ arm)
    BY <1>0, <2>1 DEF ProfileRow
  <2> QED BY <1>0, <2>1, <2>2, <2>3, SwitchStep
<1>13. CASE UNCHANGED integrationVars
  BY <1>13 DEF integrationVars, SwitchInv, SwitchTypes, ProofAgrees
<1> QED BY <1>1, <1>2, <1>3, <1>4, <1>5, <1>6, <1>7, <1>8, <1>9, <1>10, <1>11, <1>12, <1>13
        DEF IntegrationNext

(* Whatever the number of connection tests and secrets: a market acquires  *)
(* work by itself only after the owner enabled it, later than any reason to*)
(* shut it, and on a Dealwork proof that stands (market_control.py,        *)
(* integration_connections.py:183).                                        *)
THEOREM OwnerArms == IntegrationSpec => []ArmedByOwner
<1>1. SwitchInv => ArmedByOwner
  BY DEF SwitchInv, SwitchTypes, ProofAgrees, ArmedByOwner, Live
<1> QED BY <1>1, SwitchBegins, SwitchKept, PTL DEF IntegrationSpec

-----------------------------------------------------------------------------
(* The price of a listing.  A sync that may write it began before anything *)
(* was published, and nothing is published while it runs, unless writes may*)
(* overlap.                                                                *)

IsPricing(p) == p = [source |-> p.source, price |-> p.price]

ChannelInv ==
    /\ concurrent \in BOOLEAN
    /\ listing = [status |-> listing.status, remote |-> listing.remote, price |-> listing.price,
                  manifest |-> listing.manifest, pricing |-> listing.pricing]
    /\ IsPricing(listing.pricing) /\ IsPricing(syncing.pricing)
    /\ published > 0 /\ syncing.reads /\ syncing.safe => concurrent
    /\ PublishedPriceIsKept

LEMMA ChannelBegins == ChannelInit => ChannelInv
BY DEF ChannelInit, ChannelInv, PublishedPriceIsKept, IsPricing, Unpriced, NoSync

LEMMA ChannelKept == ChannelInv /\ [ChannelNext]_channelVars => ChannelInv'
<1> SUFFICES ASSUME ChannelInv, [ChannelNext]_channelVars PROVE ChannelInv'
  OBVIOUS
<1> USE DEF ChannelInv, PublishedPriceIsKept, IsPricing
<1>1. ASSUME \/ \E found \in Evidenced : RefreshServiceOfferingProof(found)
             \/ \E on \in BOOLEAN : ActivateOffering(on) \/ OpenMarket(on)
             \/ ReapplyOnboarding
             \/ \E c \in [contract : BOOLEAN, identity : BOOLEAN] : UpdateOnboarding(c)
             \/ UNCHANGED channelVars
      PROVE  ChannelInv'
  <2>1. UNCHANGED <<concurrent, listing, syncing, published>>
    BY <1>1 DEF RefreshServiceOfferingProof, ActivateOffering, OpenMarket, ReapplyOnboarding,
                UpdateOnboarding, channelVars
  <2> QED BY <2>1
<1>2. ASSUME NEW floor \in Floors, SyncOffering(floor)
      PROVE  ChannelInv'
  BY <1>2 DEF SyncOffering
<1>3. CASE SyncListing
  BY <1>3 DEF SyncListing, NoSync, Unpriced
<1>4. CASE BootstrapPricing
  BY <1>4 DEF BootstrapPricing, SafeToRefresh
<1>5. ASSUME NEW price \in ListPrices, SetOwnerPrice(price)
      PROVE  ChannelInv'
  BY <1>5 DEF SetOwnerPrice, SafeToRefresh
<1>6. ASSUME NEW runs \in BOOLEAN, RefreshListingTruth(runs)
      PROVE  ChannelInv'
  BY <1>6 DEF RefreshListingTruth
<1>7. CASE PauseServiceListing
  BY <1>7 DEF PauseServiceListing
<1>8. CASE RecordListingPublication
  BY <1>8 DEF RecordListingPublication
<1>9. ASSUME NEW runs \in BOOLEAN, RecordManualPublication(runs)
      PROVE  ChannelInv'
  BY <1>9 DEF RecordManualPublication, ListingFree, MayPublish
<1> QED BY <1>1, <1>2, <1>3, <1>4, <1>5, <1>6, <1>7, <1>8, <1>9 DEF ChannelNext

(* For any prices and floors: what was published by hand stays on record at*)
(* its price (channel_commercial.py:135, channel_publication.py).          *)
THEOREM PublishedPrice == ChannelSpec => []PublishedPriceIsKept
<1>1. ChannelInv => PublishedPriceIsKept
  BY DEF ChannelInv
<1> QED BY <1>1, ChannelBegins, ChannelKept, PTL DEF ChannelSpec

-----------------------------------------------------------------------------
(* The quality gate.  An evaluation that is ready speaks of the attempt as *)
(* it is: where its contract asks for a judgement, the attempt was judged, *)
(* accepted and not taken up again.  Nobody but its maker touches an       *)
(* attempt that is being written.                                          *)

AttemptRows ==
    [status : AttemptStatuses, passed : BOOLEAN, judged : {"NONE", "PASS", "FAIL"},
     accepted : BOOLEAN, evaluation : [version : Nat, ready : BOOLEAN]]
MakerRows == [at : Nat, step : {"idle", "found", "working", "persisted", "evaluated"}, ready : BOOLEAN]

GateTypes ==
    /\ source \in Sources
    /\ contracts \in Seq(Sources) /\ contracts # <<>>
    /\ attempts \in Seq(AttemptRows)
    /\ maker \in [Makers -> MakerRows]

SoundRow(a, rows) ==
    /\ a.evaluation.version <= Len(rows)
    /\ a.status = "QA_PASSED" => a.passed
    /\ a.status = "QA_PASSED" /\ a.judged = "PASS" => a.accepted
    /\ a.evaluation.ready =>
          /\ a.evaluation.version > 0
          /\ CriteriaOf[rows[a.evaluation.version]] # {} =>
                a.judged = "PASS" /\ a.accepted /\ a.status = "QA_PASSED"

MakerOf(a, step, ready) ==
    /\ step = "found" => ~(a.accepted /\ a.status = "QA_PASSED")
    /\ step = "working" => a.status = "EXECUTING"
    /\ step \in {"persisted", "evaluated"} => a.judged = "NONE"
    /\ step = "evaluated" /\ ready => a.passed

MakersOK ==
    /\ \A m \in Makers :
          /\ maker[m].at <= Len(attempts)
          /\ maker[m].at = 0 <=> maker[m].step = "idle"
          /\ maker[m].at > 0 => MakerOf(attempts[maker[m].at], maker[m].step, maker[m].ready)
    /\ maker["worker"].at = maker["recovery"].at => maker["worker"].at = 0

GateInv == GateTypes /\ (\A n \in 1..Len(attempts) : SoundRow(attempts[n], contracts)) /\ MakersOK

LEMMA GateBegins == GateInit => GateInv
<1> SUFFICES ASSUME GateInit PROVE GateInv
  OBVIOUS
<1>1. GateTypes
  BY DEF GateInit, GateTypes, Nobody, MakerRows
<1>2. Len(attempts) = 0
  BY DEF GateInit
<1>3. MakersOK
  BY <1>2 DEF GateInit, MakersOK, Nobody, Makers
<1> QED BY <1>1, <1>2, <1>3 DEF GateInv

(* The largest of a bounded set of numbers is in the set.                  *)
LEMMA LatestIsThere ==
    ASSUME NEW S, NEW k \in Nat, S \subseteq 0..k, S # {}
    PROVE  LatestOf(S) \in S
<1> DEFINE distances == {k - n : n \in S}
<1>0. PICK first \in S : TRUE
  OBVIOUS
<1>1. distances \subseteq Nat /\ distances # {}
  <2>1. \A n \in S : k - n \in Nat
    OBVIOUS
  <2> QED BY <1>0, <2>1
<1>2. PICK d \in distances : \A e \in distances : ~(<<e, d>> \in OpToRel(<, Nat))
  <2> HIDE DEF distances
  <2> QED BY <1>1, NatLessThanWellFounded, WFMin, Zenon
<1>3. \A e \in distances : ~(e < d)
  BY <1>1, <1>2 DEF OpToRel
<1>4. PICK n \in S : d = k - n
  OBVIOUS
<1>5. ASSUME NEW m \in S
      PROVE  m <= n
  <2>1. ~(k - m < k - n)
    BY <1>3, <1>4
  <2> QED BY <2>1
<1> QED BY <1>5 DEF LatestOf

(* Compiling the contract anew keeps what is known of the old versions.    *)
LEMMA CompiledKeeps ==
    ASSUME GateTypes
    PROVE  /\ Compiled \in Seq(Sources) /\ Compiled # <<>>
           /\ Len(contracts) <= Len(Compiled) /\ Len(contracts) > 0
           /\ \A v \in 1..Len(contracts) : Compiled[v] = contracts[v]
<1>1. contracts \in Seq(Sources) /\ contracts # <<>> /\ source \in Sources
  BY DEF GateTypes
<1>2. /\ Append(contracts, source) \in Seq(Sources)
      /\ Len(Append(contracts, source)) = Len(contracts) + 1
      /\ \A v \in 1..Len(contracts) : Append(contracts, source)[v] = contracts[v]
  BY <1>1
<1>3. Len(contracts) \in Nat /\ Len(contracts) > 0
  BY <1>1
<1> QED BY <1>1, <1>2, <1>3 DEF Compiled

LEMMA SoundUnderCompiled ==
    ASSUME GateTypes, NEW a \in AttemptRows, SoundRow(a, contracts)
    PROVE  SoundRow(a, Compiled)
<1>1. a.evaluation.version \in Nat /\ a.evaluation.version <= Len(contracts)
  BY DEF AttemptRows, SoundRow
<1>2. Len(contracts) \in Nat /\ Len(Compiled) \in Nat
  BY CompiledKeeps DEF GateTypes
<1>3. a.evaluation.version > 0 => Compiled[a.evaluation.version] = contracts[a.evaluation.version]
  BY <1>1, <1>2, CompiledKeeps
<1> QED BY <1>1, <1>2, <1>3, CompiledKeeps DEF SoundRow

(* An evaluation under the last contract is sound where a judgement that   *)
(* says yes belongs to an accepted attempt.                                *)
LEMMA EvaluatedIsSound ==
    ASSUME NEW rows \in Seq(Sources), rows # <<>>, NEW a \in AttemptRows,
           a.status = "QA_PASSED" => a.passed,
           a.status = "QA_PASSED" /\ a.judged = "PASS" => a.accepted,
           a.passed /\ a.judged = "PASS" => a.status = "QA_PASSED"
    PROVE  /\ Evaluated(a, rows) \in AttemptRows
           /\ SoundRow(Evaluated(a, rows), rows)
           /\ Evaluated(a, rows).evaluation = [version |-> Len(rows), ready |-> Ready(a, rows)]
           /\ Ready(a, rows) => a.passed
           /\ Evaluated(a, rows).status = a.status /\ Evaluated(a, rows).judged = a.judged
           /\ Evaluated(a, rows).passed = a.passed /\ Evaluated(a, rows).accepted = a.accepted
<1>1. Len(rows) \in Nat /\ Len(rows) > 0
  OBVIOUS
<1>2. Ready(a, rows) \in BOOLEAN /\ (Ready(a, rows) => a.passed)
  BY DEF Ready, AttemptRows
<1>3. Ready(a, rows) /\ CriteriaOf[rows[Len(rows)]] # {} => a.judged = "PASS"
  BY DEF Ready, Current
<1>4. Evaluated(a, rows) = [a EXCEPT !.evaluation = [version |-> Len(rows), ready |-> Ready(a, rows)]]
  BY DEF Evaluated
<1>5. /\ Evaluated(a, rows) \in AttemptRows
      /\ Evaluated(a, rows).evaluation = [version |-> Len(rows), ready |-> Ready(a, rows)]
      /\ Evaluated(a, rows).status = a.status /\ Evaluated(a, rows).judged = a.judged
      /\ Evaluated(a, rows).passed = a.passed /\ Evaluated(a, rows).accepted = a.accepted
  BY <1>1, <1>2, <1>4 DEF AttemptRows
<1>6. SoundRow(Evaluated(a, rows), rows)
  BY <1>1, <1>2, <1>3, <1>5 DEF SoundRow
<1> QED BY <1>2, <1>5, <1>6

(* What the gate does with an attempt it looks at.                         *)
LEMMA GateLooks ==
    ASSUME GateInv, CheckGate
    PROVE  \/ /\ UNCHANGED <<attempts, checked, source, maker>>
              /\ contracts' \in {contracts, Compiled}
           \/ \E n \in 1..Len(attempts), entry \in AttemptRows :
                 /\ attempts' = [attempts EXCEPT ![n] = entry]
                 /\ SoundRow(entry, contracts) /\ entry.passed
                 /\ entry.evaluation.version = Len(contracts)
                 /\ entry.status = attempts[n].status /\ entry.judged = attempts[n].judged
                 /\ entry.passed = attempts[n].passed /\ entry.accepted = attempts[n].accepted
                 /\ checked' = checked \/ (entry.evaluation.ready /\ ContractHolds
                                          /\ checked' = [attempt |-> n, version |-> Len(contracts)])
                 /\ UNCHANGED <<contracts, source, maker>>
<1> DEFINE n == LatestOf(Passed)
           fresh == IF attempts[n].evaluation.version = Len(contracts) THEN attempts[n]
                    ELSE Evaluated(attempts[n], contracts)
<1>1. CASE jobState = "SUBMITTED" \/ jobState # "EXECUTING" \/ Passed = {} \/ ~ContractHolds
  BY <1>1 DEF CheckGate, Refuse
<1>2. CASE jobState = "EXECUTING" /\ Passed # {} /\ ContractHolds
  <2>1. /\ attempts' = [attempts EXCEPT ![n] = fresh]
        /\ checked' = IF fresh.evaluation.ready THEN [attempt |-> n, version |-> Len(contracts)]
                      ELSE checked
        /\ UNCHANGED <<contracts, source, maker>>
    BY <1>2 DEF CheckGate, Refuse
  <2>2. /\ attempts \in Seq(AttemptRows) /\ contracts \in Seq(Sources) /\ contracts # <<>>
        /\ \A k \in 1..Len(attempts) : attempts[k] \in AttemptRows /\ SoundRow(attempts[k], contracts)
    BY DEF GateInv, GateTypes
  <2>3. Len(attempts) \in Nat /\ Passed \subseteq 0..Len(attempts)
    BY <2>2 DEF Passed
  <2>4. n \in Passed
    BY <1>2, <2>3, LatestIsThere
  <2>5. n \in 1..Len(attempts) /\ attempts[n].status = "QA_PASSED"
    BY <2>2, <2>4 DEF Passed
  <2> HIDE DEF n
  <2>6. attempts[n] \in AttemptRows /\ SoundRow(attempts[n], contracts) /\ attempts[n].passed
    BY <2>2, <2>5 DEF SoundRow
  <2>7. /\ fresh \in AttemptRows /\ SoundRow(fresh, contracts)
        /\ fresh.evaluation.version = Len(contracts)
        /\ fresh.status = attempts[n].status /\ fresh.judged = attempts[n].judged
        /\ fresh.passed = attempts[n].passed /\ fresh.accepted = attempts[n].accepted
    <3>1. CASE attempts[n].evaluation.version = Len(contracts)
      BY <2>6, <3>1
    <3>2. CASE attempts[n].evaluation.version # Len(contracts)
      <4>1. fresh = Evaluated(attempts[n], contracts)
        BY <3>2
      <4>2. attempts[n].judged = "PASS" => attempts[n].accepted
        BY <2>5, <2>6 DEF SoundRow
      <4>3. /\ fresh \in AttemptRows /\ SoundRow(fresh, contracts)
            /\ fresh.evaluation = [version |-> Len(contracts), ready |-> Ready(attempts[n], contracts)]
            /\ fresh.status = attempts[n].status /\ fresh.judged = attempts[n].judged
            /\ fresh.passed = attempts[n].passed /\ fresh.accepted = attempts[n].accepted
        <5> HIDE DEF fresh
        <5> QED BY <2>2, <2>5, <2>6, <4>1, <4>2, EvaluatedIsSound
      <4> HIDE DEF fresh
      <4> QED BY <4>3
    <3> QED BY <3>1, <3>2
  <2> HIDE DEF fresh
  <2>8. checked' = checked \/ (fresh.evaluation.ready
                              /\ checked' = [attempt |-> n, version |-> Len(contracts)])
    BY <2>1
  <2>9. fresh.passed
    BY <2>6, <2>7
  <2>10. /\ attempts' = [attempts EXCEPT ![n] = fresh]
         /\ UNCHANGED <<contracts, source, maker>>
    BY <2>1
  <2> QED BY <1>2, <2>5, <2>7, <2>8, <2>9, <2>10
<1> QED BY <1>1, <1>2

LEMMA GateKept == GateInv /\ [GateNext]_gateVars => GateInv'
<1> SUFFICES ASSUME GateInv, [GateNext]_gateVars PROVE GateInv'
  OBVIOUS
<1>a. GateTypes /\ MakersOK /\ \A n \in 1..Len(attempts) : SoundRow(attempts[n], contracts)
  BY DEF GateInv
<1>b. /\ attempts \in Seq(AttemptRows) /\ Len(attempts) \in Nat
      /\ \A n \in 1..Len(attempts) : attempts[n] \in AttemptRows
      /\ maker \in [Makers -> MakerRows] /\ Makers = {"worker", "recovery"}
  BY <1>a DEF GateTypes, Makers
(* What one attempt's row becomes, with its maker.                         *)
<1>c. ASSUME NEW n \in 1..Len(attempts), NEW entry \in AttemptRows,
             attempts' = [attempts EXCEPT ![n] = entry],
             SoundRow(entry, contracts'), contracts' \in {contracts, Compiled},
             maker' \in [Makers -> MakerRows], source' = source,
             \A m \in Makers : maker'[m] = maker[m] \/ maker'[m] = Nobody
                              \/ (maker[m].at = n /\ maker'[m].at = n /\ maker'[m].step # "idle"),
             \A m \in Makers : maker'[m].at = n => MakerOf(entry, maker'[m].step, maker'[m].ready)
      PROVE  GateInv'
  <2>1. attempts' \in Seq(AttemptRows) /\ Len(attempts') = Len(attempts)
        /\ \A k \in 1..Len(attempts) : attempts'[k] = IF k = n THEN entry ELSE attempts[k]
    BY <1>b, <1>c
  <2>2. GateTypes'
    BY <1>a, <1>c, <2>1, CompiledKeeps DEF GateTypes
  <2>3. \A k \in 1..Len(attempts') : SoundRow(attempts'[k], contracts')
    BY <1>a, <1>b, <1>c, <2>1, SoundUnderCompiled
  <2>4. MakersOK'
    <3>1. \A m \in Makers :
            /\ maker'[m].at \in {0, maker[m].at}
            /\ maker'[m].at = 0 <=> maker'[m].step = "idle"
      BY <1>a, <1>b, <1>c DEF MakersOK, Nobody, MakerRows
    <3>2. ASSUME NEW m \in Makers, maker'[m].at > 0
          PROVE  MakerOf(attempts'[maker'[m].at], maker'[m].step, maker'[m].ready)
      <4>1. CASE maker'[m].at = n
        BY <1>c, <2>1, <4>1
      <4>2. CASE maker'[m].at # n
        <5>1. maker'[m] = maker[m] /\ maker[m].at \in 1..Len(attempts)
          BY <1>a, <1>b, <1>c, <3>2, <4>2 DEF MakersOK, Nobody, MakerRows
        <5> QED BY <1>a, <2>1, <3>2, <4>2, <5>1 DEF MakersOK
      <4> QED BY <4>1, <4>2
    <3> QED BY <1>a, <1>b, <2>1, <3>1, <3>2 DEF MakersOK, MakerRows
  <2> QED BY <2>2, <2>3, <2>4 DEF GateInv
(* Steps that leave the attempts alone.                                    *)
<1>d. ASSUME UNCHANGED <<attempts, maker>>, contracts' \in {contracts, Compiled}, source' \in Sources
      PROVE  GateInv'
  <2>1. GateTypes'
    BY <1>a, <1>d, CompiledKeeps DEF GateTypes
  <2>2. \A n \in 1..Len(attempts') : SoundRow(attempts'[n], contracts')
    BY <1>a, <1>b, <1>d, SoundUnderCompiled
  <2>3. MakersOK'
    BY <1>a, <1>d DEF MakersOK
  <2> QED BY <2>1, <2>2, <2>3 DEF GateInv
<1>1. CASE ChangeSource
  BY <1>1, <1>d DEF ChangeSource
<1>2. CASE RefuseStart \/ RetryFailed \/ PostChecked \/ UNCHANGED gateVars
  <2>1. UNCHANGED <<attempts, maker, contracts, source>>
    BY <1>2 DEF RefuseStart, RetryFailed, PostChecked, gateVars
  <2> QED BY <1>a, <1>d, <2>1 DEF GateTypes
(* The row of an attempt that is being made.                               *)
<1>e. ASSUME NEW m \in Makers, maker[m].step # "idle"
      PROVE  /\ maker[m].at \in 1..Len(attempts)
             /\ attempts[maker[m].at] \in AttemptRows
             /\ MakerOf(attempts[maker[m].at], maker[m].step, maker[m].ready)
             /\ \A k \in Makers : maker[k].at = maker[m].at => k = m
  BY <1>a, <1>b, <1>e DEF MakersOK, MakerRows
<1>3. CASE StartAttempt
  <2> DEFINE new == [status |-> "EXECUTING", passed |-> FALSE, judged |-> "NONE",
                     accepted |-> FALSE, evaluation |-> NotEvaluated]
  <2>1. /\ attempts' = Append(attempts, new) /\ contracts' = Compiled /\ source' = source
        /\ maker["worker"] = Nobody
        /\ maker' = [maker EXCEPT !["worker"] =
                        [at |-> Len(attempts'), step |-> "working", ready |-> FALSE]]
    BY <1>3 DEF StartAttempt
  <2>2. new \in AttemptRows
    BY DEF AttemptRows, AttemptStatuses, NotEvaluated
  <2>3. SoundRow(new, Compiled) /\ MakerOf(new, "working", FALSE)
    BY CompiledKeeps, <1>a DEF SoundRow, MakerOf, NotEvaluated, GateTypes
  <2> HIDE DEF new
  <2>4. /\ attempts' \in Seq(AttemptRows) /\ Len(attempts') = Len(attempts) + 1
        /\ attempts'[Len(attempts')] = new
        /\ \A k \in 1..Len(attempts) : attempts'[k] = attempts[k]
    BY <1>b, <2>1, <2>2
  <2>5. GateTypes'
    BY <1>a, <1>b, <2>1, <2>4, CompiledKeeps DEF GateTypes, MakerRows
  <2>6. \A k \in 1..Len(attempts') : SoundRow(attempts'[k], contracts')
    BY <1>a, <1>b, <2>1, <2>3, <2>4, SoundUnderCompiled
  <2>7. /\ maker'["worker"] = [at |-> Len(attempts'), step |-> "working", ready |-> FALSE]
        /\ maker'["recovery"] = maker["recovery"]
    BY <1>b, <2>1
  <2>8. MakersOK'
    <3>1. maker["recovery"].at \in 0..Len(attempts)
      BY <1>a, <1>b DEF MakersOK, MakerRows
    <3>2. maker'["recovery"].at > 0 =>
            MakerOf(attempts'[maker'["recovery"].at], maker'["recovery"].step, maker'["recovery"].ready)
      <4> SUFFICES ASSUME maker'["recovery"].at > 0
                   PROVE  MakerOf(attempts'[maker'["recovery"].at], maker'["recovery"].step,
                                  maker'["recovery"].ready)
        OBVIOUS
      <4>1. maker["recovery"].at \in 1..Len(attempts)
        BY <1>b, <2>7, <3>1
      <4>2. attempts'[maker["recovery"].at] = attempts[maker["recovery"].at]
        BY <2>4, <4>1
      <4> QED BY <1>a, <1>b, <2>7, <4>1, <4>2 DEF MakersOK
    <3>3. /\ maker'["recovery"].at <= Len(attempts')
          /\ maker'["recovery"].at = 0 <=> maker'["recovery"].step = "idle"
      BY <1>a, <1>b, <2>4, <2>7, <3>1 DEF MakersOK
    <3>4. MakerOf(attempts'[maker'["worker"].at], maker'["worker"].step, maker'["worker"].ready)
      BY <2>4, <2>7 DEF MakerOf, new
    <3>5. Len(attempts') \in Nat /\ Len(attempts') > 0 /\ maker'["recovery"].at # Len(attempts')
      BY <1>b, <2>4, <2>7, <3>1
    <3>6. ASSUME NEW m \in Makers
          PROVE  /\ maker'[m].at <= Len(attempts')
                 /\ maker'[m].at = 0 <=> maker'[m].step = "idle"
                 /\ maker'[m].at > 0 => MakerOf(attempts'[maker'[m].at], maker'[m].step, maker'[m].ready)
      <4>1. CASE m = "worker"
        <5>1. /\ maker'["worker"].at <= Len(attempts')
              /\ maker'["worker"].at = 0 <=> maker'["worker"].step = "idle"
          BY <2>7, <3>5
        <5> QED BY <3>4, <4>1, <5>1
      <4>2. CASE m = "recovery"
        BY <3>2, <3>3, <4>2
      <4> QED BY <1>b, <4>1, <4>2
    <3> QED BY <2>7, <3>5, <3>6 DEF MakersOK
  <2> QED BY <2>5, <2>6, <2>8 DEF GateInv
<1>4. ASSUME NEW m \in Makers, NEW found \in SUBSET RequiredChecks, PersistResult(m, found)
      PROVE  GateInv'
  <2> DEFINE n == maker[m].at
             entry == [attempts[n] EXCEPT !.passed = Passes(found), !.judged = "NONE",
                          !.status = IF Passes(found) THEN "QA_PASSED" ELSE "NEEDS_REPAIR"]
  <2>1. /\ maker[m].step = "working" /\ attempts' = [attempts EXCEPT ![n] = entry]
        /\ maker' = [maker EXCEPT ![m].step = "persisted"]
        /\ UNCHANGED <<source, contracts>>
    BY <1>4 DEF PersistResult
  <2>2. /\ n \in 1..Len(attempts) /\ attempts[n] \in AttemptRows /\ attempts[n].status = "EXECUTING"
        /\ \A k \in Makers : maker[k].at = n => k = m
    BY <1>e, <2>1 DEF MakerOf
  <2>3. entry \in AttemptRows
    BY <2>2 DEF AttemptRows, AttemptStatuses, Passes
  <2>4. SoundRow(entry, contracts)
    BY <1>a, <2>2, <2>3 DEF SoundRow, AttemptRows
  <2>5. MakerOf(entry, "persisted", maker[m].ready)
    BY <2>2 DEF MakerOf, AttemptRows
  <2>6. /\ maker' \in [Makers -> MakerRows]
        /\ maker'[m].at = n /\ maker'[m].step = "persisted" /\ maker'[m].ready = maker[m].ready
        /\ \A k \in Makers \ {m} : maker'[k] = maker[k]
    BY <1>b, <2>1 DEF MakerRows
  <2>7. \A k \in Makers : maker'[k].at = n => MakerOf(entry, maker'[k].step, maker'[k].ready)
    BY <2>2, <2>5, <2>6
  <2>8. \A k \in Makers : maker'[k] = maker[k] \/ maker'[k] = Nobody
                           \/ (maker[k].at = n /\ maker'[k].at = n /\ maker'[k].step # "idle")
    BY <2>6
  <2>9. SoundRow(entry, contracts') /\ contracts' \in {contracts, Compiled} /\ maker' \in [Makers -> MakerRows]
    BY <2>1, <2>4, <2>6
  <2> HIDE DEF entry, n
  <2> QED BY <1>c, <2>1, <2>2, <2>3, <2>7, <2>8, <2>9
<1>5. ASSUME NEW m \in Makers, EvaluateResult(m)
      PROVE  GateInv'
  <2> DEFINE n == maker[m].at
             entry == Evaluated(attempts[n], Compiled)
  <2>1. /\ maker[m].step = "persisted" /\ contracts' = Compiled /\ source' = source
        /\ attempts' = [attempts EXCEPT ![n] = entry]
        /\ maker' = [maker EXCEPT ![m].step = "evaluated", ![m].ready = attempts'[n].evaluation.ready]
    BY <1>5 DEF EvaluateResult
  <2>2. /\ n \in 1..Len(attempts) /\ attempts[n] \in AttemptRows /\ attempts[n].judged = "NONE"
        /\ \A k \in Makers : maker[k].at = n => k = m
    BY <1>e, <2>1 DEF MakerOf
  <2>3. attempts[n].status = "QA_PASSED" => attempts[n].passed
    BY <1>a, <2>2 DEF SoundRow
  <2>4. /\ entry \in AttemptRows /\ SoundRow(entry, Compiled) /\ entry.judged = "NONE"
        /\ entry.evaluation.ready => entry.passed
    <3>1. /\ Compiled \in Seq(Sources) /\ Compiled # <<>>
          /\ attempts[n].status = "QA_PASSED" /\ attempts[n].judged = "PASS" => attempts[n].accepted
          /\ attempts[n].passed /\ attempts[n].judged = "PASS" => attempts[n].status = "QA_PASSED"
      BY <1>a, <2>2, CompiledKeeps
    <3> HIDE DEF n
    <3>2. /\ entry \in AttemptRows /\ SoundRow(entry, Compiled) /\ entry.judged = attempts[n].judged
          /\ entry.evaluation = [version |-> Len(Compiled), ready |-> Ready(attempts[n], Compiled)]
          /\ entry.passed = attempts[n].passed /\ (Ready(attempts[n], Compiled) => attempts[n].passed)
      BY <2>2, <2>3, <3>1, EvaluatedIsSound
    <3> QED BY <2>2, <3>2
  <2>5. attempts'[n] = entry /\ entry.evaluation.ready \in BOOLEAN
    BY <1>b, <2>1, <2>2, <2>4 DEF AttemptRows
  <2> HIDE DEF entry, n
  <2>6. /\ maker' \in [Makers -> MakerRows]
        /\ maker'[m].at = n /\ maker'[m].step = "evaluated"
        /\ maker'[m].ready = entry.evaluation.ready
        /\ \A k \in Makers \ {m} : maker'[k] = maker[k]
    BY <1>b, <2>1, <2>5 DEF MakerRows, n
  <2>7. \A k \in Makers : maker'[k].at = n => MakerOf(entry, maker'[k].step, maker'[k].ready)
    BY <2>2, <2>4, <2>6 DEF MakerOf
  <2>8. \A k \in Makers : maker'[k] = maker[k] \/ maker'[k] = Nobody
                           \/ (maker[k].at = n /\ maker'[k].at = n /\ maker'[k].step # "idle")
    BY <2>6 DEF n
  <2>9. SoundRow(entry, contracts') /\ contracts' \in {contracts, Compiled}
    BY <2>1, <2>4
  <2> QED BY <1>c, <2>1, <2>2, <2>4, <2>6, <2>7, <2>8, <2>9
<1>6. ASSUME NEW m \in Makers, Conclude(m)
      PROVE  GateInv'
  <2> DEFINE n == maker[m].at
             entry == [attempts[n] EXCEPT !.status = IF maker[m].ready THEN "QA_PASSED" ELSE "NEEDS_REPAIR",
                                        !.accepted = maker[m].ready]
  <2>1. /\ maker[m].step = "evaluated" /\ UNCHANGED <<source, contracts>>
        /\ attempts' = [attempts EXCEPT ![n] = entry]
        /\ maker' = [maker EXCEPT ![m] = Nobody]
    BY <1>6, <1>b DEF Conclude
  <2>2. /\ n \in 1..Len(attempts) /\ attempts[n] \in AttemptRows /\ attempts[n].judged = "NONE"
        /\ maker[m].ready => attempts[n].passed
        /\ \A k \in Makers : maker[k].at = n => k = m
    BY <1>e, <2>1 DEF MakerOf
  <2>3. maker[m].ready \in BOOLEAN
    BY <1>b DEF MakerRows
  <2>4. entry \in AttemptRows
    BY <2>2, <2>3 DEF AttemptRows, AttemptStatuses
  <2>5. /\ entry.evaluation = attempts[n].evaluation /\ entry.judged = "NONE"
        /\ entry.passed = attempts[n].passed
        /\ entry.status = IF maker[m].ready THEN "QA_PASSED" ELSE "NEEDS_REPAIR"
    BY <2>2 DEF AttemptRows
  <2> HIDE DEF entry, n
  <2>6. SoundRow(entry, contracts)
    BY <1>a, <2>2, <2>5 DEF SoundRow
  <2>7. /\ maker' \in [Makers -> MakerRows] /\ maker'[m] = Nobody
        /\ \A k \in Makers \ {m} : maker'[k] = maker[k]
    BY <1>b, <2>1 DEF MakerRows, Nobody
  <2>8. \A k \in Makers : maker'[k].at # n
    BY <1>b, <2>2, <2>7 DEF Nobody
  <2> QED BY <1>c, <2>1, <2>2, <2>4, <2>6, <2>7, <2>8
<1>7. CASE WorkFails
  <2> DEFINE m == "worker"
             n == maker[m].at
             entry == [attempts[n] EXCEPT !.status = IF attempts[n].status = "EXECUTING" THEN "FAILED"
                                                   ELSE attempts[n].status]
  <2>1. /\ n > 0 /\ UNCHANGED <<source, contracts>>
        /\ attempts' = [attempts EXCEPT ![n] = entry]
        /\ maker' = [maker EXCEPT ![m] = Nobody]
    BY <1>7, <1>b DEF WorkFails
  <2>2. /\ m \in Makers /\ n \in 1..Len(attempts) /\ attempts[n] \in AttemptRows
        /\ \A k \in Makers : maker[k].at = n => k = m
    BY <1>a, <1>b, <1>e, <2>1 DEF MakersOK
  <2>3. entry \in AttemptRows
    BY <2>2 DEF AttemptRows, AttemptStatuses
  <2>4. SoundRow(entry, contracts)
    BY <1>a, <2>2, <2>3 DEF SoundRow, AttemptRows
  <2> HIDE DEF entry, n
  <2>5. /\ maker' \in [Makers -> MakerRows] /\ maker'[m] = Nobody
        /\ \A k \in Makers \ {m} : maker'[k] = maker[k]
    BY <1>b, <2>1 DEF MakerRows, Nobody
  <2>6. \A k \in Makers : maker'[k].at # n
    BY <1>b, <2>2, <2>5 DEF Nobody
  <2> QED BY <1>c, <2>1, <2>2, <2>3, <2>4, <2>5, <2>6
<1>8. ASSUME NEW n \in DOMAIN attempts, FindRecoverable(n)
      PROVE  GateInv'
  <2>1. CASE UNCHANGED maker
    BY <1>8, <1>a, <1>d, <2>1 DEF FindRecoverable, GateTypes
  <2>2. CASE /\ ~(attempts[n].accepted /\ attempts[n].status = "QA_PASSED")
             /\ maker' = [maker EXCEPT !["recovery"] = [at |-> n, step |-> "found", ready |-> FALSE]]
    <3>1. /\ UNCHANGED <<source, contracts, attempts>> /\ MayAct(n) /\ n \in 1..Len(attempts)
      BY <1>8, <1>b DEF FindRecoverable
    <3>2. maker["worker"].at # n
      BY <1>b, <3>1 DEF MayAct
    <3>3. /\ maker'["recovery"] = [at |-> n, step |-> "found", ready |-> FALSE]
          /\ maker'["worker"] = maker["worker"]
          /\ maker' \in [Makers -> MakerRows]
      BY <1>b, <2>2, <3>1 DEF MakerRows
    <3>4. ASSUME NEW m \in Makers
          PROVE  /\ maker'[m].at <= Len(attempts)
                 /\ maker'[m].at = 0 <=> maker'[m].step = "idle"
                 /\ maker'[m].at > 0 => MakerOf(attempts[maker'[m].at], maker'[m].step, maker'[m].ready)
      <4>1. CASE m = "worker"
        BY <1>a, <1>b, <3>3, <4>1 DEF MakersOK
      <4>2. CASE m = "recovery"
        BY <2>2, <3>1, <3>3, <4>2 DEF MakerOf
      <4> QED BY <1>b, <4>1, <4>2
    <3>5. MakersOK'
      BY <3>1, <3>2, <3>3, <3>4 DEF MakersOK
    <3>6. GateTypes'
      BY <1>a, <3>1, <3>3 DEF GateTypes
    <3> QED BY <1>a, <3>1, <3>5, <3>6 DEF GateInv
  <2> QED BY <1>8, <2>1, <2>2 DEF FindRecoverable
<1>9. CASE PrepareRecovery
  <2> DEFINE m == "recovery"
             n == maker[m].at
             entry == [attempts[n] EXCEPT !.status = "EXECUTING"]
  <2>1. /\ maker[m].step = "found" /\ m \in Makers /\ UNCHANGED <<source, contracts>>
    BY <1>9, <1>b DEF PrepareRecovery
  <2>2. /\ n \in 1..Len(attempts) /\ attempts[n] \in AttemptRows
        /\ ~(attempts[n].accepted /\ attempts[n].status = "QA_PASSED")
        /\ \A k \in Makers : maker[k].at = n => k = m
    BY <1>e, <2>1 DEF MakerOf
  <2>3. CASE maker' = [maker EXCEPT ![m] = Nobody] /\ UNCHANGED attempts
    <3>1. attempts' = [attempts EXCEPT ![n] = attempts[n]] /\ SoundRow(attempts[n], contracts)
      BY <1>a, <1>b, <2>2, <2>3
    <3>2. /\ maker' \in [Makers -> MakerRows] /\ maker'[m] = Nobody
          /\ \A k \in Makers \ {m} : maker'[k] = maker[k]
      BY <1>b, <2>1, <2>3 DEF MakerRows, Nobody
    <3>3. \A k \in Makers : maker'[k].at # n
      BY <1>b, <2>2, <3>2 DEF Nobody
    <3> HIDE DEF n
    <3> QED BY <1>c, <2>1, <2>2, <3>1, <3>2, <3>3
  <2>4. CASE /\ maker' = [maker EXCEPT ![m].step = "working"]
             /\ attempts' = [attempts EXCEPT ![n] = entry]
    <3>1. /\ entry \in AttemptRows /\ entry.status = "EXECUTING" /\ entry.evaluation = attempts[n].evaluation
          /\ entry.judged = attempts[n].judged /\ entry.accepted = attempts[n].accepted
      BY <2>2 DEF AttemptRows, AttemptStatuses
    <3> HIDE DEF entry, n
    <3>2. SoundRow(entry, contracts)
      BY <1>a, <2>2, <3>1 DEF SoundRow
    <3>3. /\ maker' \in [Makers -> MakerRows]
          /\ maker'[m].at = n /\ maker'[m].step = "working"
          /\ \A k \in Makers \ {m} : maker'[k] = maker[k]
      BY <1>b, <2>1, <2>4 DEF MakerRows, n
    <3>4. \A k \in Makers : maker'[k].at = n => MakerOf(entry, maker'[k].step, maker'[k].ready)
      BY <2>2, <3>1, <3>3 DEF MakerOf
    <3>5. \A k \in Makers : maker'[k] = maker[k] \/ maker'[k] = Nobody
                             \/ (maker[k].at = n /\ maker'[k].at = n /\ maker'[k].step # "idle")
      BY <3>3 DEF n
    <3> QED BY <1>c, <2>1, <2>2, <2>4, <3>1, <3>2, <3>3, <3>4, <3>5
  <2> QED BY <1>9, <1>b, <2>2, <2>3, <2>4 DEF PrepareRecovery
<1>10. CASE RecoveryFails
  <2> DEFINE m == "recovery"
             n == maker[m].at
             entry == [attempts[n] EXCEPT !.status = IF maker[m].step = "working" THEN "FAILED"
                                                   ELSE attempts[n].status]
  <2>1. /\ n > 0 /\ UNCHANGED <<source, contracts>>
        /\ attempts' = [attempts EXCEPT ![n] = entry]
        /\ maker' = [maker EXCEPT ![m] = Nobody]
    BY <1>10, <1>b DEF RecoveryFails
  <2>2. m \in Makers /\ maker[m].step # "idle"
    BY <1>a, <1>b, <2>1 DEF MakersOK
  <2>3. /\ n \in 1..Len(attempts) /\ attempts[n] \in AttemptRows
        /\ maker[m].step = "working" => attempts[n].status = "EXECUTING"
        /\ \A k \in Makers : maker[k].at = n => k = m
    BY <1>e, <2>2 DEF MakerOf
  <2>4. entry \in AttemptRows
    BY <2>3 DEF AttemptRows, AttemptStatuses
  <2>5. SoundRow(entry, contracts)
    BY <1>a, <2>3, <2>4 DEF SoundRow, AttemptRows
  <2> HIDE DEF entry, n
  <2>6. /\ maker' \in [Makers -> MakerRows] /\ maker'[m] = Nobody
        /\ \A k \in Makers \ {m} : maker'[k] = maker[k]
    BY <1>b, <2>1, <2>2 DEF MakerRows, Nobody
  <2>7. \A k \in Makers : maker'[k].at # n
    BY <1>b, <2>3, <2>6 DEF Nobody
  <2> QED BY <1>c, <2>1, <2>2, <2>3, <2>4, <2>5, <2>6, <2>7
<1>11. ASSUME NEW n \in DOMAIN attempts, NEW verdict \in {"PASS", "FAIL"}, Review(n, verdict)
       PROVE  GateInv'
  <2> DEFINE seen == [attempts[n] EXCEPT !.judged = verdict]
             done == Evaluated(seen, Compiled)
             passed == [seen EXCEPT !.status = "QA_PASSED", !.accepted = TRUE]
  <2>1. /\ n \in 1..Len(attempts) /\ attempts[n] \in AttemptRows
        /\ contracts' = Compiled /\ UNCHANGED <<source, maker>>
        /\ \A k \in Makers : maker[k].at # n
        /\ attempts' = IF done.evaluation.ready
                       THEN [attempts EXCEPT ![n] = [done EXCEPT !.status = "QA_PASSED", !.accepted = TRUE]]
                       ELSE [attempts EXCEPT ![n] = done]
    BY <1>11, <1>b DEF Review, MayAct
  <2>2. /\ seen \in AttemptRows /\ seen.judged = verdict /\ seen.status = attempts[n].status
        /\ seen.passed = attempts[n].passed /\ seen.accepted = attempts[n].accepted
    BY <2>1 DEF AttemptRows
  <2>3. /\ passed \in AttemptRows /\ passed.judged = verdict /\ passed.status = "QA_PASSED"
        /\ passed.passed = attempts[n].passed /\ passed.accepted = TRUE
    BY <2>2 DEF AttemptRows, AttemptStatuses
  <2>4. Compiled \in Seq(Sources) /\ Compiled # <<>>
    BY <1>a, CompiledKeeps
  <2>5. Ready(seen, Compiled) = Ready(passed, Compiled)
    BY <2>2, <2>3 DEF Ready
  <2>6. done = [seen EXCEPT !.evaluation = [version |-> Len(Compiled), ready |-> Ready(seen, Compiled)]]
    BY DEF Evaluated
  <2>7. Ready(seen, Compiled) \in BOOLEAN /\ Len(Compiled) \in Nat
    BY <2>2, <2>4 DEF Ready, AttemptRows
  <2>8. done.evaluation.ready <=> Ready(seen, Compiled)
    <3> HIDE DEF seen, done
    <3>1. done.evaluation = [version |-> Len(Compiled), ready |-> Ready(seen, Compiled)]
      BY <2>2, <2>6 DEF AttemptRows
    <3> QED BY <2>7, <3>1
  <2>9. PICK entry \in AttemptRows : attempts' = [attempts EXCEPT ![n] = entry] /\ SoundRow(entry, Compiled)
    <3>1. CASE Ready(seen, Compiled)
      <4>1. passed.passed
        BY <2>2, <2>3, <3>1 DEF Ready
      <4>2. Evaluated(passed, Compiled) \in AttemptRows /\ SoundRow(Evaluated(passed, Compiled), Compiled)
        <5> HIDE DEF passed, seen, done
        <5> QED BY <2>3, <2>4, <4>1, EvaluatedIsSound
      <4>3. [done EXCEPT !.status = "QA_PASSED", !.accepted = TRUE] = Evaluated(passed, Compiled)
        BY <2>2, <2>5, <2>6 DEF Evaluated, AttemptRows
      <4> QED BY <2>1, <2>8, <3>1, <4>2, <4>3
    <3>2. CASE ~Ready(seen, Compiled)
      <4>1. SoundRow(attempts[n], contracts)
        BY <1>a, <2>1
      <4>2. /\ seen.status = "QA_PASSED" => seen.passed
            /\ ~(seen.passed /\ seen.judged = "PASS")
        BY <2>2, <3>2, <4>1 DEF Ready, SoundRow
      <4>3. done \in AttemptRows /\ SoundRow(done, Compiled)
        <5>1. seen.status = "QA_PASSED" /\ seen.judged = "PASS" => seen.accepted
          BY <4>2
        <5> HIDE DEF seen
        <5> QED BY <2>2, <2>4, <4>2, <5>1, EvaluatedIsSound
      <4> QED BY <2>1, <2>8, <3>2, <4>3
    <3> QED BY <3>1, <3>2
  <2> HIDE DEF seen, done, passed
  <2> QED BY <1>b, <1>c, <2>1, <2>9
<1>12. CASE CheckGate
  <2>1. CASE UNCHANGED <<attempts, source, maker>> /\ contracts' \in {contracts, Compiled}
    BY <1>a, <1>d, <2>1 DEF GateTypes
  <2>2. ASSUME NEW n \in 1..Len(attempts), NEW entry \in AttemptRows,
               attempts' = [attempts EXCEPT ![n] = entry], SoundRow(entry, contracts),
               entry.status = attempts[n].status, entry.judged = attempts[n].judged,
               entry.passed = attempts[n].passed, entry.accepted = attempts[n].accepted,
               UNCHANGED <<contracts, source, maker>>
        PROVE  GateInv'
    <3>1. \A m \in Makers : maker'[m].at = n => MakerOf(entry, maker'[m].step, maker'[m].ready)
      <4>1. ASSUME NEW m \in Makers, maker[m].at = n
            PROVE  MakerOf(entry, maker[m].step, maker[m].ready)
        <5>1. MakerOf(attempts[n], maker[m].step, maker[m].ready)
          BY <1>a, <4>1 DEF MakersOK
        <5> QED BY <2>2, <5>1 DEF MakerOf
      <4> QED BY <2>2, <4>1
    <3>2. \A m \in Makers : maker'[m] = maker[m]
      BY <2>2
    <3>3. SoundRow(entry, contracts') /\ contracts' \in {contracts, Compiled} /\ source' = source
          /\ maker' \in [Makers -> MakerRows]
      BY <1>b, <2>2
    <3> QED BY <1>c, <2>2, <3>1, <3>2, <3>3
  <2> QED BY <1>12, <2>1, <2>2, GateLooks
<1> QED BY <1>1, <1>2, <1>3, <1>4, <1>5, <1>6, <1>7, <1>8, <1>9, <1>10, <1>11, <1>12 DEF GateNext

LEMMA GateLetsThrough ==
    ASSUME GateInv, [GateNext]_gateVars, LetThrough
    PROVE  LET a == attempts'[checked'.attempt] IN
           /\ contracts'[checked'.version] = source
           /\ a.passed
           /\ CriteriaOf[source] # {} => a.judged = "PASS"
<1>1. CheckGate
  BY DEF LetThrough, GateNext, gateVars, ChangeSource, RefuseStart, StartAttempt, WorkFails, RetryFailed,
         PrepareRecovery, RecoveryFails, PostChecked, PersistResult, EvaluateResult, Conclude,
         FindRecoverable, Review
<1>2. PICK n \in 1..Len(attempts), entry \in AttemptRows :
        /\ attempts' = [attempts EXCEPT ![n] = entry]
        /\ SoundRow(entry, contracts) /\ entry.passed /\ entry.evaluation.ready
        /\ entry.evaluation.version = Len(contracts) /\ ContractHolds
        /\ checked' = [attempt |-> n, version |-> Len(contracts)]
        /\ UNCHANGED contracts
  BY <1>1, GateLooks DEF LetThrough
<1>3. attempts'[n] = entry
  BY <1>2 DEF GateInv, GateTypes
<1>4. contracts[Len(contracts)] = source
  BY <1>2 DEF ContractHolds, Current
<1>5. CriteriaOf[source] # {} => entry.judged = "PASS"
  BY <1>2, <1>4 DEF SoundRow
<1> QED BY <1>2, <1>3, <1>4, <1>5

(* Whatever order source changes, reviews, repairs, recoveries, failures   *)
(* and retries come in, and however many there are: what the gate lets     *)
(* through passed under the contract of that moment                        *)
(* (planning/acceptance.py:258).                                           *)
THEOREM JudgedWork == GateSpec => OnlyJudgedWorkPasses
<1>1. GateInv /\ [GateNext]_gateVars =>
        [LetThrough =>
            LET a == attempts'[checked'.attempt] IN
            /\ contracts'[checked'.version] = source
            /\ a.passed
            /\ CriteriaOf[source] # {} => a.judged = "PASS"]_gateVars
  BY GateLetsThrough
<1> QED BY <1>1, GateBegins, GateKept, PTL DEF GateSpec, OnlyJudgedWorkPasses


-----------------------------------------------------------------------------
(* The sandbox broker.                                                     *)

BrokerSteps == {"idle", "queued", "prepared", "done", "abandoned"} \cup Preparing \cup HasKey
BrokerTypes ==
    /\ needs \in [Attempts -> Caches \cup {NoCache}]
    /\ attempt \in [Attempts -> [step : BrokerSteps, waiting : BOOLEAN]]
    /\ volume \in [Caches -> [content : {"absent", "partial", "ready"}, labelled : BOOLEAN]]
    /\ leftover \in [Caches -> {"none", "running", "exited"}]
    /\ dependencyLock \in Attempts \cup {NoAttempt}

(* Whoever prepares a cache has the lock of the broker, and while it builds*)
(* the cache anew nobody has the key of it but whom the cleanup took it    *)
(* from.                                                                   *)
Building == {"count", "create", "fill"}
HoldsKey(a) == attempt[a].step \in HasKey /\ needs[a] # NoCache /\ a \notin swept
KeyInv ==
    /\ \A a \in Attempts : attempt[a].step \in Preparing => dependencyLock = a
    /\ \A a \in Attempts : attempt[a].step \in Preparing \cup {"queued"} => needs[a] \in Caches
    /\ \A a \in Attempts : HoldsKey(a) => volume[needs[a]].content = "ready"
    /\ \A a, b \in Attempts : attempt[a].step \in Building /\ HoldsKey(b) => needs[b] # needs[a]

(* Who is about to create a volume has counted one too few, and nobody     *)
(* else creates one.                                                       *)
LabelInv ==
    /\ IsFiniteSet(Labelled) /\ Cardinality(Labelled) <= MaxVolumes
    /\ \A a \in Attempts : attempt[a].step = "create" => Cardinality(Labelled) < MaxVolumes
BrokerInv == BrokerTypes /\ KeyInv /\ LabelInv

LEMMA StepTaken ==
    ASSUME BrokerTypes, NEW a \in Attempts, NEW step \in BrokerSteps, Goto(a, step)
    PROVE  /\ attempt' \in [Attempts -> [step : BrokerSteps, waiting : BOOLEAN]]
           /\ attempt'[a].step = step
           /\ \A b \in Attempts \ {a} : attempt'[b] = attempt[b]
BY DEF BrokerTypes, Goto

LEMMA VolumeRemoved ==
    ASSUME BrokerTypes, NEW c \in Caches, RemoveVolume(c)
    PROVE  /\ volume' \in [Caches -> [content : {"absent", "partial", "ready"}, labelled : BOOLEAN]]
           /\ \A d \in Caches \ {c} : volume'[d] = volume[d]
           /\ volume'[c] \in {volume[c], NoVolume}
           /\ \A d \in Caches : volume'[d].labelled => volume[d].labelled
BY DEF BrokerTypes, RemoveVolume, NoVolume

(* What a step of one attempt does to the volumes and the lock.            *)
LEMMA AttemptStepTyped ==
    ASSUME BrokerTypes, NEW a \in Attempts,
           \/ RequestSandbox(a) \/ TakeDependencyLock(a) \/ InspectCache(a) \/ CountVolumes(a)
           \/ CreateVolume(a) \/ FillVolume(a) \/ ClientGivesUp(a) \/ RunAgent(a) \/ AgentEnds(a)
           \/ RunTests(a) \/ FinishRun(a) \/ RunTimesOut(a) \/ AbandonedEnds(a),
           attempt[a].step \in Preparing => needs[a] \in Caches
    PROVE  BrokerTypes' /\ \A b \in Attempts \ {a} : attempt'[b] = attempt[b]
<1>1. UNCHANGED <<needs, leftover>>
  BY DEF RequestSandbox, TakeDependencyLock, InspectCache, CountVolumes, CreateVolume, FillVolume,
         ClientGivesUp, RunAgent, AgentEnds, RunTests, FinishRun, RunTimesOut, AbandonedEnds, Mount
<1>2. /\ attempt' \in [Attempts -> [step : BrokerSteps, waiting : BOOLEAN]]
      /\ \A b \in Attempts \ {a} : attempt'[b] = attempt[b]
  <2>1. CASE ClientGivesUp(a)
    BY <2>1 DEF ClientGivesUp, BrokerTypes
  <2>2. CASE \E step \in BrokerSteps : Goto(a, step)
    BY <2>2, StepTaken
  <2>3. ClientGivesUp(a) \/ \E step \in BrokerSteps : Goto(a, step)
    BY DEF RequestSandbox, TakeDependencyLock, InspectCache, CountVolumes, CreateVolume, FillVolume,
         RunAgent, AgentEnds, RunTests, FinishRun, RunTimesOut, AbandonedEnds, Mount, Answer, BrokerSteps,
         Preparing, HasKey
  <2> QED BY <2>1, <2>2, <2>3
<1>3. volume' \in [Caches -> [content : {"absent", "partial", "ready"}, labelled : BOOLEAN]]
  <2>1. UNCHANGED volume => volume' \in [Caches -> [content : {"absent", "partial", "ready"}, labelled : BOOLEAN]]
    BY DEF BrokerTypes
  <2>2. CASE InspectCache(a) \/ FillVolume(a)
    <3>1. needs[a] \in Caches
      BY <2>2 DEF InspectCache, FillVolume, Preparing
    <3>2. UNCHANGED volume \/ RemoveVolume(needs[a]) \/ volume' = [volume EXCEPT ![needs[a]].content = "ready"]
      BY <2>2 DEF InspectCache, FillVolume
    <3> QED BY <2>1, <3>1, <3>2, VolumeRemoved DEF BrokerTypes
  <2>3. CASE CreateVolume(a)
    BY <2>3 DEF CreateVolume, BrokerTypes
  <2>4. CASE RunAgent(a) \/ RunTests(a)
    BY <2>4 DEF RunAgent, RunTests, Mount, BrokerTypes
  <2> QED BY <2>1, <2>2, <2>3, <2>4 DEF RequestSandbox, TakeDependencyLock, CountVolumes, ClientGivesUp,
             AgentEnds, FinishRun, RunTimesOut, AbandonedEnds
<1>4. dependencyLock' \in Attempts \cup {NoAttempt}
  BY DEF BrokerTypes, RequestSandbox, TakeDependencyLock, InspectCache, CountVolumes, CreateVolume,
         FillVolume, ClientGivesUp, RunAgent, AgentEnds, RunTests, FinishRun, RunTimesOut, AbandonedEnds,
         Mount, Answer
<1> QED BY <1>1, <1>2, <1>3, <1>4 DEF BrokerTypes

LEMMA KeyFrame ==
    ASSUME BrokerInv, NEW a \in Attempts, UNCHANGED <<needs, swept>>,
           \A b \in Attempts \ {a} : attempt'[b] = attempt[b],
           \A b \in Attempts \ {a} : dependencyLock = b => dependencyLock' = b,
           attempt'[a].step \in Preparing => dependencyLock' = a,
           attempt'[a].step \in Preparing \cup {"queued"} => needs[a] \in Caches,
           \A b \in Attempts \ {a} : HoldsKey(b) => volume'[needs[b]].content = "ready",
           attempt'[a].step \in HasKey /\ needs[a] # NoCache /\ a \notin swept =>
               /\ volume'[needs[a]].content = "ready"
               /\ \A b \in Attempts \ {a} : attempt[b].step \in Building => needs[b] # needs[a],
           attempt'[a].step \in Building => \A b \in Attempts \ {a} : HoldsKey(b) => needs[b] # needs[a]
    PROVE  KeyInv'
<1>1. \A b \in Attempts : HoldsKey(b)' <=> attempt'[b].step \in HasKey /\ needs[b] # NoCache /\ b \notin swept
  BY DEF HoldsKey
<1>2. \A b \in Attempts \ {a} : HoldsKey(b)' <=> HoldsKey(b)
  BY DEF HoldsKey
<1>3. \A b \in Attempts : ~(attempt'[b].step \in Building /\ attempt'[b].step \in HasKey)
  BY DEF Building, HasKey
<1>4. \A b \in Attempts : attempt'[b].step \in Preparing => dependencyLock' = b
  BY DEF BrokerInv, KeyInv
<1>5. \A b \in Attempts : attempt'[b].step \in Preparing \cup {"queued"} => needs'[b] \in Caches
  BY DEF BrokerInv, KeyInv
<1>6. \A b \in Attempts : HoldsKey(b)' => volume'[needs'[b]].content = "ready"
  BY <1>1, <1>2
<1>7. ASSUME NEW b \in Attempts, NEW d \in Attempts, attempt'[b].step \in Building, HoldsKey(d)'
      PROVE  needs'[d] # needs'[b]
  <2>1. CASE b = a
    BY <1>1, <1>2, <1>3, <1>7, <2>1
  <2>2. CASE b # a /\ d = a
    BY <1>1, <1>7, <2>2
  <2>3. CASE b # a /\ d # a
    BY <1>2, <1>7, <2>3 DEF BrokerInv, KeyInv
  <2> QED BY <2>1, <2>2, <2>3
<1> QED BY <1>4, <1>5, <1>6, <1>7 DEF KeyInv

(* The steps that leave the volumes alone.                                 *)
LEMMA RequestKeepsKeys ==
    ASSUME BrokerInv, NEW a \in Attempts,
           \/ RequestSandbox(a) \/ TakeDependencyLock(a) \/ CountVolumes(a) \/ ClientGivesUp(a)
           \/ AgentEnds(a) \/ FinishRun(a) \/ RunTimesOut(a) \/ AbandonedEnds(a)
    PROVE  KeyInv'
<1>0. BrokerTypes /\ KeyInv
  BY DEF BrokerInv
<1>1. UNCHANGED <<needs, swept, volume>>
  BY DEF RequestSandbox, TakeDependencyLock, CountVolumes, ClientGivesUp, AgentEnds, FinishRun,
         RunTimesOut, AbandonedEnds
<1>2. \A b \in Attempts \ {a} : attempt'[b] = attempt[b]
  BY <1>0, AttemptStepTyped DEF KeyInv
<1>3. CASE RequestSandbox(a) \/ AgentEnds(a) \/ FinishRun(a) \/ RunTimesOut(a) \/ AbandonedEnds(a)
  <2>1. UNCHANGED dependencyLock
    BY <1>3 DEF RequestSandbox, AgentEnds, FinishRun, RunTimesOut, AbandonedEnds
  <2>2. \/ attempt'[a].step \in {"done", "abandoned"}
        \/ attempt'[a].step = "queued" /\ needs[a] \in Caches
        \/ attempt'[a].step = "prepared" /\ needs[a] = NoCache
        \/ attempt'[a].step = "pause" /\ attempt[a].step = "agent"
    BY <1>0, <1>3 DEF RequestSandbox, AgentEnds, FinishRun, RunTimesOut, AbandonedEnds, Goto, BrokerTypes
  <2>3. attempt'[a].step \notin Preparing
    BY <2>2 DEF Preparing
  <2>4. attempt'[a].step \in HasKey /\ needs[a] # NoCache /\ a \notin swept => HoldsKey(a)
    BY <2>2 DEF HasKey, HoldsKey
  <2>5. attempt'[a].step \notin Building
    BY <2>2 DEF Building
  <2>6. attempt'[a].step = "queued" => needs[a] \in Caches
    BY <2>2
  <2> QED BY <1>0, <1>1, <1>2, <2>1, <2>3, <2>4, <2>5, <2>6, KeyFrame DEF KeyInv
<1>4. CASE TakeDependencyLock(a)
  <2>1. /\ attempt[a].step = "queued" /\ attempt'[a].step = "inspect" /\ needs[a] \in Caches
        /\ dependencyLock = NoAttempt /\ dependencyLock' = a
    BY <1>0, <1>4 DEF TakeDependencyLock, Goto, BrokerTypes, KeyInv
  <2>2. "inspect" \notin HasKey /\ "inspect" \notin Building
    BY DEF HasKey, Building
  <2> QED BY <1>0, <1>1, <1>2, <2>1, <2>2, KeyFrame, SandboxAssumption DEF KeyInv
<1>5. CASE ClientGivesUp(a)
  <2>1. attempt'[a].step = attempt[a].step /\ UNCHANGED dependencyLock
    BY <1>0, <1>5 DEF ClientGivesUp, BrokerTypes
  <2>2. attempt[a].step \in HasKey /\ needs[a] # NoCache /\ a \notin swept => HoldsKey(a)
    BY DEF HoldsKey
  <2> QED BY <1>0, <1>1, <1>2, <2>1, <2>2, KeyFrame DEF KeyInv
<1>6. CASE CountVolumes(a)
  <2>1. /\ attempt[a].step = "count" /\ dependencyLock = a /\ needs[a] \in Caches
        /\ \/ attempt'[a].step = "done" /\ dependencyLock' = NoAttempt
           \/ attempt'[a].step = "create" /\ dependencyLock' = a
    BY <1>0, <1>6 DEF CountVolumes, Answer, Goto, BrokerTypes, KeyInv, Preparing
  <2>2. attempt'[a].step \notin HasKey /\ ("done" \notin Building \cup Preparing \cup {"queued"})
    BY <2>1 DEF HasKey, Building, Preparing
  <2>3. \A b \in Attempts \ {a} : HoldsKey(b) => needs[b] # needs[a]
    BY <1>0, <2>1 DEF KeyInv, Building
  <2> QED BY <1>0, <1>1, <1>2, <2>1, <2>2, <2>3, KeyFrame DEF KeyInv
<1> QED BY <1>3, <1>4, <1>5, <1>6

(* Nobody whose key stands sees his volume go while it is built anew.      *)
LEMMA PreparationKeepsKeys ==
    ASSUME BrokerInv, NEW a \in Attempts, InspectCache(a) \/ CreateVolume(a) \/ FillVolume(a)
    PROVE  KeyInv'
<1>0. BrokerTypes /\ KeyInv
  BY DEF BrokerInv
<1>1. UNCHANGED <<needs, swept>>
  BY DEF InspectCache, CreateVolume, FillVolume
<1>2. \A b \in Attempts \ {a} : attempt'[b] = attempt[b]
  BY <1>0, AttemptStepTyped DEF KeyInv
<1>3. dependencyLock = a /\ needs[a] \in Caches /\ attempt[a].step \in {"inspect", "create", "fill"}
  BY <1>0 DEF InspectCache, CreateVolume, FillVolume, KeyInv, Preparing
<1>4. /\ {"inspect", "count", "create", "fill"} \cap HasKey = {} /\ Building \subseteq Preparing
      /\ {"done", "prepared"} \cap (Preparing \cup {"queued"} \cup Building) = {} /\ "done" \notin HasKey
      /\ {"inspect", "count", "create", "fill"} \subseteq Preparing
  BY DEF HasKey, Building, Preparing
<1>5. \A b \in Attempts \ {a} : attempt[b].step \notin Building
  BY <1>0, <1>3, <1>4 DEF KeyInv
<1>6. \A b \in Attempts : HoldsKey(b) => needs[b] \in Caches /\ volume[needs[b]].content = "ready"
  BY <1>0 DEF KeyInv, BrokerTypes, HoldsKey
<1>7. CASE InspectCache(a) /\ Usable(needs[a])
  <2>1. /\ UNCHANGED volume /\ volume[needs[a]].content = "ready"
        /\ attempt'[a].step \in {"done", "prepared"}
    BY <1>0, <1>7 DEF InspectCache, Usable, Answer, Goto, BrokerTypes
  <2> QED BY <1>1, <1>2, <1>3, <1>4, <1>5, <1>6, <2>1, KeyFrame
<1>8. CASE InspectCache(a) /\ ~Usable(needs[a])
  <2>1. RemoveVolume(needs[a]) /\ attempt'[a].step = "count" /\ UNCHANGED dependencyLock
    BY <1>0, <1>8 DEF InspectCache, Goto, BrokerTypes
  <2>2. \A b \in Attempts : HoldsKey(b) => needs[b] # needs[a]
    BY <1>6, <1>8 DEF Usable
  <2>3. \A d \in Caches \ {needs[a]} : volume'[d] = volume[d]
    BY <1>0, <1>3, <2>1, VolumeRemoved
  <2> QED BY <1>1, <1>2, <1>3, <1>4, <1>6, <2>1, <2>2, <2>3, KeyFrame
<1>9. CASE CreateVolume(a) \/ FillVolume(a)
  <2>1. \A b \in Attempts : HoldsKey(b) => needs[b] # needs[a]
    BY <1>0, <1>9 DEF CreateVolume, FillVolume, KeyInv, Building
  <2>2. \A d \in Caches \ {needs[a]} : volume'[d] = volume[d]
    BY <1>0, <1>3, <1>9, VolumeRemoved DEF CreateVolume, FillVolume, BrokerTypes
  <2>3. CASE CreateVolume(a)
    <3>1. attempt'[a].step = "fill" /\ UNCHANGED dependencyLock
      BY <1>0, <2>3 DEF CreateVolume, Goto, BrokerTypes
    <3> QED BY <1>1, <1>2, <1>3, <1>4, <1>6, <2>1, <2>2, <3>1, KeyFrame
  <2>4. CASE FillVolume(a)
    <3>1. \/ attempt'[a].step = "done"
          \/ attempt'[a].step = "prepared" /\ volume'[needs[a]].content = "ready"
      BY <1>0, <1>3, <2>4 DEF FillVolume, Answer, Goto, BrokerTypes
    <3> QED BY <1>1, <1>2, <1>3, <1>4, <1>5, <1>6, <2>1, <2>2, <3>1, KeyFrame
  <2> QED BY <1>9, <2>3, <2>4
<1> QED BY <1>7, <1>8, <1>9

LEMMA MountKeepsKeys ==
    ASSUME BrokerInv, NEW a \in Attempts, RunAgent(a) \/ RunTests(a)
    PROVE  KeyInv'
<1>0. BrokerTypes /\ KeyInv
  BY DEF BrokerInv
<1>1. UNCHANGED <<needs, swept, dependencyLock>>
  BY DEF RunAgent, RunTests, Mount
<1>2. \A b \in Attempts \ {a} : attempt'[b] = attempt[b]
  BY <1>0, AttemptStepTyped DEF KeyInv
<1>3. attempt[a].step \in {"prepared", "pause"} /\ attempt'[a].step \in {"agent", "test"}
  BY <1>0 DEF RunAgent, RunTests, Mount, Goto, BrokerTypes
<1>4. \A d \in Caches : volume[d].content = "ready" => volume'[d].content = "ready"
  BY <1>0 DEF RunAgent, RunTests, Mount, BrokerTypes
<1>5. \A b \in Attempts : HoldsKey(b) => needs[b] \in Caches
  BY <1>0 DEF HoldsKey, BrokerTypes
<1>6. attempt'[a].step \in HasKey /\ needs[a] # NoCache /\ a \notin swept => HoldsKey(a)
  BY <1>3 DEF HasKey, HoldsKey
<1>7. attempt'[a].step \notin Preparing \cup {"queued"} /\ attempt'[a].step \notin Building
  BY <1>3 DEF Preparing, Building
<1> QED BY <1>0, <1>1, <1>2, <1>4, <1>5, <1>6, <1>7, KeyFrame DEF KeyInv

(* The broker restarts; a container it left behind fills its volume.       *)
LEMMA RestartKept ==
    ASSUME BrokerInv, BrokerDies
    PROVE  BrokerTypes' /\ KeyInv' /\ UNCHANGED volume /\ \A a \in Attempts : attempt'[a].step # "create"
<1>0. BrokerTypes /\ KeyInv /\ UNCHANGED <<needs, volume, swept>> /\ dependencyLock' = NoAttempt
  BY DEF BrokerInv, BrokerDies
<1>1. ASSUME NEW a \in Attempts
      PROVE  /\ attempt'[a] \in [step : BrokerSteps, waiting : BOOLEAN]
             /\ attempt'[a].step \notin Preparing \cup {"queued"}
             /\ attempt'[a].step \in HasKey => attempt[a].step \in HasKey
  <2>1. attempt[a] \in [step : BrokerSteps, waiting : BOOLEAN]
    BY <1>0 DEF BrokerTypes
  <2>2. attempt'[a] = IF attempt[a].step \in Preparing \cup {"queued", "pause"}
                      THEN [attempt[a] EXCEPT !.step = "done"]
                      ELSE IF attempt[a].step \in {"agent", "test"}
                      THEN [attempt[a] EXCEPT !.step = "abandoned"] ELSE attempt[a]
    BY DEF BrokerDies
  <2>3. \/ attempt'[a] = attempt[a] /\ attempt[a].step \notin Preparing \cup {"queued"}
        \/ attempt'[a] = [attempt[a] EXCEPT !.step = "done"]
        \/ attempt'[a] = [attempt[a] EXCEPT !.step = "abandoned"]
    BY <2>2
  <2>4. {"done", "abandoned"} \subseteq BrokerSteps /\ {"done", "abandoned"} \cap (HasKey \cup Preparing) = {}
    BY DEF BrokerSteps, HasKey, Preparing
  <2> QED BY <2>1, <2>3, <2>4
<1>2. attempt' \in [Attempts -> [step : BrokerSteps, waiting : BOOLEAN]]
  <2>1. attempt' = [a \in Attempts |-> attempt'[a]]
    BY DEF BrokerDies
  <2> QED BY <1>1, <2>1
<1>3. leftover' \in [Caches -> {"none", "running", "exited"}]
  BY <1>0 DEF BrokerDies, BrokerTypes
<1>4. BrokerTypes'
  BY <1>0, <1>2, <1>3 DEF BrokerTypes
<1>5. \A a \in Attempts : HoldsKey(a)' => HoldsKey(a)
  BY <1>0, <1>1 DEF HoldsKey
<1>6. \A a \in Attempts : attempt'[a].step \notin Building /\ attempt'[a].step # "create"
  BY <1>1 DEF Building, Preparing
<1>7. KeyInv'
  BY <1>0, <1>1, <1>5, <1>6 DEF KeyInv
<1> QED BY <1>0, <1>4, <1>6, <1>7

LEMMA CleanupKept ==
    ASSUME BrokerInv, NEW c \in Caches, LeftoverEnds(c) \/ FindStaleVolume(c) \/ RemoveStaleVolume(c)
    PROVE  /\ BrokerTypes' /\ KeyInv' /\ UNCHANGED attempt
           /\ \A d \in Caches : volume'[d].labelled => volume[d].labelled
<1>0. BrokerTypes /\ KeyInv /\ UNCHANGED <<needs, attempt, dependencyLock>>
  BY DEF BrokerInv, LeftoverEnds, FindStaleVolume, RemoveStaleVolume
<1>1. CASE LeftoverEnds(c)
  <2>1. /\ volume' \in [Caches -> [content : {"absent", "partial", "ready"}, labelled : BOOLEAN]]
        /\ \A d \in Caches : volume'[d].labelled = volume[d].labelled
        /\ \A d \in Caches : volume[d].content = "ready" => volume'[d].content = "ready"
    <3>1. volume \in [Caches -> [content : {"absent", "partial", "ready"}, labelled : BOOLEAN]]
      BY <1>0 DEF BrokerTypes
    <3>2. volume' = volume \/ volume' = [volume EXCEPT ![c].content = "ready"]
      BY <1>1 DEF LeftoverEnds
    <3> QED BY <3>1, <3>2
  <2>2. leftover' \in [Caches -> {"none", "running", "exited"}] /\ UNCHANGED swept
    <3>1. leftover \in [Caches -> {"none", "running", "exited"}]
      BY <1>0 DEF BrokerTypes
    <3>2. leftover' = [leftover EXCEPT ![c] = "exited"] /\ UNCHANGED swept
      BY <1>1 DEF LeftoverEnds
    <3> QED BY <3>1, <3>2
  <2>3. \A a \in Attempts : (HoldsKey(a)' <=> HoldsKey(a)) /\ (HoldsKey(a) => needs[a] \in Caches)
    BY <1>0, <2>2 DEF HoldsKey, BrokerTypes
  <2> QED BY <1>0, <2>1, <2>2, <2>3 DEF BrokerTypes, KeyInv
<1>2. CASE FindStaleVolume(c)
  <2>1. UNCHANGED <<volume, leftover, swept>>
    BY <1>2 DEF FindStaleVolume
  <2> QED BY <1>0, <2>1 DEF BrokerTypes, KeyInv, HoldsKey
<1>3. CASE RemoveStaleVolume(c)
  <2>1. /\ volume' \in [Caches -> [content : {"absent", "partial", "ready"}, labelled : BOOLEAN]]
        /\ \A d \in Caches \ {c} : volume'[d] = volume[d]
        /\ \A d \in Caches : volume'[d].labelled => volume[d].labelled
    BY <1>0, <1>3, VolumeRemoved DEF RemoveStaleVolume
  <2>2. UNCHANGED leftover /\ swept \subseteq swept'
    BY <1>3 DEF RemoveStaleVolume
  <2>3. \A a \in Attempts : HoldsKey(a)' => HoldsKey(a) /\ needs[a] \in Caches
    BY <1>0, <2>2 DEF HoldsKey, BrokerTypes
  <2>4. ASSUME NEW a \in Attempts, HoldsKey(a)', needs[a] = c  PROVE UNCHANGED volume
    <3>1. attempt[a].step \in HasKey /\ a \notin swept'
      BY <1>0, <2>4 DEF HoldsKey
    <3>2. InUse(c)
      BY <1>3, <2>4, <3>1 DEF RemoveStaleVolume
    <3> QED BY <1>3, <3>2 DEF RemoveStaleVolume, RemoveVolume
  <2>5. \A a \in Attempts : HoldsKey(a)' => volume'[needs'[a]].content = "ready"
    BY <1>0, <2>1, <2>3, <2>4 DEF KeyInv
  <2>6. BrokerTypes'
    BY <1>0, <2>1, <2>2 DEF BrokerTypes
  <2> QED BY <1>0, <2>1, <2>3, <2>5, <2>6 DEF KeyInv
<1> QED BY <1>1, <1>2, <1>3

(* Only CreateVolume adds a labelled volume, and one at a time.            *)
LEMMA NoNewLabel ==
    ASSUME BrokerTypes, LabelInv, \A d \in Caches : volume'[d].labelled => volume[d].labelled
    PROVE  IsFiniteSet(Labelled)' /\ Cardinality(Labelled)' <= Cardinality(Labelled)
           /\ Cardinality(Labelled)' \in Nat /\ Cardinality(Labelled) \in Nat
<1>1. Labelled' \subseteq Labelled /\ IsFiniteSet(Labelled)
  BY DEF Labelled, LabelInv
<1>2. IsFiniteSet(Labelled') /\ Cardinality(Labelled') <= Cardinality(Labelled)
  BY <1>1, FS_Subset
<1> QED BY <1>1, <1>2, FS_CardinalityType

LEMMA AttemptKeepsLabels ==
    ASSUME BrokerInv, NEW a \in Attempts,
           \/ RequestSandbox(a) \/ TakeDependencyLock(a) \/ InspectCache(a) \/ CountVolumes(a)
           \/ CreateVolume(a) \/ FillVolume(a) \/ ClientGivesUp(a) \/ RunAgent(a) \/ AgentEnds(a)
           \/ RunTests(a) \/ FinishRun(a) \/ RunTimesOut(a) \/ AbandonedEnds(a)
    PROVE  LabelInv'
<1>0. BrokerTypes /\ KeyInv /\ LabelInv /\ MaxVolumes \in Nat
  BY SandboxAssumption DEF BrokerInv
<1>1. BrokerTypes' /\ \A b \in Attempts \ {a} : attempt'[b] = attempt[b]
  BY <1>0, AttemptStepTyped DEF KeyInv
<1>2. IsFiniteSet(Labelled) /\ Cardinality(Labelled) \in Nat
  BY <1>0, FS_CardinalityType DEF LabelInv
<1>3. CASE CreateVolume(a)
  <2> DEFINE c == needs[a]
  <2>1. attempt[a].step = "create" /\ c \in Caches /\ attempt'[a].step = "fill"
    BY <1>0, <1>3 DEF CreateVolume, KeyInv, Preparing, Goto, BrokerTypes
  <2>2. Labelled' \subseteq Labelled \cup {c}
    BY <1>0, <1>3, <2>1 DEF CreateVolume, BrokerTypes, Labelled
  <2>3. IsFiniteSet(Labelled \cup {c}) /\ Cardinality(Labelled \cup {c}) <= Cardinality(Labelled) + 1
    BY <1>2, FS_AddElement
  <2>4. IsFiniteSet(Labelled') /\ Cardinality(Labelled') <= Cardinality(Labelled \cup {c})
    BY <2>2, <2>3, FS_Subset
  <2>5. Cardinality(Labelled') \in Nat /\ Cardinality(Labelled \cup {c}) \in Nat
    BY <2>3, <2>4, FS_CardinalityType
  <2>6. Cardinality(Labelled) < MaxVolumes
    BY <1>0, <2>1 DEF LabelInv
  <2>7. \A b \in Attempts : attempt'[b].step # "create"
    BY <1>0, <1>1, <2>1 DEF KeyInv, Preparing
  <2>8. Cardinality(Labelled') <= MaxVolumes
    BY <1>0, <1>2, <2>3, <2>4, <2>5, <2>6
  <2> QED BY <2>4, <2>7, <2>8 DEF LabelInv
<1>4. CASE ~CreateVolume(a)
  <2>1. \A d \in Caches : volume'[d].labelled => volume[d].labelled
    <3>1. CASE InspectCache(a) \/ FillVolume(a)
      <4>1. needs[a] \in Caches
        BY <1>0, <3>1 DEF InspectCache, FillVolume, KeyInv, Preparing
      <4>2. UNCHANGED volume \/ RemoveVolume(needs[a]) \/ volume' = [volume EXCEPT ![needs[a]].content = "ready"]
        BY <3>1 DEF InspectCache, FillVolume
      <4>3. volume' = [volume EXCEPT ![needs[a]].content = "ready"] =>
                \A d \in Caches : volume'[d].labelled = volume[d].labelled
        BY <1>0 DEF BrokerTypes
      <4> QED BY <1>0, <4>1, <4>2, <4>3, VolumeRemoved
    <3>2. CASE RunAgent(a) \/ RunTests(a)
      BY <1>0, <3>2 DEF RunAgent, RunTests, Mount, BrokerTypes
    <3> QED BY <1>4, <3>1, <3>2 DEF RequestSandbox, TakeDependencyLock, CountVolumes, ClientGivesUp,
               AgentEnds, FinishRun, RunTimesOut, AbandonedEnds
  <2>2. IsFiniteSet(Labelled)' /\ Cardinality(Labelled)' <= Cardinality(Labelled) /\ Cardinality(Labelled)' \in Nat
    BY <1>0, <2>1, NoNewLabel
  <2>3. attempt'[a].step = "create" => Cardinality(Labelled) < MaxVolumes
    <3>1. CASE CountVolumes(a)
      BY <1>0, <1>2, <3>1 DEF CountVolumes, Answer, Goto, BrokerTypes
    <3>2. CASE ClientGivesUp(a)
      BY <1>0, <3>2 DEF ClientGivesUp, BrokerTypes, LabelInv
    <3>3. CASE ~CountVolumes(a) /\ ~ClientGivesUp(a)
      <4>1. attempt'[a].step # "create"
        BY <1>0, <1>4, <3>3 DEF RequestSandbox, TakeDependencyLock, InspectCache, FillVolume, RunAgent,
           AgentEnds, RunTests, FinishRun, RunTimesOut, AbandonedEnds, Mount, Answer, Goto, BrokerTypes
      <4> QED BY <4>1
    <3> QED BY <3>1, <3>2, <3>3
  <2>4. Cardinality(Labelled)' <= MaxVolumes
    BY <1>0, <1>2, <2>2 DEF LabelInv
  <2>5. \A b \in Attempts : attempt'[b].step = "create" => Cardinality(Labelled)' < MaxVolumes
    BY <1>0, <1>1, <1>2, <2>2, <2>3 DEF LabelInv
  <2> QED BY <2>2, <2>4, <2>5 DEF LabelInv
<1> QED BY <1>3, <1>4

LEMMA BrokerInvInit == BrokerInit => BrokerInv
<1> SUFFICES ASSUME BrokerInit  PROVE BrokerInv
  OBVIOUS
<1>1. BrokerTypes
  BY DEF BrokerInit, BrokerTypes, BrokerSteps, NoVolume
<1>2. \A a \in Attempts : attempt[a].step = "idle"
  BY DEF BrokerInit
<1>3. Labelled = {}
  BY DEF BrokerInit, NoVolume, Labelled
<1>4. IsFiniteSet(Labelled) /\ Cardinality(Labelled) = 0
  BY <1>3, FS_EmptySet
<1>5. LabelInv
  BY <1>2, <1>4, SandboxAssumption DEF LabelInv
<1>6. KeyInv
  BY <1>2 DEF KeyInv, HoldsKey, Building, Preparing, HasKey
<1> QED BY <1>1, <1>5, <1>6 DEF BrokerInv

LEMMA BrokerInvKept == BrokerInv /\ [BrokerNext]_brokerVars => BrokerInv'
<1> SUFFICES ASSUME BrokerInv, [BrokerNext]_brokerVars  PROVE BrokerInv'
  OBVIOUS
<1>0. BrokerTypes /\ KeyInv /\ LabelInv
  BY DEF BrokerInv
<1>1. ASSUME NEW a \in Attempts,
           \/ RequestSandbox(a) \/ TakeDependencyLock(a) \/ InspectCache(a) \/ CountVolumes(a)
           \/ CreateVolume(a) \/ FillVolume(a) \/ ClientGivesUp(a) \/ RunAgent(a) \/ AgentEnds(a)
           \/ RunTests(a) \/ FinishRun(a) \/ RunTimesOut(a) \/ AbandonedEnds(a)
      PROVE  BrokerInv'
  <2>1. BrokerTypes'
    BY <1>0, <1>1, AttemptStepTyped DEF KeyInv
  <2>2. LabelInv'
    BY <1>1, AttemptKeepsLabels
  <2>3. KeyInv'
    BY <1>1, RequestKeepsKeys, PreparationKeepsKeys, MountKeepsKeys
  <2> QED BY <2>1, <2>2, <2>3 DEF BrokerInv
<1>2. ASSUME NEW c \in Caches, LeftoverEnds(c) \/ FindStaleVolume(c) \/ RemoveStaleVolume(c)
      PROVE  BrokerInv'
  <2>1. /\ BrokerTypes' /\ KeyInv' /\ UNCHANGED attempt
        /\ \A d \in Caches : volume'[d].labelled => volume[d].labelled
    BY <1>2, CleanupKept
  <2>2. /\ IsFiniteSet(Labelled)' /\ Cardinality(Labelled)' <= Cardinality(Labelled)
        /\ Cardinality(Labelled)' \in Nat /\ Cardinality(Labelled) \in Nat
    BY <1>0, <2>1, NoNewLabel
  <2>3. LabelInv'
    BY <1>0, <2>1, <2>2, SandboxAssumption DEF LabelInv
  <2> QED BY <2>1, <2>3 DEF BrokerInv
<1>3. CASE BrokerDies
  <2>1. BrokerTypes' /\ KeyInv' /\ UNCHANGED volume /\ \A a \in Attempts : attempt'[a].step # "create"
    BY <1>3, RestartKept
  <2>2. LabelInv'
    BY <1>0, <2>1 DEF LabelInv, Labelled
  <2> QED BY <2>1, <2>2 DEF BrokerInv
<1>4. CASE UNCHANGED brokerVars
  BY <1>4 DEF brokerVars, BrokerInv, BrokerTypes, KeyInv, LabelInv, HoldsKey, Labelled
<1> QED BY <1>1, <1>2, <1>3, <1>4 DEF BrokerNext

(* Agents and tests find a complete cache and the labelled volumes stay    *)
(* within their number, whichever preparations fail, give up or die with   *)
(* the broker: sandbox_broker/server.py.                                   *)
THEOREM SoundCaches == BrokerSpec => []CachesAreSound
<1>1. BrokerInv => CachesAreSound
  <2> SUFFICES ASSUME BrokerInv  PROVE CachesAreSound
    OBVIOUS
  <2>1. ASSUME NEW a \in Attempts, attempt[a].step \in {"agent", "test"}, needs[a] # NoCache, a \notin swept
        PROVE  volume[needs[a]].content = "ready"
    BY <2>1 DEF BrokerInv, KeyInv, HoldsKey, HasKey
  <2> QED BY <2>1 DEF BrokerInv, LabelInv, CachesAreSound
<1> QED BY <1>1, BrokerInvInit, BrokerInvKept, PTL DEF BrokerSpec

-----------------------------------------------------------------------------
(* What a call cost by the balances around it.                             *)

UsageRow == [status : RowStatuses, truth : Truths, credits : Nat, started : Nat, completed : Nat]
UsageWork == [state : {"none", "running", "done", "failed"}, began : Nat, ended : Nat, charge : Nat]
UsageTypes ==
    /\ now \in Nat /\ spent \in Nat /\ balance \in Nat \cup {-1} /\ torn \in BOOLEAN
    /\ row \in [Billed -> UsageRow] /\ work \in [Billed -> UsageWork]
    /\ snapshots \subseteq [at : Nat, spent : Nat]

(* Events have times of their own, in the order they happen.               *)
Ended(c) == work[c].state \in {"done", "failed"}
Dated(c) ==
    /\ row[c].status = "NONE" => work[c].state = "none"
    /\ row[c].status # "NONE" => row[c].started <= now
    /\ work[c].state = "none" => work[c].charge = 0
    /\ work[c].state # "none" => row[c].started < work[c].began /\ work[c].began <= now
    /\ Ended(c) => work[c].began < work[c].ended /\ work[c].ended <= now
    /\ row[c].completed # 0 => Ended(c) /\ work[c].ended < row[c].completed
    /\ row[c].completed <= now
    /\ row[c].truth \in {"NOT_APPLICABLE", "ACTUAL"} => Ended(c)
    /\ work[c].state = "failed" \/ row[c].truth = "NOT_APPLICABLE" => work[c].charge = 0

(* A call that cannot have been charged between two times.                 *)
Before(o, at) == Ended(o) /\ work[o].ended < at
Elsewhere(o, from, to) == work[o].charge = 0 \/ Before(o, from) \/ work[o].began > to

(* What was spent since a snapshot, and between two, is the charge of a    *)
(* call that was reserved after the first one if all others were elsewhere.*)
SinceSnapshot(s, c) ==
    /\ row[c].status = "NONE" \/ s.at <= row[c].started
    /\ \A o \in Billed \ {c} : work[o].charge = 0 \/ Before(o, s.at)
    => spent = s.spent + work[c].charge
BetweenSnapshots(s, t, c) ==
    /\ row[c].status # "NONE" /\ s.at <= row[c].started
    /\ Ended(c) /\ work[c].ended <= t.at
    /\ \A o \in Billed \ {c} : Elsewhere(o, s.at, t.at)
    => t.spent = s.spent + work[c].charge

UsageInv ==
    /\ UsageTypes /\ \A c \in Billed : Dated(c)
    /\ \A s \in snapshots : s.at <= now
    /\ ~torn => /\ balance # -1 => balance = spent
                /\ \A s \in snapshots, c \in Billed : SinceSnapshot(s, c)
                /\ \A s, t \in snapshots, c \in Billed : BetweenSnapshots(s, t, c)
                /\ \A c \in Billed : row[c].truth = "ACTUAL" => row[c].credits = work[c].charge

(* What the steps make of one row and one piece of work.                   *)
LEMMA KnownRow ==
    ASSUME UsageTypes, NEW c \in Billed, NEW truth \in Truths, NEW credits \in Nat, Known(c, truth, credits)
    PROVE  /\ row' \in [Billed -> UsageRow] /\ now' \in Nat /\ now <= now' /\ now' <= now + 1
           /\ \A d \in Billed \ {c} : row'[d] = row[d]
           /\ row'[c].status \in {"COMPLETED", "FAILED"} /\ row'[c].started = row[c].started
           /\ row'[c].truth = truth /\ row'[c].credits = credits
           /\ row[c].completed # 0 => row'[c].completed = row[c].completed
           /\ row[c].completed = 0 => row'[c].completed = now + 1 /\ now' = now + 1
<1> DEFINE completed == IF row[c].completed = 0 THEN now + 1 ELSE row[c].completed
           status == IF work[c].state = "done" THEN "COMPLETED" ELSE "FAILED"
           x == [row[c] EXCEPT !.status = status, !.truth = truth, !.credits = credits, !.completed = completed]
<1>1. row \in [Billed -> UsageRow] /\ row[c] \in UsageRow /\ now \in Nat
  BY DEF UsageTypes
<1>2. row' = [row EXCEPT ![c] = x]
  BY <1>1 DEF Known, UsageRow
<1>3. now' = IF row[c].completed = 0 THEN now + 1 ELSE now
  BY DEF Known
<1>4. completed \in Nat /\ status \in RowStatuses /\ status \in {"COMPLETED", "FAILED"}
  BY <1>1 DEF UsageRow, RowStatuses
<1>5. completed = IF row[c].completed = 0 THEN now + 1 ELSE row[c].completed
  OBVIOUS
<1> HIDE DEF completed, status
<1>6. /\ x \in UsageRow /\ x.status = status /\ x.started = row[c].started
      /\ x.truth = truth /\ x.credits = credits /\ x.completed = completed
  BY <1>1, <1>4 DEF UsageRow
<1> HIDE DEF x
<1>7. row' \in [Billed -> UsageRow] /\ row'[c] = x /\ \A d \in Billed \ {c} : row'[d] = row[d]
  BY <1>1, <1>2, <1>6
<1> QED BY <1>1, <1>3, <1>4, <1>5, <1>6, <1>7

LEMMA WorkBegun ==
    ASSUME UsageTypes, NEW c \in Billed, WorkBegins(c)
    PROVE  \E amount \in Nat :
              /\ work' \in [Billed -> UsageWork] /\ \A d \in Billed \ {c} : work'[d] = work[d]
              /\ work'[c].state = "running" /\ work'[c].began = now + 1 /\ work'[c].charge = amount
              /\ spent' = spent + amount /\ torn' = (torn \/ (amount > 0 /\ balance >= 0))
<1>1. work \in [Billed -> UsageWork] /\ now + 1 \in Nat
  BY DEF UsageTypes
<1>2. PICK amount \in Prices \cup {0} :
          /\ work' = [work EXCEPT ![c] = [state |-> "running", began |-> now', ended |-> 0, charge |-> amount]]
          /\ Charge(amount)
  BY DEF WorkBegins
<1>3. amount \in Nat /\ now' = now + 1
  BY <1>2, PricesAssumption DEF WorkBegins, Tick
<1> DEFINE x == [state |-> "running", began |-> now + 1, ended |-> 0, charge |-> amount]
<1>4. work' = [work EXCEPT ![c] = x]
  BY <1>2, <1>3
<1>5. x \in UsageWork /\ x.state = "running" /\ x.began = now + 1 /\ x.charge = amount
  BY <1>1, <1>3 DEF UsageWork
<1> HIDE DEF x
<1>6. work' \in [Billed -> UsageWork] /\ work'[c] = x /\ \A d \in Billed \ {c} : work'[d] = work[d]
  BY <1>1, <1>4, <1>5
<1> QED BY <1>2, <1>3, <1>5, <1>6 DEF Charge

LEMMA WorkEnded ==
    ASSUME UsageTypes, NEW c \in Billed, WorkEnds(c)
    PROVE  \E amount \in Nat :
              /\ work' \in [Billed -> UsageWork] /\ \A d \in Billed \ {c} : work'[d] = work[d]
              /\ work'[c].state \in {"done", "failed"} /\ work'[c].ended = now + 1
              /\ work'[c].began = work[c].began /\ work'[c].charge = work[c].charge + amount
              /\ work'[c].state = "failed" => work'[c].charge = 0
              /\ spent' = spent + amount
              /\ torn' = (torn \/ (amount > 0 /\ balance >= 0))
<1>1. work \in [Billed -> UsageWork] /\ work[c] \in UsageWork /\ now + 1 \in Nat /\ now' = now + 1
      /\ spent \in Nat /\ torn \in BOOLEAN
  BY DEF UsageTypes, WorkEnds, Tick
<1>2. ASSUME NEW amount \in (IF work[c].charge = 0 THEN Prices ELSE {0}), Charge(amount),
             work' = [work EXCEPT ![c].state = "done", ![c].ended = now', ![c].charge = @ + amount]
      PROVE  /\ amount \in Nat /\ work' \in [Billed -> UsageWork]
             /\ \A d \in Billed \ {c} : work'[d] = work[d]
             /\ work'[c].state = "done" /\ work'[c].ended = now + 1
             /\ work'[c].began = work[c].began /\ work'[c].charge = work[c].charge + amount
  <2> DEFINE x == [work[c] EXCEPT !.state = "done", !.ended = now + 1, !.charge = work[c].charge + amount]
  <2>1. amount \in Nat /\ work[c].charge + amount \in Nat
    BY <1>1, <1>2, PricesAssumption DEF UsageWork
  <2>2. work' = [work EXCEPT ![c] = x]
    BY <1>1, <1>2 DEF UsageWork
  <2>3. /\ x \in UsageWork /\ x.state = "done" /\ x.ended = now + 1 /\ x.began = work[c].began
        /\ x.charge = work[c].charge + amount
    BY <1>1, <2>1 DEF UsageWork
  <2> HIDE DEF x
  <2> QED BY <1>1, <2>1, <2>2, <2>3
<1>3. ASSUME work' = [work EXCEPT ![c].state = "failed", ![c].ended = now']
      PROVE  /\ work' \in [Billed -> UsageWork]
             /\ \A d \in Billed \ {c} : work'[d] = work[d]
             /\ work'[c].state = "failed" /\ work'[c].ended = now + 1
             /\ work'[c].began = work[c].began /\ work'[c].charge = work[c].charge
  <2> DEFINE x == [work[c] EXCEPT !.state = "failed", !.ended = now + 1]
  <2>1. work' = [work EXCEPT ![c] = x]
    BY <1>1, <1>3 DEF UsageWork
  <2>2. /\ x \in UsageWork /\ x.state = "failed" /\ x.ended = now + 1 /\ x.began = work[c].began
        /\ x.charge = work[c].charge
    BY <1>1 DEF UsageWork
  <2> HIDE DEF x
  <2> QED BY <1>1, <2>1, <2>2
<1>4. CASE \E amount \in (IF work[c].charge = 0 THEN Prices ELSE {0}) :
             /\ work' = [work EXCEPT ![c].state = "done", ![c].ended = now', ![c].charge = @ + amount]
             /\ Charge(amount)
  BY <1>2, <1>4 DEF Charge
<1>5. CASE /\ work[c].charge = 0
           /\ work' = [work EXCEPT ![c].state = "failed", ![c].ended = now']
           /\ UNCHANGED <<spent, torn>>
  <2>1. work'[c].charge = work[c].charge + 0 /\ spent' = spent + 0 /\ torn' = (torn \/ (0 > 0 /\ balance >= 0))
    BY <1>1, <1>3, <1>5 DEF UsageWork
  <2>2. work'[c].charge = 0
    BY <1>3, <1>5
  <2> WITNESS 0 \in Nat
  <2> QED BY <1>3, <1>5, <2>1, <2>2
<1> QED BY <1>4, <1>5 DEF WorkEnds

(* A step of the work of one call, and a step of its row.                  *)
WorkStep(c) == WorkBegins(c) \/ WorkEnds(c)
RowStep(c) == Reserve(c) \/ ReconcileCall(c) \/ ResolveByBalance(c)

LEMMA WorkTyped ==
    ASSUME UsageTypes, \A c \in Billed : Dated(c), NEW c \in Billed, WorkStep(c)
    PROVE  UsageTypes' /\ (\A d \in Billed : Dated(d)') /\ now' = now + 1
<1>1. /\ now' = now + 1 /\ now \in Nat /\ UNCHANGED <<row, balance, snapshots>>
      /\ row[c] \in UsageRow /\ work[c] \in UsageWork
  BY DEF WorkStep, WorkBegins, WorkEnds, Tick, UsageTypes
<1>2. PICK amount \in Nat :
          /\ work' \in [Billed -> UsageWork] /\ \A d \in Billed \ {c} : work'[d] = work[d]
          /\ spent' = spent + amount /\ torn' = (torn \/ (amount > 0 /\ balance >= 0))
  BY WorkBegun, WorkEnded DEF WorkStep
<1>3. UsageTypes'
  <2>1. spent' \in Nat
    BY <1>2 DEF UsageTypes
  <2>2. torn' \in BOOLEAN
    BY <1>2
  <2> QED BY <1>1, <1>2, <2>1, <2>2 DEF UsageTypes
<1>4. ASSUME NEW d \in Billed \ {c}  PROVE Dated(d)'
  <2>1. Dated(d) /\ work'[d] = work[d] /\ row'[d] = row[d]
    BY <1>1, <1>2
  <2>2. row[d] \in UsageRow /\ work[d] \in UsageWork
    BY DEF UsageTypes
  <2> QED BY <1>1, <2>1, <2>2 DEF Dated, Ended, UsageRow, UsageWork
<1>5. Dated(c)'
  <2>1. Dated(c)
    OBVIOUS
  <2>2. work'[c] \in UsageWork
    BY <1>2
  <2>3. CASE WorkBegins(c)
    <3>1. work'[c].state = "running" /\ work'[c].began = now + 1
      BY <2>3, WorkBegun
    <3>2. row[c].status = "RESERVED" /\ work[c].state = "none"
      BY <2>3 DEF WorkBegins
    <3> QED BY <1>1, <2>1, <2>2, <3>1, <3>2 DEF Dated, Ended, UsageRow, UsageWork
  <2>4. CASE WorkEnds(c)
    <3>1. /\ work'[c].state \in {"done", "failed"} /\ work'[c].ended = now + 1
          /\ work'[c].began = work[c].began
          /\ work'[c].state = "failed" => work'[c].charge = 0
      BY <2>4, WorkEnded
    <3>2. work[c].state = "running"
      BY <2>4 DEF WorkEnds
    <3> QED BY <1>1, <2>1, <2>2, <3>1, <3>2 DEF Dated, Ended, UsageRow, UsageWork
  <2> QED BY <2>3, <2>4 DEF WorkStep
<1> QED BY <1>1, <1>3, <1>4, <1>5

(* The first and the last of some snapshots are among them.                *)
LEMMA LeastNumber ==
    ASSUME NEW S, S \subseteq Nat, S # {}
    PROVE  \E n \in S : \A m \in S : n <= m
<1>1. PICK n \in S : \A m \in S : ~(<<m, n>> \in OpToRel(<, Nat))
  BY NatLessThanWellFounded, WFMin, Zenon
<1>2. \A m \in S : ~(m < n)
  BY <1>1 DEF OpToRel
<1> QED BY <1>2

LEMMA FirstAndLast ==
    ASSUME UsageTypes, \A s \in snapshots : s.at <= now, NEW X, X \subseteq snapshots, X # {}
    PROVE  Latest(X) \in X /\ Earliest(X) \in X
<1> DEFINE times == {s.at : s \in X}
           distances == {now - s.at : s \in X}
<1>1. now \in Nat /\ \A s \in X : s.at \in Nat /\ s.at <= now /\ now - s.at \in Nat
  <2>1. now \in Nat /\ \A s \in X : s.at \in Nat /\ s.at <= now
    BY DEF UsageTypes
  <2> QED BY <2>1
<1>2. times \subseteq Nat /\ times # {} /\ distances \subseteq Nat /\ distances # {}
  BY <1>1
<1>3. PICK first \in times : \A n \in times : first <= n
  <2> HIDE DEF times
  <2> QED BY <1>2, LeastNumber
<1>4. PICK last \in distances : \A n \in distances : last <= n
  <2> HIDE DEF distances
  <2> QED BY <1>2, LeastNumber
<1>5. \E s \in X : \A t \in X : s.at <= t.at
  BY <1>3
<1>6. \E s \in X : \A t \in X : t.at <= s.at
  <2>1. PICK s \in X : last = now - s.at
    OBVIOUS
  <2>2. ASSUME NEW t \in X  PROVE t.at <= s.at
    <3>1. now - s.at <= now - t.at
      BY <1>4, <2>1
    <3> QED BY <1>1, <3>1
  <2> QED BY <2>2
<1> QED BY <1>5, <1>6 DEF Latest, Earliest

(* What a step leaves of a row and where its work must have ended.         *)
LEMMA RowStepped ==
    ASSUME UsageTypes, \A d \in Billed : Dated(d), \A s \in snapshots : s.at <= now, NEW c \in Billed, RowStep(c)
    PROVE  /\ UNCHANGED <<work, spent, balance, snapshots, torn>>
           /\ row' \in [Billed -> UsageRow] /\ now' \in Nat /\ now <= now' /\ now' <= now + 1
           /\ \A d \in Billed \ {c} : row'[d] = row[d]
           /\ row'[c].status # "NONE"
           /\ row[c].status = "NONE" => row'[c].started = now + 1
           /\ row[c].status # "NONE" => row'[c].started = row[c].started
<1>1. UNCHANGED <<work, spent, balance, snapshots, torn>>
  BY DEF RowStep, Reserve, ReconcileCall, ResolveByBalance
<1>2. CASE Reserve(c)
  <2> DEFINE x == [row[c] EXCEPT !.status = "RESERVED", !.started = now + 1]
  <2>1. row \in [Billed -> UsageRow] /\ row[c] \in UsageRow /\ now' = now + 1 /\ now \in Nat /\ now + 1 \in Nat
    BY <1>2 DEF UsageTypes, Reserve, Tick
  <2>2. row' = [row EXCEPT ![c] = x] /\ row[c].status = "NONE"
    BY <1>2, <2>1 DEF Reserve, UsageRow
  <2>3. x \in UsageRow /\ x.status = "RESERVED" /\ x.started = now + 1
    BY <2>1 DEF UsageRow, RowStatuses
  <2> HIDE DEF x
  <2> QED BY <1>1, <2>1, <2>2, <2>3
<1>3. CASE ReconcileCall(c) \/ ResolveByBalance(c)
  <2>1. row[c].status # "NONE" /\ work[c] \in UsageWork
    BY <1>3 DEF ReconcileCall, ResolveByBalance, Dated, UsageTypes
  <2>2. PICK truth \in Truths, credits \in Int : Known(c, truth, credits) /\ credits \in Nat
    <3>1. CASE ReconcileCall(c)
      BY <2>1, <3>1 DEF ReconcileCall, Truths, UsageWork
    <3>2. CASE ResolveByBalance(c)
      <4> DEFINE earlier == {s \in snapshots : s.at <= row[c].started}
                 later == {s \in snapshots : s.at >= work[c].ended}
      <4>1. Latest(earlier).spent < Earliest(later).spent
        BY <3>2 DEF ResolveByBalance
      <4>2. Latest(earlier) \in earlier /\ Earliest(later) \in later
        <5>1. earlier # {} /\ later # {}
          BY <3>2 DEF ResolveByBalance
        <5>2. earlier \subseteq snapshots /\ later \subseteq snapshots
          OBVIOUS
        <5> HIDE DEF earlier, later
        <5> QED BY <5>1, <5>2, FirstAndLast
      <4> QED BY <3>2, <4>1, <4>2 DEF ResolveByBalance, UsageTypes, Truths
    <3> QED BY <1>3, <3>1, <3>2
  <2> QED BY <1>1, <2>1, <2>2, KnownRow
<1> QED BY <1>2, <1>3 DEF RowStep

LEMMA RowTyped ==
    ASSUME UsageTypes, \A d \in Billed : Dated(d), \A s \in snapshots : s.at <= now,
           NEW c \in Billed, RowStep(c)
    PROVE  UsageTypes' /\ (\A d \in Billed : Dated(d)')
<1>1. /\ UNCHANGED <<work, spent, balance, snapshots, torn>>
      /\ row' \in [Billed -> UsageRow] /\ now' \in Nat /\ now <= now' /\ now' <= now + 1
      /\ \A d \in Billed \ {c} : row'[d] = row[d]
      /\ row'[c].status # "NONE"
      /\ row[c].status = "NONE" => row'[c].started = now + 1
      /\ row[c].status # "NONE" => row'[c].started = row[c].started
  BY RowStepped
<1>2. UsageTypes'
  BY <1>1 DEF UsageTypes
<1>3. now \in Nat /\ \A d \in Billed : row[d] \in UsageRow /\ work[d] \in UsageWork /\ Dated(d)
  BY DEF UsageTypes
<1>4. ASSUME NEW d \in Billed \ {c}  PROVE Dated(d)'
  <2>1. Dated(d) /\ row[d] \in UsageRow /\ work[d] \in UsageWork /\ row'[d] = row[d] /\ work'[d] = work[d]
    BY <1>1, <1>3
  <2> QED BY <1>1, <1>3, <2>1 DEF Dated, Ended, UsageRow, UsageWork
<1>5. Dated(c)'
  <2>1. row'[c] \in UsageRow /\ work'[c] = work[c] /\ row[c] \in UsageRow /\ work[c] \in UsageWork /\ Dated(c)
    BY <1>1, <1>3
  <2>2. CASE Reserve(c)
    <3>1. /\ row[c].status = "NONE" /\ now' = now + 1 /\ row'[c].completed = row[c].completed
          /\ row'[c].truth = row[c].truth /\ row'[c].started = now + 1
      BY <1>1, <1>3, <2>2 DEF Reserve, Tick, UsageTypes, UsageRow
    <3> QED BY <1>1, <1>3, <2>1, <3>1 DEF Dated, Ended, UsageRow, UsageWork
  <2>3. ASSUME NEW truth \in Truths, NEW credits \in Nat, Known(c, truth, credits), Ended(c),
               truth = "NOT_APPLICABLE" => work[c].state = "failed"
        PROVE  Dated(c)'
    <3>1. /\ row'[c].truth = truth
          /\ row[c].completed # 0 => row'[c].completed = row[c].completed
          /\ row[c].completed = 0 => row'[c].completed = now + 1 /\ now' = now + 1
      BY <2>3, KnownRow
    <3>2. row[c].status # "NONE"
      BY <2>1, <2>3 DEF Dated, Ended
    <3> QED BY <1>1, <1>3, <2>1, <2>3, <3>1, <3>2 DEF Dated, Ended, UsageRow, UsageWork
  <2>4. CASE ReconcileCall(c)
    <3>1. work[c].charge \in Nat /\ 0 \in Nat /\ {"ACTUAL", "NOT_APPLICABLE", "UNRESOLVED"} \subseteq Truths /\ Ended(c)
      BY <2>1, <2>4 DEF UsageWork, Truths, ReconcileCall, Ended
    <3>2. \/ Known(c, "ACTUAL", work[c].charge)
          \/ Known(c, IF work[c].state = "failed" THEN "NOT_APPLICABLE" ELSE "UNRESOLVED", 0)
      BY <2>4 DEF ReconcileCall
    <3>3. CASE Known(c, "ACTUAL", work[c].charge)
      BY <2>3, <3>1, <3>3
    <3>4. CASE Known(c, "NOT_APPLICABLE", 0) /\ work[c].state = "failed"
      BY <2>3, <3>1, <3>4
    <3>5. CASE Known(c, "UNRESOLVED", 0)
      BY <2>3, <3>1, <3>5
    <3> QED BY <3>2, <3>3, <3>4, <3>5
  <2>5. CASE ResolveByBalance(c)
    <3> DEFINE credits == Earliest({s \in snapshots : s.at >= work[c].ended}).spent
                          - Latest({s \in snapshots : s.at <= row[c].started}).spent
    <3>1. Known(c, "ACTUAL", credits) /\ Ended(c)
      BY <2>5 DEF ResolveByBalance, Ended
    <3>2. credits \in Nat
      <4>1. /\ {s \in snapshots : s.at >= work[c].ended} # {} /\ {s \in snapshots : s.at <= row[c].started} # {}
            /\ Latest({s \in snapshots : s.at <= row[c].started}).spent
                  < Earliest({s \in snapshots : s.at >= work[c].ended}).spent
        BY <2>5 DEF ResolveByBalance
      <4>2. /\ Latest({s \in snapshots : s.at <= row[c].started}) \in snapshots
            /\ Earliest({s \in snapshots : s.at >= work[c].ended}) \in snapshots
        BY <4>1, FirstAndLast
      <4> QED BY <4>1, <4>2 DEF UsageTypes
    <3> HIDE DEF credits
    <3> QED BY <2>3, <3>1, <3>2 DEF Truths
  <2> QED BY <2>2, <2>4, <2>5 DEF RowStep
<1> QED BY <1>2, <1>4, <1>5

(* No step of a row moves money or makes a call look like another one.     *)
LEMMA RowKeepsBalances ==
    ASSUME UsageInv, ~torn, NEW c \in Billed, RowStep(c)
    PROVE  /\ \A s \in snapshots, d \in Billed : SinceSnapshot(s, d)'
           /\ \A s, t \in snapshots, d \in Billed : BetweenSnapshots(s, t, d)'
<1>1. UsageTypes /\ (\A d \in Billed : Dated(d)) /\ \A s \in snapshots : s.at <= now /\ s.at \in Nat
  BY DEF UsageInv, UsageTypes
<1>2. /\ UNCHANGED <<work, spent, balance, snapshots, torn>>
      /\ \A d \in Billed \ {c} : row'[d] = row[d]
      /\ row'[c].status # "NONE"
      /\ row[c].status = "NONE" => row'[c].started = now + 1
      /\ row[c].status # "NONE" => row'[c].started = row[c].started
  BY <1>1, RowStepped
<1>3. \A d \in Billed : row[d].status # "NONE" => row'[d].status # "NONE" /\ row'[d].started = row[d].started
  BY <1>2
<1>4. \A d \in Billed : \A at : (Before(d, at)' <=> Before(d, at)) /\ (Ended(d)' <=> Ended(d))
  BY <1>2 DEF Before, Ended
<1>5. ASSUME NEW s \in snapshots, NEW d \in Billed  PROVE SinceSnapshot(s, d)'
  <2>1. SinceSnapshot(s, d)
    BY DEF UsageInv
  <2>2. row'[d].status = "NONE" \/ s.at <= row'[d].started => row[d].status = "NONE" \/ s.at <= row[d].started
    BY <1>3
  <2> QED BY <1>2, <1>4, <2>1, <2>2 DEF SinceSnapshot
<1>6. ASSUME NEW s \in snapshots, NEW t \in snapshots, NEW d \in Billed  PROVE BetweenSnapshots(s, t, d)'
  <2>1. BetweenSnapshots(s, t, d) /\ Dated(d)
    BY <1>1 DEF UsageInv
  <2>2. Ended(d) => row[d].status # "NONE"
    BY <2>1 DEF Dated, Ended
  <2> QED BY <1>2, <1>3, <1>4, <2>1, <2>2 DEF BetweenSnapshots, Elsewhere
<1> QED BY <1>5, <1>6

(* What the gateway takes now is taken after every snapshot.               *)
LEMMA WorkKeepsBalances ==
    ASSUME UsageInv, ~torn, NEW c \in Billed, WorkStep(c)
    PROVE  /\ \A s \in snapshots, d \in Billed : SinceSnapshot(s, d)'
           /\ \A s, t \in snapshots, d \in Billed : BetweenSnapshots(s, t, d)'
<1>1. UsageTypes /\ Dated(c) /\ now \in Nat /\ \A s \in snapshots : s.at <= now /\ s.at \in Nat /\ s.spent \in Nat
  BY DEF UsageInv, UsageTypes
<1>2. UNCHANGED <<row, snapshots>> /\ ~Ended(c)
  BY DEF WorkStep, WorkBegins, WorkEnds, Ended
<1>3. PICK amount \in Nat :
          /\ work' \in [Billed -> UsageWork] /\ \A d \in Billed \ {c} : work'[d] = work[d]
          /\ work'[c].charge = work[c].charge + amount /\ spent' = spent + amount
          /\ Ended(c)' => work'[c].ended = now + 1
          /\ work[c].charge # 0 => work'[c].began = work[c].began
          /\ work[c].charge = 0 \/ work'[c].began = work[c].began
  <2>1. CASE WorkBegins(c)
    <3>1. work[c].charge = 0
      BY <1>1, <2>1 DEF Dated, WorkBegins
    <3>2. PICK amount \in Nat :
          /\ work' \in [Billed -> UsageWork] /\ \A d \in Billed \ {c} : work'[d] = work[d]
          /\ work'[c].state = "running" /\ work'[c].charge = amount /\ spent' = spent + amount
      BY <1>1, <2>1, WorkBegun
    <3>3. ~Ended(c)' /\ work'[c].charge = work[c].charge + amount
      BY <3>1, <3>2 DEF Ended
    <3> QED BY <3>1, <3>2, <3>3
  <2>2. CASE WorkEnds(c)
    <3>1. PICK amount \in Nat :
          /\ work' \in [Billed -> UsageWork] /\ \A d \in Billed \ {c} : work'[d] = work[d]
          /\ work'[c].ended = now + 1 /\ work'[c].began = work[c].began
          /\ work'[c].charge = work[c].charge + amount /\ spent' = spent + amount
      BY <1>1, <2>2, WorkEnded
    <3> QED BY <3>1
  <2> QED BY <2>1, <2>2 DEF WorkStep
<1>4. work[c].charge \in Nat /\ spent \in Nat /\ \A d \in Billed : work[d].charge \in Nat
  BY <1>1 DEF UsageTypes, UsageWork
<1>5. \A s \in snapshots : ~Before(c, s.at)'
  <2>1. \A s \in snapshots : ~(now + 1 < s.at)
    BY <1>1
  <2> QED BY <1>3, <2>1 DEF Before
<1>6. \A d \in Billed \ {c} : \A at : (Before(d, at)' <=> Before(d, at)) /\ (Ended(d)' <=> Ended(d))
  BY <1>3 DEF Before, Ended
<1>7. ASSUME NEW s \in snapshots, NEW d \in Billed  PROVE SinceSnapshot(s, d)'
  <2>1. SinceSnapshot(s, d)
    BY DEF UsageInv
  <2>2. CASE d = c
    BY <1>1, <1>2, <1>3, <1>4, <1>6, <2>1, <2>2 DEF SinceSnapshot
  <2>3. CASE d # c
    <3>1. SUFFICES ASSUME row[d].status = "NONE" \/ s.at <= row[d].started,
                          \A o \in Billed \ {d} : work'[o].charge = 0 \/ Before(o, s.at)'
                   PROVE  spent' = s.spent + work'[d].charge
      BY <1>2 DEF SinceSnapshot
    <3>2. work'[c].charge = 0
      BY <1>5, <2>3, <3>1
    <3>3. work[c].charge = 0 /\ amount = 0
      BY <1>3, <1>4, <3>2
    <3>4. \A o \in Billed \ {d} : work[o].charge = 0 \/ Before(o, s.at)
      BY <1>3, <1>6, <3>1, <3>3
    <3> QED BY <1>3, <1>4, <2>1, <2>3, <3>1, <3>3, <3>4 DEF SinceSnapshot
  <2> QED BY <2>2, <2>3
<1>8. ASSUME NEW s \in snapshots, NEW t \in snapshots, NEW d \in Billed  PROVE BetweenSnapshots(s, t, d)'
  <2>1. BetweenSnapshots(s, t, d)
    BY DEF UsageInv
  <2>2. CASE d = c
    <3>1. Ended(c)' => ~(work'[c].ended <= t.at)
      <4>1. ~(now + 1 <= t.at)
        BY <1>1
      <4> QED BY <1>3, <4>1
    <3> QED BY <2>2, <3>1 DEF BetweenSnapshots
  <2>3. CASE d # c
    <3>1. Elsewhere(c, s.at, t.at)' => Elsewhere(c, s.at, t.at)
      <4>1. work'[c].charge = 0 => work[c].charge = 0
        BY <1>3, <1>4
      <4> QED BY <1>3, <1>5, <4>1 DEF Elsewhere
    <3>2. \A o \in Billed \ {c} : Elsewhere(o, s.at, t.at)' => Elsewhere(o, s.at, t.at)
      BY <1>3, <1>6 DEF Elsewhere
    <3>3. \A o \in Billed \ {d} : Elsewhere(o, s.at, t.at)' => Elsewhere(o, s.at, t.at)
      BY <3>1, <3>2
    <3> QED BY <1>2, <1>3, <1>6, <2>1, <2>3, <3>3 DEF BetweenSnapshots
  <2> QED BY <2>2, <2>3
<1> QED BY <1>7, <1>8

LEMMA SnapshotKept ==
    ASSUME UsageInv, ReadBalance \/ InsertSnapshot
    PROVE  UsageInv'
<1>1. /\ UsageTypes /\ (\A d \in Billed : Dated(d)) /\ now \in Nat /\ UNCHANGED <<row, work, spent, torn>>
      /\ \A s \in snapshots : s.at <= now /\ s.at \in Nat
  BY DEF UsageInv, UsageTypes, ReadBalance, InsertSnapshot
<1>2. CASE ReadBalance
  <2>1. UNCHANGED <<now, snapshots>> /\ balance' = spent /\ spent \in Nat
    BY <1>1, <1>2 DEF ReadBalance, UsageTypes
  <2> QED BY <1>1, <2>1 DEF UsageInv, UsageTypes, Dated, Ended, SinceSnapshot, BetweenSnapshots, Before, Elsewhere
<1>3. CASE InsertSnapshot
  <2> DEFINE new == [at |-> now + 1, spent |-> balance]
  <2>1. /\ now' = now + 1 /\ balance' = -1 /\ snapshots' = snapshots \cup {new}
        /\ new \in [at : Nat, spent : Nat] /\ balance \in Nat /\ balance # -1
    BY <1>1, <1>3 DEF InsertSnapshot, Tick, UsageTypes
  <2>2. new.at = now + 1 /\ new.spent = balance
    OBVIOUS
  <2> HIDE DEF new
  <2>3. UsageTypes'
    BY <1>1, <2>1 DEF UsageTypes
  <2>4. \A d \in Billed : row[d] \in UsageRow /\ work[d] \in UsageWork /\ Dated(d)
    BY <1>1 DEF UsageTypes
  <2>5. ASSUME NEW d \in Billed  PROVE Dated(d)'
    <3>1. row[d] \in UsageRow /\ work[d] \in UsageWork /\ Dated(d)
      BY <2>4
    <3> QED BY <1>1, <2>1, <3>1 DEF Dated, Ended, UsageRow, UsageWork
  <2>6. \A s \in snapshots' : s.at <= now'
    BY <1>1, <2>1, <2>2
  <2>7. ASSUME ~torn
        PROVE  /\ \A s \in snapshots', d \in Billed : SinceSnapshot(s, d)'
               /\ \A s, t \in snapshots', d \in Billed : BetweenSnapshots(s, t, d)'
               /\ \A d \in Billed : row'[d].truth = "ACTUAL" => row'[d].credits = work'[d].charge
    <3>1. balance = spent
      BY <2>1, <2>7 DEF UsageInv
    <3>2. /\ \A s \in snapshots, d \in Billed : SinceSnapshot(s, d)
          /\ \A s, t \in snapshots, d \in Billed : BetweenSnapshots(s, t, d)
          /\ \A d \in Billed : row[d].truth = "ACTUAL" => row[d].credits = work[d].charge
      BY <2>7 DEF UsageInv
    <3>3. \A d \in Billed : \A at : (Before(d, at)' <=> Before(d, at)) /\ (Ended(d)' <=> Ended(d))
      BY <1>1 DEF Before, Ended
    <3>4. ASSUME NEW d \in Billed, row[d].status = "NONE" \/ new.at <= row[d].started
          PROVE  row[d].status = "NONE" /\ work[d].charge = 0 /\ ~Ended(d)
      <4>1. row[d].status # "NONE" => row[d].started <= now /\ row[d].started \in Nat
        BY <2>4 DEF Dated, UsageRow
      <4>2. row[d].status = "NONE"
        BY <1>1, <2>2, <3>4, <4>1
      <4> QED BY <2>4, <4>2 DEF Dated, Ended
    <3>5. ASSUME NEW s \in snapshots', NEW d \in Billed  PROVE SinceSnapshot(s, d)'
      <4>1. CASE s = new
        <5>1. spent \in Nat
          BY <1>1 DEF UsageTypes
        <5> QED BY <1>1, <2>2, <3>1, <3>4, <4>1, <5>1 DEF SinceSnapshot
      <4>2. CASE s \in snapshots
        BY <1>1, <3>2, <3>3, <4>2 DEF SinceSnapshot
      <4> QED BY <2>1, <4>1, <4>2
    <3>6. ASSUME NEW s \in snapshots', NEW t \in snapshots', NEW d \in Billed  PROVE BetweenSnapshots(s, t, d)'
      <4>1. CASE s = new
        BY <1>1, <3>3, <3>4, <4>1 DEF BetweenSnapshots
      <4>2. CASE s \in snapshots /\ t \in snapshots
        BY <1>1, <3>2, <3>3, <4>2 DEF BetweenSnapshots, Elsewhere
      <4>3. CASE s \in snapshots /\ t = new
        <5>1. \A o \in Billed : work[o].began > new.at => work[o].charge = 0
          <6>1. ASSUME NEW o \in Billed, work[o].began > new.at  PROVE work[o].charge = 0
            <7>1. work[o].state # "none" => work[o].began <= now
              BY <2>4 DEF Dated
            <7>2. work[o].began \in Nat
              BY <2>4 DEF UsageWork
            <7>3. work[o].state = "none"
              BY <1>1, <2>2, <6>1, <7>1, <7>2
            <7> QED BY <2>4, <7>3 DEF Dated
          <6> QED BY <6>1
        <5>2. SinceSnapshot(s, d)
          BY <3>2, <4>3
        <5>3. SUFFICES ASSUME row[d].status # "NONE", s.at <= row[d].started,
                              \A o \in Billed \ {d} : Elsewhere(o, s.at, new.at)
                       PROVE  new.spent = s.spent + work[d].charge
          BY <1>1, <3>3, <4>3 DEF BetweenSnapshots, Elsewhere
        <5>4. \A o \in Billed \ {d} : work[o].charge = 0 \/ Before(o, s.at)
          BY <5>1, <5>3 DEF Elsewhere
        <5> QED BY <2>2, <3>1, <5>2, <5>3, <5>4 DEF SinceSnapshot
      <4> QED BY <2>1, <4>1, <4>2, <4>3
    <3> QED BY <1>1, <3>2, <3>5, <3>6
  <2> QED BY <1>1, <2>1, <2>3, <2>5, <2>6, <2>7 DEF UsageInv
<1> QED BY <1>2, <1>3

(* The difference of two balances with no competing call between them.     *)
LEMMA BalanceTells ==
    ASSUME UsageInv, ~torn, NEW c \in Billed, ResolveByBalance(c)
    PROVE  row'[c].credits = work[c].charge
<1> DEFINE earlier == {s \in snapshots : s.at <= row[c].started}
           later == {s \in snapshots : s.at >= work[c].ended}
           before == Latest(earlier)
           after == Earliest(later)
<1>1. /\ UsageTypes /\ (\A d \in Billed : Dated(d) /\ row[d] \in UsageRow /\ work[d] \in UsageWork)
      /\ \A s \in snapshots : s.at <= now /\ s.at \in Nat /\ s.spent \in Nat
      /\ \A s, t \in snapshots, d \in Billed : BetweenSnapshots(s, t, d)
      /\ \A d \in Billed : row[d].truth = "ACTUAL" => row[d].credits = work[d].charge
  BY DEF UsageInv, UsageTypes
<1>2. /\ work[c].state = "done" /\ earlier # {} /\ later # {} /\ before.spent < after.spent
      /\ Competing(c, before, after) = {}
      /\ Known(c, "ACTUAL", after.spent - before.spent)
  BY DEF ResolveByBalance
<1>3. before \in earlier /\ after \in later
  <2>1. earlier \subseteq snapshots /\ later \subseteq snapshots
    OBVIOUS
  <2> HIDE DEF earlier, later
  <2> QED BY <1>1, <1>2, <2>1, FirstAndLast
<1>4. /\ before \in snapshots /\ after \in snapshots
      /\ before.at <= row[c].started /\ work[c].ended <= after.at
  BY <1>3
<1> HIDE DEF before, after, earlier, later
<1>5. row[c].status # "NONE" /\ Ended(c)
  BY <1>1, <1>2 DEF Dated, Ended
<1>6. ASSUME NEW o \in Billed \ {c}  PROVE Elsewhere(o, before.at, after.at)
  <2>1. Dated(o) /\ row[o] \in UsageRow /\ work[o] \in UsageWork /\ before.at \in Nat /\ after.at \in Nat
    BY <1>1, <1>4
  <2>2. \/ row[o].status = "NONE" \/ row[o].truth = "NOT_APPLICABLE"
        \/ row[o].truth = "ACTUAL" /\ row[o].credits = 0
        \/ /\ row[o].started \notin before.at..after.at /\ row[o].completed \notin before.at..after.at
           /\ ~(row[o].started < before.at /\ (row[o].completed = 0 \/ row[o].completed >= before.at))
    BY <1>2 DEF Competing
  <2>3. CASE row[o].status = "NONE" \/ row[o].truth = "NOT_APPLICABLE"
    BY <2>1, <2>3 DEF Dated, Elsewhere
  <2>4. CASE row[o].truth = "ACTUAL" /\ row[o].credits = 0
    BY <1>1, <2>4 DEF Elsewhere
  <2>5. CASE /\ row[o].status # "NONE"
             /\ row[o].started \notin before.at..after.at /\ row[o].completed \notin before.at..after.at
             /\ ~(row[o].started < before.at /\ (row[o].completed = 0 \/ row[o].completed >= before.at))
    <3>1. row[o].started \in Nat /\ row[o].completed \in Nat /\ work[o].began \in Nat /\ work[o].ended \in Nat
      BY <2>1 DEF UsageRow, UsageWork
    <3>2. CASE row[o].started > after.at
      BY <2>1, <3>1, <3>2 DEF Dated, Elsewhere
    <3>3. CASE row[o].started < before.at
      <4>1. row[o].completed # 0 /\ row[o].completed < before.at
        BY <2>1, <2>5, <3>1, <3>3
      <4> QED BY <2>1, <3>1, <4>1 DEF Dated, Elsewhere, Before
    <3> QED BY <2>1, <2>5, <3>1, <3>2, <3>3
  <2> QED BY <2>2, <2>3, <2>4, <2>5
<1>7. after.spent = before.spent + work[c].charge
  BY <1>1, <1>4, <1>5, <1>6 DEF BetweenSnapshots
<1>8. after.spent - before.spent = work[c].charge /\ work[c].charge \in Nat
  BY <1>1, <1>4, <1>7 DEF UsageWork
<1> QED BY <1>1, <1>2, <1>8, KnownRow DEF Truths

LEMMA UsageKept == UsageInv /\ [UsageNext]_usageVars => UsageInv'
<1> SUFFICES ASSUME UsageInv, [UsageNext]_usageVars  PROVE UsageInv'
  OBVIOUS
<1>1. /\ UsageTypes /\ (\A d \in Billed : Dated(d)) /\ now \in Nat
      /\ \A s \in snapshots : s.at <= now /\ s.at \in Nat
  BY DEF UsageInv, UsageTypes
<1>2. ASSUME NEW c \in Billed, WorkStep(c)  PROVE UsageInv'
  <2>1. UsageTypes' /\ (\A d \in Billed : Dated(d)') /\ now' = now + 1 /\ UNCHANGED <<row, balance, snapshots>>
    BY <1>1, <1>2, WorkTyped DEF WorkStep, WorkBegins, WorkEnds
  <2>2. ASSUME ~torn'
        PROVE  ~torn /\ (balance # -1 => spent' = spent)
               /\ \A d \in Billed : row[d].truth = "ACTUAL" => work'[d].charge = work[d].charge
    <3>1. ~Ended(c) /\ row[c].truth # "ACTUAL"
      BY <1>1, <1>2 DEF WorkStep, WorkBegins, WorkEnds, Ended, Dated
    <3>2. PICK amount \in Nat :
             /\ \A d \in Billed \ {c} : work'[d] = work[d]
             /\ spent' = spent + amount /\ torn' = (torn \/ (amount > 0 /\ balance >= 0))
      BY <1>1, <1>2, WorkBegun, WorkEnded DEF WorkStep
    <3>3. ~torn /\ ~(amount > 0 /\ balance >= 0)
      BY <2>2, <3>2
    <3>4. balance # -1 => amount = 0
      BY <1>1, <3>3 DEF UsageTypes
    <3> QED BY <1>1, <3>1, <3>2, <3>3, <3>4 DEF UsageTypes
  <2>3. \A s \in snapshots' : s.at <= now'
    BY <1>1, <2>1
  <2> QED BY <1>2, <2>1, <2>2, <2>3, WorkKeepsBalances DEF UsageInv
<1>3. ASSUME NEW c \in Billed, RowStep(c)  PROVE UsageInv'
  <2>1. UsageTypes' /\ \A d \in Billed : Dated(d)'
    BY <1>1, <1>3, RowTyped
  <2>2. /\ UNCHANGED <<work, spent, balance, snapshots, torn>> /\ now' \in Nat /\ now <= now'
        /\ \A d \in Billed \ {c} : row'[d] = row[d]
    BY <1>1, <1>3, RowStepped
  <2>3. \A s \in snapshots' : s.at <= now'
    BY <1>1, <2>2
  <2>4. ASSUME ~torn, row'[c].truth = "ACTUAL"  PROVE row'[c].credits = work'[c].charge
    <3>1. CASE Reserve(c)
      <4>1. row[c] \in UsageRow /\ row[c].truth = row'[c].truth /\ row[c].credits = row'[c].credits
        BY <1>1, <3>1 DEF Reserve, UsageTypes, UsageRow
      <4> QED BY <2>2, <2>4, <4>1 DEF UsageInv
    <3>2. CASE ReconcileCall(c)
      <4>1. work[c].charge \in Nat /\ {"ACTUAL", "NOT_APPLICABLE", "UNRESOLVED"} \subseteq Truths
        BY <1>1 DEF UsageTypes, UsageWork, Truths
      <4>2. CASE Known(c, "ACTUAL", work[c].charge)
        BY <1>1, <2>2, <4>1, <4>2, KnownRow
      <4>3. ASSUME NEW truth \in {"NOT_APPLICABLE", "UNRESOLVED"}, Known(c, truth, 0)  PROVE FALSE
        BY <1>1, <2>4, <4>1, <4>3, KnownRow
      <4> QED BY <3>2, <4>2, <4>3 DEF ReconcileCall
    <3>3. CASE ResolveByBalance(c)
      BY <2>2, <2>4, <3>3, BalanceTells
    <3> QED BY <1>3, <3>1, <3>2, <3>3 DEF RowStep
  <2> QED BY <1>3, <2>1, <2>2, <2>3, <2>4, RowKeepsBalances DEF UsageInv
<1>4. CASE ReadBalance \/ InsertSnapshot
  BY <1>4, SnapshotKept
<1>5. CASE UNCHANGED usageVars
  BY <1>5 DEF usageVars, UsageInv, UsageTypes, Dated, Ended, SinceSnapshot, BetweenSnapshots, Before, Elsewhere
<1> QED BY <1>2, <1>3, <1>4, <1>5 DEF UsageNext, WorkStep, RowStep

LEMMA UsageBegins == UsageInit => UsageInv
<1> SUFFICES ASSUME UsageInit  PROVE UsageInv
  OBVIOUS
<1>1. UsageTypes
  BY DEF UsageInit, UsageTypes, UsageRow, UsageWork, RowStatuses, Truths
<1>2. ASSUME NEW c \in Billed  PROVE Dated(c) /\ row[c].truth = "PENDING"
  BY DEF UsageInit, Dated, Ended
<1> QED BY <1>1, <1>2 DEF UsageInit, UsageInv

(* A cost on record is the charge of that call, for any calls, prices and  *)
(* snapshots around it: resolve_missing_genx_usage.                        *)
THEOREM CostOfThisCall == UsageSpec => []CostIsOfThisCall
<1>1. UsageInv => CostIsOfThisCall
  BY DEF UsageInv, CostIsOfThisCall
<1> QED BY <1>1, UsageBegins, UsageKept, PTL DEF UsageSpec

-----------------------------------------------------------------------------
(* The models a worker asks for a report from the web.                      *)

AskedRow == [model : Models, attempt : Nat, repair : Nat,
             row : {"SUBMITTING", "SUBMITTED", "COMPLETED", "FAILED", "UNKNOWN_REMOTE_STATE"},
             truth : {"PENDING", "ACTUAL", "NOT_APPLICABLE", "UNRESOLVED"},
             remote : {"none", "running", "done", "failed"},
             error : {"none", "compatibility", "transient", "other"}, charge : 0..1]
ErrandStates == {"READY", "EXECUTING", "NEEDS_REPAIR", "FAILED", "BLOCKED", "QA_PASSED"}
ResearchTypes ==
    /\ asked \in Seq(AskedRow)
    /\ inquiry \in [step : {"idle", "choose", "send", "sent", "wait", "judge", "read"},
                    tried : Nat, excluded : SUBSET Models]
    /\ errand \in [state : ErrandStates, attempts : Nat, repairs : Nat]

(* What a row says of its work; rows are of this attempt or an earlier one.*)
Works(c) == c.remote \in {"running", "done"}
RowSound(c) ==
    /\ c.attempt <= errand.attempts /\ c.repair <= errand.repairs
    /\ c.remote \in {"none", "running"} => c.charge = 0
    /\ c.row = "FAILED" => ~Works(c)

(* The row stands in nobody's way: the next model may be asked.            *)
Past(c) == (MayCost(c) => c.attempt < errand.attempts) /\ (Works(c) => c.repair < errand.repairs)

(* Where the worker is: the rows behind its own are past, and its own is   *)
(* not at work before it is sent and unpaid after it failed for free.      *)
InquirySound ==
    /\ inquiry.step # "idle" => errand.state = "EXECUTING"
    /\ errand.state = "READY" => \A i \in DOMAIN asked : ~Works(asked[i])
    /\ inquiry.step \notin {"idle", "choose"} => asked # <<>>
    /\ inquiry.step # "idle" =>
          \A i \in DOMAIN asked : i < Len(asked) \/ inquiry.step = "choose" => Past(asked[i])
    /\ inquiry.step = "send" => asked[LastCall].remote = "none" /\ asked[LastCall].row = "SUBMITTING"
    /\ inquiry.step = "judge" =>
          /\ asked[LastCall].remote = "failed" /\ asked[LastCall].row = "FAILED"
          /\ asked[LastCall].charge > 0 => asked[LastCall].truth = "ACTUAL"

ResearchInv ==
    /\ ResearchTypes /\ (\A i \in DOMAIN asked : RowSound(asked[i]))
    /\ InquirySound /\ PaidOncePerAttempt

LEMMA AskedSet ==
    ASSUME asked \in Seq(AskedRow), NEW i \in DOMAIN asked, NEW x \in AskedRow, asked' = [asked EXCEPT ![i] = x]
    PROVE  /\ asked' \in Seq(AskedRow) /\ Len(asked') = Len(asked) /\ DOMAIN asked' = DOMAIN asked
           /\ DOMAIN asked = 1..Len(asked) /\ Len(asked) \in Nat
           /\ asked'[i] = x /\ \A k \in DOMAIN asked : k # i => asked'[k] = asked[k]
<1>1. DOMAIN asked = 1..Len(asked) /\ Len(asked) \in Nat /\ \A k \in DOMAIN asked : asked[k] \in AskedRow
  OBVIOUS
<1>2. DOMAIN asked' = DOMAIN asked /\ asked'[i] = x /\ \A k \in DOMAIN asked : k # i => asked'[k] = asked[k]
  OBVIOUS
<1>3. asked' \in [1..Len(asked) -> AskedRow]
  BY <1>1, <1>2
<1>4. asked' \in Seq(AskedRow) /\ Len(asked') = Len(asked)
  BY <1>1, <1>3
<1> QED BY <1>1, <1>2, <1>4

(* A row changes and no earlier one begins to work or to cost: the calls   *)
(* stay sound, and rows of the past stay there.                            *)
LEMMA OneRow ==
    ASSUME ResearchInv, NEW i \in DOMAIN asked, NEW x \in AskedRow, asked' = [asked EXCEPT ![i] = x],
           x.attempt = asked[i].attempt, x.repair = asked[i].repair,
           MayCost(x) => MayCost(asked[i]) \/ i = Len(asked),
           Works(x) => Works(asked[i]) \/ i = Len(asked),
           x.remote \in {"none", "running"} => x.charge = 0, x.row = "FAILED" => ~Works(x),
           errand'.attempts = errand.attempts, errand'.repairs = errand.repairs
    PROVE  /\ asked' \in Seq(AskedRow) /\ Len(asked') = Len(asked) /\ DOMAIN asked' = DOMAIN asked
           /\ asked'[i] = x /\ \A k \in DOMAIN asked : k # i => asked'[k] = asked[k]
           /\ \A k \in DOMAIN asked : RowSound(asked[k])'
           /\ \A k \in DOMAIN asked : k < Len(asked) /\ Past(asked[k]) => Past(asked[k])'
           /\ PaidOncePerAttempt'
<1>1. /\ asked' \in Seq(AskedRow) /\ Len(asked') = Len(asked) /\ DOMAIN asked' = DOMAIN asked
      /\ DOMAIN asked = 1..Len(asked) /\ Len(asked) \in Nat
      /\ asked'[i] = x /\ \A k \in DOMAIN asked : k # i => asked'[k] = asked[k]
  BY AskedSet DEF ResearchInv, ResearchTypes
<1>2. \A k \in DOMAIN asked : RowSound(asked[k]) /\ asked'[k].attempt = asked[k].attempt
                              /\ asked'[k].repair = asked[k].repair
  BY <1>1 DEF ResearchInv
<1>3. \A k \in DOMAIN asked : k < Len(asked) =>
          (MayCost(asked'[k]) => MayCost(asked[k])) /\ (Works(asked'[k]) => Works(asked[k]))
  BY <1>1
<1>4. ASSUME NEW k \in DOMAIN asked  PROVE RowSound(asked[k])'
  BY <1>1, <1>2 DEF RowSound, Works
<1>5. ASSUME NEW k \in DOMAIN asked, k < Len(asked), Past(asked[k])  PROVE Past(asked[k])'
  <2>1. MayCost(asked'[k]) => asked'[k].attempt < errand'.attempts
    BY <1>2, <1>3, <1>5 DEF Past
  <2>2. Works(asked'[k]) => asked'[k].repair < errand'.repairs
    BY <1>2, <1>3, <1>5 DEF Past
  <2> QED BY <2>1, <2>2 DEF Past, MayCost, Works
<1>6. PaidOncePerAttempt'
  <2>1. SUFFICES ASSUME NEW j \in DOMAIN asked, NEW k \in 1..(j - 1)
                 PROVE  /\ MayCost(asked'[k]) => asked'[k].attempt < asked'[j].attempt
                        /\ Works(asked'[k]) => asked'[k].repair < asked'[j].repair
    BY <1>1 DEF PaidOncePerAttempt, Works, MayCost
  <2>2. k \in DOMAIN asked /\ k < Len(asked)
    BY <1>1
  <2>3. /\ MayCost(asked[k]) => asked[k].attempt < asked[j].attempt
        /\ Works(asked[k]) => asked[k].repair < asked[j].repair
    BY DEF ResearchInv, PaidOncePerAttempt, Works
  <2> QED BY <1>2, <1>3, <2>2, <2>3
<1> QED BY <1>1, <1>4, <1>5, <1>6

(* The row the worker writes.                                              *)
LEMMA LastRow ==
    ASSUME ResearchInv, inquiry.step \notin {"idle", "choose"}
    PROVE  /\ LastCall \in DOMAIN asked /\ LastCall = Len(asked) /\ asked[LastCall] \in AskedRow
           /\ RowSound(asked[LastCall]) /\ errand.state = "EXECUTING"
           /\ \A k \in DOMAIN asked : k < Len(asked) => Past(asked[k])
<1>1. asked \in Seq(AskedRow) /\ asked # <<>>
  BY DEF ResearchInv, ResearchTypes, InquirySound
<1>2. Len(asked) \in DOMAIN asked
  BY <1>1
<1>3. asked[Len(asked)] \in AskedRow
  BY <1>1, <1>2
<1> QED BY <1>2, <1>3 DEF LastCall, ResearchInv, InquirySound

LEMMA EndedInquiry ==
    ASSUME ResearchTypes, NEW next \in ErrandStates, EndInquiry(next)
    PROVE  /\ inquiry' = NoInquiry /\ errand' \in [state : ErrandStates, attempts : Nat, repairs : Nat]
           /\ errand'.state = next /\ errand'.attempts = errand.attempts /\ errand'.repairs = errand.repairs
BY DEF ResearchTypes, EndInquiry

(* The worker gives up a call: it was refused, or the answer is lost.      *)
LEMMA CallAbandoned ==
    ASSUME ResearchInv, SessionRefused \/ LosesTrack
    PROVE  ResearchInv'
<1>1. inquiry.step \in {"send", "sent", "wait"} /\ EndInquiry("FAILED")
  BY DEF SessionRefused, LosesTrack
<1>2. ResearchTypes /\ "FAILED" \in ErrandStates
  BY DEF ResearchInv, ErrandStates
<1>3. LastCall \in DOMAIN asked /\ LastCall = Len(asked) /\ asked[LastCall] \in AskedRow /\ RowSound(asked[LastCall])
  BY <1>1, LastRow
<1>4. asked[LastCall] \in AskedRow
  BY <1>3
<1>5. /\ inquiry' = NoInquiry /\ errand' \in [state : ErrandStates, attempts : Nat, repairs : Nat]
      /\ errand'.state = "FAILED" /\ errand'.attempts = errand.attempts /\ errand'.repairs = errand.repairs
  BY <1>1, <1>2, EndedInquiry
<1>6. PICK x \in AskedRow :
         /\ asked' = [asked EXCEPT ![LastCall] = x] /\ x.attempt = asked[LastCall].attempt
         /\ x.repair = asked[LastCall].repair /\ x.remote = asked[LastCall].remote /\ x.charge = asked[LastCall].charge
         /\ x.row = "FAILED" => x.remote = "none"
  <2>1. CASE SessionRefused
    <3> DEFINE x == [asked[LastCall] EXCEPT !.row = "FAILED", !.truth = "NOT_APPLICABLE"]
    <3>1. asked' = [asked EXCEPT ![LastCall] = x]
      BY <1>3, <2>1 DEF SessionRefused, Refused
    <3>2. asked[LastCall].remote = "none"
      BY <2>1 DEF SessionRefused, ResearchInv, InquirySound
    <3>3. /\ x \in AskedRow /\ x.attempt = asked[LastCall].attempt /\ x.repair = asked[LastCall].repair
          /\ x.remote = asked[LastCall].remote /\ x.charge = asked[LastCall].charge
      BY <1>4 DEF AskedRow
    <3> HIDE DEF x
    <3> QED BY <3>1, <3>2, <3>3
  <2>2. CASE LosesTrack
    <3> DEFINE x == [asked[LastCall] EXCEPT !.row = "UNKNOWN_REMOTE_STATE"]
    <3>1. asked' = [asked EXCEPT ![LastCall] = x]
      BY <1>3, <2>2 DEF LosesTrack
    <3>2. /\ x \in AskedRow /\ x.attempt = asked[LastCall].attempt /\ x.repair = asked[LastCall].repair
          /\ x.remote = asked[LastCall].remote /\ x.charge = asked[LastCall].charge /\ x.row # "FAILED"
      BY <1>4 DEF AskedRow
    <3> HIDE DEF x
    <3> QED BY <3>1, <3>2
  <2> QED BY <2>1, <2>2
<1>7. /\ asked' \in Seq(AskedRow) /\ DOMAIN asked' = DOMAIN asked
      /\ (\A k \in DOMAIN asked : RowSound(asked[k])') /\ PaidOncePerAttempt'
  BY <1>3, <1>5, <1>6, OneRow DEF MayCost, Works, RowSound
<1>8. ResearchTypes'
  BY <1>5, <1>7 DEF ResearchTypes, NoInquiry
<1>9. InquirySound'
  BY <1>5 DEF InquirySound, NoInquiry
<1> QED BY <1>7, <1>8, <1>9 DEF ResearchInv

(* The worker tries another model: the last one was not paid for.          *)
LEMMA NextModel ==
    ASSUME ResearchInv, inquiry.step \in {"send", "judge"}, NEW x \in AskedRow, NEW m \in Models, NEW what,
           asked' = [asked EXCEPT ![LastCall] = x], x.attempt = asked[LastCall].attempt,
           x.repair = asked[LastCall].repair, ~MayCost(x), ~Works(x), x.charge = 0, TryNext(m, what)
    PROVE  ResearchInv'
<1>1. LastCall \in DOMAIN asked /\ LastCall = Len(asked) /\ errand.state = "EXECUTING"
      /\ \A k \in DOMAIN asked : k < Len(asked) => Past(asked[k])
  BY LastRow
<1>2. /\ UNCHANGED errand /\ inquiry'.step = "choose"
      /\ inquiry' \in [step : {"idle", "choose", "send", "sent", "wait", "judge", "read"},
                        tried : Nat, excluded : SUBSET Models]
  BY DEF TryNext, ResearchInv, ResearchTypes
<1>3. /\ asked' \in Seq(AskedRow) /\ Len(asked') = Len(asked) /\ DOMAIN asked' = DOMAIN asked
      /\ asked'[LastCall] = x
      /\ \A k \in DOMAIN asked : RowSound(asked[k])'
      /\ \A k \in DOMAIN asked : k < Len(asked) /\ Past(asked[k]) => Past(asked[k])'
      /\ PaidOncePerAttempt'
  BY <1>1, <1>2, OneRow
<1>4. ResearchTypes'
  BY <1>2, <1>3 DEF ResearchInv, ResearchTypes
<1>5. ASSUME NEW k \in DOMAIN asked  PROVE Past(asked[k])'
  <2>1. k < Len(asked) \/ k = LastCall
    BY <1>1 DEF ResearchInv, ResearchTypes
  <2>2. CASE k = LastCall
    <3>1. asked'[k] = x
      BY <1>3, <2>2
    <3> QED BY <3>1 DEF Past, MayCost, Works
  <2>3. CASE k < Len(asked)
    BY <1>1, <1>3, <2>3
  <2> QED BY <2>1, <2>2, <2>3
<1>6. \A k \in DOMAIN asked : Past(asked[k])'
  BY <1>5
<1>7. InquirySound'
  BY <1>1, <1>2, <1>3, <1>6 DEF InquirySound
<1> QED BY <1>3, <1>4, <1>7 DEF ResearchInv

(* The gateway or the poller changes a call and the worker does not move.  *)
LEMMA RowFinishes ==
    ASSUME ResearchInv, NEW i \in DOMAIN asked, NEW x \in AskedRow, asked' = [asked EXCEPT ![i] = x],
           x.attempt = asked[i].attempt, x.repair = asked[i].repair,
           MayCost(x) => MayCost(asked[i]), Works(x) => Works(asked[i]),
           x.remote \in {"none", "running"} => x.charge = 0, x.row = "FAILED" => ~Works(x),
           i = Len(asked) => inquiry.step \notin {"send", "judge"}, UNCHANGED <<inquiry, errand>>
    PROVE  ResearchInv'
<1>1. /\ asked' \in Seq(AskedRow) /\ Len(asked') = Len(asked) /\ DOMAIN asked' = DOMAIN asked
      /\ asked'[i] = x /\ \A k \in DOMAIN asked : k # i => asked'[k] = asked[k]
      /\ \A k \in DOMAIN asked : RowSound(asked[k])'
      /\ PaidOncePerAttempt'
  BY OneRow
<1>2. Len(asked) \in Nat /\ DOMAIN asked = 1..Len(asked)
  BY DEF ResearchInv, ResearchTypes
<1>3. ASSUME NEW k \in DOMAIN asked, Past(asked[k])  PROVE Past(asked[k])'
  <2>1. CASE k = i
    <3>1. /\ MayCost(asked'[k]) => asked'[k].attempt < errand.attempts
          /\ Works(asked'[k]) => asked'[k].repair < errand.repairs
      BY <1>1, <1>3, <2>1 DEF Past
    <3> QED BY <3>1 DEF Past, MayCost, Works
  <2>2. CASE k # i
    <3>1. asked'[k] = asked[k]
      BY <1>1, <2>2
    <3> QED BY <1>3, <3>1 DEF Past, MayCost, Works
  <2> QED BY <2>1, <2>2
<1>4. \A k \in DOMAIN asked : Works(asked'[k]) => Works(asked[k])
  BY <1>1
<1>5. ResearchTypes'
  BY <1>1 DEF ResearchInv, ResearchTypes
<1>6. inquiry.step \in {"send", "judge"} => asked'[Len(asked)] = asked[Len(asked)]
  <2>1. inquiry.step \in {"send", "judge"} => Len(asked) \in DOMAIN asked
    BY LastRow DEF LastCall
  <2> QED BY <1>1, <2>1
<1>7. InquirySound'
  <2>1. errand'.state = "READY" => \A k \in DOMAIN asked' : ~Works(asked'[k])
    BY <1>1, <1>4 DEF ResearchInv, InquirySound
  <2>2. inquiry'.step # "idle" =>
          \A k \in DOMAIN asked' : k < Len(asked') \/ inquiry'.step = "choose" => Past(asked[k])'
    BY <1>1, <1>3 DEF ResearchInv, InquirySound
  <2>3. inquiry'.step \notin {"idle", "choose"} => asked' # <<>>
    <3>1. asked # <<>> => asked' # <<>>
      BY <1>1, <1>2
    <3> QED BY <3>1 DEF ResearchInv, InquirySound
  <2>4. /\ inquiry'.step = "send" => asked'[Len(asked')].remote = "none" /\ asked'[Len(asked')].row = "SUBMITTING"
        /\ inquiry'.step = "judge" =>
             /\ asked'[Len(asked')].remote = "failed" /\ asked'[Len(asked')].row = "FAILED"
             /\ asked'[Len(asked')].charge > 0 => asked'[Len(asked')].truth = "ACTUAL"
    BY <1>1, <1>6 DEF ResearchInv, InquirySound, LastCall
  <2>5. inquiry'.step # "idle" => errand'.state = "EXECUTING"
    BY DEF ResearchInv, InquirySound
  <2> QED BY <2>1, <2>2, <2>3, <2>4, <2>5 DEF InquirySound, Works, LastCall
<1> QED BY <1>1, <1>5, <1>7 DEF ResearchInv

(* The worker's own call goes on: sent, recorded, answered.                *)
LEMMA LastCallMoves ==
    ASSUME ResearchInv, inquiry.step \in {"send", "sent", "wait"}, NEW x \in AskedRow,
           asked' = [asked EXCEPT ![LastCall] = x],
           x.attempt = asked[LastCall].attempt, x.repair = asked[LastCall].repair,
           x.remote \in {"none", "running"} => x.charge = 0, x.row = "FAILED" => ~Works(x),
           NEW step \in {"sent", "wait", "read", "judge"}, inquiry' = [inquiry EXCEPT !.step = step],
           step = "judge" => x.remote = "failed" /\ x.row = "FAILED" /\ (x.charge > 0 => x.truth = "ACTUAL"),
           UNCHANGED errand
    PROVE  ResearchInv'
<1>1. LastCall \in DOMAIN asked /\ LastCall = Len(asked) /\ errand.state = "EXECUTING"
      /\ \A k \in DOMAIN asked : k < Len(asked) => Past(asked[k])
  BY LastRow
<1>2. /\ asked' \in Seq(AskedRow) /\ Len(asked') = Len(asked) /\ DOMAIN asked' = DOMAIN asked
      /\ asked'[LastCall] = x
      /\ \A k \in DOMAIN asked : RowSound(asked[k])'
      /\ \A k \in DOMAIN asked : k < Len(asked) /\ Past(asked[k]) => Past(asked[k])'
      /\ PaidOncePerAttempt'
  BY <1>1, OneRow
<1>3. inquiry'.step = step /\ inquiry' \in [step : {"idle", "choose", "send", "sent", "wait", "judge", "read"},
                                            tried : Nat, excluded : SUBSET Models]
  BY DEF ResearchInv, ResearchTypes
<1>4. ResearchTypes'
  BY <1>2, <1>3 DEF ResearchInv, ResearchTypes
<1>5. InquirySound'
  <2>1. asked' # <<>>
    BY <1>1, <1>2
  <2>2. asked'[Len(asked')] = x
    BY <1>1, <1>2
  <2> QED BY <1>1, <1>2, <1>3, <2>1, <2>2 DEF InquirySound, LastCall
<1> QED BY <1>2, <1>4, <1>5 DEF ResearchInv

(* The work of a call ends at the gateway, done or failed.                 *)
LEMMA WorkEndsThere ==
    ASSUME ResearchInv, NEW i \in DOMAIN asked, RemoteEnds(i)
    PROVE  ResearchInv'
<1>1. /\ asked[i] \in AskedRow /\ asked[i].remote = "running" /\ UNCHANGED <<inquiry, errand>>
      /\ RowSound(asked[i]) /\ MayCost(asked[i]) /\ Works(asked[i])
  BY DEF RemoteEnds, ResearchInv, ResearchTypes, MayCost, Works
<1>2. asked[i].row # "FAILED"
  BY <1>1 DEF RowSound
<1>3. i = Len(asked) => inquiry.step \notin {"send", "judge"}
  BY <1>1 DEF ResearchInv, InquirySound, LastCall
<1>4. ASSUME NEW x \in AskedRow, asked' = [asked EXCEPT ![i] = x], x.attempt = asked[i].attempt,
             x.repair = asked[i].repair, x.remote \in {"done", "failed"}, x.row = asked[i].row
      PROVE  ResearchInv'
  BY <1>1, <1>2, <1>3, <1>4, RowFinishes
<1>5. CASE asked' = [asked EXCEPT ![i].remote = "done", ![i].charge = 1]
  <2> DEFINE paid == 1
             x == [asked[i] EXCEPT !.remote = "done", !.charge = paid]
  <2>1. asked' = [asked EXCEPT ![i] = x]
    BY <1>5
  <2>2. paid \in 0..1 /\ asked[i] \in AskedRow
    BY <1>1
  <2> HIDE DEF paid
  <2>3. /\ x \in AskedRow /\ x.attempt = asked[i].attempt /\ x.repair = asked[i].repair
        /\ x.remote \in {"done", "failed"} /\ x.row = asked[i].row
    BY <2>2 DEF AskedRow
  <2> HIDE DEF x
  <2> QED BY <1>4, <2>1, <2>3
<1>6. ASSUME NEW error \in {"compatibility", "transient", "other"}, NEW charge \in 0..1,
             asked' = [asked EXCEPT ![i].remote = "failed", ![i].error = error, ![i].charge = charge]
      PROVE  ResearchInv'
  <2> DEFINE x == [asked[i] EXCEPT !.remote = "failed", !.error = error, !.charge = charge]
  <2>1. asked' = [asked EXCEPT ![i] = x]
    BY <1>6
  <2>2. /\ x \in AskedRow /\ x.attempt = asked[i].attempt /\ x.repair = asked[i].repair
        /\ x.remote \in {"done", "failed"} /\ x.row = asked[i].row
    BY <1>1 DEF AskedRow
  <2> HIDE DEF x
  <2> QED BY <1>4, <2>1, <2>2
<1> QED BY <1>5, <1>6 DEF RemoteEnds

(* What the answer of the gateway writes into a row.                       *)
LEMMA AnswerWritten ==
    ASSUME asked \in Seq(AskedRow), NEW i \in DOMAIN asked, NEW known \in BOOLEAN, ReconcileAnswered(i, known)
    PROVE  /\ asked[i].remote \in {"done", "failed"}
           /\ \E x \in AskedRow :
                 /\ asked' = [asked EXCEPT ![i] = x] /\ x.attempt = asked[i].attempt /\ x.repair = asked[i].repair
                 /\ x.remote = asked[i].remote /\ x.charge = asked[i].charge
                 /\ x.row = "FAILED" <=> x.remote = "failed"
                 /\ x.remote = "failed" /\ x.charge > 0 => x.truth = "ACTUAL"
<1> DEFINE end == IF asked[i].remote = "done" THEN "COMPLETED" ELSE "FAILED"
           truth == Truth(asked[i], known)
           x == [asked[i] EXCEPT !.row = end, !.truth = truth]
<1>1. asked[i] \in AskedRow /\ asked[i].remote \in {"done", "failed"}
  BY DEF ReconcileAnswered
<1>2. asked' = [asked EXCEPT ![i] = x]
  BY DEF ReconcileAnswered
<1>3. /\ truth \in {"ACTUAL", "NOT_APPLICABLE", "UNRESOLVED"}
      /\ asked[i].remote = "failed" /\ asked[i].charge > 0 => truth = "ACTUAL"
  BY DEF Truth
<1>4. end \in {"COMPLETED", "FAILED"} /\ (end = "FAILED" <=> asked[i].remote = "failed")
  BY <1>1
<1> HIDE DEF end, truth
<1>5. /\ x \in AskedRow /\ x.attempt = asked[i].attempt /\ x.repair = asked[i].repair
      /\ x.remote = asked[i].remote /\ x.charge = asked[i].charge /\ x.row = end /\ x.truth = truth
  BY <1>1, <1>3, <1>4 DEF AskedRow
<1> HIDE DEF x
<1> QED BY <1>1, <1>2, <1>3, <1>4, <1>5

LEMMA AnswerPolled ==
    ASSUME ResearchInv, NEW i \in DOMAIN asked, NEW known \in BOOLEAN, PollAsked(i, known)
    PROVE  ResearchInv'
<1>1. asked[i] \in AskedRow /\ ReconcileAnswered(i, known) /\ UNCHANGED <<inquiry, errand>> /\ asked \in Seq(AskedRow)
      /\ asked[i].row \in {"SUBMITTED", "UNKNOWN_REMOTE_STATE", "COMPLETED"}
  BY DEF PollAsked, ResearchInv, ResearchTypes
<1>2. i = Len(asked) => inquiry.step \notin {"send", "judge"}
  BY <1>1 DEF ResearchInv, InquirySound, LastCall
<1>3. asked[i].remote \in {"done", "failed"}
  BY <1>1, AnswerWritten
<1>4. PICK x \in AskedRow :
         /\ asked' = [asked EXCEPT ![i] = x] /\ x.attempt = asked[i].attempt /\ x.repair = asked[i].repair
         /\ x.remote = asked[i].remote /\ x.charge = asked[i].charge
         /\ x.row = "FAILED" <=> x.remote = "failed"
  BY <1>1, AnswerWritten
<1>5. /\ MayCost(x) => MayCost(asked[i])
      /\ Works(x) => Works(asked[i])
      /\ x.row = "FAILED" => ~Works(x)
      /\ x.remote \notin {"none", "running"}
  BY <1>3, <1>4 DEF MayCost, Works
<1> QED BY <1>1, <1>2, <1>4, <1>5, RowFinishes

LEMMA AnswerAwaited ==
    ASSUME ResearchInv, NEW known \in BOOLEAN, WaitEnds(known)
    PROVE  ResearchInv'
<1>1. /\ inquiry.step = "wait" /\ ReconcileAnswered(LastCall, known) /\ asked \in Seq(AskedRow) /\ UNCHANGED errand
      /\ inquiry' = [inquiry EXCEPT !.step = IF asked[LastCall].remote = "done" THEN "read" ELSE "judge"]
  BY DEF WaitEnds, ResearchInv, ResearchTypes
<1>2. LastCall \in DOMAIN asked
  BY <1>1, LastRow
<1>3. asked[LastCall].remote \in {"done", "failed"}
  BY <1>1, <1>2, AnswerWritten
<1>4. PICK x \in AskedRow :
         /\ asked' = [asked EXCEPT ![LastCall] = x] /\ x.attempt = asked[LastCall].attempt
         /\ x.repair = asked[LastCall].repair /\ x.remote = asked[LastCall].remote
         /\ x.charge = asked[LastCall].charge /\ (x.row = "FAILED" <=> x.remote = "failed")
         /\ x.remote = "failed" /\ x.charge > 0 => x.truth = "ACTUAL"
  BY <1>1, <1>2, AnswerWritten
<1>5. PICK step \in {"sent", "wait", "read", "judge"} :
         /\ inquiry' = [inquiry EXCEPT !.step = step]
         /\ step = "judge" => asked[LastCall].remote # "done"
  BY <1>1
<1>6. /\ x.row = "FAILED" => ~Works(x)
      /\ x.remote \notin {"none", "running"}
      /\ step = "judge" => x.remote = "failed" /\ x.row = "FAILED" /\ (x.charge > 0 => x.truth = "ACTUAL")
  BY <1>3, <1>4, <1>5 DEF Works
<1> QED BY <1>1, <1>4, <1>5, <1>6, LastCallMoves

(* The message goes out, and its acceptance is recorded.                   *)
LEMMA MessageGoesOn ==
    ASSUME ResearchInv, MessageSent \/ MessageRecorded
    PROVE  ResearchInv'
<1>1. /\ inquiry.step \in {"send", "sent", "wait"} /\ UNCHANGED errand
      /\ asked[LastCall] \in AskedRow /\ RowSound(asked[LastCall])
  BY LastRow DEF MessageSent, MessageRecorded
<1>2. CASE MessageSent
  <2> DEFINE x == [asked[LastCall] EXCEPT !.remote = "running"]
  <2>1. asked' = [asked EXCEPT ![LastCall] = x] /\ inquiry' = [inquiry EXCEPT !.step = "sent"]
    BY <1>2 DEF MessageSent
  <2>2. asked[LastCall].remote = "none" /\ asked[LastCall].row = "SUBMITTING" /\ asked[LastCall].charge = 0
    BY <1>1, <1>2 DEF MessageSent, ResearchInv, InquirySound, RowSound
  <2>3. /\ x \in AskedRow /\ x.attempt = asked[LastCall].attempt /\ x.repair = asked[LastCall].repair
        /\ x.charge = 0 /\ x.row = "SUBMITTING"
    BY <1>1, <2>2 DEF AskedRow
  <2> HIDE DEF x
  <2> QED BY <1>1, <2>1, <2>3, LastCallMoves
<1>3. CASE MessageRecorded
  <2> DEFINE x == [asked[LastCall] EXCEPT !.row = "SUBMITTED"]
  <2>1. asked' = [asked EXCEPT ![LastCall] = x] /\ inquiry' = [inquiry EXCEPT !.step = "wait"]
    BY <1>3 DEF MessageRecorded
  <2>2. /\ x \in AskedRow /\ x.attempt = asked[LastCall].attempt /\ x.repair = asked[LastCall].repair
        /\ x.charge = asked[LastCall].charge /\ x.remote = asked[LastCall].remote /\ x.row = "SUBMITTED"
    BY <1>1 DEF AskedRow
  <2>3. x.remote \in {"none", "running"} => x.charge = 0
    BY <1>1, <2>2 DEF RowSound
  <2> HIDE DEF x
  <2> QED BY <1>1, <2>1, <2>2, <2>3, LastCallMoves
<1> QED BY <1>2, <1>3

(* The attempt ends, and no call changes.                                  *)
LEMMA AttemptEnds ==
    ASSUME ResearchInv, UNCHANGED asked, NEW next \in ErrandStates \ {"READY"}, EndInquiry(next)
    PROVE  ResearchInv'
<1>1. /\ inquiry' = NoInquiry /\ errand' \in [state : ErrandStates, attempts : Nat, repairs : Nat]
      /\ errand'.state = next /\ errand'.attempts = errand.attempts /\ errand'.repairs = errand.repairs
  BY EndedInquiry DEF ResearchInv
<1>2. ResearchTypes'
  BY <1>1 DEF ResearchInv, ResearchTypes, NoInquiry
<1>3. InquirySound'
  BY <1>1 DEF InquirySound, NoInquiry
<1>4. \A k \in DOMAIN asked' : RowSound(asked[k])'
  BY <1>1 DEF ResearchInv, RowSound, Works
<1>5. PaidOncePerAttempt'
  BY DEF ResearchInv, PaidOncePerAttempt, MayCost
<1> QED BY <1>2, <1>3, <1>4, <1>5 DEF ResearchInv

(* The gateway refuses the message: the call was never at work.            *)
LEMMA MessageIsRefused ==
    ASSUME ResearchInv, MessageRefused
    PROVE  ResearchInv'
<1>1. /\ inquiry.step = "send" /\ asked' = Refused /\ TryNext(asked[LastCall].model, "REJECTED")
      /\ asked[LastCall] \in AskedRow /\ RowSound(asked[LastCall])
  BY LastRow DEF MessageRefused
<1>2. asked[LastCall].remote = "none" /\ asked[LastCall].charge = 0
  BY <1>1 DEF ResearchInv, InquirySound, RowSound
<1> DEFINE x == [asked[LastCall] EXCEPT !.row = "FAILED", !.truth = "NOT_APPLICABLE"]
           m == asked[LastCall].model
<1>3. asked' = [asked EXCEPT ![LastCall] = x] /\ TryNext(m, "REJECTED")
  BY <1>1 DEF Refused
<1>4. /\ x \in AskedRow /\ x.attempt = asked[LastCall].attempt /\ x.repair = asked[LastCall].repair
      /\ x.charge = 0 /\ x.remote = "none" /\ m \in Models
  BY <1>1, <1>2 DEF AskedRow
<1> HIDE DEF x, m
<1>5. ~MayCost(x) /\ ~Works(x)
  BY <1>4 DEF MayCost, Works
<1> QED BY <1>1, <1>3, <1>4, <1>5, NextModel

(* A failure is judged: the next model is asked after a confirmed free one,*)
(* and any other ends the attempt.                                         *)
LEMMA FailureIsJudged ==
    ASSUME ResearchInv, JudgeFailure
    PROVE  ResearchInv'
<1>1. /\ inquiry.step = "judge" /\ asked[LastCall] \in AskedRow
      /\ asked[LastCall].remote = "failed"
      /\ asked[LastCall].charge > 0 => asked[LastCall].truth = "ACTUAL"
  BY LastRow DEF JudgeFailure, ResearchInv, InquirySound
<1>2. CASE ConfirmedFree(asked[LastCall])
  <2> DEFINE x == [asked[LastCall] EXCEPT !.truth = "NOT_APPLICABLE"]
             m == asked[LastCall].model
  <2>1. asked[LastCall].charge = 0
    BY <1>1, <1>2 DEF ConfirmedFree, AskedRow
  <2>2. asked' = [asked EXCEPT ![LastCall] = x]
    BY <1>2 DEF JudgeFailure
  <2>3. \E what : TryNext(m, what)
    BY <1>2 DEF JudgeFailure
  <2>4. /\ x \in AskedRow /\ x.attempt = asked[LastCall].attempt /\ x.repair = asked[LastCall].repair
        /\ x.charge = 0 /\ x.remote = "failed" /\ m \in Models
    BY <1>1, <2>1 DEF AskedRow
  <2> HIDE DEF x, m
  <2>5. ~MayCost(x) /\ ~Works(x)
    BY <2>4 DEF MayCost, Works
  <2> QED BY <1>1, <2>2, <2>3, <2>4, <2>5, NextModel
<1>3. CASE ~ConfirmedFree(asked[LastCall])
  BY <1>3, AttemptEnds DEF JudgeFailure, ErrandStates
<1> QED BY <1>2, <1>3

(* A new attempt begins: what earlier ones did is past.                    *)
LEMMA AttemptBegins ==
    ASSUME ResearchInv, StartInquiry
    PROVE  ResearchInv'
<1>1. /\ UNCHANGED asked /\ inquiry' = [NoInquiry EXCEPT !.step = "choose"]
      /\ errand' \in [state : ErrandStates, attempts : Nat, repairs : Nat]
      /\ errand'.state = "EXECUTING" /\ errand'.attempts = errand.attempts + 1
      /\ errand.attempts \in Nat /\ errand.repairs \in Nat /\ errand'.repairs \in Nat
      /\ \/ errand.state = "READY" /\ errand'.repairs >= errand.repairs
         \/ errand'.repairs = errand.repairs + 1
  BY DEF StartInquiry, ResearchInv, ResearchTypes, ErrandStates
<1>2. /\ inquiry'.step = "choose"
      /\ inquiry' \in [step : {"idle", "choose", "send", "sent", "wait", "judge", "read"},
                        tried : Nat, excluded : SUBSET Models]
  <2>1. inquiry' = [step |-> "choose", tried |-> 0, excluded |-> {}]
    BY <1>1 DEF NoInquiry
  <2> QED BY <2>1
<1>3. \A k \in DOMAIN asked : asked[k] \in AskedRow /\ RowSound(asked[k])
  BY DEF ResearchInv, ResearchTypes
<1>4. ResearchTypes'
  BY <1>1, <1>2 DEF ResearchInv, ResearchTypes
<1>5. ASSUME NEW k \in DOMAIN asked  PROVE RowSound(asked[k])' /\ Past(asked[k])'
  <2>1. /\ asked[k].attempt \in Nat /\ asked[k].repair \in Nat
        /\ asked[k].attempt <= errand.attempts /\ asked[k].repair <= errand.repairs
        /\ asked[k].remote \in {"none", "running"} => asked[k].charge = 0
        /\ asked[k].row = "FAILED" => ~Works(asked[k])
    BY <1>3 DEF AskedRow, RowSound
  <2>2. errand.state = "READY" => ~Works(asked[k])
    BY DEF ResearchInv, InquirySound
  <2>3. asked[k].attempt < errand'.attempts /\ asked[k].repair <= errand'.repairs
        /\ (Works(asked[k]) => asked[k].repair < errand'.repairs)
    BY <1>1, <2>1, <2>2
  <2> QED BY <1>1, <2>1, <2>3 DEF RowSound, Past, MayCost, Works
<1>6. InquirySound'
  BY <1>1, <1>2, <1>5 DEF InquirySound
<1>7. PaidOncePerAttempt'
  BY <1>1 DEF ResearchInv, PaidOncePerAttempt, MayCost
<1> QED BY <1>1, <1>4, <1>5, <1>6, <1>7 DEF ResearchInv

(* A model is asked: every call before it is past.                         *)
LEMMA ModelIsAsked ==
    ASSUME ResearchInv, NEW m \in Models, AskModel(m)
    PROVE  ResearchInv'
<1> DEFINE new == [model |-> m, attempt |-> errand.attempts, repair |-> errand.repairs,
                   row |-> "SUBMITTING", truth |-> "PENDING",
                   remote |-> "none", error |-> "none", charge |-> 0]
<1>1. /\ inquiry.step = "choose" /\ asked' = Append(asked, new) /\ UNCHANGED errand
      /\ inquiry' = [inquiry EXCEPT !.step = "send", !.tried = @ + 1]
      /\ asked \in Seq(AskedRow) /\ errand \in [state : ErrandStates, attempts : Nat, repairs : Nat]
      /\ inquiry \in [step : {"idle", "choose", "send", "sent", "wait", "judge", "read"},
                      tried : Nat, excluded : SUBSET Models]
  BY DEF AskModel, ResearchInv, ResearchTypes
<1>2. /\ new \in AskedRow /\ new.attempt = errand.attempts /\ new.repair = errand.repairs
      /\ new.remote = "none" /\ new.charge = 0 /\ new.row = "SUBMITTING"
  <2> DEFINE free == 0
  <2>1. free \in 0..1 /\ errand.attempts \in Nat /\ errand.repairs \in Nat
    BY <1>1
  <2> HIDE DEF free
  <2>2. [model |-> m, attempt |-> errand.attempts, repair |-> errand.repairs,
         row |-> "SUBMITTING", truth |-> "PENDING",
         remote |-> "none", error |-> "none", charge |-> free] \in AskedRow
    BY <2>1 DEF AskedRow
  <2> QED BY <2>2 DEF free
<1> HIDE DEF new
<1>3. /\ asked' \in Seq(AskedRow) /\ Len(asked') = Len(asked) + 1 /\ Len(asked) \in Nat
      /\ DOMAIN asked = 1..Len(asked) /\ DOMAIN asked' = 1..(Len(asked) + 1)
      /\ asked'[Len(asked) + 1] = new /\ \A k \in DOMAIN asked : asked'[k] = asked[k]
  BY <1>1, <1>2
<1>4. \A k \in DOMAIN asked : RowSound(asked[k]) /\ Past(asked[k])
  BY <1>1 DEF ResearchInv, InquirySound
<1>5. ResearchTypes'
  <2>1. inquiry' \in [step : {"idle", "choose", "send", "sent", "wait", "judge", "read"},
                      tried : Nat, excluded : SUBSET Models]
    <3> DEFINE count == inquiry.tried + 1
    <3>1. count \in Nat
      BY <1>1
    <3>2. inquiry' = [inquiry EXCEPT !.step = "send", !.tried = count]
      BY <1>1
    <3> HIDE DEF count
    <3> QED BY <1>1, <3>1, <3>2
  <2> QED BY <1>1, <1>3, <2>1 DEF ResearchTypes
<1>6. ASSUME NEW k \in DOMAIN asked'  PROVE RowSound(asked[k])'
  <2>1. CASE k \in DOMAIN asked
    BY <1>1, <1>3, <1>4, <2>1 DEF RowSound, Works
  <2>2. CASE k = Len(asked) + 1
    <3>1. asked'[k] = new
      BY <1>3, <2>2
    <3> QED BY <1>1, <1>2, <3>1 DEF RowSound, Works
  <2> QED BY <1>3, <2>1, <2>2
<1>7. InquirySound'
  <2>1. inquiry'.step = "send" /\ errand'.state = "EXECUTING" /\ asked' # <<>>
    BY <1>1, <1>3 DEF ResearchInv, InquirySound
  <2>2. ASSUME NEW k \in DOMAIN asked', k < Len(asked')  PROVE Past(asked[k])'
    <3>1. k \in DOMAIN asked
      BY <1>3, <2>2
    <3> QED BY <1>1, <1>3, <1>4, <3>1 DEF Past, MayCost, Works
  <2>3. asked'[Len(asked')].remote = "none" /\ asked'[Len(asked')].row = "SUBMITTING"
    BY <1>2, <1>3
  <2> QED BY <2>1, <2>2, <2>3 DEF InquirySound, LastCall
<1>8. PaidOncePerAttempt'
  <2>1. SUFFICES ASSUME NEW j \in DOMAIN asked', NEW i \in 1..(j - 1)
                 PROVE  /\ MayCost(asked'[i]) => asked'[i].attempt < asked'[j].attempt
                        /\ Works(asked'[i]) => asked'[i].repair < asked'[j].repair
    BY DEF PaidOncePerAttempt, Works, MayCost
  <2>2. i \in DOMAIN asked /\ asked'[i] = asked[i]
    BY <1>3
  <2>3. CASE j \in DOMAIN asked
    BY <1>3, <2>2, <2>3 DEF ResearchInv, PaidOncePerAttempt, Works
  <2>4. CASE j = Len(asked) + 1
    <3>1. asked'[j] = new
      BY <1>3, <2>4
    <3> QED BY <1>2, <1>4, <2>2, <3>1 DEF Past
  <2> QED BY <1>3, <2>3, <2>4
<1> QED BY <1>5, <1>6, <1>7, <1>8 DEF ResearchInv

(* The steps around an inquiry: none of them changes a call.               *)
LEMMA NoCallChanges ==
    ASSUME ResearchInv, UNCHANGED asked,
           \/ WorkerIsLost \/ RecoverErrand \/ RetryErrand
           \/ \E m \in Models : ObservationExpires(m)
           \/ UNCHANGED researchVars
    PROVE  ResearchInv'
<1>1. /\ inquiry' = NoInquiry \/ UNCHANGED inquiry
      /\ errand' \in [state : ErrandStates, attempts : Nat, repairs : Nat]
      /\ errand'.attempts = errand.attempts /\ errand'.repairs = errand.repairs
      /\ \/ UNCHANGED errand
         \/ inquiry.step = "idle" /\ UNCHANGED inquiry /\ errand'.state # "READY"
         \/ inquiry.step = "idle" /\ UNCHANGED inquiry /\ \A k \in DOMAIN asked : asked[k].row = "FAILED"
  <2>1. CASE WorkerIsLost
    BY <2>1 DEF WorkerIsLost, ResearchInv, ResearchTypes
  <2>2. CASE RecoverErrand
    BY <2>2 DEF RecoverErrand, ResearchInv, ResearchTypes, ErrandStates
  <2>3. CASE RetryErrand
    <3>1. inquiry.step = "idle"
      BY <2>3 DEF RetryErrand, ResearchInv, InquirySound
    <3> QED BY <2>3, <3>1 DEF RetryErrand, ResearchInv, ResearchTypes, ErrandStates
  <2>4. CASE \E m \in Models : ObservationExpires(m)
    BY <2>4 DEF ObservationExpires, ResearchInv, ResearchTypes
  <2>5. CASE UNCHANGED researchVars
    BY <2>5 DEF researchVars, ResearchInv, ResearchTypes
  <2> QED BY <2>1, <2>2, <2>3, <2>4, <2>5
<1>2. ResearchTypes'
  BY <1>1 DEF ResearchInv, ResearchTypes, NoInquiry
<1>3. \A k \in DOMAIN asked : RowSound(asked[k]) /\ RowSound(asked[k])'
  BY <1>1 DEF ResearchInv, RowSound, Works
<1>4. InquirySound'
  <2>1. CASE UNCHANGED errand /\ inquiry' = NoInquiry
    BY <2>1 DEF ResearchInv, InquirySound, NoInquiry, Works
  <2>2. CASE UNCHANGED errand /\ UNCHANGED inquiry
    BY <2>2 DEF ResearchInv, InquirySound, Works, Past, MayCost, LastCall
  <2>3. CASE inquiry.step = "idle" /\ UNCHANGED inquiry /\ errand'.state # "READY"
    BY <2>3 DEF InquirySound
  <2>4. CASE inquiry.step = "idle" /\ UNCHANGED inquiry /\ \A k \in DOMAIN asked : asked[k].row = "FAILED"
    <3>1. \A k \in DOMAIN asked : ~Works(asked[k])
      BY <1>3, <2>4 DEF RowSound
    <3> QED BY <2>4, <3>1 DEF InquirySound, Works
  <2> QED BY <1>1, <2>1, <2>2, <2>3, <2>4
<1>5. PaidOncePerAttempt'
  BY DEF ResearchInv, PaidOncePerAttempt, MayCost
<1> QED BY <1>2, <1>3, <1>4, <1>5 DEF ResearchInv

LEMMA ResearchStep ==
    ASSUME ResearchInv, [ResearchNext]_researchVars
    PROVE  ResearchInv'
<1>1. CASE StartInquiry
  BY <1>1, AttemptBegins
<1>2. CASE GiveUp \/ \E state \in {"QA_PASSED", "FAILED", "NEEDS_REPAIR", "BLOCKED"} : ReadReport(state)
  <2>1. UNCHANGED asked /\ \E next \in ErrandStates \ {"READY"} : EndInquiry(next)
    BY <1>2 DEF GiveUp, ReadReport, ErrandStates
  <2> QED BY <2>1, AttemptEnds
<1>3. CASE SessionRefused \/ LosesTrack
  BY <1>3, CallAbandoned
<1>4. CASE MessageRefused
  BY <1>4, MessageIsRefused
<1>5. CASE MessageSent \/ MessageRecorded
  BY <1>5, MessageGoesOn
<1>6. CASE JudgeFailure
  BY <1>6, FailureIsJudged
<1>7. CASE WorkerIsLost \/ RecoverErrand \/ RetryErrand \/ UNCHANGED researchVars
           \/ \E m \in Models : ObservationExpires(m)
  <2>1. UNCHANGED asked
    BY <1>7 DEF WorkerIsLost, RecoverErrand, RetryErrand, ObservationExpires, researchVars
  <2> QED BY <1>7, <2>1, NoCallChanges
<1>8. ASSUME NEW m \in Models, AskModel(m)  PROVE ResearchInv'
  BY <1>8, ModelIsAsked
<1>9. ASSUME NEW i \in DOMAIN asked, RemoteEnds(i)  PROVE ResearchInv'
  BY <1>9, WorkEndsThere
<1>10. ASSUME NEW i \in DOMAIN asked, NEW known \in BOOLEAN, PollAsked(i, known)  PROVE ResearchInv'
  BY <1>10, AnswerPolled
<1>11. ASSUME NEW known \in BOOLEAN, WaitEnds(known)  PROVE ResearchInv'
  BY <1>11, AnswerAwaited
<1> QED BY <1>1, <1>2, <1>3, <1>4, <1>5, <1>6, <1>7, <1>8, <1>9, <1>10, <1>11 DEF ResearchNext

(* One attempt of a job pays for one model at most, and work that runs or  *)
(* was done is asked for again by a repair only (research_with_web of      *)
(* workers/genx_support.py, retry.py): however many models, refusals, lost *)
(* answers, lost workers and operator's retries there are.                 *)
THEOREM PaidOnce == ResearchSpec => []PaidOncePerAttempt
<1>1. ResearchInit => ResearchInv
  <2> SUFFICES ASSUME ResearchInit  PROVE ResearchInv
    OBVIOUS
  <2>1. asked = <<>> /\ DOMAIN asked = {} /\ asked \in Seq(AskedRow) /\ inquiry = NoInquiry
        /\ errand = [state |-> "READY", attempts |-> 0, repairs |-> 0]
    BY DEF ResearchInit
  <2>2. ResearchTypes
    BY <2>1 DEF ResearchTypes, NoInquiry, ErrandStates
  <2>3. InquirySound
    BY <2>1 DEF InquirySound, NoInquiry
  <2> QED BY <2>1, <2>2, <2>3 DEF ResearchInv, PaidOncePerAttempt
<1>2. ResearchInv /\ [ResearchNext]_researchVars => ResearchInv'
  BY ResearchStep
<1>3. ResearchInv => PaidOncePerAttempt
  BY DEF ResearchInv
<1> QED BY <1>1, <1>2, <1>3, PTL DEF ResearchSpec

-----------------------------------------------------------------------------
(* Safety research.  A finding's status is what its reviews made of it.    *)
Reviews == Reproduced \cup {"FOUND", "CLEAN"}
SafetyTypes ==
    /\ findings \in [SafetyAttempts ->
           [status : {"NONE", "CANDIDATE", "REJECTED", "SUBMISSION_READY"} \cup Reproduced, checked : BOOLEAN]]
    /\ reviews \in [SafetyAttempts -> Seq(Reviews)]
FindingProven(a) ==
    /\ findings[a].status \in {"REPRODUCED", "SUBMISSION_READY"} => LatestReproduced(a)
    /\ findings[a].status = "SUBMISSION_READY" => reviews[a] # <<>> /\ Last(reviews[a]) = "CLEAN"
SafetyInv == SafetyTypes /\ \A a \in SafetyAttempts : FindingProven(a)

(* One finding and its reviews change.                                     *)
LEMMA OtherFindings ==
    ASSUME SafetyInv, NEW a \in SafetyAttempts, SafetyTypes', FindingProven(a)',
           \A b \in SafetyAttempts : b # a => findings'[b] = findings[b] /\ reviews'[b] = reviews[b]
    PROVE  SafetyInv'
BY DEF SafetyInv, FindingProven, LatestReproduced

(* A review is added.                                                      *)
LEMMA Reviewed ==
    ASSUME SafetyTypes, NEW a \in SafetyAttempts, NEW r \in Reviews,
           reviews' = [reviews EXCEPT ![a] = Append(@, r)]
    PROVE  /\ reviews' \in [SafetyAttempts -> Seq(Reviews)]
           /\ \A b \in SafetyAttempts : b # a => reviews'[b] = reviews[b]
           /\ reviews'[a] # <<>> /\ Last(reviews'[a]) = r
           /\ LatestReproduced(a)' <=> r = "REPRODUCED" \/ (r \notin Reproduced /\ LatestReproduced(a))
<1> DEFINE s == reviews[a]
           t == Append(s, r)
<1>1. s \in Seq(Reviews) /\ reviews' \in [SafetyAttempts -> Seq(Reviews)] /\ reviews'[a] = t
  BY DEF SafetyTypes
<1>2. \A b \in SafetyAttempts : b # a => reviews'[b] = reviews[b]
  BY DEF SafetyTypes
<1>3. /\ Len(s) \in Nat /\ Len(t) = Len(s) + 1 /\ DOMAIN s = 1..Len(s) /\ DOMAIN t = 1..Len(t)
      /\ t[Len(t)] = r /\ \A i \in DOMAIN s : t[i] = s[i]
  BY <1>1
<1>4. LatestReproduced(a)' <=>
        \E i \in DOMAIN t : t[i] = "REPRODUCED" /\ \A j \in DOMAIN t : j > i => t[j] \notin Reproduced
  BY <1>1 DEF LatestReproduced
<1>5. LatestReproduced(a) <=>
        \E i \in DOMAIN s : s[i] = "REPRODUCED" /\ \A j \in DOMAIN s : j > i => s[j] \notin Reproduced
  BY DEF LatestReproduced
<1>6. t # <<>> /\ Last(t) = r
  BY <1>3 DEF Last
<1> HIDE DEF s, t
<1>7. CASE r = "REPRODUCED"
  <2>1. Len(t) \in DOMAIN t /\ \A j \in DOMAIN t : ~(j > Len(t))
    BY <1>3
  <2> QED BY <1>1, <1>2, <1>3, <1>4, <1>6, <1>7, <2>1
<1>8. CASE r # "REPRODUCED"
  <2>1. LatestReproduced(a)' => r \notin Reproduced /\ LatestReproduced(a)
    <3> SUFFICES ASSUME NEW i \in DOMAIN t, t[i] = "REPRODUCED",
                        \A j \in DOMAIN t : j > i => t[j] \notin Reproduced
                 PROVE  r \notin Reproduced /\ LatestReproduced(a)
      BY <1>4
    <3>1. i # Len(t) /\ i \in DOMAIN s /\ Len(t) \in DOMAIN t /\ Len(t) > i
      BY <1>3, <1>8
    <3>2. r \notin Reproduced
      BY <1>3, <3>1
    <3>3. s[i] = "REPRODUCED" /\ \A j \in DOMAIN s : j > i => s[j] \notin Reproduced
      BY <1>3, <3>1
    <3> QED BY <1>5, <3>1, <3>2, <3>3
  <2>2. ASSUME r \notin Reproduced, LatestReproduced(a)  PROVE LatestReproduced(a)'
    <3>1. PICK i \in DOMAIN s : s[i] = "REPRODUCED" /\ \A j \in DOMAIN s : j > i => s[j] \notin Reproduced
      BY <1>5, <2>2
    <3>2. i \in DOMAIN t /\ t[i] = "REPRODUCED"
      BY <1>3, <3>1
    <3>3. ASSUME NEW j \in DOMAIN t, j > i  PROVE t[j] \notin Reproduced
      BY <1>3, <2>2, <3>1, <3>3
    <3> QED BY <1>4, <3>2, <3>3
  <2> QED BY <1>1, <1>2, <1>6, <1>8, <2>1, <2>2
<1> QED BY <1>7, <1>8

LEMMA SafetyKept == ASSUME SafetyInv, [SafetyNext]_safetyVars  PROVE SafetyInv'
<1>1. CASE UNCHANGED <<findings, reviews>>
  BY <1>1 DEF SafetyInv, SafetyTypes, FindingProven, LatestReproduced
<1>2. ASSUME NEW a \in SafetyAttempts, RecordResult(a)  PROVE SafetyInv'
  <2>1. SafetyTypes' /\ findings'[a].status \in {"CANDIDATE", "NONE"}
        /\ \A b \in SafetyAttempts : b # a => findings'[b] = findings[b]
    BY <1>2 DEF RecordResult, SafetyInv, SafetyTypes
  <2>2. UNCHANGED reviews
    BY <1>2 DEF RecordResult
  <2> QED BY <2>1, <2>2, OtherFindings DEF FindingProven
<1>3. ASSUME NEW a \in SafetyAttempts, RecordReproduction(a)  PROVE SafetyInv'
  <2>1. PICK r \in Reproduced : /\ reviews' = [reviews EXCEPT ![a] = Append(@, r)]
                                /\ findings' = [findings EXCEPT ![a].status = r]
    BY <1>3 DEF RecordReproduction
  <2>2. /\ reviews' \in [SafetyAttempts -> Seq(Reviews)]
        /\ \A b \in SafetyAttempts : b # a => reviews'[b] = reviews[b]
        /\ r = "REPRODUCED" => LatestReproduced(a)'
    BY <2>1, Reviewed DEF SafetyInv, Reviews
  <2>3. SafetyTypes' /\ findings'[a].status = r
        /\ \A b \in SafetyAttempts : b # a => findings'[b] = findings[b]
    BY <2>1, <2>2 DEF SafetyInv, SafetyTypes
  <2>4. FindingProven(a)'
    BY <2>2, <2>3 DEF FindingProven, Reproduced
  <2> QED BY <2>2, <2>3, <2>4, OtherFindings
<1>4. ASSUME NEW a \in SafetyAttempts, MarkDuplicateCheck(a)  PROVE SafetyInv'
  <2>1. PICK d \in {"FOUND", "CLEAN"} :
            /\ reviews' = [reviews EXCEPT ![a] = Append(@, d)]
            /\ findings' = [findings EXCEPT ![a] = [status |-> CheckedStatus(@, d), checked |-> TRUE]]
    BY <1>4 DEF MarkDuplicateCheck
  <2>2. /\ reviews' \in [SafetyAttempts -> Seq(Reviews)]
        /\ \A b \in SafetyAttempts : b # a => reviews'[b] = reviews[b]
        /\ reviews'[a] # <<>> /\ Last(reviews'[a]) = d
        /\ LatestReproduced(a) => LatestReproduced(a)'
    BY <2>1, Reviewed DEF SafetyInv, Reviews, Reproduced
  <2>3. /\ SafetyTypes' /\ findings'[a].status = CheckedStatus(findings[a], d)
        /\ \A b \in SafetyAttempts : b # a => findings'[b] = findings[b]
    <3>1. CheckedStatus(findings[a], d) \in {"NONE", "CANDIDATE", "REJECTED", "SUBMISSION_READY"} \cup Reproduced
      BY DEF CheckedStatus, SafetyInv, SafetyTypes
    <3> QED BY <2>1, <2>2, <3>1 DEF SafetyInv, SafetyTypes
  <2>4. /\ findings'[a].status \in {"REPRODUCED", "SUBMISSION_READY"}
               => findings[a].status \in {"REPRODUCED", "SUBMISSION_READY"}
        /\ findings'[a].status = "SUBMISSION_READY" => d = "CLEAN"
    BY <2>3 DEF CheckedStatus, SafetyInv, SafetyTypes
  <2>5. FindingProven(a)'
    BY <2>2, <2>4 DEF FindingProven, SafetyInv
  <2> QED BY <2>2, <2>3, <2>5, OtherFindings
<1> QED
  BY <1>1, <1>2, <1>3, <1>4
     DEF SafetyNext, safetyVars, SwitchProgram, EditScope, Authorize, StartSafetyAttempt, WorkerEvaluates,
         ExecutionFails, PrepareSubmission, CreateEvaluationCase

(* What is prepared for submission, or becomes an evaluation case, was     *)
(* reproduced by the latest reviewer, and a submission has a clean check   *)
(* after that: for any attempts, scope versions and numbers of reviews.    *)
THEOREM ProvenFindings == SafetySpec => OnlyProvenFindings
<1>1. SafetyInit => SafetyInv
  BY DEF SafetyInit, SafetyInv, SafetyTypes, FindingProven, NoFinding
<1>2. SafetyInv /\ [SafetyNext]_safetyVars => SafetyInv'
  BY SafetyKept
<1>3. SafetyInv /\ [SafetyNext]_safetyVars =>
        [\A a \in SafetyAttempts :
            /\ a \in submitted' \ submitted => LatestReproduced(a) /\ Last(reviews[a]) = "CLEAN"
            /\ a \in sanitized' \ sanitized => LatestReproduced(a)]_safetyVars
  <2> SUFFICES ASSUME SafetyInv, [SafetyNext]_safetyVars, NEW a \in SafetyAttempts
               PROVE  /\ a \in submitted' \ submitted => LatestReproduced(a) /\ Last(reviews[a]) = "CLEAN"
                      /\ a \in sanitized' \ sanitized => LatestReproduced(a)
    OBVIOUS
  <2>1. a \in submitted' \ submitted => PrepareSubmission(a)
    BY DEF SafetyNext, safetyVars, SwitchProgram, EditScope, Authorize, StartSafetyAttempt, WorkerEvaluates,
           ExecutionFails, RecordResult, RecordReproduction, MarkDuplicateCheck, PrepareSubmission,
           CreateEvaluationCase
  <2>2. a \in sanitized' \ sanitized => CreateEvaluationCase(a)
    BY DEF SafetyNext, safetyVars, SwitchProgram, EditScope, Authorize, StartSafetyAttempt, WorkerEvaluates,
           ExecutionFails, RecordResult, RecordReproduction, MarkDuplicateCheck, PrepareSubmission,
           CreateEvaluationCase
  <2> QED BY <2>1, <2>2 DEF SafetyInv, FindingProven, PrepareSubmission, CreateEvaluationCase
<1> QED BY <1>1, <1>2, <1>3, PTL DEF SafetySpec, OnlyProvenFindings

-----------------------------------------------------------------------------
(* The selection of a portfolio.  A statement about the first k rows that  *)
(* fails somewhere fails first at some k.                                  *)
LEMMA FirstRows ==
    ASSUME NEW n \in Nat, NEW T, 0 \in T,
           \A k \in 1..n : k - 1 \in T => k \in T
    PROVE  0..n \subseteq T
<1> SUFFICES ASSUME ~(0..n \subseteq T) PROVE FALSE
  OBVIOUS
<1> DEFINE failing == (0..n) \ T
<1>1. failing \subseteq Nat /\ failing # {}
  OBVIOUS
<1>2. PICK k \in failing : \A m \in failing : k <= m
  <2> HIDE DEF failing
  <2> QED BY <1>1, LeastNumber
<1>3. k \in 1..n /\ k - 1 \in 0..n /\ ~(k <= k - 1)
  OBVIOUS
<1>4. k - 1 \in T
  BY <1>2, <1>3
<1> QED BY <1>2, <1>3, <1>4

(* The loop over a ranking gives each row what the row before left.        *)
RankStart == [rows |-> <<>>, left |-> capacity, shadowLeft |-> capacity]
RanksAs(f, candidates, n) ==
    f = [k \in 0..n |-> IF k = 0 THEN RankStart ELSE RankRow(f[k - 1], candidates[k])]

LEMMA LoopExists ==
    ASSUME NEW n \in Nat, NEW candidates
    PROVE  \E f : RanksAs(f, candidates, n)
<1> DEFINE T == {k \in 0..n : \E f : RanksAs(f, candidates, k)}
<1>1. 0 \in T
  <2> DEFINE f == [k \in 0..0 |-> RankStart]
  <2>1. RanksAs(f, candidates, 0)
    BY DEF RanksAs
  <2> QED BY <2>1
<1>2. ASSUME NEW k \in 1..n, k - 1 \in T
      PROVE  k \in T
  <2>1. PICK f : RanksAs(f, candidates, k - 1)
    BY <1>2
  <2> DEFINE g == [j \in 0..k |-> IF j = k THEN RankRow(f[k - 1], candidates[k]) ELSE f[j]]
             body == [j \in 0..k |-> IF j = 0 THEN RankStart ELSE RankRow(g[j - 1], candidates[j])]
  <2>2. ASSUME NEW j \in 0..k
        PROVE  g[j] = body[j]
    <3>1. CASE j = 0
      BY <2>1, <3>1 DEF RanksAs
    <3>2. CASE j = k
      <4>1. j # 0 /\ j - 1 \in 0..k /\ j - 1 # k
        BY <3>2
      <4>2. g[j - 1] = f[k - 1]
        BY <3>2, <4>1
      <4> QED BY <3>2, <4>1, <4>2
    <3>3. CASE j # 0 /\ j # k
      <4>1. j \in 0..(k - 1) /\ j - 1 \in 0..k /\ j - 1 # k
        BY <3>3
      <4>2. f[j] = RankRow(f[j - 1], candidates[j])
        BY <2>1, <3>3, <4>1 DEF RanksAs
      <4>3. g[j] = f[j] /\ g[j - 1] = f[j - 1]
        BY <3>3, <4>1
      <4>4. body[j] = RankRow(g[j - 1], candidates[j])
        BY <3>3
      <4> QED BY <4>2, <4>3, <4>4
    <3> QED BY <3>1, <3>2, <3>3
  <2>3. g = body
    <3>1. g \in [0..k -> {g[j] : j \in 0..k}] /\ DOMAIN g = 0..k /\ DOMAIN body = 0..k
      OBVIOUS
    <3> QED BY <2>2
  <2>4. RanksAs(g, candidates, k)
    <3> HIDE DEF g
    <3> QED BY <2>3 DEF RanksAs
  <2> QED BY <2>4
<1>3. 0..n \subseteq T
  <2> HIDE DEF T
  <2> QED BY <1>1, <1>2, FirstRows
<1> QED BY <1>3

LEMMA LoopRuns ==
    ASSUME NEW candidates, Len(candidates) \in Nat
    PROVE  RanksAs(Ranked(candidates), candidates, Len(candidates))
<1>1. \E f : RanksAs(f, candidates, Len(candidates))
  BY LoopExists
<1>2. Ranked(candidates) = CHOOSE f : RanksAs(f, candidates, Len(candidates))
  BY DEF Ranked, RanksAs, RankStart
<1> QED BY <1>1, <1>2

(* The better rows of a choice, up to the row before.                      *)
LEMMA BetterRows ==
    ASSUME NEW n \in Nat, NEW S, S \subseteq 1..n
    PROVE  /\ \A j \in S : ~(j <= 0)
           /\ \A k \in 1..n : \A j \in S :
                 ((j < k) <=> (j <= k - 1)) /\ ((j <= k /\ j # k) <=> (j <= k - 1))
           /\ IsFiniteSet(S)
<1>1. \A j \in S : j \in Int /\ ~(j <= 0)
  OBVIOUS
<1>2. \A k \in 1..n : \A j \in S :
        ((j < k) <=> (j <= k - 1)) /\ ((j <= k /\ j # k) <=> (j <= k - 1))
  BY <1>1
<1>3. IsFiniteSet(S)
  <2>1. IsFiniteSet(1..n)
    BY FS_Interval
  <2> QED BY <2>1, FS_Subset
<1> QED BY <1>1, <1>2, <1>3

(* The rows that get what the better rows left are the greedy choice.      *)
TakesWhatIsLeft(S, may, cand, left, n) ==
    \A k \in 1..n : /\ k \in S <=> k \in may /\ Fits(cand[k], left[k - 1])
                    /\ left[k] = IF k \in S THEN Use(left[k - 1], cand[k]) ELSE left[k - 1]
GreedyAmong(S, may, cand, total, n) ==
    \A k \in 1..n :
        k \in S <=> /\ k \in may /\ cand[k].eligible /\ cand[k].worth
                   /\ Cardinality({j \in S : j < k}) < total.slots
                   /\ SumFunctionOnSet([i \in 1..n |-> cand[i].minutes], {j \in S : j < k}) + cand[k].minutes
                         <= total.minutes

LEMMA LeftIsChosen ==
    ASSUME NEW n \in Nat, NEW cand, \A i \in 1..n : cand[i].minutes \in Nat,
           NEW may, NEW S, S \subseteq 1..n,
           NEW left, \A k \in 0..n : left[k] \in [slots : Int, minutes : Int],
           NEW total, left[0] = total, TakesWhatIsLeft(S, may, cand, left, n)
    PROVE  GreedyAmong(S, may, cand, total, n)
<1> DEFINE minutes == [i \in 1..n |-> cand[i].minutes]
           Upto(k) == {j \in S : j <= k}
           Left(k) == /\ left[k].slots = total.slots - Cardinality(Upto(k))
                      /\ left[k].minutes = total.minutes - SumFunctionOnSet(minutes, Upto(k))
           T == {k \in 0..n : Left(k)}
<1>a. /\ Upto(0) = {}
      /\ \A k \in 1..n :
            /\ {j \in S : j < k} = Upto(k - 1)
            /\ k \in S => Upto(k) \ {k} = Upto(k - 1)
            /\ k \notin S => Upto(k) = Upto(k - 1)
  <2>1. Upto(0) = {}
    <3>1. \A j \in S : ~(j <= 0)
      BY BetterRows
    <3> QED BY <3>1, Zenon
  <2>2. ASSUME NEW k \in 1..n
        PROVE  /\ {j \in S : j < k} = {j \in S : j <= k - 1}
               /\ k \in S => {j \in S : j <= k} \ {k} = {j \in S : j <= k - 1}
               /\ k \notin S => {j \in S : j <= k} = {j \in S : j <= k - 1}
    <3>1. \A j \in S : ((j < k) <=> (j <= k - 1)) /\ ((j <= k /\ j # k) <=> (j <= k - 1))
      BY BetterRows
    <3>2. {j \in S : j < k} = {j \in S : j <= k - 1}
      BY <3>1
    <3>3. k \in S => {j \in S : j <= k} \ {k} = {j \in S : j <= k - 1}
      BY <3>1
    <3>4. k \notin S => {j \in S : j <= k} = {j \in S : j <= k - 1}
      BY <3>1
    <3> QED BY <3>2, <3>3, <3>4
  <2> QED BY <2>1, <2>2, Zenon
<1>0. total.slots \in Int /\ total.minutes \in Int
  <2>1. left[0] \in [slots : Int, minutes : Int]
    OBVIOUS
  <2> QED BY <2>1
<1>1. ASSUME NEW k \in 0..n
      PROVE  /\ IsFiniteSet(Upto(k)) /\ Cardinality(Upto(k)) \in Nat
             /\ \A i \in Upto(k) : minutes[i] \in Int
             /\ SumFunctionOnSet(minutes, Upto(k)) \in Int
  <2>1. IsFiniteSet(S)
    BY BetterRows
  <2>2. IsFiniteSet(Upto(k))
    <3>1. Upto(k) \subseteq S
      OBVIOUS
    <3> QED BY <2>1, <3>1, FS_Subset
  <2>3. \A i \in Upto(k) : minutes[i] \in Int
    OBVIOUS
  <2>4. SumFunctionOnSet(minutes, Upto(k)) \in Int
    <3> HIDE DEF minutes, Upto
    <3> QED BY <2>2, <2>3, SumIsInt
  <2>5. Cardinality(Upto(k)) \in Nat
    <3> HIDE DEF Upto
    <3> QED BY <2>2, FS_CardinalityType
  <2> QED BY <2>2, <2>3, <2>4, <2>5
<1>2. 0 \in T
  <2>1. Upto(0) = {}
    BY <1>a
  <2>2. Cardinality({}) = 0 /\ SumFunctionOnSet(minutes, {}) = 0
    <3> HIDE DEF minutes
    <3> QED BY FS_EmptySet, SumOfNone
  <2>3. Left(0)
    <3> HIDE DEF Upto, minutes
    <3> QED BY SMTT(30), <1>0, <2>1, <2>2
  <2>4. 0 \in 0..n
    OBVIOUS
  <2> HIDE DEF Left
  <2> QED BY <2>3, <2>4
<1>3. ASSUME NEW k \in 1..n, k - 1 \in T
      PROVE  k \in T
  <2>0. k - 1 \in 0..n /\ Left(k - 1)
    BY <1>3
  <2>1. CASE k \in S
    <3>1. Upto(k) \ {k} = Upto(k - 1) /\ k \in Upto(k)
      <4>1. k \in Upto(k)
        BY <2>1
      <4> HIDE DEF Upto
      <4> QED BY <2>1, <4>1, <1>a
    <3>2. /\ IsFiniteSet(Upto(k)) /\ \A i \in Upto(k) : minutes[i] \in Int
          /\ Cardinality(Upto(k)) \in Nat /\ SumFunctionOnSet(minutes, Upto(k - 1)) \in Int
      <4> HIDE DEF Upto, minutes
      <4> QED BY <1>1, <2>0
    <3>3. Cardinality(Upto(k - 1)) = Cardinality(Upto(k)) - 1
      <4> HIDE DEF Upto
      <4> QED BY <3>1, <3>2, FS_RemoveElement
    <3>4. SumFunctionOnSet(minutes, Upto(k)) = minutes[k] + SumFunctionOnSet(minutes, Upto(k - 1))
      <4> HIDE DEF Upto, minutes
      <4> QED BY <3>1, <3>2, SumSplits
    <3>5. minutes[k] = cand[k].minutes /\ minutes[k] \in Nat
      OBVIOUS
    <3>6. left[k] = [slots |-> left[k - 1].slots - 1, minutes |-> left[k - 1].minutes - cand[k].minutes]
      BY <2>1 DEF Use, TakesWhatIsLeft
    <3>7. Left(k)
      <4> HIDE DEF Upto, minutes
      <4> QED BY <1>0, <2>0, <3>2, <3>3, <3>4, <3>5, <3>6
    <3> QED BY <3>7
  <2>2. CASE k \notin S
    <3>1. Upto(k) = Upto(k - 1) /\ left[k] = left[k - 1]
      <4> HIDE DEF Upto
      <4> QED BY <2>2, <1>a DEF TakesWhatIsLeft
    <3>2. Left(k)
      <4> HIDE DEF Upto, minutes
      <4> QED BY <2>0, <3>1
    <3> QED BY <3>2
  <2> QED BY <2>1, <2>2
<1>4. 0..n \subseteq T
  <2> HIDE DEF T
  <2> QED BY <1>2, <1>3, FirstRows
<1>5. ASSUME NEW k \in 1..n
      PROVE  k \in S <=> /\ k \in may /\ cand[k].eligible /\ cand[k].worth
                         /\ Cardinality({j \in S : j < k}) < total.slots
                         /\ SumFunctionOnSet(minutes, {j \in S : j < k}) + cand[k].minutes <= total.minutes
  <2>1. k - 1 \in 0..n /\ Left(k - 1) /\ {j \in S : j < k} = Upto(k - 1) /\ cand[k].minutes \in Nat
    <3>1. k - 1 \in 0..n
      OBVIOUS
    <3>2. Left(k - 1)
      <4> HIDE DEF Left
      <4> QED BY <1>4, <3>1
    <3>3. {j \in S : j < k} = Upto(k - 1)
      BY <1>a, Zenon
    <3> QED BY <3>1, <3>2, <3>3
  <2>2. /\ Cardinality(Upto(k - 1)) \in Nat /\ SumFunctionOnSet(minutes, Upto(k - 1)) \in Int
    <3> HIDE DEF Upto, minutes
    <3> QED BY <1>1, <2>1
  <2>3. k \in S <=> /\ k \in may /\ cand[k].eligible /\ left[k - 1].slots > 0
                    /\ cand[k].minutes <= left[k - 1].minutes /\ cand[k].worth
    BY DEF Fits, TakesWhatIsLeft
  <2>4. /\ left[k - 1].slots > 0 <=> Cardinality(Upto(k - 1)) < total.slots
        /\ cand[k].minutes <= left[k - 1].minutes
           <=> SumFunctionOnSet(minutes, Upto(k - 1)) + cand[k].minutes <= total.minutes
    <3> HIDE DEF Upto, minutes
    <3> QED BY <1>0, <2>1, <2>2
  <2> HIDE DEF Upto, minutes
  <2> QED BY <2>1, <2>3, <2>4
<1> QED BY <1>5 DEF GreedyAmong

(* A row says what was left for its candidate, and later rows keep it.     *)
Candidates == [eligible : BOOLEAN, allowed : BOOLEAN, minutes : Nat, worth : BOOLEAN]
Capacities == [slots : Int, minutes : Int]
Decided(state, c) == [selected |-> Fits(c, state.left) /\ c.allowed, shadow |-> Fits(c, state.shadowLeft)]
RowsUpto(f, candidates, k) ==
    /\ f[k].left \in Capacities /\ f[k].shadowLeft \in Capacities
    /\ f[k].rows \in Seq([selected : BOOLEAN, shadow : BOOLEAN]) /\ Len(f[k].rows) = k
    /\ \A j \in 1..k : f[k].rows[j] = Decided(f[j - 1], candidates[j])

LEMMA RowDecided ==
    ASSUME NEW state, NEW c
    PROVE  /\ RankRow(state, c).rows = Append(state.rows, Decided(state, c))
           /\ RankRow(state, c).left =
                 IF Fits(c, state.left) /\ c.allowed THEN Use(state.left, c) ELSE state.left
           /\ RankRow(state, c).shadowLeft =
                 IF Fits(c, state.shadowLeft) THEN Use(state.shadowLeft, c) ELSE state.shadowLeft
           /\ Decided(state, c) \in [selected : BOOLEAN, shadow : BOOLEAN]
           /\ Decided(state, c).selected <=> Fits(c, state.left) /\ c.allowed
           /\ Decided(state, c).shadow <=> Fits(c, state.shadowLeft)
<1>1. /\ RankRow(state, c).rows = Append(state.rows, Decided(state, c))
      /\ RankRow(state, c).left =
            IF Fits(c, state.left) /\ c.allowed THEN Use(state.left, c) ELSE state.left
      /\ RankRow(state, c).shadowLeft =
            IF Fits(c, state.shadowLeft) THEN Use(state.shadowLeft, c) ELSE state.shadowLeft
  BY DEF RankRow, Decided
<1>2. (Fits(c, state.left) /\ c.allowed) \in BOOLEAN /\ Fits(c, state.shadowLeft) \in BOOLEAN
  BY Zenon DEF Fits
<1>3. Decided(state, c) \in [selected : BOOLEAN, shadow : BOOLEAN]
  BY <1>2, Zenon DEF Decided
<1>4. /\ Decided(state, c).selected <=> Fits(c, state.left) /\ c.allowed
      /\ Decided(state, c).shadow <=> Fits(c, state.shadowLeft)
  BY Zenon DEF Decided
<1> QED BY <1>1, <1>3, <1>4

LEMMA RowsDecided ==
    ASSUME NEW n \in Nat, NEW candidates, \A i \in 1..n : candidates[i] \in Candidates,
           capacity \in Capacities, NEW f, RanksAs(f, candidates, n)
    PROVE  \A k \in 0..n : RowsUpto(f, candidates, k)
<1> DEFINE T == {k \in 0..n : RowsUpto(f, candidates, k)}
<1>1. 0 \in T
  <2>1. f[0] = RankStart /\ 0 \in 0..n
    BY DEF RanksAs
  <2>2. RowsUpto(f, candidates, 0)
    BY <2>1 DEF RowsUpto, RankStart
  <2> QED BY <2>1, <2>2
<1>2. ASSUME NEW k \in 1..n, k - 1 \in T
      PROVE  k \in T
  <2> DEFINE c == candidates[k]
             state == f[k - 1]
  <2>1. RowsUpto(f, candidates, k - 1) /\ k - 1 \in 0..n /\ k \in 0..n /\ k # 0
    BY <1>2
  <2>2. f[k] = RankRow(state, c)
    BY <2>1 DEF RanksAs
  <2>3. f[k].left \in Capacities /\ f[k].shadowLeft \in Capacities
    <3>1. c.minutes \in Nat /\ state.left \in Capacities /\ state.shadowLeft \in Capacities
      BY <2>1 DEF RowsUpto, Candidates
    <3>2. Use(state.left, c) \in Capacities /\ Use(state.shadowLeft, c) \in Capacities
      BY <3>1 DEF Use, Capacities
    <3> HIDE DEF c, state
    <3> QED BY <2>2, <3>1, <3>2, RowDecided
  <2>4. f[k].rows = Append(state.rows, Decided(state, c))
    <3> HIDE DEF c, state
    <3> QED BY <2>2, RowDecided
  <2>5. Decided(state, c) \in [selected : BOOLEAN, shadow : BOOLEAN]
    <3> HIDE DEF c, state
    <3> QED BY RowDecided
  <2>6. /\ state.rows \in Seq([selected : BOOLEAN, shadow : BOOLEAN]) /\ Len(state.rows) = k - 1
        /\ \A j \in 1..(k - 1) : state.rows[j] = Decided(f[j - 1], candidates[j])
    BY <2>1 DEF RowsUpto
  <2>7. /\ f[k].rows \in Seq([selected : BOOLEAN, shadow : BOOLEAN]) /\ Len(f[k].rows) = k
        /\ f[k].rows[k] = Decided(state, c)
        /\ \A j \in 1..(k - 1) : f[k].rows[j] = state.rows[j]
    <3> HIDE DEF c, state
    <3>1. Len(state.rows) + 1 = k /\ k \in Nat
      BY <2>6
    <3> QED BY <2>4, <2>5, <2>6, <3>1
  <2>8. ASSUME NEW j \in 1..k
        PROVE  f[k].rows[j] = Decided(f[j - 1], candidates[j])
    <3>1. CASE j = k
      BY <2>7, <3>1
    <3>2. CASE j # k
      <4>1. j \in 1..(k - 1)
        BY <3>2
      <4> QED BY <2>6, <2>7, <4>1
    <3> QED BY <3>1, <3>2
  <2>9. RowsUpto(f, candidates, k)
    BY <2>3, <2>7, <2>8 DEF RowsUpto
  <2> QED BY <2>1, <2>9
<1>3. 0..n \subseteq T
  <2> HIDE DEF T
  <2> QED BY <1>1, <1>2, FirstRows
<1> QED BY <1>3

(* What the loop decides is the greedy choice.                             *)
RankedCandidates == [i \in Places |-> Candidate(evidence[i])]
PortfolioInv ==
    /\ evidence \in [Places -> Representative]
    /\ capacity \in [slots : SlotChoices, minutes : MinuteChoices]
    /\ decisions = <<>> \/ decisions = RankCandidates(RankedCandidates)

LEMMA CandidatesTyped ==
    ASSUME PortfolioInv, NEW i \in Places
    PROVE  RankedCandidates[i] = Candidate(evidence[i]) /\ Candidate(evidence[i]) \in Candidates
<1>1. evidence[i] \in Evidence
  BY DEF PortfolioInv, Representative
<1>2. PICK e \in Evidence : e = evidence[i]
  BY <1>1
<1>3. /\ e.size.minutes \in Nat /\ e.size.worth \in BOOLEAN
      /\ e.safe \in BOOLEAN /\ e.active \in BOOLEAN /\ e.marketing \in BOOLEAN
  <2>1. e.size \in Sizes /\ e.safe \in BOOLEAN /\ e.active \in BOOLEAN /\ e.marketing \in BOOLEAN
    BY DEF Evidence
  <2>2. ASSUME NEW z \in Sizes
        PROVE  z.minutes \in Nat /\ z.worth \in BOOLEAN
    <3>1. z.minutes \in {1, 2}
      BY DEF Sizes
    <3>2. z.worth = TRUE \/ z.worth = FALSE
      BY DEF Sizes
    <3>3. z.worth \in BOOLEAN
      BY <3>2, Zenon
    <3> QED BY <3>1, <3>3
  <2> QED BY <2>1, <2>2
<1>4. SelectionTruth(e).eligible \in BOOLEAN /\ SelectionTruth(e).allowed \in BOOLEAN
  BY <1>3 DEF SelectionTruth
<1>5. (SelectionTruth(e).eligible /\ ~e.marketing) \in BOOLEAN
      /\ (SelectionTruth(e).allowed /\ ~e.marketing) \in BOOLEAN
  OBVIOUS
<1>6. Candidate(e) \in Candidates
  BY <1>3, <1>5, Zenon DEF Candidate, Candidates
<1> QED BY <1>2, <1>6 DEF RankedCandidates

LEMMA LoopIsGreedy ==
    ASSUME PortfolioInv, decisions = RankCandidates(RankedCandidates)
    PROVE  /\ GreedyChoice({i \in Places : decisions[i].selected},
                           {i \in Places : Candidate(evidence[i]).allowed})
           /\ GreedyChoice({i \in Places : decisions[i].shadow}, Places)
<1> DEFINE cand == RankedCandidates
           n == Len(cand)
           f == Ranked(cand)
           selected == {i \in Places : decisions[i].selected}
           shadow == {i \in Places : decisions[i].shadow}
           allowed == {i \in Places : Candidate(evidence[i]).allowed}
           left == [k \in 0..n |-> f[k].left]
           shadowLeft == [k \in 0..n |-> f[k].shadowLeft]
<1>1. n \in Nat /\ Places = 1..n
  <2>1. Cardinality(Places) \in Nat /\ Places = 1..Cardinality(Places)
    BY RankingAssumption, FS_CardinalityType DEF RankingAssumption
  <2>2. DOMAIN cand = 1..Cardinality(Places)
    BY <2>1 DEF RankedCandidates
  <2>3. n = Cardinality(Places)
    BY <2>1, <2>2
  <2> QED BY <2>1, <2>3
<1>2. \A i \in 1..n : cand[i] = Candidate(evidence[i]) /\ cand[i] \in Candidates
  BY <1>1, CandidatesTyped
<1>3. capacity \in Capacities
  <2>1. capacity \in [slots : SlotChoices, minutes : MinuteChoices]
    BY DEF PortfolioInv
  <2>2. SlotChoices \subseteq Int /\ MinuteChoices \subseteq Int
    BY RankingAssumption DEF RankingAssumption
  <2> QED BY <2>1, <2>2 DEF Capacities
<1>4. RanksAs(f, cand, n)
  <2> HIDE DEF cand
  <2> QED BY <1>1, LoopRuns
<1>5. \A k \in 0..n : RowsUpto(f, cand, k)
  <2> HIDE DEF cand, n, f
  <2> QED BY <1>1, <1>2, <1>3, <1>4, RowsDecided
<1>6. decisions = f[n].rows
  BY DEF RankCandidates
<1> HIDE DEF cand, n, f
<1>7. f[0] = RankStart /\ \A k \in 1..n : f[k] = RankRow(f[k - 1], cand[k])
  <2>1. 0 \in 0..n /\ \A k \in 1..n : k \in 0..n /\ k # 0
    BY <1>1
  <2> QED BY <1>4, <2>1 DEF RanksAs
<1>8. left[0] = capacity /\ shadowLeft[0] = capacity
  BY <1>1, <1>7 DEF RankStart
<1>9. ASSUME NEW k \in 0..n
      PROVE  left[k] \in [slots : Int, minutes : Int] /\ shadowLeft[k] \in [slots : Int, minutes : Int]
  BY <1>5 DEF RowsUpto, Capacities
<1>10. ASSUME NEW k \in 1..n
       PROVE  /\ k - 1 \in 0..n /\ left[k - 1] = f[k - 1].left /\ shadowLeft[k - 1] = f[k - 1].shadowLeft
              /\ left[k] = f[k].left /\ shadowLeft[k] = f[k].shadowLeft
              /\ decisions[k] = Decided(f[k - 1], cand[k])
              /\ cand[k].allowed = Candidate(evidence[k]).allowed
  <2>1. k - 1 \in 0..n /\ k \in 0..n
    BY <1>1
  <2>2. decisions[k] = Decided(f[k - 1], cand[k])
    <3>1. n \in 0..n
      BY <1>1
    <3> QED BY <1>5, <1>6, <3>1 DEF RowsUpto
  <2> QED BY <1>2, <2>1, <2>2
<1>11. ASSUME NEW k \in 1..n
       PROVE  /\ k \in selected <=> k \in allowed /\ Fits(cand[k], left[k - 1])
              /\ left[k] = IF k \in selected THEN Use(left[k - 1], cand[k]) ELSE left[k - 1]
              /\ k \in shadow <=> k \in Places /\ Fits(cand[k], shadowLeft[k - 1])
              /\ shadowLeft[k] = IF k \in shadow THEN Use(shadowLeft[k - 1], cand[k]) ELSE shadowLeft[k - 1]
  <2>1. k \in Places
    BY <1>1
  <2>2. k \in selected <=> k \in allowed /\ Fits(cand[k], left[k - 1])
    <3>1. decisions[k].selected <=> Fits(cand[k], f[k - 1].left) /\ cand[k].allowed
      <4>1. Decided(f[k - 1], cand[k]).selected <=> Fits(cand[k], f[k - 1].left) /\ cand[k].allowed
        BY RowDecided, Zenon
      <4> QED BY <1>10, <4>1, Zenon
    <3> QED BY <1>10, <2>1, <3>1
  <2>3. k \in shadow <=> Fits(cand[k], shadowLeft[k - 1])
    <3>1. decisions[k].shadow <=> Fits(cand[k], f[k - 1].shadowLeft)
      <4>1. Decided(f[k - 1], cand[k]).shadow <=> Fits(cand[k], f[k - 1].shadowLeft)
        BY RowDecided, Zenon
      <4> QED BY <1>10, <4>1, Zenon
    <3> QED BY <1>10, <2>1, <3>1
  <2>4. k \in allowed <=> cand[k].allowed
    BY <1>10, <2>1
  <2>5. /\ f[k].left = IF Fits(cand[k], left[k - 1]) /\ cand[k].allowed
                       THEN Use(left[k - 1], cand[k]) ELSE left[k - 1]
        /\ f[k].shadowLeft = IF Fits(cand[k], shadowLeft[k - 1])
                             THEN Use(shadowLeft[k - 1], cand[k]) ELSE shadowLeft[k - 1]
    <3> HIDE DEF left, shadowLeft, selected, shadow, allowed
    <3> QED BY <1>7, <1>10, RowDecided
  <2> HIDE DEF left, shadowLeft, selected, shadow, allowed
  <2> QED BY <1>10, <2>1, <2>2, <2>3, <2>4, <2>5
<1>12. selected \subseteq 1..n /\ shadow \subseteq 1..n /\ \A i \in 1..n : cand[i].minutes \in Nat
  BY <1>1, <1>2 DEF Candidates
<1>13. [i \in Places |-> Candidate(evidence[i]).minutes] = [i \in 1..n |-> cand[i].minutes]
  BY <1>1, <1>2
<1>14. GreedyChoice(selected, allowed)
  <2>a. \A k \in 0..n : left[k] \in [slots : Int, minutes : Int]
    BY <1>9
  <2>b. TakesWhatIsLeft(selected, allowed, cand, left, n)
    BY <1>11 DEF TakesWhatIsLeft
  <2> HIDE DEF left, selected, allowed
  <2>1. GreedyAmong(selected, allowed, cand, capacity, n)
    BY <1>1, <1>8, <1>12, <2>a, <2>b, LeftIsChosen
  <2> QED BY <1>1, <1>2, <1>13, <2>1 DEF GreedyChoice, GreedyAmong
<1>15. GreedyChoice(shadow, Places)
  <2>a. \A k \in 0..n : shadowLeft[k] \in [slots : Int, minutes : Int]
    BY <1>9
  <2>b. TakesWhatIsLeft(shadow, Places, cand, shadowLeft, n)
    BY <1>11 DEF TakesWhatIsLeft
  <2> HIDE DEF shadowLeft, shadow
  <2>1. GreedyAmong(shadow, Places, cand, capacity, n)
    BY <1>1, <1>8, <1>12, <2>a, <2>b, LeftIsChosen
  <2> QED BY <1>1, <1>2, <1>13, <2>1 DEF GreedyChoice, GreedyAmong
<1> QED BY <1>14, <1>15

(* For any ranking and any capacity, the rows selected are the greedy      *)
(* choice among those that may act, and the shadow rows the greedy choice  *)
(* among the eligible ones.                                                *)
THEOREM GreedySelection == PortfolioSpec => []SelectionIsGreedy
<1>1. PortfolioInit => PortfolioInv
  BY DEF PortfolioInit, PortfolioInv
<1>2. PortfolioInv /\ [PortfolioNext]_portfolioVars => PortfolioInv'
  <2> SUFFICES ASSUME PortfolioInv, [PortfolioNext]_portfolioVars PROVE PortfolioInv'
    OBVIOUS
  <2>1. evidence' = evidence /\ capacity' = capacity
    BY DEF PortfolioNext, PersistRanking, portfolioVars
  <2>2. RankCandidates(RankedCandidates)' = RankCandidates(RankedCandidates)
    BY <2>1 DEF RankCandidates, Ranked, RankedCandidates, Candidate, SelectionTruth
  <2>3. decisions' = decisions \/ decisions' = RankCandidates(RankedCandidates)
    BY DEF PortfolioNext, PersistRanking, portfolioVars, RankedCandidates
  <2> QED BY <2>1, <2>2, <2>3 DEF PortfolioInv
<1>3. PortfolioInv => SelectionIsGreedy
  BY LoopIsGreedy DEF PortfolioInv, SelectionIsGreedy
<1> QED BY <1>1, <1>2, <1>3, PTL DEF PortfolioSpec

=============================================================================

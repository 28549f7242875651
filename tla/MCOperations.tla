---------------------------- MODULE MCOperations ----------------------------
(***************************************************************************)
(* Eleven components that share no state, checked in one run as in         *)
(* MCBusiness: the first state chooses the part that runs, the others stay *)
(* as they begin.                                                          *)
(***************************************************************************)
EXTENDS SandboxBroker, SandboxProxy, SettlementRoutes, Integrations, SalesChannels,
        UsageEvidence, QualityGate, WebResearch, ProfitTruth, Portfolio, SafetyResearch, TLC

CONSTANTS actor1, actor2, item1, item2, job1, source1, source2, semantic, model1, model2

VARIABLE part

Actors == {actor1, actor2}  \* attempts, threads, requests, connection tests
Items == {item1, item2}     \* caches, prompts, rails, calls
OneJob == {job1}            \* the job of the profit, the safety attempt, the market
OperationsSymmetry == Permutations(Actors) \cup Permutations(Items)

BothSources == {source1, source2}
OneCriterion == {semantic}
OnlyTheSecond == [s \in BothSources |-> IF s = source1 THEN {} ELSE {semantic}]
BothModels == {model1, model2}
OnlyTheFirst == {model1}
AllForOneJob == [c \in Items |-> job1]
OneADay == [DAY |-> 1, WEEK |-> 1]

Parts == {"broker", "proxy", "routes", "integrations", "channels", "usage", "gate", "research",
          "profit", "portfolio", "safety"}
Pinned(p, value) == part = p \/ value
NoEvidence == [source |-> "POSTED_OPPORTUNITY", preflight |-> "NONE", safe |-> TRUE, active |-> TRUE,
               marketing |-> FALSE, size |-> [minutes |-> 1, worth |-> FALSE]]

Init ==
    /\ part \in Parts
    /\ BrokerInit /\ Pinned("broker", needs = [a \in Attempts |-> NoCache])
    /\ ProxyInit /\ RoutesInit
    /\ IntegrationInit /\ Pinned("integrations", kind = "paystack" /\ overlaps)
    /\ ChannelInit /\ Pinned("channels", concurrent)
    /\ UsageInit
    /\ GateInit /\ Pinned("gate", source = source1)
    /\ ResearchInit /\ ProfitInit
    /\ SafetyInit /\ Pinned("safety", program)
    /\ IF part = "portfolio" THEN PortfolioInit
       ELSE /\ evidence = [i \in Places |-> NoEvidence]
            /\ capacity = [slots |-> 2, minutes |-> 2]
            /\ decisions = <<>>

Next ==
    \/ /\ part = "broker" /\ BrokerNext
       /\ UNCHANGED <<part, proxyVars, routeVars, integrationVars, channelVars, usageVars, gateVars,
                      researchVars, profitVars, portfolioVars, safetyVars>>
    \/ /\ part = "proxy" /\ ProxyNext
       /\ UNCHANGED <<part, brokerVars, routeVars, integrationVars, channelVars, usageVars, gateVars,
                      researchVars, profitVars, portfolioVars, safetyVars>>
    \/ /\ part = "routes" /\ RoutesNext
       /\ UNCHANGED <<part, brokerVars, proxyVars, integrationVars, channelVars, usageVars, gateVars,
                      researchVars, profitVars, portfolioVars, safetyVars>>
    \/ /\ part = "integrations" /\ IntegrationNext
       /\ UNCHANGED <<part, brokerVars, proxyVars, routeVars, channelVars, usageVars, gateVars,
                      researchVars, profitVars, portfolioVars, safetyVars>>
    \/ /\ part = "channels" /\ ChannelNext
       /\ UNCHANGED <<part, brokerVars, proxyVars, routeVars, integrationVars, usageVars, gateVars,
                      researchVars, profitVars, portfolioVars, safetyVars>>
    \/ /\ part = "usage" /\ UsageNext
       /\ UNCHANGED <<part, brokerVars, proxyVars, routeVars, integrationVars, channelVars, gateVars,
                      researchVars, profitVars, portfolioVars, safetyVars>>
    \/ /\ part = "gate" /\ GateNext
       /\ UNCHANGED <<part, brokerVars, proxyVars, routeVars, integrationVars, channelVars, usageVars,
                      researchVars, profitVars, portfolioVars, safetyVars>>
    \/ /\ part = "research" /\ ResearchNext
       /\ UNCHANGED <<part, brokerVars, proxyVars, routeVars, integrationVars, channelVars, usageVars,
                      gateVars, profitVars, portfolioVars, safetyVars>>
    \/ /\ part = "profit" /\ ProfitNext
       /\ UNCHANGED <<part, brokerVars, proxyVars, routeVars, integrationVars, channelVars, usageVars,
                      gateVars, researchVars, portfolioVars, safetyVars>>
    \/ /\ part = "portfolio" /\ PortfolioNext
       /\ UNCHANGED <<part, brokerVars, proxyVars, routeVars, integrationVars, channelVars, usageVars,
                      gateVars, researchVars, profitVars, safetyVars>>
    \/ /\ part = "safety" /\ SafetyNext
       /\ UNCHANGED <<part, brokerVars, proxyVars, routeVars, integrationVars, channelVars, usageVars,
                      gateVars, researchVars, profitVars, portfolioVars>>

operationsVars ==
    <<part, brokerVars, proxyVars, routeVars, integrationVars, channelVars, usageVars, gateVars,
      researchVars, profitVars, portfolioVars, safetyVars>>
Spec == Init /\ [][Next]_operationsVars
=============================================================================

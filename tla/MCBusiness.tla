----------------------------- MODULE MCBusiness -----------------------------
(***************************************************************************)
(* Six components that share no state, checked in one run: the first       *)
(* state chooses the part that runs, the others stay as they begin.        *)
(***************************************************************************)
EXTENDS StepOrder, CommercialApi, Acquisition, ProductFactory, MarketWebhooks,
        JobLock, TLC

CONSTANTS k1, k2, k3, k4, p1, p2, p3, item1, item2, actor1, actor2, body1, body2

VARIABLE part

Steps == {k1, k2, k3, k4}
Items == {item1, item2}     \* jobs of the market, API requests
OneItem == {item1}          \* the product of the factory
Actors == {actor1, actor2}  \* threads, watchers, cycles, webhook workers
Payloads == {body1, body2}
BusinessSymmetry == Permutations(Items) \cup Permutations(Actors) \cup Permutations(Payloads)

(* One process per node beside a prompt watchdog, and the default node id  *)
(* for all of them beside a late one.                                      *)
Processes == {p1, p2, p3}
OwnNodes == [nodeOf |-> [p \in Procs |-> p], prompt |-> TRUE]
SharedNode == [nodeOf |-> [p \in Procs |-> "VPS1"], prompt |-> FALSE]
BothDeployments == {OwnNodes, SharedNode}
AllNodes == Procs \cup {"VPS1"}

Parts == {"order", "api", "acquisition", "factory", "webhooks", "lock"}

(* A part that does not run begins in one way only.                        *)
Pinned(p, value) == part = p \/ value
(* Bound: two watchers at once meet one job.                               *)
Meeting == Alone \/ Cardinality({j \in Jobs : path[j] # "NONE"}) <= 1

Init ==
    /\ part \in Parts
    /\ OrderInit /\ Pinned("order", \A key \in Keys : dependencies[key] = {})
    /\ ApiInit /\ Pinned("api", serving = Calls /\ class = "SYNCHRONOUS")
    /\ AcquisitionInit /\ Meeting
    /\ Pinned("acquisition", running = Watchers /\ shared /\ \A j \in Jobs : path[j] = "NONE")
    /\ LockInit /\ Pinned("lock", deployment = SharedNode)
    /\ FactoryInit /\ WebhookInit

Next ==
    \/ /\ part = "order" /\ OrderNext
       /\ UNCHANGED <<part, apiVars, acquisitionVars, factoryVars, webhookVars, lockVars>>
    \/ /\ part = "api" /\ ApiNext
       /\ UNCHANGED <<part, orderVars, acquisitionVars, factoryVars, webhookVars, lockVars>>
    \/ /\ part = "acquisition" /\ AcquisitionNext
       /\ UNCHANGED <<part, orderVars, apiVars, factoryVars, webhookVars, lockVars>>
    \/ /\ part = "factory" /\ FactoryNext
       /\ UNCHANGED <<part, orderVars, apiVars, acquisitionVars, webhookVars, lockVars>>
    \/ /\ part = "webhooks" /\ WebhookNext
       /\ UNCHANGED <<part, orderVars, apiVars, acquisitionVars, factoryVars, lockVars>>
    \/ /\ part = "lock" /\ LockNext
       /\ UNCHANGED <<part, orderVars, apiVars, acquisitionVars, factoryVars, webhookVars>>

Spec == Init /\ [][Next]_<<part, orderVars, apiVars, acquisitionVars, factoryVars, webhookVars,
                          lockVars>>
=============================================================================

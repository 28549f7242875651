----------------------------- MODULE Integrations -----------------------------
(***************************************************************************)
(* The switch of one market: integration_accounts.py (credentials),        *)
(* integration_connections.py (connection tests), market_control.py (the   *)
(* owner's proof and the operating state), markets.py (the catalogue       *)
(* applied at every start of the web container) and the reconciliation of  *)
(* integration_reconciliation.py.  A test reads the secrets, calls the     *)
(* provider without a lock and persists its verdict later.                 *)
(***************************************************************************)
EXTENDS Naturals

CONSTANTS
    Testers,    \* connection tests in flight
    MaxSecrets  \* bound: secrets the owner stores

Kinds == {"dealwork", "taskbounty", "paystack"}
Statuses == {"PAYOUT_BLOCKED", "WATCH_ONLY", "LIVE", "AUTH_EXPIRED"}
NoSnapshot == [proof |-> FALSE, armed |-> FALSE, of |-> "none"]

VARIABLES
    kind,      \* which market
    overlaps,  \* whether unlocked reads of the profile may overlap other writes
    market,    \* Marketplace: enabled, status, payout_ready
    profile,   \* MarketIntegrationProfile: connection, credentials, arming, KYA proof, blocker
    secret,    \* version of the active secret, 0 for none; how many were stored
    authOk,    \* MarketHealth.auth_ok, of the adapter with the key of the environment
    tester,    \* what each test found, or that it runs
    snapshot,  \* a profile read without its lock, to be written back
    trusted    \* the owner enabled the market after the last reason to shut it (ghost)

integrationVars ==
    <<kind, overlaps, market, profile, secret, authOk, tester, snapshot, trusted>>

IntegrationInit ==
    /\ kind \in Kinds /\ overlaps \in BOOLEAN
    /\ market = [enabled |-> FALSE, status |-> "PAYOUT_BLOCKED", payoutReady |-> FALSE]
    /\ profile = [connection |-> "UNVERIFIED", credential |-> "NOT_CONFIGURED", armed |-> FALSE,
                  proof |-> FALSE, blocker |-> kind = "dealwork", backoff |-> FALSE]
    /\ secret = [active |-> 0, stored |-> 0]
    /\ authOk = FALSE
    /\ tester = [t \in Testers |-> "idle"]
    /\ snapshot = NoSnapshot
    /\ trusted = FALSE

(* Writes to one profile exclude one another unless they may overlap.      *)
Undisturbed == overlaps \/ snapshot = NoSnapshot

Shut == market' = [market EXCEPT !.enabled = FALSE, !.payoutReady = FALSE] /\ trusted' = FALSE

-----------------------------------------------------------------------------
(* Credentials.                                                            *)

StoreCredentials(complete) ==
    /\ Undisturbed /\ secret.stored < MaxSecrets
    /\ secret' = [active |-> secret.stored + 1, stored |-> secret.stored + 1]
    /\ profile' = [profile EXCEPT !.credential = IF complete THEN "CONFIGURED" ELSE "PARTIAL",
                                  !.connection = "UNVERIFIED", !.backoff = FALSE]
    /\ Shut
    /\ UNCHANGED <<kind, overlaps, authOk, tester, snapshot>>

RevokeCredentials ==
    /\ Undisturbed
    /\ secret' = [secret EXCEPT !.active = 0]
    /\ profile' = [profile EXCEPT !.credential = "NOT_CONFIGURED", !.connection = "REVOKED",
                                  !.armed = FALSE, !.backoff = TRUE]
    /\ market' = [enabled |-> FALSE, status |-> "AUTH_EXPIRED", payoutReady |-> FALSE]
    /\ trusted' = FALSE
    /\ UNCHANGED <<kind, overlaps, authOk, tester, snapshot>>

-----------------------------------------------------------------------------
(* Connection tests.                                                       *)

TestConnection(t) ==
    /\ tester[t] = "idle"
    /\ \E verdict \in {"rejected", "failed"} \cup (IF secret.active > 0 THEN {"passed"} ELSE {}) :
          tester' = [tester EXCEPT ![t] = verdict]
    /\ UNCHANGED <<kind, overlaps, market, profile, secret, authOk, snapshot, trusted>>

(* Mutant: a failed test leaves the market as it was.                      *)
OnlyReport(profileRow) == UNCHANGED market /\ trusted' = FALSE /\ profile' = profileRow
Disarm(profileRow) == Shut /\ profile' = [profileRow EXCEPT !.armed = FALSE]

PersistConnectionResult(t) ==
    /\ tester[t] # "idle" /\ Undisturbed
    /\ IF tester[t] = "passed"
       THEN /\ profile' = [profile EXCEPT !.connection = "VERIFIED", !.credential = "VERIFIED",
                                          !.backoff = FALSE]
            /\ UNCHANGED <<market, trusted>>
       ELSE Disarm([profile EXCEPT !.connection = "UNVERIFIED",
                                   !.backoff = tester[t] = "rejected"])
    /\ tester' = [tester EXCEPT ![t] = "idle"]
    /\ UNCHANGED <<kind, overlaps, secret, authOk, snapshot>>

(* reconcile_integrations and _disarm_authentication_failure: only Paystack*)
(* has a handler, the others are stamped as reconciled.                    *)
ReconcileIntegration(outcome) ==
    /\ profile.connection = "VERIFIED" /\ ~profile.backoff /\ Undisturbed
    /\ outcome # "done" => kind = "paystack"
    /\ IF outcome = "rejected"
       THEN Disarm([profile EXCEPT !.connection = "UNVERIFIED", !.backoff = TRUE])
       ELSE UNCHANGED <<market, profile, trusted>>
    /\ UNCHANGED <<kind, overlaps, secret, authOk, tester, snapshot>>

-----------------------------------------------------------------------------
(* The market's catalogue, applied by bootstrap_market_integrations: the   *)
(* profile is read, the owner's proof overlaid on the static blockers, and *)
(* the row written.  An owner's proof submission reads and writes the same *)
(* evidence.                                                               *)

Live == market.enabled /\ market.status = "LIVE"

ReadProfile(of) ==
    /\ snapshot = NoSnapshot
    /\ of = "bootstrap" => kind # "paystack"
    /\ snapshot' = [proof |-> profile.proof, armed |-> profile.armed /\ Live, of |-> of]
    /\ UNCHANGED <<kind, overlaps, market, profile, secret, authOk, tester, trusted>>

(* overlay_operator_profile_truth.                                         *)
OverlayTruth(row, proof) == [row EXCEPT !.proof = proof, !.blocker = kind = "dealwork" /\ ~proof]

BootstrapMarket ==
    /\ snapshot.of = "bootstrap"
    /\ LET overlaid == OverlayTruth(profile, snapshot.proof) IN
       profile' = [overlaid EXCEPT !.armed = snapshot.armed /\ ~overlaid.blocker]
    /\ snapshot' = NoSnapshot
    /\ UNCHANGED <<kind, overlaps, market, secret, authOk, tester, trusted>>

SubmitProof ==
    /\ snapshot.of = "submission"
    /\ profile' = [profile EXCEPT !.proof = snapshot.proof]
    /\ snapshot' = NoSnapshot
    /\ UNCHANGED <<kind, overlaps, market, secret, authOk, tester, trusted>>

(* sync_market_discovery: health of the adapter.                           *)
SyncMarketHealth(ok) ==
    /\ authOk' = ok
    /\ UNCHANGED <<kind, overlaps, market, profile, secret, tester, snapshot, trusted>>

(* External: an operator opens the payout of the market in the admin site. *)
VerifyPayout ==
    /\ market' = [market EXCEPT !.payoutReady = TRUE]
    /\ UNCHANGED <<kind, overlaps, profile, secret, authOk, tester, snapshot, trusted>>

-----------------------------------------------------------------------------
(* The owner's controls.                                                   *)

(* update_market_compliance_proof.                                         *)
WithdrawProof == market' = [market EXCEPT !.enabled = FALSE,
                                          !.status = IF @ = "LIVE" THEN "WATCH_ONLY" ELSE @]

UpdateComplianceProof(verified) ==
    /\ kind = "dealwork" /\ Undisturbed
    /\ profile' = [profile EXCEPT !.proof = verified, !.blocker = ~verified,
                                  !.armed = @ /\ verified]
    /\ IF verified THEN UNCHANGED <<market, trusted>> ELSE WithdrawProof /\ trusted' = FALSE
    /\ UNCHANGED <<kind, overlaps, secret, authOk, tester, snapshot>>

(* market_readiness: connected, policy in force (a choice), no blocker, and*)
(* a cash route except for a platform wallet; Paystack has no discovery.   *)
LiveEntryReady(policy) ==
    kind # "paystack" /\ authOk /\ policy /\ ~profile.blocker /\ (market.payoutReady \/ kind = "dealwork")

UpdateOperatingState(enabled, arm, policy) ==
    /\ Undisturbed
    /\ enabled => LiveEntryReady(policy)
    /\ market' = [market EXCEPT !.enabled = enabled,
                                !.status = IF enabled THEN "LIVE" ELSE "WATCH_ONLY"]
    /\ profile' = [profile EXCEPT !.armed = enabled /\ arm]
    /\ trusted' = enabled
    /\ UNCHANGED <<kind, overlaps, secret, authOk, tester, snapshot>>

IntegrationNext ==
    \/ \E complete \in BOOLEAN : StoreCredentials(complete)
    \/ RevokeCredentials \/ VerifyPayout \/ BootstrapMarket \/ SubmitProof
    \/ \E t \in Testers : TestConnection(t) \/ PersistConnectionResult(t)
    \/ \E outcome \in {"done", "rejected", "failed"} : ReconcileIntegration(outcome)
    \/ \E of \in {"bootstrap", "submission"} : ReadProfile(of)
    \/ \E ok \in BOOLEAN : SyncMarketHealth(ok)
    \/ \E verified \in BOOLEAN : UpdateComplianceProof(verified)
    \/ \E enabled, arm, policy \in BOOLEAN : UpdateOperatingState(enabled, arm, policy)

IntegrationSpec == IntegrationInit /\ [][IntegrationNext]_integrationVars

-----------------------------------------------------------------------------
(* A market acquires work by itself only after the owner enabled it, later *)
(* than any failed test, revoked or replaced secret, rejected key or       *)
(* withdrawn proof, whenever their verdicts arrive and whenever the        *)
(* catalogue is applied again.  On Dealwork it does so only on a KYA proof *)
(* that stands; for that the profile must not be read by a start of the web*)
(* container, or a proof submission, while the owner changes it.           *)
ArmedByOwner ==
    Live /\ profile.armed =>
        /\ trusted
        /\ kind = "dealwork" /\ ~overlaps => profile.proof /\ ~profile.blocker
=============================================================================

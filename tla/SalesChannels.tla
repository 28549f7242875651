---------------------------- MODULE SalesChannels ----------------------------
(***************************************************************************)
(* One package of ours on one sales channel: seller_services.py (proof of  *)
(* the offering, truth of its listing), channel_packages.py (the catalogue *)
(* written at every start of the web container), channel_onboarding.py     *)
(* (the owner's checks of the market), channel_commercial.py (price) and   *)
(* channel_publication.py (the listing the owner made by hand).            *)
(* Prices are small numbers; 0 stands for one that cannot be computed.     *)
(***************************************************************************)
EXTENDS Naturals

CONSTANTS
    MaxFloor,          \* bound: the highest profitable minimum
    CommercialMinimum  \* COMMERCIAL_*_MIN_USD

Floors == 0..MaxFloor
ListPrices == 0..(2 * MaxFloor)
ProofStates == {"UNPROVEN", "SOURCE_PROVEN", "EXECUTION_PROVEN", "SELLABLE"}
ListingStatuses == {"DRAFT", "BLOCKED", "READY", "PUBLISHED", "PAUSED"}
Pricings == [source : {"NONE", "AUTO_PROPOSAL", "OWNER_OVERRIDE"}, price : ListPrices]
Unpriced == [source |-> "NONE", price |-> 0]
NoSync == [reads |-> FALSE, safe |-> FALSE, floor |-> 0, pricing |-> Unpriced]

VARIABLES
    concurrent,  \* whether the catalogue may be written while others write the listing
    offering,    \* ServiceOffering: proof_state, active, minimum_profitable_price
    listing,     \* MarketServiceListing: status, remote evidence, price, metadata
    channel,     \* the market is open; the effective profile: capability, identity blocker
    checks,      \* the owner's checks: contract and terms, identity
    syncing,     \* what sync_priority_channel_packages read of the listing
    published    \* price the owner published by hand, 0 before (ghost)

channelVars == <<concurrent, offering, listing, channel, checks, syncing, published>>

(* As the first start of the web container leaves the rows.                *)
ChannelInit ==
    /\ concurrent \in BOOLEAN
    /\ offering = [proof |-> "SOURCE_PROVEN", active |-> FALSE, floor |-> 1]
    /\ listing = [status |-> "DRAFT", remote |-> FALSE, price |-> 1, manifest |-> 1,
                  pricing |-> Unpriced]
    /\ channel = [open |-> FALSE, capable |-> FALSE, blocked |-> TRUE]
    /\ checks = [contract |-> FALSE, identity |-> FALSE]
    /\ syncing = NoSync
    /\ published = 0

ListingFree == concurrent \/ ~syncing.reads

-----------------------------------------------------------------------------
(* The offering.                                                           *)

(* One proof stage at a time, as far as the registry, the database and the *)
(* host go: the source, an execution that passed QA, the runtime.          *)
Evidenced == {"NOTHING", "SOURCE", "EXECUTION", "RUNTIME"}
NextProof(found) ==
    CASE found = "NOTHING" -> "UNPROVEN"
      [] found = "SOURCE" -> "SOURCE_PROVEN"
      [] found = "RUNTIME" /\ offering.proof \in {"EXECUTION_PROVEN", "SELLABLE"} -> "SELLABLE"
      [] OTHER -> "EXECUTION_PROVEN"

RefreshServiceOfferingProof(found) ==
    /\ offering' = [offering EXCEPT !.proof = NextProof(found)]
    /\ UNCHANGED <<concurrent, listing, channel, checks, syncing, published>>

(* External: the admin site.                                               *)
ActivateOffering(active) ==
    /\ offering' = [offering EXCEPT !.active = active]
    /\ UNCHANGED <<concurrent, listing, channel, checks, syncing, published>>
OpenMarket(open) ==
    /\ channel' = [channel EXCEPT !.open = open]
    /\ UNCHANGED <<concurrent, offering, listing, checks, syncing, published>>

(* service_capability_blockers; that the host still runs it is a choice.   *)
Capable(runs) == offering.proof = "SELLABLE" /\ offering.active /\ runs

-----------------------------------------------------------------------------
(* The catalogue and the owner's checks of the market.                     *)

(* sync_priority_channel_packages: catalogue fields of the profile, then   *)
(* the offering unless it sells, then the listing, read without a lock.    *)
SyncOffering(floor) ==
    /\ ~syncing.reads
    /\ channel' = [channel EXCEPT !.capable = FALSE]
    /\ offering' = IF offering.active THEN offering ELSE [offering EXCEPT !.floor = floor]
    /\ syncing' = [reads |-> TRUE, safe |-> listing.status # "PUBLISHED" /\ ~listing.remote,
                   floor |-> floor, pricing |-> listing.pricing]
    /\ UNCHANGED <<concurrent, listing, checks, published>>

SyncListing ==
    /\ syncing.reads
    /\ listing' = IF syncing.safe
                  THEN [listing EXCEPT !.price = 2 * syncing.floor, !.manifest = syncing.floor,
                                       !.pricing = syncing.pricing]
                  ELSE listing
    /\ syncing' = NoSync
    /\ UNCHANGED <<concurrent, offering, channel, checks, published>>

(* _apply_effective_profile: a check that passes clears its blockers; one  *)
(* that is taken back does not restore them.                               *)
Effective(c) == [channel EXCEPT !.capable = c.contract, !.blocked = @ /\ ~c.identity]

ReapplyOnboarding ==
    /\ channel' = Effective(checks)
    /\ UNCHANGED <<concurrent, offering, listing, checks, syncing, published>>

UpdateOnboarding(c) ==
    /\ checks' = c
    /\ channel' = Effective(c)
    /\ UNCHANGED <<concurrent, offering, listing, syncing, published>>

-----------------------------------------------------------------------------
(* The price.                                                              *)

Larger(a, b) == IF a >= b THEN a ELSE b
Priceable == offering.floor > 0 /\ listing.manifest > 0
Proposal == IF Priceable THEN Larger(2 * offering.floor, CommercialMinimum) ELSE 0
LaunchMinimum == Larger(offering.floor, CommercialMinimum)

(* _safe_to_refresh; mutant: the status alone.                             *)
UnlessStatusPublished == listing.status # "PUBLISHED"
SafeToRefresh == listing.status # "PUBLISHED" /\ ~listing.remote

BootstrapPricing ==
    /\ ListingFree
    /\ listing.pricing.source # "OWNER_OVERRIDE" /\ SafeToRefresh
    /\ listing' = [listing EXCEPT !.pricing = [source |-> "AUTO_PROPOSAL", price |-> Proposal]]
    /\ UNCHANGED <<concurrent, offering, channel, checks, syncing, published>>

SetOwnerPrice(price) ==
    /\ ListingFree /\ SafeToRefresh /\ Priceable
    /\ price >= LaunchMinimum
    /\ listing' = [listing EXCEPT !.pricing = [source |-> "OWNER_OVERRIDE", price |-> price]]
    /\ UNCHANGED <<concurrent, offering, channel, checks, syncing, published>>

-----------------------------------------------------------------------------
(* The listing.                                                            *)

(* listing_blockers; that the host runs the service and that automation is *)
(* switched on are one choice.                                             *)
RefreshListingTruth(runs) ==
    LET ready == Capable(runs) /\ channel.open /\ channel.capable /\ ~channel.blocked
    IN
    /\ ListingFree
    /\ listing' = [listing EXCEPT !.status = IF ready THEN "READY" ELSE "BLOCKED"]
    /\ UNCHANGED <<concurrent, offering, channel, checks, syncing, published>>

PauseServiceListing ==
    /\ ListingFree
    /\ listing' = [listing EXCEPT !.status = "PAUSED"]
    /\ UNCHANGED <<concurrent, offering, channel, checks, syncing, published>>

(* Of an automated publication; it keeps the price of the listing.         *)
RecordListingPublication ==
    /\ ListingFree /\ listing.status = "READY"
    /\ listing' = [listing EXCEPT !.status = "PUBLISHED", !.remote = TRUE]
    /\ UNCHANGED <<concurrent, offering, channel, checks, syncing, published>>

(* priority_manual_publication_blockers.                                   *)
MayPublish(runs) ==
    /\ Capable(runs) /\ channel.open /\ channel.capable /\ ~channel.blocked
    /\ listing.pricing.source = "OWNER_OVERRIDE"
    /\ listing.pricing.price > 0 /\ listing.pricing.price >= offering.floor
    /\ SafeToRefresh

RecordManualPublication(runs) ==
    /\ ListingFree /\ MayPublish(runs)
    /\ listing' = [listing EXCEPT !.status = "PUBLISHED", !.remote = TRUE,
                                  !.price = listing.pricing.price]
    /\ published' = listing.pricing.price
    /\ UNCHANGED <<concurrent, offering, channel, checks, syncing>>

ChannelNext ==
    \/ \E found \in Evidenced : RefreshServiceOfferingProof(found)
    \/ \E on \in BOOLEAN : ActivateOffering(on) \/ OpenMarket(on)
    \/ \E floor \in Floors : SyncOffering(floor)
    \/ SyncListing \/ ReapplyOnboarding \/ BootstrapPricing \/ PauseServiceListing \/ RecordListingPublication
    \/ \E c \in [contract : BOOLEAN, identity : BOOLEAN] : UpdateOnboarding(c)
    \/ \E price \in ListPrices : SetOwnerPrice(price)
    \/ \E runs \in BOOLEAN : RefreshListingTruth(runs) \/ RecordManualPublication(runs)

ChannelSpec == ChannelInit /\ [][ChannelNext]_channelVars

-----------------------------------------------------------------------------
(* What the owner published by hand stays on record at the price the owner *)
(* approved for it, whatever later starts, price changes, pauses, truth    *)
(* refreshes and automated publications do to the listing.  A start that   *)
(* writes the catalogue while the owner works on the listing may lose the  *)
(* price, not the publication; the web container is down then.             *)
PublishedPriceIsKept ==
    published > 0 =>
        /\ listing.remote
        /\ ~concurrent =>
              /\ listing.price = published
              /\ listing.pricing = [source |-> "OWNER_OVERRIDE", price |-> published]
=============================================================================

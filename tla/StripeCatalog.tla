--------------------------- MODULE StripeCatalog ----------------------------
(***************************************************************************)
(* What a workspace may be charged: the prices and the tax mode that are   *)
(* configured, checked before a checkout (billing/stripe-catalog.ts,       *)
(* stripe-tax.ts, actions.ts), and the subscription of an event, checked   *)
(* before it becomes the workspace's (stripe-state.ts).  In between, the   *)
(* configuration may be deployed anew, prices may be archived at Stripe,   *)
(* and a subscription may be made there by hand.                           *)
(***************************************************************************)
EXTENDS Integers, FiniteSets

CONSTANTS
    Prices,    \* price identifiers
    Price,     \* what each is: component, right, metered, product, live
    Countries, \* where Yodev may have a tax registration
    France,
    MaxChanges \* bound: deploys, archived prices, registrations

CatalogAssumption ==
    /\ Price \in [Prices -> [component : {"platform", "usage"}, right : BOOLEAN, metered : BOOLEAN,
                             product : Nat, live : BOOLEAN]]
    /\ France \in Countries /\ MaxChanges \in Nat

VARIABLES
    env,           \* platform price, usage price, tax mode
    archived,      \* Stripe: prices that are no longer active
    registrations, \* Stripe: active tax registrations
    attempt,       \* the pending checkout attempt and its prices
    subscription,  \* Stripe: the subscription of the workspace
    local,         \* the subscription the workspace has, as last accepted
    changed,       \* has the configuration been deployed since the attempt?
    changes

vars == <<env, archived, registrations, attempt, subscription, local, changed, changes>>

-----------------------------------------------------------------------------
TaxModes == {"unconfigured", "franchise_base", "registered"}
Live     == TRUE  \* mode of the secret key, and of the events it gets
NoSubscription == [prices |-> {}, ours |-> FALSE, live |-> Live]

(* Every reason not to sell at these prices.  "right" stands for currency, *)
(* amount, lookup key, interval, tax behaviour and metadata.               *)
validateStripeCatalog(p, u) ==
    {e \in {"platform", "usage", "product", "mode"} :
        CASE e = "platform" -> p \in archived \/ ~Price[p].right \/ Price[p].metered \/ Price[p].component # "platform"
          [] e = "usage"    -> u \in archived \/ ~Price[u].right \/ ~Price[u].metered \/ Price[u].component # "usage"
          [] e = "product"  -> Price[p].product # Price[u].product
          [] e = "mode"     -> Price[p].live # Live \/ Price[u].live # Live}

validateStripeTaxConfiguration(mode) ==
    {e \in {"unconfigured", "unexpected", "missing"} :
        CASE e = "unconfigured" -> mode = "unconfigured"
          [] e = "unexpected"   -> mode = "franchise_base" /\ registrations # {}
          [] e = "missing"      -> mode = "registered" /\ France \notin registrations}

(* Every reason to refuse the subscription of an event.                    *)
SnapshotErrorsBug(s) == {e \in {"mode"} : s.live # Live}
SnapshotErrors(s) ==
    {e \in {"mode", "metadata", "prices", "items", "metering"} :
        CASE e = "mode"     -> s.live # Live
          [] e = "metadata" -> ~s.ours
          [] e = "prices"   -> ~({env.platform, env.usage} \subseteq s.prices)
          [] e = "items"    -> Cardinality(s.prices) # 2
          [] e = "metering" -> Price[env.platform].metered \/ ~Price[env.usage].metered}

Change == changes < MaxChanges /\ changes' = changes + 1

-----------------------------------------------------------------------------
Configurations == [platform : Prices, usage : Prices, tax : TaxModes]

Init ==
    /\ env \in Configurations
    /\ archived = {} /\ registrations \in SUBSET Countries
    /\ attempt = {} /\ subscription = NoSubscription /\ local = {}
    /\ changed = FALSE /\ changes = 0

(* The configured prices are checked; an attempt keeps those it began with *)
(* and is resumed with them.                                               *)
prepareCheckout ==
    /\ subscription = NoSubscription
    /\ validateStripeCatalog(env.platform, env.usage) = {}
    /\ validateStripeTaxConfiguration(env.tax) = {}
    /\ attempt = {}
    /\ attempt' = {env.platform, env.usage} /\ changed' = FALSE
    /\ UNCHANGED <<env, archived, registrations, subscription, local, changes>>

(* Stripe sells active prices only.                                        *)
Pay ==
    /\ attempt # {} /\ subscription = NoSubscription
    /\ attempt \cap archived = {}
    /\ subscription' = [prices |-> attempt, ours |-> TRUE, live |-> Live]
    /\ UNCHANGED <<env, archived, registrations, attempt, local, changed, changes>>

MadeByHand ==
    /\ subscription = NoSubscription /\ Change
    /\ \E ps \in SUBSET Prices, ours \in BOOLEAN :
           ps # {} /\ subscription' = [prices |-> ps, ours |-> ours, live |-> Live]
    /\ changed' = TRUE
    /\ UNCHANGED <<env, archived, registrations, attempt, local>>

(* An event of the subscription.                                           *)
buildStripeSubscriptionSnapshot ==
    /\ subscription # NoSubscription
    /\ SnapshotErrors(subscription) = {}
    /\ local' = subscription.prices
    /\ UNCHANGED <<env, archived, registrations, attempt, subscription, changed, changes>>

Deploy ==
    /\ Change /\ env' \in Configurations /\ changed' = TRUE
    /\ UNCHANGED <<archived, registrations, attempt, subscription, local>>

Archive(p) ==
    /\ Change /\ archived' = archived \cup {p}
    /\ UNCHANGED <<env, registrations, attempt, subscription, local, changed>>

Register ==
    /\ Change /\ registrations' \in SUBSET Countries
    /\ UNCHANGED <<env, archived, attempt, subscription, local, changed>>

Next ==
    \/ prepareCheckout \/ Pay \/ MadeByHand \/ buildStripeSubscriptionSnapshot
    \/ Deploy \/ Register
    \/ \E p \in Prices : Archive(p)

Spec == Init /\ [][Next]_vars

-----------------------------------------------------------------------------
TypeOK ==
    /\ env \in Configurations /\ archived \subseteq Prices /\ registrations \subseteq Countries
    /\ {attempt, local} \subseteq SUBSET Prices
    /\ subscription \in [prices : SUBSET Prices, ours : BOOLEAN, live : BOOLEAN]
    /\ changed \in BOOLEAN /\ changes \in 0..MaxChanges

(* A customer who pays a checkout of the current configuration is never    *)
(* refused by the event of that payment, prices archived meanwhile or not; *)
(* and what the workspace has always meters its use: a flat price alone is *)
(* never taken for a subscription, nor one price twice.                    *)
PaidIsAccepted ==
    /\ subscription # NoSubscription /\ ~changed => SnapshotErrors(subscription) = {}
    /\ local # {} => /\ Cardinality(local) = 2
                     /\ \E p, u \in local : ~Price[p].metered /\ Price[u].metered
=============================================================================

--------------------------- MODULE MCWebhookMonitor ---------------------------
(* Small instances of WebhookMonitor. *)
EXTENDS WebhookMonitor

Event(p, id, type, tenant) ==
  [provider |-> p, eventId |-> id, eventType |-> type, tenantId |-> tenant]

MCTenants == {"acme", "globex"}
MCProcs == {"api", "worker"}

\* Two deliveries of one Stripe event and a Shopify event with the same id.
ClashingDeliveries == {"d1", "d2", "d3"}
ClashingCarries ==
  [d \in ClashingDeliveries |->
     IF d = "d3" THEN Event("SHOPIFY", "evt", "orders/create", "globex")
                 ELSE Event("STRIPE", "evt", "invoice.paid", "acme")]

\* One event, delivered twice or once.
TwoDeliveries == {"d1", "d2"}
OneEvent == [d \in TwoDeliveries |-> Event("STRIPE", "evt", "invoice.paid", "acme")]
OneDelivery == {"d1"}
OneDeliveryEvent == [d \in OneDelivery |-> Event("STRIPE", "evt", "invoice.paid", "acme")]

NoReplays == {}
NoRequester == [r \in {} |-> "acme"]
OneReplay == {"r1"}
OneRequester == [r \in {"r1"} |-> "acme"]
TwoReplays == {"r1", "r2"}
TwoRequesters == [r \in {"r1", "r2"} |-> "acme"]

Rule(tenant, type, provider, status) ==
  [tenantId |-> tenant, eventType |-> type, provider |-> provider, status |-> status]

NoRules == {}
\* A rule for every event of one tenant.
OneRule == {Rule("acme", "any", "any", "any")}
=============================================================================

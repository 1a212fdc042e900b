----------------------------- MODULE PagesProofs -----------------------------
(* Theorems of Pages, for every value of its constants. *)
EXTENDS Pages, TLAPS

\* What may still be older than the change that was answered last: data that is
\* stale, or whatever comes of a fetch that was left to run.
ShowsOwn ==
  /\ entry.fresh => entry.seen >= own \/ missed
  /\ fetch.on /\ ~ fetch.asked => fetch.seen >= own \/ (missed /\ ~ entry.fresh)

\* A query without a route never gets an answer.
Unanswered == ~ entry.fresh /\ (fetch.on => fetch.asked)

PagesInv ==
  /\ PagesTypeOK
  /\ mutation \in Mutations /\ query.rows = RowsOf(query.key)
  /\ query.rows \in {mutation.writes, NoRoute}
  /\ own <= changes /\ request.wrote <= changes
  /\ query.rows = NoRoute => Unanswered
  /\ Covered => ShowsOwn
-----------------------------------------------------------------------------
(* The tables of the code. *)

\* Two prefixes of one key agree where both have an element.
LEMMA PrefixesAgree ==
  ASSUME NEW S, NEW k \in Seq(S), NEW p \in Seq(S), NEW q \in Seq(S),
         IsPrefix(p, k), IsPrefix(q, k), NEW i \in 1..Len(p), i \in 1..Len(q)
  PROVE  p[i] = q[i]
<1>1. Len(p) <= Len(k) /\ Len(q) <= Len(k) BY DEF IsPrefix
<1>2. SubSeq(p, 1, Len(p))[i] = p[i] /\ SubSeq(q, 1, Len(q))[i] = q[i] OBVIOUS
<1>3. SubSeq(k, 1, Len(p))[i] = k[i] /\ SubSeq(k, 1, Len(q))[i] = k[i] BY <1>1
<1> QED BY <1>2, <1>3 DEF IsPrefix

LEMMA ShortSequences ==
  ASSUME NEW S, NEW a \in S, NEW b \in S, NEW c \in S
  PROVE  /\ <<a>> \in Seq(S) /\ <<a, b>> \in Seq(S) /\ <<a, b, c>> \in Seq(S)
         /\ Len(<<a>>) = 1 /\ Len(<<a, b>>) = 2
OBVIOUS

LEMMA ShortSequence ==
  ASSUME NEW S, NEW s, s \in {<<s[1]>>, <<s[1], s[2]>>}, s[1] \in S, s[2] \in S
  PROVE  s \in Seq(S) /\ Len(s) \in 1..2
<1>1. PICK x \in S, y \in S : s \in {<<x>>, <<x, y>>} OBVIOUS
<1>2. CASE s = <<x>> BY <1>2
<1>3. CASE s = <<x, y>> BY <1>3
<1> QED BY <1>1, <1>2, <1>3

\* The prefixes of short keys.
LEMMA ShortPrefixes ==
  ASSUME NEW a, NEW b, NEW c
  PROVE  /\ IsPrefix(<<a>>, <<a>>) /\ IsPrefix(<<a>>, <<a, b>>)
         /\ IsPrefix(<<a, b>>, <<a, b>>) /\ IsPrefix(<<a, b>>, <<a, b, c>>)
BY DEF IsPrefix

\* A call has one route.
LEMMA OneRoute == \A a, b \in Routes : a.call = b.call => a = b
BY SMTT(120) DEF Routes, Route, DunningRoutes, WebhooksRoutes, InvoicesRoutes, SaveFlowRoutes,
   DisputesRoutes, AccountingRoutes, ConnectionsRoutes, TenantRoutes, DemoRoutes

\* The table a call reads or writes is that of its route.
LEMMA RouteRows ==
  ASSUME NEW call, NEW table, Route(call, table) \in Routes
  PROVE  RowsAt(call) = table
<1>1. Route(call, table).call = call /\ Route(call, table).rows = table BY DEF Route
<1>2. PICK r \in Routes : /\ r = (CHOOSE q \in Routes : q.call = call)
                          /\ r.call = call
  BY <1>1
<1>3. r = Route(call, table) BY <1>1, <1>2, OneRoute
<1> QED BY <1>1, <1>2, <1>3 DEF RowsAt

\* Prefixes of the pages' hooks that agree on two elements, or on the one they
\* both have, are the same.
LEMMA OneCall ==
  ASSUME NEW a \in Api, NEW b \in Api, a.prefix[1] = b.prefix[1],
         (Len(a.prefix) = 2 /\ Len(b.prefix) = 2) => a.prefix[2] = b.prefix[2]
  PROVE  a = b
BY SMTT(120) DEF Api, Under, DunningApi, InvoicesApi, SaveFlowApi, DisputesApi, WebhooksApi,
   AccountingApi, ReportingApi, ConnectionsApi, TenantsApi, AuditApi

LEMMA PrefixShape ==
  \A a \in Api : a.prefix \in {<<a.prefix[1]>>, <<a.prefix[1], a.prefix[2]>>}
BY SMTT(120) DEF Api, Under, DunningApi, InvoicesApi, SaveFlowApi, DisputesApi, WebhooksApi,
   AccountingApi, ReportingApi, ConnectionsApi, TenantsApi, AuditApi

\* The table a key shows is that of the one hook whose prefix it has.
LEMMA KeyRows ==
  ASSUME NEW u, NEW v, NEW w, NEW key \in {<<u>>, <<u, v>>, <<u, v, w>>},
         NEW a \in Api, IsPrefix(a.prefix, key)
  PROVE  RowsOf(key) = a.rows
<1>1. PICK b \in Api : /\ b = (CHOOSE q \in Api : IsPrefix(q.prefix, key))
                       /\ IsPrefix(b.prefix, key)
  OBVIOUS
<1> DEFINE S == {u, v, w, a.prefix[1], a.prefix[2], b.prefix[1], b.prefix[2]}
<1>a. u \in S /\ v \in S /\ w \in S OBVIOUS
<1>b. a.prefix[1] \in S /\ a.prefix[2] \in S /\ b.prefix[1] \in S /\ b.prefix[2] \in S OBVIOUS
<1> HIDE DEF S
<1>2. key \in Seq(S) BY <1>a, ShortSequences
<1>3. a.prefix \in Seq(S) /\ Len(a.prefix) \in 1..2 BY <1>b, PrefixShape, ShortSequence
<1>4. b.prefix \in Seq(S) /\ Len(b.prefix) \in 1..2 BY <1>b, PrefixShape, ShortSequence
<1>5. \A i \in 1..Len(a.prefix) : i \in 1..Len(b.prefix) => a.prefix[i] = b.prefix[i]
  BY <1>1, <1>2, <1>3, <1>4, PrefixesAgree
<1>6. a = b BY <1>3, <1>4, <1>5, OneCall
<1> QED BY <1>1, <1>6 DEF RowsOf
-----------------------------------------------------------------------------
\* The table of a key, given its hook and the route that is called; without a
\* route there is none.
LEMMA KeyTable ==
  ASSUME NEW u, NEW v, NEW w, NEW key \in {<<u>>, <<u, v>>, <<u, v, w>>},
         NEW prefix, NEW call, NEW table,
         Under(prefix, call) \in Api, IsPrefix(prefix, key), Route(call, table) \in Routes
  PROVE  RowsOf(key) = table
<1>1. Under(prefix, call).prefix = prefix /\ Under(prefix, call).rows = table
  BY RouteRows DEF Under
<1> QED BY <1>1, KeyRows

LEMMA KeyWithoutTable ==
  ASSUME NEW u, NEW v, NEW w, NEW key \in {<<u>>, <<u, v>>, <<u, v, w>>},
         NEW prefix, NEW call,
         Under(prefix, call) \in Api, IsPrefix(prefix, key), \A r \in Routes : r.call # call
  PROVE  RowsOf(key) = NoRoute
<1>1. Under(prefix, call).prefix = prefix /\ Under(prefix, call).rows = NoRoute
  BY DEF Under, RowsAt
<1> QED BY <1>1, KeyRows

\* What the keys show that stand on a page beside those its mutations invalidate.
LEMMA RowTables ==
  ASSUME NEW f
  PROVE  /\ RowsOf(<<"dunning", "stats">>) = "FailedPayment"
         /\ RowsOf(<<"dunning", "payments", f>>) = "FailedPayment"
         /\ RowsOf(<<"webhooks", "events", f>>) = "WebhookEvent"
         /\ RowsOf(<<"webhooks", "alert-rules">>) = "AlertRule"
         /\ RowsOf(<<"webhooks", "stats">>) = "WebhookEvent"
         /\ RowsOf(<<"invoices", "generated">>) = "GeneratedInvoice"
         /\ RowsOf(<<"saveflow", "stats">>) = "SaveAttempt"
         /\ RowsOf(<<"saveflow", "attempts">>) = "SaveAttempt"
         /\ RowsOf(<<"accounting", "connections">>) = "AccountingConnection"
         /\ RowsOf(<<"accounting", "sync">>) = NoRoute
         /\ RowsOf(<<"accounting", "reconciliation">>) = NoRoute
         /\ RowsOf(<<"connections">>) = "Connection"
         /\ RowsOf(<<"audit-log">>) = NoRoute
         /\ RowsOf(<<"tenant">>) = "Tenant"
<1>1. RowsOf(<<"dunning", "stats">>) = "FailedPayment"
  <2>1. Under(<<"dunning", "stats">>, "GET:dunning/stats") \in Api
    BY DEF Api, DunningApi
  <2>2. Route("GET:dunning/stats", "FailedPayment") \in Routes
    BY DEF Routes, DunningRoutes
  <2>3. IsPrefix(<<"dunning", "stats">>, <<"dunning", "stats">>)
    BY ShortPrefixes
  <2> QED BY <2>1, <2>2, <2>3, KeyTable
<1>2. RowsOf(<<"dunning", "payments", f>>) = "FailedPayment"
  <2>1. Under(<<"dunning", "payments">>, "GET:dunning/failed-payments") \in Api
    BY DEF Api, DunningApi
  <2>2. Route("GET:dunning/failed-payments", "FailedPayment") \in Routes
    BY DEF Routes, DunningRoutes
  <2>3. IsPrefix(<<"dunning", "payments">>, <<"dunning", "payments", f>>)
    BY ShortPrefixes
  <2> QED BY <2>1, <2>2, <2>3, KeyTable
<1>3. RowsOf(<<"webhooks", "events", f>>) = "WebhookEvent"
  <2>1. Under(<<"webhooks", "events">>, "GET:webhooks/events") \in Api
    BY DEF Api, WebhooksApi
  <2>2. Route("GET:webhooks/events", "WebhookEvent") \in Routes
    BY DEF Routes, WebhooksRoutes
  <2>3. IsPrefix(<<"webhooks", "events">>, <<"webhooks", "events", f>>)
    BY ShortPrefixes
  <2> QED BY <2>1, <2>2, <2>3, KeyTable
<1>4. RowsOf(<<"webhooks", "alert-rules">>) = "AlertRule"
  <2>1. Under(<<"webhooks", "alert-rules">>, "GET:webhooks/alert-rules") \in Api
    BY DEF Api, WebhooksApi
  <2>2. Route("GET:webhooks/alert-rules", "AlertRule") \in Routes
    BY DEF Routes, WebhooksRoutes
  <2>3. IsPrefix(<<"webhooks", "alert-rules">>, <<"webhooks", "alert-rules">>)
    BY ShortPrefixes
  <2> QED BY <2>1, <2>2, <2>3, KeyTable
<1>5. RowsOf(<<"webhooks", "stats">>) = "WebhookEvent"
  <2>1. Under(<<"webhooks", "stats">>, "GET:webhooks/stats") \in Api
    BY DEF Api, ReportingApi
  <2>2. Route("GET:webhooks/stats", "WebhookEvent") \in Routes
    BY DEF Routes, WebhooksRoutes
  <2>3. IsPrefix(<<"webhooks", "stats">>, <<"webhooks", "stats">>)
    BY ShortPrefixes
  <2> QED BY <2>1, <2>2, <2>3, KeyTable
<1>6. RowsOf(<<"invoices", "generated">>) = "GeneratedInvoice"
  <2>1. Under(<<"invoices", "generated">>, "GET:invoices/generated") \in Api
    BY DEF Api, InvoicesApi
  <2>2. Route("GET:invoices/generated", "GeneratedInvoice") \in Routes
    BY DEF Routes, InvoicesRoutes
  <2>3. IsPrefix(<<"invoices", "generated">>, <<"invoices", "generated">>)
    BY ShortPrefixes
  <2> QED BY <2>1, <2>2, <2>3, KeyTable
<1>7. RowsOf(<<"saveflow", "stats">>) = "SaveAttempt"
  <2>1. Under(<<"saveflow", "stats">>, "GET:save-flow/stats") \in Api
    BY DEF Api, SaveFlowApi
  <2>2. Route("GET:save-flow/stats", "SaveAttempt") \in Routes
    BY DEF Routes, SaveFlowRoutes
  <2>3. IsPrefix(<<"saveflow", "stats">>, <<"saveflow", "stats">>)
    BY ShortPrefixes
  <2> QED BY <2>1, <2>2, <2>3, KeyTable
<1>8. RowsOf(<<"saveflow", "attempts">>) = "SaveAttempt"
  <2>1. Under(<<"saveflow", "attempts">>, "GET:save-flow/attempts") \in Api
    BY DEF Api, SaveFlowApi
  <2>2. Route("GET:save-flow/attempts", "SaveAttempt") \in Routes
    BY DEF Routes, SaveFlowRoutes
  <2>3. IsPrefix(<<"saveflow", "attempts">>, <<"saveflow", "attempts">>)
    BY ShortPrefixes
  <2> QED BY <2>1, <2>2, <2>3, KeyTable
<1>9. RowsOf(<<"accounting", "connections">>) = "AccountingConnection"
  <2>1. Under(<<"accounting", "connections">>, "GET:accounting/connections") \in Api
    BY DEF Api, AccountingApi
  <2>2. Route("GET:accounting/connections", "AccountingConnection") \in Routes
    BY DEF Routes, AccountingRoutes
  <2>3. IsPrefix(<<"accounting", "connections">>, <<"accounting", "connections">>)
    BY ShortPrefixes
  <2> QED BY <2>1, <2>2, <2>3, KeyTable
<1>10. RowsOf(<<"accounting", "sync">>) = NoRoute
  <2>1. Under(<<"accounting", "sync">>, "GET:accounting/sync") \in Api
    BY DEF Api, AccountingApi
  <2>2. \A r \in Routes : r.call # "GET:accounting/sync"
    BY DEF Route, Routes, DunningRoutes, WebhooksRoutes, InvoicesRoutes, SaveFlowRoutes,
       DisputesRoutes, AccountingRoutes, ConnectionsRoutes, TenantRoutes, DemoRoutes
  <2>3. IsPrefix(<<"accounting", "sync">>, <<"accounting", "sync">>)
    BY ShortPrefixes
  <2> QED BY <2>1, <2>2, <2>3, KeyWithoutTable
<1>11. RowsOf(<<"accounting", "reconciliation">>) = NoRoute
  <2>1. Under(<<"accounting", "reconciliation">>, "GET:accounting/reconciliation") \in Api
    BY DEF Api, AccountingApi
  <2>2. \A r \in Routes : r.call # "GET:accounting/reconciliation"
    BY DEF Route, Routes, DunningRoutes, WebhooksRoutes, InvoicesRoutes, SaveFlowRoutes,
       DisputesRoutes, AccountingRoutes, ConnectionsRoutes, TenantRoutes, DemoRoutes
  <2>3. IsPrefix(<<"accounting", "reconciliation">>, <<"accounting", "reconciliation">>)
    BY ShortPrefixes
  <2> QED BY <2>1, <2>2, <2>3, KeyWithoutTable
<1>12. RowsOf(<<"connections">>) = "Connection"
  <2>1. Under(<<"connections">>, "GET:connections") \in Api
    BY DEF Api, ConnectionsApi
  <2>2. Route("GET:connections", "Connection") \in Routes
    BY DEF Routes, ConnectionsRoutes
  <2>3. IsPrefix(<<"connections">>, <<"connections">>)
    BY ShortPrefixes
  <2> QED BY <2>1, <2>2, <2>3, KeyTable
<1>13. RowsOf(<<"audit-log">>) = NoRoute
  <2>1. Under(<<"audit-log">>, "GET:audit-log") \in Api
    BY DEF Api, AuditApi
  <2>2. \A r \in Routes : r.call # "GET:audit-log"
    BY DEF Route, Routes, DunningRoutes, WebhooksRoutes, InvoicesRoutes, SaveFlowRoutes,
       DisputesRoutes, AccountingRoutes, ConnectionsRoutes, TenantRoutes, DemoRoutes
  <2>3. IsPrefix(<<"audit-log">>, <<"audit-log">>)
    BY ShortPrefixes
  <2> QED BY <2>1, <2>2, <2>3, KeyWithoutTable
<1>14. RowsOf(<<"tenant">>) = "Tenant"
  <2>1. Under(<<"tenant">>, "GET:tenants/me") \in Api
    BY DEF Api, TenantsApi
  <2>2. Route("GET:tenants/me", "Tenant") \in Routes
    BY DEF Routes, TenantRoutes
  <2>3. IsPrefix(<<"tenant">>, <<"tenant">>)
    BY ShortPrefixes
  <2> QED BY <2>1, <2>2, <2>3, KeyTable
<1> QED BY <1>1, <1>2, <1>3, <1>4, <1>5, <1>6, <1>7, <1>8, <1>9, <1>10, <1>11, <1>12, <1>13, <1>14

\* What the mutations of the pages write.
LEMMA Written ==
  /\ RowsAt("POST:dunning/recovery-sequences") = "RecoverySequence"
  /\ RowsAt("POST:webhooks/events/:id/replay") = "WebhookEvent"
  /\ RowsAt("POST:webhooks/alert-rules") = "AlertRule"
  /\ RowsAt("DELETE:webhooks/alert-rules/:id") = "AlertRule"
  /\ RowsAt("POST:invoices/templates") = "InvoiceTemplate"
  /\ RowsAt("PUT:invoices/templates/:id") = "InvoiceTemplate"
  /\ RowsAt("POST:save-flow/offers") = "SaveOffer"
  /\ RowsAt("POST:accounting/sync/trigger") = "SyncedTransaction"
  /\ RowsAt("DELETE:accounting/connections/:provider") = "AccountingConnection"
  /\ RowsAt("POST:disputes/:id/evidence") = "Dispute"
  /\ RowsAt("DELETE:connections/:provider") = "Connection"
  /\ RowsAt("PATCH:tenants/me/plan") = "Tenant"
  /\ RowsAt("POST:demo/simulate/accounting-sync") = "SyncedTransaction"
<1>1. Route("POST:dunning/recovery-sequences", "RecoverySequence") \in Routes
  BY DEF Routes, DunningRoutes, WebhooksRoutes, InvoicesRoutes, SaveFlowRoutes, DisputesRoutes,
     AccountingRoutes, ConnectionsRoutes, TenantRoutes, DemoRoutes
<1>2. Route("POST:webhooks/events/:id/replay", "WebhookEvent") \in Routes
  BY DEF Routes, DunningRoutes, WebhooksRoutes, InvoicesRoutes, SaveFlowRoutes, DisputesRoutes,
     AccountingRoutes, ConnectionsRoutes, TenantRoutes, DemoRoutes
<1>3. Route("POST:webhooks/alert-rules", "AlertRule") \in Routes
  BY DEF Routes, DunningRoutes, WebhooksRoutes, InvoicesRoutes, SaveFlowRoutes, DisputesRoutes,
     AccountingRoutes, ConnectionsRoutes, TenantRoutes, DemoRoutes
<1>4. Route("DELETE:webhooks/alert-rules/:id", "AlertRule") \in Routes
  BY DEF Routes, DunningRoutes, WebhooksRoutes, InvoicesRoutes, SaveFlowRoutes, DisputesRoutes,
     AccountingRoutes, ConnectionsRoutes, TenantRoutes, DemoRoutes
<1>5. Route("POST:invoices/templates", "InvoiceTemplate") \in Routes
  BY DEF Routes, DunningRoutes, WebhooksRoutes, InvoicesRoutes, SaveFlowRoutes, DisputesRoutes,
     AccountingRoutes, ConnectionsRoutes, TenantRoutes, DemoRoutes
<1>6. Route("PUT:invoices/templates/:id", "InvoiceTemplate") \in Routes
  BY DEF Routes, DunningRoutes, WebhooksRoutes, InvoicesRoutes, SaveFlowRoutes, DisputesRoutes,
     AccountingRoutes, ConnectionsRoutes, TenantRoutes, DemoRoutes
<1>7. Route("POST:save-flow/offers", "SaveOffer") \in Routes
  BY DEF Routes, DunningRoutes, WebhooksRoutes, InvoicesRoutes, SaveFlowRoutes, DisputesRoutes,
     AccountingRoutes, ConnectionsRoutes, TenantRoutes, DemoRoutes
<1>8. Route("POST:accounting/sync/trigger", "SyncedTransaction") \in Routes
  BY DEF Routes, DunningRoutes, WebhooksRoutes, InvoicesRoutes, SaveFlowRoutes, DisputesRoutes,
     AccountingRoutes, ConnectionsRoutes, TenantRoutes, DemoRoutes
<1>9. Route("DELETE:accounting/connections/:provider", "AccountingConnection") \in Routes
  BY DEF Routes, DunningRoutes, WebhooksRoutes, InvoicesRoutes, SaveFlowRoutes, DisputesRoutes,
     AccountingRoutes, ConnectionsRoutes, TenantRoutes, DemoRoutes
<1>10. Route("POST:disputes/:id/evidence", "Dispute") \in Routes
  BY DEF Routes, DunningRoutes, WebhooksRoutes, InvoicesRoutes, SaveFlowRoutes, DisputesRoutes,
     AccountingRoutes, ConnectionsRoutes, TenantRoutes, DemoRoutes
<1>11. Route("DELETE:connections/:provider", "Connection") \in Routes
  BY DEF Routes, DunningRoutes, WebhooksRoutes, InvoicesRoutes, SaveFlowRoutes, DisputesRoutes,
     AccountingRoutes, ConnectionsRoutes, TenantRoutes, DemoRoutes
<1>12. Route("PATCH:tenants/me/plan", "Tenant") \in Routes
  BY DEF Routes, DunningRoutes, WebhooksRoutes, InvoicesRoutes, SaveFlowRoutes, DisputesRoutes,
     AccountingRoutes, ConnectionsRoutes, TenantRoutes, DemoRoutes
<1>13. Route("POST:demo/simulate/accounting-sync", "SyncedTransaction") \in Routes
  BY DEF Routes, DunningRoutes, WebhooksRoutes, InvoicesRoutes, SaveFlowRoutes, DisputesRoutes,
     AccountingRoutes, ConnectionsRoutes, TenantRoutes, DemoRoutes
<1> QED
  BY RouteRows, <1>1, <1>2, <1>3, <1>4, <1>5, <1>6, <1>7, <1>8, <1>9, <1>10, <1>11, <1>12, <1>13
\* The queries a page with mutations shows.
LEMMA Showing ==
  ASSUME NEW f
  PROVE  LET on(page) == QueriesOf([page |-> page, filter |-> f]) IN
         /\ on("dunning") = {<<"dunning", "stats">>, <<"dunning", "payments", f>>,
                             <<"dunning", "sequences">>, <<"tenant">>}
         /\ on("webhooks") = {<<"webhooks", "events", f>>, <<"webhooks", "alert-rules">>,
                              <<"webhooks", "stats">>, <<"tenant">>}
         /\ on("invoices") = {<<"invoices", "templates">>, <<"invoices", "generated">>,
                              <<"tenant">>}
         /\ on("saveflow") = {<<"saveflow", "stats">>, <<"saveflow", "offers">>,
                              <<"saveflow", "attempts">>, <<"tenant">>}
         /\ on("accounting") = {<<"accounting", "connections">>, <<"accounting", "sync">>,
                                <<"accounting", "reconciliation">>, <<"tenant">>}
         /\ on("disputes") = {<<"dispute-stats">>, <<"disputes", f>>, <<"tenant">>}
         /\ on("settings") = {<<"connections">>, <<"audit-log">>, <<"tenant">>}
         /\ on("demoWebhooks") = {<<"webhooks", "events", "limit-20">>,
                                  <<"webhooks", "alert-rules">>}
         /\ on("demoAccounting") = {<<"accounting", "connections">>,
                                    <<"accounting", "sync", "noFilter">>}
         /\ on("demoDisputes") = {<<"disputes", "noFilter">>, <<"dispute-stats">>}
<1>1. \A v : v.page \in {"dunning", "webhooks", "invoices", "saveflow", "accounting",
                         "disputes", "settings"} =>
        QueriesOf(v) = DashboardQueries(v.filter)[v.page] \cup LayoutQueries
  BY DEF QueriesOf, Dashboard, DashboardQueries
<1>2. \A v : v.page \in {"demoWebhooks", "demoAccounting", "demoDisputes"} =>
        QueriesOf(v) = DemoQueries[v.page]
  BY DEF QueriesOf, Dashboard, DashboardQueries, Outside
<1>3. \A page : [page |-> page, filter |-> f].page = page
                /\ [page |-> page, filter |-> f].filter = f
  OBVIOUS
<1>4. /\ DashboardQueries(f)["dunning"] = DunningQueries(f)
      /\ DashboardQueries(f)["webhooks"] = WebhooksQueries(f)
      /\ DashboardQueries(f)["invoices"] = InvoicesQueries
      /\ DashboardQueries(f)["saveflow"] = SaveFlowQueries
      /\ DashboardQueries(f)["accounting"] = AccountingQueries
      /\ DashboardQueries(f)["disputes"] = DisputesQueries(f)
      /\ DashboardQueries(f)["settings"] = SettingsQueries
  BY DEF DashboardQueries
<1>5. /\ DemoQueries["demoWebhooks"] = DemoWebhooksQueries
      /\ DemoQueries["demoAccounting"] = DemoAccountingQueries
      /\ DemoQueries["demoDisputes"] = DemoDisputesQueries
  BY DEF DemoQueries
<1> QED
  BY <1>1, <1>2, <1>3, <1>4, <1>5
  DEF LayoutQueries, DunningQueries, WebhooksQueries, InvoicesQueries, SaveFlowQueries,
      AccountingQueries, DisputesQueries, SettingsQueries, DemoWebhooksQueries,
      DemoAccountingQueries, DemoDisputesQueries

\* A mutation invalidates every key that its page shows and whose table it
\* changes, save the two overlooked.
LEMMA InvalidatesWhatItWrites ==
  ASSUME NEW m \in Mutations, NEW f,
         NEW key \in QueriesOf([page |-> m.page, filter |-> f]),
         RowsOf(key) = m.writes, <<m.name, key>> \notin Overlooked
  PROVE  \E p \in m.invalidates : IsPrefix(p, key)
<1>1. CASE m \in DunningMutations
  <2>1. m.page = "dunning" /\ m.writes = "RecoverySequence"
        /\ m.invalidates = {<<"dunning", "sequences">>}
    BY <1>1, Written DEF DunningMutations, On
  <2>2. key \in QueriesOf([page |-> "dunning", filter |-> f]) BY <2>1
  <2>3. key \in {<<"dunning", "stats">>, <<"dunning", "payments", f>>,
        <<"dunning", "sequences">>, <<"tenant">>}
    BY <2>2, Showing
  <2>4. key \notin {<<"dunning", "stats">>, <<"dunning", "payments", f>>, <<"tenant">>}
    BY <2>1, RowTables
  <2>5. key \in {<<"dunning", "sequences">>} BY <2>3, <2>4
  <2>6. IsPrefix(<<"dunning", "sequences">>, <<"dunning", "sequences">>) BY ShortPrefixes
  <2> QED BY <2>1, <2>5, <2>6
<1>2. CASE m = ReplayInvalidating(<<"webhooks", "events">>)
  <2>1. m.page = "webhooks" /\ m.name = "replayMut" /\ m.writes = "WebhookEvent"
        /\ m.invalidates = {<<"webhooks", "events">>}
    BY <1>2, Written DEF ReplayInvalidating, On
  <2>2. key \in QueriesOf([page |-> "webhooks", filter |-> f]) BY <2>1
  <2>3. key \in {<<"webhooks", "events", f>>, <<"webhooks", "alert-rules">>,
        <<"webhooks", "stats">>, <<"tenant">>}
    BY <2>2, Showing
  <2>4. key \notin {<<"webhooks", "alert-rules">>, <<"tenant">>, <<"webhooks", "stats">>}
    BY <2>1, RowTables DEF Overlooked
  <2>5. key \in {<<"webhooks", "events", f>>} BY <2>3, <2>4
  <2>6. IsPrefix(<<"webhooks", "events">>, <<"webhooks", "events", f>>) BY ShortPrefixes
  <2> QED BY <2>1, <2>5, <2>6
<1>3. CASE m \in RuleMutations
  <2>1. m.page = "webhooks" /\ m.writes = "AlertRule"
        /\ m.invalidates = {<<"webhooks", "alert-rules">>}
    BY <1>3, Written DEF RuleMutations, On
  <2>2. key \in QueriesOf([page |-> "webhooks", filter |-> f]) BY <2>1
  <2>3. key \in {<<"webhooks", "events", f>>, <<"webhooks", "alert-rules">>,
        <<"webhooks", "stats">>, <<"tenant">>}
    BY <2>2, Showing
  <2>4. key \notin {<<"webhooks", "events", f>>, <<"webhooks", "stats">>, <<"tenant">>}
    BY <2>1, RowTables
  <2>5. key \in {<<"webhooks", "alert-rules">>} BY <2>3, <2>4
  <2>6. IsPrefix(<<"webhooks", "alert-rules">>, <<"webhooks", "alert-rules">>) BY ShortPrefixes
  <2> QED BY <2>1, <2>5, <2>6
<1>4. CASE m \in InvoicesMutations
  <2>1. m.page = "invoices" /\ m.writes = "InvoiceTemplate"
        /\ m.invalidates = {<<"invoices", "templates">>}
    BY <1>4, Written DEF InvoicesMutations, On
  <2>2. key \in QueriesOf([page |-> "invoices", filter |-> f]) BY <2>1
  <2>3. key \in {<<"invoices", "templates">>, <<"invoices", "generated">>, <<"tenant">>}
    BY <2>2, Showing
  <2>4. key \notin {<<"invoices", "generated">>, <<"tenant">>}
    BY <2>1, RowTables
  <2>5. key \in {<<"invoices", "templates">>} BY <2>3, <2>4
  <2>6. IsPrefix(<<"invoices", "templates">>, <<"invoices", "templates">>) BY ShortPrefixes
  <2> QED BY <2>1, <2>5, <2>6
<1>5. CASE m \in SaveFlowMutations
  <2>1. m.page = "saveflow" /\ m.writes = "SaveOffer"
        /\ m.invalidates = {<<"saveflow", "offers">>}
    BY <1>5, Written DEF SaveFlowMutations, On
  <2>2. key \in QueriesOf([page |-> "saveflow", filter |-> f]) BY <2>1
  <2>3. key \in {<<"saveflow", "stats">>, <<"saveflow", "offers">>,
        <<"saveflow", "attempts">>, <<"tenant">>}
    BY <2>2, Showing
  <2>4. key \notin {<<"saveflow", "stats">>, <<"saveflow", "attempts">>, <<"tenant">>}
    BY <2>1, RowTables
  <2>5. key \in {<<"saveflow", "offers">>} BY <2>3, <2>4
  <2>6. IsPrefix(<<"saveflow", "offers">>, <<"saveflow", "offers">>) BY ShortPrefixes
  <2> QED BY <2>1, <2>5, <2>6
<1>6. CASE m \in AccountingMutations /\ m.name = "triggerSync"
  <2>1. m.page = "accounting" /\ m.writes = "SyncedTransaction"
        /\ m.invalidates = {<<"accounting", "sync">>}
    BY <1>6, Written DEF AccountingMutations, On
  <2>2. key \in QueriesOf([page |-> "accounting", filter |-> f]) BY <2>1
  <2>3. key \in {<<"accounting", "connections">>, <<"accounting", "sync">>,
        <<"accounting", "reconciliation">>, <<"tenant">>}
    BY <2>2, Showing
  <2>4. key \notin {<<"accounting", "connections">>, <<"accounting", "reconciliation">>,
                     <<"tenant">>}
    BY <2>1, RowTables DEF NoRoute
  <2>5. key \in {<<"accounting", "sync">>} BY <2>3, <2>4
  <2>6. IsPrefix(<<"accounting", "sync">>, <<"accounting", "sync">>) BY ShortPrefixes
  <2> QED BY <2>1, <2>5, <2>6
<1>7. CASE m \in AccountingMutations /\ m.name = "disconnect"
  <2>1. m.page = "accounting" /\ m.writes = "AccountingConnection"
        /\ m.invalidates = {<<"accounting", "connections">>}
    BY <1>7, Written DEF AccountingMutations, On
  <2>2. key \in QueriesOf([page |-> "accounting", filter |-> f]) BY <2>1
  <2>3. key \in {<<"accounting", "connections">>, <<"accounting", "sync">>,
        <<"accounting", "reconciliation">>, <<"tenant">>}
    BY <2>2, Showing
  <2>4. key \notin {<<"accounting", "sync">>, <<"accounting", "reconciliation">>, <<"tenant">>}
    BY <2>1, RowTables DEF NoRoute
  <2>5. key \in {<<"accounting", "connections">>} BY <2>3, <2>4
  <2>6. IsPrefix(<<"accounting", "connections">>, <<"accounting", "connections">>) BY ShortPrefixes
  <2> QED BY <2>1, <2>5, <2>6
<1>8. CASE m \in DisputesMutations
  <2>1. m.page = "disputes" /\ m.name = "submitEvidence" /\ m.writes = "Dispute"
        /\ m.invalidates = {<<"disputes">>}
    BY <1>8, Written DEF DisputesMutations, On
  <2>2. key \in QueriesOf([page |-> "disputes", filter |-> f]) BY <2>1
  <2>3. key \in {<<"dispute-stats">>, <<"disputes", f>>, <<"tenant">>} BY <2>2, Showing
  <2>4. key \notin {<<"tenant">>, <<"dispute-stats">>}
    BY <2>1, RowTables DEF Overlooked
  <2>5. key \in {<<"disputes", f>>} BY <2>3, <2>4
  <2>6. IsPrefix(<<"disputes">>, <<"disputes", f>>) BY ShortPrefixes
  <2> QED BY <2>1, <2>5, <2>6
<1>9. CASE m \in SettingsMutations /\ m.name = "disconnect"
  <2>1. m.page = "settings" /\ m.writes = "Connection" /\ m.invalidates = {<<"connections">>}
    BY <1>9, Written DEF SettingsMutations, On
  <2>2. key \in QueriesOf([page |-> "settings", filter |-> f]) BY <2>1
  <2>3. key \in {<<"connections">>, <<"audit-log">>, <<"tenant">>} BY <2>2, Showing
  <2>4. key \notin {<<"audit-log">>, <<"tenant">>}
    BY <2>1, RowTables DEF NoRoute
  <2>5. key \in {<<"connections">>} BY <2>3, <2>4
  <2>6. IsPrefix(<<"connections">>, <<"connections">>) BY ShortPrefixes
  <2> QED BY <2>1, <2>5, <2>6
<1>10. CASE m \in SettingsMutations /\ m.name = "upgradePlan"
  <2>1. m.page = "settings" /\ m.writes = "Tenant" /\ m.invalidates = {<<"tenant">>}
    BY <1>10, Written DEF SettingsMutations, On
  <2>2. key \in QueriesOf([page |-> "settings", filter |-> f]) BY <2>1
  <2>3. key \in {<<"connections">>, <<"audit-log">>, <<"tenant">>} BY <2>2, Showing
  <2>4. key \notin {<<"connections">>, <<"audit-log">>}
    BY <2>1, RowTables DEF NoRoute
  <2>5. key \in {<<"tenant">>} BY <2>3, <2>4
  <2>6. IsPrefix(<<"tenant">>, <<"tenant">>) BY ShortPrefixes
  <2> QED BY <2>1, <2>5, <2>6
<1>11. CASE m \in DemoWebhooksMutations
  <2>1. m.page = "demoWebhooks" /\ m.writes = "WebhookEvent"
        /\ m.invalidates = {<<"webhooks", "events">>}
    BY <1>11, Written DEF DemoWebhooksMutations, On
  <2>2. key \in QueriesOf([page |-> "demoWebhooks", filter |-> f]) BY <2>1
  <2>3. key \in {<<"webhooks", "events", "limit-20">>, <<"webhooks", "alert-rules">>}
    BY <2>2, Showing
  <2>4. key \notin {<<"webhooks", "alert-rules">>}
    BY <2>1, RowTables
  <2>5. key \in {<<"webhooks", "events", "limit-20">>} BY <2>3, <2>4
  <2>6. IsPrefix(<<"webhooks", "events">>, <<"webhooks", "events", "limit-20">>) BY ShortPrefixes
  <2> QED BY <2>1, <2>5, <2>6
<1>12. CASE m \in DemoAccountingMutations
  <2>1. m.page = "demoAccounting" /\ m.writes = "SyncedTransaction"
        /\ m.invalidates = {<<"accounting", "sync">>}
    BY <1>12, Written DEF DemoAccountingMutations, On
  <2>2. key \in QueriesOf([page |-> "demoAccounting", filter |-> f]) BY <2>1
  <2>3. key \in {<<"accounting", "connections">>, <<"accounting", "sync", "noFilter">>}
    BY <2>2, Showing
  <2>4. key \notin {<<"accounting", "connections">>}
    BY <2>1, RowTables
  <2>5. key \in {<<"accounting", "sync", "noFilter">>} BY <2>3, <2>4
  <2>6. IsPrefix(<<"accounting", "sync">>, <<"accounting", "sync", "noFilter">>) BY ShortPrefixes
  <2> QED BY <2>1, <2>5, <2>6
<1>13. CASE m \in DemoDisputesMutations
  <2>1. m.page = "demoDisputes" /\ m.invalidates = {<<"disputes">>, <<"dispute-stats">>}
    BY <1>13 DEF DemoDisputesMutations, On
  <2>2. key \in QueriesOf([page |-> "demoDisputes", filter |-> f]) BY <2>1
  <2>3. key \in {<<"disputes", "noFilter">>, <<"dispute-stats">>} BY <2>2, Showing
  <2>6. IsPrefix(<<"disputes">>, <<"disputes", "noFilter">>) BY ShortPrefixes
  <2>7. IsPrefix(<<"dispute-stats">>, <<"dispute-stats">>) BY ShortPrefixes
  <2> QED BY <2>1, <2>3, <2>6, <2>7
<1> QED
  BY <1>1, <1>2, <1>3, <1>4, <1>5, <1>6, <1>7, <1>8, <1>9, <1>10, <1>11, <1>12, <1>13
  DEF Mutations, WebhooksMutations, AccountingMutations, SettingsMutations, On
-----------------------------------------------------------------------------
(* The cache. *)

Entry == [has : BOOLEAN, seen : 0..MaxWrites, fresh : BOOLEAN]
Fetch == [on : BOOLEAN, asked : BOOLEAN, seen : 0..MaxWrites]
Request == [pc : {"idle", "sent", "written"}, wrote : 0..MaxWrites]

\* The table that is followed is one the mutation writes, or there is none.
Meet == query.rows \in {mutation.writes, NoRoute}

LEMMA MutationPages == \A m \in Mutations : m.page \in PageNames
<1>1. {"dunning", "webhooks", "invoices", "saveflow", "accounting", "disputes", "settings",
       "demoWebhooks", "demoAccounting", "demoDisputes"} \subseteq PageNames
  BY DEF PageNames, Dashboard, DashboardQueries, DemoQueries
<1> QED
  BY <1>1, SMTT(30) DEF Mutations, On, DunningMutations, WebhooksMutations, ReplayInvalidating,
     RuleMutations, InvoicesMutations, SaveFlowMutations, AccountingMutations, DisputesMutations,
     SettingsMutations, DemoWebhooksMutations, DemoAccountingMutations, DemoDisputesMutations

LEMMA Constants ==
  /\ NoFetch \in Fetch /\ Asked \in Fetch /\ NoEntry \in Entry
  /\ ~ NoFetch.on /\ Asked.on /\ Asked.asked /\ ~ NoEntry.fresh
  /\ [pc |-> "idle", wrote |-> 0] \in Request
BY PagesAssumption DEF NoFetch, Asked, NoEntry, Fetch, Entry, Request

LEMMA PagesInitInv == PagesInit => PagesInv
<1> SUFFICES ASSUME PagesInit PROVE PagesInv OBVIOUS
<1>1. query.key \in QueryKeys /\ query.rows = RowsOf(query.key) BY DEF PagesInit
<1>2. view \in Views BY DEF PagesInit, Views, PageNames
<1>3. ~ entry.fresh /\ ~ fetch.on BY Constants DEF PagesInit
<1>4. /\ changes = 0 /\ own = 0 /\ faults = 0 /\ missed = FALSE /\ mutation \in Mutations
  BY DEF PagesInit
<1>5. entry \in Entry /\ fetch \in Fetch /\ request \in Request BY Constants DEF PagesInit
<1>6. changes \in 0..MaxWrites /\ own \in 0..MaxWrites /\ faults \in 0..MaxFaults
  BY <1>4, PagesAssumption
<1>7. mutation.page \in PageNames BY <1>4, MutationPages
<1>8. PagesTypeOK
  BY <1>1, <1>2, <1>4, <1>5, <1>6, <1>7
  DEF PagesTypeOK, Fetch, Entry, Request
<1> QED
  BY <1>1, <1>3, <1>8, PagesAssumption DEF PagesInit, PagesInv, Unanswered, ShowsOwn

\* What does not change keeps everything that is said of the query and the mutation.
LEMMA PagesNextInv == PagesInv /\ [PagesNext]_pagesVars => PagesInv'
<1> SUFFICES ASSUME PagesInv, [PagesNext]_pagesVars PROVE PagesInv' OBVIOUS
<1> USE DEF Kept, Followed
<1>t. /\ query.key \in QueryKeys /\ mutation.page \in PageNames /\ view \in Views
      /\ changes \in 0..MaxWrites /\ own \in 0..MaxWrites /\ faults \in 0..MaxFaults
      /\ entry \in Entry /\ fetch \in Fetch /\ request \in Request /\ missed \in BOOLEAN
  BY DEF PagesInv, PagesTypeOK, Entry, Fetch, Request
<1>i. /\ mutation \in Mutations /\ query.rows = RowsOf(query.key) /\ Meet
      /\ own <= changes /\ request.wrote <= changes
      /\ query.rows = NoRoute => Unanswered
      /\ Covered => ShowsOwn
  BY DEF PagesInv, Meet
<1>m. MaxWrites \in Nat /\ MaxFaults \in Nat BY PagesAssumption
\* What has to be shown of a step that changes neither the query nor the mutation.
<1>s. ASSUME Kept, (view \in Views)',
             (changes \in 0..MaxWrites)', (own \in 0..MaxWrites)', (faults \in 0..MaxFaults)',
             (entry \in Entry)', (fetch \in Fetch)', (request \in Request)',
             (missed \in BOOLEAN)', (own <= changes)', (request.wrote <= changes)',
             query.rows = NoRoute => Unanswered', Covered => ShowsOwn'
      PROVE  PagesInv'
  BY <1>s, <1>t, <1>i DEF PagesInv, PagesTypeOK, Meet, Covered, Entry, Fetch, Request
<1>1. CASE \E v \in Views : LookAt(v)
  <2> PICK v \in Views : LookAt(v) BY <1>1
  <2>1. fetch' \in {Asked, fetch} BY DEF LookAt
  <2> QED
    BY <2>1, <1>s, <1>t, <1>i, Constants DEF LookAt, Unanswered, ShowsOwn
<1>2. CASE GoStale
  <2>1. entry' \in Entry /\ ~ entry'.fresh BY <1>2, <1>t DEF GoStale, Entry
  <2> QED BY <2>1, <1>2, <1>s, <1>t, <1>i DEF GoStale, Unanswered, ShowsOwn
<1>3. CASE Drop
  BY <1>3, <1>s, <1>t, <1>i, Constants DEF Drop, Unanswered, ShowsOwn
<1>4. CASE Refetch
  BY <1>4, <1>s, <1>t, <1>i, Constants DEF Refetch, Unanswered, ShowsOwn
<1>5. CASE ServerReads
  <2>1. fetch' \in Fetch /\ fetch'.seen = changes BY <1>5, <1>t DEF ServerReads, Fetch
  <2> QED BY <2>1, <1>5, <1>s, <1>t, <1>i DEF ServerReads, Unanswered, ShowsOwn
<1>6. CASE FetchAnswered
  <2>1. entry' \in Entry /\ entry'.seen = fetch.seen /\ entry'.fresh
    BY <1>6, <1>t DEF FetchAnswered, Entry, Fetch
  <2> QED BY <2>1, <1>6, <1>s, <1>t, <1>i, Constants DEF FetchAnswered, Unanswered, ShowsOwn
<1>7. CASE FetchFails
  <2>1. faults' \in 0..MaxFaults BY <1>7, <1>t, <1>m DEF FetchFails
  <2>2. missed' \in BOOLEAN /\ missed' = (missed /\ entry.fresh) BY <1>7, <1>t DEF FetchFails
  <2> QED
    BY <2>1, <2>2, <1>7, <1>s, <1>t, <1>i, Constants DEF FetchFails, Unanswered, ShowsOwn
<1>8. CASE OtherWrites
  BY <1>8, <1>s, <1>t, <1>i, <1>m DEF OtherWrites, Unanswered, ShowsOwn, Request
<1>9. CASE Mutate
  <2>1. request' \in Request /\ request'.wrote = 0 BY <1>9, <1>m DEF Mutate, Request
  <2> QED BY <2>1, <1>9, <1>s, <1>t, <1>i DEF Mutate, Unanswered, ShowsOwn
<1>10. CASE ServerWrites
  <2>1. request' \in Request /\ request'.wrote = changes'
    BY <1>10, <1>t, <1>m DEF ServerWrites, Request
  <2>2. changes' \in 0..MaxWrites /\ own <= changes' BY <1>10, <1>t, <1>i, <1>m DEF ServerWrites
  <2> QED BY <2>1, <2>2, <1>10, <1>s, <1>t, <1>i DEF ServerWrites, Unanswered, ShowsOwn
<1>11. CASE MutateAnswered
  <2>1. request' \in Request /\ request'.wrote = 0 BY <1>11, <1>m DEF MutateAnswered, Request
  <2>2. own' \in 0..MaxWrites /\ own' <= changes BY <1>11, <1>t, <1>i DEF MutateAnswered, Request
  <2>3. CASE Covered
    <3>1. entry' \in Entry /\ ~ entry'.fresh BY <1>11, <2>3, <1>t DEF MutateAnswered, Entry
    <3>2. fetch' \in {Asked, fetch} BY <1>11, <2>3 DEF MutateAnswered
    <3>3. missed' \in BOOLEAN BY <1>11, <2>3, <1>t DEF MutateAnswered, Fetch, Entry
    <3>4. fetch'.on => (fetch'.asked \/ missed') 
      BY <1>11, <2>3, <1>t, Constants DEF MutateAnswered, Fetch, Entry
    <3>5. view' = view /\ changes' = changes /\ faults' = faults /\ Kept
      BY <1>11 DEF MutateAnswered
    <3> QED
      BY <2>1, <2>2, <3>1, <3>2, <3>3, <3>4, <3>5, <1>s, <1>t, <1>i, Constants
      DEF Unanswered, ShowsOwn
  <2>4. CASE ~ Covered
    BY <1>11, <2>1, <2>2, <2>4, <1>s, <1>t, <1>i DEF MutateAnswered, Unanswered
  <2> QED BY <2>3, <2>4
<1>12. CASE MutateFails
  <2>1. request' \in Request /\ request'.wrote = 0 BY <1>12, <1>m DEF MutateFails, Request
  <2>2. faults' \in 0..MaxFaults BY <1>12, <1>t, <1>m DEF MutateFails
  <2> QED BY <2>1, <2>2, <1>12, <1>s, <1>t, <1>i DEF MutateFails, Unanswered, ShowsOwn
<1>13. CASE LoadAnew
  <2>1. request' \in Request /\ request'.wrote = 0 BY <1>13, <1>m DEF LoadAnew, Request
  <2>2. fetch' \in {Asked, NoFetch} BY <1>13 DEF LoadAnew
  <2>3. entry' = NoEntry /\ own' = 0 /\ missed' = FALSE BY <1>13 DEF LoadAnew
  <2>4. view' = view /\ changes' = changes /\ faults' = faults /\ Kept BY <1>13 DEF LoadAnew
  <2>5. own' \in 0..MaxWrites /\ own' <= changes BY <2>3, <1>t, <1>m
  <2>6. ~ entry'.fresh /\ (fetch'.on => fetch'.asked) BY <2>2, <2>3, Constants
  <2> QED
    BY <2>1, <2>2, <2>3, <2>4, <2>5, <2>6, <1>s, <1>t, Constants DEF Unanswered, ShowsOwn
<1>14. CASE UNCHANGED pagesVars
  BY <1>14, <1>s, <1>t, <1>i DEF pagesVars, Unanswered, ShowsOwn
<1> QED
  BY <1>1, <1>2, <1>3, <1>4, <1>5, <1>6, <1>7, <1>8, <1>9, <1>10, <1>11, <1>12, <1>13, <1>14
  DEF PagesNext, Network
-----------------------------------------------------------------------------
(* Theorems. *)

\* What holds of a query, a mutation and the cache between them, at all times.
THEOREM PagesInvariance == PagesSpec => []PagesInv
BY PagesInitInv, PagesNextInv, PTL DEF PagesSpec

\* Every variable holds a value of its kind.
THEOREM PagesTypeCorrect == PagesSpec => []PagesTypeOK
<1>1. PagesInv => PagesTypeOK BY DEF PagesInv
<1> QED BY <1>1, PagesInvariance, PTL

\* On the page of a mutation, what is fresh shows the change that was answered last,
\* unless it is overlooked or a fetch was left to run: the keys that onSuccess
\* invalidates are all that its page shows of the table it has changed, and every
\* way on from there leads over a read that comes later.
THEOREM OwnChangeShows == PagesSpec => []OwnChangeIsShown
<1>1. PagesInv => OwnChangeIsShown
  <2> SUFFICES ASSUME PagesInv, entry.fresh, ~ missed, NEW f \in Filters,
                      query.key \in QueriesOf([page |-> mutation.page, filter |-> f]),
                      <<mutation.name, query.key>> \notin Overlooked
               PROVE  entry.seen >= own
    BY DEF OwnChangeIsShown
  <2>1. query.rows = mutation.writes BY DEF PagesInv, Unanswered
  <2>2. Covered BY <2>1, InvalidatesWhatItWrites DEF PagesInv, Covered
  <2> QED BY <2>2 DEF PagesInv, ShowsOwn
<1> QED BY <1>1, PagesInvariance, PTL
=============================================================================

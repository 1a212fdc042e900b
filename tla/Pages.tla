------------------------------- MODULE Pages --------------------------------
(***************************************************************************)
(* The pages' data: which queries a page shows, which rows each reads,     *)
(* which keys a mutation invalidates, and the QueryClient they share.      *)
(* Queries do not affect each other, nor do mutations, so a behaviour      *)
(* follows one query and one mutation, any pair that meet in a table of    *)
(* the database.  A table is the number of its changes so far.             *)
(***************************************************************************)
EXTENDS Naturals, SequencesExt

CONSTANTS
  Filters,    \* choices of a page's filter
  MaxWrites,  \* bound on the changes of the table
  MaxFaults   \* bound on failures of the network

ASSUME PagesAssumption == Filters # {} /\ MaxWrites \in Nat /\ MaxFaults \in Nat

VARIABLES
  query,     \* the key that is followed, and the table its route reads
  mutation,  \* the mutation that is followed
  view,      \* the page shown, and its filter
  changes,   \* changes so far of the table that both meet in
  entry,     \* the key in the cache: whether it has data, how many changes it shows, fresh
  fetch,     \* the fetch of the key in flight, and what it has read
  request,   \* the call of the mutation in flight, and what it has written
  own,       \* the change of the mutation that was last answered
  missed,    \* whether a fetch in flight at that answer was left to run
  faults

pagesVars == <<query, mutation, view, changes, entry, fetch, request, own, missed, faults>>

-----------------------------------------------------------------------------
\* The routes of the server's controllers, and the table each reads or writes.

NoRoute == "noRoute"
Route(call, rows) == [call |-> call, rows |-> rows]

DunningRoutes == {
  Route("GET:dunning/failed-payments", "FailedPayment"),
  Route("GET:dunning/failed-payments/:id", "FailedPayment"),
  Route("GET:dunning/recovery-sequences", "RecoverySequence"),
  Route("POST:dunning/recovery-sequences", "RecoverySequence"),
  Route("PUT:dunning/recovery-sequences/:id", "RecoverySequence"),
  Route("GET:dunning/stats", "FailedPayment"), Route("GET:dunning/report", "FailedPayment")}
WebhooksRoutes == {
  Route("GET:webhooks/events", "WebhookEvent"),
  Route("POST:webhooks/events/:id/replay", "WebhookEvent"),
  Route("GET:webhooks/alert-rules", "AlertRule"), Route("POST:webhooks/alert-rules", "AlertRule"),
  Route("DELETE:webhooks/alert-rules/:id", "AlertRule"),
  Route("GET:webhooks/stats", "WebhookEvent")}
InvoicesRoutes == {
  Route("GET:invoices/templates", "InvoiceTemplate"),
  Route("POST:invoices/templates", "InvoiceTemplate"),
  Route("PUT:invoices/templates/:id", "InvoiceTemplate"),
  Route("DELETE:invoices/templates/:id", "InvoiceTemplate"),
  Route("GET:invoices/generated", "GeneratedInvoice"),
  Route("GET:invoices/generated/:id/download", "GeneratedInvoice"),
  Route("POST:invoices/generate/:stripeInvoiceId", "GeneratedInvoice")}
SaveFlowRoutes == {
  Route("GET:save-flow/offers", "SaveOffer"), Route("POST:save-flow/offers", "SaveOffer"),
  Route("PUT:save-flow/offers/:id", "SaveOffer"),
  Route("DELETE:save-flow/offers/:id", "SaveOffer"),
  Route("GET:save-flow/stats", "SaveAttempt"), Route("GET:save-flow/attempts", "SaveAttempt"),
  Route("GET:save-flow/report", "SaveAttempt")}
DisputesRoutes == {
  Route("GET:disputes", "Dispute"), Route("GET:disputes/stats", "Dispute"),
  Route("GET:disputes/:id", "Dispute"), Route("POST:disputes/:id/evidence", "Dispute")}
AccountingRoutes == {
  Route("GET:accounting/connections", "AccountingConnection"),
  Route("POST:accounting/connections/quickbooks", "AccountingConnection"),
  Route("POST:accounting/connections/xero", "AccountingConnection"),
  Route("DELETE:accounting/connections/:provider", "AccountingConnection"),
  Route("GET:accounting/sync-status", "SyncedTransaction"),
  Route("POST:accounting/sync/trigger", "SyncedTransaction"),
  Route("GET:accounting/reconciliation-report", "SyncedTransaction")}
ConnectionsRoutes == {
  Route("GET:connections", "Connection"), Route("DELETE:connections/:provider", "Connection")}
TenantRoutes == {
  Route("POST:tenants", "Tenant"), Route("GET:tenants/me", "Tenant"),
  Route("PATCH:tenants/me/plan", "Tenant"), Route("GET:tenants/:id", "Tenant"),
  Route("PATCH:tenants/:id/plan", "Tenant")}
\* The simulations, by scenario; those that create a row are refused to the pages,
\* which name no tenant.
DemoRoutes == {
  Route("POST:demo/simulate/dispute-won", "Dispute"),
  Route("POST:demo/simulate/accounting-sync", "SyncedTransaction")}

Routes == DunningRoutes \cup WebhooksRoutes \cup InvoicesRoutes \cup SaveFlowRoutes
  \cup DisputesRoutes \cup AccountingRoutes \cup ConnectionsRoutes \cup TenantRoutes
  \cup DemoRoutes
RowsAt(call) ==
  IF \E r \in Routes : r.call = call THEN (CHOOSE r \in Routes : r.call = call).rows ELSE NoRoute

-----------------------------------------------------------------------------
\* src/frontend/src/api: what is called for the keys with a prefix.

Under(prefix, call) == [prefix |-> prefix, rows |-> RowsAt(call)]

DunningApi == {Under(<<"dunning", "stats">>, "GET:dunning/stats"),
               Under(<<"dunning", "payments">>, "GET:dunning/failed-payments"),
               Under(<<"dunning", "sequences">>, "GET:dunning/recovery-sequences")}
InvoicesApi == {Under(<<"invoices", "templates">>, "GET:invoices/templates"),
                Under(<<"invoices", "generated">>, "GET:invoices/generated")}
SaveFlowApi == {Under(<<"saveflow", "offers">>, "GET:save-flow/offers"),
                Under(<<"saveflow", "stats">>, "GET:save-flow/stats"),
                Under(<<"saveflow", "attempts">>, "GET:save-flow/attempts")}
\* OverviewPage reads the statistics under the prefix of the list.
DisputesApi == {Under(<<"disputes">>, "GET:disputes"),
                Under(<<"dispute-stats">>, "GET:disputes/stats")}
WebhooksApi == {Under(<<"webhooks", "events">>, "GET:webhooks/events"),
                Under(<<"webhooks", "alert-rules">>, "GET:webhooks/alert-rules")}
AccountingApi == {Under(<<"accounting", "connections">>, "GET:accounting/connections"),
                  Under(<<"accounting", "sync">>, "GET:accounting/sync"),
                  Under(<<"accounting", "reconciliation">>, "GET:accounting/reconciliation")}
ReportingApi == {Under(<<"reporting", "dunning">>, "GET:dunning/report"),
                 Under(<<"reporting", "saveflow">>, "GET:save-flow/report"),
                 Under(<<"reporting", "webhooks">>, "GET:webhooks/stats"),
                 Under(<<"webhooks", "stats">>, "GET:webhooks/stats")}
ConnectionsApi == {Under(<<"connections">>, "GET:connections")}
TenantsApi == {Under(<<"tenant">>, "GET:tenants/me")}
AuditApi == {Under(<<"audit-log">>, "GET:audit-log")}

Api == DunningApi \cup InvoicesApi \cup SaveFlowApi \cup DisputesApi \cup WebhooksApi
         \cup AccountingApi \cup ReportingApi \cup ConnectionsApi \cup TenantsApi \cup AuditApi
-----------------------------------------------------------------------------
\* src/frontend/src/pages: the queries a page shows, given its filter.

OverviewQueries == {<<"reporting", "dunning", "7">>, <<"dunning", "stats">>,
  <<"saveflow", "stats">>, <<"disputes", "stats">>, <<"webhooks", "events", "limit-100">>,
  <<"connections">>, <<"dunning", "sequences">>, <<"saveflow", "offers">>}
DunningQueries(f) == {<<"dunning", "stats">>, <<"dunning", "payments", f>>,
                      <<"dunning", "sequences">>}
WebhooksQueries(f) == {<<"webhooks", "events", f>>, <<"webhooks", "alert-rules">>,
                       <<"webhooks", "stats">>}
InvoicesQueries == {<<"invoices", "templates">>, <<"invoices", "generated">>}
SaveFlowQueries == {<<"saveflow", "stats">>, <<"saveflow", "offers">>,
                    <<"saveflow", "attempts">>}
AccountingQueries == {<<"accounting", "connections">>, <<"accounting", "sync">>,
                      <<"accounting", "reconciliation">>}
DisputesQueries(f) == {<<"dispute-stats">>, <<"disputes", f>>}
ReportingQueries(f) == {<<"reporting", "dunning", f>>, <<"reporting", "saveflow">>,
                        <<"reporting", "webhooks">>}
SettingsQueries == {<<"connections">>, <<"audit-log">>, <<"tenant">>}
\* TopBar and Sidebar, on every page of the dashboard.
LayoutQueries == {<<"tenant">>}

\* DemoPage shows one of its tabs; the one of the invoices has no query.
DemoDunningQueries == {<<"dunning", "stats">>, <<"dunning", "payments", "noFilter">>}
DemoWebhooksQueries == {<<"webhooks", "events", "limit-20">>, <<"webhooks", "alert-rules">>}
DemoSaveFlowQueries == {<<"saveflow", "stats">>}
DemoAccountingQueries == {<<"accounting", "connections">>, <<"accounting", "sync", "noFilter">>}
DemoDisputesQueries == {<<"disputes", "noFilter">>, <<"dispute-stats">>}
DemoQueries == [
  demoDunning |-> DemoDunningQueries, demoWebhooks |-> DemoWebhooksQueries,
  demoSaveFlow |-> DemoSaveFlowQueries, demoAccounting |-> DemoAccountingQueries,
  demoDisputes |-> DemoDisputesQueries, demoInvoices |-> {}]

DashboardQueries(f) == [
  overview |-> OverviewQueries, dunning |-> DunningQueries(f), webhooks |-> WebhooksQueries(f),
  invoices |-> InvoicesQueries, saveflow |-> SaveFlowQueries, accounting |-> AccountingQueries,
  disputes |-> DisputesQueries(f), reporting |-> ReportingQueries(f),
  settings |-> SettingsQueries]

\* AppRouter; the pages to sign in and to sign up have no query.
Dashboard == DOMAIN DashboardQueries(CHOOSE f \in Filters : TRUE)
Outside == "login"
PageNames == Dashboard \cup DOMAIN DemoQueries \cup {Outside}
QueriesOf(v) == IF v.page \in Dashboard THEN DashboardQueries(v.filter)[v.page] \cup LayoutQueries
                ELSE IF v.page = Outside THEN {} ELSE DemoQueries[v.page]
Views == [page : PageNames, filter : Filters]
QueryKeys == UNION {QueriesOf(v) : v \in Views}
RowsOf(key) == (CHOOSE a \in Api : IsPrefix(a.prefix, key)).rows

\* Queries with a refetchInterval.
Polled == {<<"webhooks", "stats">>, <<"webhooks", "events", "limit-20">>}

-----------------------------------------------------------------------------
\* The mutations of a page: what is called, and the prefixes invalidated when
\* the call has succeeded.

On(page, name, call, invalidates) ==
  [page |-> page, name |-> name, writes |-> RowsAt(call), invalidates |-> invalidates]

DunningMutations == {On("dunning", "createSeq", "POST:dunning/recovery-sequences",
                        {<<"dunning", "sequences">>})}
ReplayInvalidating(prefix) ==
  On("webhooks", "replayMut", "POST:webhooks/events/:id/replay", {prefix})
RuleMutations ==
  {On("webhooks", "createRule", "POST:webhooks/alert-rules", {<<"webhooks", "alert-rules">>}),
   On("webhooks", "deleteRule", "DELETE:webhooks/alert-rules/:id", {<<"webhooks", "alert-rules">>})}
\* Mutated: the list with the filter on show is the one that is invalidated.
WebhooksMutationsShown ==
  {ReplayInvalidating(<<"webhooks", "events", "all">>)} \cup RuleMutations
WebhooksMutations == {ReplayInvalidating(<<"webhooks", "events">>)} \cup RuleMutations
InvoicesMutations ==
  {On("invoices", "createTpl", "POST:invoices/templates", {<<"invoices", "templates">>}),
   On("invoices", "updateTpl", "PUT:invoices/templates/:id", {<<"invoices", "templates">>})}
SaveFlowMutations ==
  {On("saveflow", "createOffer", "POST:save-flow/offers", {<<"saveflow", "offers">>})}
AccountingMutations ==
  {On("accounting", "triggerSync", "POST:accounting/sync/trigger", {<<"accounting", "sync">>}),
   On("accounting", "disconnect", "DELETE:accounting/connections/:provider",
      {<<"accounting", "connections">>})}
DisputesMutations ==
  {On("disputes", "submitEvidence", "POST:disputes/:id/evidence", {<<"disputes">>})}
SettingsMutations ==
  {On("settings", "disconnect", "DELETE:connections/:provider", {<<"connections">>}),
   On("settings", "upgradePlan", "PATCH:tenants/me/plan", {<<"tenant">>})}
DemoWebhooksMutations ==
  {On("demoWebhooks", "simulateReplay", "POST:webhooks/events/:id/replay",
      {<<"webhooks", "events">>})}
DemoAccountingMutations ==
  {On("demoAccounting", "triggerSync", "POST:demo/simulate/accounting-sync",
      {<<"accounting", "sync">>})}
DemoDisputesMutations ==
  {On("demoDisputes", "simulateWin", "POST:demo/simulate/dispute-won",
      {<<"disputes">>, <<"dispute-stats">>})}

Mutations == DunningMutations \cup WebhooksMutations \cup InvoicesMutations
  \cup SaveFlowMutations \cup AccountingMutations \cup DisputesMutations
  \cup SettingsMutations \cup DemoWebhooksMutations \cup DemoAccountingMutations
  \cup DemoDisputesMutations

-----------------------------------------------------------------------------
\* The QueryClient (react-query, external) as the pages use it: staleTime 30 s.

NoFetch == [on |-> FALSE, asked |-> FALSE, seen |-> 0]
Asked == [on |-> TRUE, asked |-> TRUE, seen |-> 0]
NoEntry == [has |-> FALSE, seen |-> 0, fresh |-> FALSE]
Shown == query.key \in QueriesOf(view)
Covered == \E p \in mutation.invalidates : IsPrefix(p, query.key)

PagesTypeOK ==
  /\ query.key \in QueryKeys /\ mutation.page \in PageNames /\ view \in Views
  /\ changes \in 0..MaxWrites /\ own \in 0..MaxWrites /\ faults \in 0..MaxFaults
  /\ entry \in [has : BOOLEAN, seen : 0..MaxWrites, fresh : BOOLEAN]
  /\ fetch \in [on : BOOLEAN, asked : BOOLEAN, seen : 0..MaxWrites]
  /\ request \in [pc : {"idle", "sent", "written"}, wrote : 0..MaxWrites]
  /\ missed \in BOOLEAN

PagesInit ==
  /\ query \in {[key |-> k, rows |-> RowsOf(k)] : k \in QueryKeys}
  /\ mutation \in Mutations
  /\ query.rows \in {mutation.writes, NoRoute}
  /\ view \in [page : {Outside}, filter : Filters]
  /\ changes = 0 /\ own = 0 /\ entry = NoEntry /\ fetch = NoFetch
  /\ request = [pc |-> "idle", wrote |-> 0] /\ missed = FALSE /\ faults = 0

Followed == <<query, mutation>>
Kept == UNCHANGED Followed

\* A page is opened or its filter changed: a query that comes into view is
\* fetched unless it is fresh or being fetched.  What is out of view is not fetched.
LookAt(v) ==
  /\ v # view /\ view' = v
  /\ v.page \in {mutation.page, Outside} \/ query.key \in QueriesOf(v)
  /\ fetch' = IF query.key \in QueriesOf(v) /\ ~ Shown /\ ~ entry.fresh /\ ~ fetch.on
              THEN Asked ELSE fetch
  /\ Kept /\ UNCHANGED <<changes, entry, request, own, missed, faults>>

GoStale ==
  /\ entry.fresh /\ entry' = [entry EXCEPT !.fresh = FALSE] /\ missed' = FALSE
  /\ Kept /\ UNCHANGED <<view, changes, fetch, request, own, faults>>

\* Out of view for long: the data is dropped.
Drop ==
  /\ entry.has /\ ~ Shown /\ ~ fetch.on
  /\ entry' = NoEntry
  /\ Kept /\ UNCHANGED <<view, changes, fetch, request, own, missed, faults>>

\* The window gains focus, or the refetchInterval is over.
Refetch ==
  /\ Shown /\ ~ fetch.on /\ (~ entry.fresh \/ query.key \in Polled)
  /\ fetch' = Asked
  /\ Kept /\ UNCHANGED <<view, changes, entry, request, own, missed, faults>>

ServerReads ==
  /\ fetch.asked /\ query.rows # NoRoute
  /\ fetch' = [on |-> TRUE, asked |-> FALSE, seen |-> changes]
  /\ Kept /\ UNCHANGED <<view, changes, entry, request, own, missed, faults>>

FetchAnswered ==
  /\ fetch.on /\ ~ fetch.asked
  /\ entry' = [has |-> TRUE, seen |-> fetch.seen, fresh |-> TRUE] /\ fetch' = NoFetch
  /\ Kept /\ UNCHANGED <<view, changes, request, own, missed, faults>>

\* No route, or no answer, and the retry fails too.
FetchFails ==
  /\ fetch.on
  /\ IF query.rows = NoRoute THEN faults' = faults
     ELSE faults < MaxFaults /\ faults' = faults + 1
  /\ fetch' = NoFetch /\ missed' = (missed /\ entry.fresh)
  /\ Kept /\ UNCHANGED <<view, changes, entry, request, own>>

\* The scheduler, the worker or another user changes the rows.
OtherWrites ==
  /\ changes < MaxWrites /\ changes' = changes + 1
  /\ Kept /\ UNCHANGED <<view, entry, fetch, request, own, missed, faults>>

Mutate ==
  /\ view.page = mutation.page /\ request.pc = "idle"
  /\ request' = [pc |-> "sent", wrote |-> 0]
  /\ Kept /\ UNCHANGED <<view, changes, entry, fetch, own, missed, faults>>

ServerWrites ==
  /\ request.pc = "sent" /\ changes < MaxWrites
  /\ changes' = changes + 1 /\ request' = [pc |-> "written", wrote |-> changes + 1]
  /\ Kept /\ UNCHANGED <<view, entry, fetch, own, missed, faults>>

\* onSuccess, wherever the user is by now: what is covered is stale, and if it
\* is in view it is fetched anew.  A fetch in flight gives way to that only if
\* the query is in view and has data; else it runs on.
MutateAnswered ==
  LET runsOn == fetch.on /\ ~ (Shown /\ entry.has) IN
  /\ request.pc = "written" /\ request' = [pc |-> "idle", wrote |-> 0] /\ own' = request.wrote
  /\ IF Covered
     THEN /\ entry' = [entry EXCEPT !.fresh = FALSE]
          /\ fetch' = IF Shown /\ ~ runsOn THEN Asked ELSE fetch
          /\ missed' = runsOn
     ELSE UNCHANGED <<entry, fetch, missed>>
  /\ Kept /\ UNCHANGED <<view, changes, faults>>

\* An error, before or after the rows were written: nothing is invalidated.
MutateFails ==
  /\ request.pc # "idle" /\ request' = [pc |-> "idle", wrote |-> 0]
  /\ faults < MaxFaults /\ faults' = faults + 1
  /\ Kept /\ UNCHANGED <<view, changes, entry, fetch, own, missed>>

\* The page is loaded anew.
LoadAnew ==
  /\ entry' = NoEntry /\ missed' = FALSE /\ own' = 0
  /\ request' = [pc |-> "idle", wrote |-> 0]
  /\ fetch' = IF Shown THEN Asked ELSE NoFetch
  /\ Kept /\ UNCHANGED <<view, changes, faults>>

Network == ServerReads \/ FetchAnswered \/ FetchFails
PagesNext ==
  \/ \E v \in Views : LookAt(v)
  \/ GoStale \/ Drop \/ Refetch \/ Network \/ OtherWrites
  \/ Mutate \/ ServerWrites \/ MutateAnswered \/ MutateFails \/ LoadAnew

PagesSpec == PagesInit /\ [][PagesNext]_pagesVars

-----------------------------------------------------------------------------
(* Properties.                                                             *)

\* Rows that the page of a mutation shows, that the mutation changes and that its
\* onSuccess leaves as they are: they stay as old as they were until they are
\* stale and the window gains focus.
Overlooked == {<<"replayMut", <<"webhooks", "stats">>>>, <<"submitEvidence", <<"dispute-stats">>>>}

\* On the page of a mutation, what is fresh shows the change that was answered
\* last, unless it is one of those overlooked, or a fetch was under way that the
\* invalidation did not stop (onSuccess of the pages' mutations).
OwnChangeIsShown ==
  /\ entry.fresh /\ ~ missed
  /\ \E f \in Filters : query.key \in QueriesOf([page |-> mutation.page, filter |-> f])
  /\ <<mutation.name, query.key>> \notin Overlooked
  => entry.seen >= own
=============================================================================

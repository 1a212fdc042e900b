---------------------------- MODULE Connections ----------------------------
(***************************************************************************)
(* A tenant's Connection row for Stripe (core/connections): the OAuth      *)
(* round trip that creates or renews it, and disconnecting it.  Rows are   *)
(* never deleted.  The audit entry of a change is a second write.          *)
(***************************************************************************)
EXTENDS Naturals, FiniteSets

CONSTANTS
  Tenants,      \* ids of the rows of the tenants table
  Flows,        \* OAuth round trips users may start
  Disconnects,  \* disconnect requests users may make
  ActorTenant,  \* the tenant of the user behind a flow or a disconnect
  Seeded        \* what the credentials of each tenant's row hold at the start

KeyFields == {"none", "secretKey", "accessToken"}

ASSUME ConnectionsAssumption ==
  /\ Flows \cap Disconnects = {} /\ "seed" \notin Flows \cup Disconnects
  /\ ActorTenant \in [Flows \cup Disconnects -> Tenants]
  /\ Seeded \in [Tenants -> KeyFields]

VARIABLES
  connection,  \* the Stripe Connection row of each tenant
  flow,        \* OAuth round trips
  disconnect,  \* disconnect requests
  auditLog     \* flows and disconnects that have an audit entry

connectionVars == <<connection, flow, disconnect, auditLog>>

FlowPc == {"idle", "consent", "exchange", "store", "audit", "connected", "denied", "failed"}
DisconnectPc == {"idle", "notFound", "update", "audit", "done", "failed"}
Seed == "seed"
\* 'by' records the request that wrote the row last.
Connection == [status : {"ABSENT", "ACTIVE", "DISCONNECTED"}, holds : KeyFields,
               by : Flows \cup Disconnects \cup {Seed}]

ConnectionsTypeOK ==
  /\ connection \in [Tenants -> Connection]
  /\ flow \in [Flows -> [pc : FlowPc, live : BOOLEAN]]
  /\ disconnect \in [Disconnects -> DisconnectPc]
  /\ auditLog \subseteq Flows \cup Disconnects

ConnectionsInit ==
  /\ connection = [t \in Tenants |->
       [status |-> IF Seeded[t] = "none" THEN "ABSENT" ELSE "ACTIVE", holds |-> Seeded[t],
        by |-> Seed]]
  /\ flow = [o \in Flows |-> [pc |-> "idle", live |-> FALSE]]
  /\ disconnect = [d \in Disconnects |-> "idle"]
  /\ auditLog = {}

FlowAt(o, from, to) ==
  flow[o].pc = from /\ flow' = [flow EXCEPT ![o].pc = to]

-----------------------------------------------------------------------------
\* stripeOauthInit: a signed state, good for ten minutes and not stored.
StripeOauthInit(o) ==
  /\ flow[o].pc = "idle"
  /\ flow' = [flow EXCEPT ![o] = [pc |-> "consent", live |-> TRUE]]
  /\ UNCHANGED <<connection, disconnect, auditLog>>

StateExpires(o) ==
  /\ flow[o].live
  /\ flow' = [flow EXCEPT ![o].live = FALSE]
  /\ UNCHANGED <<connection, disconnect, auditLog>>

\* stripeOauthCallback: the error parameter, then the signature and age of the state.
StripeOauthCallback(o) ==
  /\ \/ FlowAt(o, "consent", "denied")
     \/ FlowAt(o, "consent", IF flow[o].live THEN "exchange" ELSE "failed")
  /\ UNCHANGED <<connection, disconnect, auditLog>>

\* stripe.oauth.token and kms.encrypt: a grant, or the redirect with oauth_failed.
ExchangeCode(o) ==
  /\ FlowAt(o, "exchange", "store") \/ FlowAt(o, "exchange", "failed")
  /\ UNCHANGED <<connection, disconnect, auditLog>>

\* Mutated: a renewed row keeps the status it had.
CreateConnectionKeepsStatus(o) ==
  /\ FlowAt(o, "store", "audit")
  /\ LET t == ActorTenant[o] IN
     connection' = [connection EXCEPT ![t] =
       [status |-> IF @.status = "ABSENT" THEN "ACTIVE" ELSE @.status,
        holds |-> "accessToken", by |-> o]]
  /\ UNCHANGED <<disconnect, auditLog>>

\* createConnection: the upsert, which stores the grant under 'accessToken'.
CreateConnection(o) ==
  /\ FlowAt(o, "store", "audit")
  /\ connection' = [connection EXCEPT ![ActorTenant[o]] =
                      [status |-> "ACTIVE", holds |-> "accessToken", by |-> o]]
  /\ UNCHANGED <<disconnect, auditLog>>

\* The audit entry of createConnection; if it fails the user reads oauth_failed.
AuditCreated(o) ==
  /\ \/ FlowAt(o, "audit", "connected") /\ auditLog' = auditLog \cup {o}
     \/ FlowAt(o, "audit", "failed") /\ auditLog' = auditLog
  /\ UNCHANGED <<connection, disconnect>>

-----------------------------------------------------------------------------
\* disconnectConnection: find, update, audit.
FindConnected(d) ==
  /\ disconnect[d] = "idle"
  /\ disconnect' = [disconnect EXCEPT ![d] =
       IF connection[ActorTenant[d]].status = "ABSENT" THEN "notFound" ELSE "update"]
  /\ UNCHANGED <<connection, flow, auditLog>>

MarkDisconnected(d) ==
  /\ disconnect[d] = "update"
  /\ disconnect' = [disconnect EXCEPT ![d] = "audit"]
  /\ connection' = [connection EXCEPT ![ActorTenant[d]].status = "DISCONNECTED",
                                         ![ActorTenant[d]].by = d]
  /\ UNCHANGED <<flow, auditLog>>

AuditDisconnected(d) ==
  /\ disconnect[d] = "audit"
  /\ \/ disconnect' = [disconnect EXCEPT ![d] = "done"] /\ auditLog' = auditLog \cup {d}
     \/ disconnect' = [disconnect EXCEPT ![d] = "failed"] /\ auditLog' = auditLog
  /\ UNCHANGED <<connection, flow>>

FlowStep(o) ==
  StripeOauthCallback(o) \/ ExchangeCode(o) \/ CreateConnection(o) \/ AuditCreated(o)
DisconnectStep(d) == FindConnected(d) \/ MarkDisconnected(d) \/ AuditDisconnected(d)

ConnectionsNext ==
  \/ \E o \in Flows : StripeOauthInit(o) \/ StateExpires(o) \/ FlowStep(o)
  \/ \E d \in Disconnects : DisconnectStep(d)

ConnectionsSpec == ConnectionsInit /\ [][ConnectionsNext]_connectionVars

-----------------------------------------------------------------------------
\* Once an OAuth round trip has been answered 'connected', its tenant has an
\* ACTIVE row with a grant, or was disconnected after the last grant: a
\* disconnect that came before, or that found no row, takes no grant away, and
\* reconnecting revives the row (createConnection, disconnectConnection).
HasGrant(t) ==
  connection[t].holds = "accessToken"
    /\ (connection[t].status = "ACTIVE" \/ connection[t].by \in Disconnects)
ConnectedIsActive == \A o \in Flows : flow[o].pc = "connected" => HasGrant(ActorTenant[o])

\* The inductive invariant: a flow's grant is there before its audit entry.
GrantStored ==
  \A o \in Flows : flow[o].pc \in {"audit", "connected"} => HasGrant(ActorTenant[o])
=============================================================================

----------------------------- MODULE MCAccounting -----------------------------
(* Small instances of AccountingSync, with the seeded Stripe key.  A manual   *)
(* and a nightly run of one tenant meet over a charge, or over the tokens     *)
(* while the tenant reconnects; or its nightly run meets an OAuth round trip  *)
(* and a disconnect; or one night takes two tenants.                          *)
EXTENDS AccountingSync

TwoTenants == {"acme", "bolt"}
OneFlow == {"o1"}
OneDisconnect == {"d1"}
OfAcme == [x \in OneFlow \cup OneDisconnect |-> "acme"]
SeededKey == [t \in TwoTenants |-> "secretKey"]
TwoRuns == {"manual", "nightly"}
ManualAndNightly == [r \in TwoRuns |-> IF r = "manual" THEN "acme" ELSE Nightly]
OneCharge == {"c1"}
ChargeOfAcme == [c \in OneCharge |-> "acme"]

VARIABLE part

\* The refresh tokens each part may see, and the parts one tenant is enough for.
TokensIn == [charges |-> 2, tokens |-> 3, connections |-> 1, tenants |-> 3]
OnlyAcme == account'["bolt"] = account["bolt"] /\ \A g \in granted' : g.tenant = "acme"

Init == part \in DOMAIN TokensIn /\ AccountingInit
Next ==
  /\ UNCHANGED part /\ AccountingNext
  /\ issued' <= TokensIn[part]
  /\ part # "tenants" => OnlyAcme
  /\ part # "connections" => UNCHANGED connectionVars
  /\ part \in {"tokens", "tenants"} => UNCHANGED charge
  /\ part \in {"connections", "tenants"} => run'["manual"] = run["manual"]
Spec == Init /\ [][Next]_<<part, accountingVars>> /\ AccountingFairness
=============================================================================

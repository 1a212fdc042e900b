----------------------------- MODULE MCBackOffice -----------------------------
(* Small instances of the modules that keep a tenant's rows, of the demo data *)
(* and of the pages that show them.  These share no state with each other: a  *)
(* behaviour is one of them.                                                  *)
EXTENDS Invoices, Disputes, SaveFlow, DemoData, Pages

VARIABLE part

Parts == {"invoices", "disputes", "saveFlow", "demo", "pages"}

\* A behaviour of another part starts with one of the pages' initial states.
PagesIdle == query.key = <<"tenant">> /\ mutation.name = "upgradePlan" /\ view.filter = "all"

Init ==
  /\ part \in Parts
  /\ InvoicesInit /\ DisputesInit /\ SaveFlowInit /\ DemoInit /\ PagesInit
  /\ part # "pages" => PagesIdle

Next ==
  /\ UNCHANGED part
  /\ \/ part = "invoices" /\ InvoicesNext
        /\ UNCHANGED <<disputesVars, saveFlowVars, demoVars, pagesVars>>
     \/ part = "disputes" /\ DisputesNext
        /\ UNCHANGED <<invoicesVars, saveFlowVars, demoVars, pagesVars>>
     \/ part = "saveFlow" /\ SaveFlowNext
        /\ UNCHANGED <<invoicesVars, disputesVars, demoVars, pagesVars>>
     \/ part = "demo" /\ DemoNext
        /\ UNCHANGED <<invoicesVars, disputesVars, saveFlowVars, pagesVars>>
     \/ part = "pages" /\ PagesNext
        /\ UNCHANGED <<invoicesVars, disputesVars, saveFlowVars, demoVars>>

Spec == Init /\ [][Next]_<<part, invoicesVars, disputesVars, saveFlowVars, demoVars, pagesVars>>

\* Every variable of the five modules holds a value of its kind.
TypeOK == InvoicesTypeOK /\ DisputesTypeOK /\ SaveFlowTypeOK /\ DemoTypeOK /\ PagesTypeOK
=============================================================================

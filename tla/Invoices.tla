------------------------------ MODULE Invoices ------------------------------
(***************************************************************************)
(* Branded invoices of one tenant: invoice templates, of which one should  *)
(* be the default, and the generation of a PDF with the default template.  *)
(* Choosing a default is two statements (unset the others, write this      *)
(* one), and so is generating (put the object at a fixed key, upsert the   *)
(* row).  Rows and objects of other tenants are never touched.             *)
(***************************************************************************)
EXTENDS Naturals

CONSTANTS
  FirstTemplate,  \* the template the tenant starts with, its default
  Edits,          \* requests on templates; a created one is named by its request
  Generations     \* requests to generate the invoice

NoTemplate == "no template"
Templates == Edits \cup {FirstTemplate}

ASSUME InvoicesAssumption ==
  FirstTemplate \notin Edits /\ Edits \cap Generations = {} /\ NoTemplate \notin Templates

VARIABLES
  template,   \* InvoiceTemplate rows
  edit,       \* requests on templates
  generation, \* requests to generate
  pdf,        \* the template of the object in S3
  generated,  \* the templateId of the GeneratedInvoice row
  excused     \* ways in which the tenant may have lost or doubled its default

invoicesVars == <<template, edit, generation, pdf, generated, excused>>

\* isDefault in the body of a request.
Wishes == {"set", "unset", "absent"}
Excuses == {"removed", "overlap", "updateFailed"}

InvoicesTypeOK ==
  /\ template \in [Templates -> {"absent", "plain", "default", "deleted"}]
  /\ edit \in [Edits -> [pc : {"idle", "unset", "create", "update", "delete", "done", "error"},
                         of : Templates \cup {NoTemplate}, wish : Wishes]]
  /\ generation \in [Generations -> [pc : {"idle", "find", "render", "upsert", "done", "error"},
                                     of : Templates \cup {NoTemplate}]]
  /\ pdf \in Templates \cup {NoTemplate} /\ generated \in Templates \cup {NoTemplate}
  /\ excused \subseteq Excuses

InvoicesInit ==
  /\ template = [t \in Templates |-> IF t = FirstTemplate THEN "default" ELSE "absent"]
  /\ edit = [e \in Edits |-> [pc |-> "idle", of |-> NoTemplate, wish |-> "absent"]]
  /\ generation = [g \in Generations |-> [pc |-> "idle", of |-> NoTemplate]]
  /\ pdf = NoTemplate /\ generated = NoTemplate /\ excused = {}

Exists(t) == template[t] \in {"plain", "default"}
EditTo(e, pc) == edit' = [edit EXCEPT ![e].pc = pc]

-----------------------------------------------------------------------------
\* createTemplate and updateTemplate: the request, up to its first write.
StartCreate(e) ==
  /\ edit[e].pc = "idle"
  /\ \E w \in Wishes :
       edit' = [edit EXCEPT ![e] =
                  [pc |-> IF w = "set" THEN "unset" ELSE "create", of |-> e, wish |-> w]]
  /\ UNCHANGED <<template, generation, pdf, generated, excused>>

\* getTemplate has found the template.
StartUpdate(e, t) ==
  /\ edit[e].pc = "idle" /\ Exists(t)
  /\ \E w \in Wishes :
       edit' = [edit EXCEPT ![e] =
                  [pc |-> IF w = "set" THEN "unset" ELSE "update", of |-> t, wish |-> w]]
  /\ UNCHANGED <<template, generation, pdf, generated, excused>>

\* updateMany: no template of the tenant is the default.  Another request that
\* is between its two statements as well is noted as an overlap.
UnsetDefaults(e) ==
  /\ edit[e].pc = "unset"
  /\ template' = [t \in Templates |-> IF template[t] = "default" THEN "plain" ELSE template[t]]
  /\ EditTo(e, IF edit[e].of = e THEN "create" ELSE "update")
  /\ excused' = IF \E d \in Edits \ {e} : edit[d].wish = "set" /\ edit[d].pc \in {"create", "update"}
                THEN excused \cup {"overlap"} ELSE excused
  /\ UNCHANGED <<generation, pdf, generated>>

CreateTemplate(e) ==
  /\ edit[e].pc = "create"
  /\ template' = [template EXCEPT ![e] = IF edit[e].wish = "set" THEN "default" ELSE "plain"]
  /\ EditTo(e, "done")
  /\ UNCHANGED <<generation, pdf, generated, excused>>

\* Mutated: a body without isDefault makes the template a plain one.
UpdateTemplateResets(e) ==
  LET t == edit[e].of IN
  /\ edit[e].pc = "update" /\ Exists(t)
  /\ template' = [template EXCEPT ![t] = IF edit[e].wish = "set" THEN "default" ELSE "plain"]
  /\ excused' = IF edit[e].wish = "unset" THEN excused \cup {"removed"} ELSE excused
  /\ EditTo(e, "done")
  /\ UNCHANGED <<generation, pdf, generated>>

\* update by id: an error if the template was deleted since.
UpdateTemplate(e) ==
  LET t == edit[e].of IN
  /\ edit[e].pc = "update"
  /\ IF Exists(t)
     THEN /\ template' = [template EXCEPT ![t] = CASE edit[e].wish = "set" -> "default"
                                                   [] edit[e].wish = "unset" -> "plain"
                                                   [] OTHER -> template[t]]
          /\ excused' = IF edit[e].wish = "unset" THEN excused \cup {"removed"} ELSE excused
          /\ EditTo(e, "done")
     ELSE /\ template' = template /\ EditTo(e, "error")
          /\ excused' = excused \cup {"updateFailed"}
  /\ UNCHANGED <<generation, pdf, generated>>

\* deleteTemplate: getTemplate, then delete by id, which a generated invoice refuses.
StartDelete(e, t) ==
  /\ edit[e].pc = "idle" /\ Exists(t)
  /\ edit' = [edit EXCEPT ![e] = [pc |-> "delete", of |-> t, wish |-> "absent"]]
  /\ UNCHANGED <<template, generation, pdf, generated, excused>>

DeleteTemplate(e) ==
  LET t == edit[e].of IN
  /\ edit[e].pc = "delete"
  /\ IF Exists(t) /\ generated # t
     THEN /\ template' = [template EXCEPT ![t] = "deleted"] /\ EditTo(e, "done")
          /\ excused' = excused \cup {"removed"}
     ELSE template' = template /\ excused' = excused /\ EditTo(e, "error")
  /\ UNCHANGED <<generation, pdf, generated>>

-----------------------------------------------------------------------------
\* generateInvoice.

Generate(g, pc, t) == generation' = [generation EXCEPT ![g] = [pc |-> pc, of |-> t]]

\* stripe.invoices.retrieve.
RetrieveInvoice(g) ==
  /\ generation[g].pc = "idle"
  /\ Generate(g, "find", NoTemplate) \/ Generate(g, "error", NoTemplate)
  /\ UNCHANGED <<template, edit, pdf, generated, excused>>

\* findFirst: some default template, or 'No default invoice template found'.
FindTemplate(g) ==
  /\ generation[g].pc = "find"
  /\ \/ \E t \in Templates : template[t] = "default" /\ Generate(g, "render", t)
     \/ (\A t \in Templates : template[t] # "default") /\ Generate(g, "error", NoTemplate)
  /\ UNCHANGED <<template, edit, pdf, generated, excused>>

\* Mutated: the object is not waited for.
PutPdfLater(g) ==
  /\ generation[g].pc = "render"
  /\ Generate(g, "upsert", generation[g].of)
  /\ UNCHANGED <<template, edit, pdf, generated, excused>>

\* generateInvoicePdf: rendered and put at the invoice's key, or an error.
PutPdf(g) ==
  /\ generation[g].pc = "render"
  /\ \/ pdf' = generation[g].of /\ Generate(g, "upsert", generation[g].of)
     \/ pdf' = pdf /\ Generate(g, "error", NoTemplate)
  /\ UNCHANGED <<template, edit, generated, excused>>

\* The upsert: an existing row keeps its templateId; a new one needs the template.
UpsertGenerated(g) ==
  /\ generation[g].pc = "upsert"
  /\ IF generated = NoTemplate /\ ~ Exists(generation[g].of)
     THEN generated' = generated /\ Generate(g, "error", NoTemplate)
     ELSE /\ generated' = IF generated = NoTemplate THEN generation[g].of ELSE generated
          /\ Generate(g, "done", generation[g].of)
  /\ UNCHANGED <<template, edit, pdf, excused>>

InvoicesNext ==
  \/ \E e \in Edits :
       \/ StartCreate(e) \/ UnsetDefaults(e) \/ CreateTemplate(e)
       \/ UpdateTemplate(e) \/ DeleteTemplate(e)
       \/ \E t \in Templates : StartUpdate(e, t) \/ StartDelete(e, t)
  \/ \E g \in Generations :
       RetrieveInvoice(g) \/ FindTemplate(g) \/ PutPdf(g) \/ UpsertGenerated(g)

InvoicesSpec == InvoicesInit /\ [][InvoicesNext]_invoicesVars

-----------------------------------------------------------------------------
(* Properties.                                                             *)

Defaults == {t \in Templates : template[t] = "default"}

\* The tenant has exactly one default template, except while a request is
\* between its two statements, and after one of: a template was unset or
\* deleted, two requests for the default overlapped, an update failed after
\* it had unset the others (createTemplate, updateTemplate, deleteTemplate).
DefaultAccounted ==
  \/ \E t \in Defaults : Defaults = {t}
  \/ Defaults = {} /\ \E e \in Edits : edit[e].wish = "set" /\ edit[e].pc \in {"create", "update"}
  \/ Defaults = {} /\ excused # {}
  \/ Defaults # {} /\ "overlap" \in excused

\* A row of a generated invoice has its object and its template, and so has
\* every request that was answered with success (generateInvoice, whatever is
\* deleted meanwhile and however often the invoice is generated).
GeneratedIsBacked ==
  /\ generated # NoTemplate => pdf # NoTemplate /\ Exists(generated)
  /\ \A g \in Generations : generation[g].pc = "done" => generated # NoTemplate
=============================================================================

--------------------------- MODULE BackOfficeProofs ---------------------------
(* Theorems of Invoices, Disputes and SaveFlow, for every value of their constants,
   and of the system that puts them next to the demo data and the pages. *)
EXTENDS MCBackOffice, PagesProofs, DemoDataProofs, TLAPS
-----------------------------------------------------------------------------
\* Branded invoices.

\* A request between the statement that unsets the defaults and its own.
Between(e) == edit[e].wish = "set" /\ edit[e].pc \in {"create", "update"}

\* A template is created once, by the request it is named by.
EditOK(e) ==
  /\ edit[e].pc # "idle" => edit[e].of \in Templates
  /\ edit[e].pc = "create" => edit[e].of = e
  /\ edit[e].pc = "unset" => edit[e].wish = "set"
  /\ edit[e].pc = "idle" \/ (edit[e].pc \in {"unset", "create"} /\ edit[e].of = e)
       => template[e] = "absent"

\* Without an overlap there is at most one default, and none while a request is
\* between its statements.
DefaultOK ==
  "overlap" \notin excused =>
    /\ \A t, u \in Defaults : t = u
    /\ \A e \in Edits : Between(e) => Defaults = {} /\ \A d \in Edits : Between(d) => d = e
    /\ Defaults = {} => excused # {} \/ \E e \in Edits : Between(e)

\* A generation has put an object before it writes the row.
GenerationOK(g) ==
  /\ generation[g].pc \in {"render", "upsert"} => generation[g].of \in Templates
  /\ generation[g].pc = "upsert" => pdf # NoTemplate
  /\ generation[g].pc = "done" => generated # NoTemplate

InvoicesInv ==
  /\ InvoicesTypeOK
  /\ \A e \in Edits : EditOK(e)
  /\ \A g \in Generations : GenerationOK(g)
  /\ DefaultOK
  /\ generated # NoTemplate => pdf # NoTemplate /\ Exists(generated)

EditRequest == [pc : {"idle", "unset", "create", "update", "delete", "done", "error"},
                of : Templates \cup {NoTemplate}, wish : Wishes]
Generation == [pc : {"idle", "find", "render", "upsert", "done", "error"},
               of : Templates \cup {NoTemplate}]

LEMMA InvoicesTypes ==
  ASSUME InvoicesTypeOK
  PROVE  /\ template \in [Templates -> {"absent", "plain", "default", "deleted"}]
         /\ edit \in [Edits -> EditRequest] /\ generation \in [Generations -> Generation]
         /\ pdf \in Templates \cup {NoTemplate} /\ generated \in Templates \cup {NoTemplate}
         /\ Edits \subseteq Templates /\ NoTemplate \notin Templates
BY InvoicesAssumption DEF InvoicesTypeOK, EditRequest, Generation, Templates

\* A request on templates moves from one statement to the next.
LEMMA EditToEffect ==
  ASSUME InvoicesTypeOK, NEW e \in Edits, NEW pc \in {"create", "update", "done", "error"}, EditTo(e, pc)
  PROVE  /\ edit' \in [Edits -> EditRequest]
         /\ edit'[e].pc = pc /\ edit'[e].of = edit[e].of /\ edit'[e].wish = edit[e].wish
         /\ \A d \in Edits \ {e} : edit'[d] = edit[d]
<1>1. edit \in [Edits -> EditRequest]
  BY InvoicesTypes
<1>2. edit' = [edit EXCEPT ![e].pc = pc]
  BY DEF EditTo
<1>3. edit[e] \in EditRequest /\ [edit[e] EXCEPT !.pc = pc] \in EditRequest
  BY <1>1 DEF EditRequest
<1> QED
  BY <1>1, <1>2, <1>3 DEF EditRequest

\* A request on templates is received.
LEMMA EditStarts ==
  ASSUME InvoicesTypeOK, NEW e \in Edits, NEW t \in Templates, NEW w \in Wishes,
         NEW pc \in {"unset", "create", "update", "delete"},
         edit' = [edit EXCEPT ![e] = [pc |-> pc, of |-> t, wish |-> w]]
  PROVE  /\ edit' \in [Edits -> EditRequest]
         /\ edit'[e].pc = pc /\ edit'[e].of = t /\ edit'[e].wish = w
         /\ \A d \in Edits \ {e} : edit'[d] = edit[d]
<1>1. edit \in [Edits -> EditRequest]
  BY InvoicesTypes
<1>2. [pc |-> pc, of |-> t, wish |-> w] \in EditRequest
  BY DEF EditRequest
<1> QED
  BY <1>1, <1>2

\* The invariant of the templates and of the requests on them.
TemplatesInv ==
  /\ \A e \in Edits : EditOK(e)
  /\ DefaultOK

\* A request that begins leaves the templates as they are; it is not yet
\* between its statements.
LEMMA StartKeepsTemplates ==
  ASSUME InvoicesTypeOK, TemplatesInv, NEW e \in Edits,
         template' = template, excused' = excused,
         edit'[e].pc # "idle", ~ Between(e), ~ Between(e)', edit'[e].of \in Templates,
         edit'[e].pc = "create" => edit'[e].of = e,
         edit'[e].pc = "unset" => edit'[e].wish = "set",
         edit'[e].pc \in {"unset", "create"} /\ edit'[e].of = e => template[e] = "absent",
         \A d \in Edits \ {e} : edit'[d] = edit[d]
  PROVE  TemplatesInv'
<1>1. \A d \in Edits : Between(d)' <=> Between(d)
  BY DEF Between
<1>2. Defaults' = Defaults
  BY DEF Defaults
<1>3. DefaultOK'
  BY <1>1, <1>2 DEF TemplatesInv, DefaultOK
<1>4. \A d \in Edits : EditOK(d)'
  BY DEF TemplatesInv, EditOK
<1> QED
  BY <1>3, <1>4 DEF TemplatesInv

LEMMA InvoicesStart ==
  ASSUME InvoicesTypeOK, TemplatesInv, NEW e \in Edits,
         StartCreate(e) \/ \E t \in Templates : StartUpdate(e, t) \/ StartDelete(e, t)
  PROVE  TemplatesInv' /\ edit' \in [Edits -> EditRequest]
<1>0. template' = template /\ excused' = excused /\ edit[e].pc = "idle" /\ e \in Templates
  BY DEF StartCreate, StartUpdate, StartDelete, Templates
<1>1. ~ Between(e) /\ template[e] = "absent"
  BY <1>0 DEF Between, TemplatesInv, EditOK
<1>2. PICK t \in Templates, w \in Wishes, pc \in {"unset", "create", "update", "delete"} :
        /\ edit' = [edit EXCEPT ![e] = [pc |-> pc, of |-> t, wish |-> w]]
        /\ pc \in {"create", "update"} => w # "set"
        /\ pc = "unset" => w = "set"
        /\ pc = "create" => t = e
  BY <1>0 DEF StartCreate, StartUpdate, StartDelete, Wishes
<1>3. /\ edit' \in [Edits -> EditRequest]
      /\ edit'[e].pc = pc /\ edit'[e].of = t /\ edit'[e].wish = w
      /\ \A d \in Edits \ {e} : edit'[d] = edit[d]
  BY <1>2, EditStarts
<1>4. ~ Between(e)' /\ edit'[e].pc # "idle"
  BY <1>2, <1>3 DEF Between
<1> QED
  BY <1>0, <1>1, <1>2, <1>3, <1>4, StartKeepsTemplates

LEMMA UnsetKeeps ==
  ASSUME InvoicesTypeOK, TemplatesInv, NEW e \in Edits, UnsetDefaults(e)
  PROVE  /\ TemplatesInv'
         /\ edit' \in [Edits -> EditRequest]
         /\ template' \in [Templates -> {"absent", "plain", "default", "deleted"}]
         /\ \A t \in Templates : Exists(t) => Exists(t)'
<1>0. template \in [Templates -> {"absent", "plain", "default", "deleted"}]
  BY InvoicesTypes
<1>1. /\ edit[e].pc = "unset"
      /\ template' = [t \in Templates |-> IF template[t] = "default" THEN "plain" ELSE template[t]]
      /\ EditTo(e, IF edit[e].of = e THEN "create" ELSE "update")
  BY DEF UnsetDefaults
<1>2. /\ edit' \in [Edits -> EditRequest]
      /\ edit'[e].pc = (IF edit[e].of = e THEN "create" ELSE "update")
      /\ edit'[e].of = edit[e].of /\ edit'[e].wish = edit[e].wish
      /\ \A d \in Edits \ {e} : edit'[d] = edit[d]
  BY <1>1, EditToEffect
<1>3. Defaults' = {} /\ \A t \in Templates : (template[t] = "absent" => template'[t] = "absent")
  BY <1>1 DEF Defaults
<1>4. \A d \in Edits : EditOK(d)'
  <2> TAKE d \in Edits
  <2>1. EditOK(d) /\ d \in Templates
    BY DEF TemplatesInv, Templates
  <2> QED
    BY <1>1, <1>2, <1>3, <2>1 DEF EditOK
<1>5. DefaultOK'
  <2> SUFFICES ASSUME "overlap" \notin excused'
               PROVE  /\ \A c \in Edits : Between(c)' => c = e
                      /\ excused' # {} \/ Between(e)'
    BY <1>3 DEF DefaultOK
  <2>1. ~ \E d \in Edits \ {e} : edit[d].wish = "set" /\ edit[d].pc \in {"create", "update"}
    BY DEF UnsetDefaults
  <2>2. \A c \in Edits \ {e} : ~ Between(c)'
    BY <1>2, <2>1 DEF Between
  <2>3. Between(e)'
    BY <1>1, <1>2 DEF Between, TemplatesInv, EditOK
  <2> QED
    BY <2>2, <2>3
<1>6. \A t \in Templates : Exists(t) => Exists(t)'
  BY <1>1 DEF Exists
<1> QED
  BY <1>0, <1>1, <1>2, <1>4, <1>5, <1>6 DEF TemplatesInv
\* A request that ends without an effect on the others: the templates change in
\* at most the one it is about.
LEMMA EndKeeps ==
  ASSUME InvoicesTypeOK, \A d \in Edits : EditOK(d), NEW e \in Edits, NEW t \in Templates,
         edit'[e].pc \in {"done", "error"}, edit'[e].of = edit[e].of, edit[e].pc # "idle",
         \A d \in Edits \ {e} : edit'[d] = edit[d],
         \A u \in Templates \ {t} : template'[u] = template[u],
         template[t] # "absent" \/ t = e \/ template'[t] = template[t]
  PROVE  \A d \in Edits : EditOK(d)'
<1> TAKE d \in Edits
<1>1. EditOK(d) /\ EditOK(e) /\ d \in Templates
  BY DEF Templates
<1>2. CASE d = e
  BY <1>1, <1>2 DEF EditOK
<1>3. CASE d # e
  BY <1>1, <1>3 DEF EditOK
<1> QED
  BY <1>2, <1>3

\* The request e has ended and t may have become, or ceased to be, the default.
LEMMA DefaultKeeps ==
  ASSUME InvoicesTypeOK, DefaultOK, NEW e \in Edits, NEW t \in Templates,
         ~ Between(e)', \A d \in Edits \ {e} : edit'[d] = edit[d],
         \A u \in Templates \ {t} : template'[u] = template[u],
         excused \subseteq excused',
         Between(e) \/ t \notin Defaults' \/ t \in Defaults,
         Between(e) => t \in Defaults' \/ excused' # {},
         t \in Defaults /\ t \notin Defaults' => excused' # {}
  PROVE  DefaultOK'
<1> SUFFICES ASSUME "overlap" \notin excused'
             PROVE  /\ \A u, v \in Defaults' : u = v
                    /\ \A d \in Edits : Between(d)' => Defaults' = {} /\ \A c \in Edits : Between(c)' => c = d
                    /\ Defaults' = {} => excused' # {} \/ \E d \in Edits : Between(d)'
  BY DEF DefaultOK
<1>1. /\ \A u, v \in Defaults : u = v
      /\ \A d \in Edits : Between(d) => Defaults = {} /\ \A c \in Edits : Between(c) => c = d
      /\ Defaults = {} => excused # {} \/ \E d \in Edits : Between(d)
  BY DEF DefaultOK
<1>2. \A d \in Edits : Between(d)' <=> Between(d) /\ d # e
  BY DEF Between
<1>3. \A u \in Templates \ {t} : u \in Defaults' <=> u \in Defaults
  BY DEF Defaults
<1>4. Defaults \subseteq Templates /\ Defaults' \subseteq Templates
  BY DEF Defaults
<1>5. CASE Between(e)
  <2>1. Defaults = {} /\ \A d \in Edits : ~ Between(d)'
    BY <1>1, <1>2, <1>5
  <2> QED
    BY <1>3, <1>4, <1>5, <2>1
<1>6. CASE ~ Between(e)
  <2>1. Defaults' \subseteq Defaults /\ \A d \in Edits : Between(d)' <=> Between(d)
    BY <1>2, <1>3, <1>4, <1>6
  <2>2. Defaults' = {} => Defaults = {} \/ excused' # {}
    BY <1>3, <1>4
  <2> QED
    BY <1>1, <2>1, <2>2
<1> QED
  BY <1>5, <1>6

LEMMA CreateKeeps ==
  ASSUME InvoicesTypeOK, TemplatesInv, NEW e \in Edits, CreateTemplate(e)
  PROVE  /\ TemplatesInv'
         /\ edit' \in [Edits -> EditRequest]
         /\ template' \in [Templates -> {"absent", "plain", "default", "deleted"}]
         /\ \A t \in Templates : Exists(t) => Exists(t)'
<1>0. template \in [Templates -> {"absent", "plain", "default", "deleted"}] /\ e \in Templates
  BY InvoicesTypes
<1>1. /\ edit[e].pc = "create" /\ EditTo(e, "done") /\ excused' = excused
      /\ template' = [template EXCEPT ![e] = IF edit[e].wish = "set" THEN "default" ELSE "plain"]
  BY DEF CreateTemplate
<1>2. /\ edit' \in [Edits -> EditRequest]
      /\ edit'[e].pc = "done" /\ edit'[e].of = edit[e].of /\ edit'[e].wish = edit[e].wish
      /\ \A d \in Edits \ {e} : edit'[d] = edit[d]
  BY <1>1, EditToEffect
<1>3. template[e] = "absent"
  BY <1>1 DEF TemplatesInv, EditOK
<1>4. \A d \in Edits : EditOK(d)'
  BY <1>0, <1>1, <1>2, EndKeeps DEF TemplatesInv
<1>5. /\ ~ Between(e)' /\ e \notin Defaults
      /\ Between(e) => e \in Defaults'
      /\ e \in Defaults' => Between(e)
  BY <1>0, <1>1, <1>2, <1>3 DEF Between, Defaults
<1>6. \A u \in Templates \ {e} : template'[u] = template[u]
  BY <1>0, <1>1
<1>7. DefaultOK'
  BY <1>0, <1>1, <1>2, <1>5, <1>6, DefaultKeeps DEF TemplatesInv
<1>8. \A t \in Templates : Exists(t) => Exists(t)'
  BY <1>0, <1>1 DEF Exists
<1> QED
  BY <1>0, <1>1, <1>2, <1>4, <1>7, <1>8 DEF TemplatesInv

LEMMA UpdateKeeps ==
  ASSUME InvoicesTypeOK, TemplatesInv, NEW e \in Edits, UpdateTemplate(e)
  PROVE  /\ TemplatesInv'
         /\ edit' \in [Edits -> EditRequest]
         /\ template' \in [Templates -> {"absent", "plain", "default", "deleted"}]
         /\ excused' \subseteq excused \cup {"removed", "updateFailed"}
         /\ \A t \in Templates : Exists(t) => Exists(t)'
<1> DEFINE t == edit[e].of
<1>0. template \in [Templates -> {"absent", "plain", "default", "deleted"}]
  BY InvoicesTypes
<1>1. edit[e].pc = "update" /\ t \in Templates
  BY DEF UpdateTemplate, TemplatesInv, EditOK
<1>2. CASE Exists(t)
  <2>1. /\ template' = [template EXCEPT ![t] = CASE edit[e].wish = "set" -> "default"
                                                   [] edit[e].wish = "unset" -> "plain"
                                                   [] OTHER -> template[t]]
        /\ excused' = IF edit[e].wish = "unset" THEN excused \cup {"removed"} ELSE excused
        /\ EditTo(e, "done")
    BY <1>2 DEF UpdateTemplate
  <2>2. /\ edit' \in [Edits -> EditRequest]
        /\ edit'[e].pc = "done" /\ edit'[e].of = edit[e].of /\ edit'[e].wish = edit[e].wish
        /\ \A d \in Edits \ {e} : edit'[d] = edit[d]
    BY <2>1, EditToEffect
  <2> HIDE DEF t
  <2>3. /\ \A u \in Templates \ {t} : template'[u] = template[u]
        /\ template' \in [Templates -> {"absent", "plain", "default", "deleted"}]
        /\ edit[e].wish = "set" => template'[t] = "default"
        /\ edit[e].wish = "unset" => template'[t] = "plain"
        /\ edit[e].wish \notin {"set", "unset"} => template'[t] = template[t]
    BY <1>0, <1>1, <2>1
  <2>4. \A d \in Edits : EditOK(d)'
    BY <1>1, <1>2, <2>2, <2>3, EndKeeps DEF TemplatesInv, Exists
  <2>5. ~ Between(e)' /\ (Between(e) <=> edit[e].wish = "set")
    BY <1>1, <2>2 DEF Between
  <2>6. /\ Between(e) => t \in Defaults'
        /\ Between(e) \/ t \notin Defaults' \/ t \in Defaults
        /\ t \in Defaults /\ t \notin Defaults' => excused' # {}
    BY <1>1, <2>1, <2>3, <2>5 DEF Defaults
  <2>7. excused \subseteq excused' /\ excused' \subseteq excused \cup {"removed", "updateFailed"}
    BY <2>1
  <2>8. DefaultOK'
    BY <1>1, <2>2, <2>3, <2>5, <2>6, <2>7, DefaultKeeps DEF TemplatesInv
  <2>9. \A u \in Templates : Exists(u) => Exists(u)'
    BY <1>2, <2>3 DEF Exists
  <2> QED
    BY <2>2, <2>3, <2>4, <2>7, <2>8, <2>9 DEF TemplatesInv
<1>3. CASE ~ Exists(t)
  <2>1. template' = template /\ EditTo(e, "error") /\ excused' = excused \cup {"updateFailed"}
    BY <1>3 DEF UpdateTemplate
  <2>2. /\ edit' \in [Edits -> EditRequest]
        /\ edit'[e].pc = "error" /\ edit'[e].of = edit[e].of /\ edit'[e].wish = edit[e].wish
        /\ \A d \in Edits \ {e} : edit'[d] = edit[d]
    BY <2>1, EditToEffect
  <2> HIDE DEF t
  <2>3. \A d \in Edits : EditOK(d)'
    BY <1>1, <2>1, <2>2, EndKeeps DEF TemplatesInv
  <2>4. ~ Between(e)' /\ Defaults' = Defaults
    BY <2>1, <2>2 DEF Between, Defaults
  <2>5. DefaultOK'
    BY <1>1, <2>1, <2>2, <2>4, DefaultKeeps DEF TemplatesInv
  <2> QED
    BY <1>0, <2>1, <2>2, <2>3, <2>5 DEF TemplatesInv, Exists
<1> QED
  BY <1>2, <1>3

LEMMA DeleteKeeps ==
  ASSUME InvoicesTypeOK, TemplatesInv, NEW e \in Edits, DeleteTemplate(e)
  PROVE  /\ TemplatesInv'
         /\ edit' \in [Edits -> EditRequest]
         /\ template' \in [Templates -> {"absent", "plain", "default", "deleted"}]
         /\ excused' \subseteq excused \cup {"removed"}
         /\ \A t \in Templates : Exists(t) /\ t = generated => Exists(t)'
<1> DEFINE t == edit[e].of
<1>0. template \in [Templates -> {"absent", "plain", "default", "deleted"}]
  BY InvoicesTypes
<1>1. edit[e].pc = "delete" /\ t \in Templates /\ ~ Between(e)
  BY DEF DeleteTemplate, TemplatesInv, EditOK, Between
<1>2. CASE Exists(t) /\ generated # t
  <2>1. /\ template' = [template EXCEPT ![t] = "deleted"] /\ EditTo(e, "done")
        /\ excused' = excused \cup {"removed"}
    BY <1>2 DEF DeleteTemplate
  <2>2. /\ edit' \in [Edits -> EditRequest]
        /\ edit'[e].pc = "done" /\ edit'[e].of = edit[e].of
        /\ \A d \in Edits \ {e} : edit'[d] = edit[d]
    BY <2>1, EditToEffect
  <2> HIDE DEF t
  <2>3. /\ \A u \in Templates \ {t} : template'[u] = template[u]
        /\ template' \in [Templates -> {"absent", "plain", "default", "deleted"}]
        /\ template'[t] = "deleted"
    BY <1>0, <1>1, <2>1
  <2>4. \A d \in Edits : EditOK(d)'
    BY <1>1, <1>2, <2>2, <2>3, EndKeeps DEF TemplatesInv, Exists
  <2>5. ~ Between(e)' /\ t \notin Defaults' /\ excused' # {} /\ excused \subseteq excused'
    BY <2>1, <2>2, <2>3 DEF Between, Defaults
  <2>6. DefaultOK'
    BY <1>1, <2>2, <2>3, <2>5, DefaultKeeps DEF TemplatesInv
  <2>7. \A u \in Templates : Exists(u) /\ u = generated => Exists(u)'
    BY <1>2, <2>3 DEF Exists
  <2> QED
    BY <2>1, <2>2, <2>3, <2>4, <2>6, <2>7 DEF TemplatesInv
<1>3. CASE ~ (Exists(t) /\ generated # t)
  <2>1. template' = template /\ EditTo(e, "error") /\ excused' = excused
    BY <1>3 DEF DeleteTemplate
  <2>2. /\ edit' \in [Edits -> EditRequest]
        /\ edit'[e].pc = "error" /\ edit'[e].of = edit[e].of
        /\ \A d \in Edits \ {e} : edit'[d] = edit[d]
    BY <2>1, EditToEffect
  <2> HIDE DEF t
  <2>3. \A d \in Edits : EditOK(d)'
    BY <1>1, <2>1, <2>2, EndKeeps DEF TemplatesInv
  <2>4. ~ Between(e)' /\ Defaults' = Defaults
    BY <2>1, <2>2 DEF Between, Defaults
  <2>5. DefaultOK'
    BY <1>1, <2>1, <2>2, <2>4, DefaultKeeps DEF TemplatesInv
  <2> QED
    BY <1>0, <2>1, <2>2, <2>3, <2>5 DEF TemplatesInv, Exists
<1> QED
  BY <1>2, <1>3
\* A generation of the invoice.
LEMMA GenerationKeeps ==
  ASSUME InvoicesTypeOK, \A g \in Generations : GenerationOK(g),
         generated # NoTemplate => pdf # NoTemplate /\ Exists(generated), NEW g \in Generations,
         RetrieveInvoice(g) \/ FindTemplate(g) \/ PutPdf(g) \/ UpsertGenerated(g)
  PROVE  /\ generation' \in [Generations -> Generation]
         /\ pdf' \in Templates \cup {NoTemplate} /\ generated' \in Templates \cup {NoTemplate}
         /\ \A h \in Generations : GenerationOK(h)'
         /\ generated' # NoTemplate => pdf' # NoTemplate /\ Exists(generated')
<1>0. /\ generation \in [Generations -> Generation]
      /\ pdf \in Templates \cup {NoTemplate} /\ generated \in Templates \cup {NoTemplate}
      /\ NoTemplate \notin Templates
  BY InvoicesTypes
<1>1. ASSUME NEW pc \in {"find", "render", "upsert", "done", "error"},
             NEW t \in Templates \cup {NoTemplate}, Generate(g, pc, t)
      PROVE  /\ generation' \in [Generations -> Generation]
             /\ generation'[g].pc = pc /\ generation'[g].of = t
             /\ \A h \in Generations \ {g} : generation'[h] = generation[h]
  <2>1. [pc |-> pc, of |-> t] \in Generation
    BY DEF Generation
  <2> QED
    BY <1>0, <1>1, <2>1 DEF Generate
<1>2. ASSUME NEW pc \in {"find", "render", "upsert", "done", "error"},
             NEW t \in Templates \cup {NoTemplate}, Generate(g, pc, t),
             pdf' = pdf \/ pdf' \in Templates, generated' = generated \/ generated' \in Templates,
             pc \in {"render", "upsert"} => t \in Templates,
             pc = "upsert" => pdf' # NoTemplate,
             pc = "done" => generated' # NoTemplate
      PROVE  \A h \in Generations : GenerationOK(h)'
  <2> TAKE h \in Generations
  <2>1. GenerationOK(h)
    OBVIOUS
  <2> QED
    BY <1>0, <1>1, <1>2, <2>1 DEF GenerationOK
<1>3. GenerationOK(g)
  OBVIOUS
<1>4. CASE RetrieveInvoice(g)
  <2>1. /\ Generate(g, "find", NoTemplate) \/ Generate(g, "error", NoTemplate)
        /\ UNCHANGED <<template, pdf, generated>>
    BY <1>4 DEF RetrieveInvoice
  <2> QED
    BY <1>0, <1>1, <1>2, <2>1 DEF Exists
<1>5. CASE FindTemplate(g)
  <2>1. /\ (\E t \in Templates : Generate(g, "render", t)) \/ Generate(g, "error", NoTemplate)
        /\ UNCHANGED <<template, pdf, generated>>
    BY <1>5 DEF FindTemplate
  <2> QED
    BY <1>0, <1>1, <1>2, <2>1 DEF Exists
<1>6. CASE PutPdf(g)
  <2>1. generation[g].of \in Templates
    BY <1>3, <1>6 DEF PutPdf, GenerationOK
  <2>2. /\ \/ pdf' = generation[g].of /\ Generate(g, "upsert", generation[g].of)
           \/ pdf' = pdf /\ Generate(g, "error", NoTemplate)
        /\ UNCHANGED <<template, generated>>
    BY <1>6 DEF PutPdf
  <2> QED
    BY <1>0, <1>1, <1>2, <2>1, <2>2 DEF Exists
<1>7. CASE UpsertGenerated(g)
  <2>1. generation[g].of \in Templates /\ pdf # NoTemplate
    BY <1>3, <1>7 DEF UpsertGenerated, GenerationOK
  <2>2. UNCHANGED <<template, pdf>>
    BY <1>7 DEF UpsertGenerated
  <2>3. CASE generated = NoTemplate /\ ~ Exists(generation[g].of)
    <3>1. generated' = generated /\ Generate(g, "error", NoTemplate)
      BY <1>7, <2>3 DEF UpsertGenerated
    <3> QED
      BY <1>0, <1>1, <1>2, <2>2, <2>3, <3>1
  <2>4. CASE ~ (generated = NoTemplate /\ ~ Exists(generation[g].of))
    <3>1. /\ generated' = IF generated = NoTemplate THEN generation[g].of ELSE generated
          /\ Generate(g, "done", generation[g].of)
      BY <1>7, <2>4 DEF UpsertGenerated
    <3>2. generated' \in Templates /\ pdf' # NoTemplate
      BY <1>0, <2>1, <2>2, <3>1
    <3>3. Exists(generated')
      BY <2>4, <3>1 DEF Exists
    <3>4. \A h \in Generations : GenerationOK(h)'
      BY <1>0, <1>2, <2>1, <2>2, <3>1, <3>2
    <3> QED
      BY <1>0, <1>1, <2>1, <2>2, <3>1, <3>2, <3>3, <3>4 DEF Exists
  <2> QED
    BY <2>3, <2>4
<1> QED
  BY <1>4, <1>5, <1>6, <1>7

LEMMA InvoicesStep == InvoicesInv /\ [InvoicesNext]_invoicesVars => InvoicesInv'
<1> SUFFICES ASSUME InvoicesInv, [InvoicesNext]_invoicesVars PROVE InvoicesInv'
  OBVIOUS
<1>0. /\ InvoicesTypeOK /\ TemplatesInv /\ \A g \in Generations : GenerationOK(g)
      /\ generated # NoTemplate => pdf # NoTemplate /\ Exists(generated)
  BY DEF InvoicesInv, TemplatesInv
<1>t. /\ template \in [Templates -> {"absent", "plain", "default", "deleted"}]
      /\ edit \in [Edits -> EditRequest] /\ generation \in [Generations -> Generation]
      /\ pdf \in Templates \cup {NoTemplate} /\ generated \in Templates \cup {NoTemplate}
      /\ excused \subseteq Excuses
  BY <1>0, InvoicesTypes DEF InvoicesTypeOK
<1>1. ASSUME TemplatesInv', edit' \in [Edits -> EditRequest],
             template' \in [Templates -> {"absent", "plain", "default", "deleted"}],
             excused' \subseteq Excuses, UNCHANGED <<generation, pdf, generated>>,
             \A t \in Templates : Exists(t) /\ t = generated => Exists(t)'
      PROVE  InvoicesInv'
  <2>1. \A g \in Generations : GenerationOK(g)'
    BY <1>0, <1>1 DEF GenerationOK
  <2>2. generated' # NoTemplate => pdf' # NoTemplate /\ Exists(generated)'
    BY <1>0, <1>t, <1>1 DEF Exists
  <2>3. InvoicesTypeOK'
    BY <1>t, <1>1 DEF InvoicesTypeOK, EditRequest, Generation
  <2> QED
    BY <1>1, <2>1, <2>2, <2>3 DEF InvoicesInv, TemplatesInv, Exists
<1>2. ASSUME NEW e \in Edits, StartCreate(e) \/ \E t \in Templates : StartUpdate(e, t) \/ StartDelete(e, t)
      PROVE  InvoicesInv'
  <2>1. UNCHANGED <<template, generation, pdf, generated, excused>>
    BY <1>2 DEF StartCreate, StartUpdate, StartDelete
  <2>2. TemplatesInv' /\ edit' \in [Edits -> EditRequest]
    BY <1>0, <1>2, InvoicesStart
  <2> QED
    BY <1>t, <1>1, <2>1, <2>2 DEF Exists
<1>3. ASSUME NEW e \in Edits, UnsetDefaults(e) PROVE InvoicesInv'
  <2>1. UNCHANGED <<generation, pdf, generated>> /\ excused' \subseteq Excuses
    BY <1>t, <1>3 DEF UnsetDefaults, Excuses
  <2> QED
    BY <1>0, <1>1, <1>3, <2>1, UnsetKeeps
<1>4. ASSUME NEW e \in Edits, CreateTemplate(e) PROVE InvoicesInv'
  <2>1. UNCHANGED <<generation, pdf, generated>> /\ excused' \subseteq Excuses
    BY <1>t, <1>4 DEF CreateTemplate
  <2> QED
    BY <1>0, <1>1, <1>4, <2>1, CreateKeeps
<1>5. ASSUME NEW e \in Edits, UpdateTemplate(e) PROVE InvoicesInv'
  <2>1. UNCHANGED <<generation, pdf, generated>>
    BY <1>5 DEF UpdateTemplate
  <2>2. excused' \subseteq Excuses
    BY <1>0, <1>t, <1>5, UpdateKeeps DEF Excuses
  <2> QED
    BY <1>0, <1>1, <1>5, <2>1, <2>2, UpdateKeeps
<1>6. ASSUME NEW e \in Edits, DeleteTemplate(e) PROVE InvoicesInv'
  <2>1. UNCHANGED <<generation, pdf, generated>>
    BY <1>6 DEF DeleteTemplate
  <2>2. excused' \subseteq Excuses
    BY <1>0, <1>t, <1>6, DeleteKeeps DEF Excuses
  <2> QED
    BY <1>0, <1>1, <1>6, <2>1, <2>2, DeleteKeeps
<1>7. ASSUME NEW g \in Generations,
             RetrieveInvoice(g) \/ FindTemplate(g) \/ PutPdf(g) \/ UpsertGenerated(g)
      PROVE  InvoicesInv'
  <2>1. UNCHANGED <<template, edit, excused>>
    BY <1>7 DEF RetrieveInvoice, FindTemplate, PutPdf, UpsertGenerated
  <2>2. /\ generation' \in [Generations -> Generation]
        /\ pdf' \in Templates \cup {NoTemplate} /\ generated' \in Templates \cup {NoTemplate}
        /\ \A h \in Generations : GenerationOK(h)'
        /\ generated' # NoTemplate => pdf' # NoTemplate /\ Exists(generated')
    BY <1>0, <1>7, GenerationKeeps
  <2>3. TemplatesInv'
    BY <1>0, <2>1 DEF TemplatesInv, EditOK, DefaultOK, Defaults, Between
  <2>4. InvoicesTypeOK'
    BY <1>t, <2>1, <2>2 DEF InvoicesTypeOK, EditRequest, Generation
  <2> QED
    BY <2>1, <2>2, <2>3, <2>4 DEF InvoicesInv, TemplatesInv, Exists
<1>8. CASE UNCHANGED invoicesVars
  <2>1. TemplatesInv'
    BY <1>0, <1>8 DEF invoicesVars, TemplatesInv, EditOK, DefaultOK, Defaults, Between
  <2> QED
    BY <1>t, <1>1, <1>8, <2>1 DEF invoicesVars, Exists
<1> QED
  BY <1>2, <1>3, <1>4, <1>5, <1>6, <1>7, <1>8 DEF InvoicesNext

(* The inductive invariant of branded invoices: what the two statements of the
   requests and of the generations (invoices.service.ts) leave behind them. *)
THEOREM InvoicesInvariance == InvoicesSpec => []InvoicesInv
<1>1. InvoicesInit => InvoicesInv
  <2> SUFFICES ASSUME InvoicesInit PROVE InvoicesInv
    OBVIOUS
  <2>1. FirstTemplate \in Templates /\ FirstTemplate \notin Edits
    BY InvoicesAssumption DEF Templates
  <2>2. Defaults = {FirstTemplate}
    BY <2>1 DEF InvoicesInit, Defaults
  <2>3. \A e \in Edits : EditOK(e) /\ ~ Between(e)
    BY <2>1 DEF InvoicesInit, EditOK, Between, Templates
  <2>4. DefaultOK
    BY <2>2, <2>3 DEF DefaultOK
  <2>5. InvoicesTypeOK
    BY <2>1 DEF InvoicesInit, InvoicesTypeOK, Wishes
  <2> QED
    BY <2>3, <2>4, <2>5 DEF InvoicesInit, InvoicesInv, GenerationOK
<1> QED
  BY <1>1, InvoicesStep, PTL DEF InvoicesSpec

(* Templates, requests, the object and the row keep their types. *)
THEOREM InvoicesTypeCorrect == InvoicesSpec => []InvoicesTypeOK
<1>1. InvoicesInv => InvoicesTypeOK
  BY DEF InvoicesInv
<1> QED
  BY <1>1, InvoicesInvariance, PTL

(* However many requests create, update and delete templates at once, the tenant
   has exactly one default, or one of the reasons named has left it with none or
   with several. *)
THEOREM OneDefault == InvoicesSpec => []DefaultAccounted
<1>1. InvoicesInv => DefaultAccounted
  <2> SUFFICES ASSUME InvoicesInv PROVE DefaultAccounted
    OBVIOUS
  <2>1. CASE "overlap" \in excused
    BY <2>1 DEF DefaultAccounted
  <2>2. CASE "overlap" \notin excused
    BY <2>2 DEF InvoicesInv, DefaultOK, Between, DefaultAccounted
  <2> QED
    BY <2>1, <2>2
<1> QED
  BY <1>1, InvoicesInvariance, PTL

(* The row of a generated invoice always has its object and its template, which
   no request can delete any more, and a generation that succeeded has the row. *)
THEOREM GeneratedHasBacking == InvoicesSpec => []GeneratedIsBacked
<1>1. InvoicesInv => GeneratedIsBacked
  BY DEF InvoicesInv, GenerationOK, GeneratedIsBacked
<1> QED
  BY <1>1, InvoicesInvariance, PTL
-----------------------------------------------------------------------------
\* Dispute evidence.

\* Events change the status, and none follows the one that closed the dispute.
EventsInv ==
  /\ stripe = IF sent = <<>> THEN "none" ELSE sent[Len(sent)]
  /\ \A i \in DOMAIN sent : sent[i] \in Closed => i = Len(sent)
  /\ handled \subseteq DOMAIN sent /\ (dispute = "ABSENT" => handled = {})

\* What the status of the row goes back to.
RowWarranted ==
  /\ dispute \notin {"ABSENT", "OPEN"} =>
       \/ \E i \in handled : dispute = MapStripeStatus(sent[i])
       \/ dispute = "UNDER_REVIEW" /\ evidence # {}
  /\ Len(sent) \in handled /\ ~ stale => dispute = MapStripeStatus(stripe)

\* A request past Stripe has evidence there, one past the bundle has its row.
SubmissionOK(u) ==
  /\ submission[u] \in {"bundle", "status", "done"} => u \in evidence
  /\ submission[u] \in {"status", "done"} => u \in bundles
  /\ u \in bundles => u \in evidence
  /\ u \in evidence \ bundles => submission[u] \in {"bundle", "error"}

DisputesInv ==
  /\ DisputesTypeOK /\ EventsInv /\ RowWarranted
  /\ \A u \in Submissions : SubmissionOK(u)

SubmissionPc == {"idle", "stripe", "bundle", "status", "done", "error"}

LEMMA DisputesTypes ==
  ASSUME DisputesTypeOK
  PROVE  /\ sent \in Seq(StripeStatuses) /\ Len(sent) \in Nat /\ DOMAIN sent = 1..Len(sent)
         /\ Len(sent) <= MaxEvents
         /\ submission \in [Submissions -> SubmissionPc]
BY DEF DisputesTypeOK, SubmissionPc

LEMMA MapRange ==
  ASSUME NEW s
  PROVE  /\ MapStripeStatus(s) \in {"OPEN", "NEEDS_RESPONSE", "UNDER_REVIEW", "WON", "LOST"}
         /\ MapStripeStatus(s) \in {"WON", "LOST"} => s \in Closed
BY DEF MapStripeStatus, Closed

\* Stripe adds an event to those it has sent, and the row is as it was.
LEMMA SentGrows ==
  ASSUME DisputesTypeOK, EventsInv, RowWarranted, stripe \notin Closed,
         Len(sent) < MaxEvents, NEW s \in StripeStatuses, sent' = Append(sent, s), stripe' = s,
         UNCHANGED <<handled, dispute, stale>>, evidence \subseteq evidence'
  PROVE  /\ sent' \in Seq(StripeStatuses) /\ Len(sent') <= MaxEvents
         /\ EventsInv' /\ RowWarranted'
<1>0. sent \in Seq(StripeStatuses) /\ Len(sent) \in Nat /\ DOMAIN sent = 1..Len(sent)
  BY DisputesTypes
<1>1. /\ sent' \in Seq(StripeStatuses) /\ Len(sent') = Len(sent) + 1
      /\ DOMAIN sent' = 1..(Len(sent) + 1) /\ sent'[Len(sent) + 1] = s /\ sent' # <<>>
      /\ \A i \in DOMAIN sent : sent'[i] = sent[i]
  BY <1>0
<1>2. sent # <<>> => sent[Len(sent)] \notin Closed
  BY DEF EventsInv
<1>3. \A i \in DOMAIN sent : sent[i] \notin Closed
  <2> SUFFICES ASSUME NEW i \in DOMAIN sent, sent[i] \in Closed PROVE FALSE
    OBVIOUS
  <2>1. i = Len(sent) /\ sent # <<>>
    BY <1>0 DEF EventsInv
  <2> QED
    BY <1>2, <2>1
<1>4. \A i \in DOMAIN sent' : sent'[i] \in Closed => i = Len(sent')
  BY <1>0, <1>1, <1>3
<1>5. EventsInv'
  BY <1>0, <1>1, <1>4 DEF EventsInv
<1>6. Len(sent') \notin handled'
  BY <1>0, <1>1 DEF EventsInv
<1>7. \A i \in handled : sent'[i] = sent[i]
  BY <1>1 DEF EventsInv
<1>8. RowWarranted'
  BY <1>6, <1>7 DEF RowWarranted
<1> QED
  BY <1>0, <1>1, <1>5, <1>8, DisputesAssumption

LEMMA StripeMovesKeeps ==
  ASSUME DisputesInv, StripeMoves PROVE DisputesInv'
<1>1. PICK s \in StripeStatuses \ {"none", stripe} : stripe' = s /\ sent' = Append(sent, s)
  BY DEF StripeMoves
<1>2. /\ Len(sent) < MaxEvents /\ stripe \notin Closed
      /\ UNCHANGED <<handled, dispute, submission, evidence, bundles, stale>>
  BY DEF StripeMoves
<1>3. /\ sent' \in Seq(StripeStatuses) /\ Len(sent') <= MaxEvents /\ EventsInv' /\ RowWarranted'
  BY <1>1, <1>2, SentGrows DEF DisputesInv
<1>4. DisputesTypeOK'
  BY <1>1, <1>2, <1>3 DEF DisputesInv, DisputesTypeOK
<1> QED
  BY <1>2, <1>3, <1>4 DEF DisputesInv, SubmissionOK

LEMMA HandleCreatedKeeps ==
  ASSUME DisputesInv, HandleCreated PROVE DisputesInv'
<1>1. /\ dispute' = (IF dispute = "ABSENT" THEN "OPEN" ELSE dispute)
      /\ UNCHANGED <<stripe, sent, handled, submission, evidence, bundles, stale>>
  BY DEF HandleCreated
<1>2. DisputesTypeOK' /\ EventsInv'
  BY <1>1 DEF DisputesInv, DisputesTypeOK, EventsInv
<1>3. RowWarranted'
  BY <1>1 DEF DisputesInv, EventsInv, RowWarranted
<1> QED
  BY <1>1, <1>2, <1>3 DEF DisputesInv, SubmissionOK

\* The newest update that was written shows unless an older one comes after it.
LEMMA HandleUpdatedKeeps ==
  ASSUME DisputesInv, NEW i \in 2..MaxEvents, HandleUpdated(i) PROVE DisputesInv'
<1>0. Len(sent) \in Nat /\ DOMAIN sent = 1..Len(sent)
  BY DisputesTypes DEF DisputesInv
<1>1. /\ i \in DOMAIN sent /\ dispute # "ABSENT" /\ dispute' = MapStripeStatus(sent[i])
      /\ handled' = handled \cup {i} /\ stale' = \E j \in handled : j > i
      /\ UNCHANGED <<stripe, sent, submission, evidence, bundles>>
  BY DEF HandleUpdated
<1>2. stale' \in BOOLEAN
  BY <1>1
<1>3. dispute' \in {"OPEN", "NEEDS_RESPONSE", "UNDER_REVIEW", "WON", "LOST"}
  BY <1>1, MapRange
<1>4. DisputesTypeOK'
  BY <1>1, <1>2, <1>3 DEF DisputesInv, DisputesTypeOK
<1>5. EventsInv'
  BY <1>1, <1>3 DEF DisputesInv, EventsInv
<1>6. Len(sent) \in handled' /\ ~ stale' => i = Len(sent)
  <2>1. i <= Len(sent) /\ i \in Nat
    BY <1>0, <1>1
  <2>2. Len(sent) \in handled /\ ~ stale' => ~ (Len(sent) > i)
    BY <1>1
  <2>3. Len(sent) \in handled' => i = Len(sent) \/ Len(sent) \in handled
    BY <1>1
  <2>4. ASSUME NEW n \in Nat, NEW m \in Nat, m <= n PROVE n > m \/ m = n
    BY <2>4
  <2>5. Len(sent) > i \/ i = Len(sent)
    BY <1>0, <2>1, <2>4
  <2> QED
    BY <2>2, <2>3, <2>5
<1>7. i = Len(sent) => dispute' = MapStripeStatus(stripe)
  <2> SUFFICES ASSUME i = Len(sent) PROVE stripe = sent[i]
    BY <1>1
  <2>1. sent # <<>>
    BY <1>0, <1>1
  <2> QED
    BY <2>1 DEF DisputesInv, EventsInv
<1>8. RowWarranted'
  BY <1>1, <1>6, <1>7 DEF RowWarranted
<1> QED
  BY <1>1, <1>4, <1>5, <1>8 DEF DisputesInv, SubmissionOK

LEMMA SubmissionKeeps ==
  ASSUME DisputesInv, NEW u \in Submissions,
         StartSubmission(u) \/ SubmitToStripe(u) \/ CreateBundle(u) \/ MarkUnderReview(u)
  PROVE  DisputesInv'
<1>0. /\ DisputesTypeOK /\ EventsInv /\ RowWarranted
      /\ submission \in [Submissions -> SubmissionPc] /\ \A x \in Submissions : SubmissionOK(x)
      /\ evidence \subseteq Submissions /\ bundles \subseteq Submissions
  BY DisputesTypes DEF DisputesInv, DisputesTypeOK
\* A step of u leaves the other submissions alone.
<1>1. ASSUME NEW pc \in SubmissionPc, submission' = [submission EXCEPT ![u] = pc],
             evidence' \in {evidence, evidence \cup {u}}, bundles' \in {bundles, bundles \cup {u}},
             SubmissionOK(u)'
      PROVE  /\ submission' \in [Submissions -> SubmissionPc]
             /\ evidence' \subseteq Submissions /\ bundles' \subseteq Submissions
             /\ \A x \in Submissions : SubmissionOK(x)'
  BY <1>0, <1>1 DEF SubmissionOK
<1>2. CASE StartSubmission(u) \/ CreateBundle(u)
  <2>1. /\ UNCHANGED <<stripe, sent, handled, dispute, evidence, stale>>
        /\ \E pc \in SubmissionPc : submission' = [submission EXCEPT ![u] = pc]
        /\ bundles' \in {bundles, bundles \cup {u}}
    BY <1>2 DEF StartSubmission, CreateBundle, SubmissionPc
  <2>2. SubmissionOK(u)'
    <3>1. CASE StartSubmission(u)
      BY <1>0, <3>1 DEF StartSubmission, SubmissionOK
    <3>2. CASE CreateBundle(u)
      BY <1>0, <3>2 DEF CreateBundle, SubmissionOK
    <3> QED
      BY <1>2, <3>1, <3>2
  <2>3. /\ submission' \in [Submissions -> SubmissionPc] /\ evidence' \subseteq Submissions
        /\ bundles' \subseteq Submissions /\ \A x \in Submissions : SubmissionOK(x)'
    BY <1>1, <2>1, <2>2
  <2>4. DisputesTypeOK' /\ EventsInv' /\ RowWarranted'
    BY <1>0, <2>1, <2>3 DEF DisputesTypeOK, EventsInv, RowWarranted, SubmissionPc
  <2> QED
    BY <2>3, <2>4 DEF DisputesInv
<1>3. CASE SubmitToStripe(u)
  <2>0. UNCHANGED <<handled, dispute, bundles, stale>> /\ submission[u] = "stripe"
    BY <1>3 DEF SubmitToStripe
  <2>1. CASE submission' = [submission EXCEPT ![u] = "error"] /\ UNCHANGED <<stripe, sent, evidence>>
    <3>1. SubmissionOK(u)'
      BY <1>0, <2>0, <2>1 DEF SubmissionOK
    <3>2. /\ submission' \in [Submissions -> SubmissionPc] /\ \A x \in Submissions : SubmissionOK(x)'
      BY <1>1, <2>0, <2>1, <3>1 DEF SubmissionPc
    <3>3. DisputesTypeOK' /\ EventsInv' /\ RowWarranted'
      BY <1>0, <2>0, <2>1, <3>2 DEF DisputesTypeOK, EventsInv, RowWarranted, SubmissionPc
    <3> QED
      BY <3>2, <3>3 DEF DisputesInv
  <2>2. CASE /\ stripe \notin Closed /\ stripe' = Reviewed(stripe)
             /\ \/ stripe' = stripe /\ sent' = sent
                \/ stripe' # stripe /\ Len(sent) < MaxEvents /\ sent' = Append(sent, stripe')
             /\ evidence' = evidence \cup {u}
             /\ \E pc \in {"bundle", "error"} : submission' = [submission EXCEPT ![u] = pc]
    <3>1. stripe' \in StripeStatuses
      BY <1>0, <2>2 DEF DisputesTypeOK, Reviewed, StripeStatuses
    <3>2. sent' \in Seq(StripeStatuses) /\ Len(sent') <= MaxEvents /\ EventsInv' /\ RowWarranted'
      <4>1. CASE stripe' = stripe /\ sent' = sent
        BY <1>0, <2>0, <2>2, <4>1 DEF DisputesTypeOK, EventsInv, RowWarranted
      <4>2. CASE Len(sent) < MaxEvents /\ sent' = Append(sent, stripe')
        BY <1>0, <2>0, <2>2, <3>1, <4>2, SentGrows
      <4> QED
        BY <2>2, <4>1, <4>2
    <3>3. SubmissionOK(u)'
      BY <1>0, <2>0, <2>2 DEF SubmissionOK
    <3>4. /\ submission' \in [Submissions -> SubmissionPc] /\ evidence' \subseteq Submissions
          /\ \A x \in Submissions : SubmissionOK(x)'
      BY <1>1, <2>0, <2>2, <3>3 DEF SubmissionPc
    <3>5. DisputesTypeOK'
      BY <1>0, <2>0, <3>1, <3>2, <3>4 DEF DisputesTypeOK, SubmissionPc
    <3> QED
      BY <3>2, <3>4, <3>5 DEF DisputesInv
  <2> QED
    BY <1>3, <2>1, <2>2 DEF SubmitToStripe
<1>4. CASE MarkUnderReview(u)
  <2>1. /\ submission[u] = "status" /\ UNCHANGED <<stripe, sent, handled, evidence, bundles>>
        /\ \/ /\ submission' = [submission EXCEPT ![u] = "done"] /\ dispute' = "UNDER_REVIEW"
              /\ stale' = (stale \/ dispute # "UNDER_REVIEW")
           \/ submission' = [submission EXCEPT ![u] = "error"] /\ UNCHANGED <<dispute, stale>>
    BY <1>4 DEF MarkUnderReview
  <2>2. SubmissionOK(u)' /\ u \in evidence
    BY <1>0, <2>1 DEF SubmissionOK
  <2>3. /\ submission' \in [Submissions -> SubmissionPc] /\ \A x \in Submissions : SubmissionOK(x)'
    BY <1>1, <2>1, <2>2 DEF SubmissionPc
  <2>4. EventsInv' /\ RowWarranted' /\ stale' \in BOOLEAN
        /\ dispute' \in {"ABSENT", "OPEN", "NEEDS_RESPONSE", "UNDER_REVIEW", "WON", "LOST"}
    <3>1. CASE UNCHANGED <<dispute, stale>>
      BY <1>0, <2>1, <3>1 DEF EventsInv, RowWarranted, DisputesTypeOK
    <3>2. CASE dispute' = "UNDER_REVIEW" /\ stale' = (stale \/ dispute # "UNDER_REVIEW")
      <4>1. EventsInv' /\ stale' \in BOOLEAN
        BY <1>0, <2>1, <3>2 DEF EventsInv
      <4>2. ~ stale' => ~ stale /\ dispute = dispute'
        BY <3>2
      <4>3. RowWarranted'
        BY <1>0, <2>1, <2>2, <3>2, <4>2 DEF RowWarranted
      <4> QED
        BY <3>2, <4>1, <4>3
    <3> QED
      BY <2>1, <3>1, <3>2
  <2>5. DisputesTypeOK'
    BY <1>0, <2>1, <2>3, <2>4 DEF DisputesTypeOK, SubmissionPc
  <2> QED
    BY <2>3, <2>4, <2>5 DEF DisputesInv
<1> QED
  BY <1>2, <1>3, <1>4

(* The inductive invariant of disputes: what each row, event and submission goes back
   to, however the events are delayed, reordered and repeated (dispute-evidence.service.ts). *)
THEOREM DisputesInvariance == DisputesSpec => []DisputesInv
<1>1. DisputesInit => DisputesInv
  <2> SUFFICES ASSUME DisputesInit PROVE DisputesInv
    OBVIOUS
  <2>1. DisputesTypeOK
    <3>1. sent \in Seq(StripeStatuses) /\ Len(sent) <= MaxEvents
      BY DisputesAssumption DEF DisputesInit
    <3>2. submission \in [Submissions -> {"idle", "stripe", "bundle", "status", "done", "error"}]
      BY DEF DisputesInit
    <3> QED
      BY <3>1, <3>2 DEF DisputesInit, DisputesTypeOK, StripeStatuses
  <2>2. EventsInv /\ RowWarranted
    BY DEF DisputesInit, EventsInv, RowWarranted
  <2>3. \A u \in Submissions : SubmissionOK(u)
    BY DEF DisputesInit, SubmissionOK
  <2> QED
    BY <2>1, <2>2, <2>3 DEF DisputesInv
<1>2. DisputesInv /\ [DisputesNext]_disputesVars => DisputesInv'
  <2> SUFFICES ASSUME DisputesInv, [DisputesNext]_disputesVars PROVE DisputesInv'
    OBVIOUS
  <2>1. CASE UNCHANGED disputesVars
    BY <2>1 DEF disputesVars, DisputesInv, DisputesTypeOK, EventsInv, RowWarranted, SubmissionOK
  <2> QED
    BY <2>1, StripeMovesKeeps, HandleCreatedKeeps, HandleUpdatedKeeps, SubmissionKeeps
       DEF DisputesNext
<1> QED
  BY <1>1, <1>2, PTL DEF DisputesSpec

(* The events, the row, the submissions and Stripe's status keep their types. *)
THEOREM DisputesTypeCorrect == DisputesSpec => []DisputesTypeOK
<1>1. DisputesInv => DisputesTypeOK
  BY DEF DisputesInv
<1> QED
  BY <1>1, DisputesInvariance, PTL

(* For any number of events and submissions: the row says only what Stripe has said
   or done with our evidence, says WON or LOST only of a dispute that ended so, and
   shows the newest update it was given until something older is written over it;
   no evidence that Stripe took is without its bundle but in a failed submission. *)
THEOREM RowIsTrue == DisputesSpec => []RowFollowsStripe
<1>1. DisputesInv => RowFollowsStripe
  <2> SUFFICES ASSUME DisputesInv PROVE RowFollowsStripe
    OBVIOUS
  <2>1. dispute \in {"WON", "LOST"} => dispute = MapStripeStatus(stripe)
    <3> SUFFICES ASSUME dispute \in {"WON", "LOST"} PROVE dispute = MapStripeStatus(stripe)
      OBVIOUS
    <3>1. PICK i \in handled : dispute = MapStripeStatus(sent[i])
      BY DEF DisputesInv, RowWarranted
    <3>2. i \in DOMAIN sent /\ i = Len(sent)
      BY <3>1, MapRange DEF DisputesInv, EventsInv
    <3>3. stripe = sent[i]
      BY <3>2, DisputesTypes DEF DisputesInv, EventsInv
    <3> QED
      BY <3>1, <3>3
  <2>2. EvidenceAccounted
    BY DEF DisputesInv, DisputesTypeOK, SubmissionOK, EvidenceAccounted
  <2> QED
    BY <2>1, <2>2 DEF DisputesInv, RowWarranted, RowFollowsStripe
<1> QED
  BY <1>1, DisputesInvariance, PTL
-----------------------------------------------------------------------------
\* The cancellation save-flow.

\* What a report has read of an offer of the tenant that neither came nor went since it began.
ReportOK(r) ==
  LET p == report[r] IN
  /\ p.todo # {} => p.pc = "reading"
  /\ \A o \in Offers \ (Foreign \cup churned[r]) :
       /\ p.pc = "reading" =>
            /\ "groups" \notin p.todo /\ o \in p.groups => o \in Listed
            /\ "offers" \notin p.todo => (o \in p.offers <=> o \in Listed)
       /\ p.pc = "answered" /\ o \in p.groups => o \in p.offers

SaveFlowInv ==
  /\ SaveFlowTypeOK
  /\ \A a \in attempts : a.offer \in Stored \cup {NoOffer}
  /\ \A r \in Reports : ReportOK(r)
  /\ OutcomeKept

States == {"absent", "active", "inactive", "deleted"}
Change == [pc : {"idle", "update", "delete", "done", "error"}, of : Offers \cup {NoOffer}]
Visit == [pc : {"away", "shown", "thanked", "failed"}, offer : Offers \cup {NoOffer},
          posts : 0..MaxPosts]
Report == [pc : {"idle", "reading", "answered"}, todo : SUBSET {"groups", "offers"},
           groups : SUBSET Offers, offers : SUBSET Offers]

LEMMA SaveFlowTypes ==
  SaveFlowTypeOK <=>
    /\ offer \in [Offers -> States] /\ change \in [Changes -> Change]
    /\ visit \in [Visits -> Visit] /\ attempts \subseteq Attempt
    /\ report \in [Reports -> Report] /\ churned \in [Reports -> SUBSET Offers]
BY DEF SaveFlowTypeOK, States, Change, Visit, Report

\* Reports are left alone by a step that keeps the list of offers.
LEMMA ReportsKept ==
  ASSUME SaveFlowInv, report' = report, churned' = churned, Listed' = Listed
  PROVE  \A r \in Reports : ReportOK(r)'
BY DEF SaveFlowInv, ReportOK

\* An offer that comes or goes is counted in every report that is being read.
LEMMA ReportsChurned ==
  ASSUME SaveFlowInv, NEW o \in Offers, report' = report, churned' = Churn(o),
         \A x \in Offers \ {o} : x \in Listed' <=> x \in Listed
  PROVE  churned' \in [Reports -> SUBSET Offers] /\ \A r \in Reports : ReportOK(r)'
<1>1. churned' \in [Reports -> SUBSET Offers]
  BY DEF Churn, SaveFlowInv, SaveFlowTypeOK
<1>2. ASSUME NEW r \in Reports PROVE ReportOK(r)'
  <2>1. ReportOK(r)
    BY DEF SaveFlowInv
  <2>2. CASE report[r].pc = "reading"
    <3>1. churned'[r] = churned[r] \cup {o}
      BY <2>2 DEF Churn
    <3> QED
      BY <2>1, <2>2, <3>1 DEF ReportOK
  <2>3. CASE report[r].pc # "reading"
    <3>1. churned'[r] = churned[r]
      BY <2>3 DEF Churn
    <3> QED
      BY <2>1, <2>3, <3>1 DEF ReportOK
  <2> QED
    BY <2>2, <2>3
<1> QED
  BY <1>1, <1>2

\* Visits and attempts are kept by a step that takes no offer away.
LEMMA OffersKept ==
  ASSUME SaveFlowInv, UNCHANGED <<visit, attempts>>, Stored \subseteq Stored',
         \A o \in Offers : offer[o] = "deleted" => offer'[o] = "deleted"
  PROVE  /\ \A a \in attempts' : a.offer \in Stored' \cup {NoOffer}
         /\ OutcomeKept'
<1>1. \A v \in Visits : visit[v].offer \in Offers \cup {NoOffer}
  BY SaveFlowTypes DEF SaveFlowInv, Visit
<1>2. \A a \in attempts' : a.offer \in Stored' \cup {NoOffer}
  BY DEF SaveFlowInv
<1>3. OutcomeKept'
  BY <1>1 DEF SaveFlowInv, OutcomeKept
<1> QED
  BY <1>2, <1>3

LEMMA MerchantKeeps ==
  ASSUME SaveFlowInv,
         (\E o \in Offers : CreateOffer(o)) \/ \E c \in Changes : FindOffer(c) \/ UpdateOffer(c)
  PROVE  SaveFlowInv'
<1>0. /\ offer \in [Offers -> States] /\ change \in [Changes -> Change]
      /\ visit \in [Visits -> Visit] /\ attempts \subseteq Attempt
      /\ report \in [Reports -> Report] /\ churned \in [Reports -> SUBSET Offers]
  BY SaveFlowTypes DEF SaveFlowInv
<1>1. ASSUME NEW o \in Offers, CreateOffer(o) PROVE SaveFlowInv'
  <2>1. PICK s \in {"active", "inactive"} : offer' = [offer EXCEPT ![o] = s]
    BY <1>1 DEF CreateOffer
  <2>2. offer[o] = "absent" /\ churned' = Churn(o) /\ UNCHANGED <<change, visit, attempts, report>>
    BY <1>1 DEF CreateOffer
  <2>3. /\ offer' \in [Offers -> States] /\ Stored \subseteq Stored'
        /\ \A x \in Offers : offer[x] = "deleted" => offer'[x] = "deleted"
        /\ \A x \in Offers \ {o} : x \in Listed' <=> x \in Listed
    BY <1>0, <2>1, <2>2 DEF States, Stored, Listed
  <2>4. churned' \in [Reports -> SUBSET Offers] /\ \A r \in Reports : ReportOK(r)'
    BY <2>2, <2>3, ReportsChurned
  <2>5. SaveFlowTypeOK'
    BY <1>0, <2>2, <2>3, <2>4 DEF SaveFlowTypeOK, States, Change, Visit, Report
  <2> QED
    BY <2>2, <2>3, <2>4, <2>5, OffersKept DEF SaveFlowInv
<1>2. ASSUME NEW c \in Changes, FindOffer(c) PROVE SaveFlowInv'
  <2>1. UNCHANGED <<offer, visit, attempts, report, churned>> /\ Listed' = Listed /\ Stored' = Stored
    BY <1>2 DEF FindOffer, Stored, Listed
  <2>2. PICK o \in Stored, pc \in {"update", "delete"} :
          change' = [change EXCEPT ![c] = [pc |-> pc, of |-> o]]
    BY <1>2 DEF FindOffer
  <2>3. change' \in [Changes -> Change]
    <3>1. [pc |-> pc, of |-> o] \in Change
      BY DEF Change, Stored
    <3> QED
      BY <1>0, <2>2, <3>1
  <2>4. SaveFlowTypeOK'
    BY <1>0, <2>1, <2>3 DEF SaveFlowTypeOK, States, Change, Visit, Report
  <2> QED
    BY <2>1, <2>4, ReportsKept, OffersKept DEF SaveFlowInv
<1>3. ASSUME NEW c \in Changes, UpdateOffer(c) PROVE SaveFlowInv'
  <2>1. UNCHANGED <<visit, attempts, report, churned>>
    BY <1>3 DEF UpdateOffer
  <2>2. PICK pc \in {"done", "error"} : change' = [change EXCEPT ![c].pc = pc]
    BY <1>3 DEF UpdateOffer, ChangeTo
  <2>3. change' \in [Changes -> Change]
    BY <1>0, <2>2 DEF Change
  <2>4. /\ offer' \in [Offers -> States] /\ Stored' = Stored
        /\ \A x \in Offers : offer[x] = "deleted" => offer'[x] = "deleted"
    <3>1. CASE change[c].of \in Stored
      <4>1. PICK s \in {"active", "inactive"} : offer' = [offer EXCEPT ![change[c].of] = s]
        BY <1>3, <3>1 DEF UpdateOffer
      <4> QED
        BY <1>0, <3>1, <4>1 DEF States, Stored
    <3>2. CASE change[c].of \notin Stored
      BY <1>0, <1>3, <3>2 DEF UpdateOffer, Stored
    <3> QED
      BY <3>1, <3>2
  <2>5. Listed' = Listed
    BY <2>4 DEF Listed
  <2>6. SaveFlowTypeOK'
    BY <1>0, <2>1, <2>3, <2>4 DEF SaveFlowTypeOK, States, Change, Visit, Report
  <2> QED
    BY <2>1, <2>4, <2>5, <2>6, ReportsKept, OffersKept DEF SaveFlowInv
<1> QED
  BY <1>1, <1>2, <1>3

\* The foreign key of the attempts is set to null with the offer.
LEMMA DeleteOfferKeeps ==
  ASSUME SaveFlowInv, NEW c \in Changes, DeleteOffer(c) PROVE SaveFlowInv'
<1> DEFINE o == change[c].of
<1>0. /\ offer \in [Offers -> States] /\ change \in [Changes -> Change]
      /\ visit \in [Visits -> Visit] /\ attempts \subseteq Attempt
      /\ report \in [Reports -> Report] /\ churned \in [Reports -> SUBSET Offers]
  BY SaveFlowTypes DEF SaveFlowInv
<1>1. UNCHANGED <<visit, report>>
  BY DEF DeleteOffer
<1>2. \E pc \in {"done", "error"} : change' = [change EXCEPT ![c].pc = pc]
  BY DEF DeleteOffer, ChangeTo
<1>3. change' \in [Changes -> Change]
  BY <1>0, <1>2 DEF Change
<1>4. CASE o \notin Stored
  <2>1. UNCHANGED <<offer, attempts, churned>> /\ Listed' = Listed /\ Stored' = Stored
    BY <1>4 DEF DeleteOffer, Stored, Listed
  <2>2. SaveFlowTypeOK'
    BY <1>0, <1>1, <1>3, <2>1 DEF SaveFlowTypeOK, States, Change, Visit, Report
  <2> QED
    BY <1>1, <2>1, <2>2, ReportsKept, OffersKept DEF SaveFlowInv
<1>5. CASE o \in Stored
  <2> DEFINE Nulled(a) == [a EXCEPT !.offer = IF a.offer = o THEN NoOffer ELSE a.offer]
  <2>1. /\ offer' = [offer EXCEPT ![o] = "deleted"]
        /\ attempts' = {Nulled(a) : a \in attempts}
        /\ churned' = Churn(o)
    BY <1>5 DEF DeleteOffer
  <2>2. o \in Offers
    BY <1>5 DEF Stored
  <2>3. \A a \in attempts : /\ Nulled(a) \in Attempt
                            /\ Nulled(a).visit = a.visit /\ Nulled(a).post = a.post
                            /\ Nulled(a).offer = IF a.offer = o THEN NoOffer ELSE a.offer
    BY <1>0 DEF Attempt
  <2> HIDE DEF o, Nulled
  <2>4. /\ offer' \in [Offers -> States] /\ offer'[o] = "deleted"
        /\ \A x \in Offers \ {o} : offer'[x] = offer[x]
    BY <1>0, <2>1, <2>2 DEF States
  <2>5. Stored \subseteq Stored' \cup {o} /\ \A x \in Offers \ {o} : x \in Listed' <=> x \in Listed
    BY <2>4 DEF Stored, Listed
  <2>6. attempts' \subseteq Attempt /\ \A a \in attempts' : a.offer \in Stored' \cup {NoOffer}
    BY <2>1, <2>3, <2>5 DEF SaveFlowInv
  <2>7. churned' \in [Reports -> SUBSET Offers] /\ \A r \in Reports : ReportOK(r)'
    BY <1>1, <2>1, <2>2, <2>5, ReportsChurned
  <2>8. SaveFlowTypeOK'
    BY <1>0, <1>1, <1>3, <2>4, <2>6, <2>7 DEF SaveFlowTypeOK, States, Change, Visit, Report
  <2>9. \A v \in Visits : visit[v].offer \in Offers \cup {NoOffer}
    BY <1>0 DEF Visit
  <2>10. ASSUME NEW v \in Visits, visit[v].pc = "thanked"
         PROVE  \E a \in attempts' :
                  /\ a.visit = v /\ a.post = visit[v].posts
                  /\ \/ a.offer = visit[v].offer
                     \/ visit[v].offer # NoOffer /\ offer'[visit[v].offer] = "deleted" /\ a.offer = NoOffer
    <3>1. PICK a \in attempts :
                 /\ a.visit = v /\ a.post = visit[v].posts
                 /\ \/ a.offer = visit[v].offer
                    \/ visit[v].offer # NoOffer /\ offer[visit[v].offer] = "deleted" /\ a.offer = NoOffer
      BY <2>10 DEF SaveFlowInv, OutcomeKept
    <3>2. Nulled(a) \in attempts' /\ Nulled(a).visit = v /\ Nulled(a).post = visit[v].posts
      BY <2>1, <2>3, <3>1
    <3>3. CASE a.offer = visit[v].offer
      <4>1. CASE a.offer = o
        <5>1. Nulled(a).offer = NoOffer
          BY <2>3, <4>1
        <5>2. Nulled(a).offer = visit[v].offer \/ (visit[v].offer # NoOffer /\ offer'[visit[v].offer] = "deleted")
          BY <2>4, <3>3, <4>1, <5>1
        <5> QED
          BY <3>2, <5>1, <5>2
      <4>2. CASE a.offer # o
        <5>1. Nulled(a).offer = visit[v].offer
          BY <2>3, <3>3, <4>2
        <5> QED
          BY <3>2, <5>1
      <4> QED
        BY <4>1, <4>2
    <3>4. CASE visit[v].offer # NoOffer /\ offer[visit[v].offer] = "deleted" /\ a.offer = NoOffer
      <4>1. Nulled(a).offer = NoOffer
        BY <2>3, <3>4
      <4>2. offer'[visit[v].offer] = "deleted"
        BY <2>4, <2>9, <3>4
      <4> QED
        BY <3>2, <3>4, <4>1, <4>2
    <3> QED
      BY <3>1, <3>3, <3>4
  <2>11. OutcomeKept'
    BY <1>1, <2>10 DEF OutcomeKept
  <2> QED
    BY <2>6, <2>7, <2>8, <2>11 DEF SaveFlowInv
<1> QED
  BY <1>4, <1>5

LEMMA WidgetKeeps ==
  ASSUME SaveFlowInv, NEW v \in Visits, GetOffer(v) \/ RecordOutcome(v) \/ OutcomeRefused(v)
  PROVE  SaveFlowInv'
<1>0. /\ offer \in [Offers -> States] /\ change \in [Changes -> Change]
      /\ visit \in [Visits -> Visit] /\ attempts \subseteq Attempt
      /\ report \in [Reports -> Report] /\ churned \in [Reports -> SUBSET Offers]
      /\ visit[v] \in Visit
  BY SaveFlowTypes DEF SaveFlowInv
<1>1. UNCHANGED <<offer, change, report, churned>> /\ Listed' = Listed /\ Stored' = Stored
  BY DEF GetOffer, RecordOutcome, OutcomeRefused, Stored, Listed
<1>2. \A r \in Reports : ReportOK(r)'
  BY <1>1, ReportsKept
\* What is left to show of the visit, its attempts and those of the others.
<1>3. ASSUME NEW w \in Visit, visit' = [visit EXCEPT ![v] = w],
             attempts \subseteq attempts', attempts' \subseteq Attempt,
             \A a \in attempts' : a.offer \in Stored \cup {NoOffer},
             w.pc = "thanked" => \E a \in attempts' : a.visit = v /\ a.post = w.posts /\ a.offer = w.offer
      PROVE  SaveFlowInv'
  <2>1. /\ visit' \in [Visits -> Visit] /\ visit'[v] = w
        /\ \A x \in Visits \ {v} : visit'[x] = visit[x]
    BY <1>0, <1>3
  <2>2. SaveFlowTypeOK'
    BY <1>0, <1>1, <1>3, <2>1 DEF SaveFlowTypeOK, States, Change, Visit, Report
  <2>3. OutcomeKept'
    <3>1. ASSUME NEW x \in Visits, visit'[x].pc = "thanked"
          PROVE  \E a \in attempts' :
                   /\ a.visit = x /\ a.post = visit'[x].posts
                   /\ \/ a.offer = visit'[x].offer
                      \/ visit'[x].offer # NoOffer /\ offer'[visit'[x].offer] = "deleted"
                         /\ a.offer = NoOffer
      <4>1. CASE x = v
        BY <1>3, <2>1, <3>1, <4>1
      <4>2. CASE x # v
        BY <1>1, <1>3, <2>1, <3>1, <4>2 DEF SaveFlowInv, OutcomeKept
      <4> QED
        BY <4>1, <4>2
    <3> QED
      BY <3>1 DEF OutcomeKept
  <2> QED
    BY <1>1, <1>2, <1>3, <2>2, <2>3 DEF SaveFlowInv
<1>4. CASE GetOffer(v)
  <2>1. attempts' = attempts
    BY <1>4 DEF GetOffer
  <2>2. PICK o \in Offers \cup {NoOffer} : visit' = [visit EXCEPT ![v].pc = "shown", ![v].offer = o]
    BY <1>4 DEF GetOffer, Listed, Stored
  <2> DEFINE w == [visit[v] EXCEPT !.pc = "shown", !.offer = o]
  <2>3. visit' = [visit EXCEPT ![v] = w] /\ w \in Visit /\ w.pc = "shown"
    BY <1>0, <2>2 DEF Visit
  <2> HIDE DEF w
  <2> QED
    BY <1>0, <1>3, <2>1, <2>3 DEF SaveFlowInv
\* A post: the number of posts stays below its bound.
<1>5. ASSUME NEW pc \in {"thanked", "failed"}, NEW o \in Offers \cup {NoOffer},
             visit[v].posts < MaxPosts, Posts(v, pc, o)
      PROVE  LET w == [pc |-> pc, offer |-> o, posts |-> visit[v].posts + 1] IN
             /\ w \in Visit /\ visit' = [visit EXCEPT ![v] = w]
             /\ visit[v].posts + 1 \in 1..MaxPosts
  <2>1. visit[v].posts \in 0..MaxPosts
    BY <1>0 DEF Visit
  <2>2. visit[v].posts + 1 \in 0..MaxPosts /\ visit[v].posts + 1 \in 1..MaxPosts
    BY <1>5, <2>1, SaveFlowAssumption
  <2> QED
    BY <1>5, <2>2 DEF Posts, Visit
<1>6. CASE RecordOutcome(v)
  <2>1. PICK o \in Stored \cup {NoOffer}, pc \in {"thanked", "failed"} :
          /\ attempts' = attempts \cup {[visit |-> v, post |-> visit[v].posts + 1, offer |-> o]}
          /\ Posts(v, pc, o)
    BY <1>6 DEF RecordOutcome
  <2> DEFINE n == visit[v].posts + 1
             w == [pc |-> pc, offer |-> o, posts |-> n]
             a == [visit |-> v, post |-> n, offer |-> o]
  <2>2. visit[v].posts < MaxPosts /\ o \in Offers \cup {NoOffer}
    BY <1>6 DEF RecordOutcome, Stored
  <2>3. w \in Visit /\ visit' = [visit EXCEPT ![v] = w] /\ n \in 1..MaxPosts
    BY <1>5, <2>1, <2>2
  <2> HIDE DEF n
  <2>4. a \in Attempt
    BY <2>2, <2>3 DEF Attempt
  <2>5. attempts' = attempts \cup {a}
    BY <2>1 DEF n
  <2>6. /\ a.visit = v /\ a.post = n /\ a.offer = o
        /\ w.posts = n /\ w.offer = o
    OBVIOUS
  <2> HIDE DEF a, w
  <2>7. \A b \in attempts' : b.offer \in Stored \cup {NoOffer}
    BY <2>1, <2>5, <2>6 DEF SaveFlowInv
  <2> QED
    BY <1>0, <1>3, <2>3, <2>4, <2>5, <2>6, <2>7
<1>7. CASE OutcomeRefused(v)
  <2> DEFINE w == [pc |-> "failed", offer |-> visit[v].offer, posts |-> visit[v].posts + 1]
  <2>1. attempts' = attempts /\ visit[v].posts < MaxPosts /\ Posts(v, "failed", visit[v].offer)
    BY <1>7 DEF OutcomeRefused
  <2>2. visit[v].offer \in Offers \cup {NoOffer}
    BY <1>0 DEF Visit
  <2>3. w \in Visit /\ visit' = [visit EXCEPT ![v] = w]
    BY <1>5, <2>1, <2>2
  <2>4. w.pc = "failed"
    OBVIOUS
  <2> HIDE DEF w
  <2> QED
    BY <1>0, <1>3, <2>1, <2>3, <2>4 DEF SaveFlowInv
<1> QED
  BY <1>4, <1>6, <1>7

LEMMA ReportKeeps ==
  ASSUME SaveFlowInv, NEW r \in Reports,
         StartReport(r) \/ ReadGroups(r) \/ ReadOffers(r) \/ AnswerReport(r)
  PROVE  SaveFlowInv'
<1>0. /\ offer \in [Offers -> States] /\ change \in [Changes -> Change]
      /\ visit \in [Visits -> Visit] /\ attempts \subseteq Attempt
      /\ report \in [Reports -> Report] /\ churned \in [Reports -> SUBSET Offers]
      /\ report[r] \in Report /\ ReportOK(r)
  BY SaveFlowTypes DEF SaveFlowInv
<1>1. UNCHANGED <<offer, change, visit, attempts, churned>> /\ Listed' = Listed /\ Stored' = Stored
  BY DEF StartReport, ReadGroups, ReadOffers, AnswerReport, Stored, Listed
<1>2. ASSUME NEW p \in Report, report' = [report EXCEPT ![r] = p], ReportOK(r)' PROVE SaveFlowInv'
  <2>1. report' \in [Reports -> Report] /\ \A x \in Reports \ {r} : report'[x] = report[x]
    BY <1>0, <1>2
  <2>2. SaveFlowTypeOK'
    BY <1>0, <1>1, <2>1 DEF SaveFlowTypeOK, States, Change, Visit, Report
  <2>3. \A x \in Reports : ReportOK(x)'
    BY <1>1, <1>2, <2>1 DEF SaveFlowInv, ReportOK
  <2> QED
    BY <1>1, <2>2, <2>3, OffersKept DEF SaveFlowInv
<1>3. CASE StartReport(r)
  <2> DEFINE p == [report[r] EXCEPT !.pc = "reading", !.todo = {"groups", "offers"}]
  <2>1. report' = [report EXCEPT ![r] = p] /\ p \in Report /\ p.pc = "reading"
        /\ p.todo = {"groups", "offers"}
    BY <1>0, <1>3 DEF StartReport, Report
  <2>2. report'[r].pc = "reading" /\ report'[r].todo = {"groups", "offers"}
    BY <1>0, <2>1
  <2>3. ReportOK(r)'
    BY <2>2 DEF ReportOK
  <2> QED
    BY <1>2, <2>1, <2>3
<1>4. CASE ReadGroups(r)
  <2> DEFINE G == {a.offer : a \in attempts} \ {NoOffer}
             p == [report[r] EXCEPT !.todo = report[r].todo \ {"groups"}, !.groups = G]
  <2>1. G \subseteq Offers /\ \A o \in G : o \in Foreign \/ o \in Listed
    BY DEF SaveFlowInv, Stored, Listed
  <2>2. report' = [report EXCEPT ![r] = p]
    BY <1>4 DEF ReadGroups
  <2> HIDE DEF G
  <2>3. /\ p \in Report /\ p.todo = report[r].todo \ {"groups"} /\ p.groups = G
        /\ p.offers = report[r].offers /\ p.pc = report[r].pc
    BY <1>0, <2>1 DEF Report
  <2>4. report[r].pc = "reading"
    BY <1>0, <1>4 DEF ReadGroups, ReportOK
  <2>5. /\ report'[r].todo = report[r].todo \ {"groups"} /\ report'[r].groups = G
        /\ report'[r].offers = report[r].offers /\ report'[r].pc = "reading"
    BY <1>0, <2>2, <2>3, <2>4
  <2>6. ReportOK(r)'
    BY <1>0, <1>1, <2>1, <2>4, <2>5 DEF ReportOK
  <2> QED
    BY <1>2, <2>2, <2>3, <2>6
<1>5. CASE ReadOffers(r)
  <2> DEFINE p == [report[r] EXCEPT !.todo = report[r].todo \ {"offers"}, !.offers = Listed]
  <2>1. Listed \subseteq Offers
    BY DEF Stored, Listed
  <2>2. report' = [report EXCEPT ![r] = p]
    BY <1>5 DEF ReadOffers
  <2>3. /\ p \in Report /\ p.todo = report[r].todo \ {"offers"} /\ p.offers = Listed
        /\ p.groups = report[r].groups /\ p.pc = report[r].pc
    BY <1>0, <2>1 DEF Report
  <2>4. report[r].pc = "reading"
    BY <1>0, <1>5 DEF ReadOffers, ReportOK
  <2>5. /\ report'[r].todo = report[r].todo \ {"offers"} /\ report'[r].offers = Listed
        /\ report'[r].groups = report[r].groups /\ report'[r].pc = "reading"
    BY <1>0, <2>2, <2>3, <2>4
  <2>6. ReportOK(r)'
    BY <1>0, <1>1, <2>4, <2>5 DEF ReportOK
  <2> QED
    BY <1>2, <2>2, <2>3, <2>6
<1>6. CASE AnswerReport(r)
  <2> DEFINE p == [report[r] EXCEPT !.pc = "answered"]
  <2>1. report[r].pc = "reading" /\ report[r].todo = {} /\ report' = [report EXCEPT ![r] = p]
    BY <1>6 DEF AnswerReport
  <2>2. /\ p \in Report /\ p.pc = "answered" /\ p.todo = {} /\ p.groups = report[r].groups
        /\ p.offers = report[r].offers
    BY <1>0, <2>1 DEF Report
  <2>3. /\ report'[r].pc = "answered" /\ report'[r].todo = {}
        /\ report'[r].groups = report[r].groups /\ report'[r].offers = report[r].offers
    BY <1>0, <2>1, <2>2
  <2>4. ReportOK(r)'
    BY <1>0, <1>1, <2>1, <2>3 DEF ReportOK
  <2> QED
    BY <1>2, <2>1, <2>2, <2>4
<1> QED
  BY <1>3, <1>4, <1>5, <1>6

(* The inductive invariant of the save-flow: attempts name offers that are there
   or none, and of an offer that neither came nor went a report reads one state. *)
THEOREM SaveFlowInvariance == SaveFlowSpec => []SaveFlowInv
<1>1. SaveFlowInit => SaveFlowInv
  <2> SUFFICES ASSUME SaveFlowInit PROVE SaveFlowInv
    OBVIOUS
  <2>1. SaveFlowTypeOK
    BY SaveFlowAssumption DEF SaveFlowInit, SaveFlowTypeOK
  <2>2. \A r \in Reports : ReportOK(r)
    BY DEF SaveFlowInit, ReportOK
  <2> QED
    BY <2>1, <2>2 DEF SaveFlowInit, SaveFlowInv, OutcomeKept
<1>2. SaveFlowInv /\ [SaveFlowNext]_saveFlowVars => SaveFlowInv'
  <2> SUFFICES ASSUME SaveFlowInv, [SaveFlowNext]_saveFlowVars PROVE SaveFlowInv'
    OBVIOUS
  <2>1. CASE UNCHANGED saveFlowVars
    BY <2>1 DEF saveFlowVars, SaveFlowInv, SaveFlowTypeOK, ReportOK, OutcomeKept, Stored, Listed
  <2> QED
    BY <2>1, MerchantKeeps, DeleteOfferKeeps, WidgetKeeps, ReportKeeps DEF SaveFlowNext
<1> QED
  BY <1>1, <1>2, PTL DEF SaveFlowSpec

(* Offers, requests, visits, attempts and reports keep their types. *)
THEOREM SaveFlowTypeCorrect == SaveFlowSpec => []SaveFlowTypeOK
<1>1. SaveFlowInv => SaveFlowTypeOK
  BY DEF SaveFlowInv
<1> QED
  BY <1>1, SaveFlowInvariance, PTL

(* A report names an offer it does not know only if that offer came or went while
   its two queries ran, in whichever order these are answered, or is another
   tenant's, whose id a post has named. *)
THEOREM UnknownHasReason == SaveFlowSpec => []UnknownNeedsChurn
<1>1. SaveFlowInv => UnknownNeedsChurn
  <2> SUFFICES ASSUME SaveFlowInv, NEW r \in Reports, report[r].pc = "answered",
                      NEW o \in report[r].groups, o \notin report[r].offers
               PROVE  o \in Foreign \cup churned[r]
    BY DEF UnknownNeedsChurn
  <2>1. o \in Offers /\ ReportOK(r)
    BY SaveFlowTypes DEF SaveFlowInv, Report
  <2> QED
    BY <2>1 DEF ReportOK
<1> QED
  BY <1>1, SaveFlowInvariance, PTL

(* An outcome the customer was thanked for is never lost, whatever offer was posted
   with it, whatever posts failed before it and whatever is deleted after it. *)
THEOREM OutcomeIsKept == SaveFlowSpec => []OutcomeKept
<1>1. SaveFlowInv => OutcomeKept
  BY DEF SaveFlowInv
<1> QED
  BY <1>1, SaveFlowInvariance, PTL

-----------------------------------------------------------------------------
\* The parts together.

LEMMA PartsStart ==
  Init => InvoicesInit /\ DisputesInit /\ SaveFlowInit /\ DemoInit /\ PagesInit
BY DEF Init

\* A step of one part leaves the others as they are.
LEMMA PartsStep ==
  [Next]_<<part, invoicesVars, disputesVars, saveFlowVars, demoVars, pagesVars>> =>
    /\ [InvoicesNext]_invoicesVars /\ [DisputesNext]_disputesVars
    /\ [SaveFlowNext]_saveFlowVars /\ [DemoNext]_demoVars /\ [PagesNext]_pagesVars
<1> SUFFICES ASSUME [Next]_<<part, invoicesVars, disputesVars, saveFlowVars, demoVars, pagesVars>>
             PROVE /\ [InvoicesNext]_invoicesVars /\ [DisputesNext]_disputesVars
                   /\ [SaveFlowNext]_saveFlowVars /\ [DemoNext]_demoVars /\ [PagesNext]_pagesVars
  OBVIOUS
<1>1. \/ InvoicesNext /\ UNCHANGED <<disputesVars, saveFlowVars, demoVars, pagesVars>>
      \/ DisputesNext /\ UNCHANGED <<invoicesVars, saveFlowVars, demoVars, pagesVars>>
      \/ SaveFlowNext /\ UNCHANGED <<invoicesVars, disputesVars, demoVars, pagesVars>>
      \/ DemoNext /\ UNCHANGED <<invoicesVars, disputesVars, saveFlowVars, pagesVars>>
      \/ PagesNext /\ UNCHANGED <<invoicesVars, disputesVars, saveFlowVars, demoVars>>
      \/ UNCHANGED <<invoicesVars, disputesVars, saveFlowVars, demoVars, pagesVars>>
  BY DEF Next
<1> QED
  BY <1>1

(* Invoices, disputes, the save-flow, the demo data and the pages run side by side
   as each of them runs alone: no step of one is a step of another. *)
LEMMA PartsRunAsAlone ==
  Spec => InvoicesSpec /\ DisputesSpec /\ SaveFlowSpec /\ DemoSpec /\ PagesSpec
BY PartsStart, PartsStep, PTL
   DEF Spec, InvoicesSpec, DisputesSpec, SaveFlowSpec, DemoSpec, PagesSpec

(* In the system of the five parts every variable holds a value of its kind. *)
THEOREM PartsTypeCorrect == Spec => []TypeOK
<1>1. InvoicesTypeOK /\ DisputesTypeOK /\ SaveFlowTypeOK /\ DemoTypeOK /\ PagesTypeOK => TypeOK
  BY DEF TypeOK
<1> QED
  BY <1>1, PartsRunAsAlone, InvoicesTypeCorrect, DisputesTypeCorrect, SaveFlowTypeCorrect,
     DemoTypeCorrect, PagesTypeCorrect, PTL

(* What is proved of a part alone holds of it in the system: the templates, the
   evidence, the save-flow's outcomes, the demo data and the pages keep the
   promises the run checks of them. *)
THEOREM PartsKeepPromises ==
  Spec => []( /\ DefaultAccounted /\ GeneratedIsBacked /\ RowFollowsStripe
              /\ UnknownNeedsChurn /\ OutcomeKept
              /\ SucceededIsWhole /\ FailedHasReason /\ SeedsNeverDouble
              /\ OwnChangeIsShown )
BY PartsRunAsAlone, OneDefault, GeneratedHasBacking, RowIsTrue, UnknownHasReason, OutcomeIsKept,
   SuccessIsWhole, FailureHasReason, SeedsMakeNoDoubles, OwnChangeShows, PTL
=============================================================================

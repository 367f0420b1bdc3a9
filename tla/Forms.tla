------------------------------- MODULE Forms -------------------------------
(***************************************************************************)
(* The forms of the portal, native or of Google, and what employees submit *)
(* (forms/forms.service.ts). Each handler reads the form, checks, and      *)
(* writes by identifier in a transaction afterwards.                       *)
(*                                                                         *)
(* A schema is a function from the names of its fields; the data of a      *)
(* submission gives each field a class of value, as the field sees it.     *)
(***************************************************************************)
EXTENDS Naturals, FiniteSets

CONSTANTS
    FormIds,
    Submissions,  \* identifiers of submissions
    Handlers,     \* concurrent requests
    Schemas,      \* the schemas that pass validateFormSchema
    Data,         \* what may be submitted
    MaxUpdates,   \* bound on the updates of forms
    None          \* no row, no schema

VARIABLES
    form,        \* the forms
    submission,  \* the submissions
    work,        \* what each handler is at
    updates,     \* updates so far
    taken,       \* history: the form as it was when each submission was inserted
    crossed,     \* history: forms that changed while a handler had read them
    undone       \* history: forms that went from published to draft

vars == <<form, submission, work, updates, taken, crossed, undone>>

Statuses == {"DRAFT", "PUBLISHED", "ARCHIVED"}
FormTypes == {"NATIVE", "GOOGLE_FORM"}
Reviews == {"PENDING", "APPROVED", "REJECTED", "REVIEWED"}
Form == [type: FormTypes, status: Statuses, schema: Schemas \cup {None}]
Idle == [pc |-> "idle"]

FormsAssumption == None \notin Form /\ MaxUpdates \in Nat

TypeOK ==
    /\ \A i \in FormIds : form[i] = None \/ form[i] \in Form
    /\ \A s \in Submissions : submission[s] = None
         \/ (submission[s].form \in FormIds /\ submission[s].data \in Data /\ submission[s].status \in Reviews)
    /\ \A h \in Handlers : work[h] = Idle \/ (work[h].pc \in {"update", "submit", "delete"} /\ work[h].id \in FormIds)
    /\ updates \in 0 .. MaxUpdates
    /\ crossed \subseteq FormIds /\ undone \subseteq FormIds

Init ==
    /\ form = [i \in FormIds |-> None]
    /\ submission = [s \in Submissions |-> None]
    /\ work = [h \in Handlers |-> Idle]
    /\ updates = 0
    /\ taken = [s \in Submissions |-> None]
    /\ crossed = {}
    /\ undone = {}

Of(i) == {s \in Submissions : submission[s] # None /\ submission[s].form = i}
-----------------------------------------------------------------------------
(* A field: its type, whether it is required, whether it has min and max.  *)

\* One case of the switch: a file is not looked at.
FieldAccepts(field, value) ==
    CASE value = "missing" -> ~field.required
      [] field.type = "file" -> TRUE
      [] value = "beyond" -> field.type \in {"text", "textarea", "number"} /\ ~field.bounded
      [] OTHER -> value = "right"

\* Mutant: the fields that are not required are not looked at.
ValidateRequired(schema, data) ==
    schema # None => \A f \in DOMAIN schema : schema[f].required => FieldAccepts(schema[f], data[f])

\* validateSubmissionData, for a form that has a schema.
validateSubmissionData(schema, data) ==
    schema # None => \A f \in DOMAIN schema : FieldAccepts(schema[f], data[f])

\* validateFormSchema: some field, all of the types known, choices with options.
validateFormSchema(schema) ==
    /\ DOMAIN schema # {}
    /\ \A f \in DOMAIN schema :
         schema[f].type \in {"text", "email", "number", "date", "textarea", "select",
                             "checkbox", "radio", "file"}
-----------------------------------------------------------------------------
\* Whoever has read the form acts on what it was.
Changes(h, i) ==
    crossed' = crossed \cup
        {j \in {i} : \E g \in Handlers \ {h} : work[g] # Idle /\ work[g].id = i}

\* create: a native form brings its schema, which is checked; a draft is
\* stored, without it.
Create(h) ==
    /\ work[h] = Idle
    /\ \E i \in FormIds, type \in FormTypes, schema \in Schemas :
         /\ form[i] = None /\ Of(i) = {}
         /\ type = "NATIVE" => validateFormSchema(schema)
         /\ form' = [form EXCEPT ![i] = [type |-> type, status |-> "DRAFT", schema |-> None]]
    /\ UNCHANGED <<submission, work, updates, taken, crossed, undone>>

\* A status, a schema or both; what is published is not made a draft.
BeginUpdate(h) ==
    /\ work[h] = Idle /\ updates < MaxUpdates
    /\ \E i \in FormIds, status \in Statuses \cup {None}, schema \in Schemas \cup {None} :
         /\ form[i] # None /\ (status # None \/ schema # None)
         /\ ~(form[i].status = "PUBLISHED" /\ status = "DRAFT")
         /\ schema # None => validateFormSchema(schema)
         /\ work' = [work EXCEPT ![h] = [pc |-> "update", id |-> i, status |-> status, schema |-> schema]]
    /\ updates' = updates + 1
    /\ UNCHANGED <<form, submission, taken, crossed, undone>>

Update(h) ==
    /\ work[h] # Idle /\ work[h].pc = "update" /\ form[work[h].id] # None
    /\ LET i == work[h].id
           old == form[i]
       IN  /\ form' = [form EXCEPT ![i] =
                         [old EXCEPT !.status = IF work[h].status = None THEN @ ELSE work[h].status,
                                     !.schema = IF work[h].schema = None THEN @ ELSE work[h].schema]]
           /\ undone' = undone \cup
                {j \in {i} : old.status = "PUBLISHED" /\ form'[i].status = "DRAFT"}
           /\ Changes(h, i)
    /\ work' = [work EXCEPT ![h] = Idle]
    /\ UNCHANGED <<submission, updates, taken>>

BeginDelete(h) ==
    /\ work[h] = Idle
    /\ \E i \in FormIds : form[i] # None /\ work' = [work EXCEPT ![h] = [pc |-> "delete", id |-> i]]
    /\ UNCHANGED <<form, submission, updates, taken, crossed, undone>>

\* One transaction: the submissions and then the form. A submission that
\* lands between the two keeps the form, and everything is rolled back.
Delete(h) ==
    /\ work[h] # Idle /\ work[h].pc = "delete" /\ form[work[h].id] # None
    /\ form' = [form EXCEPT ![work[h].id] = None]
    /\ submission' = [s \in Submissions |-> IF s \in Of(work[h].id) THEN None ELSE submission[s]]
    /\ taken' = [s \in Submissions |-> IF s \in Of(work[h].id) THEN None ELSE taken[s]]
    /\ Changes(h, work[h].id)
    /\ work' = [work EXCEPT ![h] = Idle]
    /\ UNCHANGED <<updates, undone>>

\* The form is published, and the data fits the schema it has, if any.
BeginSubmit(h) ==
    /\ work[h] = Idle
    /\ \E i \in FormIds, data \in Data :
         /\ form[i] # None /\ form[i].status = "PUBLISHED"
         /\ form[i].type = "NATIVE" => validateSubmissionData(form[i].schema, data)
         /\ work' = [work EXCEPT ![h] = [pc |-> "submit", id |-> i, data |-> data]]
    /\ UNCHANGED <<form, submission, updates, taken, crossed, undone>>

\* The foreign key refuses a form that is gone.
Submit(h) ==
    /\ work[h] # Idle /\ work[h].pc = "submit" /\ form[work[h].id] # None
    /\ \E s \in Submissions :
         /\ submission[s] = None
         /\ submission' = [submission EXCEPT ![s] =
                             [form |-> work[h].id, data |-> work[h].data, status |-> "PENDING"]]
         /\ taken' = [taken EXCEPT ![s] = form[work[h].id]]
    /\ work' = [work EXCEPT ![h] = Idle]
    /\ UNCHANGED <<form, updates, crossed, undone>>

\* The transaction fails, or the form is gone.
Fail(h) ==
    /\ work[h] # Idle
    /\ work' = [work EXCEPT ![h] = Idle]
    /\ UNCHANGED <<form, submission, updates, taken, crossed, undone>>

\* updateSubmissionStatus: any status after any.
Review ==
    /\ \E s \in Submissions, status \in {"APPROVED", "REJECTED"} :
         /\ submission[s] # None
         /\ submission' = [submission EXCEPT ![s].status = status]
    /\ UNCHANGED <<form, work, updates, taken, crossed, undone>>

Next ==
    \/ \E h \in Handlers :
         \/ Create(h) \/ BeginUpdate(h) \/ Update(h) \/ BeginDelete(h) \/ Delete(h)
         \/ BeginSubmit(h) \/ Submit(h) \/ Fail(h)
    \/ Review

Spec == Init /\ [][Next]_vars
-----------------------------------------------------------------------------
\* A submission is of a form that exists, and was inserted while the form was
\* published, with data that fits the schema the form had then; and a
\* published form has not been made a draft. All of it unless the form changed
\* under a handler that had read it (submitForm, update, delete).
SubmissionsFit ==
    /\ \A s \in Submissions : submission[s] # None =>
         /\ form[submission[s].form] # None
         /\ submission[s].form \notin crossed =>
              /\ taken[s].status = "PUBLISHED"
              /\ (taken[s].type = "NATIVE" /\ taken[s].schema # None) =>
                   \A f \in DOMAIN taken[s].schema :
                     FieldAccepts(taken[s].schema[f], submission[s].data[f])
    /\ undone \subseteq crossed
=============================================================================

---------------------------- MODULE StaffRecords ----------------------------
(***************************************************************************)
(* The import of the personnel data of the users from a spreadsheet        *)
(* (importFromBuffer of admin/users/users.service.ts).                     *)
(*                                                                         *)
(* The import goes row by row, each row a search and an update that may    *)
(* fail on its own; nothing joins the rows in a transaction.               *)
(***************************************************************************)
EXTENDS Naturals, SequencesExt

CONSTANTS
    Documents, \* documents of the users there are
    Unknown,   \* a document of no user
    Values,    \* what a cell may hold
    Blank,     \* an empty cell, or a text that is no value of the column
    MaxRows    \* bound on the length of the spreadsheet

BlankAssumption == Blank \notin Values /\ Unknown \notin Documents /\ Blank # Unknown
RowsAssumption == MaxRows \in Nat \ {0}

VARIABLES
    user,    \* the imported columns of each user
    sheet,   \* the rows of the file
    results, \* what the answer says of each row
    unheard  \* history: the rows whose update was made and its answer lost

vars == <<user, sheet, results, unheard>>

\* entity: blank, a known company, or a text that names none.
Row == [cc: Documents \cup {Unknown, Blank}, name: Values \cup {Blank},
        entity: {"blank", "known", "strange"}, allowance: BOOLEAN]
Record == [name: Values \cup {Blank}, entity: BOOLEAN, allowance: BOOLEAN]
Outcome == {"invalid", "not_found", "error", "updated"}

TypeOK ==
    /\ user \in [Documents -> Record]
    /\ sheet \in Seq(Row) /\ Len(sheet) <= MaxRows
    /\ results \in Seq(Outcome) /\ Len(results) <= Len(sheet)
    /\ unheard \subseteq DOMAIN results

Init ==
    /\ user = [d \in Documents |-> [name |-> Blank, entity |-> FALSE, allowance |-> FALSE]]
    /\ sheet = <<>> /\ results = <<>> /\ unheard = {}
-----------------------------------------------------------------------------
(* The import; overrides.legalEntity makes every row one of a known entity. *)

ReadSheet ==
    /\ sheet = <<>>
    /\ sheet' \in BoundedSeq(Row, MaxRows) \ {<<>>}
    /\ UNCHANGED <<user, results, unheard>>

\* The cells that are blank keep the value there was; the allowance is
\* written in every case.
Applied(record, row) ==
    [name |-> IF row.name = Blank THEN record.name ELSE row.name,
     entity |-> record.entity \/ row.entity = "known",
     allowance |-> row.allowance]

Refusal(row) ==
    CASE row.cc = Blank -> "invalid"
      [] row.cc = Unknown -> "not_found"
      [] row.cc \in Documents /\ row.entity = "strange" -> "error"
      [] OTHER -> "none"

Current == sheet[Len(results) + 1]

\* Mutant: a cell that is blank overwrites.
OverwriteRow ==
    /\ Len(results) < Len(sheet)
    /\ Refusal(Current) = "none"
    /\ user' = [user EXCEPT ![Current.cc] = [Applied(@, Current) EXCEPT !.name = Current.name]]
    /\ results' = Append(results, "updated")
    /\ UNCHANGED <<sheet, unheard>>

\* The catch is also of an update that was made and whose answer was lost.
UpdateRow ==
    /\ Len(results) < Len(sheet)
    /\ Refusal(Current) = "none"
    /\ user' = [user EXCEPT ![Current.cc] = Applied(@, Current)]
    /\ \/ results' = Append(results, "updated") /\ UNCHANGED unheard
       \/ /\ results' = Append(results, "error")
          /\ unheard' = unheard \cup {Len(results) + 1}
    /\ UNCHANGED sheet

RefuseRow ==
    /\ Len(results) < Len(sheet)
    /\ \/ /\ Refusal(Current) # "none"
          /\ results' = Append(results, Refusal(Current))
       \/ /\ Refusal(Current) = "none"       \* the update is refused or undone
          /\ results' = Append(results, "error")
    /\ UNCHANGED <<user, sheet, unheard>>

Next == ReadSheet \/ UpdateRow \/ RefuseRow

Spec == Init /\ [][Next]_vars
-----------------------------------------------------------------------------
Made(i) == results[i] = "updated" \/ i \in unheard
Written(d) == {i \in DOMAIN results : Made(i) /\ sheet[i].cc = d}

\* The answer of the import tells what became of each row, but for an update
\* whose own answer was lost: a user has the last name, company and allowance
\* among the rows said to be updated and those of them lost, nothing of a row
\* said to be invalid, unknown or of a company that is none, and a row is said
\* to be an error where the answer was lost (importFromBuffer and its catch).
ImportTellsFate ==
    /\ \A d \in Documents :
        LET named == {i \in Written(d) : sheet[i].name # Blank}
        IN  /\ user[d].name = IF named = {} THEN Blank ELSE sheet[Max(named)].name
            /\ user[d].entity <=> \E i \in Written(d) : sheet[i].entity = "known"
            /\ user[d].allowance <=>
                 Written(d) # {} /\ sheet[Max(Written(d))].allowance
    /\ \A i \in DOMAIN results :
         /\ Made(i) => sheet[i].cc \in Documents /\ sheet[i].entity # "strange"
         /\ i \in unheard => results[i] = "error"
=============================================================================

----------------------------- MODULE AuxPasswords -----------------------------
(* The password helper of the auxiliary team: encrypted entries with a         *)
(* revision, changed by hand against the revision loaded, and imported from a  *)
(* file under an identifier derived from what they identify                    *)
(* (domain/auxiliary-passwords.ts, handlers/passwords.ts).                     *)
EXTENDS Naturals, FiniteSets

CONSTANTS
    Identities,     \* name and user of an access; an import files it under this
    Created,        \* identifiers given to the entries created by hand
    Forms,          \* forms open at once
    Imports,        \* imports under way at once
    MaxWrites,      \* bound: the writes
    None

AuxPasswordsAssumption ==
    /\ Identities \cap Created = {} /\ MaxWrites \in Nat
    /\ None \notin Identities \cup Created

Ids == Identities \cup Created

VARIABLES
    entry,      \* the rows
    form,       \* what each form shows of the entry it is about to change
    import,     \* the file of each import and what was listed when it began
    writes,     \* the writes so far; each leaves its number as the content
    changed,    \* the changes of each entry
    audit,      \* the audit entries about it
    mislaid,    \* the entries of which a change replaced what its form never showed
    reborn      \* the entries imported again after they were deleted

vars == <<entry, form, import, writes, changed, audit, mislaid, reborn>>

Entry == [identity : Identities, revision : 1 .. MaxWrites, content : 1 .. MaxWrites]

TypeOK ==
    /\ \A i \in Ids : entry[i] = None \/ entry[i] \in Entry
    /\ \A f \in Forms : form[f] = None \/ form[f] \in [id : Ids, shown : Entry]
    /\ \A m \in Imports : import[m] = None \/ import[m] \in [file : SUBSET Identities, seen : SUBSET Identities]
    /\ writes \in 0 .. MaxWrites
    /\ changed \in [Ids -> 0 .. MaxWrites] /\ audit \in [Ids -> 0 .. MaxWrites]
    /\ mislaid \subseteq Ids /\ reborn \subseteq Ids

Init ==
    /\ entry = [i \in Ids |-> None] /\ form = [f \in Forms |-> None]
    /\ import = [m \in Imports |-> None] /\ writes = 0
    /\ changed = [i \in Ids |-> 0] /\ audit = [i \in Ids |-> 0]
    /\ mislaid = {} /\ reborn = {}

-----------------------------------------------------------------------------
Listed == {entry[i].identity : i \in {j \in Ids : entry[j] # None}}
Plus(count, ids) == [i \in Ids |-> IF i \in ids THEN count[i] + 1 ELSE count[i]]

\* The statements of a batch commit together, each followed by its audit entry,
\* which is inserted if the statement before it changed a row.
Commit(ids) ==
    /\ writes' = writes + 1
    /\ changed' = Plus(changed, ids)
    /\ audit' = Plus(audit, ids)

Create(i) ==
    /\ changed[i] = 0 /\ writes < MaxWrites
    /\ \E x \in Identities :
         entry' = [entry EXCEPT ![i] = [identity |-> x, revision |-> 1, content |-> writes + 1]]
    /\ Commit({i})
    /\ UNCHANGED <<form, import, mislaid, reborn>>

Open(f, i) ==
    /\ form[f] = None /\ entry[i] # None
    /\ form' = [form EXCEPT ![f] = [id |-> i, shown |-> entry[i]]]
    /\ UNCHANGED <<entry, import, writes, changed, audit, mislaid, reborn>>

\* The row of the revision the form showed: there, or the change is refused.
Current(f) ==
    LET i == form[f].id IN entry[i] # None /\ entry[i].revision = form[f].shown.revision

Close(f) == form' = [form EXCEPT ![f] = None]

Replace(f, row) ==
    LET i == form[f].id IN
      /\ entry' = [entry EXCEPT ![i] = row]
      /\ Commit({i})
      /\ mislaid' = IF entry[i] = form[f].shown THEN mislaid ELSE mislaid \cup {i}

\* Mutant: the revision stays.
UpdateInPlace(f) ==
    /\ form[f] # None /\ writes < MaxWrites
    /\ IF Current(f)
       THEN Replace(f, [form[f].shown EXCEPT !.content = writes + 1])
       ELSE UNCHANGED <<entry, writes, changed, audit, mislaid>>
    /\ Close(f)
    /\ UNCHANGED <<import, reborn>>

Update(f) ==
    /\ form[f] # None /\ writes < MaxWrites
    /\ IF Current(f)
       THEN \E x \in Identities :
              Replace(f, [identity |-> x, revision |-> form[f].shown.revision + 1,
                          content |-> writes + 1])
       ELSE UNCHANGED <<entry, writes, changed, audit, mislaid>>
    /\ Close(f)
    /\ UNCHANGED <<import, reborn>>

Delete(f) ==
    /\ form[f] # None /\ writes < MaxWrites
    /\ IF Current(f) THEN Replace(f, None)
       ELSE UNCHANGED <<entry, writes, changed, audit, mislaid>>
    /\ Close(f)
    /\ UNCHANGED <<import, reborn>>

-----------------------------------------------------------------------------
BeginImport(m) ==
    /\ import[m] = None
    /\ \E file \in (SUBSET Identities) \ {{}} :
         import' = [import EXCEPT ![m] = [file |-> file, seen |-> Listed]]
    /\ UNCHANGED <<entry, form, writes, changed, audit, mislaid, reborn>>

\* What was listed is skipped, and so is what another import has filed since.
FinishImport(m) ==
    /\ import[m] # None /\ writes < MaxWrites
    /\ LET new == {x \in import[m].file \ import[m].seen : entry[x] = None} IN
         /\ entry' = [i \in Ids |-> IF i \in new
                                    THEN [identity |-> i, revision |-> 1, content |-> writes + 1]
                                    ELSE entry[i]]
         /\ Commit(new)
         /\ reborn' = reborn \cup {x \in new : changed[x] > 0}
    /\ import' = [import EXCEPT ![m] = None]
    /\ UNCHANGED <<form, mislaid>>

\* The batch fails: nothing of it stays.
ImportFails(m) ==
    /\ import[m] # None
    /\ import' = [import EXCEPT ![m] = None]
    /\ UNCHANGED <<entry, form, writes, changed, audit, mislaid, reborn>>

Next ==
    \/ \E i \in Created : Create(i)
    \/ \E f \in Forms : (\E i \in Ids : Open(f, i)) \/ Update(f) \/ Delete(f)
    \/ \E m \in Imports : BeginImport(m) \/ FinishImport(m) \/ ImportFails(m)

Spec == Init /\ [][Next]_vars
-----------------------------------------------------------------------------
(* A change by hand replaces what its form showed and nothing else, unless the *)
(* entry was deleted and imported again, which starts its revisions anew under *)
(* the same identifier; and two imports at once never list one access twice,   *)
(* which only a creation or a change by hand can do.                           *)
ChangeIsOfWhatWasShown ==
    /\ mislaid \subseteq reborn
    /\ \A i, j \in Identities :
         i # j /\ entry[i] # None /\ entry[j] # None /\ entry[i].identity = entry[j].identity
           => entry[i].revision > 1 \/ entry[j].revision > 1
=============================================================================

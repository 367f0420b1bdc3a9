--------------------------- MODULE PasswordVault ---------------------------
(***************************************************************************)
(* The credentials of the password vault: their rows, the history of their *)
(* passwords, who they are shared with, the trash and its purge            *)
(* (password-vault/password-vault.service.ts, jobs/cron.service.ts).       *)
(*                                                                         *)
(* An operation checks the access in one query and writes in another, or   *)
(* in a transaction, by identifier. The foreign keys that point to a       *)
(* credential restrict its deletion (prisma/schema.prisma): the audit, the *)
(* versions and the permissions have to go first.                          *)
(***************************************************************************)
EXTENDS Naturals, Sequences, FiniteSets

CONSTANTS
    Users,
    Owner,
    Requests,   \* concurrent executions of the operations
    Grants,     \* identifiers of password_permission rows
    MaxChanges  \* bound on the passwords one credential has had

OwnerAssumption == Owner \in Users
ChangesAssumption == MaxChanges \in Nat
GrantsAssumption == Grants # {}

VARIABLES
    vault,    \* the password_vault row; its passwords are numbered as written
    versions, \* its password_version rows
    audit,    \* whether a password_audit row names it
    grant,    \* the password_permission rows
    category, \* whether the category of the credential is there
    request,  \* the locals of each execution
    changes,  \* passwords written so far
    former,   \* history: the passwords that were replaced, in order
    crossed,  \* history: two updates were under way together
    overdue   \* history: thirty days in the trash when the job ran

vars == <<vault, versions, audit, grant, category, request, changes, former, crossed, overdue>>

States == {"absent", "live", "trash", "due", "gone"}
Vault == [state: States, password: 0 .. MaxChanges, filed: BOOLEAN]
Version == [number: 1 .. MaxChanges, password: 0 .. MaxChanges]
Levels == {"view", "edit", "admin"}
Grant == [to: Users, level: Levels]
NoGrant == [to |-> Owner, level |-> "none"]

Request == [op: {"idle", "update", "counted", "trash", "restore", "share", "change", "revoke",
                 "reveal", "erase", "unfile"},
            seen: 0 .. MaxChanges, count: 0 .. MaxChanges, grant: Grants]
First == CHOOSE g \in Grants : TRUE
Idle == [op |-> "idle", seen |-> 0, count |-> 0, grant |-> First]

TypeOK ==
    /\ vault \in Vault
    /\ \A i \in DOMAIN versions : versions[i] \in Version
    /\ Len(versions) <= MaxChanges
    /\ audit \in BOOLEAN
    /\ grant \in [Grants -> Grant \cup {NoGrant}]
    /\ category \in BOOLEAN /\ crossed \in BOOLEAN /\ overdue \in BOOLEAN
    /\ request \in [Requests -> Request]
    /\ changes \in 0 .. MaxChanges
    /\ \A i \in DOMAIN former : former[i] \in 0 .. MaxChanges

Init ==
    /\ vault = [state |-> "absent", password |-> 0, filed |-> FALSE]
    /\ versions = <<>> /\ former = <<>>
    /\ audit = FALSE
    /\ grant = [g \in Grants |-> NoGrant]
    /\ category = TRUE
    /\ request = [r \in Requests |-> Idle]
    /\ changes = 0
    /\ crossed = FALSE /\ overdue = FALSE
-----------------------------------------------------------------------------
Exists == vault.state \notin {"absent", "gone"}
Live == vault.state = "live"
\* resolveVaultAccess and the three assertions on it.
Has(u, levels) == Exists /\ (u = Owner \/ \E g \in Grants : grant[g].to = u /\ grant[g].level \in levels)
CanView(u) == Live /\ Has(u, Levels)
CanEdit(u) == Live /\ Has(u, {"edit", "admin"})
CanAdmin(u) == Live /\ Has(u, {"admin"})
CanRestore(u) == Has(u, {"admin"})

Begin(r, op, seen, g) ==
    /\ request[r].op = "idle"
    /\ request' = [request EXCEPT ![r] = [op |-> op, seen |-> seen, count |-> 0, grant |-> g]]
End(r) == request' = [request EXCEPT ![r] = Idle]
Audit == audit' = TRUE
Rows == <<vault, versions, audit, grant, category, changes, former>>
History == <<crossed, overdue>>

Create ==
    /\ vault.state = "absent"
    /\ \E filed \in BOOLEAN :
         /\ filed => category
         /\ vault' = [vault EXCEPT !.state = "live", !.filed = filed]
    /\ Audit
    /\ UNCHANGED <<versions, grant, category, request, changes, former, History>>

\* The access, then the row whose password goes to the history.
BeginUpdate(r, u) ==
    /\ CanEdit(u)
    /\ changes < MaxChanges
    /\ Begin(r, "update", vault.password, First)
    /\ crossed' = (crossed \/ \E q \in Requests \ {r} : request[q].op \in {"update", "counted"})
    /\ UNCHANGED <<Rows, overdue>>

CountVersions(r) ==
    /\ request[r].op = "update"
    /\ request' = [request EXCEPT ![r].op = "counted", ![r].count = Len(versions)]
    /\ UNCHANGED <<Rows, History>>

\* Mutant: the new password goes to the history.
CommitNew(r) ==
    /\ request[r].op = "counted"
    /\ Exists /\ changes < MaxChanges
    /\ versions' = Append(versions, [number |-> request[r].count + 1, password |-> changes + 1])
    /\ vault' = [vault EXCEPT !.password = changes + 1]
    /\ changes' = changes + 1
    /\ former' = Append(former, vault.password)
    /\ Audit
    /\ End(r)
    /\ UNCHANGED <<grant, category, History>>

\* The old password is the one that was read before the transaction; the
\* credential may be in the trash by now.
CommitUpdate(r) ==
    /\ request[r].op = "counted"
    /\ Exists /\ changes < MaxChanges
    /\ versions' = Append(versions, [number |-> request[r].count + 1, password |-> request[r].seen])
    /\ vault' = [vault EXCEPT !.password = changes + 1]
    /\ changes' = changes + 1
    /\ former' = Append(former, vault.password)
    /\ Audit
    /\ End(r)
    /\ UNCHANGED <<grant, category, History>>

UpdateFails(r) ==
    /\ request[r].op = "counted"
    /\ End(r)
    /\ UNCHANGED <<Rows, History>>
-----------------------------------------------------------------------------
(* The trash.                                                              *)

BeginTrash(r, u) ==
    /\ \/ CanAdmin(u) /\ Begin(r, "trash", 0, First)
       \/ CanRestore(u) /\ Begin(r, "restore", 0, First)
       \/ u = Owner /\ vault.state \in {"trash", "due"} /\ Begin(r, "erase", 0, First)
    /\ UNCHANGED <<Rows, History>>

SoftDelete(r) ==
    /\ request[r].op = "trash" /\ Exists
    /\ vault' = [vault EXCEPT !.state = "trash"]
    /\ Audit
    /\ End(r)
    /\ UNCHANGED <<versions, grant, category, changes, former, History>>

Restore(r) ==
    /\ request[r].op = "restore" /\ Exists
    /\ vault' = [vault EXCEPT !.state = "live"]
    /\ Audit
    /\ End(r)
    /\ overdue' = FALSE
    /\ UNCHANGED <<versions, grant, category, changes, former, crossed>>

\* Thirty days go by.
Age ==
    /\ vault.state = "trash"
    /\ vault' = [vault EXCEPT !.state = "due"]
    /\ UNCHANGED <<versions, audit, grant, category, request, changes, former, History>>

\* No row of another table names the credential.
Unreferenced == ~audit /\ versions = <<>> /\ \A g \in Grants : grant[g] = NoGrant

\* The deletion, of the owner or of the job, or its refusal.
Erase == vault' = IF Unreferenced THEN [vault EXCEPT !.state = "gone"] ELSE vault

PermanentDelete(r) ==
    /\ request[r].op = "erase" /\ Exists
    /\ Erase
    /\ End(r)
    /\ UNCHANGED <<versions, audit, grant, category, changes, former, History>>

\* The job of every day at three.
PurgeExpiredTrash ==
    /\ vault.state = "due"
    /\ Erase
    /\ overdue' = TRUE
    /\ UNCHANGED <<versions, audit, grant, category, request, changes, former, crossed>>
-----------------------------------------------------------------------------
(* Sharing: a second permission for the same user is another row.          *)

BeginSharing(r, u) ==
    /\ CanAdmin(u)
    /\ \E g \in Grants :
         \/ grant[g] = NoGrant /\ Begin(r, "share", 0, g)
         \/ grant[g] # NoGrant /\ \E op \in {"change", "revoke"} : Begin(r, op, 0, g)
    /\ UNCHANGED <<Rows, History>>

Share(r) ==
    /\ request[r].op = "share" /\ Exists
    /\ grant[request[r].grant] = NoGrant
    /\ \E p \in Grant : grant' = [grant EXCEPT ![request[r].grant] = p]
    /\ Audit
    /\ End(r)
    /\ UNCHANGED <<vault, versions, category, changes, former, History>>

ChangePermission(r) ==
    /\ request[r].op \in {"change", "revoke"}
    /\ LET g == request[r].grant
       IN  IF grant[g] = NoGrant
           THEN UNCHANGED <<grant, audit>> \* the row is gone: the transaction fails
           ELSE /\ IF request[r].op = "revoke"
                   THEN grant' = [grant EXCEPT ![g] = NoGrant]
                   ELSE \E level \in Levels : grant' = [grant EXCEPT ![g].level = level]
                /\ Audit
    /\ End(r)
    /\ UNCHANGED <<vault, versions, category, changes, former, History>>
-----------------------------------------------------------------------------
(* Reading, and the category.                                              *)

BeginReading(r, u) ==
    /\ CanView(u)
    /\ Begin(r, "reveal", 0, First)
    /\ UNCHANGED <<Rows, History>>

\* After the second factor the row is read again.
Reveal(r) ==
    /\ request[r].op = "reveal"
    /\ IF Live THEN Audit ELSE UNCHANGED audit
    /\ End(r)
    /\ UNCHANGED <<vault, versions, grant, category, changes, former, History>>

\* The uses are counted among the credentials that are not in the trash.
BeginDeleteCategory(r) ==
    /\ category
    /\ ~(Live /\ vault.filed)
    /\ Begin(r, "unfile", 0, First)
    /\ UNCHANGED <<Rows, History>>

\* The deletion clears the category of whatever still names it.
DeleteCategory(r) ==
    /\ request[r].op = "unfile"
    /\ category' = FALSE
    /\ vault' = [vault EXCEPT !.filed = FALSE]
    /\ End(r)
    /\ UNCHANGED <<versions, audit, grant, changes, former, History>>

Receive(r, u) == BeginUpdate(r, u) \/ BeginTrash(r, u) \/ BeginSharing(r, u) \/ BeginReading(r, u)
Resume(r) ==
    \/ CountVersions(r) \/ CommitUpdate(r) \/ UpdateFails(r)
    \/ SoftDelete(r) \/ Restore(r) \/ PermanentDelete(r)
    \/ Share(r) \/ ChangePermission(r) \/ Reveal(r)
    \/ BeginDeleteCategory(r) \/ DeleteCategory(r)

Next ==
    \/ Create \/ Age \/ PurgeExpiredTrash
    \/ \E r \in Requests, u \in Users : Receive(r, u)
    \/ \E r \in Requests : Resume(r)

Spec == Init /\ [][Next]_vars
-----------------------------------------------------------------------------
\* The history has each password that was replaced, once and in order, and
\* numbers them from one, unless two updates ran together; through sharing,
\* the trash and failed transactions (update).
HistoryIsWhole ==
    ~crossed =>
        /\ Len(versions) = Len(former)
        /\ \A i \in DOMAIN versions : versions[i] = [number |-> i, password |-> former[i]]

\* Thirty days in the trash are the end: "borra definitivamente tras 30 dias
\* en papelera" (purgeExpiredTrash).
PurgeDeletes == overdue => vault.state = "gone"
=============================================================================

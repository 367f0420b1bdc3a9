---------------------------- MODULE AuxDocument ----------------------------
(***************************************************************************)
(* One identity document of the auxiliary team: the upload and the         *)
(* deletion of its row and of its encrypted files                          *)
(* (auxiliary-operational/handlers/documents.ts and documents/[id].ts).    *)
(*                                                                         *)
(* The row is in PostgreSQL and the files in Supabase; each call to either *)
(* is a step. The keys of the files are built from the identifier of the   *)
(* request, so two uploads of the same request write, and clean up, the    *)
(* same objects.                                                           *)
(***************************************************************************)
EXTENDS Naturals, FiniteSets

CONSTANTS
    Uploads,     \* concurrent executions of POST
    Deletions,   \* concurrent executions of DELETE
    Selections,  \* what a user may upload under this identifier
    None,        \* no selection
    Count,       \* how many files a selection has
    MaxFaults    \* bound on process deaths and failed calls

NoneAssumption == None \notin Selections
BoundsAssumption == Count \in Nat \ {0} /\ MaxFaults \in Nat

VARIABLES
    row,      \* the auxop_documents row: its state and the selection it lists
    bucket,   \* the object stored under each key
    upload,   \* the locals of each POST
    deletion, \* the locals of each DELETE
    met,      \* history: two uploads were under way at the same time
    faults    \* process deaths and failed calls so far

vars == <<row, bucket, upload, deletion, met, faults>>

Keys == 1 .. Count
Row == [state: {"absent", "live", "deleted"}, selection: Selections \cup {None}]

Upload == [pc: {"idle", "read", "put", "insert", "audit", "clean"},
           selection: Selections \cup {None}, keys: SUBSET Keys]
IdleUpload == [pc |-> "idle", selection |-> None, keys |-> {}]

Deletion == [pc: {"idle", "remove", "mark"}, keys: SUBSET Keys]
IdleDeletion == [pc |-> "idle", keys |-> {}]

TypeOK ==
    /\ row \in Row
    /\ bucket \in [Keys -> Selections \cup {None}]
    /\ upload \in [Uploads -> Upload]
    /\ deletion \in [Deletions -> Deletion]
    /\ met \in BOOLEAN
    /\ faults \in 0 .. MaxFaults

Init ==
    /\ row = [state |-> "absent", selection |-> None]
    /\ bucket = [k \in Keys |-> None]
    /\ upload = [u \in Uploads |-> IdleUpload]
    /\ deletion = [d \in Deletions |-> IdleDeletion]
    /\ met = FALSE
    /\ faults = 0

Continue(u, locals) == upload' = [upload EXCEPT ![u] = locals]
GoTo(u, label) == Continue(u, [upload[u] EXCEPT !.pc = label])
Leave(u) == Continue(u, IdleUpload)
Store(k, selection) == bucket' = [bucket EXCEPT ![k] = selection]
-----------------------------------------------------------------------------
(* POST documents.                                                         *)

Begin(u) ==
    /\ upload[u].pc = "idle"
    /\ \E s \in Selections : Continue(u, [pc |-> "read", selection |-> s, keys |-> {}])
    /\ met' = (met \/ \E v \in Uploads \ {u} : upload[v].pc # "idle")
    /\ UNCHANGED <<row, bucket, deletion, faults>>

\* A row of this identifier ends the upload: with the stored document when it
\* lists the same files, with 409 otherwise.
ReadRow(u) ==
    /\ upload[u].pc = "read"
    /\ IF row.state = "absent" THEN GoTo(u, "put") ELSE Leave(u)
    /\ UNCHANGED <<row, bucket, deletion, met, faults>>

\* Mutant: the last file is forgotten.
PutFileShort(u) ==
    /\ upload[u].pc = "put"
    /\ LET k == Cardinality(upload[u].keys) + 1
       IN  /\ Store(k, upload[u].selection)
           /\ Continue(u, [upload[u] EXCEPT !.keys = @ \cup {k},
                                            !.pc = IF k + 1 >= Count THEN "insert" ELSE "put"])
    /\ UNCHANGED <<row, deletion, met, faults>>

\* The files one by one (upsert); a key is remembered once its file is stored.
PutFile(u) ==
    /\ upload[u].pc = "put"
    /\ LET k == Cardinality(upload[u].keys) + 1
       IN  /\ Store(k, upload[u].selection)
           /\ Continue(u, [upload[u] EXCEPT !.keys = @ \cup {k},
                                            !.pc = IF k = Count THEN "insert" ELSE "put"])
    /\ UNCHANGED <<row, deletion, met, faults>>

\* Mutant: INSERT OR REPLACE.
Replaces == TRUE

\* The identifier is the primary key.
Inserts == row.state = "absent"

InsertRow(u) ==
    /\ upload[u].pc = "insert"
    /\ Inserts
    /\ row' = [state |-> "live", selection |-> upload[u].selection]
    /\ Continue(u, [upload[u] EXCEPT !.pc = "audit", !.keys = {}])
    /\ UNCHANGED <<bucket, deletion, met, faults>>

\* The other upload was first: the unique violation leads to the catch.
InsertRefused(u) ==
    /\ upload[u].pc = "insert"
    /\ ~Inserts
    /\ GoTo(u, "clean")
    /\ UNCHANGED <<row, bucket, deletion, met, faults>>

WriteAudit(u) ==
    /\ upload[u].pc = "audit"
    /\ Leave(u)
    /\ UNCHANGED <<row, bucket, deletion, met, faults>>

\* Mutant: the catch answers and removes nothing.
LeaveFiles(u) ==
    /\ upload[u].pc = "clean"
    /\ Leave(u)
    /\ UNCHANGED <<row, bucket, deletion, met, faults>>

\* The catch: what this upload stored is removed.
CleanFile(u) ==
    /\ upload[u].pc = "clean"
    /\ \/ \E k \in upload[u].keys :
             /\ \A j \in upload[u].keys : k <= j
             /\ Store(k, None)
             /\ Continue(u, [upload[u] EXCEPT !.keys = @ \ {k}])
       \/ /\ upload[u].keys = {}
          /\ Leave(u)
          /\ UNCHANGED bucket
    /\ UNCHANGED <<row, deletion, met, faults>>
-----------------------------------------------------------------------------
(* DELETE documents/[id]: the files first, then the row, by its identifier.*)

Listed == IF row.state = "live" THEN Keys ELSE {}

BeginDeletion(d) ==
    /\ deletion[d].pc = "idle"
    /\ row.state # "absent"
    /\ deletion' = [deletion EXCEPT ![d] =
                       [pc |-> IF Listed = {} THEN "mark" ELSE "remove", keys |-> Listed]]
    /\ UNCHANGED <<row, bucket, upload, met, faults>>

RemoveFile(d) ==
    /\ deletion[d].pc = "remove"
    /\ \E k \in deletion[d].keys :
          /\ \A j \in deletion[d].keys : k <= j
          /\ Store(k, None)
          /\ deletion' = [deletion EXCEPT ![d] =
                [pc |-> IF deletion[d].keys = {k} THEN "mark" ELSE "remove",
                 keys |-> deletion[d].keys \ {k}]]
    /\ UNCHANGED <<row, upload, met, faults>>

\* Mutant: a state the readers do not know.
MarkRemoved(d) ==
    /\ deletion[d].pc = "mark"
    /\ row' = [state |-> "removed", selection |-> None]
    /\ deletion' = [deletion EXCEPT ![d] = IdleDeletion]
    /\ UNCHANGED <<bucket, upload, met, faults>>

MarkDeleted(d) ==
    /\ deletion[d].pc = "mark"
    /\ row' = [state |-> "deleted", selection |-> None]
    /\ deletion' = [deletion EXCEPT ![d] = IdleDeletion]
    /\ UNCHANGED <<bucket, upload, met, faults>>
-----------------------------------------------------------------------------
(* Faults.                                                                 *)

Fault == faults < MaxFaults /\ faults' = faults + 1

\* A put fails, after the object was stored or before.
PutFails(u) ==
    /\ Fault
    /\ upload[u].pc = "put"
    /\ Store(Cardinality(upload[u].keys) + 1, upload[u].selection) \/ UNCHANGED bucket
    /\ GoTo(u, "clean")
    /\ UNCHANGED <<row, deletion, met>>

\* The insert fails, or commits and its acknowledgement is lost.
InsertFails(u) ==
    /\ Fault
    /\ upload[u].pc = "insert"
    /\ \/ Inserts /\ row' = [state |-> "live", selection |-> upload[u].selection]
       \/ UNCHANGED row
    /\ GoTo(u, "clean")
    /\ UNCHANGED <<bucket, deletion, met>>

\* Removing a file fails: the clean-up goes on, the deletion answers 503.
CleanFails(u) ==
    /\ Fault
    /\ upload[u].pc = "clean" /\ upload[u].keys # {}
    /\ \E k \in upload[u].keys :
          /\ \A j \in upload[u].keys : k <= j
          /\ Continue(u, [upload[u] EXCEPT !.keys = @ \ {k}])
    /\ UNCHANGED <<row, bucket, deletion, met>>

DeletionFails(d) ==
    /\ Fault
    /\ deletion[d].pc # "idle"
    /\ deletion' = [deletion EXCEPT ![d] = IdleDeletion]
    /\ UNCHANGED <<row, bucket, upload, met>>

Crash ==
    /\ Fault
    /\ upload' = [u \in Uploads |-> IdleUpload]
    /\ deletion' = [d \in Deletions |-> IdleDeletion]
    /\ UNCHANGED <<row, bucket, met>>
-----------------------------------------------------------------------------
Next ==
    \/ \E u \in Uploads :
          \/ Begin(u) \/ ReadRow(u) \/ PutFile(u)
          \/ InsertRow(u) \/ InsertRefused(u) \/ WriteAudit(u) \/ CleanFile(u)
          \/ PutFails(u) \/ InsertFails(u) \/ CleanFails(u)
    \/ \E d \in Deletions :
          BeginDeletion(d) \/ RemoveFile(d) \/ MarkDeleted(d) \/ DeletionFails(d)
    \/ Crash

Spec == Init /\ [][Next]_vars
-----------------------------------------------------------------------------
(* Properties.                                                             *)

Deleting == \E d \in Deletions : deletion[d].pc # "idle"
Whole == \A k \in Keys : bucket[k] = row.selection

\* Without faults, a document nobody is deleting has the files its row lists,
\* as long as its uploads came one after the other.
LoneUploadIsWhole ==
    row.state = "live" /\ ~Deleting /\ ~met /\ faults = 0 => Whole

\* Without faults no file outlives the handlers that should have removed it,
\* though uploads, their clean-up and deletions write the same keys.
NoOrphans ==
    /\ row.state # "live" /\ faults = 0 /\ ~Deleting
    /\ \A u \in Uploads : upload[u].pc = "idle"
    => \A k \in Keys : bucket[k] = None

\* A deleted document does not come back, whichever upload was under way.
DeletedForGood == [][row.state = "deleted" => row' = row]_vars
=============================================================================

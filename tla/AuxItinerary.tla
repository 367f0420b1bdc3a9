----------------------------- MODULE AuxItinerary -----------------------------
(* A flight itinerary of the auxiliary team: an encrypted row saved under an   *)
(* operation the client may repeat, and its images in the object store         *)
(* (handlers/flights.ts, handlers/flights/[id].ts).  The hotel vouchers        *)
(* (handlers/vouchers.ts) are saved the same way, without images.              *)
EXTENDS Naturals, FiniteSets

CONSTANTS
    Operations,     \* request identifiers of the saves
    First,          \* the one that creates the itinerary, under its own identifier
    Saves,          \* executions of the POST handler
    Deletes,        \* executions of the DELETE handler
    MaxRevision,    \* bound: the changes of the row
    None

VARIABLES
    row,        \* the row
    form,       \* what each operation asks for; a repetition asks the same
    save,       \* each execution of POST
    delete,     \* each execution of DELETE
    images,     \* the objects stored; an image is named after the execution
    applied,    \* how often each operation changed the row
    told,       \* the operations the client was told were saved
    unheard,    \* a statement was committed and its answer lost
    faulty      \* the store or the process failed, or a save met a deletion

vars == <<row, form, save, delete, images, applied, told, unheard, faulty>>

Row == [revision : 1 .. MaxRevision, images : SUBSET Saves, operation : Operations, deleted : BOOLEAN]
Form == [revision : 0 .. MaxRevision, retained : SUBSET Saves, file : BOOLEAN]
Idle == [pc |-> "idle"]

AuxItineraryAssumption ==
    First \in Operations /\ MaxRevision \in Nat \ {0} /\ None \notin Row \cup Form

TypeOK ==
    /\ row = None \/ row \in Row
    /\ \A o \in Operations : form[o] = None \/ form[o] \in Form
    /\ \A h \in Saves : save[h] = Idle \/ save[h] = [pc |-> "done"] \/
         /\ DOMAIN save[h] = {"pc", "op", "old"}
         /\ save[h].pc \in {"read", "store", "write", "undo", "detach", "audit"}
         /\ save[h].op \in Operations /\ save[h].old \subseteq Saves
    /\ \A d \in Deletes : delete[d] \in {Idle} \cup
         [pc : {"write", "remove"}, old : SUBSET Saves]
    /\ images \subseteq Saves /\ applied \in [Operations -> Nat] /\ told \subseteq Operations
    /\ {unheard, faulty} \subseteq BOOLEAN

Init ==
    /\ row = None /\ form = [o \in Operations |-> None]
    /\ save = [h \in Saves |-> Idle] /\ delete = [d \in Deletes |-> Idle]
    /\ images = {} /\ applied = [o \in Operations |-> 0] /\ told = {}
    /\ unheard = FALSE /\ faulty = FALSE

-----------------------------------------------------------------------------
Listed == row # None /\ ~row.deleted
Stored == IF row = None THEN {} ELSE row.images
Revision == IF row = None THEN 0 ELSE row.revision
At(h, pc) == save[h].pc = pc
OpOf(h) == save[h].op
FormOf(h) == form[OpOf(h)]
End(h) == save' = [save EXCEPT ![h] = [pc |-> "done"]]
GoTo(h, pc) == save' = [save EXCEPT ![h].pc = pc]
Busy(x) == x \notin {Idle, [pc |-> "done"]}

\* The client saves what it has loaded, or repeats an operation whose answer it
\* did not get.
Begin(h, o) ==
    /\ save[h] = Idle /\ o \notin told
    /\ \/ /\ form[o] = None
          /\ o = First <=> row = None
          /\ row = None \/ Listed
          /\ \E retained \in SUBSET Stored, file \in BOOLEAN :
               form' = [form EXCEPT ![o] = [revision |-> Revision, retained |-> retained, file |-> file]]
       \/ form[o] # None /\ UNCHANGED form
    /\ save' = [save EXCEPT ![h] = [pc |-> "read", op |-> o, old |-> {}]]
    /\ UNCHANGED <<row, delete, images, applied, told, unheard, faulty>>

\* The images the operation asks for, under the names they are stored with.
Images(h) == FormOf(h).retained \cup (IF FormOf(h).file THEN {h} ELSE {})

\* A repetition of the last operation: it is answered again, if its data are the
\* ones saved.  The image takes the name of the stored one.
Replays(h) == row # None /\ row.operation = OpOf(h)

\* A deleted row, an image of another itinerary, no image at all or a revision
\* that is not the one loaded: the request is refused.
Accepted(h) ==
    /\ row # None => ~row.deleted
    /\ FormOf(h).retained \subseteq Stored
    /\ Images(h) # {}
    /\ Revision = FormOf(h).revision

ReadOld(h) ==
    /\ At(h, "read")
    /\ IF Listed /\ Replays(h) /\ FormOf(h).retained \subseteq Stored /\ Images(h) # {}
       THEN End(h) /\ told' = told \cup {OpOf(h)}
       ELSE /\ IF Accepted(h) /\ Revision < MaxRevision
               THEN save' = [save EXCEPT ![h].pc = IF FormOf(h).file THEN "store" ELSE "write",
                                         ![h].old = Stored]
               ELSE End(h)
            /\ UNCHANGED told
    /\ UNCHANGED <<row, form, delete, images, applied, unheard, faulty>>

StoreImage(h) ==
    /\ At(h, "store")
    /\ \/ images' = images \cup {h} /\ GoTo(h, "write") /\ UNCHANGED faulty
       \/ images' \in {images, images \cup {h}} /\ GoTo(h, "undo") /\ faulty' = TRUE
    /\ UNCHANGED <<row, form, delete, applied, told, unheard>>

Matches(h) ==
    IF FormOf(h).revision = 0 THEN row = None
    ELSE Listed /\ row.revision = FormOf(h).revision

WriteRow(h) ==
    /\ row' = [revision |-> Revision + 1, images |-> Images(h), operation |-> OpOf(h), deleted |-> FALSE]
    /\ applied' = [applied EXCEPT ![OpOf(h)] = @ + 1]

\* Mutant: the update is by identifier alone.
WriteAnyRevision(h) ==
    /\ At(h, "write")
    /\ Revision < MaxRevision
    /\ WriteRow(h) /\ GoTo(h, "detach")
    /\ UNCHANGED <<form, delete, images, told, unheard, faulty>>

\* The insertion ignores a conflict, the update is of the revision loaded: one
\* that changes nothing undoes its uploads.
Write(h) ==
    /\ At(h, "write")
    /\ IF Matches(h) THEN WriteRow(h) /\ GoTo(h, "detach")
       ELSE GoTo(h, "undo") /\ UNCHANGED <<row, applied>>
    /\ UNCHANGED <<form, delete, images, told, unheard, faulty>>

\* The statement throws, whether or not it was committed: the uploads are undone.
WriteFails(h) ==
    /\ At(h, "write")
    /\ GoTo(h, "undo")
    /\ \/ Matches(h) /\ WriteRow(h) /\ unheard' = TRUE
       \/ UNCHANGED <<row, applied, unheard>>
    /\ UNCHANGED <<form, delete, images, told, faulty>>

\* The store may refuse: the object stays, out of reach.
Undo(h) ==
    /\ At(h, "undo") /\ End(h)
    /\ \/ images' = images \ {h} /\ UNCHANGED faulty
       \/ faulty' = TRUE /\ UNCHANGED images
    /\ UNCHANGED <<row, form, delete, applied, told, unheard>>

Detach(h) ==
    /\ At(h, "detach") /\ GoTo(h, "audit")
    /\ \/ images' = images \ (save[h].old \ Images(h)) /\ UNCHANGED faulty
       \/ faulty' = TRUE /\ UNCHANGED images
    /\ UNCHANGED <<row, form, delete, applied, told, unheard>>

\* The row is audited and read again; the answer may be lost on its way.
Answer(h) ==
    /\ At(h, "audit") /\ End(h)
    /\ told' \in {told} \cup (IF Listed THEN {told \cup {OpOf(h)}} ELSE {})
    /\ UNCHANGED <<row, form, delete, images, applied, unheard, faulty>>

Crash(h) ==
    /\ Busy(save[h]) /\ End(h)
    /\ faulty' = TRUE
    /\ UNCHANGED <<row, form, delete, images, applied, told, unheard>>

-----------------------------------------------------------------------------
ReadForDelete(d) ==
    /\ delete[d] = Idle /\ Listed
    /\ delete' = [delete EXCEPT ![d] = [pc |-> "write", old |-> row.images]]
    /\ UNCHANGED <<row, form, save, images, applied, told, unheard, faulty>>

\* Whatever its revision has become, the row is emptied (its own revision is not
\* read again); the images removed are those of the row that was read.
DeleteRow(d) ==
    /\ delete[d] # Idle /\ delete[d].pc = "write"
    /\ IF Listed
       THEN /\ row' = [row EXCEPT !.deleted = TRUE, !.images = {}]
            /\ delete' = [delete EXCEPT ![d].pc = "remove"]
            /\ faulty' = (faulty \/ delete[d].old # row.images)
       ELSE delete' = [delete EXCEPT ![d] = Idle] /\ UNCHANGED <<row, faulty>>
    /\ UNCHANGED <<form, save, images, applied, told, unheard>>

RemoveImages(d) ==
    /\ delete[d] # Idle /\ delete[d].pc = "remove"
    /\ delete' = [delete EXCEPT ![d] = Idle]
    /\ \/ images' = images \ delete[d].old /\ UNCHANGED faulty
       \/ faulty' = TRUE /\ UNCHANGED images
    /\ UNCHANGED <<row, form, save, applied, told, unheard>>

Next ==
    \/ \E h \in Saves : \/ \E o \in Operations : Begin(h, o)
                        \/ ReadOld(h) \/ StoreImage(h) \/ Write(h) \/ WriteFails(h)
                        \/ Undo(h) \/ Detach(h) \/ Answer(h) \/ Crash(h)
    \/ \E d \in Deletes : ReadForDelete(d) \/ DeleteRow(d) \/ RemoveImages(d)

Spec == Init /\ [][Next]_vars
-----------------------------------------------------------------------------
Quiet == (\A h \in Saves : ~Busy(save[h])) /\ (\A d \in Deletes : delete[d] = Idle)

(* However often an operation is repeated and whatever it meets, it changes    *)
(* the row at most once, and the client is told so only if it did; unless a    *)
(* statement was committed unheard, every image of the row is in the store;    *)
(* and unless the store or the process failed, or a deletion met a save, the   *)
(* store is left with those images and no other.                               *)
ItineraryIsWhole ==
    /\ \A o \in Operations : applied[o] <= 1 /\ (o \in told => applied[o] = 1)
    /\ ~unheard => Stored \subseteq images
    /\ Quiet /\ ~unheard /\ ~faulty => images = Stored
=============================================================================

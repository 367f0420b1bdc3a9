--------------------------- MODULE ProfilePicture ---------------------------
(***************************************************************************)
(* The picture of a profile (updateProfile of                              *)
(* admin/users/users.service.ts): uploaded to Cloudinary, then named by    *)
(* the row of the user, and taken back when the update of the row fails.   *)
(***************************************************************************)
CONSTANTS
    Edits,    \* concurrent executions of updateProfile, each with its picture
    NoPicture

NoPictureAssumption == NoPicture \notin Edits

VARIABLES
    edit,   \* where each execution is
    avatar, \* the picture the row of the user names
    images, \* the pictures in Cloudinary
    unsure  \* history: an update reported as failed had been applied

vars == <<edit, avatar, images, unsure>>

TypeOK ==
    /\ edit \in [Edits -> {"idle", "update", "clean", "end"}]
    /\ avatar \in Edits \cup {NoPicture}
    /\ images \subseteq Edits
    /\ unsure \in BOOLEAN

Init ==
    /\ edit = [e \in Edits |-> "idle"]
    /\ avatar = NoPicture
    /\ images = {}
    /\ unsure = FALSE

Step(e, from, to) == edit[e] = from /\ edit' = [edit EXCEPT ![e] = to]

Upload(e) ==
    /\ Step(e, "idle", "update")
    /\ images' = images \cup {e}
    /\ UNCHANGED <<avatar, unsure>>

UploadFails(e) ==
    /\ Step(e, "idle", "end")
    /\ UNCHANGED <<avatar, images, unsure>>

\* The picture that is replaced stays in Cloudinary.
UpdateProfile(e) ==
    /\ Step(e, "update", "end")
    /\ avatar' = e
    /\ UNCHANGED <<images, unsure>>

\* The update fails, or it is applied and its answer is lost.
UpdateFails(e) ==
    /\ Step(e, "update", "clean")
    /\ \/ UNCHANGED <<avatar, unsure>>
       \/ avatar' = e /\ unsure' = TRUE
    /\ UNCHANGED images

\* Mutant: the picture of the row is deleted.
DeleteOldImage(e) ==
    /\ Step(e, "clean", "end")
    /\ images' = images \ {avatar}
    /\ UNCHANGED <<avatar, unsure>>

\* The catch takes the new picture back, and swallows a failure to do so.
DeleteImage(e) ==
    /\ Step(e, "clean", "end")
    /\ images' \in {images, images \ {e}}
    /\ UNCHANGED <<avatar, unsure>>

Next == \E e \in Edits :
    Upload(e) \/ UploadFails(e) \/ UpdateProfile(e) \/ UpdateFails(e) \/ DeleteImage(e)

Spec == Init /\ [][Next]_vars
-----------------------------------------------------------------------------
\* However the edits interleave, the picture a profile names is there, unless
\* an update that had been applied was taken for a failure (updateProfile).
AvatarIsStored == avatar # NoPicture /\ ~unsure => avatar \in images
=============================================================================

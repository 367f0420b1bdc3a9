------------------------------ MODULE Access ------------------------------
(* Who may come in and what they keep: accounts, permissions, staff records,   *)
(* credentials, and the passwords and files of the auxiliary team.  These      *)
(* components share no row and no call, so one run takes them one at a time:   *)
(* "subject" is the component that moves, and the others stay as they began.   *)
EXTENDS Naturals

CONSTANTS
    None,                                      \* no row, no person, no choice
    AccountUsers, AccountRequests, MaxTokens,  \* Accounts
    PermissionUsers, Modules, PermissionSaves, Admins, Actions, ActionGrants,
    People,                                    \* Authorization
    StaffDocuments, Unknown, Values, Blank, MaxRows,
    Edits,                                     \* ProfilePicture
    VaultUsers, VaultOwner, VaultRequests, VaultGrants, MaxChanges,
    Lengths,                                   \* PasswordPolicy
    Uploads, Deletions, Selections, Count, MaxFaults,
    Operations, FirstOperation, Saves, Deletes, MaxRevision,
    Identities, Created, Forms, Imports, MaxWrites

VARIABLES
    subject,   \* the component that moves
    accountsAccount, accountsRequest, accountsSigned, accountsTokens,
    accountsEnded,
    permissionsPermission, permissionsSave, permissionsLast,
    permissionsOvertaken,
    authorizationPerson,
    staffUser, staffSheet, staffResults, staffUnheard,
    pictureEdit, pictureAvatar, pictureImages, pictureUnsure,
    vaultVault, vaultVersions, vaultAudit, vaultGrant, vaultCategory,
    vaultRequest, vaultChanges, vaultFormer, vaultCrossed, vaultOverdue,
    policyOptions, policyWord, policyLevel,
    documentsRow, documentsBucket, documentsUpload, documentsDeletion,
    documentsMet, documentsFaults,
    itineraryRow, itineraryForm, itinerarySave, itineraryDelete,
    itineraryImages, itineraryApplied, itineraryTold, itineraryUnheard,
    itineraryFaulty,
    passwordsEntry, passwordsForm, passwordsImport, passwordsWrites,
    passwordsChanged, passwordsAudit, passwordsMislaid, passwordsReborn

accountsVars == <<accountsAccount, accountsRequest, accountsSigned,
    accountsTokens, accountsEnded>>
permissionsVars == <<permissionsPermission, permissionsSave,
    permissionsLast, permissionsOvertaken>>
authorizationVars == <<authorizationPerson>>
staffVars == <<staffUser, staffSheet, staffResults, staffUnheard>>
pictureVars == <<pictureEdit, pictureAvatar, pictureImages, pictureUnsure>>
vaultVars == <<vaultVault, vaultVersions, vaultAudit, vaultGrant,
    vaultCategory, vaultRequest, vaultChanges, vaultFormer, vaultCrossed,
    vaultOverdue>>
policyVars == <<policyOptions, policyWord, policyLevel>>
documentsVars == <<documentsRow, documentsBucket, documentsUpload,
    documentsDeletion, documentsMet, documentsFaults>>
itineraryVars == <<itineraryRow, itineraryForm, itinerarySave,
    itineraryDelete, itineraryImages, itineraryApplied, itineraryTold,
    itineraryUnheard, itineraryFaulty>>
passwordsVars == <<passwordsEntry, passwordsForm, passwordsImport,
    passwordsWrites, passwordsChanged, passwordsAudit, passwordsMislaid,
    passwordsReborn>>

Accounts == INSTANCE Accounts WITH
    Users <- AccountUsers, Requests <- AccountRequests,
    account <- accountsAccount, request <- accountsRequest,
    signed <- accountsSigned, tokens <- accountsTokens, ended <- accountsEnded
ModulePermissions == INSTANCE ModulePermissions WITH
    Users <- PermissionUsers, Saves <- PermissionSaves, Grants <- ActionGrants,
    permission <- permissionsPermission, save <- permissionsSave,
    last <- permissionsLast, overtaken <- permissionsOvertaken
Authorization == INSTANCE Authorization WITH
    Nobody <- None, person <- authorizationPerson
StaffRecords == INSTANCE StaffRecords WITH
    Documents <- StaffDocuments, user <- staffUser, sheet <- staffSheet,
    results <- staffResults, unheard <- staffUnheard
ProfilePicture == INSTANCE ProfilePicture WITH
    NoPicture <- None, edit <- pictureEdit,
    avatar <- pictureAvatar, images <- pictureImages, unsure <- pictureUnsure
PasswordVault == INSTANCE PasswordVault WITH
    Users <- VaultUsers, Owner <- VaultOwner, Requests <- VaultRequests,
    Grants <- VaultGrants, vault <- vaultVault,
    versions <- vaultVersions, audit <- vaultAudit, grant <- vaultGrant,
    category <- vaultCategory, request <- vaultRequest,
    changes <- vaultChanges, former <- vaultFormer, crossed <- vaultCrossed,
    overdue <- vaultOverdue
PasswordPolicy == INSTANCE PasswordPolicy WITH
    options <- policyOptions, word <- policyWord, level <- policyLevel
AuxDocument == INSTANCE AuxDocument WITH
    row <- documentsRow, bucket <- documentsBucket, upload <- documentsUpload,
    deletion <- documentsDeletion, met <- documentsMet,
    faults <- documentsFaults
AuxItinerary == INSTANCE AuxItinerary WITH
    First <- FirstOperation, row <- itineraryRow, form <- itineraryForm,
    save <- itinerarySave, delete <- itineraryDelete, images <- itineraryImages,
    applied <- itineraryApplied, told <- itineraryTold,
    unheard <- itineraryUnheard, faulty <- itineraryFaulty
AuxPasswords == INSTANCE AuxPasswords WITH
    entry <- passwordsEntry, form <- passwordsForm, import <- passwordsImport,
    writes <- passwordsWrites, changed <- passwordsChanged,
    audit <- passwordsAudit, mislaid <- passwordsMislaid,
    reborn <- passwordsReborn

Components ==
    {"accounts", "permissions", "authorization", "staff", "picture",
     "vault", "policy", "documents", "itinerary", "passwords"}

ASSUME ComponentsAssumption ==
    /\ Accounts!TokensAssumption
    /\ ModulePermissions!AdminsAssumption
    /\ ModulePermissions!GrantsAssumption
    /\ ModulePermissions!NoneAssumption
    /\ Authorization!NobodyAssumption
    /\ StaffRecords!BlankAssumption
    /\ StaffRecords!RowsAssumption
    /\ ProfilePicture!NoPictureAssumption
    /\ PasswordVault!GrantsAssumption
    /\ PasswordVault!OwnerAssumption
    /\ PasswordVault!ChangesAssumption
    /\ PasswordPolicy!LengthsAssumption
    /\ AuxDocument!NoneAssumption
    /\ AuxDocument!BoundsAssumption
    /\ AuxItinerary!AuxItineraryAssumption
    /\ AuxPasswords!AuxPasswordsAssumption

vars ==
    <<subject, accountsVars, permissionsVars, authorizationVars, staffVars,
      pictureVars, vaultVars, policyVars, documentsVars, itineraryVars,
      passwordsVars>>

Init ==
    /\ subject \in Components
    /\ Accounts!Init
    /\ ModulePermissions!Init
    /\ Authorization!Init
    /\ StaffRecords!Init
    /\ ProfilePicture!Init
    /\ PasswordVault!Init
    /\ PasswordPolicy!Init
    /\ AuxDocument!Init
    /\ AuxItinerary!Init
    /\ AuxPasswords!Init

Next ==
    /\ UNCHANGED subject
    /\ IF subject = "accounts" THEN Accounts!Next ELSE UNCHANGED accountsVars
    /\ IF subject = "permissions" THEN ModulePermissions!Next ELSE UNCHANGED permissionsVars
    /\ IF subject = "authorization" THEN Authorization!Next ELSE UNCHANGED authorizationVars
    /\ IF subject = "staff" THEN StaffRecords!Next ELSE UNCHANGED staffVars
    /\ IF subject = "picture" THEN ProfilePicture!Next ELSE UNCHANGED pictureVars
    /\ IF subject = "vault" THEN PasswordVault!Next ELSE UNCHANGED vaultVars
    /\ IF subject = "policy" THEN PasswordPolicy!Next ELSE UNCHANGED policyVars
    /\ IF subject = "documents" THEN AuxDocument!Next ELSE UNCHANGED documentsVars
    /\ IF subject = "itinerary" THEN AuxItinerary!Next ELSE UNCHANGED itineraryVars
    /\ IF subject = "passwords" THEN AuxPasswords!Next ELSE UNCHANGED passwordsVars

Spec == Init /\ [][Next]_vars
-----------------------------------------------------------------------------
(* Every component is in a state of its type.                                  *)
TypesOK ==
    /\ subject \in Components
    /\ subject = "accounts" => Accounts!TypeOK
    /\ subject = "permissions" => ModulePermissions!TypeOK
    /\ subject = "authorization" => Authorization!TypeOK
    /\ subject = "staff" => StaffRecords!TypeOK
    /\ subject = "picture" => ProfilePicture!TypeOK
    /\ subject = "vault" => PasswordVault!TypeOK
    /\ subject = "policy" => PasswordPolicy!TypeOK
    /\ subject = "documents" => AuxDocument!TypeOK
    /\ subject = "itinerary" => AuxItinerary!TypeOK
    /\ subject = "passwords" => AuxPasswords!TypeOK

(* Nobody has a session while the password is the one the system gave them,    *)
(* and after a sign-out with nothing else of the user under way no session     *)
(* comes back until the credentials are shown again (auth.service.ts login,    *)
(* logout, refresh).                                                           *)
SessionsHold == Accounts!OwnPasswordFirst /\ Accounts!SignOutStands

(* The guard lets an employee through to the modules, and the actions of them, *)
(* of the last save that reached them; who is listed to somebody may also be   *)
(* opened by them or, to a leader, has requests reviewed by them               *)
(* (users.service.ts, module-permission.guard.ts, authorization.service.ts).   *)
AdministrationStands ==
    ModulePermissions!LastSaveStands /\ Authorization!ListedIsAccessible

(* What an answer says was done was done: each row of an imported file is in   *)
(* the users, and the picture a profile names is stored (users.service.ts      *)
(* importFromBuffer, auth.service.ts updateProfile).                           *)
RecordsTellFate == StaffRecords!ImportTellsFate /\ ProfilePicture!AvatarIsStored

(* The history of a credential has each password that was replaced, once and   *)
(* in order, and the level and the classes of a password are those of the      *)
(* policy (password-vault.service.ts).                                         *)
VaultHolds == PasswordVault!HistoryIsWhole /\ PasswordPolicy!PolicyHolds

(* The rows of the auxiliary team and the files they name agree: an upload     *)
(* alone is whole, no file is left without a fault, a deleted document does    *)
(* not come back, an operation changes an itinerary once and the images follow *)
(* the row (documents.ts, flights.ts).                                         *)
FilesAreWhole ==
    /\ [](AuxDocument!LoneUploadIsWhole /\ AuxDocument!NoOrphans /\ AuxItinerary!ItineraryIsWhole)
    /\ AuxDocument!DeletedForGood

(* A change by hand of a helper password replaces what its form showed, and    *)
(* imports list no access twice (auxiliary-passwords.ts).                      *)
ChangeIsOfWhatWasShown == AuxPasswords!ChangeIsOfWhatWasShown
=============================================================================

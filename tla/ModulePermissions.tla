------------------------- MODULE ModulePermissions -------------------------
(***************************************************************************)
(* The module permissions of the users (updateUserPermissions and          *)
(* updateUsersPermissionsBulk of admin/users/users.service.ts) and the     *)
(* guard that reads them (common/guards/module-permission.guard.ts).       *)
(*                                                                         *)
(* A save is a transaction of PostgreSQL, READ COMMITTED: for each user a  *)
(* DELETE of the rows there were when the statement began, then an INSERT  *)
(* that skips the rows another transaction has written. What a transaction *)
(* has done is seen by the others once it commits; a row that it removed,  *)
(* or wrote, makes them wait.                                              *)
(***************************************************************************)
EXTENDS FiniteSets

CONSTANTS
    Users,
    Modules,
    Saves,    \* executions of the two operations
    Admins,   \* users of role ADMIN
    Actions,  \* what a route may ask for besides the module
    Grants,   \* the lists of actions a save may give for a module
    None      \* no save, no user, no action

AdminsAssumption == Admins \subseteq Users
GrantsAssumption == Grants \subseteq SUBSET Actions /\ {} \in Grants
NoneAssumption == None \notin Saves \cup Users \cup Actions

VARIABLES
    permission, \* the committed rows: the save that wrote that module of that user
    save,       \* the locals of each execution
    last,       \* history: the last save to commit for the user
    overtaken   \* history: <<save, user>>, when another save of the user committed
                \* while that one was under way

vars == <<permission, save, last, overtaken>>

Rows == Users \X Modules
Labels == {"idle", "delete", "lock", "insert", "commit", "done", "failed"}

Save == [pc: Labels, users: SUBSET Users, modules: SUBSET Modules,
         actions: [Modules -> Grants],
         todo: SUBSET Users,   \* not reached yet
         user: Users \cup {None},
         seen: SUBSET (Rows \X Saves), \* rows the DELETE found, with their writers
         removed: SUBSET Rows, \* not committed yet
         written: SUBSET Rows] \* not committed yet
NoSave == [pc |-> "idle", users |-> {}, modules |-> {},
           actions |-> [m \in Modules |-> {}], todo |-> {}, user |-> None, seen |-> {}, removed |-> {}, written |-> {}]

TypeOK ==
    /\ permission \in [Rows -> Saves \cup {None}]
    /\ save \in [Saves -> Save]
    /\ last \in [Users -> Saves \cup {None}]
    /\ overtaken \subseteq Saves \X Users

Init ==
    /\ permission = [x \in Rows |-> None]
    /\ save = [s \in Saves |-> NoSave]
    /\ last = [u \in Users |-> None]
    /\ overtaken = {}

Open(s) == save[s].pc \in {"delete", "lock", "insert", "commit"}
Held(s) == save[s].removed \cup save[s].written
HeldByOthers(s) == UNION {Held(t) : t \in {t \in Saves : Open(t)} \ {s}}
Committed(u) == {<<x, permission[x]>> : x \in {y \in Rows : y[1] = u /\ permission[y] # None}}
-----------------------------------------------------------------------------
\* A user, or several at once: administrators are refused, or skipped.  The
\* actions of a module come with it, the same for all the users of a save.
Begin(s) ==
    /\ save[s].pc = "idle"
    /\ \E targets \in (SUBSET (Users \ Admins)) \ {{}}, modules \in SUBSET Modules,
          actions \in [Modules -> Grants] :
         /\ \A m \in Modules \ modules : actions[m] = {}
         /\ save' = [save EXCEPT ![s] = [NoSave EXCEPT !.pc = "delete", !.users = targets,
                       !.todo = targets, !.modules = modules, !.actions = actions]]
    /\ UNCHANGED <<permission, last, overtaken>>

\* The rows there are when the DELETE of the next user begins.
BeginDelete(s) ==
    /\ save[s].pc = "delete"
    /\ \E u \in save[s].todo :
         save' = [save EXCEPT ![s].pc = "lock", ![s].todo = @ \ {u}, ![s].user = u,
                              ![s].seen = Committed(u)]
    /\ UNCHANGED <<permission, last, overtaken>>

\* Mutant: no DELETE.
KeepRows(s) ==
    /\ save[s].pc = "lock"
    /\ save' = [save EXCEPT ![s].pc = "insert"]
    /\ UNCHANGED <<permission, last, overtaken>>

\* It waits for the rows another transaction holds; those gone meanwhile are
\* passed over, those written meanwhile were not seen.
DeleteRows(s) ==
    /\ save[s].pc = "lock"
    /\ {v[1] : v \in save[s].seen} \cap HeldByOthers(s) = {}
    /\ save' = [save EXCEPT ![s].pc = "insert",
                  ![s].removed = @ \cup {v[1] : v \in {w \in save[s].seen : permission[w[1]] = w[2]}}]
    /\ UNCHANGED <<permission, last, overtaken>>

New(s) == {save[s].user} \X save[s].modules
Inserted(s) == {x \in New(s) : permission[x] = None \/ x \in save[s].removed}

\* skipDuplicates: a committed row stays as it is; a row another transaction
\* holds is waited for.
InsertRows(s) ==
    /\ save[s].pc = "insert"
    /\ New(s) \cap HeldByOthers(s) = {}
    /\ save' = [save EXCEPT ![s].pc = IF save[s].todo = {} THEN "commit" ELSE "delete",
                            ![s].written = @ \cup Inserted(s)]
    /\ UNCHANGED <<permission, last, overtaken>>

Commit(s) ==
    /\ save[s].pc = "commit"
    /\ permission' = [x \in Rows |-> IF x \in save[s].written THEN s
                                    ELSE IF x \in save[s].removed THEN None
                                    ELSE permission[x]]
    /\ last' = [u \in Users |-> IF u \in save[s].users THEN s ELSE last[u]]
    /\ overtaken' = overtaken \cup
         {x \in Saves \X Users : /\ x[1] # s /\ Open(x[1])
                                 /\ x[2] \in save[s].users \cap save[x[1]].users}
    /\ save' = [save EXCEPT ![s] = [NoSave EXCEPT !.pc = "done",
                   !.users = save[s].users, !.modules = save[s].modules,
                   !.actions = save[s].actions]]

\* A deadlock, the timeout of the transaction or a lost connection undoes it.
Abort(s) ==
    /\ Open(s)
    /\ save' = [save EXCEPT ![s] = [NoSave EXCEPT !.pc = "failed"]]
    /\ UNCHANGED <<permission, last, overtaken>>

Next == \E s \in Saves :
    Begin(s) \/ BeginDelete(s) \/ DeleteRows(s) \/ InsertRows(s) \/ Commit(s) \/ Abort(s)

Spec == Init /\ [][Next]_vars
-----------------------------------------------------------------------------
\* Mutant: an empty list is no action.
ListedOnly(actions, action) == action = None \/ action \in actions

\* A list of actions lets an action through: a route may ask for none, and an
\* empty list is every action.
Allows(actions, action) == action = None \/ actions = {} \/ action \in actions

ActionsOf(user, m) == save[permission[<<user, m>>]].actions[m]

\* The guard of a route that asks for any of the modules, and maybe for an
\* action of one of them: a leader passes on two of the modules, an
\* administrator on all, whatever the action.
CanActivate(user, role, leads, required, action) ==
    \/ required = {}
    \/ role = "ADMIN"
    \/ required \cap {"overtime", "leaves"} # {} /\ (role = "LEADER" \/ leads)
    \/ \E m \in required \cap Modules :
          permission[<<user, m>>] # None /\ Allows(ActionsOf(user, m), action)

\* The actions a save gave for a module, and its modules that answer a route.
Granted(s, m) == IF save[s].actions[m] = {} THEN Actions ELSE save[s].actions[m]
Answering(s, required, action) ==
    {m \in required \cap save[s].modules : action \in Granted(s, m) \cup {None}}

\* The guard lets an employee through to exactly the modules, and the actions of
\* them, of the last save that reached them, unless another of that user
\* committed while that one ran; a save that failed, of one user or of a whole
\* area, has left nothing (the $transaction of both operations and
\* module-permission.guard.ts).
LastSaveStands ==
    /\ \A u \in Users : last[u] # None /\ <<last[u], u>> \notin overtaken =>
         \A required \in (SUBSET Modules) \ {{}}, action \in Actions \cup {None} :
            CanActivate(u, "EMPLOYEE", FALSE, required, action) <=>
               Answering(last[u], required, action) # {}
    /\ \A x \in Rows : permission[x] # None =>
         /\ save[permission[x]].pc = "done"
         /\ x[1] \in save[permission[x]].users /\ x[2] \in save[permission[x]].modules
=============================================================================

----------------------------- MODULE Birthdays -----------------------------
(***************************************************************************)
(* The birthday posts: a job at nine and an administrator by hand run      *)
(* generateBirthdayPostsForToday, which for each active employee of the    *)
(* day looks for the post and creates it if there is none                  *)
(* (birthdays/birthdays.service.ts). Posts may be removed from the feed.   *)
(***************************************************************************)
EXTENDS Naturals, FiniteSets

CONSTANTS
    Employees,
    BirthdayOf,  \* the day of the birth date, 0 for none
    Runs,        \* executions of the job that may overlap
    Posts,       \* identifiers of posts
    LastDay,     \* bound on the days
    None         \* no post

VARIABLES
    today,
    active,   \* the employees with status ACTIVE
    author,   \* resolveSystemAuthorId finds somebody
    post,     \* the BIRTHDAY posts
    run,      \* what each execution is at
    done,     \* history: the employees a whole run of today has passed by
    crossed   \* history: two runs overlapped, or one went on past midnight

vars == <<today, active, author, post, run, done, crossed>>

Idle == [pc |-> "idle"]
Post == [of: Employees, day: 1 .. LastDay, deleted: BOOLEAN]

BirthdaysAssumption ==
    BirthdayOf \in [Employees -> Nat] /\ LastDay \in Nat \ {0} /\ None \notin Post

TypeOK ==
    /\ today \in 1 .. LastDay
    /\ active \subseteq Employees
    /\ author \in BOOLEAN
    /\ \A p \in Posts : post[p] = None \/ post[p] \in Post
    /\ \A r \in Runs : run[r] = Idle \/ (run[r].pc \in {"look", "create"} /\ run[r].left \subseteq Employees)
    /\ done \subseteq Employees
    /\ crossed \in BOOLEAN

Init ==
    /\ today = 1
    /\ active = Employees
    /\ author = TRUE
    /\ post = [p \in Posts |-> None]
    /\ run = [r \in Runs |-> Idle]
    /\ done = {}
    /\ crossed = FALSE

PostsOf(u, day) == {p \in Posts : post[p] # None /\ post[p].of = u /\ post[p].day = day /\ ~post[p].deleted}
-----------------------------------------------------------------------------
\* The employees of the day are read once; then one after the other.
BeginRun(r) ==
    /\ run[r] = Idle
    /\ run' = [run EXCEPT ![r] =
                 [pc |-> "look", day |-> today,
                  left |-> {u \in active : BirthdayOf[u] = today}, all |-> {u \in active : BirthdayOf[u] = today}]]
    /\ crossed' = (crossed \/ \E q \in Runs : run[q] # Idle)
    /\ UNCHANGED <<today, active, author, post, done>>

\* Mutant: nobody is looked up.
LookAtNobody(r) ==
    /\ run[r] # Idle /\ run[r].pc = "look"
    /\ \E u \in run[r].left :
         run' = [run EXCEPT ![r] = [pc |-> "create", day |-> run[r].day, all |-> run[r].all,
                                    left |-> run[r].left \ {u}, user |-> u]]
    /\ UNCHANGED <<today, active, author, post, done, crossed>>

\* One that has its post is skipped.
Look(r) ==
    /\ run[r] # Idle /\ run[r].pc = "look"
    /\ \E u \in run[r].left :
         run' = [run EXCEPT ![r] =
                   IF PostsOf(u, run[r].day) # {} THEN [run[r] EXCEPT !.left = @ \ {u}]
                   ELSE [pc |-> "create", day |-> run[r].day, all |-> run[r].all,
                         left |-> run[r].left \ {u}, user |-> u]]
    /\ UNCHANGED <<today, active, author, post, done, crossed>>

\* createBirthdayPost; without an author it throws, and the run ends there.
Create(r) ==
    /\ run[r] # Idle /\ run[r].pc = "create" /\ author
    /\ \E p \in Posts :
         /\ post[p] = None
         /\ post' = [post EXCEPT ![p] = [of |-> run[r].user, day |-> today, deleted |-> FALSE]]
    /\ run' = [run EXCEPT ![r] = [pc |-> "look", day |-> @.day, left |-> @.left, all |-> @.all]]
    /\ UNCHANGED <<today, active, author, done, crossed>>

CreateFails(r) ==
    /\ run[r] # Idle /\ run[r].pc = "create"
    /\ run' = [run EXCEPT ![r] = Idle]
    /\ UNCHANGED <<today, active, author, post, done, crossed>>

EndRun(r) ==
    /\ run[r] # Idle /\ run[r].pc = "look" /\ run[r].left = {}
    /\ done' = IF run[r].day = today THEN done \cup run[r].all ELSE done
    /\ run' = [run EXCEPT ![r] = Idle]
    /\ UNCHANGED <<today, active, author, post, crossed>>

\* remove, in the feed.
RemovePost ==
    /\ \E p \in Posts :
         /\ post[p] # None /\ ~post[p].deleted
         /\ post' = [post EXCEPT ![p].deleted = TRUE]
    /\ UNCHANGED <<today, active, author, run, done, crossed>>

\* The users module: an employee leaves; the system author is configured or not.
StaffChanges ==
    /\ \/ \E u \in active : active' = active \ {u} /\ UNCHANGED author
       \/ author' = ~author /\ UNCHANGED active
    /\ UNCHANGED <<today, post, run, done, crossed>>

Midnight ==
    /\ today < LastDay
    /\ today' = today + 1
    /\ done' = {}
    /\ crossed' = (crossed \/ \E r \in Runs : run[r] # Idle)
    /\ UNCHANGED <<active, author, post, run>>

Next ==
    \/ \E r \in Runs : BeginRun(r) \/ Look(r) \/ Create(r) \/ CreateFails(r) \/ EndRun(r)
    \/ RemovePost \/ StaffChanges \/ Midnight

Spec == Init /\ [][Next]_vars
-----------------------------------------------------------------------------
\* However often the job runs, fails half way and is run again by hand, an
\* employee has one post on the day of the birthday and none on another; once
\* a run has ended, everyone of the day has had one. Two runs that overlap may
\* make two (generateBirthdayPostsForToday).
OnePostPerBirthday ==
    ~crossed =>
        /\ \A u \in Employees, day \in 1 .. LastDay :
             /\ Cardinality(PostsOf(u, day)) <= 1
             /\ PostsOf(u, day) # {} => BirthdayOf[u] = day
        /\ \A u \in done : \E p \in Posts : post[p] # None /\ post[p].of = u /\ post[p].day = today
=============================================================================

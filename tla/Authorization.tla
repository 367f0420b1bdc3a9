--------------------------- MODULE Authorization ---------------------------
(***************************************************************************)
(* Who may open whose data, and who is listed to whom                      *)
(* (common/authorization/authorization.service.ts), over every             *)
(* organisation of the given people: a step reassigns somebody's leader or *)
(* manager, or changes a role, as updateUserAdministrator does.            *)
(***************************************************************************)
EXTENDS FiniteSets

CONSTANTS People, Nobody

NobodyAssumption == Nobody \notin People

VARIABLE person \* role, isLeader, leaderId and managerId of each user

Roles == {"ADMIN", "MANAGER", "LEADER", "EMPLOYEE"}
Person == [role: Roles, leads: BOOLEAN, leader: People \cup {Nobody},
           manager: People \cup {Nobody}]

vars == <<person>>

TypeOK == person \in [People -> Person]

Init == person = [p \in People |-> [role |-> "EMPLOYEE", leads |-> FALSE,
                                    leader |-> Nobody, manager |-> Nobody]]

UpdateUserAdministrator(p) ==
    \/ \E q \in People \cup {Nobody} : person' = [person EXCEPT ![p].leader = q]
    \/ \E q \in People \cup {Nobody} : person' = [person EXCEPT ![p].manager = q]
    \/ \E role \in Roles : person' = [person EXCEPT ![p].role = role]
    \/ \E leads \in BOOLEAN : person' = [person EXCEPT ![p].leads = leads]

Next == \E p \in People : UpdateUserAdministrator(p)

Spec == Init /\ [][Next]_vars
-----------------------------------------------------------------------------
Is(actor, role) == person[actor].role = role
Leads(actor) == Is(actor, "LEADER") \/ person[actor].leads
ManagerOf(p) == IF p = Nobody THEN Nobody ELSE person[p].manager

\* Mutant: anybody with an employee of their own passes as a manager.
CanAccessLoosely(actor, target) ==
    \/ Is(actor, "ADMIN") \/ actor = target
    \/ person[target].manager = actor

CanAccessUser(actor, target) ==
    \/ Is(actor, "ADMIN")
    \/ actor = target
    \/ /\ Is(actor, "MANAGER")
       /\ actor \in {person[target].manager, ManagerOf(person[target].leader)}

\* Who reviews a request that names that leader.
CanReviewRequest(actor, leader) == Is(actor, "ADMIN") \/ actor = leader

\* The filter of the listings, by the first of the roles that applies.
ScopeForUserQuery(actor) ==
    {target \in People :
       \/ Is(actor, "ADMIN")
       \/ target = actor
       \/ /\ ~Is(actor, "ADMIN") /\ Leads(actor)
          /\ person[target].leader = actor
       \/ /\ Is(actor, "MANAGER") /\ ~Leads(actor)
          /\ \/ person[target].manager = actor
             \/ /\ person[target].leader # Nobody
                /\ Leads(person[target].leader)
                /\ ManagerOf(person[target].leader) = actor}

-----------------------------------------------------------------------------
\* Who is listed to somebody may also be opened by them or, to a leader, has
\* their requests reviewed by them; somebody who leads nobody may open all who
\* are listed to them; a leader's listing leaves out none whose requests they
\* review; and an employee reaches nobody else, whatever the reassignments
\* (canAccessUser, canReviewRequest and scopeForUserQuery).
ListedIsAccessible ==
    \A actor \in People :
        /\ \A target \in ScopeForUserQuery(actor) :
              \/ CanAccessUser(actor, target)
              \/ Leads(actor) /\ CanReviewRequest(actor, person[target].leader)
        /\ Leads(actor) =>
              {target \in People : CanReviewRequest(actor, person[target].leader)}
                 \subseteq ScopeForUserQuery(actor)
        /\ Is(actor, "EMPLOYEE") =>
              {target \in People : CanAccessUser(actor, target)} = {actor}
=============================================================================

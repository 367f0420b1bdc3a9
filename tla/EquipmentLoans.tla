--------------------------- MODULE EquipmentLoans ---------------------------
(***************************************************************************)
(* One piece of equipment, its loans (equipment-loans.service.ts) and its  *)
(* maintenance requests (maintenance.service.ts).                          *)
(*                                                                         *)
(* Both services write the status of the equipment and both read the rows  *)
(* of the loans.  Every statement is its own transaction: a handler is a   *)
(* sequence of reads and unconditional writes, and whatever it validated   *)
(* may have changed when it writes.  met remembers that two executions     *)
(* overlapped: the properties that begin with ~met are what the checks of  *)
(* the handlers are worth when requests come one at a time.                *)
(*                                                                         *)
(* CLOSED stands for the final statuses, which no statement of the two     *)
(* services tells apart: RETURNED, REJECTED and CANCELLED of a loan,       *)
(* RESOLVED, REJECTED and CANCELLED of a maintenance request.              *)
(***************************************************************************)
EXTENDS Naturals, FiniteSets

CONSTANTS
    Handlers,      \* concurrent executions of the handlers
    Users,
    Nobody,
    MaxLoans,      \* bound on the loans ever requested
    MaxRequests,   \* bound on the maintenance requests ever made
    MaxFaults      \* bound on process deaths and failed statements

ASSUME ConstantsAssumption ==
    /\ Nobody \notin Users
    /\ MaxLoans \in Nat /\ MaxRequests \in Nat /\ MaxFaults \in Nat

VARIABLES
    equipment,   \* the status of the equipment
    byHand,      \* history, kept until two executions overlap: the last to write
                 \* the status was an administrator, by hand
    loans,       \* the equipment_loans rows, in the order of their creation
    requests,    \* the status of the maintenance_requests rows, in that order
    work,        \* the locals of each handler
    approved,    \* history: the loans that were APPROVED at some time
    met,         \* history: two executions overlapped
    faults       \* process deaths and failed statements so far

vars == <<equipment, byHand, loans, requests, work, approved, met, faults>>

Loans == 1 .. MaxLoans
Requests == 1 .. MaxRequests
EquipmentStatus == {"AVAILABLE", "LOANED", "MAINTENANCE", "DAMAGED"}
LoanStatus == {"none", "PENDING", "APPROVED", "LOANED", "CLOSED"}
MaintenanceStatus == {"none", "PENDING", "IN_REVIEW", "IN_PROGRESS", "CLOSED"}
NoLoan == [status |-> "none", user |-> Nobody]

Labels == {"idle", "loan.busy", "loan.insert", "loan.equipment", "loan.write",
           "maint.holder", "maint.busy", "maint.insert", "maint.equipment",
           "maint.write", "maint.loaned", "maint.restore"}
Work == [pc: Labels, user: Users \cup {Nobody}, id: Nat, to: LoanStatus \cup MaintenanceStatus,
         loaned: BOOLEAN]
Idle == [pc |-> "idle", user |-> Nobody, id |-> 0, to |-> "none", loaned |-> FALSE]

TypeOK ==
    /\ equipment \in EquipmentStatus
    /\ byHand \in BOOLEAN
    /\ loans \in [Loans -> [status: LoanStatus, user: Users \cup {Nobody}]]
    /\ requests \in [Requests -> MaintenanceStatus]
    /\ work \in [Handlers -> Work]
    /\ approved \subseteq Loans
    /\ met \in BOOLEAN
    /\ faults \in 0 .. MaxFaults

Init ==
    /\ equipment = "AVAILABLE"
    /\ byHand = FALSE
    /\ loans = [l \in Loans |-> NoLoan]
    /\ requests = [r \in Requests |-> "none"]
    /\ work = [h \in Handlers |-> Idle]
    /\ approved = {}
    /\ met = FALSE
    /\ faults = 0

Enter(h, locals) ==
    /\ work[h] = Idle
    /\ work' = [work EXCEPT ![h] = locals]
    /\ met' = (met \/ \E other \in Handlers \ {h} : work[other] # Idle)
    /\ byHand' = (byHand /\ ~met')
Proceed(h, label) == work' = [work EXCEPT ![h] = [work[h] EXCEPT !.pc = label]]
Leave(h) == work' = [work EXCEPT ![h] = Idle]

\* The row with the given identifier is the next one to be inserted.
NextRow(rows, none, id) == \A other \in DOMAIN rows : rows[other] = none <=> other >= id
-----------------------------------------------------------------------------
(* createLoan.                                                             *)

\* Mutant: the approved loans are forgotten.
InCourseForgetful == {"PENDING", "LOANED"}

\* The statuses in which a loan is "en curso".
InCourse == {"PENDING", "APPROVED", "LOANED"}

BeginLoan(h, user) ==
    /\ equipment = "AVAILABLE"
    /\ Enter(h, [Idle EXCEPT !.pc = "loan.busy", !.user = user])
    /\ UNCHANGED <<equipment, loans, requests, approved, faults>>

\* The query for another loan in course; the execution ends if there is one.
CheckLoans(h) ==
    /\ work[h].pc = "loan.busy"
    /\ IF \E l \in Loans : loans[l].status \in InCourse
       THEN Leave(h)
       ELSE Proceed(h, "loan.insert")
    /\ UNCHANGED <<equipment, byHand, loans, requests, approved, met, faults>>

InsertLoan(h) ==
    /\ work[h].pc = "loan.insert"
    /\ \E l \in Loans :
        /\ NextRow(loans, NoLoan, l)
        /\ loans' = [loans EXCEPT ![l] = [status |-> "PENDING", user |-> work[h].user]]
    /\ Leave(h)
    /\ UNCHANGED <<equipment, byHand, requests, approved, met, faults>>
-----------------------------------------------------------------------------
(* updateLoanStatus and cancelLoan.                                        *)

\* Mutant: technology may deliver what was not approved yet.
LoanTransitionDirect(from, to) ==
    \/ from = "PENDING" /\ to \in {"APPROVED", "LOANED", "CLOSED"}
    \/ from = "APPROVED" /\ to \in {"LOANED", "CLOSED"}
    \/ from = "LOANED" /\ to = "CLOSED"

\* The transitions the service allows.  OVERDUE is in its table, but the
\* request's enumeration does not have it: no loan ever becomes OVERDUE.
LoanTransition(from, to) ==
    \/ from = "PENDING" /\ to \in {"APPROVED", "CLOSED"}
    \/ from = "APPROVED" /\ to \in {"LOANED", "CLOSED"}
    \/ from = "LOANED" /\ to = "CLOSED"

\* What a transition makes of the equipment, if it makes anything of it.
EquipmentAfter(from, to) ==
    CASE to = "LOANED" -> {"LOANED"}
      [] from = "LOANED" -> {"AVAILABLE"}
      [] OTHER -> {}

\* The loan is read and the transition validated.  Who may ask for which
\* transition is left out: somebody may ask for each.
BeginTransition(h, l, to) ==
    /\ LoanTransition(loans[l].status, to)
    /\ Enter(h, [Idle EXCEPT !.id = l, !.to = to,
                             !.loaned = EquipmentAfter(loans[l].status, to) = {"LOANED"},
                             !.pc = IF EquipmentAfter(loans[l].status, to) = {}
                                    THEN "loan.write" ELSE "loan.equipment"])
    /\ UNCHANGED <<equipment, loans, requests, approved, faults>>

MoveEquipment(h) ==
    /\ work[h].pc = "loan.equipment"
    /\ equipment' = IF work[h].loaned THEN "LOANED" ELSE "AVAILABLE"
    /\ byHand' = FALSE
    /\ Proceed(h, "loan.write")
    /\ UNCHANGED <<loans, requests, approved, met, faults>>

\* The status read at the beginning is not looked at again.
WriteLoan(h) ==
    /\ work[h].pc = "loan.write"
    /\ loans' = [loans EXCEPT ![work[h].id] = [loans[work[h].id] EXCEPT !.status = work[h].to]]
    /\ approved' = IF work[h].to = "APPROVED" THEN approved \cup {work[h].id} ELSE approved
    /\ Leave(h)
    /\ UNCHANGED <<equipment, byHand, requests, met, faults>>
-----------------------------------------------------------------------------
(* The maintenance service's create.                                       *)

\* Mutant: a request under review does not count.
ActiveRequestForgetful == {"PENDING", "IN_PROGRESS"}

\* The statuses in which a maintenance request is open.
ActiveRequest == {"PENDING", "IN_REVIEW", "IN_PROGRESS"}

BeginRequest(h, user) ==
    /\ equipment # "MAINTENANCE"
    /\ Enter(h, [Idle EXCEPT !.user = user,
                             !.pc = IF equipment = "LOANED" THEN "maint.holder"
                                                            ELSE "maint.busy"])
    /\ UNCHANGED <<equipment, loans, requests, approved, faults>>

\* A loaned equipment: findFirst returns one of the delivered loans.
CheckHolder(h) ==
    /\ work[h].pc = "maint.holder"
    /\ \/ /\ \E l \in Loans : loans[l] = [status |-> "LOANED", user |-> work[h].user]
          /\ Proceed(h, "maint.busy")
       \/ /\ \/ \E l \in Loans : loans[l].status = "LOANED" /\ loans[l].user # work[h].user
             \/ \A l \in Loans : loans[l].status # "LOANED"
          /\ Leave(h)
    /\ UNCHANGED <<equipment, byHand, loans, requests, approved, met, faults>>

CheckRequests(h) ==
    /\ work[h].pc = "maint.busy"
    /\ IF \E r \in Requests : requests[r] \in ActiveRequest
       THEN Leave(h)
       ELSE work' = [work EXCEPT ![h] = [Idle EXCEPT !.pc = "maint.insert"]]
    /\ UNCHANGED <<equipment, byHand, loans, requests, approved, met, faults>>

InsertRequest(h) ==
    /\ work[h].pc = "maint.insert"
    /\ \E r \in Requests :
        /\ NextRow(requests, "none", r)
        /\ requests' = [requests EXCEPT ![r] = "PENDING"]
    /\ Proceed(h, "maint.equipment")
    /\ UNCHANGED <<equipment, byHand, loans, approved, met, faults>>

SendToMaintenance(h) ==
    /\ work[h].pc = "maint.equipment"
    /\ equipment' = "MAINTENANCE"
    /\ byHand' = FALSE
    /\ Leave(h)
    /\ UNCHANGED <<loans, requests, approved, met, faults>>
-----------------------------------------------------------------------------
(* updateStatus and cancel of the maintenance service.                     *)

MaintenanceTransition(from, to) ==
    \/ from = "PENDING" /\ to \in {"IN_REVIEW", "CLOSED"}
    \/ from = "IN_REVIEW" /\ to \in {"IN_PROGRESS", "CLOSED"}
    \/ from = "IN_PROGRESS" /\ to = "CLOSED"

\* Mutant: an equipment that comes back from maintenance is always available.
AfterMaintenanceAvailable(isLoaned) == "AVAILABLE"

\* Mutant: the final status of the request is written to the equipment.
AfterMaintenanceClosed(isLoaned) == IF isLoaned THEN "LOANED" ELSE "CLOSED"

\* The status of the equipment after its maintenance.
AfterMaintenance(isLoaned) == IF isLoaned THEN "LOANED" ELSE "AVAILABLE"

BeginSettle(h, r, to) ==
    /\ MaintenanceTransition(requests[r], to)
    /\ Enter(h, [Idle EXCEPT !.id = r, !.to = to, !.pc = "maint.write"])
    /\ UNCHANGED <<equipment, loans, requests, approved, faults>>

WriteRequest(h) ==
    /\ work[h].pc = "maint.write"
    /\ requests' = [requests EXCEPT ![work[h].id] = work[h].to]
    /\ IF work[h].to = "CLOSED"
       THEN Proceed(h, "maint.loaned")
       ELSE Leave(h)
    /\ UNCHANGED <<equipment, byHand, loans, approved, met, faults>>

ReadDelivered(h) ==
    /\ work[h].pc = "maint.loaned"
    /\ work' = [work EXCEPT ![h] =
                  [work[h] EXCEPT !.loaned = \E l \in Loans : loans[l].status = "LOANED",
                                  !.pc = "maint.restore"]]
    /\ UNCHANGED <<equipment, byHand, loans, requests, approved, met, faults>>

RestoreEquipment(h) ==
    /\ work[h].pc = "maint.restore"
    /\ equipment' = AfterMaintenance(work[h].loaned)
    /\ byHand' = FALSE
    /\ Leave(h)
    /\ UNCHANGED <<loans, requests, approved, met, faults>>
-----------------------------------------------------------------------------
\* updateEquipment: an administrator writes the status, any of the four, whatever
\* the loans and the maintenance requests say.
UpdateEquipment ==
    /\ equipment' \in EquipmentStatus
    /\ byHand' = ~met
    /\ UNCHANGED <<loans, requests, work, approved, met, faults>>

\* A statement fails and its execution ends with an error.
StatementFails(h) ==
    /\ faults < MaxFaults
    /\ work[h] # Idle
    /\ Leave(h)
    /\ faults' = faults + 1
    /\ UNCHANGED <<equipment, byHand, loans, requests, approved, met>>

\* The process dies and every execution with it.
Crash ==
    /\ faults < MaxFaults
    /\ \E h \in Handlers : work[h] # Idle
    /\ work' = [h \in Handlers |-> Idle]
    /\ faults' = faults + 1
    /\ UNCHANGED <<equipment, byHand, loans, requests, approved, met>>

Next ==
    \/ \E h \in Handlers :
        \/ \E user \in Users : BeginLoan(h, user) \/ BeginRequest(h, user)
        \/ \E l \in Loans, to \in LoanStatus : BeginTransition(h, l, to)
        \/ \E r \in Requests, to \in MaintenanceStatus : BeginSettle(h, r, to)
        \/ CheckLoans(h) \/ InsertLoan(h) \/ MoveEquipment(h) \/ WriteLoan(h)
        \/ CheckHolder(h) \/ CheckRequests(h) \/ InsertRequest(h) \/ SendToMaintenance(h)
        \/ WriteRequest(h) \/ ReadDelivered(h) \/ RestoreEquipment(h)
        \/ StatementFails(h)
    \/ UpdateEquipment
    \/ Crash

Spec == Init /\ [][Next]_vars
-----------------------------------------------------------------------------
(* Properties.                                                             *)

LoansInCourse == {l \in Loans : loans[l].status \in {"PENDING", "APPROVED", "LOANED"}}
ActiveRequests == {r \in Requests :
                      requests[r] \in {"PENDING", "IN_REVIEW", "IN_PROGRESS"}}
Quiet == ~met /\ \A h \in Handlers : work[h] = Idle

\* As long as requests come one at a time, an equipment has at most one loan in
\* course, whatever statement of whatever handler failed: the status of the
\* equipment alone would not tell, since it stays AVAILABLE until the delivery.
OneLoanAtATime == ~met => Cardinality(LoansInCourse) <= 1

\* The same of the maintenance requests: a delivery may take the equipment out
\* of MAINTENANCE while its request is open, and the second request is refused
\* because of the request, not of the status.
OneRequestAtATime == ~met => Cardinality(ActiveRequests) <= 1

\* One loan and one maintenance request in course, as long as nothing overlaps.
OneInCourse == OneLoanAtATime /\ OneRequestAtATime

\* With requests one at a time and no failed statement, a status that one of the
\* two services was the last to write agrees with the loans: what is delivered is
\* not offered, and what is LOANED is with somebody.  That holds again at the
\* next write of a service after an administrator wrote any status by hand, at
\* whatever point of the life of a loan; until then the status says what the
\* administrator wrote.
StatusTellsHolder ==
    Quiet /\ faults = 0 /\ ~byHand =>
        /\ (\E l \in Loans : loans[l].status = "LOANED") => equipment # "AVAILABLE"
        /\ equipment = "LOANED" => \E l \in Loans : loans[l].status = "LOANED"

\* Nobody holds the equipment on a loan that was never approved, even when
\* approvals, cancellations and deliveries of one loan overlap.
DeliveredWasApproved ==
    \A l \in Loans : loans[l].status = "LOANED" => l \in approved

\* The equipment is where its status and its loans say, with somebody entitled.
HolderIsKnown == StatusTellsHolder /\ DeliveredWasApproved
=============================================================================

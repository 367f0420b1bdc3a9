------------------------------- MODULE Leaves -------------------------------
(***************************************************************************)
(* The absences of one employee: leaves.service.ts and the guard           *)
(* leave-leader.guard.ts.                                                  *)
(*                                                                         *)
(* A request is checked against the others (dates) and against the balance *)
(* of vacation days, and then created; whoever decides about it reads it,  *)
(* validates what was read and writes by identifier. Nothing holds the     *)
(* rows in between, so raced remembers which overlaps happened, and each   *)
(* property names the overlaps it does not survive.                        *)
(*                                                                         *)
(* An execution may end between any two statements (a failed statement, a  *)
(* stopped process): Abandon.                                              *)
(*                                                                         *)
(* The rows that the migration of historical vacations writes, which       *)
(* nothing checks, are left out.                                           *)
(***************************************************************************)
EXTENDS Integers, FiniteSets, Functions

CONSTANTS
    Handlers,      \* concurrent executions
    MaxRequests,   \* bound on the requests of the employee
    LastDay,       \* bound on the calendar, whose days are 0 .. LastDay
    WorkDays,      \* the days that are neither Sundays nor holidays
    Asked,         \* the absences asked for: <<kind, first day, last day>>
    Compensations, \* how many days the employee asks to be paid instead
    Adjustments,   \* the adjustments RRHH may give, the first one being 0
    Debt,          \* minus MIN_VACATIONS_DAYS_PER_YEAR
    DaysPerYear,   \* VACATIONS_DAYS_PER_YEAR
    YearLength,    \* the 360 days of the accrual
    Starts,        \* the dates on which the contract may begin
    Overlaps,      \* bound: the kinds of overlap that happen
    MaxRaced       \* bound: after so many kinds of overlap there is no other one

ASSUME ConstantsAssumption ==
    /\ MaxRequests \in Nat /\ LastDay \in Nat
    /\ WorkDays \subseteq 0 .. LastDay
    /\ Asked \subseteq {"vacation", "other"} \X (0 .. LastDay) \X (0 .. LastDay)
    /\ Compensations \subseteq Nat \ {0}
    /\ 0 \in Adjustments /\ Adjustments \subseteq Int
    /\ {Debt, DaysPerYear} \subseteq Nat /\ YearLength \in Nat \ {0}
    /\ Starts \subseteq Int /\ \A date \in Starts : date <= LastDay + 1
    /\ Overlaps \subseteq {"creations", "decisions", "sums"} /\ MaxRaced \in Nat

VARIABLES
    today,       \* the date
    adjustment,  \* vacationDaysAdjustment of the employee
    start,       \* startDate of the employee
    requests,    \* the leave_requests rows, in the order of their creation
    work,        \* the locals of each execution
    best,        \* history: the highest adjustment so far
    first,       \* history: the earliest startDate so far
    blind,       \* history: the requests checked against the adjustment alone
    accepted,    \* history: the compensated requests RRHH accepted
    reverted,    \* history: the requests that were given back and taken again
    told,        \* history: how often accounting was told of a request
    raced        \* history: the kinds of overlap that happened

vars == <<today, adjustment, start, requests, work, best, first, blind, accepted, reverted,
          told, raced>>
employee == <<adjustment, start, best, first>>

\* No date: it behaves like the dates that do not come.
Unset == LastDay + 1

Requests == 1 .. MaxRequests
Days == 0 .. LastDay
Kinds == {"vacation", "compensated", "other"}
LeaveStatus == {"none", "PENDING_HR_VALIDATION", "PENDING", "APPROVED", "REJECTED", "CANCELLED"}
Request == [status: LeaveStatus, kind: Kinds, from: Days, to: Days, days: Nat,
            hrValidated: BOOLEAN, notTaken: BOOLEAN]
NoRequest == [status |-> "none", kind |-> "other", from |-> 0, to |-> 0, days |-> 0,
              hrValidated |-> FALSE, notTaken |-> FALSE]

Acts == {"none", "accept", "refuse", "approve", "reject", "cancel", "giveBack", "revert"}
Work == [pc: {"idle", "overlap", "taken", "pending", "insert", "write", "email"},
         request: Request, id: 0 .. MaxRequests, act: Acts, adjustment: Int, start: Int,
         available: Int, blind: BOOLEAN]
Idle == [pc |-> "idle", request |-> NoRequest, id |-> 0, act |-> "none",
         adjustment |-> 0, start |-> Unset, available |-> 0, blind |-> FALSE]

TypeOK ==
    /\ today \in Days
    /\ {adjustment, best} \subseteq Adjustments
    /\ {start, first} \subseteq Starts \cup {Unset}
    /\ requests \in [Requests -> Request]
    /\ work \in [Handlers -> Work]
    /\ accepted \subseteq Requests /\ reverted \subseteq Requests /\ blind \subseteq Requests
    /\ told \in [Requests -> Nat]
    /\ raced \subseteq Overlaps

Init ==
    /\ today = 0
    /\ adjustment = 0 /\ best = 0
    /\ start \in Starts \cup {Unset} /\ first = start
    /\ requests = [i \in Requests |-> NoRequest]
    /\ work = [h \in Handlers |-> Idle]
    /\ accepted = {} /\ reverted = {} /\ blind = {}
    /\ told = [i \in Requests |-> 0]
    /\ raced = {}

Continue(h, locals) == work' = [work EXCEPT ![h] = locals]
GoTo(h, label) == Continue(h, [work[h] EXCEPT !.pc = label])
Leave(h) == Continue(h, Idle)

\* An overlap of some kind happens, if the condition holds.
Race(kind, condition) ==
    /\ condition => kind \in Overlaps /\ Cardinality(raced) < MaxRaced
    /\ raced' = IF condition THEN raced \cup {kind} ELSE raced
Creating(h) == work[h].pc \in {"overlap", "taken", "pending", "insert"}
Deciding(h, i) == work[h].pc \in {"write", "email"} /\ work[h].id = i
-----------------------------------------------------------------------------
(* The balance.                                                            *)

\* countBusinessDays: both ends included.
BusinessDays(from, to) == Cardinality((from .. to) \cap WorkDays)

\* The accrual of so many days in hundredths, cut, and then rounded to the nearest
\* day.
Earned(worked) == ((worked * DaysPerYear * 100) \div YearLength + 50) \div 100

\* Nothing accrues before the contract begins.
Accrued(from, day) == IF from > day THEN 0 ELSE Earned(day - from)

\* Mutant: what RRHH has yet to see is the only thing that is pending.
CountsAsPendingHr(r) == r.kind # "other" /\ r.status = "PENDING_HR_VALIDATION"

\* The days a new vacation has to leave room for.
CountsAsPending(r) == r.kind # "other" /\ r.status = "PENDING" /\ ~r.notTaken
CountsAsTaken(r) == r.kind # "other" /\ r.status = "APPROVED" /\ ~r.notTaken

SumDays(chosen) == SumFunctionOnSet([i \in Requests |-> requests[i].days], chosen)
-----------------------------------------------------------------------------
(* create: one query after the other.                                      *)

Absence(kind, from, to, days) ==
    [NoRequest EXCEPT !.kind = kind, !.from = from, !.to = to, !.days = days]

\* The user is read at the beginning: the balance is checked with that adjustment
\* and that startDate.
Asks(label, checked, absence) ==
    [Idle EXCEPT !.pc = label, !.request = absence,
                 !.adjustment = IF checked THEN adjustment ELSE 0,
                 !.start = IF checked THEN start ELSE Unset]

BeginCreate(h) ==
    /\ work[h] = Idle
    /\ \/ \E ask \in Asked :
            /\ BusinessDays(ask[2], ask[3]) > 0
            /\ Continue(h, Asks("overlap", ask[1] = "vacation",
                               Absence(ask[1], ask[2], ask[3], BusinessDays(ask[2], ask[3]))))
       \/ \E days \in Compensations :
            Continue(h, Asks("taken", TRUE, Absence("compensated", today, today, days)))
    /\ Race("creations", \E other \in Handlers \ {h} : Creating(other))
    /\ UNCHANGED <<today, employee, requests, blind, accepted, reverted, told>>

\* Mutant: the end of one absence may be the beginning of another.
CrossStrictly(r, s) == r.from < s.to /\ r.to > s.from

Cross(r, s) == r.from <= s.to /\ r.to >= s.from

Active(r) == r.status \in {"PENDING", "APPROVED"}

CheckOverlap(h) ==
    /\ work[h].pc = "overlap"
    /\ IF \E i \in Requests : Active(requests[i]) /\ Cross(requests[i], work[h].request)
       THEN Leave(h)
       ELSE GoTo(h, IF work[h].request.kind = "vacation" THEN "taken" ELSE "insert")
    /\ UNCHANGED <<today, employee, requests, blind, accepted, reverted, told, raced>>

\* The check of the limit, once the balance is known.
Decide(h, projected, locals) ==
    IF projected - work[h].request.days < 0 - Debt
    THEN Leave(h)
    ELSE Continue(h, [locals EXCEPT !.pc = "insert"])

\* Without a startDate, or before it, calculateVacationBalance returns at once:
\* the balance is the adjustment, whatever was approved or is pending.
NotBegun(h) ==
    /\ work[h].pc = "taken" /\ work[h].start > today
    /\ Decide(h, work[h].adjustment,
              [work[h] EXCEPT !.adjustment = 0, !.start = Unset, !.blind = TRUE])
    /\ UNCHANGED <<today, employee, requests, blind, accepted, reverted, told, raced>>

\* The approved days; the adjustment and the startDate are those that were read
\* with the user.
ReadTaken(h) ==
    /\ work[h].pc = "taken" /\ work[h].start <= today
    /\ Continue(h, [work[h] EXCEPT !.pc = "pending", !.adjustment = 0, !.start = Unset,
                      !.available = Accrued(work[h].start, today) + work[h].adjustment
                          - SumDays({i \in Requests : CountsAsTaken(requests[i])})])
    /\ UNCHANGED <<today, employee, requests, blind, accepted, reverted, told, raced>>

ReadPending(h) ==
    /\ work[h].pc = "pending"
    /\ LET pending == SumDays({i \in Requests : CountsAsPending(requests[i])})
       IN  Decide(h, work[h].available - pending, [work[h] EXCEPT !.available = 0])
    /\ UNCHANGED <<today, employee, requests, blind, accepted, reverted, told, raced>>

\* Mutant: a compensated request goes to the leader at once.
InitialStatusPending(kind) == "PENDING"

InitialStatus(kind) == IF kind = "compensated" THEN "PENDING_HR_VALIDATION" ELSE "PENDING"

Insert(h) ==
    /\ work[h].pc = "insert"
    /\ \E i \in Requests :
        /\ \A other \in Requests : requests[other] = NoRequest <=> other >= i
        /\ requests' = [requests EXCEPT ![i] =
                          [work[h].request EXCEPT !.status = InitialStatus(work[h].request.kind)]]
        /\ blind' = IF work[h].blind THEN blind \cup {i} ELSE blind
    /\ Leave(h)
    /\ UNCHANGED <<today, employee, accepted, reverted, told, raced>>
-----------------------------------------------------------------------------
(* Decisions about a request.                                              *)

\* Mutant: an approved request may be cancelled.
MayCancelApproved(act, r) ==
    \/ act \in {"accept", "refuse"} /\ r.status = "PENDING_HR_VALIDATION"
    \/ act \in {"approve", "reject"} /\ r.status = "PENDING"
    \/ act = "cancel" /\ r.status \in {"PENDING", "APPROVED"}

\* What validateByHR (accept, refuse), the guard and review (approve, reject),
\* cancel, markNotTaken (giveBack) and revertNotTaken (revert) require.
May(act, r) ==
    \/ /\ act \in {"accept", "refuse"}
       /\ r.kind = "compensated" /\ r.status = "PENDING_HR_VALIDATION"
    \/ /\ act \in {"approve", "reject"}
       /\ r.status = "PENDING" /\ (r.kind = "compensated" => r.hrValidated)
    \/ act = "cancel" /\ r.status = "PENDING"
    \/ /\ act = "giveBack"
       /\ r.kind = "vacation" /\ r.status = "APPROVED" /\ ~r.notTaken /\ r.from > today
    \/ act = "revert" /\ r.notTaken

BeginDecision(h, i) ==
    /\ work[h] = Idle
    /\ \E act \in Acts \ {"none"} :
        /\ May(act, requests[i])
        /\ Continue(h, [Idle EXCEPT !.pc = "write", !.id = i, !.act = act])
    /\ Race("decisions", \E other \in Handlers \ {h} : Deciding(other, i))
    /\ UNCHANGED <<today, employee, requests, blind, accepted, reverted, told>>

\* Mutant: a request that is withdrawn or given back gets a status of its own.
DecidedWithdrawn(act, r) ==
    CASE act = "accept" -> [r EXCEPT !.status = "PENDING", !.hrValidated = TRUE]
      [] act = "approve" -> [r EXCEPT !.status = "APPROVED"]
      [] OTHER -> [r EXCEPT !.status = "WITHDRAWN"]

\* What each decision makes of the row it finds.
Decided(act, r) ==
    CASE act = "accept" -> [r EXCEPT !.status = "PENDING", !.hrValidated = TRUE]
      [] act = "refuse" -> [r EXCEPT !.status = "REJECTED", !.hrValidated = TRUE]
      [] act = "approve" -> [r EXCEPT !.status = "APPROVED"]
      [] act = "reject" -> [r EXCEPT !.status = "REJECTED"]
      [] act = "cancel" -> [r EXCEPT !.status = "CANCELLED"]
      [] act = "giveBack" -> [r EXCEPT !.notTaken = TRUE]
      [] act = "revert" -> [r EXCEPT !.notTaken = FALSE]

\* Mutant: every decision about a compensated request is told to accounting.
TellsAlways(act, r) == r.kind = "compensated"

\* Accounting is told of the approvals of compensated vacations.
Tells(act, r) == act = "approve" /\ r.kind = "compensated"

\* The update is by identifier; what it finds is not looked at.
WriteDecision(h) ==
    LET i == work[h].id
        act == work[h].act
    IN  /\ work[h].pc = "write"
        /\ requests' = [requests EXCEPT ![i] = Decided(act, requests[i])]
        /\ accepted' = IF act = "accept" THEN accepted \cup {i} ELSE accepted
        /\ reverted' = IF act = "revert" THEN reverted \cup {i} ELSE reverted
        /\ Race("sums", act = "approve" /\ \E other \in Handlers : work[other].pc = "pending")
        /\ IF Tells(act, requests[i]) THEN GoTo(h, "email") ELSE Leave(h)
        /\ UNCHANGED <<today, employee, blind, told>>

\* notifyAccountantByEmail, whose error is logged.
TellAccounting(h) ==
    /\ work[h].pc = "email"
    /\ told' = [told EXCEPT ![work[h].id] = told[work[h].id] + 1]
    /\ Leave(h)
    /\ UNCHANGED <<today, employee, requests, blind, accepted, reverted, raced>>
-----------------------------------------------------------------------------
\* updateUserVacationAdjustment: RRHH writes the adjustment.
Adjust ==
    /\ adjustment' \in Adjustments
    /\ best' = IF adjustment' > best THEN adjustment' ELSE best
    /\ UNCHANGED <<today, start, first, requests, work, blind, accepted, reverted, told, raced>>

\* The import of the staff writes the startDate its sheet has; an empty cell
\* leaves the date alone.
ImportStart ==
    /\ start' \in Starts
    /\ first' = IF start' < first THEN start' ELSE first
    /\ UNCHANGED <<today, adjustment, best, requests, work, blind, accepted, reverted, told, raced>>

NextDay ==
    /\ today < LastDay
    /\ today' = today + 1
    /\ UNCHANGED <<employee, requests, work, blind, accepted, reverted, told, raced>>

\* A statement fails, or the process stops; the rest is not executed.
Abandon(h) ==
    /\ work[h] # Idle
    /\ Leave(h)
    /\ UNCHANGED <<today, employee, requests, blind, accepted, reverted, told, raced>>

Next ==
    \/ \E h \in Handlers :
        \/ BeginCreate(h) \/ CheckOverlap(h) \/ NotBegun(h) \/ ReadTaken(h) \/ ReadPending(h)
        \/ Insert(h)
        \/ \E i \in Requests : BeginDecision(h, i)
        \/ WriteDecision(h) \/ TellAccounting(h) \/ Abandon(h)
    \/ Adjust
    \/ ImportStart
    \/ NextDay

Spec == Init /\ [][Next]_vars
-----------------------------------------------------------------------------
(* Properties.                                                             *)

\* Unless two requests were created, or one was decided, at the same time, no
\* two open or approved absences share a day. A vacation that is given back
\* keeps its days blocked: that is what makes it safe to take it again.
NoOverlap ==
    raced \cap {"creations", "decisions"} = {} =>
        \A i, j \in Requests :
            /\ i # j /\ Active(requests[i]) /\ Active(requests[j])
            /\ "compensated" \notin {requests[i].kind, requests[j].kind}
            => ~(requests[i].from <= requests[j].to /\ requests[j].from <= requests[i].to)

\* The employee never owes more than Debt days, if nothing overlapped: the open
\* and approved vacations fit in what is accrued since the earliest startDate the
\* employee had, and in what was ever adjusted.  Out of the sum are the vacations
\* that no sum held back: compensated ones, invisible to the balance until RRHH
\* accepts them, those given back and taken again, and those asked for without a
\* startDate, or before it.
WithinLimit ==
    raced = {} =>
        SumDays({i \in Requests \ blind : /\ requests[i].kind = "vacation"
                                          /\ requests[i].status \in {"PENDING", "APPROVED"}
                                          /\ ~requests[i].notTaken /\ i \notin reverted})
            <= Accrued(first, today) + best + Debt

\* Each of the last fits in the adjustment on its own, whatever overlapped; any
\* number of them may be asked for.
BeforeContract == \A i \in blind : requests[i].days <= best + Debt

\* The absences of an employee fit: in the calendar, and in the balance.
AbsencesFit == NoOverlap /\ WithinLimit /\ BeforeContract

\* "Debemos reservarlas para evitar que el empleado puede solicitar de mas":
\* the limit, for every vacation of an employee whose contract began, when
\* nothing is adjusted or taken again.
LimitHolds ==
    raced = {} /\ reverted = {} /\ blind = {} =>
        SumDays({i \in Requests : /\ requests[i].kind # "other"
                                  /\ requests[i].status \in {"PENDING", "APPROVED"}
                                  /\ ~requests[i].notTaken})
            <= Accrued(first, today) + best + Debt

\* A compensated vacation the leader sees, or has approved, was accepted by
\* RRHH, whatever overlapped.
CompensatedAccepted ==
    \A i \in Requests :
        requests[i].kind = "compensated" /\ Active(requests[i]) => i \in accepted

\* Accounting is told once of a compensated vacation, and only of one that is
\* approved, unless two decisions about it overlapped.
AccountingToldOnce ==
    "decisions" \notin raced =>
        \A i \in Requests :
            told[i] # 0 => told[i] = 1 /\ requests[i].status = "APPROVED"

\* A compensated vacation goes by RRHH before the leader, and by accounting once.
CompensationsAreTold == CompensatedAccepted /\ AccountingToldOnce

\* A decision is final, unless two decisions overlapped.
DecisionsAreFinal ==
    [][raced' \cap {"decisions"} = {} =>
        \A i \in Requests :
            requests[i].status \in {"APPROVED", "REJECTED", "CANCELLED"}
                => requests'[i].status = requests[i].status]_vars
=============================================================================

------------------------------ MODULE Overtime ------------------------------
(***************************************************************************)
(* The overtime that one employee registers, and its review by the leader  *)
(* (overtime/overtime.service.ts, overtime/overtime-leader.guard.ts).      *)
(*                                                                         *)
(* Hours are counted from the start of the day an entry is dated; an entry *)
(* that ends at or before its start crosses midnight, so it may end on the *)
(* next day. A batch is checked against the rows there are and created in  *)
(* a transaction afterwards; a review is let in by a guard that reads the  *)
(* row, and updates it by identifier.                                      *)
(***************************************************************************)
EXTENDS Naturals, FiniteSets, Functions

CONSTANTS
    Ids,          \* identifiers of overtime_request rows
    Batches,      \* concurrent executions of create
    Reviews,      \* concurrent executions of review
    Hours,        \* hours of a day
    DailyLimit,   \* DAILY_LIMITS_HOURS
    MonthlyLimit, \* MONTHLY_LIMIT_HOURS
    Days,         \* days of the month that are modelled
    MaxBatch      \* bound on the entries of a batch

LimitsAssumption ==
    /\ Hours \in Nat \ {0} /\ Days \in Nat \ {0} /\ MaxBatch \in Nat \ {0}
    /\ DailyLimit \in Nat /\ MonthlyLimit \in Nat
    /\ IsFiniteSet(Ids)

VARIABLES
    today,
    entry,   \* the rows
    batch,   \* the entries each create has checked
    review,  \* the entry each review was let into
    told,    \* the entries registered in N8N
    crossed  \* history: two creates, or two reviews of one entry, ran together

vars == <<today, entry, batch, review, told, crossed>>

Statuses == {"PENDING", "APPROVED", "REJECTED"}
Slot == [start: 0 .. Hours - 1, length: 1 .. Hours]
Entry == [status: Statuses, day: 1 .. Days, slot: Slot]
NoEntry == [status |-> "none"]
Nobody == [pc |-> "idle"]

TypeOK ==
    /\ today \in 1 .. Days
    /\ \A i \in Ids : entry[i] = NoEntry \/ entry[i] \in Entry
    /\ \A b \in Batches : batch[b] = Nobody
         \/ (batch[b].pc = "create" /\ batch[b].day \in 1 .. Days /\ batch[b].slots \subseteq Slot)
    /\ \A r \in Reviews : review[r] = Nobody
         \/ (review[r].pc \in {"update", "tell"} /\ review[r].id \in Ids)
    /\ told \subseteq Ids
    /\ crossed \in BOOLEAN

Init ==
    /\ today = 1
    /\ entry = [i \in Ids |-> NoEntry]
    /\ batch = [b \in Batches |-> Nobody]
    /\ review = [r \in Reviews |-> Nobody]
    /\ told = {}
    /\ crossed = FALSE

Active == {i \in Ids : entry[i].status \in {"PENDING", "APPROVED"}}
Dated(day) == {i \in Active : entry[i].day = day}
\* The hours of a set of rows, and of the slots of a batch.
HoursOf(ids) == SumFunction([i \in ids |-> entry[i].slot.length])
HoursAsked(slots) == SumFunction([s \in slots |-> s.length])

\* hasOverlap, for slots of one date.
Overlap(a, b) == a.start < b.start + b.length /\ b.start < a.start + a.length
-----------------------------------------------------------------------------
\* Mutant: the hours that are pending do not count.
ApprovedFitsDay(slots) ==
    LET approved == {i \in Dated(today) : entry[i].status = "APPROVED"}
    IN  HoursOf(approved) + HoursAsked(slots) <= DailyLimit

FitsDay(slots) == HoursOf(Dated(today)) + HoursAsked(slots) <= DailyLimit

\* Only what is approved counts for the month.
FitsMonth(slots) ==
    HoursOf({i \in Ids : entry[i].status = "APPROVED"}) + HoursAsked(slots) <= MonthlyLimit

\* The entries of one create do not overlap each other.
Payloads ==
    {slots \in SUBSET Slot :
       Cardinality(slots) \in 1 .. MaxBatch /\ \A s, t \in slots : s # t => ~Overlap(s, t)}

\* The entries are of today; they are compared with the active entries
\* of today, those of yesterday that end today not being read.
BeginCreate(b) ==
    /\ batch[b] = Nobody
    /\ \E slots \in Payloads :
         /\ \A s \in slots, i \in Dated(today) : ~Overlap(s, entry[i].slot)
         /\ FitsDay(slots)
         /\ FitsMonth(slots)
         /\ batch' = [batch EXCEPT ![b] = [pc |-> "create", day |-> today, slots |-> slots]]
    /\ crossed' = (crossed \/ \E c \in Batches : batch[c] # Nobody)
    /\ UNCHANGED <<today, entry, review, told>>

Free == {i \in Ids : entry[i] = NoEntry}

\* All the entries in one transaction, or none.
Create(b) ==
    /\ batch[b] # Nobody
    /\ Cardinality(batch[b].slots) <= Cardinality(Free)
    /\ LET ids == CHOOSE I \in SUBSET Free : Cardinality(I) = Cardinality(batch[b].slots)
           slotOf == CHOOSE f \in [ids -> batch[b].slots] : \A s \in batch[b].slots : \E i \in ids : f[i] = s
       IN  entry' = [i \in Ids |-> IF i \in ids
                       THEN [status |-> "PENDING", day |-> batch[b].day, slot |-> slotOf[i]]
                       ELSE entry[i]]
    /\ batch' = [batch EXCEPT ![b] = Nobody]
    /\ UNCHANGED <<today, review, told, crossed>>

CreateFails(b) ==
    /\ batch[b] # Nobody
    /\ batch' = [batch EXCEPT ![b] = Nobody]
    /\ UNCHANGED <<today, entry, review, told, crossed>>
-----------------------------------------------------------------------------
\* Mutant: the guard does not ask for PENDING.
GuardAnyStatus(r) ==
    /\ review[r] = Nobody
    /\ \E i \in Ids :
         /\ entry[i] # NoEntry
         /\ review' = [review EXCEPT ![r] = [pc |-> "update", id |-> i]]
         /\ crossed' = (crossed \/ \E q \in Reviews : review[q] # Nobody /\ review[q].id = i)
    /\ UNCHANGED <<today, entry, batch, told>>

\* OvertimeLeaderGuard: the assigned leader, or an administrator.
BeginReview(r) ==
    /\ review[r] = Nobody
    /\ \E i \in Ids :
         /\ entry[i].status = "PENDING"
         /\ review' = [review EXCEPT ![r] = [pc |-> "update", id |-> i]]
         /\ crossed' = (crossed \/ \E q \in Reviews : review[q] # Nobody /\ review[q].id = i)
    /\ UNCHANGED <<today, entry, batch, told>>

Review(r) ==
    /\ review[r] # Nobody /\ review[r].pc = "update"
    /\ \/ /\ entry' = [entry EXCEPT ![review[r].id].status = "REJECTED"]
          /\ review' = [review EXCEPT ![r] = Nobody]
       \/ /\ entry' = [entry EXCEPT ![review[r].id].status = "APPROVED"]
          /\ review' = [review EXCEPT ![r].pc = "tell"]
    /\ UNCHANGED <<today, batch, told, crossed>>

\* N8N answers, or fails or takes too long: nobody tells it again.
SendToN8N(r) ==
    /\ review[r] # Nobody /\ review[r].pc = "tell"
    /\ told' \in {told, told \cup {review[r].id}}
    /\ review' = [review EXCEPT ![r] = Nobody]
    /\ UNCHANGED <<today, entry, batch, crossed>>

NextDay ==
    /\ today < Days
    /\ today' = today + 1
    /\ UNCHANGED <<entry, batch, review, told, crossed>>

Next ==
    \/ \E b \in Batches : BeginCreate(b) \/ Create(b) \/ CreateFails(b)
    \/ \E r \in Reviews : BeginReview(r) \/ Review(r) \/ SendToN8N(r)
    \/ NextDay

Spec == Init /\ [][Next]_vars
-----------------------------------------------------------------------------
\* On each date the active entries do not overlap and keep to the daily limit,
\* whatever was rejected and registered again, and N8N has been told of none
\* that is not approved, unless two creates, or two reviews of one entry, ran
\* together (create, review and OvertimeLeaderGuard).
DayHolds ==
    ~crossed =>
        /\ \A day \in 1 .. Days :
             /\ HoursOf(Dated(day)) <= DailyLimit
             /\ \A i, j \in Dated(day) : i # j => ~Overlap(entry[i].slot, entry[j].slot)
        /\ \A i \in told : entry[i].status = "APPROVED"
=============================================================================

----------------------- MODULE EquipmentLoans_proofs -----------------------
(***************************************************************************)
(* Proofs about EquipmentLoans, for any handlers, users and bounds.        *)
(***************************************************************************)
EXTENDS EquipmentLoans, FiniteSetTheorems, TLAPS

-----------------------------------------------------------------------------
(* The invariants.                                                         *)

\* What a handler of a loan, or of a maintenance request, goes by.
LocalOK(h) ==
    /\ work[h].pc \in {"loan.equipment", "loan.write"} =>
         /\ work[h].id \in Loans /\ work[h].to \in {"APPROVED", "LOANED", "CLOSED"}
         /\ work[h].to = "LOANED" => work[h].id \in approved
    /\ work[h].pc = "maint.write" =>
         work[h].id \in Requests /\ work[h].to \in {"IN_REVIEW", "IN_PROGRESS", "CLOSED"}

\* Well typed, and no delivery without an approval, whatever overlaps.
TInv ==
    /\ TypeOK
    /\ \A h \in Handlers : LocalOK(h)
    /\ \A l \in Loans : loans[l].status \in {"APPROVED", "LOANED"} => l \in approved

Busy(h) == work[h] # Idle
OpenLoan(l) == loans[l].status \in InCourse
OpenRequest(r) == requests[r] \in ActiveRequest

\* What the reads of a handler are worth when no other one acts.
Reads(h) ==
    /\ work[h].pc = "loan.insert" => \A l \in Loans : ~OpenLoan(l)
    /\ work[h].pc = "maint.insert" => \A r \in Requests : ~OpenRequest(r)
    /\ work[h].pc \in {"loan.equipment", "loan.write"} =>
         LoanTransition(loans[work[h].id].status, work[h].to)
    /\ work[h].pc = "maint.write" => MaintenanceTransition(requests[work[h].id], work[h].to)

\* One request at a time: one handler, one loan and one request in course.
AInv ==
    ~met =>
        /\ \A g, h \in Handlers : Busy(g) /\ Busy(h) => g = h
        /\ \A k, l \in Loans : OpenLoan(k) /\ OpenLoan(l) => k = l
        /\ \A q, r \in Requests : OpenRequest(q) /\ OpenRequest(r) => q = r
        /\ \A h \in Handlers : Reads(h)

Delivered == \E l \in Loans : loans[l].status = "LOANED"
Agree ==
    \/ byHand
    \/ (Delivered => equipment # "AVAILABLE") /\ (equipment = "LOANED" => Delivered)

\* Between the two statements of a delivery, or of a return, the equipment is
\* where the loan will be, unless an administrator moved it.
Moved(h) ==
    \/ byHand
    \/ IF work[h].to = "LOANED" THEN equipment # "AVAILABLE"
       ELSE IF loans[work[h].id].status = "LOANED" THEN equipment # "LOANED"
       ELSE Agree

\* The status and the loans, for as long as no statement fails.
SInv ==
    ~met /\ faults = 0 =>
        /\ (\A h \in Handlers : work[h].pc # "loan.write") => Agree
        /\ \A h \in Handlers :
             /\ work[h].pc = "loan.equipment" =>
                  /\ work[h].loaned <=> work[h].to = "LOANED"
                  /\ work[h].to = "LOANED" \/ loans[work[h].id].status = "LOANED"
             /\ work[h].pc = "loan.write" => Moved(h)
             /\ work[h].pc = "maint.restore" => (work[h].loaned <=> Delivered)

-----------------------------------------------------------------------------
(* Lemmas about locals.                                                    *)

LEMMA IdleTyped == Idle \in Work
  BY DEF Idle, Work, Labels, LoanStatus

\* A step of one handler changes its own locals and nobody else's.
LEMMA Entered ==
    ASSUME work \in [Handlers -> Work], NEW h \in Handlers, NEW w \in Work, Enter(h, w)
    PROVE  /\ work' \in [Handlers -> Work] /\ work'[h] = w
           /\ \A g \in Handlers \ {h} : work'[g] = work[g]
           /\ work[h] = Idle
           /\ met \in BOOLEAN => met' \in BOOLEAN /\ (met => met')
           /\ byHand' \in BOOLEAN
           /\ ~met' => (byHand' <=> byHand)
           /\ ~met' => \A g \in Handlers \ {h} : work[g] = Idle
  BY DEF Enter

LEMMA Proceeded ==
    ASSUME work \in [Handlers -> Work], NEW h \in Handlers, NEW label \in Labels, Proceed(h, label)
    PROVE  /\ work' \in [Handlers -> Work] /\ work'[h] = [work[h] EXCEPT !.pc = label]
           /\ work'[h].pc = label /\ work'[h].id = work[h].id /\ work'[h].to = work[h].to
           /\ work'[h].loaned = work[h].loaned
           /\ \A g \in Handlers \ {h} : work'[g] = work[g]
  <1>1. [work[h] EXCEPT !.pc = label] \in Work
    BY DEF Work
  <1> QED
    BY <1>1 DEF Proceed, Work

LEMMA Left ==
    ASSUME work \in [Handlers -> Work], NEW h \in Handlers, Leave(h)
    PROVE  /\ work' \in [Handlers -> Work] /\ work'[h] = Idle
           /\ \A g \in Handlers \ {h} : work'[g] = work[g]
  BY IdleTyped DEF Leave

\* The equipment a transition of a loan writes.
LEMMA AfterTransition ==
    ASSUME NEW from, NEW to, LoanTransition(from, to)
    PROVE  /\ EquipmentAfter(from, to) = {"LOANED"} <=> to = "LOANED"
           /\ EquipmentAfter(from, to) = {} <=> to # "LOANED" /\ from # "LOANED"
           /\ from \in InCourse /\ to \in {"APPROVED", "LOANED", "CLOSED"}
           /\ to = "LOANED" => from = "APPROVED"
  <1>1. CASE from = "PENDING"
    BY <1>1 DEF EquipmentAfter, LoanTransition, InCourse
  <1>2. CASE from = "APPROVED"
    BY <1>2 DEF EquipmentAfter, LoanTransition, InCourse
  <1>3. CASE from = "LOANED"
    BY <1>3 DEF EquipmentAfter, LoanTransition, InCourse
  <1> QED
    BY <1>1, <1>2, <1>3 DEF LoanTransition

-----------------------------------------------------------------------------
(* TInv.                                                                   *)

LEMMA TInit == Init => TInv
  <1> SUFFICES ASSUME Init PROVE TInv
    OBVIOUS
  <1>1. loans \in [Loans -> [status: LoanStatus, user: Users \cup {Nobody}]]
    BY DEF Init, NoLoan, LoanStatus
  <1>2. /\ requests \in [Requests -> MaintenanceStatus]
        /\ work \in [Handlers -> Work]
        /\ faults \in 0 .. MaxFaults
    BY IdleTyped, ConstantsAssumption DEF Init, MaintenanceStatus
  <1>3. \A h \in Handlers : LocalOK(h)
    BY DEF Init, LocalOK, Idle
  <1>4. \A l \in Loans : loans[l].status = "none"
    BY DEF Init, NoLoan
  <1> QED
    BY <1>1, <1>2, <1>3, <1>4 DEF Init, TInv, TypeOK, EquipmentStatus

LEMMA TStep == TInv /\ [Next]_vars => TInv'
  <1> SUFFICES ASSUME TInv, [Next]_vars PROVE TInv'
    OBVIOUS
  <1> USE ConstantsAssumption
  <1>0. CASE UNCHANGED vars
    BY <1>0 DEF TInv, TypeOK, LocalOK, vars
  <1>1. ASSUME NEW h \in Handlers, NEW user \in Users, BeginLoan(h, user) PROVE TInv'
    <2> DEFINE w == [Idle EXCEPT !.pc = "loan.busy", !.user = user]
    <2>1. w \in Work /\ w.pc = "loan.busy"
      BY DEF Work, Idle, Labels, LoanStatus
    <2>2. Enter(h, w)
      BY <1>1 DEF BeginLoan
    <2> HIDE DEF w
    <2> QED
      BY <1>1, <2>1, <2>2, Entered DEF TInv, TypeOK, LocalOK, BeginLoan
  <1>2. ASSUME NEW h \in Handlers, NEW user \in Users, BeginRequest(h, user) PROVE TInv'
    <2> DEFINE w == [Idle EXCEPT !.user = user,
                       !.pc = IF equipment = "LOANED" THEN "maint.holder" ELSE "maint.busy"]
    <2>1. w \in Work /\ w.pc \in {"maint.holder", "maint.busy"}
      BY DEF Work, Idle, Labels, LoanStatus
    <2>2. Enter(h, w)
      BY <1>2 DEF BeginRequest
    <2> HIDE DEF w
    <2> QED
      BY <1>2, <2>1, <2>2, Entered DEF TInv, TypeOK, LocalOK, BeginRequest
  <1>3. ASSUME NEW h \in Handlers, NEW l \in Loans, NEW to \in LoanStatus, BeginTransition(h, l, to)
        PROVE TInv'
    <2> DEFINE label == IF EquipmentAfter(loans[l].status, to) = {} THEN "loan.write" ELSE "loan.equipment"
               loaned == EquipmentAfter(loans[l].status, to) = {"LOANED"}
               w == [Idle EXCEPT !.id = l, !.to = to, !.loaned = loaned, !.pc = label]
    <2>0. label \in Labels /\ loaned \in BOOLEAN /\ l \in Nat
      BY DEF Labels, Loans
    <2>1. w \in Work /\ w.pc = label /\ w.id = l /\ w.to = to
      <3> HIDE DEF label, loaned
      <3> QED
        BY <2>0 DEF Work, Idle
    <2>2. Enter(h, w)
      BY <1>3 DEF BeginTransition
    <2>3. /\ label \in {"loan.write", "loan.equipment"}
          /\ to \in {"APPROVED", "LOANED", "CLOSED"}
          /\ to = "LOANED" => l \in approved
      BY <1>3, AfterTransition DEF TInv, BeginTransition
    <2> HIDE DEF w, label, loaned
    <2> QED
      BY <1>3, <2>1, <2>2, <2>3, Entered DEF TInv, TypeOK, LocalOK, BeginTransition
  <1>4. ASSUME NEW h \in Handlers, NEW r \in Requests, NEW to \in MaintenanceStatus,
               BeginSettle(h, r, to)
        PROVE TInv'
    <2> DEFINE w == [Idle EXCEPT !.id = r, !.to = to, !.pc = "maint.write"]
    <2>0. "maint.write" \in Labels /\ r \in Nat
      BY DEF Labels, Requests
    <2>1. w \in Work /\ w.pc = "maint.write" /\ w.id = r /\ w.to = to
      BY <2>0 DEF Work, Idle
    <2>2. Enter(h, w)
      BY <1>4 DEF BeginSettle
    <2>3. to \in {"IN_REVIEW", "IN_PROGRESS", "CLOSED"}
      BY <1>4 DEF BeginSettle, MaintenanceTransition
    <2> HIDE DEF w
    <2> QED
      BY <1>4, <2>1, <2>2, <2>3, Entered DEF TInv, TypeOK, LocalOK, BeginSettle
  <1>5. ASSUME NEW h \in Handlers, CheckLoans(h) PROVE TInv'
    <2>1. CASE Leave(h)
      BY <1>5, <2>1, Left DEF CheckLoans, TInv, TypeOK, LocalOK, Idle
    <2>2. CASE Proceed(h, "loan.insert")
      BY <1>5, <2>2, Proceeded DEF CheckLoans, TInv, TypeOK, LocalOK, Labels
    <2> QED
      BY <1>5, <2>1, <2>2 DEF CheckLoans
  <1>6. ASSUME NEW h \in Handlers, InsertLoan(h) PROVE TInv'
    <2>1. loans' \in [Loans -> [status: LoanStatus, user: Users \cup {Nobody}]]
          /\ \A l \in Loans : loans'[l].status \in {"APPROVED", "LOANED"} => l \in approved
      BY <1>6 DEF InsertLoan, TInv, TypeOK, LoanStatus, Work
    <2> QED
      BY <1>6, <2>1, Left DEF InsertLoan, TInv, TypeOK, LocalOK, Idle
  <1>7. ASSUME NEW h \in Handlers, MoveEquipment(h) PROVE TInv'
    <2>1. "loan.write" \in Labels
      BY DEF Labels
    <2>2. /\ work' \in [Handlers -> Work] /\ work'[h].pc = "loan.write"
          /\ work'[h].id = work[h].id /\ work'[h].to = work[h].to
          /\ \A g \in Handlers \ {h} : work'[g] = work[g]
      BY <1>7, <2>1, Proceeded DEF MoveEquipment, TInv, TypeOK
    <2>3. equipment' \in EquipmentStatus
      BY <1>7 DEF MoveEquipment, EquipmentStatus
    <2>4. \A g \in Handlers : LocalOK(g)'
      BY <1>7, <2>2 DEF MoveEquipment, TInv, LocalOK
    <2> QED
      BY <1>7, <2>2, <2>3, <2>4 DEF MoveEquipment, TInv, TypeOK
  <1>8. ASSUME NEW h \in Handlers, WriteLoan(h) PROVE TInv'
    <2>1. work[h].id \in Loans /\ work[h].to \in LoanStatus
          /\ (work[h].to = "LOANED" => work[h].id \in approved)
      BY <1>8 DEF WriteLoan, TInv, LocalOK, LoanStatus
    <2>2. approved \subseteq approved' /\ approved' \subseteq Loans
          /\ (work[h].to = "APPROVED" => work[h].id \in approved')
      BY <1>8, <2>1 DEF WriteLoan, TInv, TypeOK
    <2>3. loans' \in [Loans -> [status: LoanStatus, user: Users \cup {Nobody}]]
          /\ \A l \in Loans : loans'[l].status \in {"APPROVED", "LOANED"} => l \in approved'
      BY <1>8, <2>1, <2>2 DEF WriteLoan, TInv, TypeOK
    <2> QED
      BY <1>8, <2>2, <2>3, Left DEF WriteLoan, TInv, TypeOK, LocalOK, Idle
  <1>9. ASSUME NEW h \in Handlers, CheckHolder(h) PROVE TInv'
    <2>1. CASE Leave(h)
      BY <1>9, <2>1, Left DEF CheckHolder, TInv, TypeOK, LocalOK, Idle
    <2>2. CASE Proceed(h, "maint.busy")
      BY <1>9, <2>2, Proceeded DEF CheckHolder, TInv, TypeOK, LocalOK, Labels
    <2> QED
      BY <1>9, <2>1, <2>2 DEF CheckHolder
  <1>10. ASSUME NEW h \in Handlers, CheckRequests(h) PROVE TInv'
    <2>1. CASE Leave(h)
      BY <1>10, <2>1, Left DEF CheckRequests, TInv, TypeOK, LocalOK, Idle
    <2>2. CASE work' = [work EXCEPT ![h] = [Idle EXCEPT !.pc = "maint.insert"]]
      <3>1. [Idle EXCEPT !.pc = "maint.insert"] \in Work
            /\ [Idle EXCEPT !.pc = "maint.insert"].pc = "maint.insert"
        BY DEF Work, Idle, Labels, LoanStatus
      <3> QED
        BY <1>10, <2>2, <3>1 DEF CheckRequests, TInv, TypeOK, LocalOK
    <2> QED
      BY <1>10, <2>1, <2>2 DEF CheckRequests
  <1>11. ASSUME NEW h \in Handlers, InsertRequest(h) PROVE TInv'
    <2>1. "maint.equipment" \in Labels
      BY DEF Labels
    <2>2. /\ work' \in [Handlers -> Work] /\ work'[h].pc = "maint.equipment"
          /\ \A g \in Handlers \ {h} : work'[g] = work[g]
      BY <1>11, <2>1, Proceeded DEF InsertRequest, TInv, TypeOK
    <2>3. requests' \in [Requests -> MaintenanceStatus]
      BY <1>11 DEF InsertRequest, TInv, TypeOK, MaintenanceStatus
    <2>4. \A g \in Handlers : LocalOK(g)'
      BY <1>11, <2>2 DEF InsertRequest, TInv, LocalOK
    <2> QED
      BY <1>11, <2>2, <2>3, <2>4 DEF InsertRequest, TInv, TypeOK
  <1>12. ASSUME NEW h \in Handlers, SendToMaintenance(h) PROVE TInv'
    <2>1. equipment' \in EquipmentStatus /\ byHand' \in BOOLEAN
      BY <1>12 DEF SendToMaintenance, EquipmentStatus
    <2>2. \A g \in Handlers : LocalOK(g)'
      BY <1>12, Left DEF SendToMaintenance, TInv, TypeOK, LocalOK, Idle
    <2> QED
      BY <1>12, <2>1, <2>2, Left DEF SendToMaintenance, TInv, TypeOK
  <1>13. ASSUME NEW h \in Handlers, WriteRequest(h) PROVE TInv'
    <2>0. requests' \in [Requests -> MaintenanceStatus]
      <3>1. work[h].to \in MaintenanceStatus
        BY <1>13 DEF WriteRequest, TInv, LocalOK, MaintenanceStatus
      <3> QED
        BY <1>13, <3>1 DEF WriteRequest, TInv, TypeOK
    <2>1. CASE Leave(h)
      BY <1>13, <2>0, <2>1, Left DEF WriteRequest, TInv, TypeOK, LocalOK, Idle
    <2>2. CASE Proceed(h, "maint.loaned")
      <3>1. "maint.loaned" \in Labels
        BY DEF Labels
      <3>2. /\ work' \in [Handlers -> Work] /\ work'[h].pc = "maint.loaned"
            /\ \A g \in Handlers \ {h} : work'[g] = work[g]
        BY <2>2, <3>1, Proceeded DEF TInv, TypeOK
      <3>3. \A g \in Handlers : LocalOK(g)'
        BY <1>13, <3>2 DEF WriteRequest, TInv, LocalOK
      <3> QED
        BY <1>13, <2>0, <3>2, <3>3 DEF WriteRequest, TInv, TypeOK
    <2> QED
      BY <1>13, <2>1, <2>2 DEF WriteRequest
  <1>14. ASSUME NEW h \in Handlers, ReadDelivered(h) PROVE TInv'
    <2> DEFINE w == [work[h] EXCEPT !.loaned = \E l \in Loans : loans[l].status = "LOANED",
                                    !.pc = "maint.restore"]
    <2>1. w \in Work /\ w.pc = "maint.restore"
      BY DEF Work, Labels, TInv, TypeOK
    <2> HIDE DEF w
    <2>2. work' = [work EXCEPT ![h] = w]
      BY <1>14 DEF ReadDelivered, w
    <2> QED
      BY <1>14, <2>1, <2>2 DEF ReadDelivered, TInv, TypeOK, LocalOK
  <1>15. ASSUME NEW h \in Handlers, RestoreEquipment(h) PROVE TInv'
    <2>1. equipment' \in EquipmentStatus /\ byHand' \in BOOLEAN
      BY <1>15 DEF RestoreEquipment, AfterMaintenance, EquipmentStatus
    <2>2. \A g \in Handlers : LocalOK(g)'
      BY <1>15, Left DEF RestoreEquipment, TInv, TypeOK, LocalOK, Idle
    <2> QED
      BY <1>15, <2>1, <2>2, Left DEF RestoreEquipment, TInv, TypeOK
  <1>16. ASSUME NEW h \in Handlers, StatementFails(h) PROVE TInv'
    BY <1>16, Left DEF StatementFails, TInv, TypeOK, LocalOK, Idle
  <1>17. CASE UpdateEquipment
    BY <1>17 DEF UpdateEquipment, TInv, TypeOK, LocalOK, EquipmentStatus
  <1>18. CASE Crash
    BY <1>18, IdleTyped DEF Crash, TInv, TypeOK, LocalOK, Idle
  <1> QED
    BY <1>0, <1>1, <1>2, <1>3, <1>4, <1>5, <1>6, <1>7, <1>8, <1>9, <1>10, <1>11, <1>12, <1>13,
       <1>14, <1>15, <1>16, <1>17, <1>18 DEF Next

LEMMA TAlways == Spec => []TInv
  BY TInit, TStep, PTL DEF Spec

(* Every reachable state of an equipment, its loans and its maintenance is     *)
(* well typed (equipment-loans.service.ts, maintenance.service.ts).            *)
THEOREM TypeCorrect == Spec => []TypeOK
  <1>1. TInv => TypeOK
    BY DEF TInv
  <1> QED
    BY TAlways, <1>1, PTL

(* However approvals, cancellations and deliveries of one loan overlap, and    *)
(* whatever fails, the equipment is delivered on loans that were approved      *)
(* (updateLoanStatus writes by identifier what it validated before).           *)
THEOREM DeliveriesApproved == Spec => []DeliveredWasApproved
  <1>1. TInv => DeliveredWasApproved
    BY DEF TInv, DeliveredWasApproved
  <1> QED
    BY TAlways, <1>1, PTL

-----------------------------------------------------------------------------
(* AInv: one loan and one request, as long as requests come one at a time.  *)

LEMMA FromActive ==
    ASSUME NEW from, NEW to, MaintenanceTransition(from, to)
    PROVE  from \in ActiveRequest
  BY DEF MaintenanceTransition, ActiveRequest

OneLoan == \A k, l \in Loans : OpenLoan(k) /\ OpenLoan(l) => k = l
OneRequest == \A q, r \in Requests : OpenRequest(q) /\ OpenRequest(r) => q = r
Others(h) == \A g \in Handlers \ {h} : work[g] = Idle

\* While nothing overlapped, the others of a handler that acts are idle, and
\* what is left to show of a step is about the rows and that handler.
LEMMA Alone ==
    ASSUME AInv, ~met, NEW h \in Handlers, Busy(h)
    PROVE  Others(h) /\ OneLoan /\ OneRequest /\ Reads(h)
  BY DEF AInv, Busy, Others, OneLoan, OneRequest

LEMMA Kept ==
    ASSUME NEW h \in Handlers,
           ~met' => Others(h)' /\ OneLoan' /\ OneRequest' /\ Reads(h)'
    PROVE  AInv'
  <1> SUFFICES ASSUME ~met' PROVE AInv'
    BY DEF AInv
  <1>a. \A g \in Handlers \ {h} : work'[g] = Idle
    BY DEF Others
  <1>b. Idle.pc = "idle"
    BY DEF Idle
  <1>1. ASSUME NEW g \in Handlers \ {h} PROVE ~Busy(g)' /\ Reads(g)'
    <2>1. work'[g].pc = "idle" /\ ~Busy(g)'
      BY <1>a, <1>b DEF Busy
    <2> QED
      BY <2>1 DEF Reads
  <1>2. \A f, g \in Handlers : Busy(f)' /\ Busy(g)' => f = g
    BY <1>1
  <1>3. \A g \in Handlers : Reads(g)'
    BY <1>1
  <1>4. OneLoan' /\ OneRequest'
    OBVIOUS
  <1> HIDE DEF Busy, Reads
  <1> QED
    BY <1>2, <1>3, <1>4 DEF AInv, OneLoan, OneRequest

LEMMA BeganAlone ==
    ASSUME TInv, AInv, NEW h \in Handlers, NEW w \in Work, Enter(h, w), UNCHANGED <<loans, requests>>,
           ~met' => Reads(h)'
    PROVE  AInv'
  <1> SUFFICES ASSUME ~met' PROVE Others(h)' /\ OneLoan' /\ OneRequest' /\ Reads(h)'
    BY Kept
  <1>1. ~met /\ Others(h)'
    BY Entered DEF TInv, TypeOK, Others
  <1>2. OneLoan /\ OneRequest
    BY <1>1 DEF AInv, OneLoan, OneRequest
  <1> QED
    BY <1>1, <1>2 DEF OneLoan, OneRequest, OpenLoan, OpenRequest

\* A step of an execution under way that writes no row.
LEMMA WentOnAlone ==
    ASSUME AInv, NEW h \in Handlers, Busy(h), UNCHANGED <<loans, requests, met>>,
           \A g \in Handlers \ {h} : work'[g] = work[g],
           ~met => Reads(h)'
    PROVE  AInv'
  <1> SUFFICES ASSUME ~met PROVE Others(h)' /\ OneLoan' /\ OneRequest' /\ Reads(h)'
    BY Kept
  <1>1. Others(h)' /\ OneLoan /\ OneRequest
    BY Alone DEF Others
  <1> QED
    BY <1>1 DEF OneLoan, OneRequest, OpenLoan, OpenRequest

LEMMA AInit == Init => AInv
  BY DEF Init, AInv, Busy, OpenLoan, OpenRequest, InCourse, ActiveRequest, NoLoan, Reads, Idle

LEMMA AStep == TInv /\ AInv /\ [Next]_vars => AInv'
  <1> SUFFICES ASSUME TInv, AInv, [Next]_vars PROVE AInv'
    OBVIOUS
  <1>t. work \in [Handlers -> Work]
    BY DEF TInv, TypeOK
  <1>l. /\ {"loan.insert", "loan.write", "maint.busy", "maint.equipment", "maint.loaned"} \subseteq Labels
        /\ Idle.pc = "idle"
    BY DEF Labels, Idle
  <1>0. CASE UNCHANGED vars
    BY <1>0 DEF AInv, Busy, OpenLoan, OpenRequest, Reads, vars
  <1>1. ASSUME NEW h \in Handlers, NEW user \in Users, BeginLoan(h, user) PROVE AInv'
    <2> DEFINE w == [Idle EXCEPT !.pc = "loan.busy", !.user = user]
    <2>1. w \in Work /\ w.pc = "loan.busy"
      BY DEF Work, Idle, Labels, LoanStatus
    <2>2. Enter(h, w)
      BY <1>1 DEF BeginLoan
    <2> HIDE DEF w
    <2>3. Reads(h)'
      BY <1>t, <2>1, <2>2, Entered DEF Reads
    <2> QED
      BY <1>1, <2>1, <2>2, <2>3, BeganAlone DEF BeginLoan
  <1>2. ASSUME NEW h \in Handlers, NEW user \in Users, BeginRequest(h, user) PROVE AInv'
    <2> DEFINE w == [Idle EXCEPT !.user = user,
                       !.pc = IF equipment = "LOANED" THEN "maint.holder" ELSE "maint.busy"]
    <2>1. w \in Work /\ w.pc \in {"maint.holder", "maint.busy"}
      BY DEF Work, Idle, Labels, LoanStatus
    <2>2. Enter(h, w)
      BY <1>2 DEF BeginRequest
    <2> HIDE DEF w
    <2>3. Reads(h)'
      BY <1>t, <2>1, <2>2, Entered DEF Reads
    <2> QED
      BY <1>2, <2>1, <2>2, <2>3, BeganAlone DEF BeginRequest
  <1>3. ASSUME NEW h \in Handlers, NEW l \in Loans, NEW to \in LoanStatus, BeginTransition(h, l, to)
        PROVE AInv'
    <2> DEFINE label == IF EquipmentAfter(loans[l].status, to) = {} THEN "loan.write" ELSE "loan.equipment"
               loaned == EquipmentAfter(loans[l].status, to) = {"LOANED"}
               w == [Idle EXCEPT !.id = l, !.to = to, !.loaned = loaned, !.pc = label]
    <2>0. label \in Labels /\ label \in {"loan.write", "loan.equipment"} /\ loaned \in BOOLEAN /\ l \in Nat
      BY DEF Labels, Loans
    <2>1. w \in Work /\ w.pc = label /\ w.id = l /\ w.to = to
      <3> HIDE DEF label, loaned
      <3> QED
        BY <2>0 DEF Work, Idle
    <2>2. Enter(h, w)
      BY <1>3 DEF BeginTransition
    <2> HIDE DEF w, label, loaned
    <2>3. Reads(h)'
      BY <1>3, <1>t, <2>0, <2>1, <2>2, Entered DEF Reads, BeginTransition
    <2> QED
      BY <1>3, <2>1, <2>2, <2>3, BeganAlone DEF BeginTransition
  <1>4. ASSUME NEW h \in Handlers, NEW r \in Requests, NEW to \in MaintenanceStatus,
               BeginSettle(h, r, to)
        PROVE AInv'
    <2> DEFINE w == [Idle EXCEPT !.id = r, !.to = to, !.pc = "maint.write"]
    <2>0. "maint.write" \in Labels /\ r \in Nat
      BY DEF Labels, Requests
    <2>1. w \in Work /\ w.pc = "maint.write" /\ w.id = r /\ w.to = to
      BY <2>0 DEF Work, Idle
    <2>2. Enter(h, w)
      BY <1>4 DEF BeginSettle
    <2> HIDE DEF w
    <2>3. Reads(h)'
      BY <1>4, <1>t, <2>1, <2>2, Entered DEF Reads, BeginSettle
    <2> QED
      BY <1>4, <2>1, <2>2, <2>3, BeganAlone DEF BeginSettle
  <1>5. ASSUME NEW h \in Handlers, CheckLoans(h) PROVE AInv'
    <2>1. \A g \in Handlers \ {h} : work'[g] = work[g]
      BY <1>5, <1>t, <1>l, Left, Proceeded DEF CheckLoans
    <2>2. Reads(h)'
      BY <1>5, <1>t, <1>l, Left, Proceeded DEF CheckLoans, Reads, OpenLoan
    <2> QED
      BY <1>5, <1>l, <2>1, <2>2, WentOnAlone DEF CheckLoans, Busy
  <1>6. ASSUME NEW h \in Handlers, InsertLoan(h) PROVE AInv'
    <2> SUFFICES ASSUME ~met' PROVE Others(h)' /\ OneLoan' /\ OneRequest' /\ Reads(h)'
      BY Kept
    <2>1. ~met /\ Busy(h) /\ Leave(h)
      BY <1>6, <1>l DEF InsertLoan, Busy
    <2>2. Others(h) /\ OneRequest /\ \A k \in Loans : ~OpenLoan(k)
      BY <1>6, <2>1, Alone DEF InsertLoan, Reads
    <2>3. Others(h)' /\ Reads(h)'
      BY <1>t, <1>l, <2>1, <2>2, Left DEF Others, Reads
    <2>4. PICK l \in Loans : loans' = [loans EXCEPT ![l] = [status |-> "PENDING", user |-> work[h].user]]
      BY <1>6 DEF InsertLoan
    <2>5. \A k \in Loans \ {l} : ~OpenLoan(k)'
      BY <2>2, <2>4 DEF OpenLoan, TInv, TypeOK
    <2> QED
      BY <1>6, <2>2, <2>3, <2>5 DEF InsertLoan, OneLoan, OneRequest, OpenRequest
  <1>7. ASSUME NEW h \in Handlers, MoveEquipment(h) PROVE AInv'
    <2>1. /\ work'[h].pc = "loan.write" /\ work'[h].id = work[h].id /\ work'[h].to = work[h].to
          /\ \A g \in Handlers \ {h} : work'[g] = work[g]
      BY <1>7, <1>t, <1>l, Proceeded DEF MoveEquipment
    <2>2. Busy(h)
      BY <1>7, <1>l DEF MoveEquipment, Busy
    <2>3. ~met => Reads(h)'
      BY <1>7, <2>1, <2>2, Alone DEF MoveEquipment, Reads
    <2> QED
      BY <1>7, <2>1, <2>2, <2>3, WentOnAlone DEF MoveEquipment
  <1>8. ASSUME NEW h \in Handlers, WriteLoan(h) PROVE AInv'
    <2> SUFFICES ASSUME ~met' PROVE Others(h)' /\ OneLoan' /\ OneRequest' /\ Reads(h)'
      BY Kept
    <2>1. ~met /\ Busy(h) /\ Leave(h)
      BY <1>8, <1>l DEF WriteLoan, Busy
    <2>2. /\ Others(h) /\ OneRequest /\ OneLoan
          /\ work[h].id \in Loans /\ OpenLoan(work[h].id)
      BY <1>8, <2>1, Alone, AfterTransition DEF WriteLoan, Reads, OpenLoan, TInv, LocalOK
    <2>3. Others(h)' /\ Reads(h)'
      BY <1>t, <1>l, <2>1, <2>2, Left DEF Others, Reads
    <2>4. \A k \in Loans \ {work[h].id} : ~OpenLoan(k)'
      BY <1>8, <2>2 DEF WriteLoan, OneLoan, OpenLoan, TInv, TypeOK
    <2> QED
      BY <1>8, <2>2, <2>3, <2>4 DEF WriteLoan, OneLoan, OneRequest, OpenRequest
  <1>9. ASSUME NEW h \in Handlers, CheckHolder(h) PROVE AInv'
    <2>1. \A g \in Handlers \ {h} : work'[g] = work[g]
      BY <1>9, <1>t, <1>l, Left, Proceeded DEF CheckHolder
    <2>2. Reads(h)'
      BY <1>9, <1>t, <1>l, Left, Proceeded DEF CheckHolder, Reads
    <2> QED
      BY <1>9, <1>l, <2>1, <2>2, WentOnAlone DEF CheckHolder, Busy
  <1>10. ASSUME NEW h \in Handlers, CheckRequests(h) PROVE AInv'
    <2>1. \A g \in Handlers \ {h} : work'[g] = work[g]
      BY <1>10, <1>t, Left DEF CheckRequests
    <2>2. Reads(h)'
      <3>1. CASE Leave(h)
        BY <3>1, <1>t, <1>l, Left DEF Reads
      <3>2. CASE /\ \A r \in Requests : ~OpenRequest(r)
                 /\ work' = [work EXCEPT ![h] = [Idle EXCEPT !.pc = "maint.insert"]]
        <4>1. work'[h].pc = "maint.insert"
          BY <1>t, <3>2 DEF Idle
        <4> QED
          BY <1>10, <3>2, <4>1 DEF CheckRequests, Reads, OpenRequest
      <3> QED
        BY <1>10, <3>1, <3>2 DEF CheckRequests, OpenRequest
    <2> QED
      BY <1>10, <1>l, <2>1, <2>2, WentOnAlone DEF CheckRequests, Busy
  <1>11. ASSUME NEW h \in Handlers, InsertRequest(h) PROVE AInv'
    <2> SUFFICES ASSUME ~met' PROVE Others(h)' /\ OneLoan' /\ OneRequest' /\ Reads(h)'
      BY Kept
    <2>1. ~met /\ Busy(h) /\ Proceed(h, "maint.equipment")
      BY <1>11, <1>l DEF InsertRequest, Busy
    <2>2. Others(h) /\ OneLoan /\ \A r \in Requests : ~OpenRequest(r)
      BY <1>11, <2>1, Alone DEF InsertRequest, Reads
    <2>3. Others(h)' /\ Reads(h)'
      BY <1>t, <1>l, <2>1, <2>2, Proceeded DEF Others, Reads
    <2>4. PICK r \in Requests : requests' = [requests EXCEPT ![r] = "PENDING"]
      BY <1>11 DEF InsertRequest
    <2>5. \A q \in Requests \ {r} : ~OpenRequest(q)'
      BY <2>2, <2>4 DEF OpenRequest, TInv, TypeOK
    <2> QED
      BY <1>11, <2>2, <2>3, <2>5 DEF InsertRequest, OneLoan, OneRequest, OpenLoan
  <1>12. ASSUME NEW h \in Handlers, SendToMaintenance(h) PROVE AInv'
    <2>1. Reads(h)' /\ \A g \in Handlers \ {h} : work'[g] = work[g]
      BY <1>12, <1>t, <1>l, Left DEF SendToMaintenance, Reads
    <2> QED
      BY <1>12, <1>l, <2>1, WentOnAlone DEF SendToMaintenance, Busy
  <1>13. ASSUME NEW h \in Handlers, WriteRequest(h) PROVE AInv'
    <2> SUFFICES ASSUME ~met' PROVE Others(h)' /\ OneLoan' /\ OneRequest' /\ Reads(h)'
      BY Kept
    <2>1. ~met /\ Busy(h) /\ (Leave(h) \/ Proceed(h, "maint.loaned"))
      BY <1>13, <1>l DEF WriteRequest, Busy
    <2>2. /\ Others(h) /\ OneRequest /\ OneLoan
          /\ work[h].id \in Requests /\ OpenRequest(work[h].id)
      BY <1>13, <2>1, Alone, FromActive DEF WriteRequest, Reads, OpenRequest, TInv, LocalOK
    <2>3. Others(h)' /\ Reads(h)'
      BY <1>t, <1>l, <2>1, <2>2, Left, Proceeded DEF Others, Reads
    <2>4. \A q \in Requests \ {work[h].id} : ~OpenRequest(q)'
      BY <1>13, <2>2 DEF WriteRequest, OneRequest, OpenRequest, TInv, TypeOK
    <2> QED
      BY <1>13, <2>2, <2>3, <2>4 DEF WriteRequest, OneLoan, OneRequest, OpenLoan
  <1>14. ASSUME NEW h \in Handlers, ReadDelivered(h) PROVE AInv'
    <2>1. work'[h].pc = "maint.restore" /\ \A g \in Handlers \ {h} : work'[g] = work[g]
      BY <1>14, <1>t DEF ReadDelivered, Work
    <2>2. Reads(h)'
      BY <2>1 DEF Reads
    <2> QED
      BY <1>14, <1>l, <2>1, <2>2, WentOnAlone DEF ReadDelivered, Busy
  <1>15. ASSUME NEW h \in Handlers, RestoreEquipment(h) PROVE AInv'
    <2>1. Reads(h)' /\ \A g \in Handlers \ {h} : work'[g] = work[g]
      BY <1>15, <1>t, <1>l, Left DEF RestoreEquipment, Reads
    <2> QED
      BY <1>15, <1>l, <2>1, WentOnAlone DEF RestoreEquipment, Busy
  <1>16. ASSUME NEW h \in Handlers, StatementFails(h) PROVE AInv'
    <2>1. Reads(h)' /\ \A g \in Handlers \ {h} : work'[g] = work[g]
      BY <1>16, <1>t, <1>l, Left DEF StatementFails, Reads
    <2> QED
      BY <1>16, <2>1, WentOnAlone DEF StatementFails, Busy
  <1>17. CASE UpdateEquipment
    BY <1>17 DEF UpdateEquipment, AInv, Busy, OpenLoan, OpenRequest, Reads
  <1>18. CASE Crash
    <2>1. \A h \in Handlers : work'[h] = Idle
      BY <1>18 DEF Crash
    <2> QED
      BY <1>18, <1>l, <2>1 DEF Crash, AInv, Busy, OpenLoan, OpenRequest, Reads
  <1> QED
    BY <1>0, <1>1, <1>2, <1>3, <1>4, <1>5, <1>6, <1>7, <1>8, <1>9, <1>10, <1>11, <1>12, <1>13,
       <1>14, <1>15, <1>16, <1>17, <1>18 DEF Next

LEMMA AAlways == Spec => []AInv
  <1>1. Init => AInv
    BY AInit
  <1>2. TInv /\ AInv /\ [Next]_vars => AInv'
    BY AStep
  <1> QED
    BY TAlways, <1>1, <1>2, PTL DEF Spec

\* A finite set any two members of which are equal has at most one.
LEMMA AtMostOne ==
    ASSUME NEW S, \A x, y \in S : x = y
    PROVE  Cardinality(S) <= 1
  <1>1. CASE S = {}
    BY <1>1, FS_EmptySet
  <1>2. CASE S # {}
    <2>1. PICK x \in S : S = {x}
      BY <1>2
    <2> QED
      BY <2>1, FS_Singleton
  <1> QED
    BY <1>1, <1>2

(* As long as requests come one at a time, an equipment has one loan and one   *)
(* maintenance request in course, whatever statement fails (createLoan and the *)
(* maintenance service's create look before they insert).                      *)
THEOREM OneOfEach == Spec => []OneInCourse
  <1>1. AInv => OneInCourse
    <2> SUFFICES ASSUME AInv, ~met
                 PROVE Cardinality(LoansInCourse) <= 1 /\ Cardinality(ActiveRequests) <= 1
      BY DEF OneInCourse, OneLoanAtATime, OneRequestAtATime
    <2>1. \A k, l \in LoansInCourse : k = l
      BY DEF AInv, LoansInCourse, OpenLoan, InCourse
    <2>2. \A q, r \in ActiveRequests : q = r
      BY DEF AInv, ActiveRequests, OpenRequest, ActiveRequest
    <2> QED
      BY <2>1, <2>2, AtMostOne
  <1> QED
    BY AAlways, <1>1, PTL

-----------------------------------------------------------------------------
(* SInv: the status of the equipment and its loans.                        *)

\* What SInv says of the locals of a handler.
Settles(h) ==
    /\ work[h].pc = "loan.equipment" =>
         /\ work[h].loaned <=> work[h].to = "LOANED"
         /\ work[h].to = "LOANED" \/ loans[work[h].id].status = "LOANED"
    /\ work[h].pc = "loan.write" => Moved(h)
    /\ work[h].pc = "maint.restore" => (work[h].loaned <=> Delivered)

\* While nothing overlapped and nothing failed.
LEMMA SettlesAlone ==
    ASSUME SInv, ~met, faults = 0, NEW h \in Handlers
    PROVE  Settles(h)
  BY DEF SInv, Settles

LEMMA AgreesAlone ==
    ASSUME AInv, SInv, ~met, faults = 0, NEW h \in Handlers, Busy(h), work[h].pc # "loan.write"
    PROVE  Agree
  <1>1. Others(h) /\ Idle.pc # "loan.write"
    BY Alone DEF Idle
  <1>2. \A g \in Handlers : work[g].pc # "loan.write"
    BY <1>1 DEF Others
  <1> QED
    BY <1>2 DEF SInv

\* With the others idle, what is left to show of a step is about its handler.
LEMMA Settled ==
    ASSUME NEW h \in Handlers,
           ~met' /\ (faults = 0)' =>
             Others(h)' /\ Settles(h)' /\ ((work[h].pc # "loan.write")' => Agree')
    PROVE  SInv'
  <1> SUFFICES ASSUME ~met', (faults = 0)' PROVE SInv'
    BY DEF SInv
  <1>1. \A g \in Handlers \ {h} : work'[g].pc = "idle"
    BY DEF Others, Idle
  <1>2. \A g \in Handlers : Settles(g)'
    BY <1>1 DEF Settles
  <1>3. (\A g \in Handlers : (work[g].pc # "loan.write")') => Agree'
    OBVIOUS
  <1> QED
    BY <1>2, <1>3 DEF SInv, Settles

\* An execution that begins, beside nobody.
LEMMA BeganSettled ==
    ASSUME TInv, SInv, NEW h \in Handlers, NEW w \in Work, Enter(h, w),
           UNCHANGED <<equipment, loans, faults>>,
           ~met' /\ faults = 0 /\ Agree' => Settles(h)'
    PROVE  SInv'
  <1> SUFFICES ASSUME ~met', faults = 0
               PROVE Others(h)' /\ Settles(h)' /\ Agree'
    BY Settled
  <1>a. /\ ~met /\ work[h] = Idle /\ (byHand' <=> byHand)
        /\ \A g \in Handlers \ {h} : work[g] = Idle /\ work'[g] = work[g]
    BY Entered DEF TInv, TypeOK
  <1>b. Idle.pc = "idle"
    BY DEF Idle
  <1>1. ~met /\ Others(h)' /\ \A g \in Handlers : work[g].pc = "idle"
    BY <1>a, <1>b DEF Others
  <1>2. Agree
    BY <1>1 DEF SInv
  <1>3. Agree'
    BY <1>a, <1>2 DEF Agree, Delivered
  <1> QED
    BY <1>1, <1>3

\* A step of an execution under way that leaves the equipment and the loans alone.
LEMMA WentOnSettled ==
    ASSUME AInv, SInv, NEW h \in Handlers, Busy(h), work[h].pc # "loan.write",
           UNCHANGED <<equipment, byHand, loans, met, faults>>,
           \A g \in Handlers \ {h} : work'[g] = work[g],
           ~met /\ faults = 0 /\ Agree => Settles(h)'
    PROVE  SInv'
  <1> SUFFICES ASSUME ~met, faults = 0
               PROVE Others(h)' /\ Settles(h)' /\ Agree'
    BY Settled
  <1>1. Others(h)' /\ Agree
    BY Alone, AgreesAlone DEF Others
  <1> QED
    BY <1>1 DEF Agree, Delivered

LEMMA SInit == Init => SInv
  BY DEF Init, SInv, Agree, Delivered, NoLoan, Idle

LEMMA SStep == TInv /\ AInv /\ SInv /\ [Next]_vars => SInv'
  <1> SUFFICES ASSUME TInv, AInv, SInv, [Next]_vars PROVE SInv'
    OBVIOUS
  <1>t. work \in [Handlers -> Work]
    BY DEF TInv, TypeOK
  <1>l. /\ {"loan.insert", "loan.write", "maint.busy", "maint.equipment", "maint.loaned"} \subseteq Labels
        /\ Idle.pc = "idle"
    BY DEF Labels, Idle
  <1>0. CASE UNCHANGED vars
    BY <1>0 DEF SInv, Agree, Delivered, Moved, vars
  <1>1. ASSUME NEW h \in Handlers, NEW user \in Users, BeginLoan(h, user) PROVE SInv'
    <2> DEFINE w == [Idle EXCEPT !.pc = "loan.busy", !.user = user]
    <2>1. w \in Work /\ w.pc = "loan.busy"
      BY DEF Work, Idle, Labels, LoanStatus
    <2>2. Enter(h, w)
      BY <1>1 DEF BeginLoan
    <2> HIDE DEF w
    <2>3. Settles(h)'
      BY <1>t, <2>1, <2>2, Entered DEF Settles
    <2> QED
      BY <1>1, <2>1, <2>2, <2>3, BeganSettled DEF BeginLoan
  <1>2. ASSUME NEW h \in Handlers, NEW user \in Users, BeginRequest(h, user) PROVE SInv'
    <2> DEFINE w == [Idle EXCEPT !.user = user,
                       !.pc = IF equipment = "LOANED" THEN "maint.holder" ELSE "maint.busy"]
    <2>1. w \in Work /\ w.pc \in {"maint.holder", "maint.busy"}
      BY DEF Work, Idle, Labels, LoanStatus
    <2>2. Enter(h, w)
      BY <1>2 DEF BeginRequest
    <2> HIDE DEF w
    <2>3. Settles(h)'
      BY <1>t, <2>1, <2>2, Entered DEF Settles
    <2> QED
      BY <1>2, <2>1, <2>2, <2>3, BeganSettled DEF BeginRequest
  <1>3. ASSUME NEW h \in Handlers, NEW l \in Loans, NEW to \in LoanStatus, BeginTransition(h, l, to)
        PROVE SInv'
    <2> DEFINE label == IF EquipmentAfter(loans[l].status, to) = {} THEN "loan.write" ELSE "loan.equipment"
               loaned == EquipmentAfter(loans[l].status, to) = {"LOANED"}
               w == [Idle EXCEPT !.id = l, !.to = to, !.loaned = loaned, !.pc = label]
    <2>0. label \in Labels /\ loaned \in BOOLEAN /\ l \in Nat
      BY DEF Labels, Loans
    <2>1. w \in Work /\ w.pc = label /\ w.id = l /\ w.to = to /\ w.loaned = loaned
      <3> HIDE DEF label, loaned
      <3> QED
        BY <2>0 DEF Work, Idle
    <2>2. Enter(h, w) /\ UNCHANGED <<equipment, loans, faults>>
      BY <1>3 DEF BeginTransition
    <2>3. /\ label = "loan.write" => to # "LOANED" /\ loans[l].status # "LOANED"
          /\ label = "loan.equipment" => to = "LOANED" \/ loans[l].status = "LOANED"
          /\ label \in {"loan.write", "loan.equipment"}
          /\ loaned <=> to = "LOANED"
      BY <1>3, AfterTransition DEF BeginTransition
    <2> HIDE DEF w, label, loaned
    <2>4. work'[h] = w
      BY <1>t, <2>1, <2>2, Entered
    <2>5. ASSUME Agree' PROVE Settles(h)'
      BY <2>1, <2>2, <2>3, <2>4, <2>5 DEF Settles, Moved, Agree, Delivered
    <2> QED
      BY <2>1, <2>2, <2>5, BeganSettled
  <1>4. ASSUME NEW h \in Handlers, NEW r \in Requests, NEW to \in MaintenanceStatus,
               BeginSettle(h, r, to)
        PROVE SInv'
    <2> DEFINE w == [Idle EXCEPT !.id = r, !.to = to, !.pc = "maint.write"]
    <2>0. "maint.write" \in Labels /\ r \in Nat
      BY DEF Labels, Requests
    <2>1. w \in Work /\ w.pc = "maint.write"
      BY <2>0 DEF Work, Idle
    <2>2. Enter(h, w)
      BY <1>4 DEF BeginSettle
    <2> HIDE DEF w
    <2>3. Settles(h)'
      BY <1>t, <2>1, <2>2, Entered DEF Settles
    <2> QED
      BY <1>4, <2>1, <2>2, <2>3, BeganSettled DEF BeginSettle
  <1>5. ASSUME NEW h \in Handlers, CheckLoans(h) PROVE SInv'
    <2>1. Settles(h)' /\ \A g \in Handlers \ {h} : work'[g] = work[g]
      BY <1>5, <1>t, <1>l, Left, Proceeded DEF CheckLoans, Settles
    <2> QED
      BY <1>5, <1>l, <2>1, WentOnSettled DEF CheckLoans, Busy
  <1>6. ASSUME NEW h \in Handlers, InsertLoan(h) PROVE SInv'
    <2> SUFFICES ASSUME ~met', (faults = 0)' PROVE Others(h)' /\ Settles(h)' /\ Agree'
      BY Settled
    <2>1. ~met /\ faults = 0 /\ Busy(h) /\ Leave(h) /\ work[h].pc # "loan.write"
      BY <1>6, <1>l DEF InsertLoan, Busy
    <2>2. Others(h) /\ Agree /\ \A k \in Loans : ~OpenLoan(k)
      BY <1>6, <2>1, Alone, AgreesAlone DEF InsertLoan, Reads
    <2>3. Others(h)' /\ Settles(h)'
      BY <1>t, <1>l, <2>1, <2>2, Left DEF Others, Settles
    <2>4. PICK l \in Loans : loans' = [loans EXCEPT ![l] = [status |-> "PENDING", user |-> work[h].user]]
      BY <1>6 DEF InsertLoan
    <2>5. ~Delivered /\ ~Delivered'
      BY <2>2, <2>4 DEF OpenLoan, InCourse, Delivered, TInv, TypeOK
    <2> QED
      BY <1>6, <2>2, <2>3, <2>5 DEF InsertLoan, Agree
  <1>7. ASSUME NEW h \in Handlers, MoveEquipment(h) PROVE SInv'
    <2> SUFFICES ASSUME ~met, faults = 0
                 PROVE Others(h)' /\ Settles(h)' /\ work'[h].pc = "loan.write"
      BY <1>7, Settled DEF MoveEquipment
    <2>1. /\ work'[h].pc = "loan.write" /\ work'[h].id = work[h].id /\ work'[h].to = work[h].to
          /\ \A g \in Handlers \ {h} : work'[g] = work[g]
      BY <1>7, <1>t, <1>l, Proceeded DEF MoveEquipment
    <2>2. Others(h) /\ Settles(h)
      BY <1>7, <1>l, Alone, SettlesAlone DEF MoveEquipment, Busy
    <2>3. Others(h)'
      BY <2>1, <2>2 DEF Others
    <2>4. Moved(h)'
      BY <1>7, <2>1, <2>2 DEF MoveEquipment, Settles, Moved
    <2> QED
      BY <2>1, <2>3, <2>4 DEF Settles
  <1>8. ASSUME NEW h \in Handlers, WriteLoan(h) PROVE SInv'
    <2> SUFFICES ASSUME ~met, faults = 0 PROVE Others(h)' /\ Settles(h)' /\ Agree'
      BY <1>8, Settled DEF WriteLoan
    <2> DEFINE l == work[h].id
               to == work[h].to
    <2>1. Busy(h) /\ Leave(h)
      BY <1>8, <1>l DEF WriteLoan, Busy
    <2>2. /\ Others(h) /\ OneLoan /\ Moved(h) /\ l \in Loans
          /\ LoanTransition(loans[l].status, to)
      BY <1>8, <2>1, Alone, SettlesAlone DEF WriteLoan, Reads, Settles, TInv, LocalOK
    <2>3. Others(h)' /\ Settles(h)'
      BY <1>t, <1>l, <2>1, <2>2, Left DEF Others, Settles
    <2>4. \A k \in Loans \ {l} : loans[k].status # "LOANED" /\ loans'[k] = loans[k]
      BY <1>8, <2>2, AfterTransition DEF WriteLoan, OneLoan, OpenLoan, InCourse, TInv, TypeOK
    <2>5. loans'[l].status = to
      BY <1>8, <2>2 DEF WriteLoan, TInv, TypeOK
    <2>6. (Delivered' <=> to = "LOANED") /\ (Delivered <=> loans[l].status = "LOANED")
      BY <2>2, <2>4, <2>5 DEF Delivered
    <2>7. Agree'
      BY <1>8, <2>2, <2>6 DEF WriteLoan, Moved, Agree
    <2> QED
      BY <2>3, <2>7
  <1>9. ASSUME NEW h \in Handlers, CheckHolder(h) PROVE SInv'
    <2>1. Settles(h)' /\ \A g \in Handlers \ {h} : work'[g] = work[g]
      BY <1>9, <1>t, <1>l, Left, Proceeded DEF CheckHolder, Settles
    <2> QED
      BY <1>9, <1>l, <2>1, WentOnSettled DEF CheckHolder, Busy
  <1>10. ASSUME NEW h \in Handlers, CheckRequests(h) PROVE SInv'
    <2>1. work'[h].pc \in {"idle", "maint.insert"} /\ \A g \in Handlers \ {h} : work'[g] = work[g]
      BY <1>10, <1>t, <1>l, Left DEF CheckRequests, Idle
    <2> QED
      BY <1>10, <1>l, <2>1, WentOnSettled DEF CheckRequests, Busy, Settles
  <1>11. ASSUME NEW h \in Handlers, InsertRequest(h) PROVE SInv'
    <2>1. work'[h].pc = "maint.equipment" /\ \A g \in Handlers \ {h} : work'[g] = work[g]
      BY <1>11, <1>t, <1>l, Proceeded DEF InsertRequest
    <2> QED
      BY <1>11, <1>l, <2>1, WentOnSettled DEF InsertRequest, Busy, Settles
  <1>12. ASSUME NEW h \in Handlers, SendToMaintenance(h) PROVE SInv'
    <2> SUFFICES ASSUME ~met, faults = 0 PROVE Others(h)' /\ Settles(h)' /\ Agree'
      BY <1>12, Settled DEF SendToMaintenance
    <2>1. Others(h) /\ Leave(h)
      BY <1>12, <1>l, Alone DEF SendToMaintenance, Busy
    <2>2. Others(h)' /\ Settles(h)'
      BY <1>t, <1>l, <2>1, Left DEF Others, Settles
    <2> QED
      BY <1>12, <2>2 DEF SendToMaintenance, Agree
  <1>13. ASSUME NEW h \in Handlers, WriteRequest(h) PROVE SInv'
    <2>1. work'[h].pc \in {"idle", "maint.loaned"} /\ \A g \in Handlers \ {h} : work'[g] = work[g]
      BY <1>13, <1>t, <1>l, Left, Proceeded DEF WriteRequest
    <2> QED
      BY <1>13, <1>l, <2>1, WentOnSettled DEF WriteRequest, Busy, Settles
  <1>14. ASSUME NEW h \in Handlers, ReadDelivered(h) PROVE SInv'
    <2>1. /\ work'[h].pc = "maint.restore" /\ work'[h].loaned = Delivered
          /\ \A g \in Handlers \ {h} : work'[g] = work[g]
      BY <1>14, <1>t DEF ReadDelivered, Work, Delivered
    <2>2. Settles(h)'
      BY <1>14, <2>1 DEF ReadDelivered, Settles, Delivered
    <2> QED
      BY <1>14, <1>l, <2>1, <2>2, WentOnSettled DEF ReadDelivered, Busy
  <1>15. ASSUME NEW h \in Handlers, RestoreEquipment(h) PROVE SInv'
    <2> SUFFICES ASSUME ~met, faults = 0 PROVE Others(h)' /\ Settles(h)' /\ Agree'
      BY <1>15, Settled DEF RestoreEquipment
    <2>1. Others(h) /\ Settles(h) /\ Leave(h)
      BY <1>15, <1>l, Alone, SettlesAlone DEF RestoreEquipment, Busy
    <2>2. Others(h)' /\ Settles(h)'
      BY <1>t, <1>l, <2>1, Left DEF Others, Settles
    <2>3. (work[h].loaned <=> Delivered) /\ (Delivered <=> Delivered')
      BY <1>15, <2>1 DEF RestoreEquipment, Settles, Delivered
    <2>4. equipment' = IF work[h].loaned THEN "LOANED" ELSE "AVAILABLE"
      BY <1>15 DEF RestoreEquipment, AfterMaintenance
    <2> QED
      BY <2>2, <2>3, <2>4 DEF Agree
  <1>16. ASSUME NEW h \in Handlers, StatementFails(h) PROVE SInv'
    <2>1. faults' # 0
      BY <1>16, ConstantsAssumption DEF StatementFails, TInv, TypeOK
    <2> QED
      BY <2>1 DEF SInv
  <1>17. CASE UpdateEquipment
    <2> QED
      BY <1>17 DEF UpdateEquipment, SInv, Agree, Delivered, Moved
  <1>18. CASE Crash
    <2>1. faults' # 0
      BY <1>18, ConstantsAssumption DEF Crash, TInv, TypeOK
    <2> QED
      BY <2>1 DEF SInv
  <1> QED
    BY <1>0, <1>1, <1>2, <1>3, <1>4, <1>5, <1>6, <1>7, <1>8, <1>9, <1>10, <1>11, <1>12, <1>13,
       <1>14, <1>15, <1>16, <1>17, <1>18 DEF Next

(* With requests one at a time and no failed statement, a status that one of   *)
(* the services was the last to write agrees with the loans, whatever an       *)
(* administrator wrote by hand before: what is delivered is not offered and    *)
(* what is LOANED is with somebody, on a loan that was approved                *)
(* (updateLoanStatus, the maintenance service and updateEquipment write one    *)
(* column).                                                                    *)
THEOREM HolderKnown == Spec => []HolderIsKnown
  <1>1. TInv /\ AInv /\ SInv => HolderIsKnown
    <2>1. TInv => DeliveredWasApproved
      BY DEF TInv, DeliveredWasApproved
    <2>2. SInv => StatusTellsHolder
      BY DEF SInv, StatusTellsHolder, Quiet, Idle, Agree, Delivered
    <2> QED
      BY <2>1, <2>2 DEF HolderIsKnown
  <1>2. Init => SInv
    BY SInit
  <1>3. TInv /\ AInv /\ SInv /\ [Next]_vars => SInv'
    BY SStep
  <1> QED
    BY TAlways, AAlways, <1>1, <1>2, <1>3, PTL DEF Spec
=============================================================================

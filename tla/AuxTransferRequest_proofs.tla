--------------------- MODULE AuxTransferRequest_proofs ---------------------
(***************************************************************************)
(* Proofs about AuxTransferRequest for any number of handlers, edits,      *)
(* messages and faults.                                                    *)
(***************************************************************************)
EXTENDS AuxTransferRequest, FiniteSetTheorems, TLAPS

-----------------------------------------------------------------------------
(* Lemmas about locals and calls.                                          *)

LEMMA IdleTyped == Idle \in Work
  BY BoundsAssumption DEF Idle, Work, Ops, PCs, Requests, States

\* A step of one handler changes its own locals and nobody else's.
LEMMA Continued ==
    ASSUME work \in [Handlers -> Work], NEW h \in Handlers,
           NEW w \in Work, Continue(h, w)
    PROVE  /\ work' \in [Handlers -> Work]
           /\ work'[h] = w
           /\ \A g \in Handlers : g # h => work'[g] = work[g]
  BY DEF Continue

\* No action goes on from a request that does not exist, and none that writes
\* the row by what it read goes on from one that is deleted or being sent.
LEMMA Accepted ==
    /\ \A op \in Ops \ {"save"} : Accepts[op] \subseteq States /\ "absent" \notin Accepts[op]
    /\ Accepts["delete"] = States \ {"deleted", "sending"}
    /\ Accepts["updateTours"] = States \ {"deleted", "sending"}
    /\ Accepts["manual"] = {"pending"}
    /\ Accepts["confirm"] = {"manual", "sent", "correction"}
  BY DEF Accepts, Ops, States

\* A verdict on one message leaves the number of messages as it was.
LEMMA Decided ==
    ASSUME CallsOK, NEW c \in calls, NEW verdict \in Verdicts, verdict # c.verdict,
           calls \in SUBSET Call
    PROVE  LET after == (calls \ {c}) \cup {[c EXCEPT !.verdict = verdict]}
           IN  IsFiniteSet(after) /\ Cardinality(after) = Cardinality(calls)
  <1> DEFINE d == [c EXCEPT !.verdict = verdict]
             rest == calls \ {c}
  <1>1. IsFiniteSet(rest) /\ Cardinality(rest) = Cardinality(calls) - 1
    BY FS_RemoveElement DEF CallsOK
  <1>2. d \notin rest
    BY DEF CallsOK, Call
  <1>3. IsFiniteSet(rest \cup {d}) /\ Cardinality(rest \cup {d}) = Cardinality(rest) + 1
    <2> HIDE DEF d, rest
    <2> QED
      BY <1>1, <1>2, FS_AddElement
  <1>4. Cardinality(calls) \in Nat
    BY FS_CardinalityType DEF CallsOK
  <1> QED
    BY <1>1, <1>3, <1>4

-----------------------------------------------------------------------------
(* What a step of a handler that makes no call owes the invariant.         *)

LEMMA HandlerInv ==
    ASSUME IInv, TypeOK', RequestOK', VoucherNotAhead', StateTellsFate',
           NEW h \in Handlers,
           \A g \in Handlers : g # h => work'[g] = work[g],
           UNCHANGED calls,
           request.data <= request'.data,
           LocalOK(work[h])',
           lock' = h <=> work'[h].pc = "toursCommit",
           lock' = h => Unchanged(work[h].row)',
           \A g \in Handlers : g # h => (lock' = g <=> lock = g),
           \/ request' = request
           \/ \A g \in Handlers : g # h => lock # g /\ ~Holding(work[g]),
           Holding(work'[h]) =>
              /\ request'.state = "sending" /\ request'.data = work'[h].row.data
              /\ \A g \in Handlers : g # h => ~Holding(work[g])
              /\ Knows(work'[h])
    PROVE  IInv'
  <1>1. CallsOK' /\ NoResendInDoubt'
    BY DEF IInv, CallsOK, NoResendInDoubt
  <1>2. LocalsOK'
    <2> SUFFICES ASSUME NEW g \in Handlers PROVE LocalOK(work[g])'
      BY DEF LocalsOK
    <2>1. CASE g = h
      BY <2>1
    <2>2. CASE g # h
      <3>1. LocalOK(work[g]) /\ work'[g] = work[g] /\ work[g] \in Work
        BY <2>2 DEF IInv, TypeOK, LocalsOK
      <3>2. request.data \in Nat /\ request'.data \in Nat /\ work[g].row.data \in Nat
        BY <3>1 DEF IInv, TypeOK, Requests, Work
      <3>3. work[g].row.data <= request.data => work[g].row.data <= request'.data
        BY <3>2
      <3> QED
        BY <3>1, <3>3 DEF LocalOK
    <2> QED
      BY <2>1, <2>2
  <1>3. LockOK'
    <2> SUFFICES ASSUME NEW g \in Handlers
                 PROVE  (lock' = g <=> work'[g].pc = "toursCommit")
                        /\ (lock' = g => Unchanged(work[g].row)')
      BY DEF LockOK
    <2>1. CASE g = h
      BY <2>1
    <2>2. CASE g # h
      <3>1. (lock = g <=> work[g].pc = "toursCommit") /\ (lock = g => Unchanged(work[g].row))
        BY DEF IInv, LockOK
      <3> QED
        BY <2>2, <3>1 DEF Unchanged
    <2> QED
      BY <2>1, <2>2
  <1>4. HoldersOK'
    <2> SUFFICES ASSUME NEW g \in Handlers, Holding(work'[g])
                 PROVE  /\ request'.state = "sending" /\ request'.data = work'[g].row.data
                        /\ \A f \in Handlers : Holding(work'[f]) => f = g
                        /\ Knows(work'[g])
      BY DEF HoldersOK, Knows, AllRefused, Holding
    <2>1. CASE g = h
      BY <2>1
    <2>2. CASE g # h
      <3>1. work'[g] = work[g] /\ Holding(work[g])
        BY <2>2
      <3>2. request.state = "sending" /\ request.data = work[g].row.data /\ Knows(work[g])
            /\ \A f \in Handlers : Holding(work[f]) => f = g
        BY <3>1 DEF IInv, HoldersOK
      <3>3. request' = request
        BY <2>2, <3>1
      <3>4. ~Holding(work'[h])
        BY <2>2, <3>1
      <3> QED
        BY <3>1, <3>2, <3>3, <3>4
    <2> QED
      BY <2>1, <2>2
  <1> QED
    BY <1>1, <1>2, <1>3, <1>4 DEF IInv

\* A step that changes nothing but the locals of one handler.
LEMMA LocalStep ==
    ASSUME IInv, NEW h \in Handlers, NEW w \in Work, Continue(h, w),
           UNCHANGED <<request, voucher, lock, calls, audit, faults>>,
           work[h].pc # "toursCommit", w.pc # "toursCommit",
           LocalOK(w),
           Holding(w) => Holding(work[h]) /\ w.row = work[h].row /\ Knows(w)
    PROVE  IInv'
  <1>1. /\ work' \in [Handlers -> Work] /\ work'[h] = w
        /\ \A g \in Handlers : g # h => work'[g] = work[g]
    BY Continued DEF IInv, TypeOK
  <1>2. TypeOK' /\ RequestOK' /\ VoucherNotAhead' /\ StateTellsFate'
    BY <1>1 DEF IInv, TypeOK, RequestOK, VoucherNotAhead, StateTellsFate
  <1>3. LocalOK(work[h])'
    BY <1>1 DEF LocalOK
  <1>4. lock # h
    BY DEF IInv, LockOK
  <1>5. request.data <= request'.data
    BY DEF IInv, TypeOK, Requests
  <1>6. Holding(work[h]) =>
           /\ request.state = "sending" /\ request.data = work[h].row.data
           /\ \A g \in Handlers : g # h => ~Holding(work[g])
    BY DEF IInv, HoldersOK
  <1> QED
    BY <1>1, <1>2, <1>3, <1>4, <1>5, <1>6, HandlerInv

\* A handler that answers leaves nothing behind.
LEMMA LeaveStep ==
    ASSUME IInv, NEW h \in Handlers, Leave(h), work[h].pc # "toursCommit",
           UNCHANGED <<request, voucher, lock, calls, audit, faults>>
    PROVE  IInv'
  <1>1. LocalOK(Idle) /\ ~Holding(Idle) /\ Idle.pc # "toursCommit"
    BY DEF LocalOK, Idle, Holding
  <1> QED
    BY <1>1, IdleTyped, LocalStep DEF Leave

-----------------------------------------------------------------------------
(* Steps that only read.                                                   *)

LEMMA FindInv ==
    ASSUME IInv, NEW h \in Handlers, SaveFind(h)
    PROVE  IInv'
  <1>1. CASE Leave(h)
    BY <1>1, LeaveStep DEF SaveFind
  <1>2. CASE request.data = 1 /\ Continue(h, [work[h] EXCEPT !.pc = "voucherRead", !.row = request])
    <2> DEFINE w == [work[h] EXCEPT !.pc = "voucherRead", !.row = request]
    <2>1. work[h] \in Work /\ request \in Requests
      BY DEF IInv, TypeOK
    <2>2. w \in Work /\ w.pc = "voucherRead" /\ w.row = request /\ w.op = work[h].op
      BY <2>1 DEF Work, PCs
    <2>3. work[h].op = "save"
      BY DEF SaveFind, IInv, LocalsOK, LocalOK
    <2>4. LocalOK(w) /\ ~Holding(w)
      BY <1>2, <2>2, <2>3 DEF LocalOK, Holding
    <2> HIDE DEF w
    <2> QED
      BY <1>2, <2>2, <2>4, LocalStep DEF SaveFind, w
  <1> QED
    BY <1>1, <1>2 DEF SaveFind

LEMMA ReadInv ==
    ASSUME IInv, NEW h \in Handlers, ReadRow(h)
    PROVE  IInv'
  <1>1. PICK op \in Ops \ {"save"} :
            /\ request.state \in Accepts[op]
            /\ Continue(h, [Idle EXCEPT !.op = op, !.pc = FirstStep[op], !.row = request])
    BY DEF ReadRow
  <1> DEFINE w == [Idle EXCEPT !.op = op, !.pc = FirstStep[op], !.row = request]
  <1>2. request \in Requests /\ RequestOK
    BY DEF IInv, TypeOK
  <1>3. request.data \in Nat /\ request.data >= 1
    BY <1>1, <1>2, Accepted DEF Requests, RequestOK
  <1>4. FirstStep[op] = CASE op = "delete" -> "deleteAudit"
                          [] op = "updateTours" -> "toursVoucher"
                          [] OTHER -> "voucherRead"
    BY <1>1 DEF FirstStep, Ops
  <1>5. w \in Work /\ w.pc = FirstStep[op] /\ w.row = request /\ w.op = op
    BY <1>1, <1>2, <1>4, IdleTyped DEF Work, PCs, Idle, Ops
  <1>6. LocalOK(w) /\ ~Holding(w) /\ w.pc # "toursCommit"
    BY <1>1, <1>3, <1>4, <1>5 DEF LocalOK, Holding, Ops
  <1> HIDE DEF w
  <1> QED
    BY <1>1, <1>5, <1>6, LocalStep DEF ReadRow, w

\* Where ensureVoucher goes on to.
LEMMA AfterVoucherStep ==
    ASSUME IInv, NEW h \in Handlers, AfterVoucher(h),
           work[h].pc \in {"voucherRead", "voucherInsert", "voucherCheck"},
           UNCHANGED <<request, voucher, lock, calls, audit, faults>>
    PROVE  IInv'
  <1>1. work[h] \in Work /\ LocalOK(work[h])
    BY DEF IInv, TypeOK, LocalsOK
  <1>2. CASE Leave(h)
    BY <1>2, LeaveStep
  <1>3. CASE work[h].op \in {"manual", "confirm"} /\ GoTo(h, "mark")
    <2> DEFINE w == [work[h] EXCEPT !.pc = "mark"]
    <2>1. w \in Work /\ w.pc = "mark" /\ w.row = work[h].row /\ w.op = work[h].op
      BY <1>1 DEF Work, PCs
    <2>2. LocalOK(w) /\ ~Holding(w)
      BY <1>1, <1>3, <2>1 DEF LocalOK, Holding
    <2> HIDE DEF w
    <2> QED
      BY <1>3, <2>1, <2>2, LocalStep DEF GoTo, w
  <1>4. CASE work[h].op = "send" /\ GoTo(h, "claim")
    <2> DEFINE w == [work[h] EXCEPT !.pc = "claim"]
    <2>1. w \in Work /\ w.pc = "claim" /\ w.row = work[h].row /\ w.op = work[h].op
      BY <1>1 DEF Work, PCs
    <2>2. LocalOK(w) /\ ~Holding(w)
      BY <1>1, <1>4, <2>1 DEF LocalOK, Holding
    <2> HIDE DEF w
    <2> QED
      BY <1>4, <2>1, <2>2, LocalStep DEF GoTo, w
  <1> QED
    BY <1>2, <1>3, <1>4 DEF AfterVoucher

LEMMA VoucherReadInv ==
    ASSUME IInv, NEW h \in Handlers, VoucherRead(h) \/ VoucherCheck(h)
    PROVE  IInv'
  <1>1. work[h] \in Work /\ LocalOK(work[h])
    BY DEF IInv, TypeOK, LocalsOK
  <1>2. CASE AfterVoucher(h)
    BY <1>2, AfterVoucherStep DEF VoucherRead, VoucherCheck
  <1>3. CASE Leave(h)
    BY <1>3, LeaveStep DEF VoucherRead, VoucherCheck
  <1>4. CASE VoucherRead(h) /\ GoTo(h, "voucherInsert")
    <2> DEFINE w == [work[h] EXCEPT !.pc = "voucherInsert"]
    <2>1. w \in Work /\ w.pc = "voucherInsert" /\ w.row = work[h].row /\ w.op = work[h].op
      BY <1>1 DEF Work, PCs
    <2>2. LocalOK(w) /\ ~Holding(w)
      BY <1>1, <1>4, <2>1 DEF LocalOK, Holding, VoucherRead
    <2> HIDE DEF w
    <2> QED
      BY <1>4, <2>1, <2>2, LocalStep DEF GoTo, VoucherRead, w
  <1> QED
    BY <1>2, <1>3, <1>4 DEF VoucherRead, VoucherCheck

LEMMA DeleteAuditInv ==
    ASSUME IInv, NEW h \in Handlers, DeleteAudit(h)
    PROVE  IInv'
  <1> DEFINE w == [work[h] EXCEPT !.pc = "deleteRow",
                                  !.noted = request.state = work[h].row.state]
  <1>1. work[h] \in Work /\ LocalOK(work[h])
    BY DEF IInv, TypeOK, LocalsOK
  <1>2. w.pc = "deleteRow" /\ w.row = work[h].row /\ w.op = work[h].op
    BY <1>1 DEF Work
  <1>3. w \in Work
    <2>1. (request.state = work[h].row.state) \in BOOLEAN
      OBVIOUS
    <2> HIDE DEF Work
    <2>2. \A b \in BOOLEAN : [work[h] EXCEPT !.pc = "deleteRow", !.noted = b] \in Work
      BY <1>1 DEF Work, PCs
    <2> QED
      BY <2>1, <2>2
  <1>4. LocalOK(w) /\ ~Holding(w)
    BY <1>1, <1>2 DEF LocalOK, Holding, DeleteAudit
  <1> HIDE DEF w
  <1> QED
    BY <1>2, <1>3, <1>4, LocalStep DEF DeleteAudit, w

LEMMA ToursVoucherInv ==
    ASSUME IInv, NEW h \in Handlers, ToursVoucher(h)
    PROVE  IInv'
  <1>1. CASE Leave(h)
    BY <1>1, LeaveStep DEF ToursVoucher
  <1>2. CASE /\ work[h].row.data < MaxData /\ voucher.revision < MaxRevision
             /\ Continue(h, [work[h] EXCEPT !.pc = "toursRow", !.revision = voucher.revision])
    <2> DEFINE w == [work[h] EXCEPT !.pc = "toursRow", !.revision = voucher.revision]
    <2>1. work[h] \in Work /\ LocalOK(work[h]) /\ voucher \in Vouchers
      BY DEF IInv, TypeOK, LocalsOK
    <2>2. w \in Work /\ w.pc = "toursRow" /\ w.row = work[h].row /\ w.op = work[h].op
          /\ w.revision = voucher.revision
      BY <2>1 DEF Work, PCs, Vouchers
    <2>3. LocalOK(w) /\ ~Holding(w)
      BY <1>2, <2>1, <2>2 DEF LocalOK, Holding, ToursVoucher
    <2> HIDE DEF w
    <2> QED
      BY <1>2, <2>2, <2>3, LocalStep DEF ToursVoucher, w
  <1> QED
    BY <1>1, <1>2 DEF ToursVoucher

\* The answer says what became of the one message that may not be refused.
LEMMA ReceiveInv ==
    ASSUME IInv, NEW h \in Handlers, Receive(h) \/ TimeOut(h)
    PROVE  IInv'
  <1>1. /\ work[h] \in Work /\ LocalOK(work[h]) /\ Knows(work[h])
        /\ work[h].pc = "wait" /\ Holding(work[h])
    BY DEF IInv, TypeOK, LocalsOK, HoldersOK, Holding, Receive, TimeOut
  <1>2. PICK target \in {"pending", "sent", "unknown"} :
            /\ Continue(h, [work[h] EXCEPT !.pc = "record", !.target = target])
            /\ target = "pending" => AllRefused
            /\ target = "sent" =>
                  \E c \in calls : Delivered(c) /\ c.data = work[h].row.data
    <2>1. CASE TimeOut(h)
      BY <2>1 DEF TimeOut
    <2>2. CASE Receive(h)
      <3>1. PICK c \in calls :
                /\ c.nr = work[h].nr /\ c.verdict # "pending"
                /\ Continue(h, [work[h] EXCEPT !.pc = "record", !.target = Outcome(c.verdict)])
        BY <2>2 DEF Receive
      <3>2. Outcome(c.verdict) \in {"pending", "sent", "unknown"}
        BY DEF Outcome
      <3>3. Outcome(c.verdict) = "pending" => c.verdict = "rejected"
        BY DEF Outcome
      <3>4. c.verdict = "rejected" => AllRefused
        BY <1>1, <3>1 DEF Knows, AllRefused, IInv, CallsOK
      <3>5. Outcome(c.verdict) = "sent" => Delivered(c) /\ c.data = work[h].row.data
        BY <1>1, <3>1 DEF Outcome, Delivered, Knows
      <3> QED
        BY <3>1, <3>2, <3>3, <3>4, <3>5
    <2> QED
      BY <2>1, <2>2
  <1> DEFINE w == [work[h] EXCEPT !.pc = "record", !.target = target]
  <1>3. w \in Work /\ w.pc = "record" /\ w.row = work[h].row /\ w.op = work[h].op
        /\ w.target = target
    BY <1>1, <1>2 DEF Work, PCs, States
  <1>4. LocalOK(w)
    BY <1>1, <1>3 DEF LocalOK
  <1>5. Knows(w)
    BY <1>2, <1>3 DEF Knows
  <1> HIDE DEF w
  <1> QED
    BY <1>1, <1>2, <1>3, <1>4, <1>5, LocalStep DEF Receive, TimeOut, w

-----------------------------------------------------------------------------
(* Steps that write.                                                       *)

\* A handler that writes and answers: what is left to show of its step.
LEMMA LastStep ==
    ASSUME IInv, NEW h \in Handlers, Leave(h), UNCHANGED <<voucher, calls>>,
           request' \in Requests, audit' \subseteq Audits, faults' \in 0 .. MaxFaults,
           request.data <= request'.data, RequestOK', StateTellsFate',
           request' = request \/ \A g \in Handlers : g # h => ~Holding(work[g]),
           \/ lock' = lock /\ lock # h /\ (request' = request \/ lock = Nobody)
           \/ lock' = Nobody /\ lock = h
    PROVE  IInv'
  <1>1. /\ work' \in [Handlers -> Work] /\ work'[h] = Idle
        /\ \A g \in Handlers : g # h => work'[g] = work[g]
    BY Continued, IdleTyped DEF Leave, IInv, TypeOK
  <1>2. TypeOK'
    BY <1>1, NobodyAssumption DEF IInv, TypeOK
  <1>3. VoucherNotAhead'
    <2>1. voucher \in Vouchers /\ request \in Requests /\ VoucherNotAhead
      BY DEF IInv, TypeOK
    <2>2. voucher.from \in Nat /\ request.data \in Nat /\ request'.data \in Nat
      BY <2>1 DEF Vouchers, Requests
    <2> QED
      BY <2>1, <2>2 DEF VoucherNotAhead
  <1>4. LocalOK(work[h])' /\ ~Holding(work'[h]) /\ work'[h].pc # "toursCommit"
    BY <1>1 DEF LocalOK, Idle, Holding
  <1>5. lock' # h /\ \A g \in Handlers : g # h => (lock' = g <=> lock = g)
    BY NobodyAssumption
  <1>6. \/ request' = request
        \/ \A g \in Handlers : g # h => lock # g /\ ~Holding(work[g])
    BY NobodyAssumption
  <1> QED
    BY <1>1, <1>2, <1>3, <1>4, <1>5, <1>6, HandlerInv

LEMMA VoucherInsertInv ==
    ASSUME IInv, NEW h \in Handlers, VoucherInsert(h)
    PROVE  IInv'
  <1> DEFINE w == [work[h] EXCEPT !.pc = "voucherCheck"]
  <1>1. /\ work[h] \in Work /\ LocalOK(work[h]) /\ voucher \in Vouchers
        /\ request \in Requests /\ VoucherNotAhead /\ work[h].pc = "voucherInsert"
    BY DEF IInv, TypeOK, LocalsOK, VoucherInsert
  <1>2. w \in Work /\ w.pc = "voucherCheck" /\ w.row = work[h].row /\ w.op = work[h].op
    BY <1>1 DEF Work, PCs
  <1>3. LocalOK(w) /\ ~Holding(w)
    BY <1>1, <1>2 DEF LocalOK, Holding
  <1>4. Continue(h, w)
    BY DEF VoucherInsert, GoTo
  <1> HIDE DEF w
  <1>5. /\ work' \in [Handlers -> Work] /\ work'[h] = w
        /\ \A g \in Handlers : g # h => work'[g] = work[g]
    BY <1>2, <1>4, Continued DEF IInv, TypeOK
  <1>6. work[h].row.data \in 0 .. MaxData /\ work[h].row.data <= request.data
    BY <1>1 DEF Work, Requests, LocalOK
  <1>7. voucher' \in Vouchers
    BY <1>1, <1>6, BoundsAssumption DEF VoucherInsert, Vouchers
  <1>8. VoucherNotAhead'
    BY <1>1, <1>6 DEF VoucherNotAhead, VoucherInsert
  <1>9. TypeOK' /\ RequestOK' /\ StateTellsFate'
    BY <1>5, <1>7 DEF IInv, TypeOK, RequestOK, StateTellsFate, VoucherInsert
  <1>10. LocalOK(work[h])' /\ ~Holding(work'[h]) /\ work'[h].pc # "toursCommit"
    BY <1>2, <1>3, <1>5 DEF LocalOK, VoucherInsert
  <1>11. lock # h
    BY <1>1 DEF IInv, LockOK
  <1>12. request.data <= request'.data /\ request' = request /\ lock' = lock
         /\ UNCHANGED calls
    BY <1>1 DEF Requests, VoucherInsert
  <1> QED
    BY <1>5, <1>8, <1>9, <1>10, <1>11, <1>12, HandlerInv

LEMMA SaveInsertInv ==
    ASSUME IInv, NEW h \in Handlers, SaveInsert(h)
    PROVE  IInv'
  <1> DEFINE w == [Idle EXCEPT !.op = "save", !.pc = "find"]
  <1>1. /\ request \in Requests /\ voucher \in Vouchers /\ RequestOK /\ VoucherNotAhead
        /\ StateTellsFate /\ work[h].pc = "idle"
    BY DEF IInv, TypeOK, SaveInsert
  <1>2. w \in Work /\ w.pc = "find" /\ w.op = "save"
    BY IdleTyped DEF Work, PCs, Ops, Idle
  <1>3. Continue(h, w)
    BY DEF SaveInsert
  <1> HIDE DEF w
  <1>4. /\ work' \in [Handlers -> Work] /\ work'[h] = w
        /\ \A g \in Handlers : g # h => work'[g] = work[g]
    BY <1>2, <1>3, Continued DEF IInv, TypeOK
  <1>5. request' \in Requests /\ RequestOK' /\ request.data <= request'.data
    BY <1>1, BoundsAssumption DEF SaveInsert, Requests, RequestOK, States
  <1>6. TypeOK'
    BY <1>4, <1>5 DEF SaveInsert, IInv, TypeOK
  <1>7. VoucherNotAhead'
    <2>1. voucher.from \in Nat /\ request.data \in Nat /\ request'.data \in Nat
      BY <1>1, <1>5 DEF Vouchers, Requests
    <2> QED
      BY <1>1, <1>5, <2>1 DEF VoucherNotAhead, SaveInsert
  <1>8. StateTellsFate'
    BY <1>1 DEF StateTellsFate, SaveInsert
  <1>9. LocalOK(work[h])' /\ ~Holding(work'[h]) /\ work'[h].pc # "toursCommit"
    BY <1>2, <1>4 DEF LocalOK, Holding
  <1>10. lock # h
    BY <1>1 DEF IInv, LockOK
  <1>11. \/ request' = request
         \/ \A g \in Handlers : g # h => lock # g /\ ~Holding(work[g])
    <2>1. CASE request.state = "absent"
      <3>1. \A g \in Handlers : ~Holding(work[g])
        BY <2>1 DEF IInv, HoldersOK
      <3>2. ASSUME NEW g \in Handlers, lock = g PROVE FALSE
        <4>1. LocalOK(work[g]) /\ work[g].pc = "toursCommit" /\ Unchanged(work[g].row)
          BY <3>2 DEF IInv, LocalsOK, LockOK
        <4>2. work[g].row.data >= 1 /\ work[g].row.data = 0
          BY <1>1, <2>1, <4>1 DEF LocalOK, Unchanged, RequestOK
        <4> QED
          BY <4>2
      <3> QED
        BY <3>1, <3>2
    <2> QED
      BY <2>1 DEF SaveInsert
  <1> QED
    BY <1>4, <1>5, <1>6, <1>7, <1>8, <1>9, <1>10, <1>11, HandlerInv DEF SaveInsert

\* With the row as it was read, in a state that is not "sending", nobody holds
\* the request.
LEMMA Unheld ==
    ASSUME IInv, request.state # "sending"
    PROVE  \A g \in Handlers : ~Holding(work[g])
  BY DEF IInv, HoldersOK

LEMMA DeleteRowInv ==
    ASSUME IInv, NEW h \in Handlers, DeleteRow(h)
    PROVE  IInv'
  <1>1. /\ work[h] \in Work /\ LocalOK(work[h]) /\ request \in Requests /\ RequestOK
        /\ StateTellsFate /\ audit \subseteq Audits /\ faults \in 0 .. MaxFaults
        /\ work[h].pc = "deleteRow" /\ lock = Nobody
    BY DEF IInv, TypeOK, LocalsOK, DeleteRow, Free
  <1>2. work[h].row.state \in States \ {"deleted", "sending"}
    BY <1>1, Accepted DEF LocalOK
  <1>3. request' \in Requests /\ request.data <= request'.data /\ RequestOK'
    BY <1>1, <1>2 DEF DeleteRow, Requests, RequestOK, States
  <1>4. StateTellsFate'
    BY <1>1 DEF DeleteRow, StateTellsFate, Requests
  <1>5. audit' \subseteq Audits
    BY <1>1 DEF DeleteRow, Audits
  <1>6. request' = request \/ \A g \in Handlers : g # h => ~Holding(work[g])
    BY <1>2, Unheld DEF DeleteRow
  <1> QED
    BY <1>1, <1>3, <1>4, <1>5, <1>6, LastStep, NobodyAssumption DEF DeleteRow

LEMMA MarkInv ==
    ASSUME IInv, NEW h \in Handlers, Mark(h)
    PROVE  IInv'
  <1>1. /\ work[h] \in Work /\ LocalOK(work[h]) /\ request \in Requests /\ RequestOK
        /\ StateTellsFate /\ audit \subseteq Audits /\ faults \in 0 .. MaxFaults
        /\ work[h].pc = "mark" /\ lock = Nobody
    BY DEF IInv, TypeOK, LocalsOK, Mark, Free
  <1>2. \/ work[h].op = "manual" /\ work[h].row.state = "pending"
        \/ work[h].op = "confirm" /\ work[h].row.state \in {"manual", "sent", "correction"}
    BY <1>1, Accepted DEF LocalOK
  <1>3. request' \in Requests /\ request.data <= request'.data /\ RequestOK'
    BY <1>1, <1>2 DEF Mark, Marked, Unchanged, Requests, RequestOK, States
  <1>4. StateTellsFate'
    BY <1>1, <1>2 DEF Mark, Marked, Unchanged, StateTellsFate, Requests
  <1>5. audit' \subseteq Audits
    BY <1>1, <1>2 DEF Mark, Audits
  <1>6. request' = request \/ \A g \in Handlers : g # h => ~Holding(work[g])
    BY <1>2, Unheld DEF Mark, Unchanged
  <1> QED
    BY <1>1, <1>3, <1>4, <1>5, <1>6, LastStep, NobodyAssumption DEF Mark

LEMMA RecordInv ==
    ASSUME IInv, NEW h \in Handlers, Record(h)
    PROVE  IInv'
  <1>1. /\ work[h] \in Work /\ request \in Requests /\ RequestOK
        /\ audit \subseteq Audits /\ faults \in 0 .. MaxFaults
        /\ work[h].pc = "record" /\ lock = Nobody
    BY DEF IInv, TypeOK, Record, Free
  <1>2. /\ request.state = "sending" /\ request.data = work[h].row.data
        /\ \A g \in Handlers : Holding(work[g]) => g = h
        /\ Knows(work[h])
    BY <1>1 DEF IInv, HoldersOK, Holding
  <1>3. work[h].target \in {"pending", "sent", "unknown"}
    BY <1>1, <1>2 DEF Knows
  <1>4. request' \in Requests /\ request.data <= request'.data /\ RequestOK'
    BY <1>1, <1>2, <1>3 DEF Record, Requests, RequestOK, States
  <1>5. StateTellsFate'
    BY <1>1, <1>2, <1>3 DEF Record, Knows, AllRefused, StateTellsFate, Requests
  <1>6. audit' \subseteq Audits
    BY <1>1 DEF Record, Audits
  <1> QED
    BY <1>1, <1>2, <1>4, <1>5, <1>6, LastStep, NobodyAssumption DEF Record

LEMMA StatementFailsInv ==
    ASSUME IInv, NEW h \in Handlers, StatementFails(h)
    PROVE  IInv'
  <1>1. request \in Requests /\ RequestOK /\ StateTellsFate /\ audit \subseteq Audits
    BY DEF IInv, TypeOK
  <1>2. faults' \in 0 .. MaxFaults
    BY BoundsAssumption DEF StatementFails, Fault, IInv, TypeOK
  <1>3. request' = request /\ RequestOK' /\ StateTellsFate' /\ request.data <= request'.data
    BY <1>1 DEF StatementFails, RequestOK, StateTellsFate, Requests
  <1> QED
    BY <1>1, <1>2, <1>3, LastStep DEF StatementFails

\* The first statement of the batch locks the row as it was read.
LEMMA ToursRowInv ==
    ASSUME IInv, NEW h \in Handlers, ToursRow(h)
    PROVE  IInv'
  <1>1. CASE Leave(h) /\ UNCHANGED lock
    BY <1>1, LeaveStep DEF ToursRow
  <1>2. CASE Unchanged(work[h].row) /\ lock' = h /\ GoTo(h, "toursCommit")
    <2> DEFINE w == [work[h] EXCEPT !.pc = "toursCommit"]
    <2>1. /\ work[h] \in Work /\ LocalOK(work[h]) /\ work[h].pc = "toursRow"
          /\ lock = Nobody /\ request \in Requests
      BY DEF IInv, TypeOK, LocalsOK, ToursRow, Free
    <2>2. w \in Work /\ w.pc = "toursCommit" /\ w.row = work[h].row /\ w.op = work[h].op
          /\ w.revision = work[h].revision
      BY <2>1 DEF Work, PCs
    <2>3. Continue(h, w)
      BY <1>2 DEF GoTo
    <2> HIDE DEF w
    <2>4. /\ work' \in [Handlers -> Work] /\ work'[h] = w
          /\ \A g \in Handlers : g # h => work'[g] = work[g]
      BY <2>2, <2>3, Continued DEF IInv, TypeOK
    <2>5. TypeOK' /\ RequestOK' /\ VoucherNotAhead' /\ StateTellsFate'
      BY <1>2, <2>4 DEF IInv, TypeOK, RequestOK, VoucherNotAhead, StateTellsFate, ToursRow
    <2>6. LocalOK(work[h])' /\ ~Holding(work'[h])
      BY <2>1, <2>2, <2>4 DEF LocalOK, Holding, ToursRow
    <2>7. Unchanged(work[h].row)'
      BY <1>2, <2>2, <2>4 DEF Unchanged, ToursRow
    <2>8. \A g \in Handlers : g # h => (lock' = g <=> lock = g)
      BY <1>2, <2>1, NobodyAssumption
    <2>9. request' = request /\ UNCHANGED calls /\ request.data <= request'.data
      BY <2>1 DEF ToursRow, Requests
    <2> QED
      BY <1>2, <2>2, <2>4, <2>5, <2>6, <2>7, <2>8, <2>9, HandlerInv
  <1> QED
    BY <1>1, <1>2 DEF ToursRow

\* The commit of the batch: the request, and the voucher if nobody changed it.
LEMMA ToursCommitInv ==
    ASSUME IInv, NEW h \in Handlers, ToursCommit(h)
    PROVE  IInv'
  <1>1. /\ work[h] \in Work /\ LocalOK(work[h]) /\ request \in Requests
        /\ voucher \in Vouchers /\ VoucherNotAhead /\ StateTellsFate
        /\ work[h].pc = "toursCommit" /\ audit \subseteq Audits
    BY DEF IInv, TypeOK, LocalsOK, ToursCommit
  <1>2. lock = h /\ Unchanged(work[h].row)
    BY <1>1 DEF IInv, LockOK
  <1>3. request.state \in States \ {"deleted", "sending"}
        /\ request.data >= 1 /\ request.data < MaxData
        /\ work[h].revision < MaxRevision
    BY <1>1, <1>2, Accepted DEF LocalOK, Unchanged
  <1>4. /\ request'.data = request.data + 1
        /\ request' \in Requests
        /\ \/ request'.state = "pending" /\ request.state = "pending"
           \/ request'.state = "correction"
    BY <1>1, <1>2, <1>3, BoundsAssumption DEF ToursCommit, Unchanged, Requests, States
  <1>5. request.data <= request'.data /\ RequestOK'
    BY <1>1, <1>3, <1>4 DEF RequestOK, Requests
  <1>6. /\ work' \in [Handlers -> Work] /\ work'[h] = Idle
        /\ \A g \in Handlers : g # h => work'[g] = work[g]
    BY Continued, IdleTyped DEF Leave, IInv, TypeOK, ToursCommit
  <1>7. voucher' \in Vouchers /\ VoucherNotAhead'
    <2>1. CASE UNCHANGED voucher
      BY <1>1, <1>4, <2>1 DEF VoucherNotAhead, Vouchers, Requests
    <2>2. CASE voucher' = [voucher EXCEPT !.revision = @ + 1, !.from = request.data + 1]
               /\ voucher.revision = work[h].revision
      <3>1. voucher.revision + 1 \in 0 .. MaxRevision /\ request.data + 1 \in 0 .. MaxData
        BY <1>1, <1>3, <2>2, BoundsAssumption DEF Vouchers, Requests
      <3>2. /\ voucher' \in Vouchers
            /\ voucher'.from = request.data + 1
        BY <1>1, <2>2, <3>1 DEF Vouchers
      <3>3. voucher'.from <= request'.data
        BY <1>1, <1>4, <3>2 DEF Requests
      <3> QED
        BY <3>2, <3>3 DEF VoucherNotAhead
    <2> QED
      BY <1>2, <2>1, <2>2 DEF ToursCommit, Unchanged
  <1>8. TypeOK'
    BY <1>1, <1>4, <1>6, <1>7 DEF IInv, TypeOK, ToursCommit, Audits
  <1>9. StateTellsFate'
    BY <1>1, <1>4 DEF StateTellsFate, ToursCommit
  <1>10. LocalOK(work[h])' /\ ~Holding(work'[h]) /\ work'[h].pc # "toursCommit"
    BY <1>6 DEF LocalOK, Idle, Holding
  <1>11. lock' = Nobody /\ \A g \in Handlers : g # h => (lock' = g <=> lock = g)
    BY <1>2, NobodyAssumption DEF ToursCommit
  <1>12. \A g \in Handlers : g # h => lock # g /\ ~Holding(work[g])
    BY <1>2, <1>3, Unheld
  <1> QED
    BY <1>5, <1>6, <1>7, <1>8, <1>9, <1>10, <1>11, <1>12, NobodyAssumption, HandlerInv
       DEF ToursCommit

\* A claim finds the request pending, so nothing of it is with the operator.
LEMMA ClaimInv ==
    ASSUME IInv, NEW h \in Handlers, Claim(h)
    PROVE  IInv'
  <1>1. CASE Leave(h) /\ UNCHANGED request
    BY <1>1, LeaveStep DEF Claim
  <1>2. CASE /\ Claimable(h) /\ Cardinality(calls) < MaxCalls
             /\ request' = [request EXCEPT !.state = "sending"]
             /\ Continue(h, [work[h] EXCEPT !.pc = "call", !.nr = Cardinality(calls) + 1])
    <2> DEFINE nr == Cardinality(calls) + 1
               w == [work[h] EXCEPT !.pc = "call", !.nr = nr]
    <2>1. /\ work[h] \in Work /\ LocalOK(work[h]) /\ work[h].pc = "claim"
          /\ lock = Nobody /\ request \in Requests /\ RequestOK /\ StateTellsFate
          /\ voucher \in Vouchers /\ VoucherNotAhead
      BY DEF IInv, TypeOK, LocalsOK, Claim, Free
    <2>2. nr \in 0 .. MaxCalls /\ nr <= MaxCalls
      BY <1>2, FS_CardinalityType, BoundsAssumption DEF IInv, CallsOK
    <2> HIDE DEF nr
    <2>3. w \in Work /\ w.pc = "call" /\ w.row = work[h].row /\ w.op = work[h].op /\ w.nr = nr
      BY <2>1, <2>2 DEF Work, PCs
    <2>4. Continue(h, w)
      BY <1>2 DEF nr
    <2> HIDE DEF w
    <2>5. /\ work' \in [Handlers -> Work] /\ work'[h] = w
          /\ \A g \in Handlers : g # h => work'[g] = work[g]
      BY <2>3, <2>4, Continued DEF IInv, TypeOK
    <2>6. /\ request.state = "pending" /\ request.data = work[h].row.data
          /\ request'.state = "sending" /\ request'.data = request.data
          /\ request' \in Requests
      BY <1>2, <2>1 DEF Claimable, Requests, States
    <2>7. TypeOK'
      BY <2>5, <2>6 DEF IInv, TypeOK, Claim
    <2>8. RequestOK' /\ VoucherNotAhead' /\ StateTellsFate' /\ request.data <= request'.data
      BY <2>1, <2>6 DEF RequestOK, VoucherNotAhead, StateTellsFate, Claim, Requests
    <2>9. AllRefused
      BY <2>1, <2>6 DEF StateTellsFate, AllRefused
    <2>10. Knows(w)
      BY <2>2, <2>3, <2>9 DEF Knows, nr
    <2>11. LocalOK(work[h])' /\ work'[h].pc # "toursCommit"
      BY <2>1, <2>3, <2>5, <2>6 DEF LocalOK
    <2>12. Knows(work'[h]) /\ request'.data = work'[h].row.data
      BY <2>3, <2>5, <2>6, <2>10
    <2>13. \A g \in Handlers : ~Holding(work[g])
      BY <2>6, Unheld
    <2> QED
      BY <2>1, <2>5, <2>6, <2>7, <2>8, <2>11, <2>12, <2>13, NobodyAssumption, HandlerInv
         DEF Claim
  <1> QED
    BY <1>1, <1>2 DEF Claim

LEMMA ClaimUnacknowledgedInv ==
    ASSUME IInv, NEW h \in Handlers, ClaimUnacknowledged(h)
    PROVE  IInv'
  <1>1. /\ request \in Requests /\ RequestOK /\ StateTellsFate /\ audit \subseteq Audits
        /\ lock = Nobody /\ request.state = "pending"
    BY DEF IInv, TypeOK, ClaimUnacknowledged, Free, Claimable
  <1>2. faults' \in 0 .. MaxFaults
    BY BoundsAssumption DEF ClaimUnacknowledged, Fault, IInv, TypeOK
  <1>3. /\ request' \in Requests /\ RequestOK' /\ StateTellsFate'
        /\ request.data <= request'.data
    BY <1>1 DEF ClaimUnacknowledged, RequestOK, StateTellsFate, Requests, States
  <1>4. \A g \in Handlers : ~Holding(work[g])
    BY <1>1, Unheld
  <1> QED
    BY <1>1, <1>2, <1>3, <1>4, LastStep, NobodyAssumption DEF ClaimUnacknowledged

-----------------------------------------------------------------------------
(* The calls.                                                              *)

\* The first message that may be taken, while every other one was refused.
LEMMA CallInv ==
    ASSUME IInv, NEW h \in Handlers, CallOperator(h)
    PROVE  IInv'
  <1> DEFINE c == [nr |-> work[h].nr, data |-> work[h].row.data, verdict |-> "pending"]
             w == [work[h] EXCEPT !.pc = "wait"]
  <1>1. /\ work[h] \in Work /\ LocalOK(work[h]) /\ work[h].pc = "call" /\ Knows(work[h])
        /\ request.state = "sending" /\ request.data = work[h].row.data
        /\ \A g \in Handlers : Holding(work[g]) => g = h
        /\ CallsOK /\ calls \in SUBSET Call
    BY DEF IInv, TypeOK, LocalsOK, HoldersOK, Holding, CallOperator
  <1>2. w \in Work /\ w.pc = "wait" /\ w.row = work[h].row /\ w.op = work[h].op
        /\ w.nr = work[h].nr
    BY <1>1 DEF Work, PCs
  <1>3. Continue(h, w) /\ calls' = calls \cup {c}
    BY DEF CallOperator, GoTo
  <1>4. Cardinality(calls) \in Nat /\ IsFiniteSet(calls)
    BY <1>1, FS_CardinalityType DEF CallsOK
  <1>5. AllRefused /\ work[h].nr = Cardinality(calls) + 1 /\ work[h].nr <= MaxCalls
    BY <1>1 DEF Knows
  <1>6. /\ c \in Call /\ c.nr = Cardinality(calls) + 1 /\ c.data = work[h].row.data
        /\ c.verdict = "pending"
    BY <1>1, <1>4, <1>5, BoundsAssumption DEF Call, Work, Requests, LocalOK, Verdicts
  <1> HIDE DEF c, w
  <1>7. \A d \in calls : d.nr < c.nr /\ d # c /\ d.nr \in Nat
    BY <1>1, <1>4, <1>6 DEF CallsOK, Call
  <1>8. /\ work' \in [Handlers -> Work] /\ work'[h] = w
        /\ \A g \in Handlers : g # h => work'[g] = work[g]
    BY <1>2, <1>3, Continued DEF IInv, TypeOK
  <1>9. TypeOK' /\ RequestOK' /\ VoucherNotAhead'
    BY <1>3, <1>6, <1>8 DEF CallOperator, IInv, TypeOK, RequestOK, VoucherNotAhead
  <1>10. CallsOK'
    <2>1. IsFiniteSet(calls') /\ Cardinality(calls') = Cardinality(calls) + 1
      BY <1>3, <1>4, <1>7, FS_AddElement
    <2>2. \A d \in calls' : d.nr <= Cardinality(calls')
      BY <1>1, <1>3, <1>4, <1>6, <1>7, <2>1 DEF CallsOK
    <2>3. \A d, e \in calls' : d.nr = e.nr => d = e
      BY <1>1, <1>3, <1>6, <1>7 DEF CallsOK
    <2> QED
      BY <2>1, <2>2, <2>3 DEF CallsOK
  <1>11. LocalsOK'
    <2>1. LocalOK(w)
      BY <1>1, <1>2 DEF LocalOK
    <2>2. \A g \in Handlers : LocalOK(work'[g])
      BY <1>8, <2>1 DEF IInv, LocalsOK
    <2> QED
      BY <2>2 DEF LocalsOK, LocalOK, CallOperator
  <1>12. LockOK'
    BY <1>1, <1>2, <1>8 DEF IInv, LockOK, Unchanged, CallOperator
  <1>13. Knows(work[h])'
    BY <1>2, <1>3, <1>5, <1>6, <1>7, <1>8 DEF Knows, AllRefused
  <1>14. HoldersOK'
    <2> SUFFICES ASSUME NEW g \in Handlers, Holding(work[g])'
                 PROVE  (/\ request.state = "sending" /\ request.data = work[g].row.data
                         /\ \A f \in Handlers : Holding(work[f]) => f = g
                         /\ Knows(work[g]))'
      BY DEF HoldersOK
    <2>1. g = h
      BY <1>1, <1>8 DEF Holding
    <2>2. \A f \in Handlers : Holding(work'[f]) => f = h
      BY <1>1, <1>8 DEF Holding
    <2> QED
      BY <1>1, <1>2, <1>8, <1>13, <2>1, <2>2 DEF Holding, CallOperator
  <1>15. NoResendInDoubt'
    BY <1>3, <1>5 DEF NoResendInDoubt, AllRefused
  <1>16. StateTellsFate'
    BY <1>1 DEF StateTellsFate, CallOperator
  <1> QED
    BY <1>9, <1>10, <1>11, <1>12, <1>14, <1>15, <1>16 DEF IInv

\* A verdict falls on a message nobody has counted as refused or delivered.
LEMMA DecidesInv ==
    ASSUME IInv, NEW c \in calls, OperatorDecides(c)
    PROVE  IInv'
  <1>1. PICK verdict \in Verdicts \ {"pending"} :
            calls' = (calls \ {c}) \cup {[c EXCEPT !.verdict = verdict]}
    BY DEF OperatorDecides
  <1> DEFINE d == [c EXCEPT !.verdict = verdict]
  <1>2. CallsOK /\ calls \in SUBSET Call /\ c.verdict = "pending"
    BY DEF IInv, TypeOK, OperatorDecides
  <1>3. d \in Call /\ d.nr = c.nr /\ d.data = c.data /\ d.verdict = verdict
    BY <1>2 DEF Call
  <1>4. IsFiniteSet(calls') /\ Cardinality(calls') = Cardinality(calls)
    BY <1>1, <1>2, Decided
  <1> HIDE DEF d
  <1>5. /\ \A e \in calls' : e = d \/ (e \in calls /\ e # c)
        /\ \A e \in calls : e = c \/ e \in calls'
        /\ d \in calls'
    BY <1>1 DEF d
  <1>6. UNCHANGED <<request, voucher, lock, work, audit, faults>>
    BY DEF OperatorDecides
  <1>7. TypeOK' /\ RequestOK' /\ VoucherNotAhead' /\ LocalsOK' /\ LockOK'
    BY <1>2, <1>3, <1>5, <1>6 DEF IInv, TypeOK, RequestOK, VoucherNotAhead, LocalsOK,
       LocalOK, LockOK, Unchanged
  <1>8. CallsOK'
    BY <1>2, <1>3, <1>4, <1>5 DEF CallsOK
  <1>9. ~AllRefused
    BY <1>2 DEF AllRefused
  <1>10. HoldersOK'
    <2> SUFFICES ASSUME NEW g \in Handlers, Holding(work[g])
                 PROVE  /\ request.state = "sending" /\ request.data = work[g].row.data
                        /\ \A f \in Handlers : Holding(work[f]) => f = g
                        /\ Knows(work[g])'
      BY <1>6 DEF HoldersOK, Holding
    <2>1. /\ request.state = "sending" /\ request.data = work[g].row.data
          /\ \A f \in Handlers : Holding(work[f]) => f = g
          /\ Knows(work[g])
      BY DEF IInv, HoldersOK
    <2>2. work[g].pc # "call"
      BY <1>9, <2>1 DEF Knows
    <2>3. CASE work[g].pc = "wait"
      BY <1>2, <1>3, <1>5, <1>6, <2>1, <2>3 DEF Knows
    <2>4. CASE work[g].pc = "record"
      BY <1>2, <1>5, <1>6, <1>9, <2>1, <2>4 DEF Knows, Delivered
    <2> QED
      BY <2>1, <2>2, <2>3, <2>4 DEF Holding
  <1>11. NoResendInDoubt'
    BY <1>2, <1>5 DEF IInv, NoResendInDoubt
  <1>12. StateTellsFate'
    BY <1>2, <1>5, <1>6 DEF IInv, StateTellsFate, Delivered
  <1> QED
    BY <1>7, <1>8, <1>10, <1>11, <1>12 DEF IInv

-----------------------------------------------------------------------------
(* The voucher's own screen, and the end of the process.                   *)

LEMMA ScreenInv ==
    ASSUME IInv, EditVoucher \/ DeleteVoucher
    PROVE  IInv'
  <1>1. voucher \in Vouchers /\ voucher.revision < MaxRevision /\ voucher.state = "live"
        /\ UNCHANGED <<request, lock, work, calls, audit, faults>>
        /\ request \in Requests
    BY DEF IInv, TypeOK, EditVoucher, DeleteVoucher
  <1>2. voucher.revision + 1 \in 0 .. MaxRevision /\ 0 \in 0 .. MaxData
    BY <1>1, BoundsAssumption DEF Vouchers
  <1>3. voucher' \in Vouchers /\ VoucherNotAhead'
    <2>1. CASE EditVoucher
      <3>1. voucher' = [voucher EXCEPT !.revision = voucher.revision + 1, !.from = 0]
        BY <2>1 DEF EditVoucher
      <3>2. voucher' \in Vouchers /\ voucher'.from = 0
        BY <1>1, <1>2, <3>1 DEF Vouchers
      <3>3. request'.data \in Nat
        BY <1>1 DEF Requests
      <3> QED
        BY <3>2, <3>3 DEF VoucherNotAhead
    <2>2. CASE DeleteVoucher
      BY <1>1, <1>2, <2>2 DEF DeleteVoucher, Vouchers, VoucherNotAhead
    <2> QED
      BY <2>1, <2>2
  <1>4. TypeOK' /\ RequestOK' /\ CallsOK' /\ LocalsOK' /\ LockOK' /\ HoldersOK'
    BY <1>1, <1>3 DEF IInv, TypeOK, RequestOK, CallsOK, LocalsOK, LocalOK, LockOK,
       Unchanged, HoldersOK, Knows, AllRefused, Holding
  <1>5. NoResendInDoubt' /\ StateTellsFate'
    BY <1>1 DEF IInv, NoResendInDoubt, StateTellsFate
  <1> QED
    BY <1>3, <1>4, <1>5 DEF IInv

LEMMA CrashInv ==
    ASSUME IInv, Crash
    PROVE  IInv'
  <1>1. \A h \in Handlers : work'[h] = Idle
    BY DEF Crash
  <1>2. work' \in [Handlers -> Work] /\ faults' \in 0 .. MaxFaults
    BY IdleTyped, BoundsAssumption DEF Crash, Fault, IInv, TypeOK
  <1>3. TypeOK' /\ RequestOK' /\ CallsOK' /\ VoucherNotAhead'
    BY <1>2 DEF Crash, IInv, TypeOK, RequestOK, CallsOK, VoucherNotAhead
  <1>4. LocalsOK' /\ LockOK' /\ HoldersOK'
    BY <1>1, NobodyAssumption DEF Crash, LocalsOK, LocalOK, LockOK, HoldersOK, Holding, Idle
  <1>5. NoResendInDoubt' /\ StateTellsFate'
    BY DEF Crash, IInv, NoResendInDoubt, StateTellsFate
  <1> QED
    BY <1>3, <1>4, <1>5 DEF IInv

-----------------------------------------------------------------------------
(* The invariant.                                                          *)

LEMMA InitIInv == Init => IInv
  <1> SUFFICES ASSUME Init PROVE IInv
    OBVIOUS
  <1>1. TypeOK /\ RequestOK
    BY IdleTyped, BoundsAssumption DEF Init, TypeOK, RequestOK, Requests, Vouchers, NoVoucher
  <1>2. CallsOK
    BY FS_EmptySet DEF Init, CallsOK
  <1>3. LocalsOK /\ LockOK /\ HoldersOK
    BY NobodyAssumption DEF Init, LocalsOK, LocalOK, LockOK, HoldersOK, Holding, Idle
  <1>4. NoResendInDoubt /\ StateTellsFate /\ VoucherNotAhead
    BY DEF Init, NoResendInDoubt, StateTellsFate, VoucherNotAhead, NoVoucher
  <1> QED
    BY <1>1, <1>2, <1>3, <1>4 DEF IInv

LEMMA StepIInv == IInv /\ [Next]_vars => IInv'
  <1> SUFFICES ASSUME IInv, [Next]_vars PROVE IInv'
    OBVIOUS
  <1>1. ASSUME NEW h \in Handlers, SaveInsert(h) \/ ReadRow(h) PROVE IInv'
    BY <1>1, SaveInsertInv, ReadInv
  <1>2. ASSUME NEW h \in Handlers, HandlerStep(h) PROVE IInv'
    BY <1>2, FindInv, VoucherReadInv, VoucherInsertInv, DeleteAuditInv, DeleteRowInv,
       ToursVoucherInv, ToursRowInv, ToursCommitInv, MarkInv, ClaimInv, CallInv,
       ReceiveInv, RecordInv DEF HandlerStep
  <1>3. ASSUME NEW h \in Handlers, ClaimUnacknowledged(h) \/ StatementFails(h) PROVE IInv'
    BY <1>3, ClaimUnacknowledgedInv, StatementFailsInv
  <1>4. ASSUME NEW c \in calls, OperatorDecides(c) PROVE IInv'
    BY <1>4, DecidesInv
  <1>5. CASE EditVoucher \/ DeleteVoucher
    BY <1>5, ScreenInv
  <1>6. CASE Crash
    BY <1>6, CrashInv
  <1>7. CASE UNCHANGED vars
    BY <1>7 DEF vars, IInv, TypeOK, RequestOK, CallsOK, LocalsOK, LocalOK, LockOK, Unchanged,
       HoldersOK, Knows, AllRefused, Holding, NoResendInDoubt, StateTellsFate, VoucherNotAhead
  <1> QED
    BY <1>1, <1>2, <1>3, <1>4, <1>5, <1>6, <1>7 DEF Next

\* The invariant of the claim holds in every reachable state.
THEOREM Invariance == Spec => []IInv
  BY InitIInv, StepIInv, PTL DEF Spec

\* Every variable keeps its type.
THEOREM TypeCorrect == Spec => []TypeOK
  <1>1. IInv => TypeOK
    BY DEF IInv
  <1> QED
    BY <1>1, Invariance, PTL

\* The operator never gets a second message while an earlier one may have been
\* taken, whatever the auxiliaries, the time-outs and the deaths of the process.
THEOREM NeverResentInDoubt == Spec => []NoResendInDoubt
  <1>1. IInv => NoResendInDoubt
    BY DEF IInv
  <1> QED
    BY <1>1, Invariance, PTL

\* A request that may be sent, or written by hand, is not with the operator,
\* and one that says "sent" is there with the tours it has now.
THEOREM StatesTellFate == Spec => []StateTellsFate
  <1>1. IInv => StateTellsFate
    BY DEF IInv
  <1> QED
    BY <1>1, Invariance, PTL

\* The tours of a voucher are never ahead of those of its request.
THEOREM VouchersBehind == Spec => []VoucherNotAhead
  <1>1. IInv => VoucherNotAhead
    BY DEF IInv
  <1> QED
    BY <1>1, Invariance, PTL

-----------------------------------------------------------------------------
(* What a step may do to the row.                                          *)

\* A deleted row is never written again, and a row that is being sent only by
\* the handler that sends it, which leaves its data alone.
RowMoves ==
    \/ request' = request
    \/ request.state \notin {"sending", "deleted"}
    \/ /\ request.state = "sending"
       /\ request'.data = request.data
       /\ request'.state \in {"pending", "sent", "unknown"}

LEMMA StepMoves == IInv /\ [Next]_vars => RowMoves
  <1> SUFFICES ASSUME IInv, [Next]_vars PROVE RowMoves
    OBVIOUS
  <1>1. ASSUME NEW h \in Handlers, DeleteRow(h) PROVE RowMoves
    <2>1. work[h].row.state \in States \ {"deleted", "sending"}
      BY <1>1, Accepted DEF DeleteRow, IInv, LocalsOK, LocalOK
    <2> QED
      BY <1>1, <2>1 DEF DeleteRow, RowMoves
  <1>2. ASSUME NEW h \in Handlers, ToursCommit(h) PROVE RowMoves
    <2>1. work[h].row.state \in States \ {"deleted", "sending"}
      BY <1>2, Accepted DEF ToursCommit, IInv, LocalsOK, LocalOK
    <2>2. Unchanged(work[h].row)
      BY <1>2 DEF ToursCommit, IInv, LockOK
    <2> QED
      BY <2>1, <2>2 DEF Unchanged, RowMoves
  <1>3. ASSUME NEW h \in Handlers, Mark(h) PROVE RowMoves
    <2>1. work[h].row.state \in {"pending", "manual", "sent", "correction"}
      BY <1>3, Accepted DEF Mark, IInv, LocalsOK, LocalOK
    <2> QED
      BY <1>3, <2>1 DEF Mark, Unchanged, RowMoves
  <1>4. ASSUME NEW h \in Handlers, Record(h) PROVE RowMoves
    <2>1. /\ request.state = "sending" /\ Knows(work[h]) /\ work[h].pc = "record"
          /\ request \in Requests
      BY <1>4 DEF Record, IInv, TypeOK, HoldersOK, Holding
    <2> QED
      BY <1>4, <2>1 DEF Record, Knows, Requests, RowMoves
  <1>5. ASSUME NEW h \in Handlers, Claim(h) \/ ClaimUnacknowledged(h) PROVE RowMoves
    BY <1>5 DEF Claim, ClaimUnacknowledged, Claimable, RowMoves
  <1>6. ASSUME NEW h \in Handlers, SaveInsert(h) PROVE RowMoves
    BY <1>6 DEF SaveInsert, RowMoves
  <1>7. ASSUME NEW h \in Handlers, HandlerStep(h) PROVE RowMoves
    BY <1>1, <1>2, <1>3, <1>4, <1>5, <1>7 DEF HandlerStep, SaveFind, VoucherRead,
       VoucherInsert, VoucherCheck, DeleteAudit, ToursVoucher, ToursRow, CallOperator,
       Receive, TimeOut, RowMoves
  <1>8. ASSUME NEW h \in Handlers, ReadRow(h) \/ StatementFails(h) PROVE RowMoves
    BY <1>8 DEF ReadRow, StatementFails, RowMoves
  <1>9. ASSUME NEW c \in calls, OperatorDecides(c) PROVE RowMoves
    BY <1>9 DEF OperatorDecides, RowMoves
  <1>10. CASE EditVoucher \/ DeleteVoucher \/ Crash \/ UNCHANGED vars
    BY <1>10 DEF EditVoucher, DeleteVoucher, Crash, vars, RowMoves
  <1> QED
    BY <1>5, <1>6, <1>7, <1>8, <1>9, <1>10 DEF Next

\* While a message is with the operator, no edit, deletion or mark of another
\* session changes the request: send may record its result by id alone.
THEOREM FrozenUntilRecorded == Spec => FrozenWhileSending
  <1>1. IInv /\ [Next]_vars =>
            [request.state = "sending" =>
                /\ request'.data = request.data
                /\ request'.state \in {"sending", "sent", "unknown", "pending"}]_vars
    BY StepMoves DEF RowMoves
  <1> QED
    BY <1>1, Invariance, PTL DEF Spec, FrozenWhileSending

\* A deleted request stays deleted, whichever handler read it before.
THEOREM DeletedStays == Spec => DeletedForGood
  <1>1. IInv /\ [Next]_vars => [request.state = "deleted" => request' = request]_vars
    BY StepMoves DEF RowMoves
  <1> QED
    BY <1>1, Invariance, PTL DEF Spec, DeletedForGood

\* No handler writes a row that is with the operator, or was deleted, by what it
\* read before.
THEOREM RowsAreGuarded == Spec => RowIsGuarded
  BY FrozenUntilRecorded, DeletedStays DEF RowIsGuarded

-----------------------------------------------------------------------------
(* What the audit tells of the row.                                        *)

AuditInv == IInv /\ ChangesAudited /\ DeletersOK

LEMMA Ranked ==
    /\ \A x \in States \cup {"absent"} : Rank[x] \in 0 .. 5
    /\ \A x \in States \ {"deleted"} : Rank["deleted"] > Rank[x]
  BY DEF Rank, States

\* Entries are never taken back, and a refusal is final.
LEMMA HistoryGrows ==
    ASSUME IInv, [Next]_vars
    PROVE  /\ audit \subseteq audit'
           /\ \A c \in calls : c.verdict = "rejected" => c \in calls'
  <1>1. ASSUME NEW c \in calls, OperatorDecides(c)
        PROVE  \A d \in calls : d.verdict = "rejected" => d \in calls'
    BY <1>1 DEF OperatorDecides
  <1>2. ASSUME NEW h \in Handlers,
               \/ SaveInsert(h) \/ ReadRow(h) \/ HandlerStep(h)
               \/ ClaimUnacknowledged(h) \/ StatementFails(h)
        PROVE  calls \subseteq calls' /\ audit \subseteq audit'
    BY <1>2 DEF SaveInsert, ReadRow, HandlerStep, ClaimUnacknowledged, StatementFails,
       SaveFind, VoucherRead, VoucherInsert, VoucherCheck, DeleteAudit, DeleteRow,
       ToursVoucher, ToursRow, ToursCommit, Mark, Claim, CallOperator, Receive,
       TimeOut, Record
  <1> QED
    BY <1>1, <1>2 DEF Next, OperatorDecides, EditVoucher, DeleteVoucher, Crash, vars

\* Every change of the state goes forward, but for a refused send, which leaves
\* a refusal behind, and a correction, which leaves its entry.
LEMMA RowClimbs ==
    ASSUME AuditInv, [Next]_vars
    PROVE  \/ request' = request
           \/ ~Straight'
           \/ Rank[request'.state] > Rank[request.state]
  <1>1. /\ IInv /\ TypeOK /\ LocalsOK /\ DeletersOK
        /\ request \in Requests /\ work \in [Handlers -> Work]
    BY DEF AuditInv, IInv, TypeOK
  <1>2. ASSUME NEW h \in Handlers, DeleteRow(h)
        PROVE  request' = request \/ Rank[request'.state] > Rank[request.state]
    <2>1. work[h].row.state \in States \ {"deleted", "sending"}
      BY <1>1, <1>2, Accepted DEF DeleteRow, LocalsOK, LocalOK
    <2>2. CASE request.state = work[h].row.state
      BY <1>1, <1>2, <2>1, <2>2, Ranked DEF DeleteRow, Requests
    <2> QED
      BY <1>2, <2>2 DEF DeleteRow
  <1>3. ASSUME NEW h \in Handlers, ToursCommit(h) PROVE ~Straight'
    BY <1>3 DEF ToursCommit, Straight
  <1>4. ASSUME NEW h \in Handlers, Mark(h)
        PROVE  request' = request \/ Rank[request'.state] > Rank[request.state]
    <2>1. /\ work[h].op \in {"manual", "confirm"}
          /\ work[h].op = "manual" => work[h].row.state = "pending"
          /\ work[h].op = "confirm" => work[h].row.state \in {"manual", "sent", "correction"}
      BY <1>1, <1>4, Accepted DEF Mark, LocalsOK, LocalOK
    <2>2. CASE Unchanged(work[h].row)
      <3>1. request'.state = Marked(work[h].op) /\ request.state = work[h].row.state
        BY <1>1, <1>4, <2>2 DEF Mark, Unchanged, Requests
      <3> QED
        BY <2>1, <3>1 DEF Marked, Rank
    <2> QED
      BY <1>4, <2>2 DEF Mark
  <1>5. ASSUME NEW h \in Handlers, Record(h)
        PROVE  ~Straight' \/ Rank[request'.state] > Rank[request.state]
    <2>1. /\ request.state = "sending" /\ work[h].pc = "record"
          /\ work[h].target \in {"pending", "sent", "unknown"}
      BY <1>1, <1>5 DEF Record, IInv, HoldersOK, Holding, Knows
    <2>2. request'.state = work[h].target /\ UNCHANGED calls
      BY <1>1, <1>5 DEF Record, Requests
    <2>3. CASE work[h].target = "pending"
      BY <1>1, <2>1, <2>2, <2>3 DEF DeletersOK, Straight
    <2>4. CASE work[h].target \in {"sent", "unknown"}
      BY <2>1, <2>2, <2>4 DEF Rank
    <2> QED
      BY <2>1, <2>3, <2>4
  <1>6. ASSUME NEW h \in Handlers, Claim(h) \/ ClaimUnacknowledged(h)
        PROVE  request' = request \/ Rank[request'.state] > Rank[request.state]
    <2>1. CASE request' = [request EXCEPT !.state = "sending"] /\ Claimable(h)
      BY <1>1, <2>1 DEF Claimable, Rank, Requests
    <2> QED
      BY <1>6, <2>1 DEF Claim, ClaimUnacknowledged
  <1>7. ASSUME NEW h \in Handlers, SaveInsert(h)
        PROVE  request' = request \/ Rank[request'.state] > Rank[request.state]
    BY <1>7 DEF SaveInsert, Rank
  <1>8. ASSUME NEW h \in Handlers, HandlerStep(h)
        PROVE  \/ request' = request
               \/ ~Straight'
               \/ Rank[request'.state] > Rank[request.state]
    BY <1>2, <1>3, <1>4, <1>5, <1>6, <1>8 DEF HandlerStep, SaveFind, VoucherRead,
       VoucherInsert, VoucherCheck, DeleteAudit, ToursVoucher, ToursRow, CallOperator,
       Receive, TimeOut
  <1>9. ASSUME NEW h \in Handlers, ReadRow(h) \/ StatementFails(h) PROVE request' = request
    BY <1>9 DEF ReadRow, StatementFails
  <1>10. ASSUME NEW c \in calls, OperatorDecides(c) PROVE request' = request
    BY <1>10 DEF OperatorDecides
  <1>11. CASE EditVoucher \/ DeleteVoucher \/ Crash \/ UNCHANGED vars
    BY <1>11 DEF EditVoucher, DeleteVoucher, Crash, vars
  <1> QED
    BY <1>6, <1>7, <1>8, <1>9, <1>10, <1>11 DEF Next

\* How a handler comes to the three steps DeletersOK is about.
Arrives(h) ==
    /\ \A g \in Handlers : g # h => work'[g] = work[g]
    /\ work'[h].pc = "record" /\ work'[h].target = "pending" =>
          \E c \in calls' : c.verdict = "rejected"
    /\ work'[h].pc = "deleteAudit" => request' = work'[h].row
    /\ work'[h].pc = "deleteRow" =>
          /\ UNCHANGED <<request, calls, audit>>
          /\ work[h].pc = "deleteAudit" /\ work'[h].row = work[h].row
          /\ work'[h].noted = (request.state = work[h].row.state)

LEMMA Arrivals ==
    ASSUME IInv, NEW h \in Handlers,
           \/ SaveInsert(h) \/ ReadRow(h) \/ HandlerStep(h)
           \/ ClaimUnacknowledged(h) \/ StatementFails(h)
    PROVE  Arrives(h)
  <1>1. work \in [Handlers -> Work] /\ work[h] \in Work
    BY DEF IInv, TypeOK
  <1>2. ASSUME NEW w, Continue(h, w), w.pc \notin {"record", "deleteAudit", "deleteRow"}
        PROVE  Arrives(h)
    BY <1>1, <1>2 DEF Continue, Arrives
  <1>3. ASSUME NEW l \in PCs \ {"record", "deleteAudit", "deleteRow"}, GoTo(h, l)
        PROVE  Arrives(h)
    <2>1. [work[h] EXCEPT !.pc = l].pc = l
      BY <1>1 DEF Work
    <2> QED
      BY <1>2, <1>3, <2>1 DEF GoTo
  <1>4. ASSUME Leave(h) PROVE Arrives(h)
    BY <1>2, <1>4 DEF Leave, Idle
  <1>5. CASE SaveInsert(h)
    BY <1>2, <1>5 DEF SaveInsert, Idle
  <1>6. CASE ReadRow(h)
    <2>1. PICK op \in Ops \ {"save"} :
             Continue(h, [Idle EXCEPT !.op = op, !.pc = FirstStep[op], !.row = request])
      BY <1>6 DEF ReadRow
    <2> DEFINE w == [Idle EXCEPT !.op = op, !.pc = FirstStep[op], !.row = request]
    <2>2. /\ w.row = request
          /\ w.pc \in {"deleteAudit", "toursVoucher", "voucherRead"}
      BY DEF Idle, FirstStep, Ops
    <2>3. Continue(h, w) /\ UNCHANGED request
      BY <1>6, <2>1 DEF ReadRow
    <2> HIDE DEF w
    <2> QED
      BY <1>1, <2>2, <2>3 DEF Arrives, Continue
  <1>7. CASE SaveFind(h)
    <2>1. [work[h] EXCEPT !.pc = "voucherRead", !.row = request].pc = "voucherRead"
      BY <1>1 DEF Work
    <2> QED
      BY <1>2, <1>4, <1>7, <2>1 DEF SaveFind
  <1>8. CASE VoucherRead(h) \/ VoucherInsert(h) \/ VoucherCheck(h)
    BY <1>3, <1>4, <1>8 DEF VoucherRead, VoucherInsert, VoucherCheck, AfterVoucher, PCs
  <1>9. CASE DeleteAudit(h)
    <2> DEFINE w == [work[h] EXCEPT !.pc = "deleteRow",
                                    !.noted = request.state = work[h].row.state]
    <2>1. /\ w.pc = "deleteRow" /\ w.row = work[h].row
          /\ w.noted = (request.state = work[h].row.state)
      BY <1>1 DEF Work
    <2>2. Continue(h, w) /\ UNCHANGED <<request, calls, audit>> /\ work[h].pc = "deleteAudit"
      BY <1>9 DEF DeleteAudit
    <2> HIDE DEF w
    <2> QED
      BY <1>1, <2>1, <2>2 DEF Arrives, Continue
  <1>10. CASE ToursVoucher(h)
    <2>1. [work[h] EXCEPT !.pc = "toursRow", !.revision = voucher.revision].pc = "toursRow"
      BY <1>1 DEF Work
    <2> QED
      BY <1>2, <1>4, <1>10, <2>1 DEF ToursVoucher
  <1>11. CASE ToursRow(h)
    BY <1>3, <1>4, <1>11 DEF ToursRow, PCs
  <1>12. CASE Claim(h)
    <2>1. [work[h] EXCEPT !.pc = "call", !.nr = Cardinality(calls) + 1].pc = "call"
      BY <1>1 DEF Work
    <2> QED
      BY <1>2, <1>4, <1>12, <2>1 DEF Claim
  <1>13. CASE CallOperator(h)
    BY <1>3, <1>13 DEF CallOperator, PCs
  <1>14. ASSUME NEW t \in States, UNCHANGED calls,
                t = "pending" => \E c \in calls : c.verdict = "rejected",
                Continue(h, [work[h] EXCEPT !.pc = "record", !.target = t])
         PROVE  Arrives(h)
    <2> DEFINE w == [work[h] EXCEPT !.pc = "record", !.target = t]
    <2>1. w.pc = "record" /\ w.target = t
      BY <1>1 DEF Work
    <2> HIDE DEF w
    <2> QED
      BY <1>1, <1>14, <2>1 DEF Arrives, Continue, w
  <1>15. CASE Receive(h)
    <2>1. PICK c \in calls :
             Continue(h, [work[h] EXCEPT !.pc = "record", !.target = Outcome(c.verdict)])
      BY <1>15 DEF Receive
    <2>2. /\ Outcome(c.verdict) \in States
          /\ Outcome(c.verdict) = "pending" => c.verdict = "rejected"
      BY DEF Outcome, States
    <2> QED
      BY <1>14, <1>15, <2>1, <2>2 DEF Receive
  <1>16. CASE TimeOut(h)
    BY <1>14, <1>16 DEF TimeOut, States
  <1>17. CASE DeleteRow(h) \/ ToursCommit(h) \/ Mark(h) \/ Record(h)
              \/ ClaimUnacknowledged(h) \/ StatementFails(h)
    BY <1>4, <1>17 DEF DeleteRow, ToursCommit, Mark, Record, ClaimUnacknowledged,
       StatementFails
  <1> QED
    BY <1>5, <1>6, <1>7, <1>8, <1>9, <1>10, <1>11, <1>12, <1>13, <1>15, <1>16, <1>17
       DEF HandlerStep

LEMMA DeletersKept ==
    ASSUME AuditInv, [Next]_vars
    PROVE  DeletersOK'
  <1>1. /\ IInv /\ DeletersOK /\ IInv'
        /\ Straight' => Straight
        /\ \A c \in calls : c.verdict = "rejected" => c \in calls'
    BY StepIInv, HistoryGrows DEF AuditInv, Straight
  <1>2. /\ request.state \in States \cup {"absent"}
        /\ request'.state \in States \cup {"absent"}
        /\ \A g \in Handlers : work[g].row.state \in States \cup {"absent"}
    BY <1>1 DEF IInv, TypeOK, Requests, Work
  <1>3. Straight' =>
           \/ request' = request
           \/ Rank[request'.state] > Rank[request.state]
    BY RowClimbs
  <1>4. /\ Rank[request.state] \in Int /\ Rank[request'.state] \in Int
        /\ \A g \in Handlers : Rank[work[g].row.state] \in Int
    BY <1>2, Ranked
  <1>5. ASSUME NEW g \in Handlers, work'[g] = work[g]
        PROVE  /\ work'[g].pc = "record" /\ work'[g].target = "pending" =>
                     \E c \in calls' : c.verdict = "rejected"
               /\ Straight' /\ work'[g].pc = "deleteAudit" =>
                     \/ request'.state = work'[g].row.state
                     \/ Rank[request'.state] > Rank[work'[g].row.state]
               /\ Straight' /\ work'[g].pc = "deleteRow" /\ ~work'[g].noted =>
                     Rank[request'.state] > Rank[work'[g].row.state]
    BY <1>1, <1>3, <1>4, <1>5 DEF DeletersOK
  <1>6. ASSUME NEW h \in Handlers, Arrives(h) PROVE DeletersOK'
    <2> SUFFICES ASSUME NEW g \in Handlers
                 PROVE  /\ work'[g].pc = "record" /\ work'[g].target = "pending" =>
                              \E c \in calls' : c.verdict = "rejected"
                        /\ Straight' /\ work'[g].pc = "deleteAudit" =>
                              \/ request'.state = work'[g].row.state
                              \/ Rank[request'.state] > Rank[work'[g].row.state]
                        /\ Straight' /\ work'[g].pc = "deleteRow" /\ ~work'[g].noted =>
                              Rank[request'.state] > Rank[work'[g].row.state]
      BY DEF DeletersOK
    <2>1. CASE g # h
      BY <1>5, <1>6, <2>1 DEF Arrives
    <2>2. CASE g = h
      BY <1>1, <1>6, <2>2 DEF Arrives, DeletersOK
    <2> QED
      BY <2>1, <2>2
  <1>7. CASE \E h \in Handlers :
                \/ SaveInsert(h) \/ ReadRow(h) \/ HandlerStep(h)
                \/ ClaimUnacknowledged(h) \/ StatementFails(h)
    BY <1>1, <1>6, <1>7, Arrivals
  <1>8. CASE UNCHANGED work
    BY <1>5, <1>8 DEF DeletersOK
  <1>9. CASE Crash
    BY <1>9 DEF Crash, DeletersOK, Idle
  <1> QED
    BY <1>7, <1>8, <1>9 DEF Next, OperatorDecides, EditVoucher, DeleteVoucher, vars

LEMMA AuditKept ==
    ASSUME AuditInv, [Next]_vars
    PROVE  ChangesAudited'
  <1>1. /\ IInv /\ TypeOK /\ LocalsOK /\ DeletersOK /\ ChangesAudited
        /\ request \in Requests /\ work \in [Handlers -> Work]
    BY DEF AuditInv, IInv, TypeOK
  <1>2. /\ audit \subseteq audit'
        /\ \A c \in calls : c.verdict = "rejected" => c \in calls'
    BY <1>1, HistoryGrows
  <1>3. ASSUME request' = request PROVE ChangesAudited'
    BY <1>1, <1>2, <1>3 DEF ChangesAudited
  <1>4. ASSUME NEW h \in Handlers, DeleteRow(h) PROVE ChangesAudited'
    <2>1. CASE request.state = work[h].row.state
      <3>1. request'.state = "deleted" /\ request'.data = request.data
        BY <1>1, <1>4, <2>1 DEF DeleteRow, Requests
      <3>2. Straight => work[h].noted
        <4>1. Rank[request.state] \in Int
          BY <1>1, Ranked DEF Requests
        <4> QED
          BY <1>1, <1>4, <2>1, <4>1 DEF DeletersOK, DeleteRow
      <3>3. "delete" \in audit' \/ ~Straight
        BY <1>4, <3>2 DEF DeleteRow
      <3> QED
        BY <1>1, <1>2, <3>1, <3>3 DEF ChangesAudited, Straight
    <2> QED
      BY <1>3, <1>4, <2>1 DEF DeleteRow
  <1>5. ASSUME NEW h \in Handlers, ToursCommit(h) PROVE ChangesAudited'
    BY <1>5 DEF ToursCommit, ChangesAudited
  <1>6. ASSUME NEW h \in Handlers, Mark(h) PROVE ChangesAudited'
    <2>1. CASE Unchanged(work[h].row)
      <3>1. /\ request'.state = Marked(work[h].op) /\ request'.data = request.data
            /\ work[h].op \in audit' /\ work[h].op \in {"manual", "confirm"}
        BY <1>1, <1>6, <2>1 DEF Mark, LocalsOK, LocalOK, Requests
      <3> QED
        BY <1>1, <1>2, <3>1 DEF ChangesAudited, Marked
    <2> QED
      BY <1>3, <1>6, <2>1 DEF Mark
  <1>7. ASSUME NEW h \in Handlers, Record(h) PROVE ChangesAudited'
    <2>1. work[h].target \in {"pending", "sent", "unknown"}
      BY <1>1, <1>7 DEF Record, IInv, HoldersOK, Holding, Knows
    <2>2. /\ request'.state = work[h].target /\ request'.data = request.data
          /\ work[h].target = "sent" => "send" \in audit'
      BY <1>1, <1>7 DEF Record, Requests
    <2> QED
      BY <1>1, <1>2, <2>1, <2>2 DEF ChangesAudited
  <1>8. ASSUME NEW h \in Handlers, Claim(h) \/ ClaimUnacknowledged(h) PROVE ChangesAudited'
    <2>1. CASE request' = [request EXCEPT !.state = "sending"]
      BY <1>1, <1>2, <2>1 DEF ChangesAudited, Requests
    <2> QED
      BY <1>3, <1>8, <2>1 DEF Claim, ClaimUnacknowledged
  <1>9. ASSUME NEW h \in Handlers, SaveInsert(h) PROVE ChangesAudited'
    <2>1. CASE request' = [state |-> "pending", data |-> 1]
      BY <2>1 DEF ChangesAudited
    <2> QED
      BY <1>3, <1>9, <2>1 DEF SaveInsert
  <1>10. ASSUME NEW h \in Handlers, HandlerStep(h) PROVE ChangesAudited'
    BY <1>3, <1>4, <1>5, <1>6, <1>7, <1>8, <1>10 DEF HandlerStep, SaveFind, VoucherRead,
       VoucherInsert, VoucherCheck, DeleteAudit, ToursVoucher, ToursRow, CallOperator,
       Receive, TimeOut
  <1>11. ASSUME NEW h \in Handlers, ReadRow(h) \/ StatementFails(h) PROVE ChangesAudited'
    BY <1>3, <1>11 DEF ReadRow, StatementFails
  <1>12. ASSUME NEW c \in calls, OperatorDecides(c) PROVE ChangesAudited'
    BY <1>3, <1>12 DEF OperatorDecides
  <1>13. CASE EditVoucher \/ DeleteVoucher \/ Crash \/ UNCHANGED vars
    BY <1>3, <1>13 DEF EditVoucher, DeleteVoucher, Crash, vars
  <1> QED
    BY <1>8, <1>9, <1>10, <1>11, <1>12, <1>13 DEF Next

LEMMA InitAudit == Init => AuditInv
  <1> SUFFICES ASSUME Init PROVE AuditInv
    OBVIOUS
  <1>1. IInv
    BY InitIInv
  <1> QED
    BY <1>1 DEF Init, AuditInv, ChangesAudited, DeletersOK, Idle

LEMMA StepAudit == AuditInv /\ [Next]_vars => AuditInv'
  BY StepIInv, DeletersKept, AuditKept DEF AuditInv

\* Every state the team can see in the row has its entry in the audit. A deletion
\* may lack it only after a refused send or a correction, because only these take
\* a row back to the state in which the deletion read it.
THEOREM ChangesAreAudited == Spec => []ChangesAudited
  <1>1. AuditInv => ChangesAudited
    BY DEF AuditInv
  <1> QED
    BY <1>1, InitAudit, StepAudit, PTL DEF Spec

-----------------------------------------------------------------------------
(* What the row says of its message.                                       *)

OnceInv == AuditInv /\ OnceOK /\ SendingIsHeld

\* What the team does to a row that is with nobody.
TeamMoves ==
    /\ request.state \in States \ {"sending", "deleted"}
    /\ request'.state \in {"manual", "confirmed", "correction", "deleted"}
    /\ request'.state = "manual" => request.state = "pending"

\* What a handler does to the row and the audit of its message.
Settles(h) ==
    /\ work[h].pc = "record" /\ request.state = "sending" /\ Knows(work[h])
    /\ request'.state = work[h].target /\ work[h].target \in {"pending", "sent", "unknown"}
    /\ "send" \in audit' <=> "send" \in audit \/ work[h].target = "sent"

RowStep ==
    /\ UNCHANGED calls
    /\ \/ /\ "send" \in audit' <=> "send" \in audit
          /\ \/ request'.state = request.state
             \/ request.state = "absent" /\ request'.state = "pending"
             \/ request.state = "pending" /\ request'.state = "sending"
             \/ TeamMoves
       \/ \E h \in Handlers : Settles(h)

\* Every step of a handler that is not its call is one of these.
LEMMA RowSteps ==
    ASSUME IInv, [Next]_vars,
           \A h \in Handlers : ~CallOperator(h), \A c \in calls : ~OperatorDecides(c)
    PROVE  RowStep
  <1>1. /\ TypeOK /\ LocalsOK /\ LockOK
        /\ request \in Requests /\ work \in [Handlers -> Work]
    BY DEF IInv, TypeOK
  <1>2. ASSUME UNCHANGED <<request, calls, audit>> PROVE RowStep
    BY <1>2 DEF RowStep
  <1>3. ASSUME NEW h \in Handlers, DeleteRow(h) PROVE RowStep
    <2>1. work[h].row.state \in States \ {"deleted", "sending"}
      BY <1>1, <1>3, Accepted DEF DeleteRow, LocalsOK, LocalOK
    <2>2. UNCHANGED calls /\ ("send" \in audit' <=> "send" \in audit)
      BY <1>3 DEF DeleteRow
    <2>3. CASE request.state = work[h].row.state
      <3>1. request'.state = "deleted"
        BY <1>1, <1>3, <2>3 DEF DeleteRow, Requests
      <3> QED
        BY <2>1, <2>2, <2>3, <3>1 DEF RowStep, TeamMoves
    <2>4. CASE request.state # work[h].row.state
      BY <1>3, <2>2, <2>4 DEF DeleteRow, RowStep
    <2> QED
      BY <2>3, <2>4
  <1>4. ASSUME NEW h \in Handlers, ToursCommit(h) PROVE RowStep
    <2>1. work[h].row.state \in States \ {"deleted", "sending"} /\ Unchanged(work[h].row)
      BY <1>1, <1>4, Accepted DEF ToursCommit, LocalsOK, LocalOK, LockOK
    <2>2. /\ UNCHANGED calls /\ ("send" \in audit' <=> "send" \in audit)
          /\ request'.state = IF work[h].row.state = "pending" THEN "pending" ELSE "correction"
      BY <1>4 DEF ToursCommit
    <2> QED
      BY <2>1, <2>2 DEF RowStep, TeamMoves, Unchanged
  <1>5. ASSUME NEW h \in Handlers, Mark(h) PROVE RowStep
    <2>1. /\ work[h].op \in {"manual", "confirm"}
          /\ work[h].op = "manual" => work[h].row.state = "pending"
          /\ work[h].op = "confirm" => work[h].row.state \in {"manual", "sent", "correction"}
      BY <1>1, <1>5, Accepted DEF Mark, LocalsOK, LocalOK
    <2>2. CASE Unchanged(work[h].row)
      <3>1. /\ request'.state = Marked(work[h].op) /\ request.state = work[h].row.state
            /\ UNCHANGED calls /\ audit' = audit \cup {work[h].op}
        BY <1>1, <1>5, <2>2 DEF Mark, Unchanged, Requests
      <3>2. "send" \in audit' <=> "send" \in audit
        BY <2>1, <3>1
      <3> QED
        BY <2>1, <3>1, <3>2 DEF Marked, RowStep, TeamMoves, States
    <2> QED
      BY <1>2, <1>5, <2>2 DEF Mark
  <1>6. ASSUME NEW h \in Handlers, Record(h) PROVE RowStep
    <2>1. work[h].pc = "record" /\ request.state = "sending" /\ Knows(work[h])
      BY <1>6 DEF Record, IInv, HoldersOK, Holding
    <2>2. request'.state = work[h].target /\ UNCHANGED calls
      BY <1>1, <1>6 DEF Record, Requests
    <2>3. Settles(h)
      BY <1>6, <2>1, <2>2 DEF Record, Knows, Settles
    <2> QED
      BY <2>2, <2>3 DEF RowStep
  <1>7. ASSUME NEW h \in Handlers, Claim(h) \/ ClaimUnacknowledged(h) PROVE RowStep
    <2>1. CASE Claimable(h) /\ request' = [request EXCEPT !.state = "sending"]
      BY <1>1, <1>7, <2>1 DEF Claim, ClaimUnacknowledged, Claimable, Requests, RowStep
    <2> QED
      BY <1>2, <1>7, <2>1 DEF Claim, ClaimUnacknowledged
  <1>8. ASSUME NEW h \in Handlers, SaveInsert(h) PROVE RowStep
    BY <1>8 DEF SaveInsert, RowStep
  <1>9. ASSUME NEW h \in Handlers, HandlerStep(h) PROVE RowStep
    BY <1>2, <1>3, <1>4, <1>5, <1>6, <1>7, <1>9 DEF HandlerStep, SaveFind, VoucherRead,
       VoucherInsert, VoucherCheck, DeleteAudit, ToursVoucher, ToursRow, Receive, TimeOut
  <1>10. ASSUME NEW h \in Handlers, ReadRow(h) \/ StatementFails(h) PROVE RowStep
    BY <1>2, <1>10 DEF ReadRow, StatementFails
  <1>11. CASE EditVoucher \/ DeleteVoucher \/ Crash \/ UNCHANGED vars
    BY <1>2, <1>11 DEF EditVoucher, DeleteVoucher, Crash, vars
  <1> QED
    BY <1>7, <1>8, <1>9, <1>10, <1>11 DEF Next

\* How a handler comes to have made its call.
LEMMA CallersCome ==
    ASSUME IInv, [Next]_vars, NEW h \in Handlers, work'[h].pc \in {"wait", "record"}
    PROVE  work[h].pc \in {"wait", "record"} \/ CallOperator(h)
  <1>1. work \in [Handlers -> Work]
    BY DEF IInv, TypeOK
  <1>2. ASSUME NEW g \in Handlers,
               \/ SaveInsert(g) \/ ReadRow(g) \/ HandlerStep(g)
               \/ ClaimUnacknowledged(g) \/ StatementFails(g)
        PROVE  work[h].pc \in {"wait", "record"} \/ CallOperator(h)
    <2>1. CASE g = h
      <3>1. \A op \in Ops \ {"save"} :
               FirstStep[op] \in {"deleteAudit", "toursVoucher", "voucherRead"}
        BY DEF FirstStep, Ops
      <3>2. CASE SaveInsert(h) \/ ReadRow(h)
        <4>1. CASE SaveInsert(h)
          BY <1>1, <4>1 DEF SaveInsert, Continue, Idle
        <4>2. CASE ReadRow(h)
          <5>1. PICK op \in Ops \ {"save"} :
                    Continue(h, [Idle EXCEPT !.op = op, !.pc = FirstStep[op], !.row = request])
            BY <4>2 DEF ReadRow
          <5>2. work'[h].pc = FirstStep[op]
            BY <1>1, <5>1 DEF Continue, Idle
          <5> QED
            BY <3>1, <5>2
        <4> QED
          BY <3>2, <4>1, <4>2
      <3>3. CASE HandlerStep(h)
        <4>1. CASE VoucherRead(h) \/ VoucherCheck(h)
          <5>1. work'[h].pc \in {"mark", "claim", "voucherInsert", "idle"}
            BY <1>1, <4>1 DEF VoucherRead, VoucherCheck, AfterVoucher, GoTo, Leave, Continue,
               Idle, Work
          <5> QED
            BY <5>1
        <4>2. CASE \E label \in {"voucherRead", "voucherCheck", "deleteRow", "toursRow",
                                  "toursCommit", "call"} :
                      work'[h].pc = label
          BY <4>2
        <4>3. CASE Leave(h)
          BY <1>1, <4>3 DEF Leave, Continue, Idle
        <4>4. CASE Receive(h) \/ TimeOut(h)
          BY <4>4 DEF Receive, TimeOut
        <4> QED
          <5>1. SaveFind(h) \/ VoucherInsert(h) => work'[h].pc = "voucherRead"
                   \/ work'[h].pc = "voucherCheck" \/ Leave(h)
            BY <1>1 DEF SaveFind, VoucherInsert, GoTo, Continue, Work
          <5>2. DeleteAudit(h) \/ ToursVoucher(h) => work'[h].pc = "deleteRow"
                   \/ work'[h].pc = "toursRow" \/ Leave(h)
            BY <1>1 DEF DeleteAudit, ToursVoucher, Continue, Work
          <5>3. ToursRow(h) \/ Claim(h) => work'[h].pc = "toursCommit"
                   \/ work'[h].pc = "call" \/ Leave(h)
            BY <1>1 DEF ToursRow, Claim, GoTo, Continue, Work
          <5>4. DeleteRow(h) \/ ToursCommit(h) \/ Mark(h) \/ Record(h) => Leave(h)
            BY DEF DeleteRow, ToursCommit, Mark, Record
          <5> QED
            BY <3>3, <4>1, <4>2, <4>3, <4>4, <5>1, <5>2, <5>3, <5>4 DEF HandlerStep
      <3>4. CASE ClaimUnacknowledged(h) \/ StatementFails(h)
        BY <1>1, <3>4 DEF ClaimUnacknowledged, StatementFails, Leave, Continue, Idle
      <3> QED
        BY <1>2, <2>1, <3>2, <3>3, <3>4
    <2>2. CASE g # h
      <3>1. work'[h] = work[h]
        BY <1>1, <1>2, <2>2 DEF SaveInsert, ReadRow, HandlerStep, ClaimUnacknowledged,
           StatementFails, SaveFind, VoucherRead, AfterVoucher, VoucherInsert, VoucherCheck,
           DeleteAudit, DeleteRow, ToursVoucher, ToursRow, ToursCommit, Mark, Claim,
           CallOperator, Receive, TimeOut, Record, Continue, GoTo, Leave
      <3> QED
        BY <3>1
    <2> QED
      BY <2>1, <2>2
  <1>3. CASE Crash
    BY <1>3 DEF Crash, Idle
  <1> QED
    BY <1>2, <1>3 DEF Next, OperatorDecides, EditVoucher, DeleteVoucher, vars

\* A message that was handed over is never taken back from the set.
LEMMA CallsStay ==
    ASSUME IInv, [Next]_vars
    PROVE  /\ calls # {} => calls' # {}
           /\ (\E c \in calls : Delivered(c)) => \E c \in calls' : Delivered(c)
  <1>1. ASSUME NEW c \in calls, OperatorDecides(c)
        PROVE  /\ calls' # {}
               /\ (\E d \in calls : Delivered(d)) => \E d \in calls' : Delivered(d)
    BY <1>1 DEF OperatorDecides, Delivered
  <1>2. ASSUME \A c \in calls : ~OperatorDecides(c) PROVE calls \subseteq calls'
    <2>1. ASSUME NEW h \in Handlers, CallOperator(h) PROVE calls \subseteq calls'
      BY <2>1 DEF CallOperator
    <2> QED
      BY <1>2, <2>1, RowSteps DEF RowStep
  <1> QED
    BY <1>1, <1>2

LEMMA OnceKept ==
    ASSUME OnceInv, [Next]_vars
    PROVE  OnceOK'
  <1>1. /\ IInv /\ ChangesAudited /\ OnceOK /\ StateTellsFate /\ TypeOK
        /\ (calls # {} => calls' # {})
        /\ (\E c \in calls : Delivered(c)) => \E c \in calls' : Delivered(c)
    BY CallsStay DEF OnceInv, AuditInv, IInv
  <1>2. ASSUME NEW h \in Handlers, work'[h].pc \in {"wait", "record"} PROVE calls' # {}
    <2>1. CASE CallOperator(h)
      BY <2>1 DEF CallOperator
    <2> QED
      BY <1>1, <1>2, <2>1, CallersCome DEF OnceOK
  <1>3. CASE RowStep
    <2>1. ASSUME request'.state = "unknown" PROVE calls' # {}
      BY <1>1, <1>3, <2>1 DEF RowStep, TeamMoves, Settles, OnceOK
    <2>2. ASSUME "send" \in audit'
          PROVE  /\ request'.state \in {"sent", "confirmed", "correction", "deleted"}
                 /\ \E c \in calls' : Delivered(c)
      <3>1. CASE "send" \in audit
        BY <1>1, <1>3, <3>1 DEF RowStep, TeamMoves, Settles, OnceOK
      <3>2. CASE "send" \notin audit
        BY <1>1, <1>3, <2>2, <3>2 DEF RowStep, Settles, Knows
      <3> QED
        BY <3>1, <3>2
    <2> QED
      BY <1>2, <2>1, <2>2 DEF OnceOK
  <1>4. CASE UNCHANGED <<request, audit>>
    <2>1. request.state = "unknown" => calls # {}
      BY <1>1 DEF OnceOK
    <2>2. "send" \in audit =>
              /\ request.state \in {"sent", "confirmed", "correction", "deleted"}
              /\ \E c \in calls : Delivered(c)
      BY <1>1 DEF OnceOK
    <2> QED
      BY <1>1, <1>2, <1>4, <2>1, <2>2 DEF OnceOK
  <1> QED
    BY <1>1, <1>3, <1>4, RowSteps DEF CallOperator, OperatorDecides

\* Whoever holds the row goes on holding it until it records, unless a fault.
LEMMA HeldKept ==
    ASSUME OnceInv, [Next]_vars
    PROVE  SendingIsHeld'
  <1>1. /\ IInv /\ TypeOK /\ SendingIsHeld /\ HoldersOK
        /\ work \in [Handlers -> Work] /\ request \in Requests /\ faults \in Nat
    BY BoundsAssumption DEF OnceInv, AuditInv, IInv, TypeOK
  <1>2. ASSUME Fault PROVE faults' # 0
    BY <1>1, <1>2 DEF Fault
  <1>3. ASSUME NEW h \in Handlers, Claim(h), request'.state = "sending",
               request.state # "sending"
        PROVE  Holding(work'[h])
    BY <1>1, <1>3 DEF Claim, Continue, Holding, Work
  <1>4. ASSUME NEW h \in Handlers, Record(h) PROVE request'.state # "sending"
    BY <1>1, <1>4 DEF Record, HoldersOK, Holding, Knows, Requests
  <1>5. ASSUME NEW h \in Handlers, NEW g \in Handlers, Holding(work[g]),
               SaveInsert(h) \/ ReadRow(h) \/ (HandlerStep(h) /\ ~Record(h))
        PROVE  Holding(work'[g])
    <2>1. CASE g = h
      BY <1>1, <1>5, <2>1 DEF SaveInsert, ReadRow, HandlerStep, SaveFind, VoucherRead,
         VoucherInsert, VoucherCheck, DeleteAudit, DeleteRow, ToursVoucher, ToursRow,
         ToursCommit, Mark, Claim, CallOperator, Receive, TimeOut, Continue, GoTo, Holding, Work
    <2>2. CASE g # h
      <3>1. work'[g] = work[g]
        BY <1>1, <1>5, <2>2 DEF SaveInsert, ReadRow, HandlerStep, SaveFind, VoucherRead,
           AfterVoucher, VoucherInsert, VoucherCheck, DeleteAudit, DeleteRow, ToursVoucher,
           ToursRow, ToursCommit, Mark, Claim, CallOperator, Receive, TimeOut, Continue, GoTo,
           Leave
      <3> QED
        BY <1>5, <3>1
    <2> QED
      BY <2>1, <2>2
  <1>6. ASSUME NEW h \in Handlers, SaveInsert(h) \/ ReadRow(h) \/ HandlerStep(h), ~Claim(h),
               request'.state = "sending"
        PROVE  request.state = "sending"
    <2>1. CASE SaveInsert(h)
      BY <1>6, <2>1 DEF SaveInsert
    <2>2. CASE ReadRow(h)
      BY <1>6, <2>2 DEF ReadRow
    <2>3. CASE DeleteRow(h) \/ Mark(h)
      <3>1. request' = request \/ request'.state \in {"deleted", "manual", "confirmed"}
        BY <1>1, <2>3 DEF DeleteRow, Mark, Marked, Requests
      <3> QED
        BY <1>6, <3>1
    <2>4. CASE ToursCommit(h)
      BY <1>6, <2>4 DEF ToursCommit
    <2>5. CASE HandlerStep(h)
      BY <1>4, <1>6, <2>3, <2>4, <2>5 DEF HandlerStep, SaveFind, VoucherRead, VoucherInsert,
         VoucherCheck, DeleteAudit, ToursVoucher, ToursRow, CallOperator, Receive, TimeOut
    <2> QED
      BY <1>6, <2>1, <2>2, <2>5
  <1>7. ASSUME NEW h \in Handlers, SaveInsert(h) \/ ReadRow(h) \/ HandlerStep(h)
        PROVE  SendingIsHeld'
    <2> SUFFICES ASSUME request'.state = "sending", faults' = 0
                 PROVE  \E g \in Handlers : Holding(work'[g])
      BY DEF SendingIsHeld
    <2>1. UNCHANGED faults
      BY <1>7 DEF SaveInsert, ReadRow, HandlerStep, SaveFind, VoucherRead, VoucherInsert,
         VoucherCheck, DeleteAudit, DeleteRow, ToursVoucher, ToursRow, ToursCommit, Mark, Claim,
         CallOperator, Receive, TimeOut, Record
    <2>2. CASE request.state = "sending"
      <3>1. PICK g \in Handlers : Holding(work[g])
        BY <1>1, <2>1, <2>2 DEF SendingIsHeld
      <3>2. ~Record(h)
        BY <1>4
      <3> QED
        BY <1>5, <1>7, <3>1, <3>2
    <2> QED
      BY <1>3, <1>6, <1>7, <2>2
  <1>8. CASE UNCHANGED <<request, work, faults>>
    BY <1>1, <1>8 DEF SendingIsHeld
  <1>9. ASSUME faults' # 0 PROVE SendingIsHeld'
    BY <1>9 DEF SendingIsHeld
  <1> QED
    BY <1>2, <1>7, <1>8, <1>9 DEF Next, ClaimUnacknowledged, StatementFails, Crash,
       OperatorDecides, EditVoucher, DeleteVoucher, vars

LEMMA InitOnce == Init => OnceInv
  BY InitAudit DEF Init, OnceInv, OnceOK, SendingIsHeld, Idle

LEMMA StepOnce == OnceInv /\ [Next]_vars => OnceInv'
  BY StepAudit, OnceKept, HeldKept DEF OnceInv

\* The request and its voucher tell what the operator and the team know: the
\* operator is told once, and a row that is being sent has who records the result.
THEOREM RequestsTellFate == Spec => []RequestTellsFate
  <1>1. OnceInv => RequestTellsFate
    BY DEF OnceInv, AuditInv, IInv, RequestTellsFate
  <1> QED
    BY <1>1, InitOnce, StepOnce, PTL DEF Spec

-----------------------------------------------------------------------------
(* The request implements SendOnce.                                        *)

TheStates == [k \in Message |-> Told]
Given == \E c \in calls : Delivered(c)
TheDelivered == [k \in Message |-> Given]

\* The message does not move when neither what is told of it nor whether it was
\* delivered changes.
LEMMA MessageRests ==
    ASSUME Told' = Told, Given' <=> Given
    PROVE  UNCHANGED Once!vars
  <1>1. TheStates' = TheStates /\ TheDelivered' = TheDelivered
    BY DEF TheStates, TheDelivered
  <1> QED
    BY <1>1 DEF Once!vars, TheStates, TheDelivered, Given

\* What may be told of the message next.
LEMMA MessageMoves ==
    ASSUME UNCHANGED calls,
           \/ Told \in {"none", "failed"} /\ ~Given /\ Told' = "sending"
           \/ Told \in {"sending", "uncertain"} /\ Given /\ Told' = "sent"
           \/ Told \in {"sending", "uncertain"} /\ ~Given /\ Told' = "failed"
           \/ Told # "none" /\ Told' = "uncertain"
    PROVE  Once!Next
  <1> DEFINE m == "message"
  <1>1. m \in Message /\ TheStates[m] = Told /\ (TheDelivered[m] <=> Given)
    BY DEF Message, TheStates, TheDelivered
  <1>2. TheStates' = [TheStates EXCEPT ![m] = Told']
    BY DEF Message, TheStates
  <1>3. TheDelivered' = TheDelivered
    BY DEF TheDelivered, Given
  <1>4. /\ TheStates[m] \in {"none", "failed"} /\ ~TheDelivered[m] /\ Told' = "sending"
             => Once!Begin(m)
        /\ TheStates[m] \in {"sending", "uncertain"} /\ TheDelivered[m] /\ Told' = "sent"
             => Once!SettleSent(m)
        /\ TheStates[m] \in {"sending", "uncertain"} /\ ~TheDelivered[m] /\ Told' = "failed"
             => Once!SettleFailed(m)
        /\ TheStates[m] # "none" /\ Told' = "uncertain" => Once!SettleUncertain(m)
    BY <1>2, <1>3 DEF Once!Begin, Once!SettleSent, Once!SettleFailed, Once!SettleUncertain,
       TheStates, TheDelivered, Given
  <1> HIDE DEF m
  <1> QED
    BY <1>1, <1>4 DEF Once!Next

LEMMA MessageArrives ==
    ASSUME Told \in {"sending", "uncertain"}, Told' = Told, ~Given, Given'
    PROVE  Once!Next
  <1> DEFINE m == "message"
  <1>1. m \in Message /\ TheStates[m] = Told /\ (TheDelivered[m] <=> Given)
    BY DEF Message, TheStates, TheDelivered
  <1>2. TheStates' = TheStates
    BY DEF TheStates
  <1>3. TheDelivered' = [TheDelivered EXCEPT ![m] = TRUE]
    BY DEF Message, TheDelivered
  <1>4. Once!Deliver(m)
    BY <1>1, <1>2, <1>3 DEF Once!Deliver, TheStates, TheDelivered, Given
  <1> HIDE DEF m
  <1> QED
    BY <1>1, <1>4 DEF Once!Next

LEMMA RowImplements ==
    ASSUME OnceInv, RowStep
    PROVE  [Once!Next]_Once!vars
  <1>1. /\ OnceOK /\ StateTellsFate /\ ChangesAudited /\ UNCHANGED calls
        /\ (Given' <=> Given) /\ (AllRefused' <=> AllRefused) /\ (AllRefused => ~Given)
    BY DEF OnceInv, AuditInv, IInv, RowStep, Given, AllRefused, Delivered
  <1>2. CASE ("send" \in audit' <=> "send" \in audit) /\ request'.state = request.state
    <2>1. Told' = Told
      BY <1>1, <1>2 DEF Told
    <2> QED
      BY <1>1, <2>1, MessageRests
  <1>3. CASE /\ request.state = "absent" /\ request'.state = "pending"
             /\ "send" \in audit' <=> "send" \in audit
    <2>1. Told' = Told
      BY <1>1, <1>3 DEF Told
    <2> QED
      BY <1>1, <2>1, MessageRests
  <1>4. CASE /\ request.state = "pending" /\ request'.state = "sending"
             /\ "send" \in audit' <=> "send" \in audit
    <2>1. AllRefused /\ "send" \notin audit
      BY <1>1, <1>4 DEF StateTellsFate, AllRefused, OnceOK
    <2>2. Told \in {"none", "failed"} /\ Told' = "sending"
      BY <1>4, <2>1 DEF Told
    <2> QED
      BY <1>1, <2>1, <2>2, MessageMoves
  <1>5. CASE TeamMoves /\ ("send" \in audit' <=> "send" \in audit)
    <2>1. CASE request.state = "unknown"
      <3>1. "send" \notin audit /\ calls # {} /\ Told = "uncertain"
        BY <1>1, <2>1 DEF OnceOK, Told
      <3>2. Told' = IF AllRefused THEN "failed" ELSE "uncertain"
        BY <1>1, <1>5, <3>1 DEF Told, TeamMoves
      <3> QED
        BY <1>1, <3>1, <3>2, MessageMoves
    <2>2. CASE request.state # "unknown"
      <3>1. Told' = Told
        BY <1>1, <1>5, <2>2 DEF Told, TeamMoves
      <3> QED
        BY <1>1, <3>1, MessageRests
    <2> QED
      BY <2>1, <2>2
  <1>6. ASSUME NEW h \in Handlers, Settles(h) PROVE [Once!Next]_Once!vars
    <2>1. /\ "send" \notin audit /\ Told = "sending" /\ calls # {}
          /\ work[h].target = "pending" => AllRefused
          /\ work[h].target = "sent" => Given
      BY <1>1, <1>6 DEF Settles, Knows, OnceOK, Told, Given
    <2>2. \/ ~Given /\ Told' = "failed"
          \/ Given /\ Told' = "sent"
          \/ Told' = "uncertain"
      BY <1>1, <1>6, <2>1 DEF Settles, Told
    <2> QED
      BY <1>1, <2>1, <2>2, MessageMoves
  <1> QED
    BY <1>2, <1>3, <1>4, <1>5, <1>6 DEF RowStep

LEMMA CallImplements ==
    ASSUME OnceInv, NEW h \in Handlers, CallOperator(h)
    PROVE  [Once!Next]_Once!vars
  <1>1. request.state = "sending" /\ UNCHANGED request
    BY DEF OnceInv, AuditInv, IInv, HoldersOK, Holding, CallOperator
  <1>2. PICK c : c.verdict = "pending" /\ calls' = calls \cup {c}
    BY DEF CallOperator
  <1>3. Told' = Told /\ (Given' <=> Given)
    BY <1>1, <1>2 DEF Told, Given, Delivered
  <1> QED
    BY <1>3, MessageRests

LEMMA DecisionImplements ==
    ASSUME OnceInv, NEW c \in calls, OperatorDecides(c)
    PROVE  [Once!Next]_Once!vars
  <1>1. /\ c \in Call /\ c.verdict = "pending" /\ UNCHANGED <<request, audit>>
        /\ OnceOK /\ NoResendInDoubt
    BY DEF OnceInv, AuditInv, IInv, TypeOK, OperatorDecides
  <1>2. PICK verdict \in Verdicts \ {"pending"} :
            calls' = (calls \ {c}) \cup {[c EXCEPT !.verdict = verdict]}
    BY DEF OperatorDecides
  <1>3. PICK e : e = [c EXCEPT !.verdict = verdict]
    OBVIOUS
  <1>4. e.verdict = verdict /\ calls' = (calls \ {c}) \cup {e}
    BY <1>1, <1>2, <1>3 DEF Call
  <1>5. ~Given /\ ~AllRefused /\ "send" \notin audit
    BY <1>1 DEF Given, Delivered, AllRefused, NoResendInDoubt, OnceOK
  <1>6. Told \in {"sending", "uncertain"}
    BY <1>5 DEF Told
  <1>7. (Given' <=> Delivered(e)) /\ (AllRefused' <=> verdict = "rejected") /\ calls' # {}
    BY <1>1, <1>4, <1>5 DEF Given, AllRefused, NoResendInDoubt
  <1>8. CASE Delivered(e)
    <2>1. Told' = Told
      BY <1>1, <1>4, <1>5, <1>7, <1>8 DEF Told, Delivered
    <2> QED
      BY <1>5, <1>6, <1>7, <1>8, <2>1, MessageArrives
  <1>9. CASE ~Delivered(e) /\ Told' = Told
    BY <1>5, <1>7, <1>9, MessageRests
  <1>10. CASE ~Delivered(e) /\ Told' # Told
    <2>1. Told = "uncertain" /\ Told' = "failed"
      BY <1>1, <1>5, <1>7, <1>10 DEF Told
    <2> DEFINE m == "message"
    <2>2. m \in Message /\ TheStates[m] = Told /\ ~TheDelivered[m]
      BY <1>5 DEF Message, TheStates, TheDelivered
    <2>3. TheStates' = [TheStates EXCEPT ![m] = "failed"]
      BY <2>1 DEF Message, TheStates
    <2>4. Given' <=> Given
      BY <1>5, <1>7, <1>10
    <2>5. TheDelivered' = TheDelivered
      BY <2>4 DEF TheDelivered
    <2>6. Once!SettleFailed(m)
      BY <2>1, <2>2, <2>3, <2>5 DEF Once!SettleFailed, TheStates, TheDelivered, Given
    <2> HIDE DEF m
    <2> QED
      BY <2>2, <2>6 DEF Once!Next
  <1> QED
    BY <1>8, <1>9, <1>10

LEMMA InitImplements == Init => Once!Init
  <1> SUFFICES ASSUME Init PROVE Once!Init
    OBVIOUS
  <1>1. Told = "none" /\ ~Given
    BY DEF Init, Told, AllRefused, Given
  <1>2. TheStates = [k \in Message |-> "none"]
    BY <1>1 DEF TheStates
  <1>3. Given = FALSE
    BY DEF Init, Given
  <1>4. TheDelivered = [k \in Message |-> FALSE]
    BY <1>3 DEF TheDelivered
  <1> QED
    BY <1>2, <1>4 DEF Once!Init, TheStates, TheDelivered, Given

LEMMA StepImplements == OnceInv /\ [Next]_vars => [Once!Next]_Once!vars
  <1> SUFFICES ASSUME OnceInv, [Next]_vars PROVE [Once!Next]_Once!vars
    OBVIOUS
  <1>1. IInv
    BY DEF OnceInv, AuditInv
  <1> QED
    BY <1>1, RowSteps, RowImplements, CallImplements, DecisionImplements

\* Every run of the handlers is a run of SendOnce for the message of the request,
\* through edits, marks by hand, corrections and deletions: the same promise as
\* that of the delivery tables, kept with one row and an audit.
THEOREM RefinesSendOnce == Spec => ImplementsSendOnce
  BY InitOnce, StepOnce, InitImplements, StepImplements, PTL
     DEF Spec, ImplementsSendOnce, Once!Spec
=============================================================================

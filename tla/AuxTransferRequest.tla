------------------------- MODULE AuxTransferRequest -------------------------
(***************************************************************************)
(* One operator request of the auxiliary team and the voucher prepared     *)
(* from it (auxiliary-operational/handlers/transfer-requests.ts and        *)
(* transfers.ts).                                                          *)
(*                                                                         *)
(* Every SQL statement is a step. A batch is one PostgreSQL transaction at *)
(* the default level, read committed: each of its statements sees what the *)
(* others committed before it, and a row it has updated is locked until it *)
(* commits. A batch that updates its row first is one step from there on,  *)
(* because nobody can change or see the row before the commit; where a     *)
(* batch reads or writes something else in between it is several steps.    *)
(*                                                                         *)
(* The data of the request is the number of its encryptions: every save    *)
(* seals with a fresh nonce, so two different ciphertexts are never equal  *)
(* and encrypted_data=? compares versions.                                 *)
(***************************************************************************)
EXTENDS Naturals, FiniteSets

CONSTANTS
    Handlers,     \* concurrent POSTs
    Nobody,       \* the lock is free
    MaxData,      \* bound on the encryptions of the request
    MaxRevision,  \* bound on the revision of the voucher
    MaxCalls,     \* bound on the messages handed to the operator
    MaxFaults     \* bound on process deaths and failed statements

ASSUME BoundsAssumption ==
    /\ MaxData \in Nat \ {0}
    /\ MaxRevision \in Nat \ {0}
    /\ MaxCalls \in Nat \ {0}
    /\ MaxFaults \in Nat

ASSUME NobodyAssumption == Nobody \notin Handlers

VARIABLES
    request,  \* the auxop_transfer_requests row
    voucher,  \* the auxop_transfer_vouchers row with the same id
    lock,     \* the handler whose open transaction has updated the request
    work,     \* the locals of each handler
    calls,    \* every message handed to n8n or Resend, and its fate
    audit,    \* the kinds of entries auxop_audit has for this request
    faults    \* process deaths and failed statements so far

vars == <<request, voucher, lock, work, calls, audit, faults>>

States == {"pending", "sending", "sent", "unknown", "manual", "confirmed",
           "correction", "deleted"}
Requests == [state: States \cup {"absent"}, data: 0 .. MaxData]

\* from: the data of the request the tours of the voucher were written from,
\* 0 when somebody edited the voucher itself.
Vouchers == [state: {"absent", "live", "deleted"}, revision: 0 .. MaxRevision,
             from: 0 .. MaxData]
NoVoucher == [state |-> "absent", revision |-> 0, from |-> 0]

Verdicts == {"pending", "ok", "rejected", "error_sent", "error_lost"}
Call == [nr: 1 .. MaxCalls, data: 1 .. MaxData, verdict: Verdicts]
Delivered(c) == c.verdict \in {"ok", "error_sent"}

Ops == {"save", "delete", "updateTours", "voucher", "manual", "confirm", "send"}
Audits == {"delete", "updateTours", "manual", "confirm", "send"}
PCs == {"idle", "find", "voucherRead", "voucherInsert", "voucherCheck",
        "deleteAudit", "deleteRow", "toursVoucher", "toursRow", "toursCommit",
        "mark", "claim", "call", "wait", "record"}
Work == [op: Ops, pc: PCs, row: Requests, revision: 0 .. MaxRevision,
         noted: BOOLEAN, nr: 0 .. MaxCalls, target: States]
Idle == [op |-> "save", pc |-> "idle", row |-> [state |-> "absent", data |-> 0],
         revision |-> 0, noted |-> FALSE, nr |-> 0, target |-> "pending"]

TypeOK ==
    /\ request \in Requests
    /\ voucher \in Vouchers
    /\ lock \in Handlers \cup {Nobody}
    /\ work \in [Handlers -> Work]
    /\ calls \in SUBSET Call
    /\ audit \subseteq Audits
    /\ faults \in 0 .. MaxFaults

Init ==
    /\ request = [state |-> "absent", data |-> 0]
    /\ voucher = NoVoucher
    /\ lock = Nobody
    /\ work = [h \in Handlers |-> Idle]
    /\ calls = {}
    /\ audit = {}
    /\ faults = 0

Continue(h, locals) == work' = [work EXCEPT ![h] = locals]
GoTo(h, label) == Continue(h, [work[h] EXCEPT !.pc = label])
Leave(h) == Continue(h, Idle)

\* An UPDATE waits for the transaction that has updated its row.
Free == lock = Nobody
Unchanged(row) == request.state = row.state /\ request.data = row.data
-----------------------------------------------------------------------------
(* Starting an action.                                                     *)

\* save: INSERT OR IGNORE; an identifier already used is left alone.
SaveInsert(h) ==
    /\ work[h].pc = "idle"
    /\ request' = IF request.state = "absent" THEN [state |-> "pending", data |-> 1]
                  ELSE request
    /\ Continue(h, [Idle EXCEPT !.op = "save", !.pc = "find"])
    /\ UNCHANGED <<voucher, lock, calls, audit, faults>>

\* save: the row with this fingerprint. An edit changes it, a deletion clears it.
SaveFind(h) ==
    /\ work[h].pc = "find"
    /\ IF request.data = 1 /\ request.state # "deleted"
       THEN Continue(h, [work[h] EXCEPT !.pc = "voucherRead", !.row = request])
       ELSE Leave(h)
    /\ UNCHANGED <<request, voucher, lock, calls, audit, faults>>

\* The states from which each action goes on, and its next step.
Accepts == [delete |-> States \ {"deleted", "sending"},
            updateTours |-> States \ {"deleted", "sending"},
            voucher |-> States \ {"deleted"},
            manual |-> {"pending"},
            confirm |-> {"manual", "sent", "correction"},
            send |-> {"pending", "sent", "confirmed"}]
FirstStep == [delete |-> "deleteAudit", updateTours |-> "toursVoucher",
              voucher |-> "voucherRead", manual |-> "voucherRead",
              confirm |-> "voucherRead", send |-> "voucherRead"]

\* Every other action reads the row, and answers at once when its state is not
\* one the action goes on from (that changes nothing, and is not a step).
ReadRow(h) ==
    /\ work[h].pc = "idle"
    /\ \E op \in Ops \ {"save"} :
          /\ request.state \in Accepts[op]
          /\ Continue(h, [Idle EXCEPT !.op = op, !.pc = FirstStep[op],
                                      !.row = request])
    /\ UNCHANGED <<request, voucher, lock, calls, audit, faults>>
-----------------------------------------------------------------------------
(* ensureVoucher, before save, voucher, manual, confirm and send.          *)

AfterVoucher(h) ==
    CASE work[h].op \in {"manual", "confirm"} -> GoTo(h, "mark")
      [] work[h].op = "send" /\ work[h].row.state = "pending" -> GoTo(h, "claim")
      [] OTHER -> Leave(h)

VoucherRead(h) ==
    /\ work[h].pc = "voucherRead"
    /\ CASE voucher.state = "live" -> AfterVoucher(h)
         [] voucher.state = "deleted" -> Leave(h)
         [] OTHER -> GoTo(h, "voucherInsert")
    /\ UNCHANGED <<request, voucher, lock, calls, audit, faults>>

VoucherInsert(h) ==
    /\ work[h].pc = "voucherInsert"
    /\ voucher' = IF voucher.state # "absent" THEN voucher
                  ELSE [state |-> "live", revision |-> 1, from |-> work[h].row.data]
    /\ GoTo(h, "voucherCheck")
    /\ UNCHANGED <<request, lock, calls, audit, faults>>

VoucherCheck(h) ==
    /\ work[h].pc = "voucherCheck"
    /\ IF voucher.state = "live" THEN AfterVoucher(h) ELSE Leave(h)
    /\ UNCHANGED <<request, voucher, lock, calls, audit, faults>>
-----------------------------------------------------------------------------
(* The voucher's own screen (transfers.ts), conditional on the revision.   *)

EditVoucher ==
    /\ voucher.state = "live"
    /\ voucher.revision < MaxRevision
    /\ voucher' = [voucher EXCEPT !.revision = @ + 1, !.from = 0]
    /\ UNCHANGED <<request, lock, work, calls, audit, faults>>

DeleteVoucher ==
    /\ voucher.state = "live"
    /\ voucher.revision < MaxRevision
    /\ voucher' = [voucher EXCEPT !.state = "deleted", !.revision = @ + 1]
    /\ UNCHANGED <<request, lock, work, calls, audit, faults>>
-----------------------------------------------------------------------------
(* delete: the audit entry first, then the row, both conditional on the    *)
(* state that was read.                                                    *)

\* Mutant: the audit entry is written for pending requests only.
DeleteAuditPending(h) ==
    /\ work[h].pc = "deleteAudit"
    /\ Continue(h, [work[h] EXCEPT !.pc = "deleteRow",
                                   !.noted = request.state = "pending"])
    /\ UNCHANGED <<request, voucher, lock, calls, audit, faults>>

DeleteAudit(h) ==
    /\ work[h].pc = "deleteAudit"
    /\ Continue(h, [work[h] EXCEPT !.pc = "deleteRow",
                                   !.noted = request.state = work[h].row.state])
    /\ UNCHANGED <<request, voucher, lock, calls, audit, faults>>

\* Mutant: the row is deleted by id alone.
DeleteRowById(h) ==
    /\ work[h].pc = "deleteRow"
    /\ Free
    /\ request' = [request EXCEPT !.state = "deleted"]
    /\ audit' = IF work[h].noted THEN audit \cup {"delete"} ELSE audit
    /\ Leave(h)
    /\ UNCHANGED <<voucher, lock, calls, faults>>

DeleteRow(h) ==
    /\ work[h].pc = "deleteRow"
    /\ Free
    /\ request' = IF request.state # work[h].row.state THEN request
                  ELSE [request EXCEPT !.state = "deleted"]
    /\ audit' = IF work[h].noted THEN audit \cup {"delete"} ELSE audit
    /\ Leave(h)
    /\ UNCHANGED <<voucher, lock, calls, faults>>
-----------------------------------------------------------------------------
(* updateTours.                                                            *)

\* The voucher is read and both rows are sealed again; the handler answers
\* here when the client's version, the tours or the voucher do not allow it.
ToursVoucher(h) ==
    /\ work[h].pc = "toursVoucher"
    /\ \/ /\ voucher.state = "live"
          /\ work[h].row.data < MaxData /\ voucher.revision < MaxRevision
          /\ Continue(h, [work[h] EXCEPT !.pc = "toursRow", !.revision = voucher.revision])
       \/ Leave(h)
    /\ UNCHANGED <<request, voucher, lock, calls, audit, faults>>

\* The first statement of the batch: the request, if neither it nor the
\* voucher changed since they were read. It stays invisible until the commit.
ToursRow(h) ==
    /\ work[h].pc = "toursRow"
    /\ Free
    /\ IF /\ Unchanged(work[h].row)
          /\ voucher.state = "live"
          /\ voucher.revision = work[h].revision
       THEN /\ lock' = h
            /\ GoTo(h, "toursCommit")
       ELSE /\ Leave(h)
            /\ UNCHANGED lock
    /\ UNCHANGED <<request, voucher, calls, audit, faults>>

\* Mutant: only the voucher is written.
ToursCommitVoucherOnly(h) ==
    /\ work[h].pc = "toursCommit"
    /\ voucher.revision = work[h].revision
    /\ voucher' = [voucher EXCEPT !.revision = @ + 1, !.from = work[h].row.data + 1]
    /\ lock' = Nobody
    /\ Leave(h)
    /\ UNCHANGED <<request, calls, audit, faults>>

\* The voucher, conditional on its revision; the audit entry; the commit.
ToursCommit(h) ==
    /\ work[h].pc = "toursCommit"
    /\ LET row == work[h].row
           data == row.data + 1
       IN  /\ request' = [state |-> IF row.state = "pending" THEN "pending"
                                    ELSE "correction",
                          data |-> data]
           /\ \/ /\ voucher.state = "live"
                 /\ voucher.revision = work[h].revision
                 /\ voucher' = [voucher EXCEPT !.revision = @ + 1, !.from = data]
              \/ /\ ~(voucher.state = "live" /\ voucher.revision = work[h].revision)
                 /\ UNCHANGED voucher
    /\ audit' = audit \cup {"updateTours"}
    /\ lock' = Nobody
    /\ Leave(h)
    /\ UNCHANGED <<calls, faults>>
-----------------------------------------------------------------------------
(* manual and confirm.                                                     *)

Marked(op) == IF op = "manual" THEN "manual" ELSE "confirmed"

\* The update and, conditional on its result, the audit entry. (When the
\* update matches nothing the entry may still be written, a second time, next
\* to the one of the handler that made the same change.)
Mark(h) ==
    /\ work[h].pc = "mark"
    /\ Free
    /\ IF Unchanged(work[h].row)
       THEN /\ request' = [request EXCEPT !.state = Marked(work[h].op)]
            /\ audit' = audit \cup {work[h].op}
       ELSE UNCHANGED <<request, audit>>
    /\ Leave(h)
    /\ UNCHANGED <<voucher, lock, calls, faults>>
-----------------------------------------------------------------------------
(* send.                                                                   *)

\* Mutant: the claim compares the version and forgets the state.
ClaimableByData(h) == request.data = work[h].row.data

Claimable(h) == request.state = "pending" /\ request.data = work[h].row.data

\* (At the bound on the messages the handler gives up.)
Claim(h) ==
    /\ work[h].pc = "claim"
    /\ Free
    /\ IF Claimable(h) /\ Cardinality(calls) < MaxCalls
       THEN /\ request' = [request EXCEPT !.state = "sending"]
            /\ Continue(h, [work[h] EXCEPT !.pc = "call",
                                           !.nr = Cardinality(calls) + 1])
       ELSE /\ Leave(h)
            /\ UNCHANGED request
    /\ UNCHANGED <<voucher, lock, calls, audit, faults>>

CallOperator(h) ==
    /\ work[h].pc = "call"
    /\ calls' = calls \cup {[nr |-> work[h].nr, data |-> work[h].row.data,
                             verdict |-> "pending"]}
    /\ GoTo(h, "wait")
    /\ UNCHANGED <<request, voucher, lock, audit, faults>>

\* n8n or Resend takes or refuses a message, at any time.
OperatorDecides(c) ==
    /\ c.verdict = "pending"
    /\ \E verdict \in Verdicts \ {"pending"} :
          calls' = (calls \ {c}) \cup {[c EXCEPT !.verdict = verdict]}
    /\ UNCHANGED <<request, voucher, lock, work, audit, faults>>

\* Mutant: every answer but "ok" may be retried.
OutcomeRetry(verdict) == IF verdict = "ok" THEN "sent" ELSE "pending"

\* Mutant: a refused message gets a state no other action knows.
OutcomeFailed(verdict) ==
    CASE verdict = "ok" -> "sent"
      [] verdict = "rejected" -> "failed"
      [] OTHER -> "unknown"

Outcome(verdict) ==
    CASE verdict = "ok" -> "sent"
      [] verdict = "rejected" -> "pending"
      [] OTHER -> "unknown"

Receive(h) ==
    /\ work[h].pc = "wait"
    /\ \E c \in calls :
          /\ c.nr = work[h].nr
          /\ c.verdict # "pending"
          /\ Continue(h, [work[h] EXCEPT !.pc = "record",
                                         !.target = Outcome(c.verdict)])
    /\ UNCHANGED <<request, voucher, lock, calls, audit, faults>>

\* Mutant: fetch without a signal never gives up.
NoTimeOut(h) == work[h].pc = "wait" /\ FALSE /\ UNCHANGED vars

\* AbortSignal.timeout(20000), or a broken connection.
TimeOut(h) ==
    /\ work[h].pc = "wait"
    /\ Continue(h, [work[h] EXCEPT !.pc = "record", !.target = "unknown"])
    /\ UNCHANGED <<request, voucher, lock, calls, audit, faults>>

\* By id alone: nothing else changes a row that is being sent.
Record(h) ==
    /\ work[h].pc = "record"
    /\ Free
    /\ request' = [request EXCEPT !.state = work[h].target]
    /\ audit' = IF work[h].target = "sent" THEN audit \cup {"send"} ELSE audit
    /\ Leave(h)
    /\ UNCHANGED <<voucher, lock, calls, faults>>
-----------------------------------------------------------------------------
(* Faults.                                                                 *)

Fault == faults < MaxFaults /\ faults' = faults + 1

\* The claim is committed and its acknowledgement lost: the handler answers
\* 503 and the row stays claimed by nobody.
ClaimUnacknowledged(h) ==
    /\ Fault
    /\ work[h].pc = "claim"
    /\ Free
    /\ Claimable(h)
    /\ request' = [request EXCEPT !.state = "sending"]
    /\ Leave(h)
    /\ UNCHANGED <<voucher, lock, calls, audit>>

\* A statement fails: its transaction is rolled back and the handler answers 503.
StatementFails(h) ==
    /\ Fault
    /\ work[h].pc \notin {"idle", "call", "wait"}
    /\ lock' = IF lock = h THEN Nobody ELSE lock
    /\ Leave(h)
    /\ UNCHANGED <<request, voucher, calls, audit>>

\* The process dies: open transactions are rolled back, nothing is resumed.
Crash ==
    /\ Fault
    /\ lock' = Nobody
    /\ work' = [h \in Handlers |-> Idle]
    /\ UNCHANGED <<request, voucher, calls, audit>>
-----------------------------------------------------------------------------
HandlerStep(h) ==
    \/ SaveFind(h)
    \/ VoucherRead(h) \/ VoucherInsert(h) \/ VoucherCheck(h)
    \/ DeleteAudit(h) \/ DeleteRow(h)
    \/ ToursVoucher(h) \/ ToursRow(h) \/ ToursCommit(h)
    \/ Mark(h)
    \/ Claim(h) \/ CallOperator(h) \/ Receive(h) \/ TimeOut(h) \/ Record(h)

Next ==
    \/ \E h \in Handlers :
          \/ SaveInsert(h) \/ ReadRow(h)
          \/ HandlerStep(h)
          \/ ClaimUnacknowledged(h) \/ StatementFails(h)
    \/ \E c \in calls : OperatorDecides(c)
    \/ EditVoucher \/ DeleteVoucher
    \/ Crash

Spec == Init /\ [][Next]_vars

FairSpec == Spec /\ \A h \in Handlers : WF_vars(HandlerStep(h))
-----------------------------------------------------------------------------
(* Properties.                                                             *)

\* The operator is handed the request again only when every earlier message
\* is known to have been refused: two auxiliaries, a retry, a time-out or a
\* death of the process never book the same transfer twice ("No se reenviara
\* para evitar duplicados").
NoResendInDoubt ==
    \A c, d \in calls : c # d => "rejected" \in {c.verdict, d.verdict}

\* The state tells what the operator knows: the request may be sent, or
\* written to the operator by hand, only while no message is or may be with
\* the operator, and "sent" means that it has the tours the row has now.
StateTellsFate ==
    /\ request.state \in {"absent", "pending", "manual"} =>
          \A c \in calls : c.verdict = "rejected"
    /\ request.state = "sent" =>
          \E c \in calls : Delivered(c) /\ c.data = request.data

\* A handler holds the request from its claim to its record.
Holding(w) == w.pc \in {"call", "wait", "record"}

\* A row that says "sending" is being sent, unless its process died or its claim
\* was acknowledged to nobody: nothing else leaves it claimed.
SendingIsHeld ==
    request.state = "sending" /\ faults = 0 => \E h \in Handlers : Holding(work[h])

\* While a message is with the operator the row is frozen: no edit, deletion
\* or gestion of another session gets between the claim and the result.
FrozenWhileSending ==
    [][request.state = "sending" =>
          /\ request'.data = request.data
          /\ request'.state \in {"sending", "sent", "unknown", "pending"}]_vars

\* A deleted request stays deleted, though send records by id alone.
DeletedForGood == [][request.state = "deleted" => request' = request]_vars

\* The tours of a voucher are never ahead of the request they came from.
VoucherNotAhead ==
    voucher.state = "live" => voucher.from <= request.data

\* What the team can see in the row has its entry in the audit. A deletion
\* may miss it, and only when the state left and came back between the two
\* statements of its batch: through a refused send, or through a correction.
ChangesAudited ==
    /\ request.state = "manual" => "manual" \in audit
    /\ request.state = "confirmed" => "confirm" \in audit
    /\ request.state = "sent" => "send" \in audit
    /\ request.data > 1 => "updateTours" \in audit
    /\ request.state = "deleted" =>
          \/ "delete" \in audit
          \/ "updateTours" \in audit
          \/ \E c \in calls : c.verdict = "rejected"

\* What the row and the voucher say is what the operator and the team were told,
\* and the operator is told once.
RequestTellsFate ==
    NoResendInDoubt /\ StateTellsFate /\ SendingIsHeld /\ VoucherNotAhead

\* A row that is with the operator, and one that was deleted, are out of reach
\* of every handler that read them before.
RowIsGuarded == FrozenWhileSending /\ DeletedForGood

\* No handler waits for ever, neither for a lock nor for the operator; without
\* faults no row stays claimed either.
HandlersFinish ==
    /\ \A h \in Handlers : work[h].pc # "idle" ~> work[h].pc = "idle"
    /\ request.state = "sending" /\ faults = 0
          ~> request.state # "sending" \/ faults > 0

AllRefused == \A c \in calls : c.verdict = "rejected"

\* What the table says of the message of the request, whatever the team did
\* with it since: marked it by hand, corrected or deleted it.
Told ==
    IF request.state = "sending" THEN "sending"
    ELSE IF "send" \in audit THEN "sent"
    ELSE IF request.state = "unknown" \/ ~AllRefused THEN "uncertain"
    ELSE IF calls = {} THEN "none" ELSE "failed"

Message == {"message"}
Once == INSTANCE SendOnce WITH
    Keys <- Message,
    state <- [k \in Message |-> Told],
    delivered <- [k \in Message |-> \E c \in calls : Delivered(c)]

\* The request keeps the promise of SendOnce for its one message, as the
\* delivery tables do for theirs: no edit, mark by hand or deletion between two
\* attempts makes it forget that the operator may have the message.
ImplementsSendOnce == Once!Spec
-----------------------------------------------------------------------------
(* The inductive invariant behind the safety properties.                   *)

\* Only an existing request has data.
RequestOK == request.state = "absent" <=> request.data = 0

\* A message has a number of its own.
CallsOK ==
    /\ IsFiniteSet(calls)
    /\ \A c \in calls : c.nr <= Cardinality(calls)
    /\ \A c, d \in calls : c.nr = d.nr => c = d

\* What a handler with locals w remembers of the row it read.
LocalOK(w) ==
    /\ w.pc \notin {"idle", "find"} =>
          /\ w.row.data >= 1 /\ w.row.data <= request.data
          /\ w.op # "save" => w.row.state \in Accepts[w.op]
    /\ w.pc \in {"voucherRead", "voucherInsert", "voucherCheck"} =>
          w.op \in {"save", "voucher", "manual", "confirm", "send"}
    /\ w.pc \in {"deleteAudit", "deleteRow"} => w.op = "delete"
    /\ w.pc \in {"toursVoucher", "toursRow", "toursCommit"} => w.op = "updateTours"
    /\ w.pc \in {"toursRow", "toursCommit"} =>
          w.row.data < MaxData /\ w.revision < MaxRevision
    /\ w.pc = "mark" => w.op \in {"manual", "confirm"}
    /\ w.pc = "find" => w.op = "save"

LocalsOK == \A h \in Handlers : LocalOK(work[h])

\* The open transaction has the row as its handler read it.
LockOK ==
    \A h \in Handlers :
        /\ lock = h <=> work[h].pc = "toursCommit"
        /\ lock = h => Unchanged(work[h].row)

\* What the holder knows of the messages.
Knows(w) ==
    /\ w.pc = "call" =>
          AllRefused /\ w.nr = Cardinality(calls) + 1 /\ w.nr <= MaxCalls
    /\ w.pc = "wait" =>
          \A c \in calls : \/ c.verdict = "rejected" /\ c.nr # w.nr
                           \/ c.nr = w.nr /\ c.data = w.row.data
    /\ w.pc = "record" =>
          /\ w.target \in {"pending", "sent", "unknown"}
          /\ w.target = "pending" => AllRefused
          /\ w.target = "sent" => \E c \in calls : Delivered(c) /\ c.data = w.row.data

HoldersOK ==
    \A h \in Handlers : Holding(work[h]) =>
        /\ request.state = "sending" /\ request.data = work[h].row.data
        /\ \A g \in Handlers : Holding(work[g]) => g = h
        /\ Knows(work[h])

IInv ==
    /\ TypeOK
    /\ RequestOK
    /\ CallsOK
    /\ LocalsOK
    /\ LockOK
    /\ HoldersOK
    /\ NoResendInDoubt
    /\ StateTellsFate
    /\ VoucherNotAhead

\* What of the row and the audit came of a message: from the call on there is
\* one, and the entry of a send is that of a message the operator took.
OnceOK ==
    /\ \A h \in Handlers : work[h].pc \in {"wait", "record"} => calls # {}
    /\ request.state = "unknown" => calls # {}
    /\ "send" \in audit =>
          /\ request.state \in {"sent", "confirmed", "correction", "deleted"}
          /\ \E c \in calls : Delivered(c)

\* The states a request goes through, in the order nothing but a refused send
\* and a correction of the tours reverses.
Rank == [absent |-> 0, pending |-> 1, sending |-> 2, manual |-> 2, sent |-> 3,
         unknown |-> 3, correction |-> 3, confirmed |-> 4, deleted |-> 5]
Straight ==
    "updateTours" \notin audit /\ \A c \in calls : c.verdict # "rejected"

\* Why a deletion without its entry needs one of the two: as long as neither
\* happened, a row that has left the state it was read in is past it.
DeletersOK ==
    \A h \in Handlers :
        /\ work[h].pc = "record" /\ work[h].target = "pending" =>
              \E c \in calls : c.verdict = "rejected"
        /\ Straight /\ work[h].pc = "deleteAudit" =>
              \/ request.state = work[h].row.state
              \/ Rank[request.state] > Rank[work[h].row.state]
        /\ Straight /\ work[h].pc = "deleteRow" /\ ~work[h].noted =>
              Rank[request.state] > Rank[work[h].row.state]
=============================================================================

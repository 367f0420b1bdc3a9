------------------------------- MODULE Points -------------------------------
(***************************************************************************)
(* Points: an employee asks a leader for points, who approves or rejects   *)
(* the request; an approval writes the request, reads the wallet, writes   *)
(* a transaction with the balance and then the wallet, each statement on   *)
(* its own (points/services/point-request.service.ts). Both parties are    *)
(* told by a socket event, which reaches the tabs that are open and leaves *)
(* nothing behind, and by a notification row.                              *)
(***************************************************************************)
EXTENDS Integers, FiniteSets, Functions

CONSTANTS
    Requests,   \* identifiers of PointRequest rows
    Employees,
    Leaders,
    Handlers,   \* concurrent executions of approvePointRequest, rejectPointRequest
    Amounts,    \* the points asked for: any integers
    Nothing     \* no row

VARIABLES
    request,      \* the PointRequest rows
    wallet,       \* PointWallet.total, Nothing without a row
    transaction,  \* the PointTransaction rows, at most one per request and handler
    work,         \* what each handler is at
    notified,     \* the notifications, as [to, type, about]
    lost,         \* history: points of a transaction whose wallet was not written
    crossed       \* history: the employees with two decisions at once

vars == <<request, wallet, transaction, work, notified, lost, crossed>>

Statuses == {"PENDING", "APPROVED", "REJECTED"}
Idle == [pc |-> "idle"]
Ledger == [request: Requests, by: Handlers, points: Amounts, balanceAfter: Int]
Request == [user: Employees, leader: Leaders, points: Amounts, status: Statuses]

AmountsAssumption == Amounts \subseteq Int /\ Nothing \notin Int \cup Request

TypeOK ==
    /\ \A i \in Requests : request[i] = Nothing \/ request[i] \in Request
    /\ \A u \in Employees : wallet[u] = Nothing \/ wallet[u] \in Int
    /\ transaction \subseteq Ledger
    /\ \A h \in Handlers : work[h] = Idle
         \/ (work[h].pc \in {"decide", "read", "ledger", "wallet", "tell"} /\ work[h].id \in Requests)
    /\ lost \in [Employees -> Int]
    /\ crossed \subseteq Employees

Init ==
    /\ request = [i \in Requests |-> Nothing]
    /\ wallet = [u \in Employees |-> Nothing]
    /\ transaction = {}
    /\ work = [h \in Handlers |-> Idle]
    /\ notified = {}
    /\ lost = [u \in Employees |-> 0]
    /\ crossed = {}

Total(u) == IF wallet[u] = Nothing THEN 0 ELSE wallet[u]
OwnerOf(h) == request[work[h].id].user
PointsOf(h) == request[work[h].id].points
GoTo(h, pc) == work' = [work EXCEPT ![h].pc = pc]
Finish(h) == work' = [work EXCEPT ![h] = Idle]
-----------------------------------------------------------------------------
Notify(to, type, i) ==
    notified' = notified \cup
        {[to |-> to, type |-> type, about |-> i]}

\* The row and the notification; the second may fail after the first.
RequestPoints(i) ==
    /\ request[i] = Nothing
    /\ \E u \in Employees, l \in Leaders, points \in Amounts :
         /\ request' = [request EXCEPT ![i] =
                          [user |-> u, leader |-> l, points |-> points, status |-> "PENDING"]]
         /\ Notify(l, "POINT_REQUEST", i) \/ UNCHANGED notified
    /\ UNCHANGED <<wallet, transaction, work, lost, crossed>>

\* The row is read while it is pending, by its own leader.
Begin(h, verdict) ==
    /\ work[h] = Idle
    /\ \E i \in Requests :
         /\ request[i] # Nothing /\ request[i].status = "PENDING"
         /\ work' = [work EXCEPT ![h] = [pc |-> "decide", id |-> i, verdict |-> verdict, balance |-> 0]]
         /\ crossed' = crossed \cup
              {u \in {request[i].user} : \E g \in Handlers : work[g] # Idle /\ OwnerOf(g) = u}
    /\ UNCHANGED <<request, wallet, transaction, notified, lost>>

Decide(h) ==
    /\ work[h] # Idle /\ work[h].pc = "decide"
    /\ request' = [request EXCEPT ![work[h].id].status = work[h].verdict]
    /\ GoTo(h, IF work[h].verdict = "APPROVED" THEN "read" ELSE "tell")
    /\ UNCHANGED <<wallet, transaction, notified, lost, crossed>>

\* Mutant: the balance is what the transaction is worth.
ReadNothing(h) ==
    /\ work[h] # Idle /\ work[h].pc = "read"
    /\ work' = [work EXCEPT ![h].pc = "ledger", ![h].balance = PointsOf(h)]
    /\ UNCHANGED <<request, wallet, transaction, notified, lost, crossed>>

ReadWallet(h) ==
    /\ work[h] # Idle /\ work[h].pc = "read"
    /\ work' = [work EXCEPT ![h].pc = "ledger", ![h].balance = Total(OwnerOf(h)) + PointsOf(h)]
    /\ UNCHANGED <<request, wallet, transaction, notified, lost, crossed>>

CreateTransaction(h) ==
    /\ work[h] # Idle /\ work[h].pc = "ledger"
    /\ transaction' = transaction \cup
         {[request |-> work[h].id, by |-> h, points |-> PointsOf(h), balanceAfter |-> work[h].balance]}
    /\ GoTo(h, "wallet")
    /\ UNCHANGED <<request, wallet, notified, lost, crossed>>

\* The upsert: a wallet that is new holds the points alone.
WriteWallet(h) ==
    /\ work[h] # Idle /\ work[h].pc = "wallet"
    /\ wallet' = [wallet EXCEPT ![OwnerOf(h)] =
                    IF wallet[OwnerOf(h)] = Nothing THEN PointsOf(h) ELSE work[h].balance]
    /\ GoTo(h, "tell")
    /\ UNCHANGED <<request, transaction, notified, lost, crossed>>

Tell(h) ==
    /\ work[h] # Idle /\ work[h].pc = "tell"
    /\ Notify(OwnerOf(h),
              IF work[h].verdict = "APPROVED" THEN "POINT_APPROVAL" ELSE "POINT_REJECTION", work[h].id)
    /\ Finish(h)
    /\ UNCHANGED <<request, wallet, transaction, lost, crossed>>

\* A statement fails, or the process stops: what was written stays.
Fail(h) ==
    /\ work[h] # Idle
    /\ lost' = IF work[h].pc = "wallet" THEN [lost EXCEPT ![OwnerOf(h)] = @ + PointsOf(h)] ELSE lost
    /\ Finish(h)
    /\ UNCHANGED <<request, wallet, transaction, notified, crossed>>

Next ==
    \/ \E i \in Requests : RequestPoints(i)
    \/ \E h \in Handlers :
         \/ Begin(h, "APPROVED") \/ Begin(h, "REJECTED") \/ Decide(h) \/ ReadWallet(h)
         \/ CreateTransaction(h) \/ WriteWallet(h) \/ Tell(h) \/ Fail(h)

Spec == Init /\ [][Next]_vars
-----------------------------------------------------------------------------
Of(u) == {t \in transaction : request[t.request].user = u}
PointsIn(ledger) == SumFunction([t \in ledger |-> t.points])
Settling(u) == \E h \in Handlers : work[h] # Idle /\ OwnerOf(h) = u /\ work[h].pc = "wallet"

\* For an employee no two decisions overlapped for, the wallet is the sum of
\* the transactions less those a failure left unpaid; each transaction is of
\* an approved request, no request has two, and whoever is told of an approval
\* has its points in the ledger (approvePointRequest).
WalletIsLedger ==
    \A u \in Employees \ crossed :
        /\ ~Settling(u) => Total(u) = PointsIn(Of(u)) - lost[u]
        /\ \A t \in Of(u) : request[t.request].status = "APPROVED"
        /\ \A s, t \in Of(u) : s.request = t.request => s = t
        /\ \A n \in notified : (n.to = u /\ n.type = "POINT_APPROVAL") =>
             \E t \in Of(u) : t.request = n.about
=============================================================================

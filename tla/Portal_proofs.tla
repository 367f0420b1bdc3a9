---------------------------- MODULE Portal_proofs ----------------------------
(***************************************************************************)
(* Proofs about Portal, for any people, rows, requests and pages.          *)
(*                                                                         *)
(* One part per component: its inductive invariant, that it holds at the   *)
(* start and that each of the component's actions keeps it, and what it    *)
(* implies.  A component moves or stays in a step of the composition, so   *)
(* the invariants hold together; the theorems come last.                   *)
(***************************************************************************)
EXTENDS Portal, Sums_proofs, Sequences, SequenceTheorems, TLAPS

-----------------------------------------------------------------------------
(* Points and their wallet.                                               *)

PointsDeciding ==
    [pc : {"decide", "read", "ledger", "wallet", "tell"}, id : PointRequests,
     verdict : {"APPROVED", "REJECTED"}, balance : Int]

PointsShape ==
    /\ pointsRequest \in [PointRequests -> Points!Request \cup {None}]
    /\ pointsWallet \in [Employees -> Int \cup {None}]
    /\ pointsTransaction \subseteq Points!Ledger /\ IsFiniteSet(pointsTransaction)
    /\ pointsWork \in [PointHandlers -> PointsDeciding \cup {Points!Idle}]
    /\ pointsLost \in [Employees -> Int] /\ pointsCrossed \subseteq Employees

PointsWorth == [t \in Points!Ledger |-> t.points]
PointsPaid(u) == SumFunctionOnSet(PointsWorth, Points!Of(u))
PointsBusy(h, u) == pointsWork[h] # Points!Idle /\ Points!OwnerOf(h) = u

PointsEven(u) == Points!Total(u) = PointsPaid(u) - pointsLost[u]
\* What is in the ledger has been approved, and told.
PointsRecorded(u) ==
    /\ \A t \in Points!Of(u) : pointsRequest[t.request].status = "APPROVED"
    /\ \A s, t \in Points!Of(u) : s.request = t.request => s = t
    /\ \A n \in pointsNotified : (n.to = u /\ n.type = "POINT_APPROVAL") =>
             \E t \in Points!Of(u) : t.request = n.about

\* How far a decision is, in the rows.
PointsAlong(h) ==
    /\ pointsWork[h].pc = "decide" => pointsRequest[pointsWork[h].id].status = "PENDING"
    /\ pointsWork[h].pc \in {"read", "ledger"} =>
         /\ pointsRequest[pointsWork[h].id].status = "APPROVED"
         /\ \A t \in pointsTransaction : t.request # pointsWork[h].id
    /\ pointsWork[h].pc = "wallet" \/
         (pointsWork[h].pc = "tell" /\ pointsWork[h].verdict = "APPROVED") =>
         \E t \in pointsTransaction : t.request = pointsWork[h].id
    /\ pointsWork[h].pc \in {"ledger", "wallet"} =>
         pointsWork[h].balance = Points!Total(Points!OwnerOf(h)) + Points!PointsOf(h)
    /\ pointsWork[h].pc = "wallet" =>
         Points!Total(Points!OwnerOf(h)) + Points!PointsOf(h) =
             PointsPaid(Points!OwnerOf(h)) - pointsLost[Points!OwnerOf(h)]
    /\ pointsWork[h].pc # "wallet" => PointsEven(Points!OwnerOf(h))

PointsBooks(u) ==
    /\ \A g, h \in PointHandlers : PointsBusy(g, u) /\ PointsBusy(h, u) => g = h
    /\ \A h \in PointHandlers : PointsBusy(h, u) => PointsAlong(h)
    /\ (\A h \in PointHandlers : ~PointsBusy(h, u)) => PointsEven(u)
    /\ PointsRecorded(u)

PointsInv ==
    /\ PointsShape
    /\ \A h \in PointHandlers : pointsWork[h] # Points!Idle =>
         pointsRequest[pointsWork[h].id] # None
    /\ \A t \in pointsTransaction : pointsRequest[t.request] # None
    /\ \A u \in Employees \ pointsCrossed : PointsBooks(u)

LEMMA PointsSum == \A f : Points!SumFunction(f) = SumFunctionOnSet(f, DOMAIN f)
  BY DEF Points!SumFunction, Points!SumFunctionOnSet, Points!FoldFunctionOnSet,
     Points!MapThenFoldSet, SumFunctionOnSet, FoldFunctionOnSet, MapThenFoldSet

LEMMA LedgerSum ==
    ASSUME NEW S \in SUBSET Points!Ledger, IsFiniteSet(S)
    PROVE  Points!PointsIn(S) = SumFunctionOnSet(PointsWorth, S)
  <1>1. PICK f : f = [t \in S |-> t.points]
    OBVIOUS
  <1>2. \A t \in S : f[t] \in Int /\ f[t] = PointsWorth[t]
    BY <1>1, ComponentsAssumption DEF PointsWorth, Points!Ledger, Points!AmountsAssumption
  <1>3. Points!PointsIn(S) = SumFunctionOnSet(f, S)
    BY <1>1, PointsSum DEF Points!PointsIn
  <1> QED
    BY <1>2, <1>3, SumOfSame

LEMMA PointsInit == Points!Init => PointsInv
  <1> SUFFICES ASSUME Points!Init PROVE PointsInv
    OBVIOUS
  <1>1. PointsShape
    BY FS_EmptySet DEF Points!Init, PointsShape
  <1>2. ASSUME NEW u \in Employees PROVE PointsBooks(u)
    <2>1. Points!Of(u) = {} /\ PointsPaid(u) = 0
      BY SumOfNothing DEF Points!Init, Points!Of, PointsPaid
    <2>2. Points!Total(u) = 0 /\ pointsLost[u] = 0 /\ pointsNotified = {} /\
            \A h \in PointHandlers : ~PointsBusy(h, u)
      BY DEF Points!Init, Points!Total, PointsBusy
    <2> QED
      BY <2>1, <2>2 DEF PointsBooks, PointsRecorded, PointsEven
  <1> QED
    BY <1>1, <1>2 DEF Points!Init, PointsInv

LEMMA PointsFacts ==
    ASSUME PointsInv
    PROVE  /\ \A h \in PointHandlers : pointsWork[h] # Points!Idle =>
                /\ pointsWork[h] \in PointsDeciding /\ pointsWork[h].id \in PointRequests
                /\ pointsRequest[pointsWork[h].id] \in Points!Request
                /\ pointsRequest[pointsWork[h].id] # None
                /\ Points!OwnerOf(h) \in Employees /\ Points!PointsOf(h) \in Int
           /\ \A t \in pointsTransaction : t.request \in PointRequests /\
                pointsRequest[t.request] \in Points!Request
           /\ \A u \in Employees : /\ Points!Total(u) \in Int /\ pointsLost[u] \in Int
                                   /\ IsFiniteSet(Points!Of(u))
                                   /\ Points!Of(u) \subseteq Points!Ledger
                                   /\ PointsPaid(u) \in Int
  <1>1. \A h \in PointHandlers : pointsWork[h] # Points!Idle =>
                /\ pointsWork[h] \in PointsDeciding /\ pointsWork[h].id \in PointRequests
                /\ pointsRequest[pointsWork[h].id] \in Points!Request
                /\ pointsRequest[pointsWork[h].id] # None
    BY DEF PointsInv, PointsShape, PointsDeciding
  <1>2. \A h \in PointHandlers : pointsWork[h] # Points!Idle =>
          Points!OwnerOf(h) \in Employees /\ Points!PointsOf(h) \in Int
    BY <1>1, ComponentsAssumption DEF Points!AmountsAssumption, Points!Request, Points!OwnerOf,
    Points!PointsOf
  <1>3. \A t \in pointsTransaction : t.request \in PointRequests /\
          pointsRequest[t.request] \in Points!Request
    BY DEF PointsInv, PointsShape, Points!Ledger
  <1>4. ASSUME NEW u \in Employees
        PROVE  Points!Total(u) \in Int /\ pointsLost[u] \in Int /\ IsFiniteSet(Points!Of(u)) /\
            Points!Of(u) \subseteq Points!Ledger /\ PointsPaid(u) \in Int
    <2>1. Points!Total(u) \in Int /\ pointsLost[u] \in Int
      BY DEF PointsInv, PointsShape, Points!Total
    <2>2. IsFiniteSet(Points!Of(u)) /\ Points!Of(u) \subseteq Points!Ledger
      BY FS_Subset DEF PointsInv, PointsShape, Points!Of
    <2>3. \A t \in Points!Of(u) : PointsWorth[t] \in Int
      BY <2>2, ComponentsAssumption DEF PointsWorth, Points!Ledger, Points!AmountsAssumption
    <2> QED
      BY <2>1, <2>2, <2>3, SumIsNumber DEF PointsPaid
  <1> QED
    BY <1>1, <1>2, <1>3, <1>4

\* What does not touch an employee leaves the books as they were.
LEMMA BooksKept ==
    ASSUME PointsInv, NEW u \in Employees, PointsBooks(u),
           Points!Of(u)' = Points!Of(u), pointsTransaction \subseteq pointsTransaction',
           \A t \in Points!Of(u) : pointsRequest'[t.request] = pointsRequest[t.request],
           pointsWallet'[u] = pointsWallet[u], pointsLost'[u] = pointsLost[u],
           \A h \in PointHandlers : PointsBusy(h, u)' <=> PointsBusy(h, u),
           \A h \in PointHandlers : PointsBusy(h, u) =>
               pointsWork'[h] = pointsWork[h] /\
                   pointsRequest'[pointsWork[h].id] = pointsRequest[pointsWork[h].id],
           \A n \in pointsNotified' : n.to = u /\ n.type = "POINT_APPROVAL" => n \in pointsNotified
    PROVE  PointsBooks(u)'
  <1>1. Points!Total(u)' = Points!Total(u) /\ PointsPaid(u)' = PointsPaid(u)
    BY DEF Points!Total, PointsPaid
  <1>2. ASSUME NEW h \in PointHandlers, PointsBusy(h, u) PROVE PointsAlong(h)'
    <2>1. /\ pointsWork'[h] = pointsWork[h]
          /\ pointsRequest'[pointsWork[h].id] = pointsRequest[pointsWork[h].id] /\ PointsAlong(h)
          /\ Points!OwnerOf(h) = u /\ Points!OwnerOf(h)' = u
          /\ Points!PointsOf(h)' = Points!PointsOf(h)
      BY <1>2 DEF PointsBooks, PointsBusy, Points!OwnerOf, Points!PointsOf
    <2>2. ASSUME NEW t \in pointsTransaction', t.request = pointsWork[h].id
            PROVE t \in pointsTransaction
      <3>1. t \in Points!Of(u)'
        BY <2>1, <2>2 DEF Points!Of, Points!OwnerOf
      <3> QED
        BY <3>1 DEF Points!Of
    <2> QED
      BY <1>1, <2>1, <2>2 DEF PointsAlong, PointsEven
  <1>3. \A n \in pointsNotified' : (n.to = u /\ n.type = "POINT_APPROVAL") =>
          \E t \in Points!Of(u)' : t.request = n.about
    BY DEF PointsBooks, PointsRecorded
  <1> QED
    BY <1>1, <1>2, <1>3 DEF PointsBooks, PointsRecorded, PointsEven

\* A step of a decision, about the books of its employee.
LEMMA PointsWork ==
    ASSUME PointsInv, PointsShape', NEW h \in PointHandlers, pointsWork[h] # Points!Idle,
           NEW w \in PointsDeciding \cup {Points!Idle},
           pointsWork' = [pointsWork EXCEPT ![h] = w], w # Points!Idle =>
               w.id = pointsWork[h].id, pointsCrossed' = pointsCrossed,
           NEW v \in Employees, v = Points!OwnerOf(h), NEW i \in PointRequests,
           i = pointsWork[h].id,
           \A j \in PointRequests \ {i} : pointsRequest'[j] = pointsRequest[j],
           pointsRequest'[i] # None, pointsRequest'[i].user = v,
           pointsTransaction \subseteq pointsTransaction',
           \A t \in pointsTransaction' \ pointsTransaction : t.request = i,
           \A u \in Employees \ {v} : pointsWallet'[u] = pointsWallet[u] /\
               pointsLost'[u] = pointsLost[u],
           \A n \in pointsNotified' \ pointsNotified : n.to = v,
           v \notin pointsCrossed /\ PointsAlong(h) /\ PointsBooks(v) =>
             PointsRecorded(v)' /\ (w # Points!Idle => PointsAlong(h)') /\
                 (w = Points!Idle => PointsEven(v)')
    PROVE  PointsInv'
  <1>1. /\ pointsRequest[i] # None /\ pointsRequest[i].user = v /\ PointsBusy(h, v)
        /\ pointsWork'[h] = w /\ \A g \in PointHandlers \ {h} : pointsWork'[g] = pointsWork[g]
    BY PointsFacts DEF PointsInv, PointsShape, Points!OwnerOf, PointsBusy
  <1>2. \A j \in PointRequests : pointsRequest[j] # None =>
          pointsRequest'[j] # None /\ pointsRequest'[j].user = pointsRequest[j].user
    BY <1>1
  <1>3. \A g \in PointHandlers : pointsWork'[g] # Points!Idle =>
          pointsWork[g] # Points!Idle /\ pointsWork'[g].id = pointsWork[g].id /\
              Points!OwnerOf(g)' = Points!OwnerOf(g)
    <2> TAKE g \in PointHandlers
    <2> HAVE pointsWork'[g] # Points!Idle
    <2>1. pointsWork[g] # Points!Idle /\ pointsWork'[g].id = pointsWork[g].id
      BY <1>1
    <2>2. pointsWork[g].id \in PointRequests /\ pointsRequest[pointsWork[g].id] # None
      BY <2>1, PointsFacts
    <2> QED
      BY <1>2, <2>1, <2>2 DEF Points!OwnerOf
  <1>4. \A g \in PointHandlers : pointsWork'[g] # Points!Idle =>
          pointsRequest'[pointsWork'[g].id] # None
    BY <1>2, <1>3, PointsFacts
  <1>5. ASSUME NEW t \in pointsTransaction' PROVE pointsRequest'[t.request] # None
    <2>1. CASE t \in pointsTransaction
      BY <1>2, <2>1, PointsFacts DEF PointsInv
    <2>2. CASE t \notin pointsTransaction
      BY <2>2
    <2> QED
      BY <2>1, <2>2
  <1>6. ASSUME NEW u \in Employees, u # v, PointsBooks(u) PROVE PointsBooks(u)'
    <2>1. Points!Of(u)' = Points!Of(u)
      <3>1. ASSUME NEW t \in pointsTransaction' PROVE t \in Points!Of(u)' <=> t \in Points!Of(u)
        <4>1. CASE t \in pointsTransaction
          BY <1>2, <4>1, PointsFacts DEF Points!Of
        <4>2. CASE t \notin pointsTransaction
          BY <1>6, <4>2 DEF Points!Of
        <4> QED
          BY <4>1, <4>2
      <3> QED
        BY <3>1 DEF Points!Of
    <2>2. \A t \in Points!Of(u) : pointsRequest'[t.request] = pointsRequest[t.request]
      BY <1>1, <1>6, PointsFacts DEF Points!Of
    <2>3. ASSUME NEW g \in PointHandlers PROVE PointsBusy(g, u)' <=> PointsBusy(g, u)
      <3>1. CASE g = h
        BY <1>1, <1>3, <1>6, <3>1 DEF PointsBusy
      <3>2. CASE g # h
        BY <1>1, <1>3, <3>2 DEF PointsBusy
      <3> QED
        BY <3>1, <3>2
    <2>4. ASSUME NEW g \in PointHandlers, PointsBusy(g, u)
            PROVE pointsWork'[g] = pointsWork[g] /\
                pointsRequest'[pointsWork[g].id] = pointsRequest[pointsWork[g].id]
      <3>1. g # h /\ pointsWork[g] # Points!Idle /\ pointsRequest[pointsWork[g].id].user = u /\
              pointsWork[g].id \in PointRequests
        BY <1>1, <1>6, <2>4, PointsFacts DEF PointsBusy, Points!OwnerOf
      <3> QED
        BY <1>1, <1>6, <3>1
    <2>5. \A n \in pointsNotified' : n.to = u /\ n.type = "POINT_APPROVAL" => n \in pointsNotified
      BY <1>6
    <2>6. pointsWallet'[u] = pointsWallet[u] /\ pointsLost'[u] = pointsLost[u]
      BY <1>6
    <2> QED
      BY <1>6, <2>1, <2>2, <2>3, <2>4, <2>5, <2>6, BooksKept
  <1>7. ASSUME v \notin pointsCrossed, PointsBooks(v) PROVE PointsBooks(v)'
    <2>1. PointsAlong(h) /\ \A g \in PointHandlers : PointsBusy(g, v) => g = h
      BY <1>1, <1>7 DEF PointsBooks
    <2>2. \A g \in PointHandlers : PointsBusy(g, v)' => g = h
      BY <1>3, <2>1 DEF PointsBusy
    <2>3. (\A g \in PointHandlers : ~PointsBusy(g, v)') => w = Points!Idle
      BY <1>1, <1>3 DEF PointsBusy
    <2>4. \A g \in PointHandlers : PointsBusy(g, v)' => PointsAlong(g)'
      <3>1. PointsBusy(h, v)' => w # Points!Idle
        BY <1>1 DEF PointsBusy
      <3> QED
        BY <1>7, <2>1, <2>2, <3>1
    <2> QED
      BY <1>7, <2>1, <2>2, <2>3, <2>4 DEF PointsBooks
  <1>8. \A u \in Employees \ pointsCrossed' : PointsBooks(u)'
    BY <1>6, <1>7 DEF PointsInv
  <1> QED
    BY <1>4, <1>5, <1>8 DEF PointsInv

LEMMA PointsAsk == ASSUME PointsInv, NEW i \in PointRequests, Points!RequestPoints(i)
    PROVE PointsInv'
  <1>1. PICK u \in Employees, l \in Leaders, points \in Amounts :
          /\ pointsRequest' = [pointsRequest EXCEPT ![i] =
                          [user |-> u, leader |-> l, points |-> points, status |-> "PENDING"]]
          /\ Points!Notify(l, "POINT_REQUEST", i) \/ UNCHANGED pointsNotified
    BY DEF Points!RequestPoints
  <1>2. pointsRequest[i] = None /\
          UNCHANGED <<pointsWallet, pointsTransaction, pointsWork, pointsLost, pointsCrossed>>
    BY DEF Points!RequestPoints
  <1> DEFINE new == [user |-> u, leader |-> l, points |-> points, status |-> "PENDING"]
  <1>3. new \in Points!Request /\ new # None
    BY ComponentsAssumption DEF Points!Request, Points!Statuses, Points!AmountsAssumption
  <1>4. pointsRequest'[i] # None /\
          \A j \in PointRequests \ {i} : pointsRequest'[j] = pointsRequest[j]
    BY <1>1, <1>3 DEF PointsInv, PointsShape
  <1>5. PointsShape'
    BY <1>1, <1>2, <1>3 DEF PointsInv, PointsShape
  <1>6. \A h \in PointHandlers : pointsWork[h] # Points!Idle =>
          pointsWork[h].id # i /\ pointsRequest'[pointsWork[h].id] = pointsRequest[pointsWork[h].id]
    BY <1>2, <1>4, PointsFacts
  <1>7. \A t \in pointsTransaction : t.request # i /\
          pointsRequest'[t.request] = pointsRequest[t.request]
    BY <1>2, <1>4, PointsFacts DEF PointsInv
  <1>8. \A n \in pointsNotified' : n.type = "POINT_APPROVAL" => n \in pointsNotified
    BY <1>1 DEF Points!Notify
  <1>9. ASSUME NEW e \in Employees, PointsBooks(e) PROVE PointsBooks(e)'
    <2>1. Points!Of(e)' = Points!Of(e)
      BY <1>2, <1>7 DEF Points!Of
    <2>2. \A h \in PointHandlers : PointsBusy(h, e)' <=> PointsBusy(h, e)
      BY <1>2, <1>6 DEF PointsBusy, Points!OwnerOf
    <2>3. \A h \in PointHandlers : PointsBusy(h, e) =>
            pointsWork'[h] = pointsWork[h] /\
                pointsRequest'[pointsWork[h].id] = pointsRequest[pointsWork[h].id]
      BY <1>2, <1>6 DEF PointsBusy
    <2>4. \A t \in Points!Of(e) : pointsRequest'[t.request] = pointsRequest[t.request]
      BY <1>7 DEF Points!Of
    <2> QED
      BY <1>2, <1>8, <1>9, <2>1, <2>2, <2>3, <2>4, BooksKept
  <1> QED
    BY <1>2, <1>4, <1>5, <1>6, <1>7, <1>9 DEF PointsInv

LEMMA PointsBegin ==
    ASSUME PointsInv, NEW h \in PointHandlers, NEW verdict \in {"APPROVED", "REJECTED"},
           Points!Begin(h, verdict) PROVE PointsInv'
  <1>1. PICK i \in PointRequests :
         /\ pointsRequest[i] # None /\ pointsRequest[i].status = "PENDING"
         /\ pointsWork' =
              [pointsWork EXCEPT ![h] =
                  [pc |-> "decide", id |-> i, verdict |-> verdict, balance |-> 0]]
         /\ pointsCrossed' = pointsCrossed \cup
              {u \in {pointsRequest[i].user} : \E g \in PointHandlers :
                  pointsWork[g] # Points!Idle /\ Points!OwnerOf(g) = u}
    BY DEF Points!Begin
  <1>2. pointsWork[h] = Points!Idle /\
          UNCHANGED <<pointsRequest, pointsWallet, pointsTransaction, pointsNotified, pointsLost>>
    BY DEF Points!Begin
  <1> DEFINE w == [pc |-> "decide", id |-> i, verdict |-> verdict, balance |-> 0]
  <1>3. w \in PointsDeciding /\ w.pc = "decide" /\ w.id = i /\ w # Points!Idle
    <2>1. w \in PointsDeciding /\ w.pc = "decide" /\ w.id = i
      BY DEF PointsDeciding
    <2> QED
      BY <2>1 DEF Points!Idle
  <1>4. pointsWork' = [pointsWork EXCEPT ![h] = w]
    BY <1>1
  <1> HIDE DEF w
  <1>5. pointsWork'[h] = w /\ \A g \in PointHandlers \ {h} : pointsWork'[g] = pointsWork[g]
    BY <1>4 DEF PointsInv, PointsShape
  <1>6. PICK v \in Employees : v = pointsRequest[i].user
    BY <1>1 DEF PointsInv, PointsShape, Points!Request
  <1>7. PointsShape'
    BY <1>1, <1>2, <1>3, <1>4, <1>6 DEF PointsInv, PointsShape
  <1>8. Points!OwnerOf(h)' = v /\
          \A g \in PointHandlers \ {h} : Points!OwnerOf(g)' = Points!OwnerOf(g)
    BY <1>2, <1>3, <1>5, <1>6 DEF Points!OwnerOf
  <1>9. pointsCrossed \subseteq pointsCrossed' /\
          (v \notin pointsCrossed' => \A g \in PointHandlers : ~PointsBusy(g, v))
    BY <1>1, <1>6 DEF PointsBusy
  <1>10. ASSUME NEW u \in Employees, u # v, PointsBooks(u) PROVE PointsBooks(u)'
    <2>1. Points!Of(u)' = Points!Of(u)
      BY <1>2 DEF Points!Of
    <2>2. \A g \in PointHandlers : PointsBusy(g, u)' <=> PointsBusy(g, u)
      BY <1>2, <1>5, <1>8, <1>10 DEF PointsBusy
    <2>3. \A g \in PointHandlers : PointsBusy(g, u) =>
            pointsWork'[g] = pointsWork[g] /\
                pointsRequest'[pointsWork[g].id] = pointsRequest[pointsWork[g].id]
      BY <1>2, <1>5 DEF PointsBusy
    <2> QED
      BY <1>2, <1>10, <2>1, <2>2, <2>3, BooksKept
  <1>11. ASSUME v \notin pointsCrossed', PointsBooks(v) PROVE PointsBooks(v)'
    <2>1. \A g \in PointHandlers : PointsBusy(g, v)' => g = h
      BY <1>5, <1>8, <1>9, <1>11 DEF PointsBusy
    <2>2. Points!Of(v)' = Points!Of(v) /\ Points!Total(v)' = Points!Total(v) /\
            PointsPaid(v)' = PointsPaid(v) /\ pointsLost'[v] = pointsLost[v]
      BY <1>2 DEF Points!Of, Points!Total, PointsPaid
    <2>3. PointsEven(v)
      BY <1>9, <1>11 DEF PointsBooks
    <2>4. PointsAlong(h)'
      BY <1>1, <1>2, <1>3, <1>5, <1>8, <2>2, <2>3 DEF PointsAlong, PointsEven
    <2>5. PointsBusy(h, v)'
      BY <1>3, <1>5, <1>8 DEF PointsBusy
    <2> QED
      BY <1>2, <1>11, <2>1, <2>2, <2>4, <2>5 DEF PointsBooks, PointsRecorded
  <1>12. \A u \in Employees \ pointsCrossed' : PointsBooks(u)'
    BY <1>9, <1>10, <1>11 DEF PointsInv
  <1>13. \A g \in PointHandlers : pointsWork'[g] # Points!Idle =>
           pointsRequest'[pointsWork'[g].id] # None
    BY <1>1, <1>2, <1>3, <1>5 DEF PointsInv
  <1> QED
    BY <1>2, <1>7, <1>12, <1>13 DEF PointsInv

LEMMA PointsDecide == ASSUME PointsInv, NEW h \in PointHandlers, Points!Decide(h) PROVE PointsInv'
  <1>1. pointsWork[h] # Points!Idle /\ pointsWork[h].pc = "decide" /\
          UNCHANGED <<pointsWallet, pointsTransaction, pointsNotified, pointsLost, pointsCrossed>>
    BY DEF Points!Decide
  <1>2. PICK v \in Employees, i \in PointRequests : v = Points!OwnerOf(h) /\ i = pointsWork[h].id
    BY <1>1, PointsFacts
  <1>3. pointsWork[h] \in PointsDeciding /\ pointsRequest[i] \in Points!Request /\
          pointsRequest[i].user = v /\ pointsWork[h].verdict \in Points!Statuses
    BY <1>1, <1>2, PointsFacts DEF PointsDeciding, Points!Statuses, Points!OwnerOf
  <1> DEFINE w == [pointsWork[h] EXCEPT !.pc = IF pointsWork[h].verdict = "APPROVED" THEN "read"
        ELSE "tell"]
             new == [pointsRequest[i] EXCEPT !.status = pointsWork[h].verdict]
  <1>4. /\ w \in PointsDeciding /\ w.id = i /\ w.verdict = pointsWork[h].verdict
        /\ w.pc = IF pointsWork[h].verdict = "APPROVED" THEN "read" ELSE "tell"
    BY <1>2, <1>3 DEF PointsDeciding
  <1>5. new \in Points!Request /\ new # None /\ new.user = v /\
          new.status = pointsWork[h].verdict /\ new.points = pointsRequest[i].points
    BY <1>3, ComponentsAssumption DEF Points!Request, Points!AmountsAssumption
  <1>6. pointsWork' = [pointsWork EXCEPT ![h] = w] /\
          pointsRequest' = [pointsRequest EXCEPT ![i] = new]
    BY <1>2 DEF Points!Decide, Points!GoTo
  <1> HIDE DEF w, new
  <1>7. pointsRequest'[i] = new /\ pointsWork'[h] = w /\
          \A j \in PointRequests \ {i} : pointsRequest'[j] = pointsRequest[j]
    BY <1>6 DEF PointsInv, PointsShape
  <1>8. PointsShape'
    BY <1>1, <1>4, <1>5, <1>6 DEF PointsInv, PointsShape
  <1>9. Points!OwnerOf(h)' = v /\ Points!PointsOf(h)' = Points!PointsOf(h) /\ w # Points!Idle
    BY <1>2, <1>4, <1>5, <1>7 DEF Points!OwnerOf, Points!PointsOf, Points!Idle
  <1>10. ASSUME PointsAlong(h), PointsBooks(v) PROVE PointsAlong(h)' /\ PointsRecorded(v)'
    <2>1. pointsRequest[i].status = "PENDING" /\ PointsEven(v)
      BY <1>1, <1>2, <1>10 DEF PointsAlong
    <2>2. ASSUME NEW t \in pointsTransaction PROVE t.request # i
      <3>1. t.request = i => t \in Points!Of(v)
        BY <1>3 DEF Points!Of
      <3> QED
        BY <1>10, <2>1, <3>1 DEF PointsBooks, PointsRecorded
    <2>3. \A t \in pointsTransaction : pointsRequest'[t.request] = pointsRequest[t.request]
      BY <1>7, <2>2, PointsFacts
    <2>4. Points!Of(v)' = Points!Of(v)
      BY <1>1, <2>3 DEF Points!Of
    <2>5. PointsEven(v)'
      BY <1>1, <2>1, <2>4 DEF PointsEven, Points!Total, PointsPaid
    <2>6. PointsAlong(h)'
      <3>1. CASE pointsWork[h].verdict = "APPROVED"
        BY <1>1, <1>4, <1>5, <1>7, <1>9, <2>1, <2>2, <2>5, <3>1 DEF PointsAlong
      <3>2. CASE pointsWork[h].verdict # "APPROVED"
        BY <1>1, <1>4, <1>5, <1>7, <1>9, <2>1, <2>2, <2>5, <3>2 DEF PointsAlong
      <3> QED
        BY <3>1, <3>2
    <2> QED
      BY <1>1, <1>10, <2>3, <2>4, <2>6 DEF PointsBooks, PointsRecorded, Points!Of
  <1>11. pointsRequest'[i] # None /\ pointsRequest'[i].user = v
    BY <1>5, <1>7
  <1> QED
    BY <1>1, <1>2, <1>4, <1>6, <1>7, <1>8, <1>9, <1>10, <1>11, PointsWork

LEMMA PointsRead == ASSUME PointsInv, NEW h \in PointHandlers, Points!ReadWallet(h) PROVE PointsInv'
  <1>1. /\ pointsWork[h] # Points!Idle /\ pointsWork[h].pc = "read"
        /\ UNCHANGED <<pointsRequest, pointsWallet, pointsTransaction, pointsNotified,
             pointsLost, pointsCrossed>>
        /\ pointsWork' =
             [pointsWork EXCEPT ![h].pc = "ledger",
                 ![h].balance = Points!Total(Points!OwnerOf(h)) + Points!PointsOf(h)]
    BY DEF Points!ReadWallet
  <1>2. PICK v \in Employees, i \in PointRequests : v = Points!OwnerOf(h) /\ i = pointsWork[h].id
    BY <1>1, PointsFacts
  <1>3. /\ pointsWork[h] \in PointsDeciding /\ pointsRequest[i] # None /\ pointsRequest[i].user = v
        /\ Points!Total(v) + Points!PointsOf(h) \in Int
    BY <1>1, <1>2, PointsFacts DEF Points!OwnerOf
  <1> DEFINE w == [pointsWork[h] EXCEPT !.pc = "ledger",
        !.balance = Points!Total(Points!OwnerOf(h)) + Points!PointsOf(h)]
  <1>4. w \in PointsDeciding /\ w.id = i /\ w.verdict = pointsWork[h].verdict /\
          w.pc = "ledger" /\ w.balance = Points!Total(v) + Points!PointsOf(h)
    BY <1>2, <1>3 DEF PointsDeciding
  <1>5. pointsWork' = [pointsWork EXCEPT ![h] = w]
    BY <1>1
  <1> HIDE DEF w
  <1>6. pointsWork'[h] = w
    BY <1>5 DEF PointsInv, PointsShape
  <1>7. PointsShape'
    BY <1>1, <1>4, <1>5 DEF PointsInv, PointsShape
  <1>8. Points!OwnerOf(h)' = v /\ Points!PointsOf(h)' = Points!PointsOf(h)
    BY <1>1, <1>2, <1>4, <1>6 DEF Points!OwnerOf, Points!PointsOf
  <1>9. Points!Of(v)' = Points!Of(v) /\ Points!Total(v)' = Points!Total(v) /\
          PointsPaid(v)' = PointsPaid(v) /\ pointsLost'[v] = pointsLost[v]
    BY <1>1 DEF Points!Of, Points!Total, PointsPaid
  <1>10. PointsAlong(h) => PointsAlong(h)'
    BY <1>1, <1>2, <1>4, <1>6, <1>8, <1>9 DEF PointsAlong, PointsEven
  <1>11. w # Points!Idle
    BY <1>4 DEF Points!Idle
  <1>12. PointsBooks(v) => PointsRecorded(v)'
    BY <1>1, <1>9 DEF PointsBooks, PointsRecorded
  <1> QED
    <2>1. /\ \A j \in PointRequests \ {i} : pointsRequest'[j] = pointsRequest[j]
          /\ pointsRequest'[i] # None /\ pointsRequest'[i].user = v
          /\ \A u \in Employees \ {v} : pointsWallet'[u] = pointsWallet[u] /\
               pointsLost'[u] = pointsLost[u]
          /\ pointsTransaction \subseteq pointsTransaction' /\
               \A t \in pointsTransaction' \ pointsTransaction : t.request = i
          /\ \A n \in pointsNotified' \ pointsNotified : n.to = v
          /\ pointsCrossed' = pointsCrossed /\ pointsWork[h] # Points!Idle
          /\ pointsWork' = [pointsWork EXCEPT ![h] = w]
      BY <1>1, <1>3, <1>5
    <2>2. w \in PointsDeciding \cup {Points!Idle}
      BY <1>4
    <2>3. v \notin pointsCrossed /\ PointsAlong(h) /\ PointsBooks(v) =>
            PointsRecorded(v)' /\ (w # Points!Idle => PointsAlong(h)') /\
                (w = Points!Idle => PointsEven(v)')
      BY <1>10, <1>11, <1>12
    <2> QED
      BY <1>2, <1>4, <1>7, <2>1, <2>2, <2>3, PointsWork

LEMMA PointsCreate == ASSUME PointsInv, NEW h \in PointHandlers, Points!CreateTransaction(h)
    PROVE PointsInv'
  <1> DEFINE new == [request |-> pointsWork[h].id, by |-> h, points |-> Points!PointsOf(h),
        balanceAfter |-> pointsWork[h].balance]
             w == [pointsWork[h] EXCEPT !.pc = "wallet"]
  <1>1. /\ pointsWork[h] # Points!Idle /\ pointsWork[h].pc = "ledger"
        /\ pointsTransaction' = pointsTransaction \cup {new}
        /\ UNCHANGED <<pointsRequest, pointsWallet, pointsNotified, pointsLost, pointsCrossed>>
        /\ pointsWork' = [pointsWork EXCEPT ![h] = w]
    BY DEF Points!CreateTransaction, Points!GoTo
  <1>2. PICK v \in Employees, i \in PointRequests : v = Points!OwnerOf(h) /\ i = pointsWork[h].id
    BY <1>1, PointsFacts
  <1>3. /\ pointsWork[h] \in PointsDeciding /\ pointsRequest[i] # None
        /\ pointsRequest[i] \in Points!Request /\ pointsRequest[i].user = v
        /\ pointsWork[h].balance \in Int /\ Points!PointsOf(h) \in Amounts
        /\ Points!PointsOf(h) \in Int
    BY <1>1, <1>2, PointsFacts DEF Points!OwnerOf, PointsDeciding, Points!PointsOf, Points!Request
  <1>4. w \in PointsDeciding /\ w.id = i /\ w.verdict = pointsWork[h].verdict /\
          w.pc = "wallet" /\ w.balance = pointsWork[h].balance
    BY <1>2, <1>3 DEF PointsDeciding
  <1>5. new \in Points!Ledger /\ new.request = i /\ PointsWorth[new] = Points!PointsOf(h)
    <2>1. new \in Points!Ledger /\ new.request = i /\ new.points = Points!PointsOf(h)
      BY <1>2, <1>3 DEF Points!Ledger
    <2> HIDE DEF new
    <2> QED
      BY <2>1 DEF PointsWorth
  <1> HIDE DEF w, new
  <1>6. pointsWork'[h] = w
    BY <1>1 DEF PointsInv, PointsShape
  <1>7. PointsShape'
    <2>1. IsFiniteSet(pointsTransaction')
      BY <1>1, FS_AddElement DEF PointsInv, PointsShape
    <2> QED
      BY <1>1, <1>4, <1>5, <2>1 DEF PointsInv, PointsShape
  <1>8. Points!OwnerOf(h)' = v /\ Points!PointsOf(h)' = Points!PointsOf(h)
    BY <1>1, <1>2, <1>4, <1>6 DEF Points!OwnerOf, Points!PointsOf
  <1>9. Points!Total(v)' = Points!Total(v) /\ pointsLost'[v] = pointsLost[v]
    BY <1>1 DEF Points!Total
  <1>10. Points!Of(v)' = Points!Of(v) \cup {new}
    BY <1>1, <1>3, <1>5 DEF Points!Of
  <1>11. w # Points!Idle
    BY <1>4 DEF Points!Idle
  <1>12. ASSUME PointsAlong(h), PointsBooks(v)
         PROVE  PointsAlong(h)' /\ PointsRecorded(v)'
    <2>1. /\ pointsRequest[i].status = "APPROVED" /\ \A t \in pointsTransaction : t.request # i
          /\ pointsWork[h].balance = Points!Total(v) + Points!PointsOf(h)
          /\ Points!Total(v) = PointsPaid(v) - pointsLost[v]
      BY <1>1, <1>2, <1>12 DEF PointsAlong, PointsEven
    <2>2. new \notin Points!Of(v)
      BY <1>5, <2>1 DEF Points!Of
    <2>3. PointsPaid(v)' = PointsPaid(v) + Points!PointsOf(h)
      <3>1. IsFiniteSet(Points!Of(v)) /\ \A t \in Points!Of(v) \cup {new} : PointsWorth[t] \in Int
        BY <1>3, <1>5, PointsFacts, ComponentsAssumption DEF PointsWorth, Points!Ledger,
        Points!AmountsAssumption
      <3>2. SumFunctionOnSet(PointsWorth, Points!Of(v) \cup {new}) =
              SumFunctionOnSet(PointsWorth, Points!Of(v)) + PointsWorth[new]
        BY <2>2, <3>1, SumAdded
      <3> QED
        BY <1>5, <1>10, <3>2 DEF PointsPaid
    <2>4. PointsPaid(v) \in Int /\ Points!Total(v) \in Int /\ pointsLost[v] \in Int
      BY PointsFacts
    <2>5. Points!Total(v) + Points!PointsOf(h) = PointsPaid(v)' - pointsLost[v]
      BY <1>3, <2>1, <2>3, <2>4
    <2>6. new \in pointsTransaction'
      BY <1>1
    <2>7. PointsAlong(h)'
      BY <1>4, <1>5, <1>6, <1>8, <1>9, <2>1, <2>5, <2>6 DEF PointsAlong, PointsEven
    <2>8. \A t \in Points!Of(v)' : pointsRequest'[t.request].status = "APPROVED"
      BY <1>1, <1>5, <1>10, <1>12, <2>1 DEF PointsBooks, PointsRecorded
    <2>9. \A s, t \in Points!Of(v)' : s.request = t.request => s = t
      BY <1>5, <1>10, <1>12, <2>1 DEF PointsBooks, PointsRecorded, Points!Of
    <2>10. \A n \in pointsNotified' : (n.to = v /\ n.type = "POINT_APPROVAL") =>
             \E t \in Points!Of(v)' : t.request = n.about
      BY <1>1, <1>10, <1>12 DEF PointsBooks, PointsRecorded
    <2> QED
      BY <2>7, <2>8, <2>9, <2>10 DEF PointsRecorded
  <1>13. pointsTransaction \subseteq pointsTransaction' /\
           \A t \in pointsTransaction' \ pointsTransaction : t.request = i
    BY <1>1, <1>5
  <1> QED
    BY <1>1, <1>2, <1>3, <1>4, <1>7, <1>11, <1>12, <1>13, PointsWork

LEMMA PointsWrite == ASSUME PointsInv, NEW h \in PointHandlers, Points!WriteWallet(h)
    PROVE PointsInv'
  <1> DEFINE w == [pointsWork[h] EXCEPT !.pc = "tell"]
  <1>1. /\ pointsWork[h] # Points!Idle /\ pointsWork[h].pc = "wallet"
        /\ UNCHANGED <<pointsRequest, pointsTransaction, pointsNotified, pointsLost, pointsCrossed>>
        /\ pointsWallet' = [pointsWallet EXCEPT ![Points!OwnerOf(h)] =
                    IF pointsWallet[Points!OwnerOf(h)] = None THEN Points!PointsOf(h)
                        ELSE pointsWork[h].balance]
        /\ pointsWork' = [pointsWork EXCEPT ![h] = w]
    BY DEF Points!WriteWallet, Points!GoTo
  <1>2. PICK v \in Employees, i \in PointRequests : v = Points!OwnerOf(h) /\ i = pointsWork[h].id
    BY <1>1, PointsFacts
  <1>3. /\ pointsWork[h] \in PointsDeciding /\ pointsRequest[i] # None /\ pointsRequest[i].user = v
        /\ pointsWork[h].balance \in Int /\ Points!PointsOf(h) \in Int
    BY <1>1, <1>2, PointsFacts DEF Points!OwnerOf, PointsDeciding
  <1>4. w \in PointsDeciding /\ w.id = i /\ w.verdict = pointsWork[h].verdict /\ w.pc = "tell"
    BY <1>2, <1>3 DEF PointsDeciding
  <1> HIDE DEF w
  <1>5. pointsWork'[h] = w
    BY <1>1 DEF PointsInv, PointsShape
  <1>6. pointsWallet'[v] =
          (IF pointsWallet[v] = None THEN Points!PointsOf(h) ELSE pointsWork[h].balance) /\
              \A u \in Employees \ {v} : pointsWallet'[u] = pointsWallet[u]
    BY <1>1, <1>2 DEF PointsInv, PointsShape
  <1>7. pointsWallet'[v] \in Int /\ pointsWallet'[v] # None
    BY <1>3, <1>6, ComponentsAssumption DEF Points!AmountsAssumption
  <1>8. PointsShape'
    BY <1>1, <1>2, <1>3, <1>4 DEF PointsInv, PointsShape
  <1>9. Points!OwnerOf(h)' = v /\ Points!Of(v)' = Points!Of(v) /\
          PointsPaid(v)' = PointsPaid(v) /\ pointsLost'[v] = pointsLost[v]
    BY <1>1, <1>2, <1>4, <1>5 DEF Points!OwnerOf, Points!Of, PointsPaid
  <1>10. w # Points!Idle
    BY <1>4 DEF Points!Idle
  <1>11. ASSUME PointsAlong(h) PROVE PointsAlong(h)'
    <2>1. pointsWork[h].balance = Points!Total(v) + Points!PointsOf(h) /\
            Points!Total(v) + Points!PointsOf(h) = PointsPaid(v) - pointsLost[v]
      BY <1>1, <1>2, <1>11 DEF PointsAlong, PointsEven
    <2>2. Points!Total(v)' = PointsPaid(v) - pointsLost[v]
      BY <1>3, <1>6, <1>7, <2>1 DEF Points!Total
    <2>3. \E t \in pointsTransaction : t.request = i
      BY <1>1, <1>2, <1>11 DEF PointsAlong, PointsEven
    <2> QED
      BY <1>1, <1>4, <1>5, <1>9, <2>2, <2>3 DEF PointsAlong, PointsEven
  <1>12. PointsBooks(v) => PointsRecorded(v)'
    BY <1>1, <1>9 DEF PointsBooks, PointsRecorded
  <1> QED
    <2>1. /\ \A j \in PointRequests \ {i} : pointsRequest'[j] = pointsRequest[j]
          /\ pointsRequest'[i] # None /\ pointsRequest'[i].user = v
          /\ \A u \in Employees \ {v} : pointsWallet'[u] = pointsWallet[u] /\
               pointsLost'[u] = pointsLost[u]
          /\ pointsTransaction \subseteq pointsTransaction' /\
               \A t \in pointsTransaction' \ pointsTransaction : t.request = i
          /\ \A n \in pointsNotified' \ pointsNotified : n.to = v
          /\ pointsCrossed' = pointsCrossed /\ pointsWork[h] # Points!Idle
          /\ pointsWork' = [pointsWork EXCEPT ![h] = w]
      BY <1>1, <1>3, <1>6
    <2>2. w \in PointsDeciding \cup {Points!Idle}
      BY <1>4
    <2>3. v \notin pointsCrossed /\ PointsAlong(h) /\ PointsBooks(v) =>
            PointsRecorded(v)' /\ (w # Points!Idle => PointsAlong(h)') /\
                (w = Points!Idle => PointsEven(v)')
      BY <1>10, <1>11, <1>12
    <2> QED
      BY <1>2, <1>4, <1>8, <2>1, <2>2, <2>3, PointsWork

LEMMA PointsTell == ASSUME PointsInv, NEW h \in PointHandlers, Points!Tell(h) PROVE PointsInv'
  <1>1. /\ pointsWork[h] # Points!Idle /\ pointsWork[h].pc = "tell"
        /\ UNCHANGED <<pointsRequest, pointsWallet, pointsTransaction, pointsLost, pointsCrossed>>
        /\ pointsNotified' = pointsNotified \cup
             {[to |-> Points!OwnerOf(h),
               type |-> IF pointsWork[h].verdict = "APPROVED" THEN "POINT_APPROVAL"
                   ELSE "POINT_REJECTION",
               about |-> pointsWork[h].id]}
        /\ pointsWork' = [pointsWork EXCEPT ![h] = Points!Idle]
    BY DEF Points!Tell, Points!Notify, Points!Finish
  <1>2. PICK v \in Employees, i \in PointRequests : v = Points!OwnerOf(h) /\ i = pointsWork[h].id
    BY <1>1, PointsFacts
  <1>3. pointsRequest[i] # None /\ pointsRequest[i].user = v
    BY <1>1, <1>2, PointsFacts DEF Points!OwnerOf
  <1>4. PointsShape'
    BY <1>1 DEF PointsInv, PointsShape
  <1>5. Points!Of(v)' = Points!Of(v) /\ Points!Total(v)' = Points!Total(v) /\
          PointsPaid(v)' = PointsPaid(v) /\ pointsLost'[v] = pointsLost[v]
    BY <1>1 DEF Points!Of, Points!Total, PointsPaid
  <1>6. ASSUME PointsAlong(h), PointsBooks(v)
        PROVE  PointsEven(v)' /\ PointsRecorded(v)'
    <2>1. PointsEven(v) /\
            (pointsWork[h].verdict = "APPROVED" => \E t \in pointsTransaction : t.request = i)
      BY <1>1, <1>2, <1>6 DEF PointsAlong
    <2>2. \A t \in pointsTransaction : t.request = i => t \in Points!Of(v)
      BY <1>3 DEF Points!Of
    <2>3. \A n \in pointsNotified : (n.to = v /\ n.type = "POINT_APPROVAL") =>
            \E t \in Points!Of(v) : t.request = n.about
      BY <1>6 DEF PointsBooks, PointsRecorded
    <2>4. \A n \in pointsNotified' \ pointsNotified : n.about = i /\
            (n.type = "POINT_APPROVAL" => pointsWork[h].verdict = "APPROVED")
      BY <1>1, <1>2
    <2>5. \A n \in pointsNotified' : (n.to = v /\ n.type = "POINT_APPROVAL") =>
            \E t \in Points!Of(v) : t.request = n.about
      BY <2>1, <2>2, <2>3, <2>4
    <2> QED
      BY <1>1, <1>5, <1>6, <2>1, <2>5 DEF PointsBooks, PointsRecorded, PointsEven
  <1>7. \A n \in pointsNotified' \ pointsNotified : n.to = v
    BY <1>1, <1>2
  <1> QED
    BY <1>1, <1>2, <1>3, <1>4, <1>6, <1>7, PointsWork

LEMMA PointsFail == ASSUME PointsInv, NEW h \in PointHandlers, Points!Fail(h) PROVE PointsInv'
  <1>1. /\ pointsWork[h] # Points!Idle
        /\ UNCHANGED <<pointsRequest, pointsWallet, pointsTransaction, pointsNotified,
             pointsCrossed>>
        /\ pointsLost' = IF pointsWork[h].pc = "wallet"
             THEN [pointsLost EXCEPT ![Points!OwnerOf(h)] =
                 pointsLost[Points!OwnerOf(h)] + Points!PointsOf(h)] ELSE pointsLost
        /\ pointsWork' = [pointsWork EXCEPT ![h] = Points!Idle]
    BY DEF Points!Fail, Points!Finish
  <1>2. PICK v \in Employees, i \in PointRequests : v = Points!OwnerOf(h) /\ i = pointsWork[h].id
    BY <1>1, PointsFacts
  <1>3. /\ pointsRequest[i] # None /\ pointsRequest[i].user = v /\ Points!PointsOf(h) \in Int
        /\ pointsLost[v] \in Int /\ Points!Total(v) \in Int /\ PointsPaid(v) \in Int
    BY <1>1, <1>2, PointsFacts DEF Points!OwnerOf
  <1>4. /\ pointsLost'[v] =
             (IF pointsWork[h].pc = "wallet" THEN pointsLost[v] + Points!PointsOf(h)
                 ELSE pointsLost[v])
        /\ \A u \in Employees \ {v} : pointsLost'[u] = pointsLost[u]
    BY <1>1, <1>2 DEF PointsInv, PointsShape
  <1>5. PointsShape'
    BY <1>1, <1>2, <1>3 DEF PointsInv, PointsShape
  <1>6. Points!Of(v)' = Points!Of(v) /\ Points!Total(v)' = Points!Total(v) /\
          PointsPaid(v)' = PointsPaid(v)
    BY <1>1 DEF Points!Of, Points!Total, PointsPaid
  <1>7. ASSUME PointsAlong(h) PROVE PointsEven(v)'
    BY <1>2, <1>3, <1>4, <1>6, <1>7 DEF PointsAlong, PointsEven
  <1>8. PointsBooks(v) => PointsRecorded(v)'
    BY <1>1, <1>6 DEF PointsBooks, PointsRecorded
  <1> QED
    BY <1>1, <1>2, <1>3, <1>4, <1>5, <1>7, <1>8, PointsWork

LEMMA PointsStep == PointsInv /\ [Points!Next]_(Points!vars) => PointsInv'
  <1> SUFFICES ASSUME PointsInv, [Points!Next]_(Points!vars) PROVE PointsInv'
    OBVIOUS
  <1>1. CASE UNCHANGED Points!vars
    <2>1. UNCHANGED <<pointsRequest, pointsWallet, pointsTransaction, pointsWork, pointsNotified,
            pointsLost, pointsCrossed>>
      BY <1>1 DEF Points!vars
    <2>2. ASSUME NEW u PROVE Points!Of(u)' = Points!Of(u) /\
            Points!Total(u)' = Points!Total(u) /\ PointsPaid(u)' = PointsPaid(u)
      BY <2>1 DEF Points!Of, Points!Total, PointsPaid
    <2>3. ASSUME NEW u PROVE PointsEven(u)' = PointsEven(u) /\
            PointsRecorded(u)' = PointsRecorded(u)
      BY <2>1, <2>2 DEF PointsEven, PointsRecorded
    <2>4. ASSUME NEW h, PointsAlong(h) PROVE PointsAlong(h)'
      BY <2>1, <2>2, <2>3, <2>4 DEF PointsAlong, Points!OwnerOf, Points!PointsOf
    <2>5. ASSUME NEW u, PointsBooks(u) PROVE PointsBooks(u)'
      BY <2>1, <2>3, <2>4, <2>5 DEF PointsBooks, PointsBusy, Points!OwnerOf
    <2> QED
      BY <2>1, <2>5 DEF PointsInv, PointsShape
  <1>2. CASE Points!Next
    BY <1>2, PointsAsk, PointsBegin, PointsDecide, PointsRead, PointsCreate, PointsWrite,
    PointsTell, PointsFail DEF Points!Next
  <1> QED
    BY <1>1, <1>2

LEMMA PointsHolds == PointsInv => Points!TypeOK /\ Points!WalletIsLedger
  <1> SUFFICES ASSUME PointsInv PROVE Points!TypeOK /\ Points!WalletIsLedger
    OBVIOUS
  <1>1. Points!TypeOK
    BY DEF PointsInv, PointsShape, Points!TypeOK, PointsDeciding
  <1>2. ASSUME NEW u \in Employees \ pointsCrossed, ~Points!Settling(u)
        PROVE  Points!Total(u) = Points!PointsIn(Points!Of(u)) - pointsLost[u]
    <2>1. PointsBooks(u)
      BY DEF PointsInv
    <2>2. \A h \in PointHandlers : PointsBusy(h, u) => pointsWork[h].pc # "wallet"
      BY <1>2 DEF Points!Settling, PointsBusy
    <2>3. Points!Total(u) = PointsPaid(u) - pointsLost[u]
      BY <2>1, <2>2 DEF PointsBooks, PointsAlong, PointsEven, PointsBusy
    <2>4. IsFiniteSet(Points!Of(u)) /\ Points!Of(u) \in SUBSET Points!Ledger
      BY PointsFacts
    <2>5. Points!PointsIn(Points!Of(u)) = PointsPaid(u)
      BY <2>4, LedgerSum DEF PointsPaid
    <2> QED
      BY <2>3, <2>5
  <1>3. \A u \in Employees \ pointsCrossed : PointsBooks(u)
    BY DEF PointsInv
  <1> QED
    BY <1>1, <1>2, <1>3 DEF Points!WalletIsLedger, PointsBooks, PointsRecorded
-----------------------------------------------------------------------------
(* The posts of the birthdays.                                            *)

LEMMA BirthdayCount == \A S : Birthdays!Cardinality(S) = Cardinality(S)
  BY DEF Birthdays!Cardinality, Cardinality


BirthdayLooking == [pc : {"look"}, day : 1 .. LastDay, left : SUBSET Celebrants,
    all : SUBSET Celebrants]
BirthdayCreating ==
    [pc : {"create"}, day : 1 .. LastDay, left : SUBSET Celebrants, all : SUBSET Celebrants,
     user : Celebrants]

BirthdayShape ==
    /\ birthdaysToday \in 1 .. LastDay /\ birthdaysActive \subseteq Celebrants
    /\ birthdaysAuthor \in BOOLEAN
    /\ birthdaysPost \in [BirthdayPosts -> Birthdays!Post \cup {None}]
    /\ birthdaysRun \in [BirthdayRuns -> BirthdayLooking \cup BirthdayCreating \cup
         {Birthdays!Idle}]
    /\ birthdaysDone \subseteq Celebrants /\ birthdaysCrossed \in BOOLEAN

\* The post of the birthday is there, or was.
BirthdayGreeted(u) == \E p \in BirthdayPosts : birthdaysPost[p] # None /\
    birthdaysPost[p].of = u /\ birthdaysPost[p].day = birthdaysToday

\* A run that no other overlaps has greeted those of the day it has gone past.
BirthdayRun(r) ==
    birthdaysRun[r] # Birthdays!Idle =>
        /\ birthdaysRun[r].day = birthdaysToday
        /\ birthdaysRun[r].left \subseteq birthdaysRun[r].all
        /\ \A u \in birthdaysRun[r].all : BirthdayOf[u] = birthdaysToday
        /\ birthdaysRun[r].pc = "look" =>
             \A u \in birthdaysRun[r].all \ birthdaysRun[r].left : BirthdayGreeted(u)
        /\ birthdaysRun[r].pc = "create" =>
             /\ birthdaysRun[r].user \in birthdaysRun[r].all
             /\ \A u \in birthdaysRun[r].all \ (birthdaysRun[r].left \cup
                  {birthdaysRun[r].user}) : BirthdayGreeted(u)
             /\ \A p \in BirthdayPosts :
                  (birthdaysPost[p] # None /\ birthdaysPost[p].of = birthdaysRun[r].user /\
                      birthdaysPost[p].day = birthdaysToday)
                                    => birthdaysPost[p].deleted

BirthdayOnePost ==
    /\ \A p \in BirthdayPosts : birthdaysPost[p] # None /\ ~birthdaysPost[p].deleted =>
         BirthdayOf[birthdaysPost[p].of] = birthdaysPost[p].day
    /\ \A p, q \in BirthdayPosts :
         (/\ birthdaysPost[p] # None /\ birthdaysPost[q] # None /\ ~birthdaysPost[p].deleted /\
               ~birthdaysPost[q].deleted
          /\ birthdaysPost[p].of = birthdaysPost[q].of /\
               birthdaysPost[p].day = birthdaysPost[q].day) => p = q

BirthdaysInv ==
    /\ BirthdayShape
    /\ ~birthdaysCrossed =>
         /\ BirthdayOnePost
         /\ \A q, r \in BirthdayRuns : birthdaysRun[q] # Birthdays!Idle /\
              birthdaysRun[r] # Birthdays!Idle => q = r
         /\ \A r \in BirthdayRuns : BirthdayRun(r)
         /\ \A u \in birthdaysDone : BirthdayGreeted(u)

LEMMA BirthdayInit == Birthdays!Init => BirthdaysInv
  <1> SUFFICES ASSUME Birthdays!Init PROVE BirthdaysInv
    OBVIOUS
  <1>1. BirthdayShape
    <2>1. 1 \in 1 .. LastDay
      BY ComponentsAssumption DEF Birthdays!BirthdaysAssumption
    <2>2. birthdaysAuthor \in BOOLEAN /\ birthdaysCrossed \in BOOLEAN
      BY DEF Birthdays!Init
    <2> QED
      BY <2>1, <2>2 DEF Birthdays!Init, BirthdayShape
  <1> QED
    BY <1>1 DEF Birthdays!Init, BirthdaysInv, BirthdayOnePost, BirthdayRun

\* A run that looks, creates or ends, with the posts as they were.
LEMMA BirthdayWork ==
    ASSUME BirthdaysInv, NEW r \in BirthdayRuns,
           NEW w \in BirthdayLooking \cup BirthdayCreating \cup {Birthdays!Idle},
           birthdaysRun' = [birthdaysRun EXCEPT ![r] = w],
           UNCHANGED <<birthdaysToday, birthdaysActive, birthdaysAuthor, birthdaysPost>>,
           birthdaysCrossed' \in BOOLEAN, birthdaysDone' \subseteq Celebrants,
           ~birthdaysCrossed' =>
             /\ ~birthdaysCrossed
             /\ \A q \in BirthdayRuns : birthdaysRun[q] # Birthdays!Idle => q = r
             /\ \A u \in birthdaysDone' : BirthdayGreeted(u)
             /\ w # Birthdays!Idle => BirthdayRun(r)'
    PROVE  BirthdaysInv'
  <1>1. BirthdayShape'
    BY DEF BirthdaysInv, BirthdayShape
  <1>2. ASSUME ~birthdaysCrossed' PROVE BirthdayOnePost'
    BY <1>2 DEF BirthdaysInv, BirthdayOnePost
  <1>3. ASSUME ~birthdaysCrossed', NEW q \in BirthdayRuns, birthdaysRun'[q] # Birthdays!Idle
          PROVE q = r
    BY <1>3 DEF BirthdaysInv, BirthdayShape
  <1>4. ASSUME ~birthdaysCrossed', NEW q \in BirthdayRuns PROVE BirthdayRun(q)'
    BY <1>3, <1>4 DEF BirthdaysInv, BirthdayShape, BirthdayRun
  <1>5. ASSUME ~birthdaysCrossed', NEW u \in birthdaysDone' PROVE BirthdayGreeted(u)'
    BY <1>5 DEF BirthdayGreeted
  <1> QED
    BY <1>1, <1>2, <1>3, <1>4, <1>5 DEF BirthdaysInv

LEMMA BirthdayBegin == ASSUME BirthdaysInv, NEW r \in BirthdayRuns, Birthdays!BeginRun(r)
    PROVE BirthdaysInv'
  <1> DEFINE mine == {u \in birthdaysActive : BirthdayOf[u] = birthdaysToday}
             w == [pc |-> "look", day |-> birthdaysToday, left |-> mine, all |-> mine]
  <1>1. birthdaysRun[r] = Birthdays!Idle /\ birthdaysRun' = [birthdaysRun EXCEPT ![r] = w] /\
          UNCHANGED <<birthdaysToday, birthdaysActive, birthdaysAuthor, birthdaysPost,
              birthdaysDone>>
    BY DEF Birthdays!BeginRun
  <1>2. birthdaysCrossed' =
          (birthdaysCrossed \/ \E q \in BirthdayRuns : birthdaysRun[q] # Birthdays!Idle)
    BY DEF Birthdays!BeginRun
  <1>3. w \in BirthdayLooking
    BY DEF BirthdayLooking, BirthdaysInv, BirthdayShape
  <1>4. birthdaysRun'[r] = w /\ w.pc = "look" /\ w.left = mine /\ w.all = mine /\
          w.day = birthdaysToday
    BY <1>1 DEF BirthdaysInv, BirthdayShape
  <1>5. BirthdayRun(r)'
    BY <1>1, <1>4 DEF BirthdayRun
  <1> HIDE DEF w
  <1> QED
    BY <1>1, <1>2, <1>3, <1>5, BirthdayWork DEF BirthdaysInv, BirthdayShape

LEMMA BirthdayAlone ==
    ASSUME BirthdaysInv, NEW r \in BirthdayRuns, birthdaysRun[r] # Birthdays!Idle
    PROVE  /\ birthdaysRun[r] \in BirthdayLooking \cup BirthdayCreating
           /\ ~birthdaysCrossed =>
                BirthdayRun(r) /\ \A q \in BirthdayRuns : birthdaysRun[q] # Birthdays!Idle => q = r
  BY DEF BirthdaysInv, BirthdayShape

LEMMA BirthdayLook == ASSUME BirthdaysInv, NEW r \in BirthdayRuns, Birthdays!Look(r)
    PROVE BirthdaysInv'
  <1>1. PICK u \in birthdaysRun[r].left :
          birthdaysRun' = [birthdaysRun EXCEPT ![r] =
                   IF Birthdays!PostsOf(u, birthdaysRun[r].day) # {}
                       THEN [birthdaysRun[r] EXCEPT !.left = birthdaysRun[r].left \ {u}]
                   ELSE [pc |-> "create", day |-> birthdaysRun[r].day, all |-> birthdaysRun[r].all,
                         left |-> birthdaysRun[r].left \ {u}, user |-> u]]
    BY DEF Birthdays!Look
  <1>2. birthdaysRun[r] # Birthdays!Idle /\ birthdaysRun[r].pc = "look" /\
          UNCHANGED <<birthdaysToday, birthdaysActive, birthdaysAuthor, birthdaysPost,
              birthdaysDone, birthdaysCrossed>>
    BY DEF Birthdays!Look
  <1>3. birthdaysRun[r] \in BirthdayLooking /\ u \in Celebrants
    BY <1>2, BirthdayAlone DEF BirthdayLooking, BirthdayCreating
  <1>4. CASE Birthdays!PostsOf(u, birthdaysRun[r].day) # {}
    <2> DEFINE w == [birthdaysRun[r] EXCEPT !.left = birthdaysRun[r].left \ {u}]
    <2>1. w \in BirthdayLooking /\ w.pc = "look" /\ w.left = birthdaysRun[r].left \ {u} /\
            w.all = birthdaysRun[r].all /\ w.day = birthdaysRun[r].day
      BY <1>3 DEF BirthdayLooking
    <2>2. birthdaysRun' = [birthdaysRun EXCEPT ![r] = w] /\ birthdaysRun'[r] = w
      BY <1>1, <1>4 DEF BirthdaysInv, BirthdayShape
    <2> HIDE DEF w
    <2>3. ASSUME ~birthdaysCrossed PROVE BirthdayRun(r)'
      <3>1. BirthdayRun(r) /\ BirthdayGreeted(u)
        BY <1>2, <1>4, <2>3, BirthdayAlone DEF BirthdayRun, Birthdays!PostsOf, BirthdayGreeted
      <3> QED
        BY <1>2, <2>1, <2>2, <3>1 DEF BirthdayRun, BirthdayGreeted
    <2> QED
      BY <1>2, <2>1, <2>2, <2>3, BirthdayWork, BirthdayAlone DEF BirthdaysInv, BirthdayShape
  <1>5. CASE Birthdays!PostsOf(u, birthdaysRun[r].day) = {}
    <2> DEFINE w == [pc |-> "create", day |-> birthdaysRun[r].day, all |-> birthdaysRun[r].all,
                     left |-> birthdaysRun[r].left \ {u}, user |-> u]
    <2>1. /\ w \in BirthdayCreating /\ w.pc = "create" /\ w.left = birthdaysRun[r].left \ {u}
          /\ w.all = birthdaysRun[r].all
          /\ w.day = birthdaysRun[r].day /\ w.user = u
      BY <1>3 DEF BirthdayLooking, BirthdayCreating
    <2>2. birthdaysRun' = [birthdaysRun EXCEPT ![r] = w] /\ birthdaysRun'[r] = w
      BY <1>1, <1>5 DEF BirthdaysInv, BirthdayShape
    <2> HIDE DEF w
    <2>3. ASSUME ~birthdaysCrossed PROVE BirthdayRun(r)'
      <3>1. BirthdayRun(r) /\ \A p \in BirthdayPosts : birthdaysPost[p] # None /\
              birthdaysPost[p].of = u /\ birthdaysPost[p].day = birthdaysToday =>
                  birthdaysPost[p].deleted
        BY <1>2, <1>5, <2>3, BirthdayAlone DEF BirthdayRun, Birthdays!PostsOf
      <3> QED
        BY <1>2, <2>1, <2>2, <3>1 DEF BirthdayRun, BirthdayGreeted
    <2> QED
      BY <1>2, <2>1, <2>2, <2>3, BirthdayWork, BirthdayAlone DEF BirthdaysInv, BirthdayShape
  <1> QED
    BY <1>4, <1>5

LEMMA BirthdayCreate == ASSUME BirthdaysInv, NEW r \in BirthdayRuns, Birthdays!Create(r)
    PROVE BirthdaysInv'
  <1>1. PICK p \in BirthdayPosts : birthdaysPost[p] = None /\
          birthdaysPost' =
              [birthdaysPost EXCEPT ![p] =
                  [of |-> birthdaysRun[r].user, day |-> birthdaysToday, deleted |-> FALSE]]
    BY DEF Birthdays!Create
  <1>2. /\ birthdaysRun[r] # Birthdays!Idle /\ birthdaysRun[r].pc = "create"
        /\ UNCHANGED <<birthdaysToday, birthdaysActive, birthdaysAuthor, birthdaysDone,
             birthdaysCrossed>>
        /\ birthdaysRun' =
             [birthdaysRun EXCEPT ![r] =
                 [pc |-> "look", day |-> birthdaysRun[r].day, left |-> birthdaysRun[r].left,
                     all |-> birthdaysRun[r].all]]
    BY DEF Birthdays!Create
  <1>3. birthdaysRun[r] \in BirthdayCreating
    BY <1>2, BirthdayAlone DEF BirthdayLooking, BirthdayCreating
  <1> DEFINE w == [pc |-> "look", day |-> birthdaysRun[r].day, left |-> birthdaysRun[r].left,
        all |-> birthdaysRun[r].all]
             new == [of |-> birthdaysRun[r].user, day |-> birthdaysToday, deleted |-> FALSE]
  <1>4. /\ w \in BirthdayLooking /\ w.pc = "look" /\ w.left = birthdaysRun[r].left
        /\ w.all = birthdaysRun[r].all /\ w.day = birthdaysRun[r].day
        /\ new \in Birthdays!Post /\ new # None /\ new.of = birthdaysRun[r].user
        /\ new.day = birthdaysToday /\ ~new.deleted
    <2>1. birthdaysToday \in 1 .. LastDay /\ None \notin Birthdays!Post
      BY ComponentsAssumption DEF Birthdays!BirthdaysAssumption, BirthdaysInv, BirthdayShape
    <2>2. w \in BirthdayLooking /\ w.pc = "look" /\ w.left = birthdaysRun[r].left /\
            w.all = birthdaysRun[r].all /\ w.day = birthdaysRun[r].day
      BY <1>3 DEF BirthdayLooking, BirthdayCreating
    <2>3. new \in Birthdays!Post /\ new.of = birthdaysRun[r].user /\ new.day = birthdaysToday /\
            ~new.deleted
      BY <1>3, <2>1 DEF BirthdayCreating, Birthdays!Post
    <2> QED
      BY <2>1, <2>2, <2>3
  <1>5. birthdaysRun' = [birthdaysRun EXCEPT ![r] = w] /\
          birthdaysPost' = [birthdaysPost EXCEPT ![p] = new]
    BY <1>1, <1>2
  <1> HIDE DEF w, new
  <1>6. BirthdayShape'
    BY <1>2, <1>4, <1>5 DEF BirthdaysInv, BirthdayShape
  <1>7. birthdaysPost'[p] = new /\
          \A q \in BirthdayPosts \ {p} : birthdaysPost'[q] = birthdaysPost[q]
    BY <1>5 DEF BirthdaysInv, BirthdayShape
  <1>8. birthdaysRun'[r] = w /\ \A q \in BirthdayRuns \ {r} : birthdaysRun'[q] = birthdaysRun[q]
    BY <1>5 DEF BirthdaysInv, BirthdayShape
  <1>9. ASSUME NEW u, BirthdayGreeted(u) \/ u = birthdaysRun[r].user PROVE BirthdayGreeted(u)'
    BY <1>1, <1>2, <1>4, <1>7, <1>9 DEF BirthdayGreeted
  <1>10. ASSUME ~birthdaysCrossed PROVE BirthdayOnePost'
    <2>1. /\ BirthdayRun(r) /\ BirthdayOf[birthdaysRun[r].user] = birthdaysToday /\ BirthdayOnePost
          /\ \A q \in BirthdayPosts : birthdaysPost[q] # None /\
               birthdaysPost[q].of = birthdaysRun[r].user /\
                   birthdaysPost[q].day = birthdaysToday => birthdaysPost[q].deleted
      BY <1>2, <1>10, BirthdayAlone DEF BirthdayRun, BirthdaysInv
    <2> QED
      BY <1>1, <1>4, <1>7, <2>1 DEF BirthdayOnePost
  <1>11. ASSUME ~birthdaysCrossed PROVE BirthdayRun(r)'
    <2>1. BirthdayRun(r)
      BY <1>2, <1>11, BirthdayAlone
    <2> QED
      BY <1>2, <1>4, <1>8, <1>9, <2>1 DEF BirthdayRun
  <1>12. ASSUME ~birthdaysCrossed, NEW q \in BirthdayRuns, birthdaysRun'[q] # Birthdays!Idle
           PROVE q = r
    BY <1>2, <1>8, <1>12, BirthdayAlone
  <1>13. ASSUME ~birthdaysCrossed, NEW q \in BirthdayRuns PROVE BirthdayRun(q)'
    BY <1>11, <1>12, <1>13 DEF BirthdayRun
  <1> QED
    BY <1>2, <1>6, <1>9, <1>10, <1>12, <1>13 DEF BirthdaysInv

LEMMA BirthdayStop == ASSUME BirthdaysInv, NEW r \in BirthdayRuns, Birthdays!CreateFails(r) \/
    Birthdays!EndRun(r) PROVE BirthdaysInv'
  <1>1. CASE Birthdays!CreateFails(r)
    <2>1. birthdaysRun[r] # Birthdays!Idle /\
            birthdaysRun' = [birthdaysRun EXCEPT ![r] = Birthdays!Idle] /\
                UNCHANGED <<birthdaysToday, birthdaysActive, birthdaysAuthor, birthdaysPost,
                    birthdaysDone, birthdaysCrossed>>
      BY <1>1 DEF Birthdays!CreateFails
    <2> QED
      BY <2>1, BirthdayWork, BirthdayAlone DEF BirthdaysInv, BirthdayShape
  <1>2. CASE Birthdays!EndRun(r)
    <2>1. /\ birthdaysRun[r] # Birthdays!Idle /\ birthdaysRun[r].pc = "look"
          /\ birthdaysRun[r].left = {}
          /\ birthdaysRun' = [birthdaysRun EXCEPT ![r] = Birthdays!Idle]
          /\ UNCHANGED <<birthdaysToday, birthdaysActive, birthdaysAuthor, birthdaysPost,
               birthdaysCrossed>>
          /\ birthdaysDone' = IF birthdaysRun[r].day = birthdaysToday
               THEN birthdaysDone \cup birthdaysRun[r].all ELSE birthdaysDone
      BY <1>2 DEF Birthdays!EndRun
    <2>2. birthdaysRun[r].all \subseteq Celebrants
      BY <2>1, BirthdayAlone DEF BirthdayLooking, BirthdayCreating
    <2>3. birthdaysDone' \subseteq Celebrants
      BY <2>1, <2>2 DEF BirthdaysInv, BirthdayShape
    <2>4. ~birthdaysCrossed => \A u \in birthdaysDone' : BirthdayGreeted(u)
      BY <2>1, BirthdayAlone DEF BirthdayRun, BirthdaysInv
    <2> QED
      BY <2>1, <2>3, <2>4, BirthdayWork, BirthdayAlone DEF BirthdaysInv, BirthdayShape
  <1> QED
    BY <1>1, <1>2

LEMMA BirthdayRemove == ASSUME BirthdaysInv, Birthdays!RemovePost PROVE BirthdaysInv'
  <1>1. PICK p \in BirthdayPosts : birthdaysPost[p] # None /\
          birthdaysPost' = [birthdaysPost EXCEPT ![p].deleted = TRUE]
    BY DEF Birthdays!RemovePost
  <1>2. UNCHANGED <<birthdaysToday, birthdaysActive, birthdaysAuthor, birthdaysRun,
          birthdaysDone, birthdaysCrossed>>
    BY DEF Birthdays!RemovePost
  <1>3. birthdaysPost[p] \in Birthdays!Post
    BY <1>1 DEF BirthdaysInv, BirthdayShape
  <1> DEFINE new == [birthdaysPost[p] EXCEPT !.deleted = TRUE]
  <1>4. new \in Birthdays!Post /\ new # None /\ new.of = birthdaysPost[p].of /\
          new.day = birthdaysPost[p].day /\ new.deleted = TRUE
    BY <1>3, ComponentsAssumption DEF Birthdays!Post, Birthdays!BirthdaysAssumption
  <1>5. birthdaysPost' = [birthdaysPost EXCEPT ![p] = new]
    BY <1>1
  <1> HIDE DEF new
  <1>6. birthdaysPost'[p] = new /\
          \A q \in BirthdayPosts \ {p} : birthdaysPost'[q] = birthdaysPost[q]
    BY <1>5 DEF BirthdaysInv, BirthdayShape
  <1>7. BirthdayShape'
    BY <1>2, <1>4, <1>5 DEF BirthdaysInv, BirthdayShape
  <1>8. ASSUME NEW u, BirthdayGreeted(u) PROVE BirthdayGreeted(u)'
    BY <1>1, <1>2, <1>4, <1>6, <1>8 DEF BirthdayGreeted
  <1>9. BirthdayOnePost => BirthdayOnePost'
    BY <1>1, <1>4, <1>6 DEF BirthdayOnePost
  <1>10. ASSUME NEW q \in BirthdayRuns, BirthdayRun(q) PROVE BirthdayRun(q)'
    BY <1>1, <1>2, <1>4, <1>6, <1>8, <1>10 DEF BirthdayRun
  <1> QED
    BY <1>2, <1>7, <1>8, <1>9, <1>10 DEF BirthdaysInv

LEMMA BirthdayStaff == ASSUME BirthdaysInv, Birthdays!StaffChanges PROVE BirthdaysInv'
  <1>1. birthdaysActive' \subseteq Celebrants /\ birthdaysAuthor' \in BOOLEAN
    BY DEF BirthdaysInv, BirthdayShape, Birthdays!StaffChanges
  <1>2. UNCHANGED <<birthdaysToday, birthdaysPost, birthdaysRun, birthdaysDone, birthdaysCrossed>>
    BY DEF Birthdays!StaffChanges
  <1> QED
    BY <1>1, <1>2 DEF BirthdaysInv, BirthdayShape, BirthdayOnePost, BirthdayRun, BirthdayGreeted

LEMMA BirthdayMidnight == ASSUME BirthdaysInv, Birthdays!Midnight PROVE BirthdaysInv'
  <1>1. /\ birthdaysToday < LastDay /\ birthdaysToday' = birthdaysToday + 1
        /\ birthdaysDone' = {}
        /\ UNCHANGED <<birthdaysActive, birthdaysAuthor, birthdaysPost, birthdaysRun>>
        /\ birthdaysCrossed' =
             (birthdaysCrossed \/ \E r \in BirthdayRuns : birthdaysRun[r] # Birthdays!Idle)
    BY DEF Birthdays!Midnight
  <1>2. birthdaysToday' \in 1 .. LastDay
    BY <1>1, ComponentsAssumption DEF BirthdaysInv, BirthdayShape, Birthdays!BirthdaysAssumption
  <1>3. BirthdayShape'
    BY <1>1, <1>2 DEF BirthdaysInv, BirthdayShape
  <1> QED
    BY <1>1, <1>3 DEF BirthdaysInv, BirthdayOnePost, BirthdayRun

LEMMA BirthdayStep == BirthdaysInv /\ [Birthdays!Next]_(Birthdays!vars) => BirthdaysInv'
  <1> SUFFICES ASSUME BirthdaysInv, [Birthdays!Next]_(Birthdays!vars) PROVE BirthdaysInv'
    OBVIOUS
  <1>1. CASE UNCHANGED Birthdays!vars
    BY <1>1 DEF Birthdays!vars, BirthdaysInv, BirthdayShape, BirthdayOnePost, BirthdayRun,
    BirthdayGreeted
  <1>2. CASE Birthdays!Next
    BY <1>2, BirthdayBegin, BirthdayLook, BirthdayCreate, BirthdayStop, BirthdayRemove,
    BirthdayStaff, BirthdayMidnight DEF Birthdays!Next
  <1> QED
    BY <1>1, <1>2

LEMMA BirthdayHolds == BirthdaysInv => Birthdays!TypeOK /\ Birthdays!OnePostPerBirthday
  <1> SUFFICES ASSUME BirthdaysInv PROVE Birthdays!TypeOK /\ Birthdays!OnePostPerBirthday
    OBVIOUS
  <1>1. Birthdays!TypeOK
    BY DEF BirthdaysInv, BirthdayShape, Birthdays!TypeOK, BirthdayLooking, BirthdayCreating
  <1>2. ASSUME ~birthdaysCrossed, NEW u \in Celebrants, NEW day \in 1 .. LastDay
        PROVE  Cardinality(Birthdays!PostsOf(u, day)) <= 1 /\
            (Birthdays!PostsOf(u, day) # {} => BirthdayOf[u] = day)
    <2>1. BirthdayOnePost
      BY <1>2 DEF BirthdaysInv
    <2>2. \A p, q \in Birthdays!PostsOf(u, day) : p = q
      BY <2>1 DEF BirthdayOnePost, Birthdays!PostsOf
    <2>3. Birthdays!PostsOf(u, day) = {} \/ \E p : Birthdays!PostsOf(u, day) = {p}
      BY <2>2
    <2>4. Cardinality(Birthdays!PostsOf(u, day)) = 0 \/ Cardinality(Birthdays!PostsOf(u, day)) = 1
      <3>1. CASE Birthdays!PostsOf(u, day) = {}
        BY <3>1, FS_EmptySet
      <3>2. ASSUME NEW p, Birthdays!PostsOf(u, day) = {p}
              PROVE Cardinality(Birthdays!PostsOf(u, day)) = 1
        BY <3>2, FS_Singleton
      <3> QED
        BY <2>3, <3>1, <3>2
    <2> QED
      BY <2>1, <2>4 DEF BirthdayOnePost, Birthdays!PostsOf
  <1> QED
    BY <1>1, <1>2, BirthdayCount DEF BirthdaysInv, Birthdays!OnePostPerBirthday, BirthdayGreeted
-----------------------------------------------------------------------------
(* The feed.                                                              *)

LEMMA FeedCount == \A S : Feed!Cardinality(S) = Cardinality(S)
  BY DEF Feed!Cardinality, Cardinality

LEMMA FeedFinite == \A S : Feed!IsFiniteSet(S) <=> IsFiniteSet(S)
  BY DEF Feed!IsFiniteSet, IsFiniteSet

WallRow == [author : Users, pinned : BOOLEAN, deleted : BOOLEAN]
WallReact == [op : {"react", "unreact"}, user : Users, type : ReactionTypes \cup {None}]
WallReply == [op : {"comment"}, parent : Comments \cup {None}]
WallUncomment == [op : {"uncomment"}, comment : Comments]
WallPin == [op : {"pin"}, pinned : BOOLEAN]
WallRemoval == [op : {"remove"}]
WallTask == WallReact \cup WallReply \cup WallUncomment \cup WallPin \cup WallRemoval
WallWorking == [pc : {"write", "read", "emit"}, post : Feed!Posts, task : WallTask,
    says : Nat \cup {None}]
WallTold == [reactions : Nat, comments : Nat, pinned : BOOLEAN, deleted : BOOLEAN]
WallReader == [cursor : 0 .. MaxPosts + 1, seen : Seq(Feed!Posts), more : BOOLEAN, open : BOOLEAN]

WallShape ==
    /\ feedPost \in Seq(WallRow) /\ Len(feedPost) <= MaxPosts
    /\ feedReaction \in [Feed!Posts -> [Users -> ReactionTypes \cup {None}]]
    /\ feedComment \in [Comments -> Feed!Comment \cup {None}]
    /\ feedWork \in [FeedHandlers -> WallWorking \cup {Feed!Idle}]
    /\ feedTold \in [Feed!Posts -> WallTold]
    /\ feedReader \in WallReader
    /\ feedBegun \in 0 .. MaxBegun
    /\ feedCrossed \subseteq Feed!Posts \cup {0}

\* A comment of the post that is no reply.
WallUnderRoot(d, p) == d \in Comments /\ feedComment[d] # None /\ feedComment[d].post = p /\
    feedComment[d].parent = None

\* One level of replies.
WallHangs(c) ==
    feedComment[c] # None =>
        /\ feedComment[c].post \in DOMAIN feedPost
        /\ feedComment[c].parent # None => WallUnderRoot(feedComment[c].parent, feedComment[c].post)
WallRooted == \A c \in Comments : WallHangs(c)

WallReacts(h) == feedWork[h].task.op \in {"react", "unreact"}
WallComments(h) == feedWork[h].task.op \in {"comment", "uncomment"}
WallKnows(h) ==
    feedWork[h] # Feed!Idle =>
        /\ feedWork[h].post \in DOMAIN feedPost
        /\ (feedWork[h].task.op = "comment" /\ feedWork[h].task.parent # None) =>
              WallUnderRoot(feedWork[h].task.parent, feedWork[h].post)
        /\ feedWork[h].task.op = "uncomment" =>
              feedComment[feedWork[h].task.comment] # None /\
                  feedComment[feedWork[h].task.comment].post = feedWork[h].post

\* What is to be told has been read.
WallSays(h) ==
    (feedWork[h] # Feed!Idle /\ feedWork[h].pc = "emit" /\
        feedWork[h].task.op \notin {"pin", "remove"}) =>
        feedWork[h].says \in Nat

\* Nobody has spoken of a post there is not.
WallUnborn(p) == feedTold[p] = Feed!Silent /\ \A u \in Users : feedReaction[p][u] = None

WallOn(h, p) == feedWork[h] # Feed!Idle /\ feedWork[h].post = p
WallReactionsTold(p) == feedTold[p].reactions = Feed!ReactionsOf(p)
WallCommentsTold(p) == feedTold[p].comments = Feed!countComments(p)

\* What the one request on a post has still to tell.
WallDue(h, p) ==
    /\ WallReactionsTold(p) \/ (WallReacts(h) /\ feedWork[h].pc # "write")
    /\ WallCommentsTold(p) \/ (WallComments(h) /\ feedWork[h].pc # "write")
    /\ (feedWork[h].pc = "emit" /\ WallReacts(h)) => feedWork[h].says = Feed!ReactionsOf(p)
    /\ (feedWork[h].pc = "emit" /\ WallComments(h)) => feedWork[h].says = Feed!countComments(p)
    /\ feedTold[p].pinned = feedPost[p].pinned \/
         (feedWork[h].pc = "emit" /\ feedWork[h].task.op = "pin")
    /\ (feedWork[h].pc = "emit" /\ feedWork[h].task.op = "pin") =>
         feedPost[p].pinned = feedWork[h].task.pinned
    /\ feedTold[p].deleted = feedPost[p].deleted \/
         (feedWork[h].pc = "emit" /\ feedWork[h].task.op = "remove")
    /\ (feedWork[h].pc = "emit" /\ feedWork[h].task.op = "remove") => feedPost[p].deleted = TRUE
    /\ feedWork[h].task.op \in {"pin", "remove"} => feedWork[h].pc # "read"

WallAllTold(p) ==
    /\ WallReactionsTold(p) /\ WallCommentsTold(p)
    /\ feedTold[p].pinned = feedPost[p].pinned /\ feedTold[p].deleted = feedPost[p].deleted

WallAgreed(p) ==
    /\ \A g, h \in FeedHandlers : WallOn(g, p) /\ WallOn(h, p) => g = h
    /\ (\A h \in FeedHandlers : ~WallOn(h, p)) => WallAllTold(p)
    /\ \A h \in FeedHandlers : WallOn(h, p) => WallDue(h, p)

WallNoPins == \A p \in DOMAIN feedPost : feedPost[p].pinned = FALSE

\* What the reader has seen is what is at or above the cursor.
WallReads ==
    /\ \A i \in DOMAIN feedReader.seen : feedReader.seen[i] \in DOMAIN feedPost /\
         Feed!Live(feedReader.seen[i])
    /\ \A i, j \in DOMAIN feedReader.seen : i < j => feedReader.seen[i] > feedReader.seen[j]
    /\ \A i \in DOMAIN feedReader.seen : feedReader.seen[i] >= feedReader.cursor
    /\ \A p \in DOMAIN feedPost :
         (feedReader.seen # <<>> /\ Feed!Live(p) /\ p <= feedReader.seen[1]) =>
          p < feedReader.cursor \/ \E i \in DOMAIN feedReader.seen : feedReader.seen[i] = p
    /\ ~feedReader.more =>
         \A p \in DOMAIN feedPost :
             (feedReader.seen # <<>> /\ Feed!Live(p) /\ p <= feedReader.seen[1]) =>
          \E i \in DOMAIN feedReader.seen : feedReader.seen[i] = p
    /\ feedReader.more => feedReader.seen # <<>>

WallTurns ==
    /\ ~feedReader.open => feedReader = Feed!NoReader
    /\ (feedReader.open /\ 0 \notin feedCrossed /\ WallNoPins) => WallReads

FeedInv ==
    /\ WallShape /\ WallRooted
    /\ \A h \in FeedHandlers : WallKnows(h) /\ WallSays(h)
    /\ \A p \in Feed!Posts \ DOMAIN feedPost : WallUnborn(p)
    /\ \A p \in DOMAIN feedPost \ feedCrossed : WallAgreed(p)
    /\ WallTurns

LEMMA FeedSizes ==
    /\ MaxPosts \in Nat /\ MaxBegun \in Nat /\ PageLimit \in Nat \ {0}
    /\ None \notin ReactionTypes /\ None \notin Comments /\ None \notin Feed!Comment
    /\ \A S \in SUBSET Users : IsFiniteSet(S) /\ Cardinality(S) \in Nat
    /\ \A S \in SUBSET Comments : IsFiniteSet(S) /\ Cardinality(S) \in Nat
  BY ComponentsAssumption, FeedFinite, FS_Subset, FS_CardinalityType DEF Feed!FeedAssumption

LEMMA FeedCounts ==
    \A p : Feed!ReactionsOf(p) \in Nat /\ Feed!countComments(p) \in Nat
  BY FeedSizes, FeedCount DEF Feed!ReactionsOf, Feed!countComments, Feed!LiveComments

LEMMA FeedDomain ==
    ASSUME WallShape
    PROVE  /\ DOMAIN feedPost = 1 .. Len(feedPost) /\ Len(feedPost) \in Nat
           /\ DOMAIN feedPost \subseteq Feed!Posts /\ 0 \notin Feed!Posts
           /\ 0 \notin DOMAIN feedPost
           /\ \A p \in DOMAIN feedPost : feedPost[p] \in WallRow
  BY FeedSizes DEF WallShape, Feed!Posts

LEMMA FeedInit == Feed!Init => FeedInv
  <1> SUFFICES ASSUME Feed!Init PROVE FeedInv
    OBVIOUS
  <1>1. WallShape
    BY FeedSizes DEF Feed!Init, WallShape, WallTold, Feed!Silent, Feed!NoReader, WallReader
  <1>2. DOMAIN feedPost = {}
    BY DEF Feed!Init
  <1>3. WallRooted
    BY DEF Feed!Init, WallRooted, WallHangs
  <1>4. (\A h \in FeedHandlers : WallKnows(h) /\ WallSays(h)) /\ \A p \in Feed!Posts : WallUnborn(p)
    BY DEF Feed!Init, WallKnows, WallSays, WallUnborn
  <1>5. WallTurns
    BY <1>2 DEF Feed!Init, WallTurns, Feed!NoReader
  <1> QED
    BY <1>1, <1>2, <1>3, <1>4, <1>5 DEF FeedInv

\* A post that a step does not speak of.
LEMMA FeedSame ==
    ASSUME NEW q, WallAgreed(q), feedTold'[q] = feedTold[q], feedReaction'[q] = feedReaction[q],
           Feed!LiveComments(q)' = Feed!LiveComments(q), feedPost'[q] = feedPost[q],
           \A g \in FeedHandlers : WallOn(g, q)' <=> WallOn(g, q),
           \A g \in FeedHandlers : WallOn(g, q) => feedWork'[g] = feedWork[g]
    PROVE  WallAgreed(q)'
  <1>1. Feed!ReactionsOf(q)' = Feed!ReactionsOf(q) /\ Feed!countComments(q)' = Feed!countComments(q)
    BY DEF Feed!ReactionsOf, Feed!countComments
  <1>2. (WallReactionsTold(q)' <=> WallReactionsTold(q)) /\
          (WallCommentsTold(q)' <=> WallCommentsTold(q))
    BY <1>1 DEF WallReactionsTold, WallCommentsTold
  <1>3. ASSUME NEW g \in FeedHandlers, WallOn(g, q)' PROVE WallDue(g, q)'
    <2>1. WallOn(g, q) /\ feedWork'[g] = feedWork[g] /\ WallDue(g, q)
      BY <1>3 DEF WallAgreed
    <2> QED
      BY <1>1, <1>2, <2>1 DEF WallDue, WallReacts, WallComments
  <1>4. WallAllTold(q)' <=> WallAllTold(q)
    BY <1>2 DEF WallAllTold
  <1>5. (\A h \in FeedHandlers : ~WallOn(h, q)') => WallAllTold(q)'
    BY <1>4 DEF WallAgreed
  <1>6. \A g, h \in FeedHandlers : WallOn(g, q)' /\ WallOn(h, q)' => g = h
    BY DEF WallAgreed
  <1> HIDE DEF WallOn, WallDue, WallAllTold
  <1> QED
    BY <1>3, <1>5, <1>6 DEF WallAgreed

\* The reader stays, and the posts it may read.
LEMMA FeedUnread ==
    ASSUME WallTurns, UNCHANGED feedReader, UNCHANGED feedPost, feedCrossed \subseteq feedCrossed'
    PROVE  WallTurns'
  <1>1. WallNoPins' <=> WallNoPins
    BY DEF WallNoPins
  <1>2. WallReads' <=> WallReads
    BY DEF WallReads, Feed!Live
  <1> QED
    BY <1>1, <1>2 DEF WallTurns, Feed!NoReader

LEMMA FeedCreate == ASSUME FeedInv, Feed!CreatePost PROVE FeedInv'
  <1>0. PICK u \in Users : feedPost' = Append(feedPost, Feed!NewPost(u))
    BY DEF Feed!CreatePost
  <1> DEFINE n == Len(feedPost) + 1
  <1>1. /\ Len(feedPost) < MaxPosts /\ feedBegun < MaxBegun /\ feedBegun' = feedBegun + 1
        /\ UNCHANGED <<feedReaction, feedComment, feedWork, feedTold, feedReader, feedCrossed>>
    BY DEF Feed!CreatePost
  <1>2. Feed!NewPost(u) \in WallRow /\ Feed!NewPost(u).pinned = FALSE /\
          Feed!NewPost(u).deleted = FALSE
    BY DEF Feed!NewPost, WallRow
  <1>3. /\ feedPost' \in Seq(WallRow) /\ Len(feedPost') = n /\ n \in Feed!Posts
        /\ n \notin DOMAIN feedPost
        /\ DOMAIN feedPost' = DOMAIN feedPost \cup {n} /\ n \in Nat
        /\ feedPost'[n] = Feed!NewPost(u) /\
             \A p \in DOMAIN feedPost : feedPost'[p] = feedPost[p] /\ p < n
    BY <1>0, <1>1, <1>2, FeedSizes, FeedDomain DEF FeedInv, WallShape, Feed!Posts
  <1> HIDE DEF n
  <1>4. WallShape'
    <2>1. feedBegun' \in 0 .. MaxBegun /\ Len(feedPost)' <= MaxPosts
      BY <1>1, <1>3, FeedSizes DEF FeedInv, WallShape, Feed!Posts
    <2> QED
      BY <1>1, <1>3, <2>1 DEF FeedInv, WallShape
  <1>5. WallRooted'
    BY <1>1, <1>3 DEF FeedInv, WallRooted, WallHangs, WallUnderRoot
  <1>6. ASSUME NEW h \in FeedHandlers PROVE WallKnows(h)' /\ WallSays(h)'
    BY <1>1, <1>3 DEF FeedInv, WallKnows, WallSays, WallUnderRoot
  <1>7. ASSUME NEW p \in Feed!Posts \ DOMAIN feedPost' PROVE WallUnborn(p)'
    BY <1>1, <1>3 DEF FeedInv, WallUnborn
  <1>8. ASSUME NEW p \in DOMAIN feedPost' \ feedCrossed' PROVE WallAgreed(p)'
    <2>1. /\ Feed!LiveComments(p)' = Feed!LiveComments(p) /\ feedTold'[p] = feedTold[p]
          /\ feedReaction'[p] = feedReaction[p]
          /\ \A g \in FeedHandlers : (WallOn(g, p)' <=> WallOn(g, p)) /\ feedWork'[g] = feedWork[g]
      BY <1>1 DEF Feed!LiveComments, WallOn
    <2>2. CASE p # n
      <3>1. WallAgreed(p) /\ feedPost'[p] = feedPost[p]
        BY <1>1, <1>3, <2>2 DEF FeedInv
      <3> QED
        BY <2>1, <3>1, FeedSame
    <2>3. CASE p = n
      <3>1. \A g \in FeedHandlers : ~WallOn(g, p)
        BY <1>3, <2>3 DEF FeedInv, WallKnows, WallOn
      <3>2. feedTold[p] = Feed!Silent /\ \A v \in Users : feedReaction[p][v] = None
        BY <1>3, <2>3 DEF FeedInv, WallUnborn
      <3>3. Feed!LiveComments(p) = {} /\ {v \in Users : feedReaction[p][v] # None} = {}
        BY <1>3, <2>3, <3>2 DEF FeedInv, WallRooted, WallHangs, Feed!LiveComments
      <3>4. Feed!ReactionsOf(p)' = 0 /\ Feed!countComments(p)' = 0
        <4>1. Cardinality({}) = 0
          BY FS_EmptySet
        <4> QED
          BY <2>1, <3>3, <4>1, FeedCount DEF Feed!ReactionsOf, Feed!countComments
      <3>5. WallAllTold(p)'
        <4>1. feedTold'[p] = Feed!Silent /\ feedPost'[p].pinned = FALSE /\
                feedPost'[p].deleted = FALSE
          BY <1>2, <1>3, <2>1, <2>3, <3>2
        <4>2. /\ feedTold'[p].reactions = 0 /\ feedTold'[p].comments = 0
              /\ feedTold'[p].pinned = FALSE /\ feedTold'[p].deleted = FALSE
          BY <4>1 DEF Feed!Silent
        <4>3. WallReactionsTold(p)' /\ WallCommentsTold(p)'
          BY <3>4, <4>2 DEF WallReactionsTold, WallCommentsTold
        <4>4. (feedTold[p].pinned = feedPost[p].pinned)' /\
                (feedTold[p].deleted = feedPost[p].deleted)'
          BY <4>1, <4>2
        <4> QED
          BY <4>3, <4>4 DEF WallAllTold
      <3>6. \A g \in FeedHandlers : ~WallOn(g, p)'
        BY <2>1, <3>1
      <3> QED
        BY <3>5, <3>6 DEF WallAgreed
    <2> QED
      BY <2>2, <2>3
  <1>9. WallTurns'
    <2> SUFFICES ASSUME feedReader'.open, 0 \notin feedCrossed', WallNoPins' PROVE WallReads'
      BY <1>1 DEF FeedInv, WallTurns, Feed!NoReader
    <2>1. WallNoPins
      BY <1>3 DEF WallNoPins
    <2>2. WallReads
      BY <1>1, <2>1 DEF FeedInv, WallTurns
    <2>3. \A p \in DOMAIN feedPost : Feed!Live(p)' <=> Feed!Live(p)
      BY <1>3 DEF Feed!Live
    <2>4. feedReader.seen # <<>> => feedReader.seen[1] \in DOMAIN feedPost
      <3>1. feedReader.seen \in Seq(Feed!Posts)
        BY DEF FeedInv, WallShape, WallReader
      <3> QED
        BY <2>2, <3>1 DEF WallReads
    <2>5. feedReader.seen # <<>> => ~(n <= feedReader.seen[1])
      BY <1>3, <2>4, FeedDomain DEF FeedInv
    <2>6. UNCHANGED feedReader
      BY <1>1
    <2> QED
      BY <1>3, <2>2, <2>3, <2>5, <2>6 DEF WallReads
  <1> QED
    BY <1>4, <1>5, <1>6, <1>7, <1>8, <1>9 DEF FeedInv

-----------------------------------------------------------------------------
\* The request of h, about the post p, is at w next.
WallGoes(h, p, w) ==
    /\ feedWork[h] # Feed!Idle /\ p = feedWork[h].post
    /\ feedWork' = [feedWork EXCEPT ![h] = w]
    /\ w = Feed!Idle \/ (w \in WallWorking /\ w.post = p)

LEMMA FeedWork ==
    ASSUME FeedInv, NEW h \in FeedHandlers, NEW p, NEW w, WallGoes(h, p, w)
    PROVE  /\ feedWork[h] \in WallWorking /\ p \in DOMAIN feedPost /\ p \in Feed!Posts
           /\ WallKnows(h)
           /\ feedWork' \in [FeedHandlers -> WallWorking \cup {Feed!Idle}]
           /\ feedWork'[h] = w /\ \A g \in FeedHandlers \ {h} : feedWork'[g] = feedWork[g]
           /\ \A q : q # p => \A g \in FeedHandlers :
                 (WallOn(g, q)' <=> WallOn(g, q)) /\ (WallOn(g, q) => feedWork'[g] = feedWork[g])
           /\ p \notin feedCrossed => /\ WallDue(h, p) /\ \A g \in FeedHandlers : WallOn(g, p) =>
                                           g = h
                                  /\ \A g \in FeedHandlers : WallOn(g, p)' => g = h /\ w # Feed!Idle
  <1>1. feedWork[h] \in WallWorking /\ feedWork \in [FeedHandlers -> WallWorking \cup {Feed!Idle}]
    BY DEF FeedInv, WallShape, WallGoes
  <1>0. /\ feedWork[h] # Feed!Idle /\ p = feedWork[h].post /\ feedWork' = [feedWork EXCEPT ![h] = w]
        /\ w = Feed!Idle \/ (w \in WallWorking /\ w.post = p)
    BY DEF WallGoes
  <1>2. WallKnows(h) /\ p \in DOMAIN feedPost /\ p \in Feed!Posts
    BY <1>0, <1>1, FeedDomain DEF FeedInv, WallKnows
  <1>3. feedWork'[h] = w /\ \A g \in FeedHandlers \ {h} : feedWork'[g] = feedWork[g]
    BY <1>0, <1>1
  <1>4. feedWork' \in [FeedHandlers -> WallWorking \cup {Feed!Idle}]
    BY <1>0, <1>1
  <1>5. ASSUME NEW q, q # p, NEW g \in FeedHandlers
        PROVE  (WallOn(g, q)' <=> WallOn(g, q)) /\ (WallOn(g, q) => feedWork'[g] = feedWork[g])
    BY <1>0, <1>3, <1>5 DEF WallOn
  <1>6. ASSUME p \notin feedCrossed
        PROVE  /\ WallDue(h, p) /\ \A g \in FeedHandlers : WallOn(g, p) => g = h
               /\ \A g \in FeedHandlers : WallOn(g, p)' => g = h /\ w # Feed!Idle
    <2>1. WallAgreed(p) /\ WallOn(h, p)
      BY <1>0, <1>2, <1>6 DEF FeedInv, WallOn
    <2>2. WallDue(h, p) /\ \A g \in FeedHandlers : WallOn(g, p) => g = h
      BY <2>1 DEF WallAgreed
    <2>3. \A g \in FeedHandlers : WallOn(g, p)' => g = h /\ w # Feed!Idle
      BY <1>3, <2>2 DEF WallOn
    <2> QED
      BY <2>2, <2>3
  <1> QED
    BY <1>1, <1>2, <1>3, <1>4, <1>5, <1>6

LEMMA FeedAgreed ==
    ASSUME FeedInv, NEW h \in FeedHandlers, NEW p, NEW w, WallGoes(h, p, w),
           DOMAIN feedPost' = DOMAIN feedPost, feedCrossed \subseteq feedCrossed',
           \A q \in DOMAIN feedPost \ {p} :
               /\ feedTold'[q] = feedTold[q] /\ feedReaction'[q] = feedReaction[q]
               /\ Feed!LiveComments(q)' = Feed!LiveComments(q) /\ feedPost'[q] = feedPost[q],
           (p \notin feedCrossed /\ WallDue(h, p)) => IF w = Feed!Idle THEN WallAllTold(p)'
               ELSE WallDue(h, p)'
    PROVE  \A q \in DOMAIN feedPost' \ feedCrossed' : WallAgreed(q)'
  <1> SUFFICES ASSUME NEW q \in DOMAIN feedPost, q \notin feedCrossed PROVE WallAgreed(q)'
    OBVIOUS
  <1>1. /\ \A r : r # p => \A g \in FeedHandlers :
              (WallOn(g, r)' <=> WallOn(g, r)) /\ (WallOn(g, r) => feedWork'[g] = feedWork[g])
        /\ p \notin feedCrossed => /\ WallDue(h, p) /\ \A g \in FeedHandlers : WallOn(g, p) => g = h
                               /\ \A g \in FeedHandlers : WallOn(g, p)' => g = h /\ w # Feed!Idle
        /\ feedWork'[h] = w
    <2>1. /\ feedWork[h] \in WallWorking /\ p \in DOMAIN feedPost /\ p \in Feed!Posts
          /\ WallKnows(h)
          /\ feedWork' \in [FeedHandlers -> WallWorking \cup {Feed!Idle}]
          /\ feedWork'[h] = w /\ \A g \in FeedHandlers \ {h} : feedWork'[g] = feedWork[g]
          /\ \A r : r # p => \A g \in FeedHandlers :
                (WallOn(g, r)' <=> WallOn(g, r)) /\ (WallOn(g, r) => feedWork'[g] = feedWork[g])
          /\ p \notin feedCrossed => /\ WallDue(h, p) /\ \A g \in FeedHandlers : WallOn(g, p) =>
                                          g = h
                                 /\ \A g \in FeedHandlers : WallOn(g, p)' => g = h /\ w # Feed!Idle
      BY FeedWork
    <2> QED
      BY <2>1
  <1>2. CASE q # p
    <2>1. WallAgreed(q)
      BY DEF FeedInv
    <2> QED
      BY <1>1, <1>2, <2>1, FeedSame
  <1>3. CASE q = p
    <2>1. WallDue(h, p) /\ \A g \in FeedHandlers : WallOn(g, p)' => g = h /\ w # Feed!Idle
      BY <1>1, <1>3
    <2>2. CASE w = Feed!Idle
      <3>1. WallAllTold(p)' /\ \A g \in FeedHandlers : ~WallOn(g, p)'
        BY <1>3, <2>1, <2>2
      <3> HIDE DEF WallAllTold, WallOn, WallDue
      <3> QED
        BY <1>3, <3>1 DEF WallAgreed
    <2>3. CASE w # Feed!Idle
      <3>1. WallDue(h, p)'
        BY <1>3, <2>1, <2>3
      <3>2. WallOn(h, p)'
        BY <1>1, <2>3 DEF WallOn, WallGoes
      <3> HIDE DEF WallAllTold, WallOn, WallDue
      <3> QED
        BY <1>3, <2>1, <3>1, <3>2 DEF WallAgreed
    <2> QED
      BY <2>2, <2>3
  <1> QED
    BY <1>2, <1>3

\* What the requests know stays so.
LEMMA FeedKnows ==
    ASSUME \A d, q : WallUnderRoot(d, q) =>
        WallUnderRoot(d, q)', DOMAIN feedPost' = DOMAIN feedPost,
           \A c \in Comments : feedComment[c] # None =>
               feedComment'[c] # None /\ feedComment'[c].post = feedComment[c].post,
           NEW g \in FeedHandlers, WallKnows(g), feedWork[g] \in WallWorking \cup {Feed!Idle},
           feedWork'[g] = Feed!Idle \/
               (feedWork'[g].post = feedWork[g].post /\ feedWork'[g].task = feedWork[g].task /\
                   feedWork[g] # Feed!Idle)
    PROVE  WallKnows(g)'
  <1> SUFFICES ASSUME feedWork'[g] # Feed!Idle PROVE WallKnows(g)'
    BY DEF WallKnows
  <1>1. PICK p, t : p = feedWork[g].post /\ t = feedWork[g].task
    OBVIOUS
  <1>2. feedWork'[g].post = p /\ feedWork'[g].task = t /\ feedWork[g] # Feed!Idle
    BY <1>1
  <1>3. /\ p \in DOMAIN feedPost
        /\ (t.op = "comment" /\ t.parent # None) => WallUnderRoot(t.parent, p)
        /\ t.op = "uncomment" => feedComment[t.comment] # None /\ feedComment[t.comment].post = p
    BY <1>1, <1>2 DEF WallKnows
  <1>4. t.op = "uncomment" => t.comment \in Comments
    BY <1>1, <1>2 DEF WallWorking, WallTask, WallReact, WallReply, WallUncomment, WallPin,
    WallRemoval
  <1>5. /\ p \in DOMAIN feedPost'
        /\ (t.op = "comment" /\ t.parent # None) => WallUnderRoot(t.parent, p)'
        /\ t.op = "uncomment" => feedComment'[t.comment] # None /\ feedComment'[t.comment].post = p
    BY <1>3, <1>4
  <1> QED
    BY <1>2, <1>5 DEF WallKnows

LEMMA FeedBegin ==
    ASSUME FeedInv, NEW h \in FeedHandlers, NEW p, NEW task \in WallTask, Feed!Begin(h, p, task),
           (task.op = "comment" /\ task.parent # None) => WallUnderRoot(task.parent, p),
           task.op = "uncomment" =>
               feedComment[task.comment] # None /\ feedComment[task.comment].post = p
    PROVE  FeedInv'
  <1> DEFINE w == [pc |-> "write", post |-> p, task |-> task, says |-> None]
  <1>1. /\ feedWork[h] = Feed!Idle /\ p \in DOMAIN feedPost /\ feedBegun < MaxBegun
        /\ feedBegun' = feedBegun + 1
        /\ feedWork' = [feedWork EXCEPT ![h] = w]
        /\ feedCrossed' =
             feedCrossed \cup
                 {q \in {p} : \E g \in FeedHandlers : feedWork[g] # Feed!Idle /\
                     feedWork[g].post = p}
        /\ UNCHANGED <<feedPost, feedReaction, feedComment, feedTold, feedReader>>
    BY DEF Feed!Begin
  <1>2. w \in WallWorking /\ w # Feed!Idle /\ p \in Feed!Posts /\ p # 0 /\ w.post = p /\
          w.task = task /\ w.pc = "write"
    BY <1>1, FeedDomain DEF WallWorking, Feed!Idle, FeedInv
  <1> HIDE DEF w
  <1>3. feedWork'[h] = w /\ \A g \in FeedHandlers \ {h} : feedWork'[g] = feedWork[g]
    BY <1>1 DEF FeedInv, WallShape
  <1>4. WallShape'
    <2>1. feedBegun' \in 0 .. MaxBegun
      BY <1>1, FeedSizes DEF FeedInv, WallShape
    <2>2. feedWork' \in [FeedHandlers -> WallWorking \cup {Feed!Idle}] /\
            feedCrossed' \subseteq Feed!Posts \cup {0}
      BY <1>1, <1>2 DEF FeedInv, WallShape
    <2> QED
      BY <1>1, <2>1, <2>2 DEF FeedInv, WallShape
  <1>5. WallRooted' /\ \A q \in Feed!Posts \ DOMAIN feedPost' : WallUnborn(q)'
    BY <1>1 DEF FeedInv, WallRooted, WallHangs, WallUnderRoot, WallUnborn
  <1>6. ASSUME NEW g \in FeedHandlers PROVE WallKnows(g)' /\ WallSays(g)'
    <2>1. CASE g = h
      BY <1>1, <1>2, <1>3, <2>1 DEF WallKnows, WallSays, WallUnderRoot
    <2>2. CASE g # h
      BY <1>1, <1>3, <2>2 DEF FeedInv, WallKnows, WallSays, WallUnderRoot
    <2> QED
      BY <2>1, <2>2
  <1>7. ASSUME NEW q \in DOMAIN feedPost' \ feedCrossed' PROVE WallAgreed(q)'
    <2>1. q \in DOMAIN feedPost \ feedCrossed /\ WallAgreed(q) /\
            Feed!LiveComments(q)' = Feed!LiveComments(q)
      BY <1>1 DEF FeedInv, Feed!LiveComments
    <2>2. CASE q # p
      <3>1. \A g \in FeedHandlers : (WallOn(g, q)' <=> WallOn(g, q)) /\
              (WallOn(g, q) => feedWork'[g] = feedWork[g])
        BY <1>1, <1>2, <1>3, <2>2 DEF WallOn
      <3> QED
        BY <1>1, <2>1, <3>1, FeedSame
    <2>3. CASE q = p
      <3>1. \A g \in FeedHandlers : ~WallOn(g, p)
        BY <1>1, <2>3 DEF WallOn
      <3>2. WallAllTold(p)
        BY <2>1, <2>3, <3>1 DEF WallAgreed
      <3>3. WallAllTold(p)'
        BY <1>1, <2>1, <2>3, <3>2
           DEF WallAllTold, WallReactionsTold, WallCommentsTold, Feed!ReactionsOf,
           Feed!countComments
      <3>4. \A g \in FeedHandlers : WallOn(g, p)' => g = h
        BY <1>3, <3>1 DEF WallOn
      <3>5. WallDue(h, p)'
        BY <1>2, <1>3, <3>3 DEF WallDue, WallAllTold
      <3>6. WallOn(h, p)'
        BY <1>2, <1>3 DEF WallOn
      <3> HIDE DEF WallAllTold, WallOn, WallDue
      <3> QED
        BY <2>3, <3>4, <3>5, <3>6 DEF WallAgreed
    <2> QED
      BY <2>2, <2>3
  <1>8. WallTurns'
    BY <1>1, FeedUnread DEF FeedInv
  <1> QED
    BY <1>4, <1>5, <1>6, <1>7, <1>8 DEF FeedInv

LEMMA FeedBegins ==
    ASSUME FeedInv, NEW h \in FeedHandlers,
           \/ Feed!BeginReact(h) \/ Feed!BeginUnreact(h) \/ Feed!BeginComment(h) \/
                Feed!BeginUncomment(h)
           \/ Feed!BeginPin(h) \/ Feed!BeginRemove(h)
    PROVE  FeedInv'
  <1>1. CASE Feed!BeginReact(h)
    <2>1. PICK p \in Feed!Posts, u \in Users,
    t \in ReactionTypes : Feed!Begin(h, p, [op |-> "react", user |-> u, type |-> t])
      BY <1>1 DEF Feed!BeginReact
    <2>2. PICK task : task = [op |-> "react", user |-> u, type |-> t]
      OBVIOUS
    <2>3. task \in WallTask /\ task.op = "react"
      BY <2>2 DEF WallTask, WallReact
    <2> QED
      BY <2>1, <2>2, <2>3, FeedBegin
  <1>2. CASE Feed!BeginUnreact(h)
    <2>1. PICK p \in Feed!Posts,
    u \in Users : Feed!Begin(h, p, [op |-> "unreact", user |-> u, type |-> None])
      BY <1>2 DEF Feed!BeginUnreact
    <2>2. PICK task : task = [op |-> "unreact", user |-> u, type |-> None]
      OBVIOUS
    <2>3. task \in WallTask /\ task.op = "unreact"
      BY <2>2 DEF WallTask, WallReact
    <2> QED
      BY <2>1, <2>2, <2>3, FeedBegin
  <1>3. CASE Feed!BeginComment(h)
    <2>1. PICK p \in Feed!Posts, parent \in {None} \cup Comments :
             /\ parent # None => parent \in Feed!LiveComments(p)
             /\ Feed!Begin(h, p, [op |-> "comment", parent |-> IF parent = None THEN None
                  ELSE Feed!ParentOf(parent)])
      BY <1>3 DEF Feed!BeginComment
    <2>2. PICK above : above = IF parent = None THEN None ELSE Feed!ParentOf(parent)
      OBVIOUS
    <2>3. PICK task : task = [op |-> "comment", parent |-> above]
      OBVIOUS
    <2>4. above # None => WallUnderRoot(above, p)
      <3> SUFFICES ASSUME above # None PROVE WallUnderRoot(above, p)
        OBVIOUS
      <3>1. parent \in Comments /\ feedComment[parent] # None /\ feedComment[parent].post = p /\
              above = Feed!ParentOf(parent)
        BY <2>1, <2>2 DEF Feed!LiveComments
      <3>2. feedComment[parent].parent # None => WallUnderRoot(feedComment[parent].parent, p)
        BY <3>1 DEF FeedInv, WallRooted, WallHangs
      <3> QED
        BY <3>1, <3>2 DEF Feed!ParentOf, WallUnderRoot
    <2>5. task \in WallTask /\ task.op = "comment" /\ task.parent = above
      BY <2>3, <2>4 DEF WallTask, WallReply, WallUnderRoot
    <2>6. Feed!Begin(h, p, task)
      BY <2>1, <2>2, <2>3
    <2> QED
      BY <2>4, <2>5, <2>6, FeedBegin
  <1>4. CASE Feed!BeginUncomment(h)
    <2>1. PICK p \in Feed!Posts, c \in Comments :
             c \in Feed!LiveComments(p) /\ Feed!Begin(h, p, [op |-> "uncomment", comment |-> c])
      BY <1>4 DEF Feed!BeginUncomment
    <2>2. PICK task : task = [op |-> "uncomment", comment |-> c]
      OBVIOUS
    <2>3. task \in WallTask /\ task.op = "uncomment" /\ task.comment = c
      BY <2>2 DEF WallTask, WallUncomment
    <2>4. feedComment[c] # None /\ feedComment[c].post = p
      BY <2>1 DEF Feed!LiveComments
    <2> QED
      BY <2>1, <2>2, <2>3, <2>4, FeedBegin
  <1>5. CASE Feed!BeginPin(h)
    <2>1. PICK p \in Feed!Posts : Feed!Live(p) /\
            Feed!Begin(h, p, [op |-> "pin", pinned |-> ~feedPost[p].pinned])
      BY <1>5 DEF Feed!BeginPin
    <2>2. PICK task : task = [op |-> "pin", pinned |-> ~feedPost[p].pinned]
      OBVIOUS
    <2>3. task \in WallTask /\ task.op = "pin"
      BY <2>2 DEF WallTask, WallPin
    <2> QED
      BY <2>1, <2>2, <2>3, FeedBegin
  <1>6. CASE Feed!BeginRemove(h)
    <2>1. PICK p \in Feed!Posts : Feed!Begin(h, p, [op |-> "remove"])
      BY <1>6 DEF Feed!BeginRemove
    <2>2. PICK task : task = [op |-> "remove"]
      OBVIOUS
    <2>3. task \in WallTask /\ task.op = "remove"
      BY <2>2 DEF WallTask, WallRemoval
    <2> QED
      BY <2>1, <2>2, <2>3, FeedBegin
  <1> QED
    BY <1>1, <1>2, <1>3, <1>4, <1>5, <1>6

\* A step of a request that has begun.
LEMMA FeedMove ==
    ASSUME FeedInv, NEW h \in FeedHandlers, NEW p, NEW w, WallGoes(h, p, w),
           w # Feed!Idle => w.task = feedWork[h].task,
           (w # Feed!Idle /\ w.pc = "emit" /\ w.task.op \notin {"pin", "remove"}) => w.says \in Nat,
           feedBegun' = feedBegun, feedReader' = feedReader,
           feedCrossed \subseteq feedCrossed', feedCrossed' \subseteq Feed!Posts \cup {0},
           feedPost' \in Seq(WallRow), Len(feedPost') = Len(feedPost),
           feedReaction' \in [Feed!Posts -> [Users -> ReactionTypes \cup {None}]],
           feedComment' \in [Comments -> Feed!Comment \cup {None}],
           feedTold' \in [Feed!Posts -> WallTold],
           WallRooted', \A d, q : WallUnderRoot(d, q) => WallUnderRoot(d, q)',
           \A c \in Comments : feedComment[c] # None =>
               feedComment'[c] # None /\ feedComment'[c].post = feedComment[c].post,
           \A q \in Feed!Posts \ {p} : feedTold'[q] = feedTold[q] /\
               feedReaction'[q] = feedReaction[q],
           \A q \in DOMAIN feedPost \ {p} : Feed!LiveComments(q)' = Feed!LiveComments(q) /\
               feedPost'[q] = feedPost[q],
           (p \notin feedCrossed /\ WallDue(h, p)) => IF w = Feed!Idle THEN WallAllTold(p)'
               ELSE WallDue(h, p)',
           WallTurns'
    PROVE  FeedInv'
  <1>1. /\ feedWork[h] \in WallWorking /\ p \in DOMAIN feedPost /\ p \in Feed!Posts /\ WallKnows(h)
        /\ feedWork' \in [FeedHandlers -> WallWorking \cup {Feed!Idle}]
        /\ feedWork'[h] = w /\ \A g \in FeedHandlers \ {h} : feedWork'[g] = feedWork[g]
        /\ \A r : r # p => \A g \in FeedHandlers :
              (WallOn(g, r)' <=> WallOn(g, r)) /\ (WallOn(g, r) => feedWork'[g] = feedWork[g])
        /\ p \notin feedCrossed => /\ WallDue(h, p) /\ \A g \in FeedHandlers : WallOn(g, p) => g = h
                               /\ \A g \in FeedHandlers : WallOn(g, p)' => g = h /\ w # Feed!Idle
    BY FeedWork
  <1>2. DOMAIN feedPost' = DOMAIN feedPost /\ DOMAIN feedPost \subseteq Feed!Posts
    BY FeedDomain DEF FeedInv, WallShape
  <1>3. WallShape'
    BY <1>1 DEF FeedInv, WallShape
  <1>4. ASSUME NEW g \in FeedHandlers PROVE WallKnows(g)' /\ WallSays(g)'
    <2>1. CASE g = h
      <3>1. w = Feed!Idle \/
              (w.post = feedWork[h].post /\ w.task = feedWork[h].task /\ feedWork[h] # Feed!Idle)
        BY DEF WallGoes
      <3>2. WallKnows(g)'
        BY <1>1, <1>2, <2>1, <3>1, FeedKnows
      <3> QED
        BY <1>1, <2>1, <3>2 DEF WallSays
    <2>2. CASE g # h
      <3>1. WallKnows(g) /\ WallSays(g) /\ feedWork'[g] = feedWork[g] /\
              feedWork[g] \in WallWorking \cup {Feed!Idle}
        BY <1>1, <2>2 DEF FeedInv, WallShape
      <3>2. feedWork'[g] = Feed!Idle \/
              (feedWork'[g].post = feedWork[g].post /\ feedWork'[g].task = feedWork[g].task /\
                  feedWork[g] # Feed!Idle)
        BY <3>1
      <3>3. WallKnows(g)'
        BY <1>2, <3>1, <3>2, FeedKnows
      <3> QED
        BY <3>1, <3>3 DEF WallSays
    <2> QED
      BY <2>1, <2>2
  <1>5. \A q \in Feed!Posts \ DOMAIN feedPost' : WallUnborn(q)'
    BY <1>1, <1>2 DEF FeedInv, WallUnborn
  <1>6. \A q \in DOMAIN feedPost' \ feedCrossed' : WallAgreed(q)'
    <2>1. \A q \in DOMAIN feedPost \ {p} :
             /\ feedTold'[q] = feedTold[q] /\ feedReaction'[q] = feedReaction[q]
             /\ Feed!LiveComments(q)' = Feed!LiveComments(q) /\ feedPost'[q] = feedPost[q]
      BY <1>2
    <2> QED
      BY <1>2, <2>1, FeedAgreed
  <1> QED
    BY <1>3, <1>4, <1>5, <1>6 DEF FeedInv

LEMMA FeedGoes ==
    ASSUME FeedInv, NEW h \in FeedHandlers, feedWork[h] # Feed!Idle,
           NEW pc \in {"write", "read", "emit"}, Feed!GoTo(h, pc)
    PROVE  \E w : /\ WallGoes(h, feedWork[h].post, w) /\ w # Feed!Idle /\ w.pc = pc
                  /\ w.task = feedWork[h].task /\ w.says = feedWork[h].says /\ feedWork'[h] = w
  <1>1. feedWork[h] \in WallWorking /\ feedWork \in [FeedHandlers -> WallWorking \cup {Feed!Idle}]
    BY DEF FeedInv, WallShape
  <1>2. PICK w : w = [feedWork[h] EXCEPT !.pc = pc]
    OBVIOUS
  <1>3. w \in WallWorking /\ w.pc = pc /\ w.post = feedWork[h].post /\
          w.task = feedWork[h].task /\ w.says = feedWork[h].says
    BY <1>1, <1>2 DEF WallWorking
  <1>4. w # Feed!Idle
    BY <1>3 DEF Feed!Idle
  <1>5. feedWork' = [feedWork EXCEPT ![h] = w]
    BY <1>1, <1>2 DEF Feed!GoTo
  <1>6. feedWork'[h] = w
    BY <1>1, <1>5
  <1> QED
    BY <1>3, <1>4, <1>5, <1>6 DEF WallGoes

-----------------------------------------------------------------------------
LEMMA FeedReact == ASSUME FeedInv, NEW h \in FeedHandlers, Feed!WriteReaction(h) PROVE FeedInv'
  <1>1. /\ feedWork[h] # Feed!Idle /\ feedWork[h].pc = "write" /\ WallReacts(h)
        /\ Feed!GoTo(h, "read")
        /\ feedReaction' =
             [feedReaction EXCEPT ![feedWork[h].post][feedWork[h].task.user] =
                 feedWork[h].task.type]
        /\ UNCHANGED <<feedPost, feedComment, feedTold, feedReader, feedBegun, feedCrossed>>
    BY DEF Feed!WriteReaction, Feed!At, WallReacts
  <1>2. PICK p, w : /\ p = feedWork[h].post /\ WallGoes(h, p, w) /\ w # Feed!Idle /\ w.pc = "read"
                    /\ w.task = feedWork[h].task /\ w.says = feedWork[h].says /\ feedWork'[h] = w
    BY <1>1, FeedGoes
  <1>3. PICK u, t : u = feedWork[h].task.user /\ t = feedWork[h].task.type
    OBVIOUS
  <1>4. feedWork[h] \in WallWorking /\ p \in Feed!Posts /\ p \in DOMAIN feedPost
    BY <1>2, FeedWork
  <1>5. u \in Users /\ t \in ReactionTypes \cup {None}
    BY <1>1, <1>3, <1>4 DEF WallReacts, WallWorking, WallTask, WallReact, WallReply,
    WallUncomment, WallPin, WallRemoval
  <1>6. feedReaction' = [feedReaction EXCEPT ![p] = [feedReaction[p] EXCEPT ![u] = t]]
    BY <1>1, <1>2, <1>3
  <1>7. /\ feedReaction' \in [Feed!Posts -> [Users -> ReactionTypes \cup {None}]]
        /\ \A q \in Feed!Posts \ {p} : feedReaction'[q] = feedReaction[q]
    BY <1>4, <1>5, <1>6 DEF FeedInv, WallShape
  <1>8. WallRooted' /\ WallTurns' /\ \A d, q : WallUnderRoot(d, q) => WallUnderRoot(d, q)'
    BY <1>1, FeedUnread DEF FeedInv, WallRooted, WallHangs, WallUnderRoot
  <1>9. ASSUME WallDue(h, p) PROVE WallDue(h, p)'
    <2>1. Feed!countComments(p)' = Feed!countComments(p)
      BY <1>1 DEF Feed!countComments, Feed!LiveComments
    <2> QED
      BY <1>1, <1>2, <1>9, <2>1 DEF WallDue, WallCommentsTold, WallReacts, WallComments
  <1>10. \A q : Feed!LiveComments(q)' = Feed!LiveComments(q)
    BY <1>1 DEF Feed!LiveComments
  <1>11. /\ feedPost' \in Seq(WallRow)
         /\ feedComment' \in [Comments -> Feed!Comment \cup {None}]
         /\ feedTold' \in [Feed!Posts -> WallTold]
         /\ feedCrossed' \subseteq Feed!Posts \cup {0}
    BY <1>1 DEF FeedInv, WallShape
  <1>12. WallTurns' /\ WallRooted' /\ feedBegun' = feedBegun /\ feedReader' = feedReader /\
           feedCrossed' = feedCrossed
         /\ Len(feedPost') = Len(feedPost) /\ feedPost' = feedPost /\ feedTold' = feedTold
         /\ feedComment' = feedComment
    BY <1>1, <1>8
  <1>13. /\ \A c \in Comments : feedComment[c] # None =>
              feedComment'[c] # None /\ feedComment'[c].post = feedComment[c].post
         /\ \A q \in Feed!Posts \ {p} : feedTold'[q] = feedTold[q] /\
              feedReaction'[q] = feedReaction[q]
         /\ \A q \in DOMAIN feedPost \ {p} : Feed!LiveComments(q)' = Feed!LiveComments(q) /\
              feedPost'[q] = feedPost[q]
    BY <1>7, <1>10, <1>12
  <1> QED
    BY <1>2, <1>7, <1>8, <1>9, <1>11, <1>12, <1>13, FeedMove

LEMMA FeedReply == ASSUME FeedInv, NEW h \in FeedHandlers, Feed!WriteComment(h) PROVE FeedInv'
  <1>1. /\ feedWork[h] # Feed!Idle /\ feedWork[h].pc = "write"
        /\ feedWork[h].task.op = "comment" /\ Feed!GoTo(h, "read")
        /\ UNCHANGED <<feedPost, feedReaction, feedTold, feedReader, feedBegun, feedCrossed>>
    BY DEF Feed!WriteComment, Feed!At
  <1>2. PICK p, w : /\ p = feedWork[h].post /\ WallGoes(h, p, w) /\ w # Feed!Idle /\ w.pc = "read"
                    /\ w.task = feedWork[h].task /\ w.says = feedWork[h].says /\ feedWork'[h] = w
    BY <1>1, FeedGoes
  <1>3. PICK above, row : above = feedWork[h].task.parent /\
          row = [post |-> p, parent |-> above, deleted |-> FALSE]
    OBVIOUS
  <1>4. feedWork[h] \in WallWorking /\ p \in Feed!Posts /\ p \in DOMAIN feedPost /\ WallKnows(h)
    BY <1>2, FeedWork
  <1>5. above \in Comments \cup {None} /\ (above # None => WallUnderRoot(above, p))
    BY <1>1, <1>2, <1>3, <1>4 DEF WallKnows, WallWorking, WallTask, WallReact, WallReply,
    WallUncomment, WallPin, WallRemoval
  <1>6. row \in Feed!Comment /\ row # None /\ row.post = p /\ row.parent = above
    <2>1. p \in Feed!Posts /\ above \in Comments \cup {None}
      BY <1>4, <1>5
    <2>2. row \in Feed!Comment
      BY <1>3, <2>1 DEF Feed!Comment
    <2>3. row.post = p /\ row.parent = above
      BY <1>3
    <2> QED
      BY <2>2, <2>3, FeedSizes
  <1>7. PICK c \in Comments : feedComment[c] = None /\
          feedComment' = [feedComment EXCEPT ![c] = row]
    BY <1>2, <1>3 DEF Feed!WriteComment
  <1>8. /\ feedComment' \in [Comments -> Feed!Comment \cup {None}]
        /\ feedComment'[c] = row /\ \A d \in Comments \ {c} : feedComment'[d] = feedComment[d]
    BY <1>6, <1>7 DEF FeedInv, WallShape
  <1>9. \A d, q : WallUnderRoot(d, q) => WallUnderRoot(d, q)'
    BY <1>7, <1>8 DEF WallUnderRoot
  <1>10. WallRooted'
    <2> SUFFICES ASSUME NEW d \in Comments, feedComment'[d] # None PROVE WallHangs(d)'
      BY DEF WallRooted, WallHangs
    <2>1. CASE d = c
      <3>1. /\ feedComment'[d].post = p /\ feedComment'[d].parent = above
            /\ p \in DOMAIN feedPost' /\ (above # None => WallUnderRoot(above, p)')
        BY <1>1, <1>4, <1>5, <1>6, <1>8, <1>9, <2>1
      <3> QED
        BY <3>1 DEF WallHangs
    <2>2. CASE d # c
      <3>1. PICK q, a : q = feedComment[d].post /\ a = feedComment[d].parent
        OBVIOUS
      <3>2. feedComment'[d] = feedComment[d] /\ q \in DOMAIN feedPost /\
              (a # None => WallUnderRoot(a, q))
        BY <1>8, <2>2, <3>1 DEF FeedInv, WallRooted, WallHangs
      <3>3. /\ feedComment'[d].post = q /\ feedComment'[d].parent = a
            /\ q \in DOMAIN feedPost' /\ (a # None => WallUnderRoot(a, q)')
        BY <1>1, <1>9, <3>1, <3>2
      <3> QED
        BY <3>3 DEF WallHangs
    <2> QED
      BY <2>1, <2>2
  <1>11. \A q \in DOMAIN feedPost \ {p} : Feed!LiveComments(q)' = Feed!LiveComments(q)
    BY <1>6, <1>7, <1>8 DEF Feed!LiveComments
  <1>12. ASSUME WallDue(h, p) PROVE WallDue(h, p)'
    <2>1. Feed!ReactionsOf(p)' = Feed!ReactionsOf(p)
      BY <1>1 DEF Feed!ReactionsOf
    <2> QED
      BY <1>1, <1>2, <1>12, <2>1 DEF WallDue, WallReactionsTold, WallReacts, WallComments
  <1>13. WallTurns'
    BY <1>1, FeedUnread DEF FeedInv
  <1>14. /\ feedPost' \in Seq(WallRow)
         /\ feedReaction' \in [Feed!Posts -> [Users -> ReactionTypes \cup {None}]]
         /\ feedTold' \in [Feed!Posts -> WallTold] /\ feedCrossed' \subseteq Feed!Posts \cup {0}
         /\ feedBegun' = feedBegun /\ feedReader' = feedReader /\ feedCrossed' = feedCrossed
         /\ Len(feedPost') = Len(feedPost) /\ feedPost' = feedPost /\ feedTold' = feedTold
         /\ feedReaction' = feedReaction
    BY <1>1 DEF FeedInv, WallShape
  <1>15. /\ \A d \in Comments : feedComment[d] # None =>
              feedComment'[d] # None /\ feedComment'[d].post = feedComment[d].post
         /\ \A q \in Feed!Posts \ {p} : feedTold'[q] = feedTold[q] /\
              feedReaction'[q] = feedReaction[q]
         /\ \A q \in DOMAIN feedPost \ {p} : Feed!LiveComments(q)' = Feed!LiveComments(q) /\
              feedPost'[q] = feedPost[q]
    BY <1>7, <1>8, <1>11, <1>14
  <1> QED
    BY <1>2, <1>8, <1>9, <1>10, <1>12, <1>13, <1>14, <1>15, FeedMove

LEMMA FeedUncomment == ASSUME FeedInv, NEW h \in FeedHandlers, Feed!DeleteComment(h) PROVE FeedInv'
  <1>1. /\ feedWork[h] # Feed!Idle /\ feedWork[h].pc = "write"
        /\ feedWork[h].task.op = "uncomment" /\ Feed!GoTo(h, "read")
        /\ UNCHANGED <<feedPost, feedReaction, feedTold, feedReader, feedBegun, feedCrossed>>
    BY DEF Feed!DeleteComment, Feed!At
  <1>2. PICK p, w : /\ p = feedWork[h].post /\ WallGoes(h, p, w) /\ w # Feed!Idle /\ w.pc = "read"
                    /\ w.task = feedWork[h].task /\ w.says = feedWork[h].says /\ feedWork'[h] = w
    BY <1>1, FeedGoes
  <1>3. PICK c : c = feedWork[h].task.comment
    OBVIOUS
  <1>4. feedWork[h] \in WallWorking /\ p \in Feed!Posts /\ p \in DOMAIN feedPost /\ WallKnows(h)
    BY <1>2, FeedWork
  <1>5. c \in Comments /\ feedComment[c] # None /\ feedComment[c].post = p /\
          feedComment[c] \in Feed!Comment
    <2>1. c \in Comments /\ feedComment[c] # None /\ feedComment[c].post = p
      BY <1>1, <1>2, <1>3, <1>4 DEF WallKnows, WallWorking, WallTask, WallReact, WallReply,
      WallUncomment, WallPin, WallRemoval
    <2> QED
      BY <2>1 DEF FeedInv, WallShape
  <1>6. PICK row : row = [feedComment[c] EXCEPT !.deleted = TRUE]
    OBVIOUS
  <1>7. row \in Feed!Comment /\ row # None /\ row.post = p /\ row.parent = feedComment[c].parent
    BY <1>5, <1>6, FeedSizes DEF Feed!Comment
  <1>8. feedComment' = [feedComment EXCEPT ![c] = row]
    BY <1>3, <1>6 DEF Feed!DeleteComment
  <1>9. /\ feedComment' \in [Comments -> Feed!Comment \cup {None}]
        /\ feedComment'[c] = row /\ \A d \in Comments \ {c} : feedComment'[d] = feedComment[d]
    BY <1>5, <1>7, <1>8 DEF FeedInv, WallShape
  <1>10. \A d \in Comments : /\ (feedComment'[d] # None) <=> (feedComment[d] # None)
                             /\ feedComment'[d].post = feedComment[d].post
                             /\ feedComment'[d].parent = feedComment[d].parent
    BY <1>5, <1>7, <1>9
  <1>11. \A d, q : WallUnderRoot(d, q) <=> WallUnderRoot(d, q)'
    BY <1>10 DEF WallUnderRoot
  <1>12. WallRooted'
    <2> SUFFICES ASSUME NEW d \in Comments, feedComment'[d] # None PROVE WallHangs(d)'
      BY DEF WallRooted, WallHangs
    <2>1. PICK q, a : q = feedComment[d].post /\ a = feedComment[d].parent
      OBVIOUS
    <2>2. q \in DOMAIN feedPost /\ (a # None => WallUnderRoot(a, q))
      BY <1>10, <2>1 DEF FeedInv, WallRooted, WallHangs
    <2>3. /\ feedComment'[d].post = q /\ feedComment'[d].parent = a
          /\ q \in DOMAIN feedPost' /\ (a # None => WallUnderRoot(a, q)')
      BY <1>1, <1>10, <1>11, <2>1, <2>2
    <2> QED
      BY <2>3 DEF WallHangs
  <1>13. \A q \in DOMAIN feedPost \ {p} : Feed!LiveComments(q)' = Feed!LiveComments(q)
    BY <1>5, <1>7, <1>9 DEF Feed!LiveComments
  <1>14. ASSUME WallDue(h, p) PROVE WallDue(h, p)'
    <2>1. Feed!ReactionsOf(p)' = Feed!ReactionsOf(p)
      BY <1>1 DEF Feed!ReactionsOf
    <2> QED
      BY <1>1, <1>2, <1>14, <2>1 DEF WallDue, WallReactionsTold, WallReacts, WallComments
  <1>15. WallTurns'
    BY <1>1, FeedUnread DEF FeedInv
  <1>16. /\ feedPost' \in Seq(WallRow)
         /\ feedReaction' \in [Feed!Posts -> [Users -> ReactionTypes \cup {None}]]
         /\ feedTold' \in [Feed!Posts -> WallTold] /\ feedCrossed' \subseteq Feed!Posts \cup {0}
         /\ feedBegun' = feedBegun /\ feedReader' = feedReader /\ feedCrossed' = feedCrossed
         /\ Len(feedPost') = Len(feedPost) /\ feedPost' = feedPost /\ feedTold' = feedTold
         /\ feedReaction' = feedReaction
    BY <1>1 DEF FeedInv, WallShape
  <1>17. /\ \A d \in Comments : feedComment[d] # None =>
              feedComment'[d] # None /\ feedComment'[d].post = feedComment[d].post
         /\ \A q \in Feed!Posts \ {p} : feedTold'[q] = feedTold[q] /\
              feedReaction'[q] = feedReaction[q]
         /\ \A q \in DOMAIN feedPost \ {p} : Feed!LiveComments(q)' = Feed!LiveComments(q) /\
              feedPost'[q] = feedPost[q]
    BY <1>10, <1>13, <1>16
  <1> QED
    BY <1>2, <1>9, <1>11, <1>12, <1>14, <1>15, <1>16, <1>17, FeedMove

-----------------------------------------------------------------------------
\* What a step of h leaves alone, the post apart.
WallAside(p) ==
    /\ WallRooted' /\ \A d, q : WallUnderRoot(d, q) => WallUnderRoot(d, q)'
    /\ \A c \in Comments : feedComment[c] # None =>
           feedComment'[c] # None /\ feedComment'[c].post = feedComment[c].post
    /\ \A q : Feed!LiveComments(q)' = Feed!LiveComments(q)
    /\ feedComment' \in [Comments -> Feed!Comment \cup {None}]
    /\ feedReaction' \in [Feed!Posts -> [Users -> ReactionTypes \cup {None}]]

LEMMA FeedAside ==
    ASSUME FeedInv, DOMAIN feedPost' = DOMAIN feedPost, UNCHANGED <<feedReaction, feedComment>>
    PROVE  \A p : WallAside(p)
  <1>1. WallRooted' /\ \A d, q : WallUnderRoot(d, q) => WallUnderRoot(d, q)'
    BY DEF FeedInv, WallRooted, WallHangs, WallUnderRoot
  <1>2. \A q : Feed!LiveComments(q)' = Feed!LiveComments(q)
    BY DEF Feed!LiveComments
  <1>3. /\ feedComment' \in [Comments -> Feed!Comment \cup {None}]
        /\ feedReaction' \in [Feed!Posts -> [Users -> ReactionTypes \cup {None}]]
    BY DEF FeedInv, WallShape
  <1> QED
    BY <1>1, <1>2, <1>3 DEF WallAside

LEMMA FeedPost == ASSUME FeedInv, NEW h \in FeedHandlers, Feed!WritePost(h) PROVE FeedInv'
  <1>1. /\ feedWork[h] # Feed!Idle /\ feedWork[h].pc = "write"
        /\ feedWork[h].task.op \in {"pin", "remove"}
        /\ Feed!GoTo(h, "emit") /\ feedCrossed' = feedCrossed \cup Feed!Reading
        /\ UNCHANGED <<feedReaction, feedComment, feedTold, feedReader, feedBegun>>
    BY DEF Feed!WritePost, Feed!At, Feed!GoTo
  <1>2. PICK p, w : /\ p = feedWork[h].post /\ WallGoes(h, p, w) /\ w # Feed!Idle /\ w.pc = "emit"
                    /\ w.task = feedWork[h].task /\ w.says = feedWork[h].says /\ feedWork'[h] = w
    BY <1>1, FeedGoes
  <1>3. PICK t : t = feedWork[h].task
    OBVIOUS
  <1>4. feedWork[h] \in WallWorking /\ p \in Feed!Posts /\ p \in DOMAIN feedPost
    BY <1>2, FeedWork
  <1>5. feedPost \in Seq(WallRow) /\ feedPost[p] \in WallRow
    BY <1>4 DEF FeedInv, WallShape
  <1>6. t.op = "pin" => t.pinned \in BOOLEAN
    BY <1>3, <1>4 DEF WallWorking, WallTask, WallReact, WallReply, WallUncomment, WallPin,
    WallRemoval
  <1>7. PICK row : /\ row \in WallRow /\ feedPost' = [feedPost EXCEPT ![p] = row]
                   /\ t.op = "pin" => row.pinned = t.pinned /\ row.deleted = feedPost[p].deleted
                   /\ t.op = "remove" => row.deleted = TRUE /\ row.pinned = feedPost[p].pinned
    <2>1. CASE t.op = "pin"
      <3>1. PICK row : row = [feedPost[p] EXCEPT !.pinned = t.pinned]
        OBVIOUS
      <3>2. feedPost' = [feedPost EXCEPT ![p] = row]
        BY <1>2, <1>3, <2>1, <3>1 DEF Feed!WritePost, Feed!At
      <3>3. row \in WallRow /\ row.pinned = t.pinned /\ row.deleted = feedPost[p].deleted
        BY <1>5, <1>6, <2>1, <3>1 DEF WallRow
      <3> QED
        BY <2>1, <3>2, <3>3
    <2>2. CASE t.op = "remove"
      <3>1. PICK row : row = [feedPost[p] EXCEPT !.deleted = TRUE]
        OBVIOUS
      <3>2. feedPost' = [feedPost EXCEPT ![p] = row]
        BY <1>2, <1>3, <2>2, <3>1 DEF Feed!WritePost, Feed!At
      <3>3. row \in WallRow /\ row.deleted = TRUE /\ row.pinned = feedPost[p].pinned
        BY <1>5, <3>1 DEF WallRow
      <3> QED
        BY <2>2, <3>2, <3>3
    <2> QED
      BY <1>1, <1>3, <2>1, <2>2
  <1>8. /\ feedPost' \in Seq(WallRow) /\ Len(feedPost') = Len(feedPost)
        /\ DOMAIN feedPost' = DOMAIN feedPost
        /\ feedPost'[p] = row /\ \A q \in DOMAIN feedPost \ {p} : feedPost'[q] = feedPost[q]
    BY <1>4, <1>5, <1>7
  <1>9. WallAside(p)
    BY <1>1, <1>8, FeedAside
  <1>10. ASSUME p \notin feedCrossed, WallDue(h, p) PROVE WallDue(h, p)'
    <2>1. Feed!ReactionsOf(p)' = Feed!ReactionsOf(p) /\
            Feed!countComments(p)' = Feed!countComments(p)
      BY <1>1, <1>9 DEF WallAside, Feed!ReactionsOf, Feed!countComments
    <2>2. (WallReactionsTold(p)' <=> WallReactionsTold(p)) /\
            (WallCommentsTold(p)' <=> WallCommentsTold(p))
      BY <1>1, <2>1 DEF WallReactionsTold, WallCommentsTold
    <2>3. /\ WallReactionsTold(p) /\ WallCommentsTold(p) /\ feedTold[p].pinned = feedPost[p].pinned
          /\ feedTold[p].deleted = feedPost[p].deleted
      BY <1>1, <1>10 DEF WallDue, WallReacts, WallComments
    <2>4. WallReactionsTold(p)' /\ WallCommentsTold(p)' /\ feedTold' = feedTold
      BY <1>1, <2>2, <2>3
    <2>5. feedWork'[h].pc = "emit" /\ feedWork'[h].task = t /\ t.op \in {"pin", "remove"}
      BY <1>1, <1>2, <1>3
    <2>6. CASE t.op = "pin"
      <3>1. feedTold'[p].deleted = feedPost'[p].deleted /\ feedPost'[p].pinned = t.pinned
        BY <1>7, <1>8, <2>3, <2>4, <2>6
      <3> QED
        BY <2>4, <2>5, <2>6, <3>1 DEF WallDue, WallReacts, WallComments
    <2>7. CASE t.op = "remove"
      <3>1. feedTold'[p].pinned = feedPost'[p].pinned /\ feedPost'[p].deleted = TRUE
        BY <1>7, <1>8, <2>3, <2>4, <2>7
      <3> QED
        BY <2>4, <2>5, <2>7, <3>1 DEF WallDue, WallReacts, WallComments
    <2> QED
      BY <2>5, <2>6, <2>7
  <1>11. WallTurns'
    <2>1. feedReader.open => 0 \in feedCrossed'
      BY <1>1 DEF Feed!Reading
    <2> QED
      BY <1>1, <2>1 DEF FeedInv, WallTurns, Feed!NoReader
  <1>12. /\ feedCrossed' \subseteq Feed!Posts \cup {0} /\ feedCrossed \subseteq feedCrossed'
         /\ feedTold' \in [Feed!Posts -> WallTold] /\ feedBegun' = feedBegun
         /\ feedReader' = feedReader
         /\ feedTold' = feedTold /\ feedReaction' = feedReaction
    BY <1>1 DEF FeedInv, WallShape, Feed!Reading
  <1>13. w.task.op \in {"pin", "remove"}
    BY <1>1, <1>2
  <1> QED
    BY <1>2, <1>8, <1>9, <1>10, <1>11, <1>12, <1>13, FeedMove DEF WallAside

LEMMA FeedReadBack == ASSUME FeedInv, NEW h \in FeedHandlers, Feed!ReadBack(h) PROVE FeedInv'
  <1>1. /\ feedWork[h] # Feed!Idle /\ feedWork[h].pc = "read"
        /\ UNCHANGED <<feedPost, feedReaction, feedComment, feedTold, feedReader, feedBegun,
             feedCrossed>>
    BY DEF Feed!ReadBack
  <1>2. PICK p, n : /\ p = feedWork[h].post
                    /\ n = IF WallReacts(h) THEN Feed!ReactionsOf(feedWork[h].post)
                         ELSE Feed!countComments(feedWork[h].post)
    OBVIOUS
  <1>3. PICK w : w = [feedWork[h] EXCEPT !.pc = "emit", !.says = n]
    OBVIOUS
  <1>4. feedWork' = [feedWork EXCEPT ![h] = w]
    BY <1>2, <1>3 DEF Feed!ReadBack, WallReacts
  <1>5. n \in Nat
    BY <1>2, FeedCounts
  <1>6. feedWork[h] \in WallWorking
    BY <1>1 DEF FeedInv, WallShape
  <1>7. w \in WallWorking /\ w.pc = "emit" /\ w.post = p /\ w.task = feedWork[h].task /\ w.says = n
    BY <1>2, <1>3, <1>5, <1>6 DEF WallWorking
  <1>8. WallGoes(h, p, w) /\ w # Feed!Idle
    <2>1. w # Feed!Idle
      BY <1>7 DEF Feed!Idle
    <2> QED
      BY <1>1, <1>2, <1>4, <1>7, <2>1 DEF WallGoes
  <1>9. feedWork'[h] = w /\ p \in Feed!Posts
    BY <1>8, FeedWork
  <1>10. WallAside(p)
    BY <1>1, FeedAside
  <1>11. ASSUME p \notin feedCrossed, WallDue(h, p) PROVE WallDue(h, p)'
    <2>1. Feed!ReactionsOf(p)' = Feed!ReactionsOf(p) /\
            Feed!countComments(p)' = Feed!countComments(p)
      BY <1>1, <1>10 DEF WallAside, Feed!ReactionsOf, Feed!countComments
    <2>2. (WallReactionsTold(p)' <=> WallReactionsTold(p)) /\
            (WallCommentsTold(p)' <=> WallCommentsTold(p))
      BY <1>1, <2>1 DEF WallReactionsTold, WallCommentsTold
    <2>3. /\ feedWork'[h].pc = "emit" /\ feedWork'[h].task = feedWork[h].task
          /\ feedWork'[h].says = n
          /\ (WallReacts(h)' <=> WallReacts(h)) /\ (WallComments(h)' <=> WallComments(h))
      BY <1>7, <1>9 DEF WallReacts, WallComments
    <2>4. ~(WallReacts(h) /\ WallComments(h))
      BY DEF WallReacts, WallComments
    <2>5. /\ feedTold[p].pinned = feedPost[p].pinned /\ feedTold[p].deleted = feedPost[p].deleted
          /\ feedWork[h].task.op \notin {"pin", "remove"}
      BY <1>1, <1>11 DEF WallDue
    <2>6. /\ WallReactionsTold(p)' \/ WallReacts(h)'
          /\ WallCommentsTold(p)' \/ WallComments(h)'
      BY <1>11, <2>2, <2>3 DEF WallDue
    <2>7. /\ WallReacts(h)' => feedWork'[h].says = Feed!ReactionsOf(p)'
          /\ WallComments(h)' => feedWork'[h].says = Feed!countComments(p)'
      BY <1>2, <2>1, <2>3, <2>4
    <2>8. feedTold' = feedTold /\ feedPost' = feedPost
      BY <1>1
    <2> QED
      BY <2>3, <2>5, <2>6, <2>7, <2>8 DEF WallDue
  <1>12. WallTurns'
    BY <1>1, FeedUnread DEF FeedInv
  <1>13. /\ feedPost' \in Seq(WallRow) /\ feedTold' \in [Feed!Posts -> WallTold]
         /\ feedCrossed' \subseteq Feed!Posts \cup {0}
         /\ feedBegun' = feedBegun /\ feedReader' = feedReader /\ feedCrossed' = feedCrossed
         /\ Len(feedPost') = Len(feedPost)
         /\ feedPost' = feedPost /\ feedTold' = feedTold /\ feedReaction' = feedReaction
    BY <1>1 DEF FeedInv, WallShape
  <1> QED
    BY <1>5, <1>7, <1>8, <1>10, <1>11, <1>12, <1>13, FeedMove DEF WallAside

LEMMA FeedEmit == ASSUME FeedInv, NEW h \in FeedHandlers, Feed!Emit(h) PROVE FeedInv'
  <1>1. /\ feedWork[h] # Feed!Idle /\ feedWork[h].pc = "emit"
        /\ feedWork' = [feedWork EXCEPT ![h] = Feed!Idle]
        /\ UNCHANGED <<feedPost, feedReaction, feedComment, feedReader, feedBegun, feedCrossed>>
    BY DEF Feed!Emit
  <1>2. PICK p, op, n, t : p = feedWork[h].post /\ op = feedWork[h].task.op /\
          n = feedWork[h].says /\ t = feedWork[h].task
    OBVIOUS
  <1>3. WallGoes(h, p, Feed!Idle)
    BY <1>1, <1>2 DEF WallGoes
  <1>4. feedWork[h] \in WallWorking /\ p \in Feed!Posts
    BY <1>3, FeedWork
  <1>5. /\ op \in {"react", "unreact", "comment", "uncomment", "pin", "remove"}
        /\ op = "pin" => t.pinned \in BOOLEAN
        /\ op \notin {"pin", "remove"} => n \in Nat
    <2>1. WallSays(h)
      BY DEF FeedInv
    <2>2. op \notin {"pin", "remove"} => n \in Nat
      BY <1>1, <1>2, <2>1 DEF WallSays
    <2> QED
      BY <1>2, <1>4, <2>2 DEF WallWorking, WallTask, WallReact, WallReply, WallUncomment,
      WallPin, WallRemoval
  <1>6. feedTold \in [Feed!Posts -> WallTold] /\ feedTold[p] \in WallTold
    BY <1>4 DEF FeedInv, WallShape
  <1>7. PICK row :
           /\ row \in WallTold /\ feedTold' = [feedTold EXCEPT ![p] = row]
           /\ row.reactions = IF op \in {"react", "unreact"} THEN n ELSE feedTold[p].reactions
           /\ row.comments = IF op \in {"comment", "uncomment"} THEN n ELSE feedTold[p].comments
           /\ row.pinned = IF op = "pin" THEN t.pinned ELSE feedTold[p].pinned
           /\ row.deleted = IF op = "remove" THEN TRUE ELSE feedTold[p].deleted
    <2>1. CASE op \in {"react", "unreact"}
      <3>1. PICK row : row = [feedTold[p] EXCEPT !.reactions = n]
        OBVIOUS
      <3>2. feedTold' = [feedTold EXCEPT ![p] = row]
        BY <1>2, <2>1, <3>1 DEF Feed!Emit
      <3>3. row \in WallTold /\ row.reactions = n /\ row.comments = feedTold[p].comments
            /\ row.pinned = feedTold[p].pinned /\ row.deleted = feedTold[p].deleted
        BY <1>5, <1>6, <2>1, <3>1 DEF WallTold
      <3> QED
        BY <2>1, <3>2, <3>3
    <2>2. CASE op \in {"comment", "uncomment"}
      <3>1. PICK row : row = [feedTold[p] EXCEPT !.comments = n]
        OBVIOUS
      <3>2. feedTold' = [feedTold EXCEPT ![p] = row]
        BY <1>2, <2>2, <3>1 DEF Feed!Emit
      <3>3. row \in WallTold /\ row.comments = n /\ row.reactions = feedTold[p].reactions
            /\ row.pinned = feedTold[p].pinned /\ row.deleted = feedTold[p].deleted
        BY <1>5, <1>6, <2>2, <3>1 DEF WallTold
      <3> QED
        BY <2>2, <3>2, <3>3
    <2>3. CASE op = "pin"
      <3>1. PICK row : row = [feedTold[p] EXCEPT !.pinned = t.pinned]
        OBVIOUS
      <3>2. feedTold' = [feedTold EXCEPT ![p] = row]
        BY <1>2, <2>3, <3>1 DEF Feed!Emit
      <3>3. row \in WallTold /\ row.pinned = t.pinned /\ row.reactions = feedTold[p].reactions
            /\ row.comments = feedTold[p].comments /\ row.deleted = feedTold[p].deleted
        BY <1>5, <1>6, <2>3, <3>1 DEF WallTold
      <3> QED
        BY <2>3, <3>2, <3>3
    <2>4. CASE op = "remove"
      <3>1. PICK row : row = [feedTold[p] EXCEPT !.deleted = TRUE]
        OBVIOUS
      <3>2. feedTold' = [feedTold EXCEPT ![p] = row]
        BY <1>2, <2>4, <3>1 DEF Feed!Emit
      <3>3. row \in WallTold /\ row.deleted = TRUE /\ row.reactions = feedTold[p].reactions
            /\ row.comments = feedTold[p].comments /\ row.pinned = feedTold[p].pinned
        BY <1>6, <3>1 DEF WallTold
      <3> QED
        BY <2>4, <3>2, <3>3
    <2> QED
      BY <1>5, <2>1, <2>2, <2>3, <2>4
  <1>8. feedTold' \in [Feed!Posts -> WallTold] /\ feedTold'[p] = row /\
          \A q \in Feed!Posts \ {p} : feedTold'[q] = feedTold[q]
    BY <1>4, <1>6, <1>7
  <1>9. WallAside(p)
    BY <1>1, FeedAside
  <1>10. ASSUME p \notin feedCrossed, WallDue(h, p) PROVE WallAllTold(p)'
    <2>1. Feed!ReactionsOf(p)' = Feed!ReactionsOf(p) /\
            Feed!countComments(p)' = Feed!countComments(p) /\ feedPost' = feedPost
      BY <1>1, <1>9 DEF WallAside, Feed!ReactionsOf, Feed!countComments
    <2>2. (WallReacts(h) <=> op \in {"react", "unreact"}) /\
            (WallComments(h) <=> op \in {"comment", "uncomment"})
      BY <1>2 DEF WallReacts, WallComments
    <2>3. WallReactionsTold(p)'
      <3>1. op \in {"react", "unreact"} => n = Feed!ReactionsOf(p)
        BY <1>1, <1>2, <1>10, <2>2 DEF WallDue
      <3>2. op \notin {"react", "unreact"} => feedTold[p].reactions = Feed!ReactionsOf(p)
        BY <1>10, <2>2 DEF WallDue, WallReactionsTold
      <3>3. feedTold'[p].reactions = Feed!ReactionsOf(p)
        BY <1>7, <1>8, <3>1, <3>2
      <3> QED
        BY <2>1, <3>3 DEF WallReactionsTold
    <2>4. WallCommentsTold(p)'
      <3>1. op \in {"comment", "uncomment"} => n = Feed!countComments(p)
        BY <1>1, <1>2, <1>10, <2>2 DEF WallDue
      <3>2. op \notin {"comment", "uncomment"} => feedTold[p].comments = Feed!countComments(p)
        BY <1>10, <2>2 DEF WallDue, WallCommentsTold
      <3>3. feedTold'[p].comments = Feed!countComments(p)
        BY <1>7, <1>8, <3>1, <3>2
      <3> QED
        BY <2>1, <3>3 DEF WallCommentsTold
    <2>5. feedTold'[p].pinned = feedPost[p].pinned
      <3>1. op = "pin" => feedPost[p].pinned = t.pinned
        BY <1>1, <1>2, <1>10 DEF WallDue
      <3>2. op # "pin" => feedTold[p].pinned = feedPost[p].pinned
        BY <1>2, <1>10 DEF WallDue
      <3> QED
        BY <1>7, <1>8, <3>1, <3>2
    <2>6. feedTold'[p].deleted = feedPost[p].deleted
      <3>1. op = "remove" => feedPost[p].deleted = TRUE
        BY <1>1, <1>2, <1>10 DEF WallDue
      <3>2. op # "remove" => feedTold[p].deleted = feedPost[p].deleted
        BY <1>2, <1>10 DEF WallDue
      <3> QED
        BY <1>7, <1>8, <3>1, <3>2
    <2> QED
      BY <2>1, <2>3, <2>4, <2>5, <2>6 DEF WallAllTold
  <1>11. WallTurns'
    BY <1>1, FeedUnread DEF FeedInv
  <1>12. /\ feedPost' \in Seq(WallRow) /\ feedCrossed' \subseteq Feed!Posts \cup {0}
         /\ feedBegun' = feedBegun /\ feedReader' = feedReader /\ feedCrossed' = feedCrossed
         /\ Len(feedPost') = Len(feedPost)
         /\ feedPost' = feedPost /\ feedReaction' = feedReaction
    BY <1>1 DEF FeedInv, WallShape
  <1> QED
    BY <1>3, <1>8, <1>9, <1>10, <1>11, <1>12, FeedMove DEF WallAside

-----------------------------------------------------------------------------
\* A page is in order and whole.
LEMMA FeedShown ==
    ASSUME FeedInv, NEW c \in Nat
    PROVE  LET s == Feed!Shown(c) IN
             /\ s \in Seq(Feed!Posts) /\ DOMAIN s = 1 .. Len(s) /\ Len(s) \in Nat
             /\ \A i \in 1 .. Len(s) : s[i] \in DOMAIN feedPost /\ Feed!Live(s[i]) /\ s[i] < c
             /\ \A p \in DOMAIN feedPost : Feed!Live(p) /\ p < c => \E i \in 1 .. Len(s) : s[i] = p
             /\ WallNoPins => \A i, j \in 1 .. Len(s) : i < j => s[i] > s[j]
  <1> DEFINE found == {p \in DOMAIN feedPost : Feed!Live(p) /\ p < c}
             R == {pair \in found \X found : Feed!Before(pair[1], pair[2])}
  <1>1. /\ DOMAIN feedPost = 1 .. Len(feedPost) /\ Len(feedPost) \in Nat
        /\ DOMAIN feedPost \subseteq Feed!Posts
        /\ \A p \in DOMAIN feedPost : feedPost[p].pinned \in BOOLEAN
    BY FeedDomain DEF FeedInv, WallRow
  <1>2. IsFiniteSet(found) /\ Cardinality(found) \in Nat
    <2>1. found \subseteq 1 .. Len(feedPost)
      BY <1>1
    <2>2. IsFiniteSet(1 .. Len(feedPost))
      <3>1. 1 \in Int /\ Len(feedPost) \in Int
        BY <1>1
      <3> QED
        BY <3>1, FS_Interval
    <2>3. IsFiniteSet(found)
      BY <2>1, <2>2, FS_Subset
    <2> QED
      BY <2>3, FS_CardinalityType
  <1>3. \A a, b \in found : (<<a, b>> \in R) <=> Feed!Before(a, b)
    OBVIOUS
  <1>4. \A a \in found : a \in Nat /\ feedPost[a].pinned \in BOOLEAN
    BY <1>1
  <1> HIDE DEF found, R
  <1>5. Line(R, found)
    <2>1. \A a, b \in found : a # b => Feed!Before(a, b) \/ Feed!Before(b, a)
      BY <1>4 DEF Feed!Before
    <2>2. \A a, b, d \in found : Feed!Before(a, b) /\ Feed!Before(b, d) => Feed!Before(a, d)
      BY <1>4 DEF Feed!Before
    <2>3. \A a \in found : ~Feed!Before(a, a)
      BY <1>4 DEF Feed!Before
    <2> QED
      BY <1>3, <2>1, <2>2, <2>3 DEF Line
  <1>6. \A s : InLine(s, R, found) <=>
                  /\ s \in [1 .. Cardinality(found) -> found]
                  /\ \A i, j \in DOMAIN s : i < j => Feed!Before(s[i], s[j])
    <2> SUFFICES ASSUME NEW s, s \in [1 .. Cardinality(found) -> found]
                 PROVE  InLine(s, R, found) <=> \A i, j \in DOMAIN s : i < j =>
                     Feed!Before(s[i], s[j])
      BY DEF InLine
    <2>1. DOMAIN s = 1 .. Cardinality(found) /\ \A i \in DOMAIN s : s[i] \in found
      OBVIOUS
    <2> QED
      BY <1>3, <2>1 DEF InLine
  <1>7. PICK s : s = Feed!Shown(c)
    OBVIOUS
  <1>8. s = CHOOSE x \in [1 .. Cardinality(found) -> found] :
                \A i, j \in DOMAIN x : i < j => Feed!Before(x[i], x[j])
    BY <1>7, FeedCount DEF Feed!Shown, found
  <1>9. InLine(s, R, found)
    <2>1. \E x : InLine(x, R, found)
      BY <1>2, <1>5, LinedUp
    <2>2. \E x \in [1 .. Cardinality(found) -> found] : \A i, j \in DOMAIN x : i < j =>
            Feed!Before(x[i], x[j])
      BY <1>6, <2>1
    <2>3. s \in [1 .. Cardinality(found) -> found] /\ \A i, j \in DOMAIN s : i < j =>
            Feed!Before(s[i], s[j])
      BY <1>8, <2>2
    <2> QED
      BY <1>6, <2>3
  <1>10. \A x \in found : \E i \in 1 .. Cardinality(found) : s[i] = x
    BY <1>2, <1>5, <1>9, LineIsWhole
  <1>11. /\ s \in [1 .. Cardinality(found) -> found]
         /\ \A i, j \in 1 .. Cardinality(found) : i < j => Feed!Before(s[i], s[j])
    BY <1>6, <1>9
  <1>12. s \in Seq(found) /\ Len(s) = Cardinality(found) /\ DOMAIN s = 1 .. Cardinality(found)
    BY <1>2, <1>11
  <1>13. \A x \in found : x \in DOMAIN feedPost /\ Feed!Live(x) /\ x < c /\ x \in Feed!Posts
    BY <1>1 DEF found
  <1>14. s \in Seq(Feed!Posts)
    BY <1>12, <1>13
  <1>15. \A i \in 1 .. Len(s) : s[i] \in found
    BY <1>11, <1>12
  <1>16. \A p \in DOMAIN feedPost : Feed!Live(p) /\ p < c => p \in found
    BY DEF found
  <1>17. WallNoPins => \A i, j \in 1 .. Len(s) : i < j => s[i] > s[j]
    BY <1>11, <1>12, <1>13, <1>15 DEF WallNoPins, Feed!Before
  <1>18. /\ s \in Seq(Feed!Posts) /\ DOMAIN s = 1 .. Len(s) /\ Len(s) \in Nat
         /\ \A i \in 1 .. Len(s) : s[i] \in DOMAIN feedPost /\ Feed!Live(s[i]) /\ s[i] < c
         /\ \A p \in DOMAIN feedPost : Feed!Live(p) /\ p < c => \E i \in 1 .. Len(s) : s[i] = p
    BY <1>2, <1>10, <1>12, <1>13, <1>14, <1>15, <1>16
  <1> QED
    BY <1>7, <1>17, <1>18

LEMMA FeedMin ==
    \A a, b \in Nat : /\ Feed!Min({a, b}) \in {a, b} /\ Feed!Min({a, b}) <= a
                      /\ Feed!Min({a, b}) <= b
  <1> SUFFICES ASSUME NEW a \in Nat, NEW b \in Nat
               PROVE  Feed!Min({a, b}) \in {a, b} /\ Feed!Min({a, b}) <= a /\ Feed!Min({a, b}) <= b
    OBVIOUS
  <1>1. \E x \in {a, b} : \A y \in {a, b} : x <= y
    OBVIOUS
  <1>2. Feed!Min({a, b}) \in {a, b} /\ \A y \in {a, b} : Feed!Min({a, b}) <= y
    BY <1>1 DEF Feed!Min
  <1> QED
    BY <1>2

LEMMA FeedPage == ASSUME FeedInv, Feed!ReadPage PROVE FeedInv'
  <1>1. PICK c, before : /\ c = (IF feedReader.open THEN feedReader.cursor ELSE MaxPosts + 1)
                         /\ before = (IF feedReader.open THEN feedReader.seen ELSE <<>>)
    OBVIOUS
  <1>2. PICK s : s = Feed!Shown(c)
    OBVIOUS
  <1>3. PICK k : k = Feed!Min({PageLimit, Len(s)})
    OBVIOUS
  <1>4. PICK page : page = SubSeq(s, 1, k)
    OBVIOUS
  <1>5. PICK d, more : d = (IF page = <<>> THEN 0 ELSE page[Len(page)]) /\
          more = (Len(s) > PageLimit)
    OBVIOUS
  <1>6. /\ feedReader' = [open |-> TRUE, more |-> more, seen |-> before \o page, cursor |-> d]
        /\ feedCrossed' = IF feedReader.open THEN feedCrossed ELSE feedCrossed \ {0}
        /\ UNCHANGED <<feedPost, feedReaction, feedComment, feedWork, feedTold, feedBegun>>
        /\ ~feedReader.open \/ feedReader.more
    BY <1>1, <1>2, <1>3, <1>4, <1>5 DEF Feed!ReadPage
  <1>7. /\ feedReader.cursor \in 0 .. MaxPosts + 1 /\ feedReader.seen \in Seq(Feed!Posts)
        /\ feedReader.open \in BOOLEAN /\ feedReader.more \in BOOLEAN
    BY DEF FeedInv, WallShape, WallReader
  <1>8. c \in Nat /\ c <= MaxPosts + 1 /\ before \in Seq(Feed!Posts)
    BY <1>1, <1>7, FeedSizes
  <1>9. /\ s \in Seq(Feed!Posts) /\ DOMAIN s = 1 .. Len(s) /\ Len(s) \in Nat
        /\ \A i \in 1 .. Len(s) : s[i] \in DOMAIN feedPost /\ Feed!Live(s[i]) /\ s[i] < c
        /\ \A p \in DOMAIN feedPost : Feed!Live(p) /\ p < c => \E i \in 1 .. Len(s) : s[i] = p
        /\ WallNoPins => \A i, j \in 1 .. Len(s) : i < j => s[i] > s[j]
    BY <1>2, <1>8, FeedShown
  <1>20. s \in Seq(Feed!Posts) /\ Len(s) \in Nat
    BY <1>9
  <1>10. /\ k \in Nat /\ k <= Len(s) /\ (more => k = PageLimit /\ k # 0) /\ (~more => k = Len(s))
         /\ k = 0 => Len(s) = 0
    <2>1. PICK m : m = Len(s)
      OBVIOUS
    <2>2. m \in Nat /\ k = Feed!Min({PageLimit, m}) /\ PageLimit \in Nat /\ PageLimit # 0 /\
            (more <=> m > PageLimit)
      BY <1>3, <1>5, <1>20, <2>1, FeedSizes
    <2>3. k \in {PageLimit, m} /\ k <= PageLimit /\ k <= m
      BY <2>2, FeedMin
    <2>4. /\ k \in Nat /\ k <= m /\ (more => k = PageLimit /\ k # 0) /\ (~more => k = m)
          /\ k = 0 => m = 0
      BY <2>2, <2>3
    <2> QED
      BY <2>1, <2>4
  <1>11. page \in Seq(Feed!Posts) /\ Len(page) = k /\ \A i \in 1 .. k : page[i] = s[i]
    <2>1. s \in Seq(Feed!Posts) /\ k \in Nat /\ k <= Len(s)
      BY <1>9, <1>10
    <2> QED
      BY <1>4, <2>1, SeqCut
  <1>12. d = (IF k = 0 THEN 0 ELSE s[k]) /\ d \in 0 .. MaxPosts + 1
    <2>1. page = <<>> <=> k = 0
      BY <1>10, <1>11
    <2>2. k # 0 => s[k] \in Feed!Posts
      <3>1. s \in Seq(Feed!Posts) /\ k \in Nat /\ k <= Len(s)
        BY <1>10, <1>20
      <3>2. k # 0 => k \in 1 .. k
        BY <3>1
      <3> QED
        BY <3>1, <3>2, SeqCut
    <2> QED
      BY <1>5, <1>10, <1>11, <2>1, <2>2, FeedSizes DEF Feed!Posts
  <1>13. PICK n, seen : n = Len(before) /\ seen = before \o page
    OBVIOUS
  <1>14. /\ n \in Nat /\ seen \in Seq(Feed!Posts) /\ Len(seen) = n + k
         /\ \A i \in 1 .. n : seen[i] = before[i]
         /\ \A i \in 1 .. k : seen[n + i] = s[i]
    <2>1. before \in Seq(Feed!Posts) /\ page \in Seq(Feed!Posts) /\ Len(page) = k /\
            n = Len(before) /\ n \in Nat
      BY <1>8, <1>11, <1>13
    <2>2. /\ seen \in Seq(Feed!Posts) /\ Len(seen) = n + k
          /\ \A i \in 1 .. n : seen[i] = before[i]
          /\ \A i \in 1 .. k : seen[n + i] = page[i]
      <3>1. /\ before \o page \in Seq(Feed!Posts) /\ Len(before \o page) = Len(before) + Len(page)
            /\ \A i \in 1 .. Len(before) : (before \o page)[i] = before[i]
            /\ \A i \in 1 .. Len(page) : (before \o page)[Len(before) + i] = page[i]
        BY <2>1, SeqJoined
      <3> QED
        BY <1>13, <2>1, <3>1
    <2> QED
      BY <1>11, <2>1, <2>2
  <1>15. /\ feedReader'.open = TRUE /\ feedReader'.more = more /\ feedReader'.seen = seen
         /\ feedReader'.cursor = d
         /\ feedReader' \in WallReader
    <2>1. feedReader'.open = TRUE /\ feedReader'.more = more /\ feedReader'.seen = seen /\
            feedReader'.cursor = d
      BY <1>6, <1>13
    <2>2. more \in BOOLEAN
      BY <1>5
    <2> QED
      BY <1>6, <1>12, <1>13, <1>14, <2>1, <2>2 DEF WallReader
  <1>16. WallShape'
    BY <1>6, <1>15 DEF FeedInv, WallShape
  <1>17. WallRooted' /\ (\A h \in FeedHandlers : WallKnows(h)' /\ WallSays(h)') /\
           \A p \in Feed!Posts \ DOMAIN feedPost' : WallUnborn(p)'
    BY <1>6 DEF FeedInv, WallRooted, WallHangs, WallUnderRoot, WallKnows, WallSays, WallUnborn
  <1>18. ASSUME NEW p \in DOMAIN feedPost' \ feedCrossed' PROVE WallAgreed(p)'
    <2>1. p \in DOMAIN feedPost \ feedCrossed
      BY <1>6, FeedDomain DEF FeedInv
    <2>2. WallAgreed(p) /\ Feed!LiveComments(p)' = Feed!LiveComments(p)
      BY <1>6, <2>1 DEF FeedInv, Feed!LiveComments
    <2>3. \A g \in FeedHandlers : (WallOn(g, p)' <=> WallOn(g, p)) /\ feedWork'[g] = feedWork[g]
      BY <1>6 DEF WallOn
    <2>4. feedTold'[p] = feedTold[p] /\ feedReaction'[p] = feedReaction[p] /\
            feedPost'[p] = feedPost[p]
      BY <1>6
    <2> QED
      BY <2>2, <2>3, <2>4, FeedSame
  <1>19. WallTurns'
    <2> SUFFICES ASSUME 0 \notin feedCrossed', WallNoPins' PROVE WallReads'
      BY <1>15 DEF WallTurns
    <2>1. WallNoPins
      BY <1>6 DEF WallNoPins
    <2> DEFINE L == {p \in DOMAIN feedPost : Feed!Live(p)}
    <2>2. L \subseteq Nat /\ \A p \in L : p < MaxPosts + 1
      BY FeedDomain, FeedSizes DEF FeedInv, Feed!Posts
    <2>3. ReadTo(before, n, c, L) /\ (n = 0 => c = MaxPosts + 1)
      <3>1. CASE feedReader.open
        <4>1. WallReads /\ feedReader.more
          BY <1>6, <2>1, <3>1 DEF FeedInv, WallTurns
        <4>2. before = feedReader.seen /\ c = feedReader.cursor /\ DOMAIN feedReader.seen = 1 .. n
              /\ (feedReader.seen = <<>> <=> n = 0)
          BY <1>1, <1>7, <1>13, <3>1
        <4>3. n # 0
          BY <4>1, <4>2 DEF WallReads
        <4>4. \A i \in 1 .. n : before[i] \in L /\ before[i] >= c
          BY <4>1, <4>2 DEF WallReads
        <4>5. Falls(before, n)
          BY <4>1, <4>2 DEF WallReads, Falls
        <4>6. \A p \in L : p <= before[1] => p < c \/ \E i \in 1 .. n : before[i] = p
          BY <4>1, <4>2, <4>3 DEF WallReads
        <4> QED
          BY <4>3, <4>4, <4>5, <4>6 DEF ReadTo
      <3>2. CASE ~feedReader.open
        <4>1. n = 0 /\ c = MaxPosts + 1
          BY <1>1, <1>13, <3>2
        <4> QED
          BY <4>1 DEF ReadTo, Falls
      <3> QED
        BY <3>1, <3>2
    <2>4. UnderIt(s, Len(s), c, L)
      BY <1>9, <2>1 DEF UnderIt, Falls
    <2>5. n = 0 => \A p \in L : p < c
      BY <2>2, <2>3
    <2> HIDE DEF L
    <2>6. /\ ReadTo(seen, n + k, d, L)
          /\ k = Len(s) => \A p \in L : (n + k # 0 /\ p <= seen[1]) =>
               \E i \in 1 .. n + k : seen[i] = p
      <3>1. PICK m : m = Len(s)
        OBVIOUS
      <3>2. L \subseteq Nat /\ c \in Nat /\ n \in Nat /\ m \in Nat /\ k \in Nat
        BY <1>8, <1>9, <1>10, <1>14, <2>2, <3>1
      <3>3. k <= m /\ (k = 0 => m = 0) /\ (n = 0 => \A p \in L : p < c)
        BY <1>10, <2>5, <3>1
      <3>4. ReadTo(before, n, c, L) /\ UnderIt(s, m, c, L)
        BY <2>3, <2>4, <3>1
      <3>5. /\ \A i \in 1 .. n : seen[i] = before[i]
            /\ \A i \in 1 .. k : seen[n + i] = s[i]
            /\ d = IF k = 0 THEN 0 ELSE s[k]
        BY <1>12, <1>14
      <3>7. OnePage(seen, before, s, n, m, k, c, d, L)
        BY <3>2, <3>3, <3>4, <3>5 DEF OnePage
      <3>6. /\ ReadTo(seen, n + k, d, L)
            /\ k = m => \A p \in L : (n + k # 0 /\ p <= seen[1]) =>
                 \E i \in 1 .. n + k : seen[i] = p
        BY <3>7, PageTurned
      <3> QED
        BY <3>1, <3>6
    <2>7. /\ DOMAIN feedReader'.seen = 1 .. n + k /\ (feedReader'.seen = <<>> <=> n + k = 0)
          /\ \A p : Feed!Live(p)' <=> Feed!Live(p)
      <3>1. \A p : Feed!Live(p)' <=> Feed!Live(p)
        BY <1>6 DEF Feed!Live
      <3>2. Len(seen) = n + k /\ seen \in Seq(Feed!Posts)
        BY <1>14
      <3>3. DOMAIN seen = 1 .. n + k /\ (seen = <<>> <=> n + k = 0)
        BY <3>2
      <3> QED
        BY <1>15, <3>1, <3>3
    <2>8. \A p \in DOMAIN feedPost : Feed!Live(p) <=> p \in L
      BY DEF L
    <2>9. L \subseteq DOMAIN feedPost
      BY DEF L
    <2>10. \A i \in 1 .. n + k : seen[i] \in DOMAIN feedPost /\ Feed!Live(seen[i]) /\ seen[i] >= d
      BY <2>6, <2>8, <2>9 DEF ReadTo
    <2>11. \A i, j \in 1 .. n + k : i < j => seen[i] > seen[j]
      BY <2>6 DEF ReadTo, Falls
    <2>12. \A p \in DOMAIN feedPost : (seen # <<>> /\ Feed!Live(p) /\ p <= seen[1]) =>
              p < d \/ \E i \in 1 .. n + k : seen[i] = p
      BY <1>15, <2>6, <2>7, <2>8 DEF ReadTo
    <2>13. ~more => \A p \in DOMAIN feedPost : (seen # <<>> /\ Feed!Live(p) /\ p <= seen[1]) =>
              \E i \in 1 .. n + k : seen[i] = p
      BY <1>10, <1>15, <2>6, <2>7, <2>8
    <2>14. more => seen # <<>>
      BY <1>10, <1>14, <1>15, <2>7
    <2>15. feedPost' = feedPost
      BY <1>6
    <2> QED
      BY <1>15, <2>7, <2>10, <2>11, <2>12, <2>13, <2>14, <2>15 DEF WallReads
  <1> QED
    BY <1>16, <1>17, <1>18, <1>19 DEF FeedInv

LEMMA FeedLeave == ASSUME FeedInv, Feed!LeaveFeed PROVE FeedInv'
  <1>1. feedReader' = Feed!NoReader /\
          UNCHANGED <<feedPost, feedReaction, feedComment, feedWork, feedTold, feedBegun,
              feedCrossed>>
    BY DEF Feed!LeaveFeed
  <1>2. WallShape'
    <2>1. Feed!NoReader \in WallReader
      BY FeedSizes DEF Feed!NoReader, WallReader
    <2> QED
      BY <1>1, <2>1 DEF FeedInv, WallShape
  <1>3. WallRooted' /\ (\A h \in FeedHandlers : WallKnows(h)' /\ WallSays(h)') /\
          \A p \in Feed!Posts \ DOMAIN feedPost' : WallUnborn(p)'
    BY <1>1 DEF FeedInv, WallRooted, WallHangs, WallUnderRoot, WallKnows, WallSays, WallUnborn
  <1>4. ASSUME NEW p \in DOMAIN feedPost' \ feedCrossed' PROVE WallAgreed(p)'
    <2>1. WallAgreed(p) /\ Feed!LiveComments(p)' = Feed!LiveComments(p)
      BY <1>1 DEF FeedInv, Feed!LiveComments
    <2>2. \A g \in FeedHandlers : (WallOn(g, p)' <=> WallOn(g, p)) /\ feedWork'[g] = feedWork[g]
      BY <1>1 DEF WallOn
    <2>3. feedTold'[p] = feedTold[p] /\ feedReaction'[p] = feedReaction[p] /\
            feedPost'[p] = feedPost[p]
      BY <1>1
    <2> QED
      BY <2>1, <2>2, <2>3, FeedSame
  <1>5. WallTurns'
    BY <1>1 DEF WallTurns, Feed!NoReader
  <1> QED
    BY <1>2, <1>3, <1>4, <1>5 DEF FeedInv

LEMMA FeedStutter == ASSUME FeedInv, UNCHANGED Feed!vars PROVE FeedInv'
  <1>1. UNCHANGED <<feedPost, feedReaction, feedComment, feedWork, feedTold, feedReader,
          feedBegun, feedCrossed>>
    BY DEF Feed!vars
  <1>2. WallShape' /\ WallRooted' /\ (\A h \in FeedHandlers : WallKnows(h)' /\ WallSays(h)')
        /\ \A p \in Feed!Posts \ DOMAIN feedPost' : WallUnborn(p)'
    BY <1>1 DEF FeedInv, WallShape, WallRooted, WallHangs, WallUnderRoot, WallKnows, WallSays,
    WallUnborn
  <1>3. ASSUME NEW p \in DOMAIN feedPost' \ feedCrossed' PROVE WallAgreed(p)'
    <2>1. WallAgreed(p) /\ Feed!LiveComments(p)' = Feed!LiveComments(p)
      BY <1>1 DEF FeedInv, Feed!LiveComments
    <2>2. \A g \in FeedHandlers : (WallOn(g, p)' <=> WallOn(g, p)) /\ feedWork'[g] = feedWork[g]
      BY <1>1 DEF WallOn
    <2>3. feedTold'[p] = feedTold[p] /\ feedReaction'[p] = feedReaction[p] /\
            feedPost'[p] = feedPost[p]
      BY <1>1
    <2> QED
      BY <2>1, <2>2, <2>3, FeedSame
  <1>4. WallTurns'
    BY <1>1, FeedUnread DEF FeedInv
  <1> QED
    BY <1>2, <1>3, <1>4 DEF FeedInv

LEMMA FeedStep == ASSUME FeedInv, [Feed!Next]_(Feed!vars) PROVE FeedInv'
  <1>1. CASE Feed!CreatePost \/ Feed!ReadPage \/ Feed!LeaveFeed
    BY <1>1, FeedCreate, FeedPage, FeedLeave
  <1>2. ASSUME NEW h \in FeedHandlers,
               \/ Feed!BeginReact(h) \/ Feed!BeginUnreact(h) \/ Feed!BeginComment(h) \/
                    Feed!BeginUncomment(h)
               \/ Feed!BeginPin(h) \/ Feed!BeginRemove(h)
        PROVE  FeedInv'
    BY <1>2, FeedBegins
  <1>3. ASSUME NEW h \in FeedHandlers,
               \/ Feed!WriteReaction(h) \/ Feed!WriteComment(h) \/ Feed!DeleteComment(h) \/
                    Feed!WritePost(h)
               \/ Feed!ReadBack(h) \/ Feed!Emit(h)
        PROVE  FeedInv'
    BY <1>3, FeedReact, FeedReply, FeedUncomment, FeedPost, FeedReadBack, FeedEmit
  <1>4. CASE UNCHANGED Feed!vars
    BY <1>4, FeedStutter
  <1> QED
    BY <1>1, <1>2, <1>3, <1>4 DEF Feed!Next

-----------------------------------------------------------------------------
LEMMA FeedHolds == ASSUME FeedInv PROVE Feed!TypeOK /\ Feed!FeedIsTold
  <1>1. Feed!TypeOK
    <2>1. \A p \in DOMAIN feedPost : feedPost[p] \in WallRow
      BY FeedDomain DEF FeedInv
    <2>2. \A h \in FeedHandlers : feedWork[h] = Feed!Idle \/
            feedWork[h].pc \in {"write", "read", "emit"}
      <3> SUFFICES ASSUME NEW h \in FeedHandlers, feedWork[h] # Feed!Idle
            PROVE feedWork[h].pc \in {"write", "read", "emit"}
        OBVIOUS
      <3>1. feedWork[h] \in WallWorking
        BY DEF FeedInv, WallShape
      <3> QED
        BY <3>1 DEF WallWorking
    <2>3. feedReader.cursor \in 0 .. MaxPosts + 1
      BY DEF FeedInv, WallShape, WallReader
    <2> QED
      BY <2>1, <2>2, <2>3 DEF FeedInv, WallShape, WallRow, WallTold, Feed!TypeOK
  <1>2. Feed!EventsStand
    <2> SUFFICES ASSUME NEW p \in DOMAIN feedPost, Feed!Quiet(p)
                 PROVE  /\ feedTold[p].reactions = Feed!ReactionsOf(p)
                        /\ Feed!Orphans(p) = {} => feedTold[p].comments = Feed!CommentsRead(p)
                        /\ feedTold[p].pinned = feedPost[p].pinned
                        /\ feedTold[p].deleted = feedPost[p].deleted
      BY DEF Feed!EventsStand
    <2>1. WallAllTold(p)
      <3>1. WallAgreed(p) /\ \A h \in FeedHandlers : ~WallOn(h, p)
        BY DEF FeedInv, Feed!Quiet, WallOn
      <3> QED
        BY <3>1 DEF WallAgreed
    <2>2. ASSUME Feed!Orphans(p) = {} PROVE Feed!countComments(p) = Feed!CommentsRead(p)
      <3>1. ASSUME NEW c \in Feed!LiveComments(p), feedComment[c].parent # None
              PROVE feedComment[c].parent \in Feed!Roots(p)
        <4>1. PICK d : d = feedComment[c].parent
          OBVIOUS
        <4>2. c \in Comments /\ feedComment[c] # None /\ feedComment[c].post = p
          BY DEF Feed!LiveComments
        <4>3. WallUnderRoot(d, p)
          BY <3>1, <4>1, <4>2 DEF FeedInv, WallRooted, WallHangs
        <4>4. d \in Comments /\ feedComment[d] \in Feed!Comment /\ feedComment[d].post = p /\
                feedComment[d].parent = None /\ feedComment[d] # None
          BY <4>3 DEF WallUnderRoot, FeedInv, WallShape
        <4>5. ~feedComment[d].deleted
          BY <2>2, <3>1, <4>1 DEF Feed!Orphans
        <4> QED
          BY <4>1, <4>4, <4>5 DEF Feed!Roots, Feed!LiveComments
      <3>2. Feed!LiveComments(p) =
              Feed!Roots(p) \cup
                  {c \in Feed!LiveComments(p) : feedComment[c].parent \in Feed!Roots(p)}
        BY <3>1 DEF Feed!Roots
      <3> QED
        BY <3>2 DEF Feed!countComments, Feed!CommentsRead
    <2> QED
      BY <2>1, <2>2 DEF WallAllTold, WallReactionsTold, WallCommentsTold
  <1>3. Feed!PagesShowAll
    <2> SUFFICES ASSUME feedReader.open, ~feedReader.more, 0 \notin feedCrossed,
                        \A p \in DOMAIN feedPost : ~feedPost[p].pinned
                 PROVE  /\ Feed!IsInjective(feedReader.seen)
                        /\ feedReader.seen # <<>> =>
                             {p \in DOMAIN feedPost : Feed!Live(p) /\ p <= feedReader.seen[1]} =
                                 Feed!Range(feedReader.seen)
      BY DEF Feed!PagesShowAll
    <2>1. WallNoPins
      BY FeedDomain DEF FeedInv, WallRow, WallNoPins
    <2>2. WallReads
      BY <2>1 DEF FeedInv, WallTurns
    <2>3. PICK s, n : s = feedReader.seen /\ n = Len(s)
      OBVIOUS
    <2>4. s \in Seq(Feed!Posts) /\ DOMAIN s = 1 .. n /\ n \in Nat /\ \A i \in 1 .. n : s[i] \in Nat
      <3>1. s \in Seq(Feed!Posts)
        BY <2>3 DEF FeedInv, WallShape, WallReader
      <3>2. DOMAIN s = 1 .. n /\ n \in Nat /\ \A i \in 1 .. n : s[i] \in Feed!Posts
        BY <2>3, <3>1, SeqCut
      <3>3. Feed!Posts \subseteq Nat
        BY DEF Feed!Posts
      <3> QED
        BY <3>1, <3>2, <3>3
    <2>5. /\ \A i \in 1 .. n : s[i] \in DOMAIN feedPost /\ Feed!Live(s[i])
          /\ \A i, j \in 1 .. n : i < j => s[i] > s[j]
          /\ s # <<>> => \A p \in DOMAIN feedPost : Feed!Live(p) /\ p <= s[1] =>
               \E i \in 1 .. n : s[i] = p
      BY <2>2, <2>3, <2>4 DEF WallReads
    <2>6. Feed!IsInjective(s)
      <3> SUFFICES ASSUME NEW i \in 1 .. n, NEW j \in 1 .. n, i # j PROVE s[i] # s[j]
        BY <2>4 DEF Feed!IsInjective
      <3>1. i < j \/ j < i
        BY <2>4
      <3> QED
        BY <2>4, <2>5, <3>1
    <2>7. ASSUME s # <<>> PROVE {p \in DOMAIN feedPost : Feed!Live(p) /\ p <= s[1]} = Feed!Range(s)
      <3>1. Feed!Range(s) = {s[i] : i \in 1 .. n}
        BY <2>4 DEF Feed!Range
      <3>2. ASSUME NEW i \in 1 .. n PROVE s[i] <= s[1]
        <4>1. 1 \in 1 .. n /\ (i = 1 \/ 1 < i)
          BY <2>4
        <4> QED
          BY <2>4, <2>5, <4>1
      <3>3. \A i \in 1 .. n : s[i] \in {p \in DOMAIN feedPost : Feed!Live(p) /\ p <= s[1]}
        BY <2>5, <3>2
      <3>4. \A p \in DOMAIN feedPost : Feed!Live(p) /\ p <= s[1] => p \in {s[i] : i \in 1 .. n}
        BY <2>5, <2>7
      <3> QED
        BY <3>1, <3>3, <3>4
    <2> QED
      BY <2>3, <2>6, <2>7
  <1> QED
    BY <1>1, <1>2, <1>3 DEF Feed!FeedIsTold
-----------------------------------------------------------------------------
(* Forms and their submissions.                                           *)

FormSubmitted == [form : FormIds, data : SubmittedData, status : Forms!Reviews]
FormWorking ==
    {Forms!Idle} \cup [pc : {"delete"}, id : FormIds] \cup
        [pc : {"submit"}, id : FormIds, data : SubmittedData]
      \cup [pc : {"update"}, id : FormIds, status : Forms!Statuses \cup {None},
          schema : Schemas \cup {None}]

FormShape ==
    /\ formsForm \in [FormIds -> Forms!Form \cup {None}]
    /\ formsSubmission \in [Submissions -> FormSubmitted \cup {None}]
    /\ formsTaken \in [Submissions -> Forms!Form \cup {None}]
    /\ formsWork \in [FormHandlers -> FormWorking]
    /\ formsUpdates \in 0 .. MaxUpdates
    /\ formsCrossed \subseteq FormIds /\ formsUndone \subseteq FormIds

FormFits(f, data) ==
    f.status = "PUBLISHED" /\ (f.type = "NATIVE" => Forms!validateSubmissionData(f.schema, data))

\* What a handler has checked is still so, unless the form changed under it.
FormChecked(h) ==
    /\ formsWork[h].pc = "submit" /\ formsWork[h].id \notin formsCrossed =>
          formsForm[formsWork[h].id] # None /\
              FormFits(formsForm[formsWork[h].id], formsWork[h].data)
    /\ formsWork[h].pc = "update" /\ formsWork[h].id \notin formsCrossed /\
         formsWork[h].status = "DRAFT" =>
          formsForm[formsWork[h].id] = None \/ formsForm[formsWork[h].id].status # "PUBLISHED"

\* What SubmissionsFit says of one submission.
FormKept(s) ==
    formsSubmission[s] # None =>
       /\ formsForm[formsSubmission[s].form] # None
       /\ formsSubmission[s].form \notin formsCrossed =>
            FormFits(formsTaken[s], formsSubmission[s].data)

FormsInv ==
    /\ FormShape
    /\ \A h \in FormHandlers : FormChecked(h)
    /\ \A s \in Submissions : FormKept(s)
    /\ formsUndone \subseteq formsCrossed

LEMMA FormInit == Forms!Init => FormsInv
  BY ComponentsAssumption DEF Forms!Init, FormsInv, FormShape, FormChecked, FormKept,
  FormWorking, Forms!Idle, Forms!FormsAssumption

\* A handler that has begun or ended, with the rows as they were.
LEMMA FormWork ==
    ASSUME FormsInv, NEW h \in FormHandlers, NEW w \in FormWorking,
           formsWork' = [formsWork EXCEPT ![h] = w],
           UNCHANGED <<formsForm, formsSubmission, formsTaken, formsCrossed, formsUndone>>,
           formsUpdates' \in 0 .. MaxUpdates,
           w.pc = "submit" => formsForm[w.id] # None /\ FormFits(formsForm[w.id], w.data),
           w.pc = "update" /\ w.status = "DRAFT" => formsForm[w.id].status # "PUBLISHED"
    PROVE  FormsInv'
  <1>1. FormShape'
    BY DEF FormsInv, FormShape
  <1>2. ASSUME NEW g \in FormHandlers PROVE FormChecked(g)'
    <2>1. CASE g = h
      BY <2>1 DEF FormsInv, FormShape, FormChecked
    <2>2. CASE g # h
      <3>1. formsWork'[g] = formsWork[g]
        BY <2>2 DEF FormsInv, FormShape
      <3> QED
        BY <3>1 DEF FormsInv, FormChecked
    <2> QED
      BY <2>1, <2>2
  <1>3. ASSUME NEW s \in Submissions PROVE FormKept(s)'
    BY DEF FormsInv, FormKept
  <1> QED
    BY <1>1, <1>2, <1>3 DEF FormsInv

LEMMA FormCreate == ASSUME FormsInv, NEW h \in FormHandlers, Forms!Create(h) PROVE FormsInv'
  <1>1. PICK i \in FormIds, type \in Forms!FormTypes :
          /\ formsForm[i] = None /\ Forms!Of(i) = {}
          /\ formsForm' =
               [formsForm EXCEPT ![i] = [type |-> type, status |-> "DRAFT", schema |-> None]]
    BY DEF Forms!Create
  <1>2. UNCHANGED <<formsSubmission, formsWork, formsUpdates, formsTaken, formsCrossed,
          formsUndone>>
    BY DEF Forms!Create
  <1> DEFINE new == [type |-> type, status |-> "DRAFT", schema |-> None]
  <1>3. new \in Forms!Form /\ new # None /\ new.status # "PUBLISHED"
    BY ComponentsAssumption DEF Forms!Form, Forms!Statuses, Forms!FormsAssumption
  <1>4. formsForm' = [formsForm EXCEPT ![i] = new]
    BY <1>1
  <1> HIDE DEF new
  <1>5. FormShape'
    BY <1>2, <1>3, <1>4 DEF FormsInv, FormShape
  <1>6. ASSUME NEW g \in FormHandlers PROVE FormChecked(g)'
    <2>1. CASE formsWork[g].id = i
      BY <1>1, <1>2, <1>3, <1>4, <2>1 DEF FormsInv, FormShape, FormChecked, FormFits
    <2>2. CASE formsWork[g].id # i
      <3>1. formsForm'[formsWork[g].id] = formsForm[formsWork[g].id] \/
              formsWork[g].pc \notin {"submit", "update"}
        BY <1>4, <2>2 DEF FormsInv, FormShape, FormWorking, Forms!Idle
      <3> QED
        BY <1>2, <3>1 DEF FormsInv, FormChecked
    <2> QED
      BY <2>1, <2>2
  <1>7. ASSUME NEW s \in Submissions PROVE FormKept(s)'
    BY <1>2, <1>3, <1>4 DEF FormsInv, FormShape, FormKept, FormSubmitted
  <1> QED
    BY <1>2, <1>5, <1>6, <1>7 DEF FormsInv

\* Whoever has read a form that changes, other than the handler, is crossed.
LEMMA FormOthers ==
    ASSUME FormsInv, NEW h \in FormHandlers, NEW i \in FormIds, Forms!Changes(h, i),
           formsWork' = [formsWork EXCEPT ![h] = Forms!Idle],
           \A j \in FormIds \ {i} : formsForm'[j] = formsForm[j], NEW g \in FormHandlers
    PROVE  FormChecked(g)'
  <1>1. CASE g = h
    BY <1>1 DEF FormsInv, FormShape, FormChecked, Forms!Idle
  <1>2. CASE g # h /\ formsWork[g] # Forms!Idle /\ formsWork[g].id = i
    <2>1. i \in formsCrossed'
      BY <1>2 DEF Forms!Changes
    <2>2. formsWork'[g] = formsWork[g]
      BY <1>2 DEF FormsInv, FormShape
    <2> QED
      BY <1>2, <2>1, <2>2 DEF FormChecked
  <1>3. CASE g # h /\ formsWork[g] # Forms!Idle /\ formsWork[g].id # i
    <2>1. formsWork'[g] = formsWork[g] /\ formsWork[g].id \in FormIds \ {i}
      BY <1>3 DEF FormsInv, FormShape, FormWorking
    <2>2. formsForm'[formsWork[g].id] = formsForm[formsWork[g].id]
      BY <2>1
    <2>3. formsCrossed \subseteq formsCrossed'
      BY DEF Forms!Changes
    <2> QED
      BY <2>1, <2>2, <2>3 DEF FormsInv, FormChecked
  <1>4. CASE g # h /\ formsWork[g] = Forms!Idle
    BY <1>4 DEF FormsInv, FormShape, FormChecked, Forms!Idle
  <1> QED
    BY <1>1, <1>2, <1>3, <1>4

LEMMA FormUpdate == ASSUME FormsInv, NEW h \in FormHandlers, Forms!Update(h) PROVE FormsInv'
  <1> DEFINE i == formsWork[h].id
             old == formsForm[i]
             new == [old EXCEPT !.status = IF formsWork[h].status = None THEN @
                 ELSE formsWork[h].status,
                                !.schema = IF formsWork[h].schema = None THEN @
                                    ELSE formsWork[h].schema]
  <1>1. /\ i \in FormIds /\ old \in Forms!Form /\ formsWork[h].pc = "update"
        /\ formsWork[h].status \in Forms!Statuses \cup {None}
        /\ formsWork[h].schema \in Schemas \cup {None}
    BY DEF Forms!Update, FormsInv, FormShape, FormWorking, Forms!Idle
  <1>2. new \in Forms!Form /\ new # None /\ new.status = IF formsWork[h].status = None
          THEN old.status ELSE formsWork[h].status
    BY <1>1, ComponentsAssumption DEF Forms!Form, Forms!FormsAssumption
  <1>3. /\ formsForm' = [formsForm EXCEPT ![i] = new]
        /\ formsUndone' =
             formsUndone \cup
                 {j \in {i} : old.status = "PUBLISHED" /\ formsForm'[i].status = "DRAFT"}
        /\ Forms!Changes(h, i) /\ formsWork' = [formsWork EXCEPT ![h] = Forms!Idle]
        /\ UNCHANGED <<formsSubmission, formsUpdates, formsTaken>>
    BY DEF Forms!Update
  <1>4. formsCrossed \subseteq formsCrossed' /\ formsCrossed' \subseteq FormIds
    BY <1>1, <1>3 DEF Forms!Changes, FormsInv, FormShape
  <1>5. formsForm'[i] = new
    BY <1>1, <1>3 DEF FormsInv, FormShape
  <1>6. ASSUME old.status = "PUBLISHED", new.status = "DRAFT" PROVE i \in formsCrossed
    BY <1>1, <1>2, <1>6, ComponentsAssumption DEF FormsInv, FormChecked, Forms!FormsAssumption
  <1>7. formsUndone' \subseteq formsCrossed' /\ formsUndone' \subseteq FormIds
    BY <1>1, <1>3, <1>4, <1>5, <1>6 DEF FormsInv, FormShape
  <1> HIDE DEF new
  <1>8. FormShape'
    <2>1. Forms!Idle \in FormWorking
      BY DEF FormWorking
    <2> QED
      BY <1>2, <1>3, <1>4, <1>7, <2>1 DEF FormsInv, FormShape
  <1>9. \A j \in FormIds \ {i} : formsForm'[j] = formsForm[j]
    BY <1>3 DEF FormsInv, FormShape
  <1>10. ASSUME NEW s \in Submissions PROVE FormKept(s)'
    <2>1. formsSubmission[s] # None => formsForm'[formsSubmission[s].form] # None
      BY <1>2, <1>3 DEF FormsInv, FormShape, FormKept, FormSubmitted
    <2> QED
      BY <1>3, <1>4, <2>1 DEF FormsInv, FormKept
  <1> QED
    BY <1>1, <1>3, <1>7, <1>8, <1>9, <1>10, FormOthers DEF FormsInv

LEMMA FormDelete == ASSUME FormsInv, NEW h \in FormHandlers, Forms!Delete(h) PROVE FormsInv'
  <1> DEFINE i == formsWork[h].id
  <1>1. i \in FormIds
    BY DEF Forms!Delete, FormsInv, FormShape, FormWorking, Forms!Idle
  <1>2. /\ formsForm' = [formsForm EXCEPT ![i] = None]
        /\ formsSubmission' =
             [s \in Submissions |-> IF s \in Forms!Of(i) THEN None ELSE formsSubmission[s]]
        /\ formsTaken' = [s \in Submissions |-> IF s \in Forms!Of(i) THEN None ELSE formsTaken[s]]
        /\ Forms!Changes(h, i) /\ formsWork' = [formsWork EXCEPT ![h] = Forms!Idle]
        /\ UNCHANGED <<formsUpdates, formsUndone>>
    BY DEF Forms!Delete
  <1>3. formsCrossed \subseteq formsCrossed' /\ formsCrossed' \subseteq FormIds
    BY <1>1, <1>2 DEF Forms!Changes, FormsInv, FormShape
  <1>4. FormShape'
    <2>1. Forms!Idle \in FormWorking
      BY DEF FormWorking
    <2> QED
      BY <1>2, <1>3, <2>1 DEF FormsInv, FormShape
  <1>5. \A j \in FormIds \ {i} : formsForm'[j] = formsForm[j]
    BY <1>2 DEF FormsInv, FormShape
  <1>6. ASSUME NEW s \in Submissions PROVE FormKept(s)'
    <2>1. CASE s \in Forms!Of(i)
      BY <1>2, <2>1 DEF FormKept
    <2>2. CASE s \notin Forms!Of(i) /\ formsSubmission[s] # None
      <3>1. formsSubmission'[s] = formsSubmission[s] /\ formsTaken'[s] = formsTaken[s]
        BY <1>2, <2>2
      <3>2. formsSubmission[s].form \in FormIds \ {i}
        BY <2>2 DEF Forms!Of, FormsInv, FormShape, FormSubmitted
      <3>3. formsForm'[formsSubmission[s].form] = formsForm[formsSubmission[s].form]
        BY <1>5, <3>2
      <3> QED
        BY <1>3, <3>1, <3>3 DEF FormsInv, FormKept
    <2>3. CASE s \notin Forms!Of(i) /\ formsSubmission[s] = None
      BY <1>2, <2>3 DEF FormKept
    <2> QED
      BY <2>1, <2>2, <2>3
  <1> QED
    BY <1>1, <1>2, <1>3, <1>4, <1>5, <1>6, FormOthers DEF FormsInv

LEMMA FormSubmit == ASSUME FormsInv, NEW h \in FormHandlers, Forms!Submit(h) PROVE FormsInv'
  <1> DEFINE i == formsWork[h].id
  <1>1. /\ i \in FormIds /\ formsWork[h].pc = "submit" /\ formsWork[h].data \in SubmittedData
        /\ formsForm[i] # None /\ formsForm[i] \in Forms!Form
    BY DEF Forms!Submit, FormsInv, FormShape, FormWorking, Forms!Idle
  <1>2. PICK s \in Submissions :
          /\ formsSubmission[s] = None
          /\ formsSubmission' =
               [formsSubmission EXCEPT ![s] =
                   [form |-> i, data |-> formsWork[h].data, status |-> "PENDING"]]
          /\ formsTaken' = [formsTaken EXCEPT ![s] = formsForm[i]]
    BY DEF Forms!Submit
  <1>3. formsWork' = [formsWork EXCEPT ![h] = Forms!Idle] /\
          UNCHANGED <<formsForm, formsUpdates, formsCrossed, formsUndone>>
    BY DEF Forms!Submit
  <1> DEFINE new == [form |-> i, data |-> formsWork[h].data, status |-> "PENDING"]
  <1>4. new \in FormSubmitted /\ new.form = i /\ new.data = formsWork[h].data
    BY <1>1 DEF FormSubmitted, Forms!Reviews
  <1> HIDE DEF new
  <1>5. FormShape'
    <2>1. Forms!Idle \in FormWorking
      BY DEF FormWorking
    <2> QED
      BY <1>1, <1>2, <1>3, <1>4, <2>1 DEF FormsInv, FormShape, new
  <1>6. ASSUME NEW g \in FormHandlers PROVE FormChecked(g)'
    <2>1. CASE g = h
      BY <1>3, <2>1 DEF FormsInv, FormShape, FormChecked, Forms!Idle
    <2>2. CASE g # h
      <3>1. formsWork'[g] = formsWork[g]
        BY <1>3, <2>2 DEF FormsInv, FormShape
      <3> QED
        BY <1>3, <3>1 DEF FormsInv, FormChecked
    <2> QED
      BY <2>1, <2>2
  <1>7. ASSUME NEW t \in Submissions PROVE FormKept(t)'
    <2>1. CASE t = s
      <3>1. formsSubmission'[s] = new /\ formsTaken'[s] = formsForm[i]
        BY <1>2 DEF FormsInv, FormShape, new
      <3>2. i \notin formsCrossed => FormFits(formsForm[i], formsWork[h].data)
        BY <1>1 DEF FormsInv, FormChecked
      <3> QED
        BY <1>1, <1>3, <1>4, <2>1, <3>1, <3>2 DEF FormKept
    <2>2. CASE t # s
      <3>1. formsSubmission'[t] = formsSubmission[t] /\ formsTaken'[t] = formsTaken[t]
        BY <1>2, <2>2 DEF FormsInv, FormShape
      <3> QED
        BY <1>3, <3>1 DEF FormsInv, FormKept
    <2> QED
      BY <2>1, <2>2
  <1> QED
    BY <1>3, <1>5, <1>6, <1>7 DEF FormsInv

LEMMA FormReview == ASSUME FormsInv, Forms!Review PROVE FormsInv'
  <1>1. PICK s \in Submissions, status \in {"APPROVED", "REJECTED"} :
          /\ formsSubmission[s] # None
          /\ formsSubmission' = [formsSubmission EXCEPT ![s].status = status]
    BY DEF Forms!Review
  <1>2. UNCHANGED <<formsForm, formsWork, formsUpdates, formsTaken, formsCrossed, formsUndone>>
    BY DEF Forms!Review
  <1> DEFINE new == [formsSubmission[s] EXCEPT !.status = status]
  <1>3. formsSubmission[s] \in FormSubmitted
    BY <1>1 DEF FormsInv, FormShape
  <1>4. new \in FormSubmitted /\ new.form = formsSubmission[s].form /\
          new.data = formsSubmission[s].data
    BY <1>3 DEF FormSubmitted, Forms!Reviews
  <1>5. formsSubmission' = [formsSubmission EXCEPT ![s] = new]
    BY <1>1 DEF FormsInv, FormShape
  <1> HIDE DEF new
  <1>6. FormShape'
    BY <1>2, <1>4, <1>5 DEF FormsInv, FormShape
  <1>7. ASSUME NEW g \in FormHandlers PROVE FormChecked(g)'
    BY <1>2 DEF FormsInv, FormChecked
  <1>8. ASSUME NEW t \in Submissions PROVE FormKept(t)'
    <2>1. CASE t = s
      BY <1>1, <1>2, <1>4, <1>5, <2>1 DEF FormsInv, FormShape, FormKept
    <2>2. CASE t # s
      <3>1. formsSubmission'[t] = formsSubmission[t]
        BY <1>5, <2>2 DEF FormsInv, FormShape
      <3> QED
        BY <1>2, <3>1 DEF FormsInv, FormKept
    <2> QED
      BY <2>1, <2>2
  <1> QED
    BY <1>2, <1>6, <1>7, <1>8 DEF FormsInv

LEMMA FormStep == FormsInv /\ [Forms!Next]_(Forms!vars) => FormsInv'
  <1> SUFFICES ASSUME FormsInv, [Forms!Next]_(Forms!vars) PROVE FormsInv'
    OBVIOUS
  <1>1. CASE UNCHANGED Forms!vars
    BY <1>1 DEF Forms!vars, FormsInv, FormShape, FormChecked, FormKept
  <1>2. ASSUME NEW h \in FormHandlers, Forms!BeginUpdate(h) PROVE FormsInv'
    <2>1. PICK i \in FormIds, status \in Forms!Statuses \cup {None},
    schema \in Schemas \cup {None} :
            /\ formsForm[i] # None /\ ~(formsForm[i].status = "PUBLISHED" /\ status = "DRAFT")
            /\ formsWork' =
                 [formsWork EXCEPT ![h] =
                     [pc |-> "update", id |-> i, status |-> status, schema |-> schema]]
      BY <1>2 DEF Forms!BeginUpdate
    <2> DEFINE w == [pc |-> "update", id |-> i, status |-> status, schema |-> schema]
    <2>2. w \in FormWorking /\ w.pc = "update" /\ w.id = i /\ w.status = status
      BY DEF FormWorking
    <2>3. formsUpdates' \in 0 .. MaxUpdates /\
            UNCHANGED <<formsForm, formsSubmission, formsTaken, formsCrossed, formsUndone>>
      BY <1>2, ComponentsAssumption DEF Forms!BeginUpdate, FormsInv, FormShape,
      Forms!FormsAssumption
    <2>4. formsWork' = [formsWork EXCEPT ![h] = w]
      BY <2>1
    <2> HIDE DEF w
    <2> QED
      BY <2>1, <2>2, <2>3, <2>4, FormWork
  <1>3. ASSUME NEW h \in FormHandlers, Forms!BeginDelete(h) PROVE FormsInv'
    <2>1. PICK i \in FormIds : formsWork' = [formsWork EXCEPT ![h] = [pc |-> "delete", id |-> i]]
      BY <1>3 DEF Forms!BeginDelete
    <2> DEFINE w == [pc |-> "delete", id |-> i]
    <2>2. w \in FormWorking /\ w.pc = "delete"
      BY DEF FormWorking
    <2>3. formsUpdates' \in 0 .. MaxUpdates /\
            UNCHANGED <<formsForm, formsSubmission, formsTaken, formsCrossed, formsUndone>>
      BY <1>3 DEF Forms!BeginDelete, FormsInv, FormShape
    <2>4. formsWork' = [formsWork EXCEPT ![h] = w]
      BY <2>1
    <2> HIDE DEF w
    <2> QED
      BY <2>2, <2>3, <2>4, FormWork
  <1>4. ASSUME NEW h \in FormHandlers, Forms!BeginSubmit(h) PROVE FormsInv'
    <2>1. PICK i \in FormIds, data \in SubmittedData :
            /\ formsForm[i] # None /\ formsForm[i].status = "PUBLISHED"
            /\ formsForm[i].type = "NATIVE" =>
                 Forms!validateSubmissionData(formsForm[i].schema, data)
            /\ formsWork' = [formsWork EXCEPT ![h] = [pc |-> "submit", id |-> i, data |-> data]]
      BY <1>4 DEF Forms!BeginSubmit
    <2> DEFINE w == [pc |-> "submit", id |-> i, data |-> data]
    <2>2. w \in FormWorking /\ w.pc = "submit" /\ w.id = i /\ w.data = data
      BY DEF FormWorking
    <2>3. formsUpdates' \in 0 .. MaxUpdates /\
            UNCHANGED <<formsForm, formsSubmission, formsTaken, formsCrossed, formsUndone>>
      BY <1>4 DEF Forms!BeginSubmit, FormsInv, FormShape
    <2>4. formsWork' = [formsWork EXCEPT ![h] = w]
      BY <2>1
    <2>5. FormFits(formsForm[i], data)
      BY <2>1 DEF FormFits
    <2> HIDE DEF w
    <2> QED
      BY <2>1, <2>2, <2>3, <2>4, <2>5, FormWork
  <1>5. ASSUME NEW h \in FormHandlers, Forms!Fail(h) PROVE FormsInv'
    <2>1. Forms!Idle \in FormWorking /\ Forms!Idle.pc = "idle"
      BY DEF FormWorking, Forms!Idle
    <2> QED
      BY <1>5, <2>1, FormWork DEF Forms!Fail, FormsInv, FormShape
  <1> QED
    BY <1>1, <1>2, <1>3, <1>4, <1>5, FormCreate, FormUpdate, FormDelete, FormSubmit,
    FormReview DEF Forms!Next

LEMMA FormHolds == FormsInv => Forms!TypeOK /\ Forms!SubmissionsFit
  <1> SUFFICES ASSUME FormsInv PROVE Forms!TypeOK /\ Forms!SubmissionsFit
    OBVIOUS
  <1>1. Forms!TypeOK
    BY DEF FormsInv, FormShape, Forms!TypeOK, FormSubmitted, FormWorking
  <1>2. Forms!SubmissionsFit
    BY DEF FormsInv, FormKept, FormFits, Forms!SubmissionsFit, Forms!validateSubmissionData
  <1> QED
    BY <1>1, <1>2
-----------------------------------------------------------------------------
(* Overtime.                                                              *)

LEMMA OvertimeCount == \A S : Overtime!Cardinality(S) = Cardinality(S)
  BY DEF Overtime!Cardinality, Cardinality

LEMMA OvertimeFinite == \A S : Overtime!IsFiniteSet(S) <=> IsFiniteSet(S)
  BY DEF Overtime!IsFiniteSet, IsFiniteSet


OvertimeChecked == [pc : {"create"}, day : 1 .. DaysOfMonth, slots : SUBSET Overtime!Slot]
OvertimeReviewing == [pc : {"update", "tell"}, id : OvertimeIds]

OvertimeShape ==
    /\ overtimeToday \in 1 .. DaysOfMonth
    /\ overtimeEntry \in [OvertimeIds -> Overtime!Entry \cup {Overtime!NoEntry}]
    /\ overtimeBatch \in [OvertimeBatches -> OvertimeChecked \cup {Overtime!Nobody}]
    /\ overtimeReview \in [OvertimeReviews -> OvertimeReviewing \cup {Overtime!Nobody}]
    /\ overtimeTold \subseteq OvertimeIds /\ overtimeCrossed \in BOOLEAN

OvertimeLong == [i \in OvertimeIds |-> overtimeEntry[i].slot.length]
OvertimeWanted == [s \in Overtime!Slot |-> s.length]
OvertimeBooked(day) == SumFunctionOnSet(OvertimeLong, Overtime!Dated(day))

OvertimeFits(day) ==
    /\ OvertimeBooked(day) <= DailyLimit
    /\ \A i, j \in Overtime!Dated(day) : i # j =>
         ~Overtime!Overlap(overtimeEntry[i].slot, overtimeEntry[j].slot)

\* What create has checked is still so.
OvertimeStillFits(b) ==
    overtimeBatch[b] # Overtime!Nobody =>
        /\ \A s, t \in overtimeBatch[b].slots : s # t => ~Overtime!Overlap(s, t)
        /\ \A s \in overtimeBatch[b].slots,
             i \in Overtime!Dated(overtimeBatch[b].day) :
                 ~Overtime!Overlap(s, overtimeEntry[i].slot)
        /\ OvertimeBooked(overtimeBatch[b].day) +
             SumFunctionOnSet(OvertimeWanted, overtimeBatch[b].slots) <= DailyLimit

\* What the guard has let in is still so.
OvertimeStillPending(r) ==
    overtimeReview[r] # Overtime!Nobody =>
        /\ overtimeReview[r].pc = "update" => overtimeEntry[overtimeReview[r].id].status = "PENDING"
        /\ overtimeReview[r].pc = "tell" => overtimeEntry[overtimeReview[r].id].status = "APPROVED"

OvertimeInv ==
    /\ OvertimeShape
    /\ \A r \in OvertimeReviews : overtimeReview[r] # Overtime!Nobody =>
         overtimeEntry[overtimeReview[r].id] # Overtime!NoEntry
    /\ \A i \in overtimeTold : overtimeEntry[i] # Overtime!NoEntry
    /\ ~overtimeCrossed =>
         /\ \A day \in 1 .. DaysOfMonth : OvertimeFits(day)
         /\ \A b, c \in OvertimeBatches : overtimeBatch[b] # Overtime!Nobody /\
              overtimeBatch[c] # Overtime!Nobody => b = c
         /\ \A b \in OvertimeBatches : OvertimeStillFits(b)
         /\ \A q, r \in OvertimeReviews :
              overtimeReview[q] # Overtime!Nobody /\ overtimeReview[r] # Overtime!Nobody /\
                  overtimeReview[q].id = overtimeReview[r].id => q = r
         /\ \A r \in OvertimeReviews : OvertimeStillPending(r)
         /\ \A i \in overtimeTold : overtimeEntry[i].status = "APPROVED"

LEMMA OvertimeSum == \A f : Overtime!SumFunction(f) = SumFunctionOnSet(f, DOMAIN f)
  BY DEF Overtime!SumFunction, Overtime!SumFunctionOnSet, Overtime!FoldFunctionOnSet,
     Overtime!MapThenFoldSet, SumFunctionOnSet, FoldFunctionOnSet, MapThenFoldSet

LEMMA OvertimeHours ==
    ASSUME NEW S \in SUBSET OvertimeIds, \A i \in S : overtimeEntry[i].slot.length \in Int
    PROVE  Overtime!HoursOf(S) = SumFunctionOnSet(OvertimeLong, S)
  <1>1. PICK f : f = [i \in S |-> overtimeEntry[i].slot.length]
    OBVIOUS
  <1>2. IsFiniteSet(S) /\ \A i \in S : f[i] \in Int /\ f[i] = OvertimeLong[i]
    BY <1>1, ComponentsAssumption, OvertimeFinite, FS_Subset DEF OvertimeLong,
    Overtime!LimitsAssumption
  <1>3. Overtime!HoursOf(S) = SumFunctionOnSet(f, S)
    BY <1>1, OvertimeSum DEF Overtime!HoursOf
  <1> QED
    BY <1>2, <1>3, SumOfSame

LEMMA OvertimeAsked ==
    ASSUME NEW S \in SUBSET Overtime!Slot, IsFiniteSet(S)
    PROVE  Overtime!HoursAsked(S) = SumFunctionOnSet(OvertimeWanted, S)
  <1>1. PICK f : f = [s \in S |-> s.length]
    OBVIOUS
  <1>2. \A s \in S : f[s] \in Int /\ f[s] = OvertimeWanted[s]
    BY <1>1 DEF OvertimeWanted, Overtime!Slot
  <1>3. Overtime!HoursAsked(S) = SumFunctionOnSet(f, S)
    BY <1>1, OvertimeSum DEF Overtime!HoursAsked
  <1> QED
    BY <1>2, <1>3, SumOfSame

LEMMA OvertimeSlots == IsFiniteSet(Overtime!Slot)
  <1>1. HoursOfDay \in Nat \ {0} /\ 0 \in Int /\ 1 \in Int /\ HoursOfDay - 1 \in Int /\
          HoursOfDay \in Int
    BY ComponentsAssumption DEF Overtime!LimitsAssumption
  <1>2. IsFiniteSet(0 .. HoursOfDay - 1) /\ IsFiniteSet(1 .. HoursOfDay)
    BY <1>1, FS_Interval
  <1>3. IsFiniteSet((0 .. HoursOfDay - 1) \X (1 .. HoursOfDay))
    BY <1>2, FS_Product
  <1> DEFINE P == (0 .. HoursOfDay - 1) \X (1 .. HoursOfDay)
             f == [p \in P |-> [start |-> p[1], length |-> p[2]]]
  <1>4. f \in [P -> Overtime!Slot]
    BY DEF Overtime!Slot
  <1>5. ASSUME NEW s \in Overtime!Slot PROVE \E p \in P : f[p] = s
    <2>1. <<s.start, s.length>> \in P /\ s = [start |-> s.start, length |-> s.length]
      BY DEF Overtime!Slot
    <2> QED
      BY <2>1
  <1> HIDE DEF f, P
  <1>6. f \in Surjection(P, Overtime!Slot)
    BY <1>4, <1>5, Fun_IsSurj
  <1> QED
    BY <1>3, <1>6, FS_Surjection DEF P

LEMMA OvertimeFacts ==
    ASSUME OvertimeShape
    PROVE  /\ \A i \in Overtime!Active : i \in OvertimeIds /\
                overtimeEntry[i] \in Overtime!Entry /\ overtimeEntry[i].slot \in Overtime!Slot /\
                    OvertimeLong[i] = overtimeEntry[i].slot.length
           /\ \A i \in Overtime!Active : OvertimeLong[i] \in Nat /\ OvertimeLong[i] \in Int
           /\ \A day : Overtime!Dated(day) \subseteq Overtime!Active /\
                IsFiniteSet(Overtime!Dated(day)) /\ OvertimeBooked(day) \in Int
           /\ \A i \in OvertimeIds : overtimeEntry[i] # Overtime!NoEntry =>
                overtimeEntry[i] \in Overtime!Entry
  <1>1. \A i \in Overtime!Active : i \in OvertimeIds /\ overtimeEntry[i] \in Overtime!Entry
    BY DEF OvertimeShape, Overtime!Active, Overtime!NoEntry
  <1>2. \A i \in Overtime!Active : overtimeEntry[i].slot \in Overtime!Slot /\
          OvertimeLong[i] = overtimeEntry[i].slot.length /\ OvertimeLong[i] \in Nat /\
              OvertimeLong[i] \in Int
    <2>1. \A i \in Overtime!Active : overtimeEntry[i].slot \in Overtime!Slot /\
            OvertimeLong[i] = overtimeEntry[i].slot.length
      BY <1>1 DEF Overtime!Entry, OvertimeLong
    <2>2. \A s \in Overtime!Slot : s.length \in Nat
      BY ComponentsAssumption DEF Overtime!Slot, Overtime!LimitsAssumption
    <2> QED
      BY <2>1, <2>2
  <1>3. ASSUME NEW day PROVE Overtime!Dated(day) \subseteq Overtime!Active /\
          IsFiniteSet(Overtime!Dated(day)) /\ OvertimeBooked(day) \in Int
    <2>1. Overtime!Dated(day) \subseteq Overtime!Active /\ IsFiniteSet(Overtime!Dated(day))
      BY <1>1, ComponentsAssumption, OvertimeFinite, FS_Subset DEF Overtime!Dated,
      Overtime!LimitsAssumption
    <2>2. \A i \in Overtime!Dated(day) : OvertimeLong[i] \in Int
      BY <1>2, <2>1
    <2> QED
      BY <2>1, <2>2, SumIsNumber DEF OvertimeBooked
  <1>4. \A i \in OvertimeIds : overtimeEntry[i] # Overtime!NoEntry =>
          overtimeEntry[i] \in Overtime!Entry
    BY DEF OvertimeShape
  <1> QED
    BY <1>1, <1>2, <1>3, <1>4

LEMMA OvertimeInit == Overtime!Init => OvertimeInv
  <1> SUFFICES ASSUME Overtime!Init PROVE OvertimeInv
    OBVIOUS
  <1>1. OvertimeShape
    <2>1. 1 \in 1 .. DaysOfMonth
      BY ComponentsAssumption DEF Overtime!LimitsAssumption
    <2>2. overtimeCrossed \in BOOLEAN
      BY DEF Overtime!Init
    <2> QED
      BY <2>1, <2>2 DEF Overtime!Init, OvertimeShape
  <1>2. \A day : Overtime!Dated(day) = {} /\ OvertimeBooked(day) = 0
    <2>1. Overtime!Active = {}
      BY DEF Overtime!Init, Overtime!Active, Overtime!NoEntry
    <2>2. \A day : Overtime!Dated(day) = {}
      BY <2>1 DEF Overtime!Dated
    <2> QED
      BY <2>2, SumOfNothing DEF OvertimeBooked
  <1>3. \A day \in 1 .. DaysOfMonth : OvertimeFits(day)
    BY <1>2, ComponentsAssumption DEF OvertimeFits, Overtime!LimitsAssumption
  <1> QED
    BY <1>1, <1>3 DEF Overtime!Init, OvertimeInv, OvertimeStillFits, OvertimeStillPending

\* Where fewer entries count, what fitted still fits.
LEMMA OvertimeFewer ==
    ASSUME OvertimeShape, NEW day, Overtime!Dated(day)' \subseteq Overtime!Dated(day),
           \A i \in Overtime!Dated(day)' : overtimeEntry'[i].slot = overtimeEntry[i].slot
    PROVE  OvertimeBooked(day)' <= OvertimeBooked(day) /\ OvertimeBooked(day)' \in Int /\
        (OvertimeFits(day) => OvertimeFits(day)')
  <1>1. IsFiniteSet(Overtime!Dated(day)) /\
          \A i \in Overtime!Dated(day) : OvertimeLong[i] \in Int /\ OvertimeLong[i] \in Nat /\
              i \in OvertimeIds
    BY OvertimeFacts
  <1>2. PICK f : f = OvertimeLong'
    OBVIOUS
  <1>3. PICK T : T = Overtime!Dated(day)'
    OBVIOUS
  <1>4. \A i \in T : f[i] = OvertimeLong[i]
    BY <1>1, <1>2, <1>3, OvertimeFacts DEF OvertimeLong
  <1> DEFINE g == [i \in Overtime!Dated(day) |-> OvertimeLong[i]]
  <1>5. SumFunctionOnSet(f, T) = SumFunctionOnSet(OvertimeLong, T) /\ SumFunctionOnSet(f, T) \in Int
    <2>1. IsFiniteSet(T) /\ \A i \in T : f[i] \in Int /\ f[i] = OvertimeLong[i]
      BY <1>1, <1>3, <1>4, FS_Subset
    <2> QED
      BY <2>1, SumOfSame, SumIsNumber
  <1>6. SumFunctionOnSet(OvertimeLong, T) <= SumFunctionOnSet(OvertimeLong, Overtime!Dated(day))
    <2>1. \A i \in Overtime!Dated(day) : OvertimeLong[i] \in Int /\ OvertimeLong[i] \in Nat
      BY <1>1
    <2>2. \A i \in T : OvertimeLong[i] <= OvertimeLong[i]
      BY <1>1, <1>3
    <2>3. PICK l, D : l = OvertimeLong /\ D = Overtime!Dated(day)
      OBVIOUS
    <2>4. SumFunctionOnSet(l, T) <= SumFunctionOnSet(l, D)
      BY <1>1, <1>3, <2>1, <2>2, <2>3, SumAtMost
    <2> QED
      BY <2>3, <2>4
  <1>7. OvertimeBooked(day)' <= OvertimeBooked(day) /\ OvertimeBooked(day)' \in Int
    BY <1>2, <1>3, <1>5, <1>6 DEF OvertimeBooked
  <1>8. ASSUME OvertimeFits(day) PROVE OvertimeFits(day)'
    <2>1. OvertimeBooked(day)' <= DailyLimit
      BY <1>7, <1>8, ComponentsAssumption, OvertimeFacts DEF OvertimeFits, Overtime!LimitsAssumption
    <2> QED
      BY <1>8, <2>1 DEF OvertimeFits, Overtime!Overlap
  <1> QED
    BY <1>7, <1>8

LEMMA OvertimeSlotSum ==
    ASSUME NEW S \in SUBSET Overtime!Slot
    PROVE  IsFiniteSet(S) /\ SumFunctionOnSet(OvertimeWanted, S) \in Int /\
        \A s \in S : OvertimeWanted[s] = s.length /\ s.length \in Int
  <1>1. IsFiniteSet(S)
    BY OvertimeSlots, FS_Subset
  <1>2. \A s \in S : OvertimeWanted[s] = s.length /\ s.length \in Int
    BY ComponentsAssumption DEF OvertimeWanted, Overtime!Slot, Overtime!LimitsAssumption
  <1> QED
    BY <1>1, <1>2, SumIsNumber

\* A step that leaves the rows alone.
LEMMA OvertimeSame ==
    ASSUME UNCHANGED overtimeEntry
    PROVE  \A day : Overtime!Dated(day)' = Overtime!Dated(day) /\
        OvertimeBooked(day)' = OvertimeBooked(day) /\ OvertimeFits(day)' = OvertimeFits(day)
  <1> TAKE day
  <1>1. Overtime!Dated(day)' = Overtime!Dated(day) /\ OvertimeLong' = OvertimeLong
    BY DEF Overtime!Dated, Overtime!Active, OvertimeLong
  <1>2. OvertimeBooked(day)' = OvertimeBooked(day)
    BY <1>1 DEF OvertimeBooked
  <1> QED
    BY <1>1, <1>2 DEF OvertimeFits, Overtime!Overlap

LEMMA OvertimeBegin == ASSUME OvertimeInv, NEW b \in OvertimeBatches, Overtime!BeginCreate(b)
    PROVE OvertimeInv'
  <1>1. PICK slots \in Overtime!Payloads :
         /\ \A s \in slots,
              i \in Overtime!Dated(overtimeToday) : ~Overtime!Overlap(s, overtimeEntry[i].slot)
         /\ Overtime!FitsDay(slots)
         /\ overtimeBatch' =
              [overtimeBatch EXCEPT ![b] =
                  [pc |-> "create", day |-> overtimeToday, slots |-> slots]]
    BY DEF Overtime!BeginCreate
  <1>2. /\ overtimeBatch[b] = Overtime!Nobody
        /\ UNCHANGED <<overtimeToday, overtimeEntry, overtimeReview, overtimeTold>>
        /\ overtimeCrossed' =
             (overtimeCrossed \/ \E c \in OvertimeBatches : overtimeBatch[c] # Overtime!Nobody)
    BY DEF Overtime!BeginCreate
  <1>3. slots \in SUBSET Overtime!Slot /\ \A s, t \in slots : s # t => ~Overtime!Overlap(s, t)
    BY DEF Overtime!Payloads
  <1> DEFINE w == [pc |-> "create", day |-> overtimeToday, slots |-> slots]
  <1>4. w \in OvertimeChecked /\ w.day = overtimeToday /\ w.slots = slots /\ w # Overtime!Nobody
    BY <1>3 DEF OvertimeChecked, OvertimeInv, OvertimeShape, Overtime!Nobody
  <1>5. overtimeBatch' = [overtimeBatch EXCEPT ![b] = w]
    BY <1>1
  <1> HIDE DEF w
  <1>6. overtimeBatch'[b] = w /\
          \A c \in OvertimeBatches \ {b} : overtimeBatch'[c] = overtimeBatch[c]
    BY <1>5 DEF OvertimeInv, OvertimeShape
  <1>7. OvertimeShape'
    BY <1>2, <1>4, <1>5 DEF OvertimeInv, OvertimeShape
  <1>8. OvertimeBooked(overtimeToday) + SumFunctionOnSet(OvertimeWanted, slots) <= DailyLimit
    <2>1. Overtime!HoursOf(Overtime!Dated(overtimeToday)) = OvertimeBooked(overtimeToday)
      BY OvertimeFacts, OvertimeHours DEF OvertimeInv, OvertimeBooked
    <2>2. Overtime!HoursAsked(slots) = SumFunctionOnSet(OvertimeWanted, slots)
      BY <1>3, OvertimeSlotSum, OvertimeAsked
    <2> QED
      BY <1>1, <2>1, <2>2 DEF Overtime!FitsDay
  <1>9. \A day : Overtime!Dated(day)' = Overtime!Dated(day) /\
          OvertimeBooked(day)' = OvertimeBooked(day) /\ OvertimeFits(day)' = OvertimeFits(day)
    BY <1>2, OvertimeSame
  <1>10. OvertimeStillFits(b)'
    BY <1>1, <1>2, <1>3, <1>4, <1>6, <1>8, <1>9 DEF OvertimeStillFits, Overtime!Overlap
  <1>11. ASSUME ~overtimeCrossed', NEW c \in OvertimeBatches, overtimeBatch'[c] # Overtime!Nobody
           PROVE c = b
    <2>1. overtimeBatch[c] = Overtime!Nobody
      BY <1>2, <1>11
    <2> QED
      BY <1>6, <1>11, <2>1
  <1>12. ASSUME ~overtimeCrossed', NEW c \in OvertimeBatches PROVE OvertimeStillFits(c)'
    BY <1>10, <1>11, <1>12 DEF OvertimeStillFits
  <1>13. ASSUME ~overtimeCrossed', NEW r \in OvertimeReviews PROVE OvertimeStillPending(r)'
    BY <1>2, <1>13 DEF OvertimeInv, OvertimeStillPending
  <1> QED
    BY <1>2, <1>7, <1>9, <1>11, <1>12, <1>13 DEF OvertimeInv

LEMMA OvertimeCreate == ASSUME OvertimeInv, NEW b \in OvertimeBatches, Overtime!Create(b)
    PROVE OvertimeInv'
  <1>0. PICK slots, d : slots = overtimeBatch[b].slots /\ d = overtimeBatch[b].day
    OBVIOUS
  <1>1. /\ overtimeBatch[b] # Overtime!Nobody /\ overtimeBatch[b] \in OvertimeChecked
        /\ slots \in SUBSET Overtime!Slot /\ d \in 1 .. DaysOfMonth
        /\ Cardinality(slots) <= Cardinality(Overtime!Free)
        /\ overtimeBatch' = [overtimeBatch EXCEPT ![b] = Overtime!Nobody]
        /\ UNCHANGED <<overtimeToday, overtimeReview, overtimeTold, overtimeCrossed>>
    BY <1>0, OvertimeCount DEF Overtime!Create, OvertimeInv, OvertimeShape, OvertimeChecked
  <1>2. PICK ids : ids = CHOOSE I \in SUBSET Overtime!Free :
          Overtime!Cardinality(I) = Overtime!Cardinality(slots)
    OBVIOUS
  <1>3. PICK slotOf : slotOf = CHOOSE f \in [ids -> slots] : \A s \in slots : \E i \in ids :
          f[i] = s
    OBVIOUS
  <1>4. overtimeEntry' =
          [i \in OvertimeIds |-> IF i \in ids
              THEN [status |-> "PENDING", day |-> d, slot |-> slotOf[i]]
                                ELSE overtimeEntry[i]]
    BY <1>0, <1>2, <1>3, OvertimeCount DEF Overtime!Create
  <1>5. IsFiniteSet(slots) /\ Cardinality(slots) \in Nat /\ IsFiniteSet(Overtime!Free) /\
          Overtime!Free \subseteq OvertimeIds
    BY <1>1, OvertimeSlotSum, FS_CardinalityType, FS_Subset, ComponentsAssumption,
    OvertimeFinite DEF Overtime!Free, Overtime!LimitsAssumption
  <1>6. ids \in SUBSET Overtime!Free /\ Cardinality(ids) = Cardinality(slots)
    <2>1. \E I \in SUBSET Overtime!Free : Cardinality(I) = Cardinality(slots)
      BY <1>1, <1>5, PartOfSize
    <2> QED
      BY <1>2, <2>1, OvertimeCount
  <1>7. IsFiniteSet(ids) /\ ids \subseteq OvertimeIds /\
          \A i \in ids : overtimeEntry[i] = Overtime!NoEntry
    BY <1>5, <1>6, FS_Subset DEF Overtime!Free
  <1>8. slotOf \in [ids -> slots] /\ \A s \in slots : \E i \in ids : slotOf[i] = s
    <2>1. PICK f : f \in Bijection(ids, slots)
      BY <1>5, <1>6, <1>7, FS_SameCardinalityBij DEF ExistsBijection
    <2>2. f \in [ids -> slots] /\ \A s \in slots : \E i \in ids : f[i] = s
      BY <2>1, Fun_BijectionProperties
    <2> QED
      BY <1>3, <2>2
  <1>9. \A i, j \in ids : slotOf[i] = slotOf[j] => i = j
    <2>1. slotOf \in Surjection(ids, slots)
      BY <1>8, Fun_IsSurj
    <2>2. slotOf \in Injection(ids, slots)
      BY <1>6, <1>7, <2>1, FS_SurjSameCardinalityImpliesInj
    <2> QED
      BY <2>2, Fun_InjectionProperties
  <1>10. \A i \in ids : /\ overtimeEntry'[i].status = "PENDING" /\ overtimeEntry'[i].day = d
                        /\ overtimeEntry'[i].slot = slotOf[i]
                        /\ overtimeEntry'[i] \in Overtime!Entry /\ slotOf[i] \in slots
                        /\ slotOf[i] \in Overtime!Slot
    BY <1>1, <1>4, <1>7, <1>8 DEF Overtime!Entry, Overtime!Statuses
  <1>11. \A i \in OvertimeIds \ ids : overtimeEntry'[i] = overtimeEntry[i]
    BY <1>4
  <1>12. overtimeEntry' \in [OvertimeIds -> Overtime!Entry \cup {Overtime!NoEntry}]
    <2>1. \A i \in OvertimeIds : overtimeEntry'[i] \in Overtime!Entry \cup {Overtime!NoEntry}
      BY <1>10, <1>11 DEF OvertimeInv, OvertimeShape
    <2>2. overtimeEntry' = [i \in OvertimeIds |-> overtimeEntry'[i]]
      BY <1>4
    <2> QED
      BY <2>1, <2>2
  <1>13. OvertimeShape'
    BY <1>1, <1>12 DEF OvertimeInv, OvertimeShape
  <1>14. overtimeBatch'[b] = Overtime!Nobody /\
           \A c \in OvertimeBatches \ {b} : overtimeBatch'[c] = overtimeBatch[c]
    BY <1>1 DEF OvertimeInv, OvertimeShape
  <1>15. \A i \in ids : i \notin Overtime!Active
    BY <1>7 DEF Overtime!Active, Overtime!NoEntry
  <1>16. ASSUME NEW day PROVE Overtime!Dated(day)' = IF day = d THEN Overtime!Dated(day) \cup ids
           ELSE Overtime!Dated(day)
    <2>1. \A i \in OvertimeIds \ ids : i \in Overtime!Dated(day)' <=> i \in Overtime!Dated(day)
      BY <1>11 DEF Overtime!Dated, Overtime!Active
    <2>2. \A i \in ids : (i \in Overtime!Dated(day)' <=> day = d) /\ i \notin Overtime!Dated(day)
      BY <1>7, <1>10, <1>15 DEF Overtime!Dated, Overtime!Active
    <2>3. Overtime!Dated(day)' \subseteq OvertimeIds /\ Overtime!Dated(day) \subseteq OvertimeIds
      BY DEF Overtime!Dated, Overtime!Active
    <2> QED
      BY <1>7, <2>1, <2>2, <2>3
  <1>17. \A day : \A i \in Overtime!Dated(day) : i \in OvertimeIds \ ids /\
           overtimeEntry'[i] = overtimeEntry[i]
    BY <1>11, <1>15 DEF Overtime!Dated, Overtime!Active
  <1>18. ASSUME ~overtimeCrossed, NEW day \in 1 .. DaysOfMonth, day # d PROVE OvertimeFits(day)'
    <2>1. Overtime!Dated(day)' = Overtime!Dated(day) /\ OvertimeFits(day)
      BY <1>16, <1>18 DEF OvertimeInv
    <2>2. Overtime!Dated(day)' \subseteq Overtime!Dated(day) /\
            \A i \in Overtime!Dated(day)' : overtimeEntry'[i].slot = overtimeEntry[i].slot
      BY <1>17, <2>1
    <2> QED
      BY <2>1, <2>2, OvertimeFewer DEF OvertimeInv
  <1>19. ASSUME ~overtimeCrossed PROVE OvertimeFits(d)'
    <2>1. OvertimeFits(d) /\ OvertimeStillFits(b)
      BY <1>1, <1>19 DEF OvertimeInv
    <2>2. PICK f : f = OvertimeLong'
      OBVIOUS
    <2>3. \A i \in OvertimeIds : f[i] = overtimeEntry'[i].slot.length
      BY <2>2 DEF OvertimeLong
    <2>4. \A i \in ids : f[i] = OvertimeWanted[slotOf[i]] /\ f[i] \in Int
      BY <1>1, <1>7, <1>10, <2>3, OvertimeSlotSum
    <2>5. \A i \in Overtime!Dated(d) : f[i] = OvertimeLong[i] /\ f[i] \in Int
      BY <1>17, <2>3, OvertimeFacts DEF OvertimeInv
    <2>6. SumFunctionOnSet(f, ids) = SumFunctionOnSet(OvertimeWanted, slots)
      <3>1. \A i \in ids : f[i] = OvertimeWanted[slotOf[i]] /\ OvertimeWanted[slotOf[i]] \in Int
        BY <2>4
      <3>2. SumFunctionOnSet(f, ids) = SumFunctionOnSet(OvertimeWanted, {slotOf[i] : i \in ids})
        BY <1>7, <1>9, <3>1, SumOfImage
      <3>3. {slotOf[i] : i \in ids} = slots
        BY <1>8
      <3> QED
        BY <3>2, <3>3
    <2>7. SumFunctionOnSet(f, Overtime!Dated(d)) = OvertimeBooked(d)
      <3>1. PICK D : D = Overtime!Dated(d)
        OBVIOUS
      <3>2. IsFiniteSet(D) /\ \A i \in D : f[i] \in Int /\ f[i] = OvertimeLong[i]
        BY <2>5, <3>1, OvertimeFacts DEF OvertimeInv
      <3>3. SumFunctionOnSet(f, D) = SumFunctionOnSet(OvertimeLong, D)
        BY <3>2, SumOfSame
      <3> QED
        BY <3>1, <3>3 DEF OvertimeBooked
    <2>8. SumFunctionOnSet(f, Overtime!Dated(d) \cup ids) =
            SumFunctionOnSet(f, Overtime!Dated(d)) + SumFunctionOnSet(f, ids)
      <3>1. PICK D : D = Overtime!Dated(d)
        OBVIOUS
      <3>2. IsFiniteSet(D) /\ D \cap ids = {} /\ \A i \in D \cup ids : f[i] \in Int
        BY <1>15, <2>4, <2>5, <3>1, OvertimeFacts DEF OvertimeInv, Overtime!Dated
      <3>3. SumFunctionOnSet(f, D \cup ids) = SumFunctionOnSet(f, D) + SumFunctionOnSet(f, ids)
        BY <1>7, <3>2, SumOfTwo
      <3> QED
        BY <3>1, <3>3
    <2>9. OvertimeBooked(d)' = OvertimeBooked(d) + SumFunctionOnSet(OvertimeWanted, slots)
      BY <1>16, <2>2, <2>6, <2>7, <2>8 DEF OvertimeBooked
    <2>10. OvertimeBooked(d)' <= DailyLimit
      BY <1>0, <1>1, <2>1, <2>9 DEF OvertimeStillFits
    <2>11. ASSUME NEW i \in Overtime!Dated(d)', NEW j \in Overtime!Dated(d)', i # j
             PROVE ~Overtime!Overlap(overtimeEntry'[i].slot, overtimeEntry'[j].slot)
      <3>1. i \in Overtime!Dated(d) \cup ids /\ j \in Overtime!Dated(d) \cup ids
        BY <1>16
      <3>2. CASE i \in Overtime!Dated(d) /\ j \in Overtime!Dated(d)
        BY <1>17, <2>1, <2>11, <3>2 DEF OvertimeFits
      <3>3. CASE i \in ids /\ j \in ids
        <4>1. slotOf[i] # slotOf[j] /\ slotOf[i] \in slots /\ slotOf[j] \in slots
          BY <1>9, <1>10, <2>11, <3>3
        <4> QED
          BY <1>0, <1>1, <1>10, <2>1, <3>3, <4>1 DEF OvertimeStillFits
      <3>4. CASE i \in ids /\ j \in Overtime!Dated(d)
        BY <1>0, <1>1, <1>10, <1>17, <2>1, <3>4 DEF OvertimeStillFits
      <3>5. CASE i \in Overtime!Dated(d) /\ j \in ids
        <4>1. ~Overtime!Overlap(slotOf[j], overtimeEntry[i].slot)
          BY <1>0, <1>1, <1>10, <2>1, <3>5 DEF OvertimeStillFits
        <4> QED
          BY <1>10, <1>17, <3>5, <4>1 DEF Overtime!Overlap
      <3> QED
        BY <3>1, <3>2, <3>3, <3>4, <3>5
    <2> QED
      BY <2>10, <2>11 DEF OvertimeFits, Overtime!Overlap
  <1>20. ASSUME ~overtimeCrossed, NEW c \in OvertimeBatches
           PROVE overtimeBatch'[c] = Overtime!Nobody
    BY <1>1, <1>14, <1>20 DEF OvertimeInv
  <1>21. \A i \in OvertimeIds : overtimeEntry[i] # Overtime!NoEntry =>
           overtimeEntry'[i] = overtimeEntry[i]
    BY <1>7, <1>11
  <1>22. \A r \in OvertimeReviews : overtimeReview[r] # Overtime!Nobody =>
           overtimeEntry'[overtimeReview[r].id] = overtimeEntry[overtimeReview[r].id] /\
               overtimeEntry'[overtimeReview[r].id] # Overtime!NoEntry
    BY <1>21 DEF OvertimeInv, OvertimeShape, OvertimeReviewing
  <1>23. \A r \in OvertimeReviews : OvertimeStillPending(r) => OvertimeStillPending(r)'
    BY <1>1, <1>22 DEF OvertimeStillPending
  <1>24. \A i \in overtimeTold : overtimeEntry'[i] = overtimeEntry[i] /\
           overtimeEntry'[i] # Overtime!NoEntry
    BY <1>21 DEF OvertimeInv, OvertimeShape
  <1>25. ASSUME ~overtimeCrossed
         PROVE  /\ \A day \in 1 .. DaysOfMonth : OvertimeFits(day)'
                /\ \A c \in OvertimeBatches : OvertimeStillFits(c)'
                /\ \A r \in OvertimeReviews : OvertimeStillPending(r)'
                /\ \A q, r \in OvertimeReviews :
                     overtimeReview[q] # Overtime!Nobody /\
                         overtimeReview[r] # Overtime!Nobody /\
                             overtimeReview[q].id = overtimeReview[r].id => q = r
                /\ \A i \in overtimeTold : overtimeEntry'[i].status = "APPROVED"
    <2>1. \A day \in 1 .. DaysOfMonth : OvertimeFits(day)'
      BY <1>18, <1>19, <1>25
    <2>2. \A c \in OvertimeBatches : OvertimeStillFits(c)'
      BY <1>20, <1>25 DEF OvertimeStillFits
    <2>3. /\ \A r \in OvertimeReviews : OvertimeStillPending(r)'
          /\ \A i \in overtimeTold : overtimeEntry'[i].status = "APPROVED"
      BY <1>23, <1>24, <1>25 DEF OvertimeInv
    <2> QED
      BY <1>25, <2>1, <2>2, <2>3 DEF OvertimeInv
  <1> QED
    BY <1>1, <1>13, <1>20, <1>22, <1>24, <1>25 DEF OvertimeInv

LEMMA OvertimeDrop == ASSUME OvertimeInv, NEW b \in OvertimeBatches, Overtime!CreateFails(b)
    PROVE OvertimeInv'
  <1>1. overtimeBatch' = [overtimeBatch EXCEPT ![b] = Overtime!Nobody] /\
          UNCHANGED <<overtimeToday, overtimeEntry, overtimeReview, overtimeTold, overtimeCrossed>>
    BY DEF Overtime!CreateFails
  <1>2. overtimeBatch'[b] = Overtime!Nobody /\
          \A c \in OvertimeBatches \ {b} : overtimeBatch'[c] = overtimeBatch[c]
    BY <1>1 DEF OvertimeInv, OvertimeShape
  <1>3. \A day : Overtime!Dated(day)' = Overtime!Dated(day) /\
          OvertimeBooked(day)' = OvertimeBooked(day) /\ OvertimeFits(day)' = OvertimeFits(day)
    BY <1>1, OvertimeSame
  <1>4. OvertimeShape'
    BY <1>1 DEF OvertimeInv, OvertimeShape
  <1>5. \A c \in OvertimeBatches : OvertimeStillFits(c) => OvertimeStillFits(c)'
    BY <1>1, <1>2, <1>3 DEF OvertimeStillFits, Overtime!Overlap
  <1>6. \A r \in OvertimeReviews : OvertimeStillPending(r) => OvertimeStillPending(r)'
    BY <1>1 DEF OvertimeStillPending
  <1> QED
    BY <1>1, <1>2, <1>3, <1>4, <1>5, <1>6 DEF OvertimeInv

\* A review that begins or ends, with the rows as they were.
LEMMA OvertimeWork ==
    ASSUME OvertimeInv, NEW r \in OvertimeReviews,
           NEW w \in OvertimeReviewing \cup {Overtime!Nobody},
           overtimeReview' = [overtimeReview EXCEPT ![r] = w],
           UNCHANGED <<overtimeToday, overtimeEntry, overtimeBatch>>,
           overtimeTold' \in SUBSET OvertimeIds, overtimeCrossed' \in BOOLEAN,
           w # Overtime!Nobody => overtimeEntry[w.id] # Overtime!NoEntry,
           \A i \in overtimeTold' : overtimeEntry[i] # Overtime!NoEntry,
           ~overtimeCrossed' =>
             /\ ~overtimeCrossed
             /\ w # Overtime!Nobody =>
                  \A q \in OvertimeReviews \ {r} : overtimeReview[q] # Overtime!Nobody =>
                      overtimeReview[q].id # w.id
             /\ w # Overtime!Nobody => w.pc = "update" /\ overtimeEntry[w.id].status = "PENDING"
             /\ \A i \in overtimeTold' : overtimeEntry[i].status = "APPROVED"
    PROVE  OvertimeInv'
  <1>1. overtimeReview'[r] = w /\
          \A q \in OvertimeReviews \ {r} : overtimeReview'[q] = overtimeReview[q]
    BY DEF OvertimeInv, OvertimeShape
  <1>2. OvertimeShape'
    BY DEF OvertimeInv, OvertimeShape
  <1>3. \A day : Overtime!Dated(day)' = Overtime!Dated(day) /\
          OvertimeBooked(day)' = OvertimeBooked(day) /\ OvertimeFits(day)' = OvertimeFits(day)
    BY OvertimeSame
  <1>4. \A b \in OvertimeBatches : OvertimeStillFits(b) => OvertimeStillFits(b)'
    BY <1>3 DEF OvertimeStillFits, Overtime!Overlap
  <1>5. ASSUME ~overtimeCrossed', NEW q \in OvertimeReviews PROVE OvertimeStillPending(q)'
    <2>1. CASE q = r
      BY <1>1, <1>5, <2>1 DEF OvertimeStillPending
    <2>2. CASE q # r
      BY <1>1, <1>5, <2>2 DEF OvertimeInv, OvertimeStillPending
    <2> QED
      BY <2>1, <2>2
  <1>6. ASSUME ~overtimeCrossed', NEW p \in OvertimeReviews, NEW q \in OvertimeReviews,
               overtimeReview'[p] # Overtime!Nobody, overtimeReview'[q] # Overtime!Nobody,
               overtimeReview'[p].id = overtimeReview'[q].id
        PROVE  p = q
    BY <1>1, <1>6 DEF OvertimeInv
  <1>7. \A q \in OvertimeReviews : overtimeReview'[q] # Overtime!Nobody =>
          overtimeEntry[overtimeReview'[q].id] # Overtime!NoEntry
    BY <1>1 DEF OvertimeInv
  <1> QED
    BY <1>2, <1>3, <1>4, <1>5, <1>6, <1>7 DEF OvertimeInv

LEMMA OvertimeLetIn == ASSUME OvertimeInv, NEW r \in OvertimeReviews, Overtime!BeginReview(r)
    PROVE OvertimeInv'
  <1>1. PICK i \in OvertimeIds :
          /\ overtimeEntry[i].status = "PENDING"
          /\ overtimeReview' = [overtimeReview EXCEPT ![r] = [pc |-> "update", id |-> i]]
          /\ overtimeCrossed' =
               (overtimeCrossed \/
                   \E q \in OvertimeReviews : overtimeReview[q] # Overtime!Nobody /\
                       overtimeReview[q].id = i)
    BY DEF Overtime!BeginReview
  <1>2. UNCHANGED <<overtimeToday, overtimeEntry, overtimeBatch, overtimeTold>>
    BY DEF Overtime!BeginReview
  <1> DEFINE w == [pc |-> "update", id |-> i]
  <1>3. w \in OvertimeReviewing /\ w.pc = "update" /\ w.id = i /\
          overtimeReview' = [overtimeReview EXCEPT ![r] = w]
    BY <1>1 DEF OvertimeReviewing
  <1> HIDE DEF w
  <1>4. overtimeEntry[i] # Overtime!NoEntry /\ overtimeTold' \in SUBSET OvertimeIds /\
          overtimeCrossed' \in BOOLEAN
    BY <1>1, <1>2 DEF Overtime!NoEntry, OvertimeInv, OvertimeShape
  <1> QED
    <2>1. w # Overtime!Nobody => overtimeEntry[w.id] # Overtime!NoEntry
      BY <1>3, <1>4
    <2>2. \A j \in overtimeTold' : overtimeEntry[j] # Overtime!NoEntry
      BY <1>2 DEF OvertimeInv
    <2>3. ~overtimeCrossed' =>
             /\ ~overtimeCrossed
             /\ w # Overtime!Nobody =>
                  \A q \in OvertimeReviews \ {r} : overtimeReview[q] # Overtime!Nobody =>
                      overtimeReview[q].id # w.id
             /\ w # Overtime!Nobody => w.pc = "update" /\ overtimeEntry[w.id].status = "PENDING"
             /\ \A j \in overtimeTold' : overtimeEntry[j].status = "APPROVED"
      BY <1>1, <1>2, <1>3 DEF OvertimeInv
    <2> QED
      BY <1>2, <1>3, <1>4, <2>1, <2>2, <2>3, OvertimeWork

LEMMA OvertimeTell == ASSUME OvertimeInv, NEW r \in OvertimeReviews, Overtime!SendToN8N(r)
    PROVE OvertimeInv'
  <1>1. /\ overtimeReview[r] # Overtime!Nobody /\ overtimeReview[r].pc = "tell"
        /\ overtimeTold' \in {overtimeTold, overtimeTold \cup {overtimeReview[r].id}}
        /\ overtimeReview' = [overtimeReview EXCEPT ![r] = Overtime!Nobody]
        /\ UNCHANGED <<overtimeToday, overtimeEntry, overtimeBatch, overtimeCrossed>>
    BY DEF Overtime!SendToN8N
  <1>2. overtimeReview[r].id \in OvertimeIds /\
          overtimeEntry[overtimeReview[r].id] # Overtime!NoEntry
    BY <1>1 DEF OvertimeInv, OvertimeShape, OvertimeReviewing
  <1>3. overtimeTold' \in SUBSET OvertimeIds /\ overtimeCrossed' \in BOOLEAN /\
          \A i \in overtimeTold' : overtimeEntry[i] # Overtime!NoEntry
    BY <1>1, <1>2 DEF OvertimeInv, OvertimeShape
  <1>4. ~overtimeCrossed => \A i \in overtimeTold' : overtimeEntry[i].status = "APPROVED"
    BY <1>1 DEF OvertimeInv, OvertimeStillPending
  <1> QED
    BY <1>1, <1>3, <1>4, OvertimeWork

LEMMA OvertimeReview == ASSUME OvertimeInv, NEW r \in OvertimeReviews, Overtime!Review(r)
    PROVE OvertimeInv'
  <1>1. PICK i \in OvertimeIds : i = overtimeReview[r].id
    BY DEF Overtime!Review, OvertimeInv, OvertimeShape, OvertimeReviewing
  <1>2. /\ overtimeReview[r] # Overtime!Nobody /\ overtimeReview[r].pc = "update"
        /\ UNCHANGED <<overtimeToday, overtimeBatch, overtimeTold, overtimeCrossed>>
        /\ \/ /\ overtimeEntry' = [overtimeEntry EXCEPT ![i].status = "REJECTED"]
              /\ overtimeReview' = [overtimeReview EXCEPT ![r] = Overtime!Nobody]
           \/ /\ overtimeEntry' = [overtimeEntry EXCEPT ![i].status = "APPROVED"]
              /\ overtimeReview' = [overtimeReview EXCEPT ![r].pc = "tell"]
    BY <1>1 DEF Overtime!Review
  <1>3. overtimeEntry[i] \in Overtime!Entry /\ overtimeReview[r] \in OvertimeReviewing /\
          overtimeEntry[i] # Overtime!NoEntry
    BY <1>1, <1>2 DEF OvertimeInv, OvertimeShape
  <1>4. PICK verdict \in {"REJECTED", "APPROVED"} :
          /\ overtimeEntry' =
               [overtimeEntry EXCEPT ![i] = [overtimeEntry[i] EXCEPT !.status = verdict]]
          /\ overtimeReview' =
               [overtimeReview EXCEPT ![r] = IF verdict = "REJECTED" THEN Overtime!Nobody
                   ELSE [overtimeReview[r] EXCEPT !.pc = "tell"]]
    BY <1>2
  <1> DEFINE new == [overtimeEntry[i] EXCEPT !.status = verdict]
             w == IF verdict = "REJECTED" THEN Overtime!Nobody
                 ELSE [overtimeReview[r] EXCEPT !.pc = "tell"]
  <1>5. new \in Overtime!Entry /\ new.status = verdict /\ new.day = overtimeEntry[i].day /\
          new.slot = overtimeEntry[i].slot /\ new # Overtime!NoEntry
    <2>1. new \in Overtime!Entry /\ new.status = verdict /\ new.day = overtimeEntry[i].day /\
            new.slot = overtimeEntry[i].slot
      BY <1>3 DEF Overtime!Entry, Overtime!Statuses
    <2> HIDE DEF new
    <2> QED
      BY <2>1 DEF Overtime!NoEntry
  <1>6. w \in OvertimeReviewing \cup {Overtime!Nobody} /\
          (w # Overtime!Nobody => w.pc = "tell" /\ w.id = i /\ verdict = "APPROVED")
    BY <1>1, <1>3 DEF OvertimeReviewing
  <1>7. overtimeEntry' = [overtimeEntry EXCEPT ![i] = new] /\
          overtimeReview' = [overtimeReview EXCEPT ![r] = w]
    BY <1>4
  <1> HIDE DEF new, w
  <1>8. overtimeEntry'[i] = new /\ \A j \in OvertimeIds \ {i} : overtimeEntry'[j] = overtimeEntry[j]
    BY <1>7 DEF OvertimeInv, OvertimeShape
  <1>9. overtimeReview'[r] = w /\
          \A q \in OvertimeReviews \ {r} : overtimeReview'[q] = overtimeReview[q]
    BY <1>7 DEF OvertimeInv, OvertimeShape
  <1>10. OvertimeShape'
    BY <1>2, <1>5, <1>6, <1>7 DEF OvertimeInv, OvertimeShape
  <1>11. \A j \in OvertimeIds :
           (overtimeEntry[j] # Overtime!NoEntry => overtimeEntry'[j] # Overtime!NoEntry) /\
               overtimeEntry'[j].slot = overtimeEntry[j].slot
    BY <1>5, <1>8
  <1>12. \A q \in OvertimeReviews : overtimeReview'[q] # Overtime!Nobody =>
           overtimeEntry'[overtimeReview'[q].id] # Overtime!NoEntry
    BY <1>5, <1>6, <1>8, <1>9, <1>11 DEF OvertimeInv, OvertimeShape, OvertimeReviewing
  <1>13. \A j \in overtimeTold : overtimeEntry'[j] # Overtime!NoEntry
    BY <1>11 DEF OvertimeInv, OvertimeShape
  <1>14. ASSUME ~overtimeCrossed PROVE
           /\ overtimeEntry[i].status = "PENDING" /\ i \notin overtimeTold
           /\ \A q \in OvertimeReviews \ {r} : overtimeReview[q] # Overtime!Nobody =>
                overtimeReview[q].id # i
    BY <1>1, <1>2, <1>14 DEF OvertimeInv, OvertimeStillPending
  <1>15. ASSUME ~overtimeCrossed, NEW day
         PROVE  /\ Overtime!Dated(day)' \subseteq Overtime!Dated(day)
                /\ \A j \in Overtime!Dated(day)' : overtimeEntry'[j].slot = overtimeEntry[j].slot
                /\ OvertimeBooked(day)' <= OvertimeBooked(day) /\ OvertimeBooked(day)' \in Int /\
                     (OvertimeFits(day) => OvertimeFits(day)')
    <2>1. Overtime!Dated(day)' \subseteq Overtime!Dated(day)
      <3>1. \A j \in OvertimeIds \ {i} : j \in Overtime!Dated(day)' => j \in Overtime!Dated(day)
        BY <1>8 DEF Overtime!Dated, Overtime!Active
      <3>2. i \in Overtime!Dated(day)' => i \in Overtime!Dated(day)
        BY <1>5, <1>8, <1>14, <1>15 DEF Overtime!Dated, Overtime!Active
      <3>3. Overtime!Dated(day)' \subseteq OvertimeIds
        BY DEF Overtime!Dated, Overtime!Active
      <3> QED
        BY <3>1, <3>2, <3>3
    <2>2. \A j \in Overtime!Dated(day)' : overtimeEntry'[j].slot = overtimeEntry[j].slot
      BY <1>11 DEF Overtime!Dated, Overtime!Active
    <2> QED
      BY <2>1, <2>2, OvertimeFewer DEF OvertimeInv
  <1>16. ASSUME ~overtimeCrossed, NEW b \in OvertimeBatches PROVE OvertimeStillFits(b)'
    <2>1. OvertimeStillFits(b) /\ overtimeBatch'[b] = overtimeBatch[b]
      BY <1>2, <1>16 DEF OvertimeInv
    <2>2. overtimeBatch[b] # Overtime!Nobody =>
            OvertimeBooked(overtimeBatch[b].day)' +
                SumFunctionOnSet(OvertimeWanted, overtimeBatch[b].slots) <= DailyLimit
      <3> SUFFICES ASSUME overtimeBatch[b] # Overtime!Nobody
                   PROVE  OvertimeBooked(overtimeBatch[b].day)' +
                       SumFunctionOnSet(OvertimeWanted, overtimeBatch[b].slots) <= DailyLimit
        OBVIOUS
      <3>1. SumFunctionOnSet(OvertimeWanted, overtimeBatch[b].slots) \in Int
        BY OvertimeSlotSum DEF OvertimeInv, OvertimeShape, OvertimeChecked
      <3>2. PICK d : d = overtimeBatch[b].day
        OBVIOUS
      <3>3. OvertimeBooked(d)' <= OvertimeBooked(d) /\ OvertimeBooked(d) \in Int /\
              OvertimeBooked(d)' \in Int
        BY <1>15, <1>16, OvertimeFacts DEF OvertimeInv
      <3>4. OvertimeBooked(d) + SumFunctionOnSet(OvertimeWanted, overtimeBatch[b].slots) <=
              DailyLimit /\ DailyLimit \in Nat
        BY <2>1, <3>2, ComponentsAssumption DEF OvertimeStillFits, Overtime!LimitsAssumption
      <3>5. OvertimeBooked(d)' + SumFunctionOnSet(OvertimeWanted, overtimeBatch[b].slots) <=
              DailyLimit
        BY <3>1, <3>3, <3>4
      <3> QED
        BY <2>1, <3>2, <3>5
    <2>3. overtimeBatch[b] # Overtime!Nobody =>
            \A s \in overtimeBatch[b].slots,
            j \in Overtime!Dated(overtimeBatch[b].day)' :
                ~Overtime!Overlap(s, overtimeEntry'[j].slot)
      BY <1>15, <1>16, <2>1 DEF OvertimeStillFits
    <2> QED
      BY <2>1, <2>2, <2>3 DEF OvertimeStillFits, Overtime!Overlap
  <1>17. ASSUME ~overtimeCrossed, NEW q \in OvertimeReviews PROVE OvertimeStillPending(q)'
    <2>1. CASE q = r
      BY <1>5, <1>6, <1>8, <1>9, <2>1 DEF OvertimeStillPending
    <2>2. CASE q # r
      <3>1. overtimeReview[q] # Overtime!Nobody => overtimeReview[q].id \in OvertimeIds \ {i}
        BY <1>14, <1>17, <2>2 DEF OvertimeInv, OvertimeShape, OvertimeReviewing
      <3> QED
        BY <1>8, <1>9, <1>17, <2>2, <3>1 DEF OvertimeInv, OvertimeStillPending
    <2> QED
      BY <2>1, <2>2
  <1>18. ASSUME ~overtimeCrossed, NEW p \in OvertimeReviews, NEW q \in OvertimeReviews,
                overtimeReview'[p] # Overtime!Nobody, overtimeReview'[q] # Overtime!Nobody,
                overtimeReview'[p].id = overtimeReview'[q].id
         PROVE  p = q
    BY <1>6, <1>9, <1>14, <1>18 DEF OvertimeInv
  <1>19. ~overtimeCrossed => \A j \in overtimeTold : overtimeEntry'[j].status = "APPROVED"
    BY <1>8, <1>14 DEF OvertimeInv, OvertimeShape
  <1> QED
    BY <1>2, <1>10, <1>12, <1>13, <1>15, <1>16, <1>17, <1>18, <1>19 DEF OvertimeInv

LEMMA OvertimeStep == OvertimeInv /\ [Overtime!Next]_(Overtime!vars) => OvertimeInv'
  <1> SUFFICES ASSUME OvertimeInv, [Overtime!Next]_(Overtime!vars) PROVE OvertimeInv'
    OBVIOUS
  <1>1. CASE Overtime!NextDay \/ UNCHANGED Overtime!vars
    <2>1. overtimeToday' \in 1 .. DaysOfMonth /\
            UNCHANGED <<overtimeEntry, overtimeBatch, overtimeReview, overtimeTold,
                overtimeCrossed>>
      BY <1>1, ComponentsAssumption DEF Overtime!NextDay, Overtime!vars, OvertimeInv,
      OvertimeShape, Overtime!LimitsAssumption
    <2>2. \A day : Overtime!Dated(day)' = Overtime!Dated(day) /\
            OvertimeBooked(day)' = OvertimeBooked(day) /\ OvertimeFits(day)' = OvertimeFits(day)
      BY <2>1, OvertimeSame
    <2>3. OvertimeShape'
      BY <2>1 DEF OvertimeInv, OvertimeShape
    <2>4. \A b \in OvertimeBatches : OvertimeStillFits(b) => OvertimeStillFits(b)'
      BY <2>1, <2>2 DEF OvertimeStillFits, Overtime!Overlap
    <2>5. \A r \in OvertimeReviews : OvertimeStillPending(r) => OvertimeStillPending(r)'
      BY <2>1 DEF OvertimeStillPending
    <2> QED
      BY <2>1, <2>2, <2>3, <2>4, <2>5 DEF OvertimeInv
  <1>2. CASE \E b \in OvertimeBatches : Overtime!BeginCreate(b) \/ Overtime!Create(b) \/
          Overtime!CreateFails(b)
    BY <1>2, OvertimeBegin, OvertimeCreate, OvertimeDrop
  <1>3. CASE \E r \in OvertimeReviews : Overtime!BeginReview(r) \/ Overtime!Review(r) \/
          Overtime!SendToN8N(r)
    BY <1>3, OvertimeLetIn, OvertimeReview, OvertimeTell
  <1> QED
    BY <1>1, <1>2, <1>3 DEF Overtime!Next

LEMMA OvertimeHolds == OvertimeInv => Overtime!TypeOK /\ Overtime!DayHolds
  <1> SUFFICES ASSUME OvertimeInv PROVE Overtime!TypeOK /\ Overtime!DayHolds
    OBVIOUS
  <1>1. Overtime!TypeOK
    BY DEF OvertimeInv, OvertimeShape, Overtime!TypeOK, OvertimeChecked, OvertimeReviewing
  <1>2. \A day : Overtime!HoursOf(Overtime!Dated(day)) = OvertimeBooked(day)
    BY OvertimeFacts, OvertimeHours DEF OvertimeInv, OvertimeBooked
  <1> QED
    BY <1>1, <1>2 DEF OvertimeInv, Overtime!DayHolds, OvertimeFits
-----------------------------------------------------------------------------
(* The payroll novelties.                                                 *)

LEMMA PayrollCount == \A S : Payroll!Cardinality(S) = Cardinality(S)
  BY DEF Payroll!Cardinality, Cardinality

LEMMA PayrollSum == \A f : Payroll!SumFunction(f) = SumFunctionOnSet(f, DOMAIN f)
  BY DEF Payroll!SumFunction, Payroll!SumFunctionOnSet, Payroll!FoldFunctionOnSet,
     Payroll!MapThenFoldSet, SumFunctionOnSet, FoldFunctionOnSet, MapThenFoldSet

\* The days of a request, each in one period.
PayInOnePeriod(day) == \E p \in Periods : \A q \in Periods : day \in q[1] .. q[2] <=> p = q
PayFits(r) == r \in Payroll!Request /\ r.from <= r.to /\
    \A day \in r.from .. r.to : PayInOnePeriod(day)
PayStood(R) == R \in Seq(Payroll!Request) /\ \A i \in DOMAIN R : PayFits(R[i])

\* What the queries find in the rows R.
PayDays(r, q) == Payroll!Contar(r.kind, Payroll!Recortar(r, q).from, Payroll!Recortar(r, q).to)
PayTaken(r, q) ==
    /\ r.kind # "overtime" /\ r.status = "APPROVED" /\ ~r.notTaken
    /\ r.person \notin TestUsers /\ Payroll!Meets(r, q) /\ PayDays(r, q) # 0
PayLeave(r, i, q) ==
    [id |-> i, kind |-> r.kind, person |-> r.person, partial |-> r.hours,
     amount |-> PayDays(r, q), total |-> Payroll!Contar(r.kind, r.from, r.to),
     crosses |-> r.from < q[1] \/ r.to > q[2]]
PayLeavesOf(R, q) == {PayLeave(R[i], i, q) : i \in {j \in DOMAIN R : PayTaken(R[j], q)}}

PayWorked(r, q) == r.kind = "overtime" /\ r.status = "APPROVED" /\ r.from \in q[1] .. q[2]
PayOvertime(r, i) ==
    [id |-> i, kind |-> "overtime", person |-> r.person, partial |-> 0,
     amount |-> r.hours, total |-> r.hours, crosses |-> FALSE]
PayOvertimesOf(R, q) == {PayOvertime(R[i], i) : i \in {j \in DOMAIN R : PayWorked(R[j], q)}}

PayFrom(R, q, source) == IF source = "leaves" THEN PayLeavesOf(R, q) ELSE PayOvertimesOf(R, q)
PayAll(R, q) == PayLeavesOf(R, q) \cup PayOvertimesOf(R, q)

PayListable(R) == {i \in DOMAIN R : R[i].person \notin TestUsers}
PayUpto(s, page) == SubSeq(s, 1, Payroll!Min({Len(s), page * RowsPerPage}))

PayExporting(q, f) == payrollExport = [period |-> q, read |-> f]

PayShape ==
    /\ PayStood(payrollRows) /\ Len(payrollRows) <= MaxRows
    /\ payrollExport = Payroll!NoExport \/ \E q \in Periods : \E f : PayExporting(q, f) /\
         DOMAIN f \subseteq Payroll!Sheets \X Payroll!Sources
    /\ DOMAIN payrollSettled \subseteq Periods /\ IsFiniteSet(DOMAIN payrollSettled)
    /\ payrollListing \in [page : 0 .. MaxRows, seen : Seq(Nat)]
    /\ payrollChanges \in 0 .. MaxChanges
    /\ payrollMixed \subseteq {"export", "list"}

PayReads ==
    \A q, f : (PayExporting(q, f) /\ "export" \notin payrollMixed) =>
        \A at \in DOMAIN f : f[at] = PayFrom(payrollRows, q, at[2])

PaySettles(q) ==
    \/ payrollSettled[q] = Payroll!Unsettled
    \/ \E R : PayStood(R) /\ payrollSettled[q] = [rows |-> R, detail |-> PayAll(R, q)]

PayLists ==
    payrollListing = Payroll!NoListing \/ "list" \in payrollMixed
        \/ payrollListing.seen = PayUpto(Ordered(PayListable(payrollRows)), payrollListing.page)

PayrollInv == PayShape /\ PayReads /\ (\A q \in DOMAIN payrollSettled : PaySettles(q)) /\ PayLists

-----------------------------------------------------------------------------
LEMMA PayrollSizes ==
    /\ MaxRows \in Nat \ {0} /\ RowsPerPage \in Nat \ {0} /\ MaxChanges \in Nat
    /\ Periods \subseteq Nat \X Nat
    /\ \A q \in Periods : q[1] \in Nat /\ q[2] \in Nat
    /\ \A r \in Novelties : PayFits(r) /\ r.status = "PENDING" /\ r \in Payroll!Request
  <1>1. \A r \in Novelties : r \in Payroll!Request /\ r.status = "PENDING" /\ r.from <= r.to
    BY ComponentsAssumption DEF Payroll!PayrollAssumption
  <1>2. \A r \in Novelties : \A day \in r.from .. r.to : PayInOnePeriod(day)
    BY ComponentsAssumption DEF Payroll!PayrollAssumption, PayInOnePeriod
  <1>3. \A r \in Novelties : PayFits(r)
    BY <1>1, <1>2 DEF PayFits
  <1>4. Periods \subseteq Nat \X Nat
    BY ComponentsAssumption DEF Payroll!PayrollAssumption
  <1>5. \A q \in Periods : q[1] \in Nat /\ q[2] \in Nat
    BY <1>4
  <1>6. MaxRows \in Nat \ {0} /\ RowsPerPage \in Nat \ {0} /\ MaxChanges \in Nat
    BY ComponentsAssumption DEF Payroll!PayrollAssumption
  <1> QED
    BY <1>1, <1>3, <1>4, <1>5, <1>6

LEMMA PayrollFound ==
    \A q : Payroll!obtenerLeaves(q) = PayLeavesOf(payrollRows, q) /\
        Payroll!obtenerOvertimes(q) = PayOvertimesOf(payrollRows, q)
  BY DEF Payroll!obtenerLeaves, Payroll!obtenerOvertimes, PayLeavesOf, PayOvertimesOf, PayLeave,
  PayOvertime, PayTaken, PayWorked, PayDays

LEMMA PayrollListed == Payroll!Listed = Ordered(PayListable(payrollRows))
  <1>1. Payroll!Listed =
          Sorted(PayListable(payrollRows), Payroll!Cardinality(PayListable(payrollRows)))
    BY DEF Payroll!Listed, Sorted, PayListable
  <1> QED
    BY <1>1, PayrollCount DEF Ordered

\* A request that waits is in no report.
LEMMA PayrollAppended ==
    ASSUME NEW R \in Seq(Payroll!Request), NEW r \in Payroll!Request, r.status = "PENDING", NEW q
    PROVE  /\ PayLeavesOf(Append(R, r), q) = PayLeavesOf(R, q)
           /\ PayOvertimesOf(Append(R, r), q) = PayOvertimesOf(R, q)
  <1>1. PICK T : T = Append(R, r)
    OBVIOUS
  <1>2. /\ DOMAIN T = DOMAIN R \cup {Len(R) + 1} /\ T[Len(R) + 1] = r
        /\ \A i \in DOMAIN R : T[i] = R[i]
    BY <1>1
  <1>3. ~PayTaken(r, q) /\ ~PayWorked(r, q)
    BY DEF PayTaken, PayWorked
  <1>4. \A j \in DOMAIN T : PayTaken(T[j], q) <=> j \in DOMAIN R /\ PayTaken(R[j], q)
    BY <1>2, <1>3
  <1>5. \A j \in DOMAIN T : PayWorked(T[j], q) <=> j \in DOMAIN R /\ PayWorked(R[j], q)
    BY <1>2, <1>3
  <1>6. PayLeavesOf(T, q) = PayLeavesOf(R, q)
    BY <1>2, <1>4 DEF PayLeavesOf
  <1>7. PayOvertimesOf(T, q) = PayOvertimesOf(R, q)
    BY <1>2, <1>5 DEF PayOvertimesOf
  <1> QED
    BY <1>1, <1>6, <1>7

LEMMA PayrollOpen == \A q \in Periods : \A f : [period |-> q, read |-> f] # Payroll!NoExport
  <1> SUFFICES ASSUME NEW q \in Periods, NEW f, [period |-> q, read |-> f] = Payroll!NoExport
        PROVE FALSE
    OBVIOUS
  <1>1. [period |-> q, read |-> f].period = q /\ Payroll!NoExport.period = <<>>
    BY DEF Payroll!NoExport
  <1>2. q = <<>>
    BY <1>1
  <1>3. Len(q) = 2
    BY PayrollSizes
  <1> QED
    BY <1>2, <1>3

LEMMA PayrollIs ==
    \A q, f, p, g : [period |-> q, read |-> f] = [period |-> p, read |-> g] => q = p /\ f = g
  <1> SUFFICES ASSUME NEW q, NEW f, NEW p, NEW g,
                      [period |-> q, read |-> f] = [period |-> p, read |-> g]
               PROVE  q = p /\ f = g
    OBVIOUS
  <1>1. [period |-> q, read |-> f].period = q /\ [period |-> q, read |-> f].read = f
    OBVIOUS
  <1>2. [period |-> p, read |-> g].period = p /\ [period |-> p, read |-> g].read = g
    OBVIOUS
  <1> QED
    BY <1>1, <1>2

LEMMA PayrollInit == Payroll!Init => PayrollInv
  <1> SUFFICES ASSUME Payroll!Init PROVE PayrollInv
    OBVIOUS
  <1>1. payrollRows = <<>> /\ payrollExport = Payroll!NoExport /\
          payrollListing = Payroll!NoListing /\ payrollMixed = {} /\ payrollChanges = 0
    BY DEF Payroll!Init
  <1>2. DOMAIN payrollSettled = {}
    BY DEF Payroll!Init
  <1>3. IsFiniteSet(DOMAIN payrollSettled)
    BY <1>2, FS_EmptySet
  <1>4. payrollListing \in [page : 0 .. MaxRows, seen : Seq(Nat)]
    BY <1>1, PayrollSizes DEF Payroll!NoListing
  <1>5. PayStood(payrollRows)
    BY <1>1 DEF PayStood
  <1>6. PayShape
    BY <1>1, <1>2, <1>3, <1>4, <1>5, PayrollSizes DEF PayShape
  <1>7. PayReads
    <2> SUFFICES ASSUME NEW q, NEW f, PayExporting(q, f), NEW at \in DOMAIN f PROVE FALSE
      BY DEF PayReads
    <2>1. [period |-> q, read |-> f] = Payroll!NoExport
      BY <1>1 DEF PayExporting
    <2>2. "read" \in DOMAIN [period |-> q, read |-> f] /\ "read" \notin DOMAIN Payroll!NoExport
      BY DEF Payroll!NoExport
    <2> QED
      BY <2>1, <2>2
  <1> QED
    BY <1>1, <1>2, <1>6, <1>7 DEF PayrollInv, PayLists

LEMMA PayrollMin ==
    \A a, b \in Nat : /\ Payroll!Min({a, b}) \in {a, b} /\ Payroll!Min({a, b}) <= a
                      /\ Payroll!Min({a, b}) <= b
  <1> SUFFICES ASSUME NEW a \in Nat, NEW b \in Nat
               PROVE  Payroll!Min({a, b}) \in {a, b} /\ Payroll!Min({a, b}) <= a /\
                   Payroll!Min({a, b}) <= b
    OBVIOUS
  <1>1. \E x \in {a, b} : \A y \in {a, b} : x <= y
    OBVIOUS
  <1>2. Payroll!Min({a, b}) \in {a, b} /\ \A y \in {a, b} : Payroll!Min({a, b}) <= y
    BY <1>1 DEF Payroll!Min
  <1> QED
    BY <1>2

LEMMA PayrollMax ==
    \A a, b \in Nat : /\ Payroll!Max({a, b}) \in {a, b} /\ Payroll!Max({a, b}) >= a
                      /\ Payroll!Max({a, b}) >= b
  <1> SUFFICES ASSUME NEW a \in Nat, NEW b \in Nat
               PROVE  Payroll!Max({a, b}) \in {a, b} /\ Payroll!Max({a, b}) >= a /\
                   Payroll!Max({a, b}) >= b
    OBVIOUS
  <1>1. \E x \in {a, b} : \A y \in {a, b} : x >= y
    OBVIOUS
  <1>2. Payroll!Max({a, b}) \in {a, b} /\ \A y \in {a, b} : Payroll!Max({a, b}) >= y
    BY <1>1 DEF Payroll!Max
  <1> QED
    BY <1>2

\* The settled periods keep what they have.
LEMMA PayrollSettles ==
    ASSUME \A q \in DOMAIN payrollSettled : PaySettles(q), UNCHANGED payrollSettled
    PROVE  \A q \in DOMAIN payrollSettled' : PaySettles(q)'
  BY DEF PaySettles

LEMMA PayrollRegister == ASSUME PayrollInv, Payroll!Register PROVE PayrollInv'
  <1>1. PICK r \in Novelties : payrollRows' = Append(payrollRows, r)
    BY DEF Payroll!Register
  <1>2. /\ Len(payrollRows) < MaxRows /\
             payrollMixed' =
                 payrollMixed \cup (IF payrollListing # Payroll!NoListing THEN {"list"} ELSE {})
        /\ UNCHANGED <<payrollExport, payrollSettled, payrollListing, payrollChanges>>
    BY DEF Payroll!Register
  <1>3. PayFits(r) /\ r.status = "PENDING" /\ r \in Payroll!Request
    BY PayrollSizes
  <1>4. payrollRows \in Seq(Payroll!Request) /\
          \A i \in DOMAIN payrollRows : PayFits(payrollRows[i])
    BY DEF PayrollInv, PayShape, PayStood
  <1>5. PayStood(payrollRows') /\ Len(payrollRows') <= MaxRows
    BY <1>1, <1>2, <1>3, <1>4, PayrollSizes DEF PayStood
  <1>6. PayShape'
    BY <1>2, <1>5 DEF PayrollInv, PayShape, PayExporting
  <1>7. PayReads'
    <2> SUFFICES ASSUME NEW q, NEW f, PayExporting(q, f), "export" \notin payrollMixed,
                        NEW at \in DOMAIN f
                 PROVE  f[at] = PayFrom(payrollRows', q, at[2])
      BY <1>2 DEF PayReads, PayExporting
    <2>1. f[at] = PayFrom(payrollRows, q, at[2])
      BY DEF PayrollInv, PayReads
    <2> QED
      BY <1>1, <1>3, <1>4, <2>1, PayrollAppended DEF PayFrom
  <1>8. PayLists'
    BY <1>2 DEF PayLists, Payroll!NoListing
  <1>9. \A q \in DOMAIN payrollSettled' : PaySettles(q)'
    BY <1>2, PayrollSettles DEF PayrollInv
  <1> QED
    BY <1>6, <1>7, <1>8, <1>9 DEF PayrollInv

LEMMA PayrollDecide == ASSUME PayrollInv, Payroll!Decide PROVE PayrollInv'
  <1>1. /\ payrollChanges < MaxChanges /\ payrollChanges' = payrollChanges + 1 /\ Payroll!Changed
        /\ UNCHANGED <<payrollExport, payrollSettled, payrollListing>>
    BY DEF Payroll!Decide
  <1>2. payrollRows \in Seq(Payroll!Request) /\ Len(payrollRows) <= MaxRows /\
          \A i \in DOMAIN payrollRows : PayFits(payrollRows[i]) /\
              payrollRows[i] \in Payroll!Request
    BY DEF PayrollInv, PayShape, PayStood
  <1>3. PICK i, row : /\ i \in DOMAIN payrollRows /\ row \in Payroll!Request /\
                           payrollRows' = [payrollRows EXCEPT ![i] = row]
                                      /\ row.person = payrollRows[i].person /\ PayFits(row)
    <2>1. PICK i \in DOMAIN payrollRows :
             \/ \E status \in {"APPROVED", "REJECTED"} :
                  payrollRows' = [payrollRows EXCEPT ![i].status = status]
             \/ payrollRows' = [payrollRows EXCEPT ![i].notTaken = TRUE]
      BY DEF Payroll!Decide
    <2>2. payrollRows[i] \in Payroll!Request /\ PayFits(payrollRows[i])
      BY <1>2
    <2>3. CASE \E status \in {"APPROVED", "REJECTED"} :
            payrollRows' = [payrollRows EXCEPT ![i].status = status]
      <3>1. PICK status \in {"APPROVED", "REJECTED"} :
              payrollRows' = [payrollRows EXCEPT ![i].status = status]
        BY <2>3
      <3>2. PICK row : row = [payrollRows[i] EXCEPT !.status = status]
        OBVIOUS
      <3>3. /\ row \in Payroll!Request /\ row.person = payrollRows[i].person
            /\ row.from = payrollRows[i].from /\ row.to = payrollRows[i].to
        BY <2>2, <3>2 DEF Payroll!Request, Payroll!Statuses
      <3>4. PayFits(row) /\ payrollRows' = [payrollRows EXCEPT ![i] = row]
        BY <2>2, <3>1, <3>2, <3>3 DEF PayFits
      <3> QED
        BY <3>3, <3>4
    <2>4. CASE payrollRows' = [payrollRows EXCEPT ![i].notTaken = TRUE]
      <3>1. PICK row : row = [payrollRows[i] EXCEPT !.notTaken = TRUE]
        OBVIOUS
      <3>2. /\ row \in Payroll!Request /\ row.person = payrollRows[i].person
            /\ row.from = payrollRows[i].from /\ row.to = payrollRows[i].to
        BY <2>2, <3>1 DEF Payroll!Request
      <3>3. PayFits(row) /\ payrollRows' = [payrollRows EXCEPT ![i] = row]
        BY <2>2, <2>4, <3>1, <3>2 DEF PayFits
      <3> QED
        BY <3>2, <3>3
    <2> QED
      BY <2>1, <2>3, <2>4
  <1>4. /\ payrollRows' \in Seq(Payroll!Request) /\ Len(payrollRows') = Len(payrollRows)
        /\ DOMAIN payrollRows' = DOMAIN payrollRows
        /\ payrollRows'[i] = row /\
             \A j \in DOMAIN payrollRows \ {i} : payrollRows'[j] = payrollRows[j]
    BY <1>2, <1>3
  <1>5. PayStood(payrollRows') /\ Len(payrollRows') <= MaxRows
    BY <1>2, <1>3, <1>4 DEF PayStood
  <1>6. payrollChanges' \in 0 .. MaxChanges /\ payrollMixed' \subseteq {"export", "list"}
    BY <1>1, PayrollSizes DEF PayrollInv, PayShape, Payroll!Changed
  <1>7. PayShape'
    BY <1>1, <1>5, <1>6 DEF PayrollInv, PayShape, PayExporting
  <1>8. PayReads'
    <2> SUFFICES ASSUME NEW q, NEW f, PayExporting(q, f) PROVE "export" \in payrollMixed'
      BY <1>1 DEF PayReads, PayExporting
    <2>1. payrollExport # Payroll!NoExport
      <3>1. "read" \in DOMAIN [period |-> q, read |-> f] /\ "read" \notin DOMAIN Payroll!NoExport
        BY DEF Payroll!NoExport
      <3> QED
        BY <3>1 DEF PayExporting
    <2> QED
      BY <1>1, <2>1 DEF Payroll!Changed
  <1>9. PayLists'
    <2>1. PayListable(payrollRows') = PayListable(payrollRows)
      BY <1>3, <1>4 DEF PayListable
    <2>2. payrollMixed \subseteq payrollMixed'
      BY <1>1 DEF Payroll!Changed
    <2> QED
      BY <1>1, <2>1, <2>2 DEF PayrollInv, PayLists, Payroll!NoListing
  <1>10. \A q \in DOMAIN payrollSettled' : PaySettles(q)'
    BY <1>1, PayrollSettles DEF PayrollInv
  <1> QED
    BY <1>7, <1>8, <1>9, <1>10 DEF PayrollInv

LEMMA PayrollBegin == ASSUME PayrollInv, Payroll!BeginExport PROVE PayrollInv'
  <1>1. PICK p \in Periods : payrollExport' = [period |-> p, read |-> [q \in {} |-> {}]]
    BY DEF Payroll!BeginExport
  <1>2. payrollMixed' = payrollMixed \ {"export"} /\
          UNCHANGED <<payrollRows, payrollSettled, payrollListing, payrollChanges>>
    BY DEF Payroll!BeginExport
  <1>3. PICK none : none = [q \in {} |-> {}]
    OBVIOUS
  <1>4. DOMAIN none = {} /\ payrollExport' = [period |-> p, read |-> none]
    BY <1>1, <1>3
  <1>5. \E q \in Periods : \E f : PayExporting(q, f)' /\
          DOMAIN f \subseteq Payroll!Sheets \X Payroll!Sources
    BY <1>4 DEF PayExporting
  <1>6. PayShape'
    BY <1>2, <1>5 DEF PayrollInv, PayShape
  <1>7. PayReads'
    <2> SUFFICES ASSUME NEW q, NEW f, PayExporting(q, f)', NEW at \in DOMAIN f PROVE FALSE
      BY DEF PayReads
    <2>1. f = none
      BY <1>4, PayrollIs DEF PayExporting
    <2> QED
      BY <1>4, <2>1
  <1>8. PayLists'
    BY <1>2 DEF PayrollInv, PayLists, Payroll!NoListing
  <1>9. \A q \in DOMAIN payrollSettled' : PaySettles(q)'
    BY <1>2, PayrollSettles DEF PayrollInv
  <1> QED
    BY <1>6, <1>7, <1>8, <1>9 DEF PayrollInv

\* The export that is under way.
LEMMA PayrollUnder ==
    ASSUME PayrollInv, payrollExport # Payroll!NoExport
    PROVE  \E q, f : /\ q \in Periods /\ PayExporting(q, f) /\
                          DOMAIN f \subseteq Payroll!Sheets \X Payroll!Sources
                                     /\ payrollExport.period = q /\ payrollExport.read = f
  <1>1. PICK q, f : q \in Periods /\ PayExporting(q, f) /\
          DOMAIN f \subseteq Payroll!Sheets \X Payroll!Sources
    BY DEF PayrollInv, PayShape
  <1>2. payrollExport.period = q /\ payrollExport.read = f
    BY <1>1 DEF PayExporting
  <1> QED
    BY <1>1, <1>2

LEMMA PayrollRead ==
    ASSUME PayrollInv, NEW sheet \in Payroll!Sheets, NEW source \in Payroll!Sources,
           Payroll!ReadNovelties(sheet, source)
    PROVE  PayrollInv'
  <1>1. payrollExport # Payroll!NoExport /\
          UNCHANGED <<payrollRows, payrollSettled, payrollListing, payrollChanges, payrollMixed>>
    BY DEF Payroll!ReadNovelties
  <1>2. PICK p, f : /\ p \in Periods /\ PayExporting(p, f) /\
                         DOMAIN f \subseteq Payroll!Sheets \X Payroll!Sources
                                /\ payrollExport.period = p /\ payrollExport.read = f
    BY <1>1, PayrollUnder
  <1>3. PICK found, one : found = PayFrom(payrollRows, p, source) /\ one = <<sheet, source>>
    OBVIOUS
  <1>4. PICK g : g = [q \in DOMAIN f \cup {one} |-> IF q = one THEN found ELSE f[q]]
    OBVIOUS
  <1>5. payrollExport' = [period |-> p, read |-> g]
    <2>1. found = IF source = "leaves" THEN Payroll!obtenerLeaves(payrollExport.period)
            ELSE Payroll!obtenerOvertimes(payrollExport.period)
      BY <1>2, <1>3, PayrollFound DEF PayFrom
    <2>2. payrollExport' = [payrollExport EXCEPT !.read = g]
      BY <1>2, <1>3, <1>4, <2>1 DEF Payroll!ReadNovelties
    <2> QED
      BY <1>2, <2>2 DEF PayExporting
  <1>6. DOMAIN g = DOMAIN f \cup {one} /\ one \in Payroll!Sheets \X Payroll!Sources /\
          one[2] = source
    BY <1>3, <1>4
  <1>7. \E q \in Periods : \E e : PayExporting(q, e)' /\
          DOMAIN e \subseteq Payroll!Sheets \X Payroll!Sources
    BY <1>2, <1>5, <1>6 DEF PayExporting
  <1>8. PayShape'
    BY <1>1, <1>7 DEF PayrollInv, PayShape
  <1>9. PayReads'
    <2> SUFFICES ASSUME NEW q, NEW e, PayExporting(q, e)', "export" \notin payrollMixed,
                        NEW at \in DOMAIN e
                 PROVE  e[at] = PayFrom(payrollRows, q, at[2])
      BY <1>1 DEF PayReads
    <2>1. e = g /\ q = p
      BY <1>5, PayrollIs DEF PayExporting
    <2>2. CASE at = one
      BY <1>3, <1>4, <1>6, <2>1, <2>2
    <2>3. CASE at # one
      <3>1. at \in DOMAIN f /\ g[at] = f[at]
        BY <1>4, <1>6, <2>1, <2>3
      <3>2. f[at] = PayFrom(payrollRows, p, at[2])
        BY <1>2, <3>1 DEF PayrollInv, PayReads
      <3> QED
        BY <2>1, <3>1, <3>2
    <2> QED
      BY <2>2, <2>3
  <1>10. PayLists'
    BY <1>1 DEF PayrollInv, PayLists, Payroll!NoListing
  <1>11. \A q \in DOMAIN payrollSettled' : PaySettles(q)'
    BY <1>1, PayrollSettles DEF PayrollInv
  <1> QED
    BY <1>8, <1>9, <1>10, <1>11 DEF PayrollInv

LEMMA PayrollWhole ==
    ASSUME PayrollInv, Payroll!WholeRead, "export" \notin payrollMixed, NEW sheet \in Payroll!Sheets
    PROVE  payrollExport.period \in Periods /\
        Payroll!Read(sheet) = PayAll(payrollRows, payrollExport.period)
  <1>1. PICK p, f : /\ p \in Periods /\ PayExporting(p, f) /\
                         DOMAIN f \subseteq Payroll!Sheets \X Payroll!Sources
                                /\ payrollExport.period = p /\ payrollExport.read = f
    BY PayrollUnder DEF Payroll!WholeRead
  <1>2. DOMAIN f = Payroll!Sheets \X Payroll!Sources
    BY <1>1 DEF Payroll!WholeRead
  <1>3. \A source \in Payroll!Sources : f[<<sheet, source>>] = PayFrom(payrollRows, p, source)
    <2> SUFFICES ASSUME NEW source \in Payroll!Sources
          PROVE f[<<sheet, source>>] = PayFrom(payrollRows, p, source)
      OBVIOUS
    <2>1. PICK at : at = <<sheet, source>>
      OBVIOUS
    <2>2. at \in DOMAIN f /\ at[2] = source
      BY <1>2, <2>1
    <2> QED
      BY <1>1, <2>1, <2>2 DEF PayrollInv, PayReads
  <1>4. Payroll!Read(sheet) = UNION {PayFrom(payrollRows, p, source) : source \in Payroll!Sources}
    BY <1>1, <1>3 DEF Payroll!Read
  <1>5. PayFrom(payrollRows, p, "leaves") = PayLeavesOf(payrollRows, p) /\
          PayFrom(payrollRows, p, "overtimes") = PayOvertimesOf(payrollRows, p)
    BY DEF PayFrom
  <1>6. {PayFrom(payrollRows, p, source) : source \in Payroll!Sources} =
          {PayLeavesOf(payrollRows, p), PayOvertimesOf(payrollRows, p)}
    BY <1>5 DEF Payroll!Sources
  <1> QED
    BY <1>1, <1>4, <1>6 DEF PayAll

LEMMA PayrollWrite == ASSUME PayrollInv, Payroll!WriteWorkbook PROVE PayrollInv'
  <1>1. Payroll!WholeRead /\ payrollExport' = Payroll!NoExport /\
          UNCHANGED <<payrollRows, payrollListing, payrollChanges, payrollMixed>>
    BY DEF Payroll!WriteWorkbook
  <1>2. PICK p \in Periods : p = payrollExport.period
    <2>1. payrollExport # Payroll!NoExport
      BY <1>1 DEF Payroll!WholeRead
    <2> QED
      BY <2>1, PayrollUnder
  <1>3. PICK entry : entry = IF "export" \in payrollMixed THEN Payroll!Unsettled
          ELSE [rows |-> payrollRows, detail |-> Payroll!Read("detail")]
    OBVIOUS
  <1>4. payrollSettled' =
          [q \in DOMAIN payrollSettled \cup {p} |-> IF q # p THEN payrollSettled[q] ELSE entry]
    BY <1>2, <1>3 DEF Payroll!WriteWorkbook
  <1>5. entry = Payroll!Unsettled \/
          (PayStood(payrollRows) /\
              entry = [rows |-> payrollRows, detail |-> PayAll(payrollRows, p)])
    <2>1. CASE "export" \in payrollMixed
      BY <1>3, <2>1
    <2>2. CASE "export" \notin payrollMixed
      <3>1. Payroll!Read("detail") = PayAll(payrollRows, p)
        BY <1>1, <1>2, <2>2, PayrollWhole DEF Payroll!Sheets
      <3> QED
        BY <1>3, <2>2, <3>1 DEF PayrollInv, PayShape
    <2> QED
      BY <2>1, <2>2
  <1>6. DOMAIN payrollSettled' = DOMAIN payrollSettled \cup {p}
    BY <1>4
  <1>7. IsFiniteSet(DOMAIN payrollSettled') /\ DOMAIN payrollSettled' \subseteq Periods
    <2>1. IsFiniteSet(DOMAIN payrollSettled)
      BY DEF PayrollInv, PayShape
    <2>2. IsFiniteSet(DOMAIN payrollSettled \cup {p})
      BY <2>1, FS_AddElement
    <2> QED
      BY <1>6, <2>2 DEF PayrollInv, PayShape
  <1>8. PayShape'
    BY <1>1, <1>7 DEF PayrollInv, PayShape
  <1>9. PayReads'
    <2> SUFFICES ASSUME NEW q, NEW f, PayExporting(q, f)' PROVE FALSE
      BY DEF PayReads
    <2>1. "read" \in DOMAIN [period |-> q, read |-> f] /\ "read" \notin DOMAIN Payroll!NoExport
      BY DEF Payroll!NoExport
    <2> QED
      BY <1>1, <2>1 DEF PayExporting
  <1>10. PayLists'
    BY <1>1 DEF PayrollInv, PayLists, Payroll!NoListing
  <1>11. ASSUME NEW q \in DOMAIN payrollSettled' PROVE PaySettles(q)'
    <2>1. CASE q = p
      <3>1. payrollSettled'[q] = entry
        BY <1>4, <2>1
      <3> QED
        BY <1>5, <2>1, <3>1 DEF PaySettles
    <2>2. CASE q # p
      <3>1. q \in DOMAIN payrollSettled /\ payrollSettled'[q] = payrollSettled[q]
        BY <1>4, <1>6, <2>2
      <3>2. PaySettles(q)
        BY <3>1 DEF PayrollInv
      <3> QED
        BY <3>1, <3>2 DEF PaySettles
    <2> QED
      BY <2>1, <2>2
  <1> QED
    BY <1>8, <1>9, <1>10, <1>11 DEF PayrollInv

LEMMA PayrollFails == ASSUME PayrollInv, Payroll!ExportFails PROVE PayrollInv'
  <1>1. payrollExport' = Payroll!NoExport /\
          UNCHANGED <<payrollRows, payrollSettled, payrollListing, payrollChanges, payrollMixed>>
    BY DEF Payroll!ExportFails
  <1>2. PayShape'
    BY <1>1 DEF PayrollInv, PayShape
  <1>3. PayReads'
    <2> SUFFICES ASSUME NEW q, NEW f, PayExporting(q, f)' PROVE FALSE
      BY DEF PayReads
    <2>1. "read" \in DOMAIN [period |-> q, read |-> f] /\ "read" \notin DOMAIN Payroll!NoExport
      BY DEF Payroll!NoExport
    <2> QED
      BY <1>1, <2>1 DEF PayExporting
  <1>4. PayLists'
    BY <1>1 DEF PayrollInv, PayLists, Payroll!NoListing
  <1>5. \A q \in DOMAIN payrollSettled' : PaySettles(q)'
    BY <1>1, PayrollSettles DEF PayrollInv
  <1> QED
    BY <1>2, <1>3, <1>4, <1>5 DEF PayrollInv

-----------------------------------------------------------------------------
\* The list is whole, the newest first.
LEMMA PayrollListable ==
    ASSUME PayStood(payrollRows), Len(payrollRows) <= MaxRows
    PROVE  LET F == PayListable(payrollRows) IN
             IsFiniteSet(F) /\ F \subseteq Nat /\ Cardinality(F) \in Nat /\
                 Cardinality(F) <= MaxRows
  <1>1. payrollRows \in Seq(Payroll!Request) /\ Len(payrollRows) \in Nat /\
          DOMAIN payrollRows = 1 .. Len(payrollRows)
    BY DEF PayStood
  <1>2. PICK F : F = PayListable(payrollRows)
    OBVIOUS
  <1>3. F \subseteq 1 .. Len(payrollRows)
    BY <1>1, <1>2 DEF PayListable
  <1>4. IsFiniteSet(1 .. Len(payrollRows)) /\ Cardinality(1 .. Len(payrollRows)) = Len(payrollRows)
    <2>1. 1 \in Int /\ Len(payrollRows) \in Int /\ Len(payrollRows) - 1 + 1 = Len(payrollRows)
      BY <1>1
    <2> QED
      BY <1>1, <2>1, FS_Interval
  <1>5. IsFiniteSet(F) /\ Cardinality(F) <= Len(payrollRows) /\ Cardinality(F) \in Nat
    BY <1>3, <1>4, FS_Subset, FS_CardinalityType
  <1>6. F \subseteq Nat
    BY <1>3
  <1> QED
    BY <1>1, <1>2, <1>5, <1>6, PayrollSizes

LEMMA PayrollTotal ==
    ASSUME PayStood(payrollRows), Len(payrollRows) <= MaxRows
    PROVE  Payroll!TotalPages \in Nat /\ Payroll!TotalPages <= MaxRows /\
        Payroll!TotalPages * RowsPerPage >= Len(Payroll!Listed)
  <1>1. PICK s : s = Ordered(PayListable(payrollRows))
    OBVIOUS
  <1>2. s \in Seq(Nat) /\ Len(s) \in Nat /\ Len(s) <= MaxRows
    BY <1>1, PayrollListable, OrderedIsWhole
  <1>3. Payroll!TotalPages = IF Len(s) = 0 THEN 1 ELSE (Len(s) + RowsPerPage - 1) \div RowsPerPage
    BY <1>1, <1>2, PayrollListed DEF Payroll!TotalPages
  <1> QED
    BY <1>1, <1>2, <1>3, PayrollListed, PagesNeeded, PayrollSizes

\* A page more.
LEMMA PayrollTurned ==
    ASSUME NEW s \in Seq(Nat), NEW a \in Nat, NEW b \in Nat, a <= b
    PROVE  /\ SubSeq(s, 1, Payroll!Min({Len(s), a})) \in Seq(Nat)
           /\ SubSeq(s, a + 1, Payroll!Min({Len(s), b})) \in Seq(Nat)
           /\ SubSeq(s, 1, Payroll!Min({Len(s), a})) \o SubSeq(s, a + 1, Payroll!Min({Len(s), b})) =
                 SubSeq(s, 1, Payroll!Min({Len(s), b}))
  <1>1. PICK n, x, y : n = Len(s) /\ x = Payroll!Min({Len(s), a}) /\ y = Payroll!Min({Len(s), b})
    OBVIOUS
  <1>2. /\ n \in Nat /\ x \in {n, a} /\ x <= n /\ x <= a /\ y \in {n, b} /\ y <= n /\ y <= b
        /\ x \in Nat /\ y \in Nat
    BY <1>1, PayrollMin
  <1>3. CASE a <= n
    <2>1. x = a /\ a <= y
      BY <1>2, <1>3
    <2>2. 1 \in 1 .. Len(s) + 1 /\ a \in 1 - 1 .. Len(s) /\ y \in a .. Len(s)
      BY <1>1, <1>2, <1>3, <2>1
    <2>3. SubSeq(s, 1, a) \o SubSeq(s, a + 1, y) = SubSeq(s, 1, y)
      BY <2>2, ConcatAdjacentSubSeq
    <2>4. \A i \in 1 .. Len(s) : s[i] \in Nat
      BY ElementOfSeq
    <2>5. SubSeq(s, 1, a) \in Seq(Nat)
      <3>1. \A i \in 1 .. a : s[i] \in Nat
        BY <1>1, <1>2, <1>3, <2>4
      <3> QED
        BY <3>1, SubSeqProperties
    <2>6. SubSeq(s, a + 1, y) \in Seq(Nat)
      <3>1. \A i \in a + 1 .. y : s[i] \in Nat
        BY <1>1, <1>2, <2>4
      <3>2. a + 1 \in Int /\ y \in Int
        BY <1>2
      <3> QED
        BY <3>1, <3>2, SubSeqProperties
    <2> QED
      BY <1>1, <2>1, <2>3, <2>5, <2>6
  <1>4. CASE a > n
    <2>1. x = n /\ y = n
      BY <1>2, <1>4
    <2>2. SubSeq(s, 1, n) = s
      BY <1>1, SubSeqFull
    <2>3. SubSeq(s, a + 1, n) = <<>>
      <3>1. a + 1 \in Int /\ n \in Int /\ n < a + 1
        BY <1>2, <1>4
      <3> QED
        BY <3>1, SubSeqEmpty
    <2>4. <<>> \in Seq(Nat) /\ s \o <<>> = s
      BY ConcatEmptySeq
    <2> QED
      BY <1>1, <2>1, <2>2, <2>3, <2>4
  <1>5. a <= n \/ a > n
    BY <1>2
  <1> QED
    BY <1>3, <1>4, <1>5

LEMMA PayrollList == ASSUME PayrollInv, Payroll!findAllSolicitudes PROVE PayrollInv'
  <1>1. /\ payrollExport = Payroll!NoExport /\ payrollListing.page < Payroll!TotalPages
        /\ payrollListing' =
             [page |-> payrollListing.page + 1,
                 seen |-> payrollListing.seen \o Payroll!Page(payrollListing.page + 1)]
        /\ payrollMixed' = IF payrollListing = Payroll!NoListing THEN payrollMixed \ {"list"}
             ELSE payrollMixed
        /\ UNCHANGED <<payrollRows, payrollExport, payrollSettled, payrollChanges>>
    BY DEF Payroll!findAllSolicitudes
  <1>2. PICK p, seen : p = payrollListing.page /\ seen = payrollListing.seen
    OBVIOUS
  <1>3. PICK s : s = Payroll!Listed
    OBVIOUS
  <1>4. s = Ordered(PayListable(payrollRows)) /\ s \in Seq(Nat) /\ Len(s) \in Nat
    <2>1. s = Ordered(PayListable(payrollRows))
      BY <1>3, PayrollListed
    <2> QED
      BY <2>1, PayrollListable, OrderedIsWhole DEF PayrollInv, PayShape
  <1>5. p \in Nat /\ p + 1 \in 0 .. MaxRows /\ seen \in Seq(Nat)
    <2>1. payrollListing \in [page : 0 .. MaxRows, seen : Seq(Nat)]
      BY DEF PayrollInv, PayShape
    <2>2. Payroll!TotalPages \in Nat /\ Payroll!TotalPages <= MaxRows
      BY PayrollTotal DEF PayrollInv, PayShape
    <2> QED
      BY <1>1, <1>2, <2>1, <2>2, PayrollSizes
  <1>6. PICK a, b : a = p * RowsPerPage /\ b = (p + 1) * RowsPerPage
    OBVIOUS
  <1>7. a \in Nat /\ b \in Nat /\ a <= b
    <2>1. b = a + RowsPerPage /\ a \in Nat /\ b \in Nat
      BY <1>5, <1>6, PayrollSizes
    <2> QED
      BY <2>1, PayrollSizes
  <1>8. PICK next : next = Payroll!Page(p + 1)
    OBVIOUS
  <1>9. next = SubSeq(s, a + 1, Payroll!Min({Len(s), b}))
    <2>1. PICK m : m = p + 1
      OBVIOUS
    <2>2. m - 1 = p /\ m * RowsPerPage = b /\ (m - 1) * RowsPerPage = a
      BY <1>5, <1>6, <2>1
    <2>3. next = SubSeq(Payroll!Listed, (m - 1) * RowsPerPage + 1,
            Payroll!Min({Len(Payroll!Listed), m * RowsPerPage}))
      BY <1>8, <2>1 DEF Payroll!Page
    <2> QED
      BY <1>3, <2>2, <2>3
  <1>10. /\ next \in Seq(Nat)
         /\ SubSeq(s, 1, Payroll!Min({Len(s), a})) \o next = SubSeq(s, 1, Payroll!Min({Len(s), b}))
    BY <1>4, <1>7, <1>9, PayrollTurned
  <1>11. seen \o next \in Seq(Nat)
    BY <1>5, <1>10, ConcatProperties
  <1>12. payrollListing' = [page |-> p + 1, seen |-> seen \o next]
    BY <1>1, <1>2, <1>8
  <1>13. PayShape'
    <2>1. payrollListing' \in [page : 0 .. MaxRows, seen : Seq(Nat)]
      BY <1>5, <1>11, <1>12
    <2>2. payrollMixed' \subseteq {"export", "list"}
      BY <1>1 DEF PayrollInv, PayShape
    <2> QED
      BY <1>1, <2>1, <2>2 DEF PayrollInv, PayShape, PayExporting
  <1>14. PayReads'
    <2> SUFFICES ASSUME NEW q, NEW f, PayExporting(q, f)' PROVE FALSE
      BY DEF PayReads
    <2>1. "read" \in DOMAIN [period |-> q, read |-> f] /\ "read" \notin DOMAIN Payroll!NoExport
      BY DEF Payroll!NoExport
    <2> QED
      BY <1>1, <2>1 DEF PayExporting
  <1>15. PayLists'
    <2> SUFFICES ASSUME "list" \notin payrollMixed'
          PROVE payrollListing'.seen = PayUpto(s, payrollListing'.page)
      BY <1>1, <1>4 DEF PayLists
    <2>1. seen = SubSeq(s, 1, Payroll!Min({Len(s), a}))
      <3>1. CASE payrollListing = Payroll!NoListing
        <4>1. p = 0 /\ seen = <<>>
          BY <1>2, <3>1 DEF Payroll!NoListing
        <4>2. a = 0
          BY <1>6, <4>1, PayrollSizes
        <4>3. Payroll!Min({Len(s), 0}) = 0
          BY <1>4, PayrollMin
        <4>4. SubSeq(s, 1, 0) = <<>>
          BY SubSeqEmpty
        <4> QED
          BY <4>1, <4>2, <4>3, <4>4
      <3>2. CASE payrollListing # Payroll!NoListing
        <4>1. "list" \notin payrollMixed
          BY <1>1, <3>2
        <4>2. payrollListing.seen = PayUpto(Ordered(PayListable(payrollRows)), payrollListing.page)
          BY <3>2, <4>1 DEF PayrollInv, PayLists
        <4> QED
          BY <1>2, <1>4, <1>6, <4>2 DEF PayUpto
      <3> QED
        BY <3>1, <3>2
    <2>2. payrollListing'.seen = SubSeq(s, 1, Payroll!Min({Len(s), b})) /\
            payrollListing'.page = p + 1
      BY <1>10, <1>12, <2>1
    <2> QED
      BY <1>6, <2>2 DEF PayUpto
  <1>16. \A q \in DOMAIN payrollSettled' : PaySettles(q)'
    BY <1>1, PayrollSettles DEF PayrollInv
  <1> QED
    BY <1>13, <1>14, <1>15, <1>16 DEF PayrollInv

LEMMA PayrollClose == ASSUME PayrollInv, Payroll!CloseList PROVE PayrollInv'
  <1>1. payrollListing' = Payroll!NoListing /\
          UNCHANGED <<payrollRows, payrollExport, payrollSettled, payrollChanges, payrollMixed>>
    BY DEF Payroll!CloseList
  <1>2. Payroll!NoListing \in [page : 0 .. MaxRows, seen : Seq(Nat)]
    BY PayrollSizes DEF Payroll!NoListing
  <1>3. PayShape'
    BY <1>1, <1>2 DEF PayrollInv, PayShape, PayExporting
  <1>4. PayReads'
    BY <1>1 DEF PayrollInv, PayReads, PayExporting
  <1>5. PayLists'
    BY <1>1 DEF PayLists, Payroll!NoListing
  <1>6. \A q \in DOMAIN payrollSettled' : PaySettles(q)'
    BY <1>1, PayrollSettles DEF PayrollInv
  <1> QED
    BY <1>3, <1>4, <1>5, <1>6 DEF PayrollInv

LEMMA PayrollStutter == ASSUME PayrollInv, UNCHANGED Payroll!vars PROVE PayrollInv'
  <1>1. UNCHANGED <<payrollRows, payrollExport, payrollSettled, payrollListing, payrollChanges,
          payrollMixed>>
    BY DEF Payroll!vars
  <1>2. PayShape'
    BY <1>1 DEF PayrollInv, PayShape, PayExporting
  <1>3. PayReads'
    BY <1>1 DEF PayrollInv, PayReads, PayExporting
  <1>4. PayLists'
    BY <1>1 DEF PayrollInv, PayLists, Payroll!NoListing
  <1>5. \A q \in DOMAIN payrollSettled' : PaySettles(q)'
    BY <1>1, PayrollSettles DEF PayrollInv
  <1> QED
    BY <1>2, <1>3, <1>4, <1>5 DEF PayrollInv

LEMMA PayrollStep == ASSUME PayrollInv, [Payroll!Next]_(Payroll!vars) PROVE PayrollInv'
  <1>1. CASE Payroll!Register \/ Payroll!Decide \/ Payroll!BeginExport \/
          Payroll!WriteWorkbook \/ Payroll!ExportFails
    BY <1>1, PayrollRegister, PayrollDecide, PayrollBegin, PayrollWrite, PayrollFails
  <1>2. CASE \E sheet \in Payroll!Sheets,
  source \in Payroll!Sources : Payroll!ReadNovelties(sheet, source)
    BY <1>2, PayrollRead
  <1>3. CASE Payroll!findAllSolicitudes \/ Payroll!CloseList
    BY <1>3, PayrollList, PayrollClose
  <1>4. CASE UNCHANGED Payroll!vars
    BY <1>4, PayrollStutter
  <1> QED
    BY <1>1, <1>2, <1>3, <1>4 DEF Payroll!Next

-----------------------------------------------------------------------------
\* What is counted between two days.
PayCounted(kind, a, b) == IF Payroll!Config(kind).contarHabiles THEN (a .. b) \cap WorkDays
    ELSE a .. b

LEMMA PayrollCounted ==
    ASSUME NEW kind, NEW a \in Nat, NEW b \in Nat
    PROVE  /\ IsFiniteSet(PayCounted(kind, a, b)) /\ Payroll!Contar(kind, a, b) \in Nat
           /\ Payroll!Contar(kind, a, b) = Cardinality(PayCounted(kind, a, b))
           /\ PayCounted(kind, a, b) \subseteq a .. b
           /\ \A x \in a .. b, c, d \in Nat : x \in c .. d =>
                 (x \in PayCounted(kind, a, b) <=> x \in PayCounted(kind, c, d))
  <1>1. IsFiniteSet(a .. b)
    <2>1. a \in Int /\ b \in Int
      OBVIOUS
    <2> QED
      BY <2>1, FS_Interval
  <1>2. PayCounted(kind, a, b) \subseteq a .. b
    BY DEF PayCounted
  <1>3. IsFiniteSet(PayCounted(kind, a, b)) /\ Cardinality(PayCounted(kind, a, b)) \in Nat
    BY <1>1, <1>2, FS_Subset, FS_CardinalityType
  <1>4. Payroll!Contar(kind, a, b) = Cardinality(PayCounted(kind, a, b))
    BY PayrollCount DEF Payroll!Contar, PayCounted, Payroll!countBusinessDays,
    Payroll!diasCalendario
  <1>5. \A x \in a .. b, c, d \in Nat : x \in c .. d =>
            (x \in PayCounted(kind, a, b) <=> x \in PayCounted(kind, c, d))
    BY DEF PayCounted
  <1> QED
    BY <1>2, <1>3, <1>4, <1>5

LEMMA PayrollCut ==
    ASSUME NEW r \in Payroll!Request, NEW q \in Periods
    PROVE  /\ Payroll!Recortar(r, q).from \in Nat /\ Payroll!Recortar(r, q).to \in Nat
           /\ \A x \in Nat : x \in Payroll!Recortar(r, q).from .. Payroll!Recortar(r, q).to <=>
                 x \in r.from .. r.to /\ x \in q[1] .. q[2]
           /\ PayDays(r, q) \in Nat
  <1>1. PICK a, b : a = Payroll!Max({r.from, q[1]}) /\ b = Payroll!Min({r.to, q[2]})
    OBVIOUS
  <1>2. r.from \in Nat /\ r.to \in Nat /\ q[1] \in Nat /\ q[2] \in Nat
    BY PayrollSizes DEF Payroll!Request
  <1>3. /\ a \in {r.from, q[1]} /\ a >= r.from /\ a >= q[1]
        /\ b \in {r.to, q[2]} /\ b <= r.to /\ b <= q[2]
    BY <1>1, <1>2, PayrollMax, PayrollMin
  <1>4. Payroll!Recortar(r, q).from = a /\ Payroll!Recortar(r, q).to = b
    BY <1>1 DEF Payroll!Recortar
  <1>5. a \in Nat /\ b \in Nat
    BY <1>2, <1>3
  <1>6. \A x \in Nat : x \in a .. b <=> x \in r.from .. r.to /\ x \in q[1] .. q[2]
    BY <1>2, <1>3, <1>5
  <1>7. PayDays(r, q) \in Nat
    BY <1>4, <1>5, PayrollCounted DEF PayDays
  <1> QED
    BY <1>4, <1>5, <1>6, <1>7

\* The novelties of a period are finitely many, and count whole amounts.
LEMMA PayrollNovelties ==
    ASSUME NEW R, PayStood(R), NEW q \in Periods
    PROVE  /\ IsFiniteSet(PayAll(R, q))
           /\ \A n \in PayAll(R, q) : n.amount \in Nat /\ n.kind \in Payroll!Kinds
  <1>1. R \in Seq(Payroll!Request) /\ DOMAIN R = 1 .. Len(R) /\ Len(R) \in Nat /\
          \A i \in DOMAIN R : R[i] \in Payroll!Request
    BY DEF PayStood
  <1>2. IsFiniteSet(DOMAIN R)
    <2>1. 1 \in Int /\ Len(R) \in Int
      BY <1>1
    <2> QED
      BY <1>1, <2>1, FS_Interval
  <1>3. IsFiniteSet(PayLeavesOf(R, q))
    <2> DEFINE S == {j \in DOMAIN R : PayTaken(R[j], q)}
    <2>1. IsFiniteSet(S)
      BY <1>2, FS_Subset
    <2>2. IsFiniteSet({PayLeave(R[i], i, q) : i \in S})
      <3> DEFINE f == [i \in S |-> PayLeave(R[i], i, q)]
      <3>1. {PayLeave(R[i], i, q) : i \in S} = {f[i] : i \in S}
        OBVIOUS
      <3> HIDE DEF f, S
      <3> QED
        BY <2>1, <3>1, ImageIsFinite
    <2> QED
      BY <2>2 DEF PayLeavesOf
  <1>4. IsFiniteSet(PayOvertimesOf(R, q))
    <2> DEFINE S == {j \in DOMAIN R : PayWorked(R[j], q)}
    <2>1. IsFiniteSet(S)
      BY <1>2, FS_Subset
    <2>2. IsFiniteSet({PayOvertime(R[i], i) : i \in S})
      <3> DEFINE f == [i \in S |-> PayOvertime(R[i], i)]
      <3>1. {PayOvertime(R[i], i) : i \in S} = {f[i] : i \in S}
        OBVIOUS
      <3> HIDE DEF f, S
      <3> QED
        BY <2>1, <3>1, ImageIsFinite
    <2> QED
      BY <2>2 DEF PayOvertimesOf
  <1>5. IsFiniteSet(PayAll(R, q))
    BY <1>3, <1>4, FS_Union DEF PayAll
  <1>6. \A n \in PayLeavesOf(R, q) : n.amount \in Nat /\ n.kind \in Payroll!Kinds
    <2> SUFFICES ASSUME NEW i \in DOMAIN R, NEW n, n = PayLeave(R[i], i, q)
          PROVE n.amount \in Nat /\ n.kind \in Payroll!Kinds
      BY DEF PayLeavesOf
    <2>1. n.amount = PayDays(R[i], q) /\ n.kind = R[i].kind
      BY DEF PayLeave
    <2> QED
      BY <1>1, <2>1, PayrollCut DEF Payroll!Request
  <1>7. \A n \in PayOvertimesOf(R, q) : n.amount \in Nat /\ n.kind \in Payroll!Kinds
    <2> SUFFICES ASSUME NEW i \in DOMAIN R, NEW n, n = PayOvertime(R[i], i)
          PROVE n.amount \in Nat /\ n.kind \in Payroll!Kinds
      BY DEF PayOvertimesOf
    <2>1. n.amount = R[i].hours /\ n.kind = "overtime"
      BY DEF PayOvertime
    <2> QED
      BY <1>1, <2>1 DEF Payroll!Request, Payroll!Kinds
  <1> QED
    BY <1>5, <1>6, <1>7 DEF PayAll

LEMMA PayrollPeople ==
    ASSUME NEW N, IsFiniteSet(N)
    PROVE  IsFiniteSet({n.person : n \in N})
  <1> DEFINE person == [n \in N |-> n.person]
  <1>1. {n.person : n \in N} = {person[n] : n \in N}
    OBVIOUS
  <1> HIDE DEF person
  <1>2. IsFiniteSet({person[n] : n \in N})
    BY ImageIsFinite
  <1> QED
    BY <1>1, <1>2

\* A sum of amounts is the sum over the people.
LEMMA PayrollByPeople ==
    ASSUME NEW N, IsFiniteSet(N), \A n \in N : n.amount \in Nat, NEW M \in SUBSET N,
           NEW P, IsFiniteSet(P), \A n \in N : n.person \in P,
           NEW g, DOMAIN g = P, \A p \in P : g[p] = Payroll!Amount({n \in M : n.person = p})
    PROVE  Payroll!Amount(M) = Payroll!SumFunction(g)
  <1> DEFINE f == [n \in M |-> n.amount]
             at == [n \in M |-> n.person]
  <1>1. IsFiniteSet(M) /\ \A n \in M : n \in N
    BY FS_Subset
  <1>3. \A n \in M : f[n] \in Int /\ at[n] \in P
    BY <1>1
  <1>4. ASSUME NEW p \in P PROVE g[p] = SumFunctionOnSet(f, {n \in M : at[n] = p})
    <2> DEFINE own == {n \in M : n.person = p}
               h == [n \in own |-> n.amount]
    <2>1. own = {n \in M : at[n] = p} /\ own \subseteq M
      OBVIOUS
    <2>2. IsFiniteSet(own)
      BY <1>1, <2>1, FS_Subset
    <2>3. \A n \in own : h[n] \in Int /\ h[n] = f[n]
      BY <1>1
    <2>4. DOMAIN h = own /\ Payroll!Amount(own) = Payroll!SumFunction(h)
      BY DEF Payroll!Amount
    <2>5. g[p] = Payroll!Amount(own)
      OBVIOUS
    <2> HIDE DEF own, h, f, at
    <2>6. SumFunctionOnSet(h, own) = SumFunctionOnSet(f, own)
      BY <2>2, <2>3, SumOfSame
    <2> QED
      BY <2>1, <2>4, <2>5, <2>6, PayrollSum
  <1>5. Payroll!Amount(M) = SumFunctionOnSet(f, M)
    <2>1. DOMAIN f = M /\ Payroll!Amount(M) = Payroll!SumFunction(f)
      BY DEF Payroll!Amount
    <2> QED
      BY <2>1, PayrollSum
  <1>6. PICK h, where : h = f /\ where = at
    OBVIOUS
  <1>7. SumFunctionOnSet(g, P) = SumFunctionOnSet(h, M)
    <2>1. (\A n \in M : h[n] \in Int) /\ (\A n \in M : where[n] \in P)
      BY <1>3, <1>6
    <2>2. ByParts(g, P, h, where, M)
      BY <1>4, <1>6 DEF ByParts
    <2> HIDE DEF f, at
    <2> QED
      BY <1>1, <2>1, <2>2, SumByParts
  <1> QED
    BY <1>5, <1>6, <1>7, PayrollSum

\* A sum of amounts over two sets that share nothing.
LEMMA PayrollApart ==
    ASSUME NEW S, NEW T, IsFiniteSet(S \cup T), S \cap T = {}, \A n \in S \cup T : n.amount \in Nat
    PROVE  Payroll!Amount(S \cup T) = Payroll!Amount(S) + Payroll!Amount(T)
  <1> DEFINE f(U) == [n \in U |-> n.amount]
  <1>1. IsFiniteSet(S) /\ IsFiniteSet(T)
    BY FS_Subset
  <1>2. \A U : DOMAIN f(U) = U /\ Payroll!Amount(U) = Payroll!SumFunction(f(U))
    BY DEF Payroll!Amount
  <1>3. PICK a, b, c : a = f(S) /\ b = f(T) /\ c = f(S \cup T)
    OBVIOUS
  <1>4. /\ \A n \in S : a[n] \in Int /\ a[n] = c[n]
        /\ \A n \in T : b[n] \in Int /\ b[n] = c[n]
        /\ \A n \in S \cup T : c[n] \in Int
    BY <1>3
  <1>5. /\ Payroll!Amount(S) = SumFunctionOnSet(a, S) /\ Payroll!Amount(T) = SumFunctionOnSet(b, T)
        /\ Payroll!Amount(S \cup T) = SumFunctionOnSet(c, S \cup T)
    BY <1>2, <1>3, PayrollSum
  <1> HIDE DEF f
  <1>6. SumFunctionOnSet(a, S) = SumFunctionOnSet(c, S) /\
          SumFunctionOnSet(b, T) = SumFunctionOnSet(c, T)
    BY <1>1, <1>4, SumOfSame
  <1>7. SumFunctionOnSet(c, S \cup T) = SumFunctionOnSet(c, S) + SumFunctionOnSet(c, T)
    BY <1>1, <1>4, SumOfTwo
  <1> QED
    BY <1>5, <1>6, <1>7

\* One figure of the sheets: that of the people is that of the period.
PayFigure(people, field, M) ==
    \A p \in DOMAIN people : people[p][field] = Payroll!Amount({n \in M : n.person = p})
PayAcross(people, field) == Payroll!SumFunction([p \in DOMAIN people |-> people[p][field]])

LEMMA PayrollFigure ==
    ASSUME NEW N, IsFiniteSet(N), \A n \in N : n.amount \in Nat, NEW M \in SUBSET N,
           NEW people, DOMAIN people = {n.person : n \in N}, NEW field, PayFigure(people, field, M)
    PROVE  Payroll!Amount(M) = PayAcross(people, field)
  <1>1. PICK P : P = DOMAIN people
    OBVIOUS
  <1>2. IsFiniteSet(P) /\ \A n \in N : n.person \in P
    BY <1>1, PayrollPeople
  <1>3. PICK g : g = [p \in P |-> people[p][field]]
    OBVIOUS
  <1>4. DOMAIN g = P /\ \A p \in P : g[p] = Payroll!Amount({n \in M : n.person = p})
    BY <1>1, <1>3 DEF PayFigure
  <1>5. Payroll!Amount(M) = Payroll!SumFunction(g)
    BY <1>2, <1>4, PayrollByPeople
  <1> QED
    BY <1>1, <1>3, <1>5 DEF PayAcross

LEMMA PayrollKinds ==
    ASSUME NEW N
    PROVE  /\ Payroll!Hours(N) = {n \in N : n.kind = "overtime"}
           /\ {n \in N : Payroll!Config(n.kind).unidad = "DIAS"} = {n \in N : n.kind # "overtime"}
           /\ Payroll!Hours(N) \subseteq N /\ Payroll!Vacations(N) \subseteq N
           /\ Payroll!Unpaid(N) \subseteq N
           /\ Payroll!Vacations(N) \cap Payroll!Hours(N) = {}
  <1>1. \A n \in N : Payroll!Config(n.kind).unidad = IF n.kind = "overtime" THEN "HORAS" ELSE "DIAS"
    BY DEF Payroll!Config
  <1>2. Payroll!Hours(N) = {n \in N : n.kind = "overtime"}
    BY <1>1 DEF Payroll!Hours
  <1>3. {n \in N : Payroll!Config(n.kind).unidad = "DIAS"} = {n \in N : n.kind # "overtime"}
    BY <1>1
  <1>4. Payroll!Hours(N) \subseteq N /\ Payroll!Vacations(N) \subseteq N /\
          Payroll!Unpaid(N) \subseteq N
    BY DEF Payroll!Hours, Payroll!Vacations, Payroll!Unpaid
  <1>5. Payroll!Vacations(N) \cap Payroll!Hours(N) = {}
    BY <1>2 DEF Payroll!Vacations
  <1> QED
    BY <1>2, <1>3, <1>4, <1>5

\* The sheets of the same novelties agree.
LEMMA PayrollSheets ==
    ASSUME NEW N, IsFiniteSet(N), \A n \in N : n.amount \in Nat,
           NEW people, people = Payroll!resumenPorColaborador(N), NEW totals,
           totals = Payroll!totalesPeriodo(N)
    PROVE  /\ totals.people = Payroll!Cardinality(DOMAIN people)
           /\ \A field \in {"extra", "vacations", "absence", "unpaid"} :
                totals[field] = PayAcross(people, field)
           /\ totals.extra + totals.vacations + totals.absence = Payroll!Amount(N)
  <1> DEFINE Own(p) == {n \in N : n.person = p}
             Absent == (N \ Payroll!Hours(N)) \ Payroll!Vacations(N)
  <1>1. DOMAIN people = {n.person : n \in N}
    BY DEF Payroll!resumenPorColaborador
  <1>2. ASSUME NEW p \in DOMAIN people
        PROVE  /\ people[p]["extra"] = Payroll!Amount(Payroll!Hours(Own(p)))
               /\ people[p]["vacations"] = Payroll!Amount(Payroll!Vacations(Own(p)))
               /\ people[p]["absence"] =
                    Payroll!Amount((Own(p) \ Payroll!Hours(Own(p))) \ Payroll!Vacations(Own(p)))
               /\ people[p]["unpaid"] = Payroll!Amount(Payroll!Unpaid(Own(p)))
    BY <1>1 DEF Payroll!resumenPorColaborador
  <1>3. /\ totals["extra"] = Payroll!Amount(Payroll!Hours(N))
        /\ totals["vacations"] = Payroll!Amount(Payroll!Vacations(N))
        /\ totals["absence"] =
             Payroll!Amount({n \in N :
                 Payroll!Config(n.kind).unidad = "DIAS"} \ Payroll!Vacations(N))
        /\ totals["unpaid"] = Payroll!Amount(Payroll!Unpaid(N))
        /\ totals.people = Payroll!Cardinality({n.person : n \in N})
    BY DEF Payroll!totalesPeriodo
  <1>4. {n \in N : Payroll!Config(n.kind).unidad = "DIAS"} \ Payroll!Vacations(N) = Absent
    BY PayrollKinds
  <1>5. ASSUME NEW p \in DOMAIN people
        PROVE  /\ Payroll!Hours(Own(p)) = {n \in Payroll!Hours(N) : n.person = p}
               /\ Payroll!Vacations(Own(p)) = {n \in Payroll!Vacations(N) : n.person = p}
               /\ (Own(p) \ Payroll!Hours(Own(p))) \ Payroll!Vacations(Own(p)) =
                    {n \in Absent : n.person = p}
               /\ Payroll!Unpaid(Own(p)) = {n \in Payroll!Unpaid(N) : n.person = p}
    <2>1. Payroll!Hours(Own(p)) = {n \in Payroll!Hours(N) : n.person = p}
      BY DEF Payroll!Hours
    <2>2. Payroll!Vacations(Own(p)) = {n \in Payroll!Vacations(N) : n.person = p}
      BY DEF Payroll!Vacations
    <2>3. Payroll!Unpaid(Own(p)) = {n \in Payroll!Unpaid(N) : n.person = p}
      BY DEF Payroll!Unpaid
    <2>4. (Own(p) \ Payroll!Hours(Own(p))) \ Payroll!Vacations(Own(p)) =
            {n \in Absent : n.person = p}
      BY <2>1, <2>2
    <2> QED
      BY <2>1, <2>2, <2>3, <2>4
  <1>6. /\ Payroll!Hours(N) \in SUBSET N /\ Payroll!Vacations(N) \in SUBSET N /\ Absent \in SUBSET N
        /\ Payroll!Unpaid(N) \in SUBSET N
    BY PayrollKinds
  <1>7. PICK A, H, V, U : A = Absent /\ H = Payroll!Hours(N) /\ V = Payroll!Vacations(N) /\
          U = Payroll!Unpaid(N)
    OBVIOUS
  <1>8. /\ PayFigure(people, "extra", H) /\ PayFigure(people, "vacations", V)
        /\ PayFigure(people, "absence", A) /\ PayFigure(people, "unpaid", U)
    BY <1>2, <1>5, <1>7 DEF PayFigure
  <1>9. H \in SUBSET N /\ V \in SUBSET N /\ A \in SUBSET N /\ U \in SUBSET N
    BY <1>6, <1>7
  <1>10. /\ totals["extra"] = Payroll!Amount(H) /\ totals["vacations"] = Payroll!Amount(V)
         /\ totals["absence"] = Payroll!Amount(A) /\ totals["unpaid"] = Payroll!Amount(U)
    BY <1>3, <1>4, <1>7
  <1>11. N = H \cup (V \cup A) /\ H \cap (V \cup A) = {} /\ V \cap A = {}
    BY <1>6, <1>7, PayrollKinds
  <1> HIDE DEF Own, Absent
  <1>12. totals["extra"] = PayAcross(people, "extra")
    BY <1>1, <1>8, <1>9, <1>10, PayrollFigure
  <1>13. totals["vacations"] = PayAcross(people, "vacations")
    BY <1>1, <1>8, <1>9, <1>10, PayrollFigure
  <1>14. totals["absence"] = PayAcross(people, "absence")
    BY <1>1, <1>8, <1>9, <1>10, PayrollFigure
  <1>15. totals["unpaid"] = PayAcross(people, "unpaid")
    BY <1>1, <1>8, <1>9, <1>10, PayrollFigure
  <1>16. Payroll!Amount(N) = Payroll!Amount(H) + Payroll!Amount(V \cup A)
    BY <1>11, PayrollApart
  <1>17. Payroll!Amount(V \cup A) = Payroll!Amount(V) + Payroll!Amount(A)
    <2>1. IsFiniteSet(V \cup A) /\ \A n \in V \cup A : n.amount \in Nat
      BY <1>9, FS_Subset
    <2> QED
      BY <1>11, <2>1, PayrollApart
  <1>18. ASSUME NEW M \in SUBSET N PROVE Payroll!Amount(M) \in Int
    <2>1. PICK f : f = [n \in M |-> n.amount]
      OBVIOUS
    <2>2. IsFiniteSet(M) /\ Payroll!Amount(M) = Payroll!SumFunction(f) /\ DOMAIN f = M
      BY <2>1, FS_Subset DEF Payroll!Amount
    <2>3. \A n \in M : f[n] \in Int
      BY <2>1
    <2> QED
      BY <2>2, <2>3, PayrollSum, SumIsNumber
  <1>19. totals.extra + totals.vacations + totals.absence = Payroll!Amount(N)
    BY <1>9, <1>10, <1>16, <1>17, <1>18
  <1> QED
    BY <1>1, <1>3, <1>12, <1>13, <1>14, <1>15, <1>19

LEMMA PayrollAgree == PayrollInv => Payroll!SheetsAgree
  <1> SUFFICES ASSUME PayrollInv, Payroll!WholeRead, "export" \notin payrollMixed,
                      NEW people, people = Payroll!resumenPorColaborador(Payroll!Read("people")),
                      NEW totals, totals = Payroll!totalesPeriodo(Payroll!Read("totals"))
               PROVE  /\ totals.people = Payroll!Cardinality(DOMAIN people)
                      /\ \A field \in {"extra", "vacations", "absence", "unpaid"} :
                           totals[field] =
                               Payroll!SumFunction([p \in DOMAIN people |-> people[p][field]])
                      /\ totals.extra + totals.vacations + totals.absence =
                           Payroll!Amount(Payroll!Read("detail"))
    BY DEF Payroll!SheetsAgree
  <1>1. PICK N : N = PayAll(payrollRows, payrollExport.period)
    OBVIOUS
  <1>2. Payroll!Read("people") = N /\ Payroll!Read("totals") = N /\ Payroll!Read("detail") = N /\
          payrollExport.period \in Periods
    BY <1>1, PayrollWhole DEF Payroll!Sheets
  <1>3. PayStood(payrollRows)
    BY DEF PayrollInv, PayShape
  <1>4. IsFiniteSet(N) /\ \A n \in N : n.amount \in Nat
    BY <1>1, <1>2, <1>3, PayrollNovelties
  <1> QED
    BY <1>2, <1>4, PayrollSheets DEF PayAcross

LEMMA PayrollShown == PayrollInv => Payroll!PagesShowAll
  <1> SUFFICES ASSUME PayrollInv, payrollListing.page = Payroll!TotalPages,
                      "list" \notin payrollMixed
               PROVE  Payroll!IsInjective(payrollListing.seen) /\
                   Payroll!Range(payrollListing.seen) = Payroll!Range(Payroll!Listed)
    BY DEF Payroll!PagesShowAll
  <1>1. PICK s, page : s = Ordered(PayListable(payrollRows)) /\ page = payrollListing.page
    OBVIOUS
  <1>2. s \in Seq(Nat) /\ Len(s) \in Nat /\ \A i, j \in 1 .. Len(s) : s[i] = s[j] => i = j
    BY <1>1, PayrollListable, OrderedIsWhole DEF PayrollInv, PayShape
  <1>3. Payroll!Listed = s
    BY <1>1, PayrollListed
  <1>4. page \in Nat /\ page * RowsPerPage >= Len(s)
    BY <1>1, <1>3, PayrollTotal DEF PayrollInv, PayShape
  <1>5. Payroll!TotalPages # 0
    <2>1. CASE Payroll!Listed = <<>>
      BY <2>1 DEF Payroll!TotalPages
    <2>2. CASE Payroll!Listed # <<>>
      <3>1. Len(s) # 0
        BY <1>2, <1>3, <2>2
      <3>2. page = 0 => page * RowsPerPage = 0
        BY PayrollSizes
      <3> QED
        BY <1>1, <1>2, <1>4, <3>1, <3>2
    <2> QED
      BY <2>1, <2>2
  <1>6. payrollListing.seen = PayUpto(s, page)
    <2>1. payrollListing # Payroll!NoListing
      BY <1>5 DEF Payroll!NoListing
    <2> QED
      BY <1>1, <2>1 DEF PayrollInv, PayLists
  <1>7. PayUpto(s, page) = s
    <2>1. PICK k : k = page * RowsPerPage
      OBVIOUS
    <2>2. k \in Nat /\ k >= Len(s)
      BY <1>4, <2>1, PayrollSizes
    <2>3. Payroll!Min({Len(s), k}) = Len(s)
      BY <1>2, <2>2, PayrollMin
    <2> QED
      BY <1>2, <2>1, <2>3 DEF PayUpto
  <1>8. Payroll!IsInjective(s)
    BY <1>2 DEF Payroll!IsInjective
  <1> QED
    BY <1>3, <1>6, <1>7, <1>8

\* What a workbook says of one request.
LEMMA PayrollSaid ==
    ASSUME NEW R, NEW i \in DOMAIN R, NEW q
    PROVE  \A o : o \in PayAll(R, q) /\ o.id = i <=>
                    \/ PayTaken(R[i], q) /\ o = PayLeave(R[i], i, q)
                    \/ PayWorked(R[i], q) /\ o = PayOvertime(R[i], i)
  <1>1. \A j, o : o = PayLeave(R[j], j, q) \/ o = PayOvertime(R[j], j) => o.id = j
    BY DEF PayLeave, PayOvertime
  <1>2. \A o : o \in PayLeavesOf(R, q) <=>
          \E j \in DOMAIN R : PayTaken(R[j], q) /\ o = PayLeave(R[j], j, q)
    BY DEF PayLeavesOf
  <1>3. \A o : o \in PayOvertimesOf(R, q) <=>
          \E j \in DOMAIN R : PayWorked(R[j], q) /\ o = PayOvertime(R[j], j)
    BY DEF PayOvertimesOf
  <1> QED
    BY <1>1, <1>2, <1>3 DEF PayAll

\* The days of a leave that are counted in a period are those of the leave
\* that fall in it.
LEMMA PayrollShare ==
    ASSUME NEW r, PayFits(r), NEW q \in Periods, NEW D, D = PayCounted(r.kind, r.from, r.to)
    PROVE  /\ PayDays(r, q) = Cardinality({d \in D : d \in q[1] .. q[2]})
           /\ IsFiniteSet({d \in D : d \in q[1] .. q[2]})
           /\ (\E d \in D : d \in q[1] .. q[2]) => Payroll!Meets(r, q) /\ PayDays(r, q) # 0
  <1>1. PICK a, b : a = Payroll!Recortar(r, q).from /\ b = Payroll!Recortar(r, q).to
    OBVIOUS
  <1>2. r \in Payroll!Request /\ r.from \in Nat /\ r.to \in Nat /\ q[1] \in Nat /\ q[2] \in Nat
    BY PayrollSizes DEF PayFits, Payroll!Request
  <1>3. /\ a \in Nat /\ b \in Nat
        /\ \A x \in Nat : x \in a .. b <=> x \in r.from .. r.to /\ x \in q[1] .. q[2]
    BY <1>1, <1>2, PayrollCut
  <1>4. /\ IsFiniteSet(PayCounted(r.kind, a, b)) /\ PayCounted(r.kind, a, b) \subseteq a .. b
        /\ Payroll!Contar(r.kind, a, b) = Cardinality(PayCounted(r.kind, a, b))
        /\ D \subseteq r.from .. r.to
    BY <1>2, <1>3, PayrollCounted
  <1>5. \A x \in a .. b : x \in PayCounted(r.kind, a, b) <=> x \in D
    <2>1. \A x \in a .. b : x \in r.from .. r.to
      BY <1>2, <1>3
    <2> QED
      BY <2>1 DEF PayCounted
  <1>6. PICK E : E = {d \in D : d \in q[1] .. q[2]}
    OBVIOUS
  <1>7. PayCounted(r.kind, a, b) = E
    <2>1. \A x \in PayCounted(r.kind, a, b) : x \in E
      BY <1>2, <1>3, <1>4, <1>5, <1>6
    <2>2. \A x \in E : x \in PayCounted(r.kind, a, b)
      BY <1>2, <1>3, <1>4, <1>5, <1>6
    <2> QED
      BY <2>1, <2>2
  <1>8. PayDays(r, q) = Cardinality(E) /\ IsFiniteSet(E)
    BY <1>1, <1>4, <1>7 DEF PayDays
  <1>9. E # {} => Payroll!Meets(r, q) /\ PayDays(r, q) # 0
    <2>1. E # {} => Cardinality(E) # 0
      BY <1>8, FS_EmptySet
    <2>2. E # {} => Payroll!Meets(r, q)
      BY <1>2, <1>4, <1>6 DEF Payroll!Meets
    <2> QED
      BY <1>8, <2>1, <2>2
  <1> QED
    BY <1>6, <1>8, <1>9

\* The parts of a leave add up to the whole of it.
LEMMA PayrollLeaveParts ==
    ASSUME NEW r, PayFits(r), IsFiniteSet(Periods),
           NEW parts, parts \in SUBSET Periods,
           \A q \in Periods : q \in parts <=> Payroll!Meets(r, q) /\ PayDays(r, q) # 0,
           NEW g, DOMAIN g = parts, \A q \in parts : g[q] = PayDays(r, q)
    PROVE  Payroll!SumFunction(g) = Payroll!Contar(r.kind, r.from, r.to)
  <1>1. r.from \in Nat /\ r.to \in Nat
    BY DEF PayFits, Payroll!Request
  <1>2. PICK D : D = PayCounted(r.kind, r.from, r.to)
    OBVIOUS
  <1>3. /\ IsFiniteSet(D) /\ D \subseteq r.from .. r.to
        /\ Payroll!Contar(r.kind, r.from, r.to) = Cardinality(D)
    BY <1>1, <1>2, PayrollCounted
  <1>4. PICK at : at = [d \in D |-> CHOOSE p \in Periods : \A q \in Periods :
          d \in q[1] .. q[2] <=> p = q]
    OBVIOUS
  <1>5. ASSUME NEW d \in D
        PROVE  at[d] \in Periods /\ \A q \in Periods : d \in q[1] .. q[2] <=> at[d] = q
    <2>1. PayInOnePeriod(d)
      BY <1>3 DEF PayFits
    <2>2. \E p \in Periods : \A q \in Periods : d \in q[1] .. q[2] <=> p = q
      BY <2>1 DEF PayInOnePeriod
    <2> QED
      BY <1>4, <2>2
  <1>6. \A d \in D : at[d] \in parts
    <2> SUFFICES ASSUME NEW d \in D PROVE at[d] \in parts
      OBVIOUS
    <2>1. PICK q : q = at[d]
      OBVIOUS
    <2>2. q \in Periods /\ d \in q[1] .. q[2]
      BY <1>5, <2>1
    <2> QED
      BY <1>2, <2>1, <2>2, PayrollShare
  <1>7. PICK f : f = [d \in D |-> 1]
    OBVIOUS
  <1>8. (\A d \in D : f[d] = 1) /\ (\A d \in D : f[d] \in Int)
    BY <1>7
  <1>9. ASSUME NEW q \in parts PROVE g[q] = SumFunctionOnSet(f, {d \in D : at[d] = q})
    <2>1. PICK E : E = {d \in D : at[d] = q}
      OBVIOUS
    <2>2. E = {d \in D : d \in q[1] .. q[2]}
      BY <1>5, <2>1
    <2>3. g[q] = Cardinality(E) /\ IsFiniteSet(E)
      BY <1>2, <2>2, PayrollShare
    <2>4. SumFunctionOnSet(f, E) = Cardinality(E)
      <3>1. \A d \in E : f[d] = 1
        BY <1>8, <2>1
      <3> QED
        BY <2>3, <3>1, SumOfOnes
    <2> QED
      BY <2>1, <2>3, <2>4
  <1>10. IsFiniteSet(parts)
    BY FS_Subset
  <1>11. ByParts(g, parts, f, at, D)
    BY <1>9 DEF ByParts
  <1>12. SumFunctionOnSet(g, parts) = SumFunctionOnSet(f, D)
    BY <1>3, <1>6, <1>8, <1>10, <1>11, SumByParts
  <1>13. SumFunctionOnSet(f, D) = Cardinality(D)
    BY <1>3, <1>8, SumOfOnes
  <1> QED
    BY <1>3, <1>12, <1>13, PayrollSum

\* What every period's workbook says of a request that stayed as it was.
LEMMA PayrollStayed ==
    ASSUME PayrollInv, DOMAIN payrollSettled = Periods, NEW p \in Periods, NEW i, NEW r,
           \A q \in Periods : i \in DOMAIN payrollSettled[q].rows /\ payrollSettled[q].rows[i] = r
    PROVE  /\ PayFits(r)
           /\ \A q \in Periods : \A o :
                 o \in payrollSettled[q].detail /\ o.id = i <=>
                    \/ PayTaken(r, q) /\ o = PayLeave(r, i, q)
                    \/ PayWorked(r, q) /\ o = PayOvertime(r, i)
  <1>1. ASSUME NEW q \in Periods
        PROVE  \E R : PayStood(R) /\ payrollSettled[q].rows = R /\
            payrollSettled[q].detail = PayAll(R, q)
    <2>1. PaySettles(q)
      BY DEF PayrollInv
    <2>2. payrollSettled[q] # Payroll!Unsettled
      BY DEF Payroll!Unsettled
    <2> QED
      BY <2>1, <2>2 DEF PaySettles
  <1>2. ASSUME NEW q \in Periods
        PROVE  /\ PayFits(r)
               /\ \A o : o \in payrollSettled[q].detail /\ o.id = i <=>
                    \/ PayTaken(r, q) /\ o = PayLeave(r, i, q)
                    \/ PayWorked(r, q) /\ o = PayOvertime(r, i)
    <2>1. PICK R : PayStood(R) /\ payrollSettled[q].rows = R /\
            payrollSettled[q].detail = PayAll(R, q)
      BY <1>1
    <2>2. i \in DOMAIN R /\ R[i] = r
      BY <2>1
    <2>3. PayFits(r)
      BY <2>1, <2>2 DEF PayStood
    <2> QED
      BY <2>1, <2>2, <2>3, PayrollSaid
  <1> QED
    BY <1>2

\* The workbooks that tell of request i, and what each says of it.
PayPartsOf(i) == {q \in Periods : \E o \in payrollSettled[q].detail : o.id = i}
PayPart(i, q) == CHOOSE o \in payrollSettled[q].detail : o.id = i
PayParts(i) == [q \in PayPartsOf(i) |-> PayPart(i, q).amount]
PayUnaltered(i, p) ==
    \A q \in Periods : i \in DOMAIN payrollSettled[q].rows /\
        payrollSettled[q].rows[i] = payrollSettled[p].rows[i]

\* The parts of a request that stayed as it was add up to the whole of it.
LEMMA PayrollParts ==
    ASSUME PayrollInv, DOMAIN payrollSettled = Periods, NEW p \in Periods,
           NEW n \in payrollSettled[p].detail,
           PayUnaltered(n.id, p)
    PROVE  n.total = Payroll!SumFunction(PayParts(n.id))
  <1>1. PICK i, r : i = n.id /\ r = payrollSettled[p].rows[n.id]
    OBVIOUS
  <1>2. \A q \in Periods : i \in DOMAIN payrollSettled[q].rows /\ payrollSettled[q].rows[i] = r
    BY <1>1 DEF PayUnaltered
  <1>3. /\ PayFits(r)
        /\ \A q \in Periods : \A o :
              o \in payrollSettled[q].detail /\ o.id = i <=>
                 \/ PayTaken(r, q) /\ o = PayLeave(r, i, q)
                 \/ PayWorked(r, q) /\ o = PayOvertime(r, i)
    BY <1>2, PayrollStayed
  <1>4. IsFiniteSet(Periods)
    BY DEF PayrollInv, PayShape
  <1>5. PICK parts, g : parts = PayPartsOf(i) /\ g = PayParts(i)
    OBVIOUS
  <1>6. /\ DOMAIN g = parts /\ \A q \in parts : g[q] = PayPart(i, q).amount
        /\ \A q \in Periods : q \in parts <=> \E o \in payrollSettled[q].detail : o.id = i
        /\ parts \in SUBSET Periods
    BY <1>5 DEF PayParts, PayPartsOf
  <1>7. parts \in SUBSET Periods /\ p \in parts
    BY <1>1, <1>6
  <1>8. CASE PayTaken(r, p) /\ n = PayLeave(r, i, p)
    <2>1. \A q \in Periods : PayTaken(r, q) <=> Payroll!Meets(r, q) /\ PayDays(r, q) # 0
      BY <1>8 DEF PayTaken
    <2>2. \A q \in Periods : ~PayWorked(r, q)
      BY <1>8 DEF PayTaken, PayWorked
    <2>3. \A q \in Periods : \A o : o \in payrollSettled[q].detail /\ o.id = i <=>
                                     PayTaken(r, q) /\ o = PayLeave(r, i, q)
      BY <1>3, <2>2
    <2>4. \A q \in Periods : q \in parts <=> Payroll!Meets(r, q) /\ PayDays(r, q) # 0
      BY <1>6, <2>1, <2>3
    <2>5. ASSUME NEW q \in parts PROVE g[q] = PayDays(r, q)
      <3>1. PayPart(i, q) = PayLeave(r, i, q)
        <4>1. q \in Periods /\ PayTaken(r, q)
          BY <1>6, <1>7, <2>3
        <4> QED
          BY <2>3, <4>1 DEF PayPart
      <3>2. PayLeave(r, i, q).amount = PayDays(r, q)
        BY DEF PayLeave
      <3> QED
        BY <1>6, <3>1, <3>2
    <2>6. n.total = Payroll!Contar(r.kind, r.from, r.to)
      BY <1>8 DEF PayLeave
    <2>7. \A q \in parts : g[q] = PayDays(r, q)
      BY <2>5
    <2>8. Payroll!SumFunction(g) = Payroll!Contar(r.kind, r.from, r.to)
      BY <1>3, <1>4, <1>6, <1>7, <2>4, <2>7, PayrollLeaveParts
    <2> QED
      BY <1>1, <1>5, <2>6, <2>8
  <1>9. CASE PayWorked(r, p) /\ n = PayOvertime(r, i)
    <2>1. \A q \in Periods : PayWorked(r, q) <=> q = p
      <3>1. r.from \in Nat /\ r.to \in Nat /\ r.from <= r.to
        BY <1>3 DEF PayFits, Payroll!Request
      <3>2. PayInOnePeriod(r.from)
        BY <1>3, <3>1 DEF PayFits
      <3>3. PICK a \in Periods : \A q \in Periods : r.from \in q[1] .. q[2] <=> a = q
        BY <3>2 DEF PayInOnePeriod
      <3>4. a = p
        BY <1>9, <3>3 DEF PayWorked
      <3> QED
        BY <1>9, <3>3, <3>4 DEF PayWorked
    <2>2. \A q \in Periods : ~PayTaken(r, q)
      BY <1>9 DEF PayTaken, PayWorked
    <2>3. \A q \in Periods : \A o : o \in payrollSettled[q].detail /\ o.id = i <=>
                                     q = p /\ o = PayOvertime(r, i)
      BY <1>3, <2>1, <2>2
    <2>4. parts = {p}
      BY <1>6, <2>3
    <2>5. PayPart(i, p) = PayOvertime(r, i)
      BY <2>3 DEF PayPart
    <2>6. g[p] = r.hours /\ n.total = r.hours /\ r.hours \in Nat
      BY <1>3, <1>6, <1>7, <1>9, <2>5 DEF PayOvertime, PayFits, Payroll!Request
    <2>7. Payroll!SumFunction(g) = g[p]
      <3>1. Payroll!SumFunction(g) = SumFunctionOnSet(g, {} \cup {p})
        BY <1>6, <2>4, PayrollSum
      <3>2. SumFunctionOnSet(g, {} \cup {p}) = SumFunctionOnSet(g, {}) + g[p]
        <4>1. IsFiniteSet({}) /\ p \notin {} /\ \A y \in {} \cup {p} : g[y] \in Int
          BY <2>6, FS_EmptySet
        <4> QED
          BY <4>1, SumAdded
      <3> QED
        BY <2>6, <3>1, <3>2, SumOfNothing
    <2> QED
      BY <1>1, <1>5, <2>6, <2>7
  <1> QED
    BY <1>1, <1>3, <1>8, <1>9

LEMMA PayrollAddsUp == PayrollInv => Payroll!PeriodsAddUp
  <1> SUFFICES ASSUME PayrollInv, DOMAIN payrollSettled = Periods, NEW p \in Periods,
                      NEW n \in payrollSettled[p].detail,
                      PayUnaltered(n.id, p)
               PROVE  n.total = Payroll!SumFunction(PayParts(n.id))
    BY DEF Payroll!PeriodsAddUp, PayUnaltered, PayParts, PayPartsOf, PayPart
  <1> QED
    BY PayrollParts

LEMMA PayrollHolds == PayrollInv => Payroll!TypeOK /\ Payroll!ReportsAddUp
  <1> SUFFICES ASSUME PayrollInv PROVE Payroll!TypeOK /\ Payroll!ReportsAddUp
    OBVIOUS
  <1>1. Len(payrollRows) <= MaxRows /\
          \A i \in DOMAIN payrollRows : payrollRows[i] \in Payroll!Request
    BY DEF PayrollInv, PayShape, PayStood, PayFits
  <1>2. payrollExport = Payroll!NoExport \/ payrollExport.period \in Periods
    BY PayrollUnder
  <1>3. DOMAIN payrollSettled \subseteq Periods /\ payrollListing.page \in 0 .. MaxRows
    BY DEF PayrollInv, PayShape
  <1>4. payrollChanges \in 0 .. MaxChanges /\ payrollMixed \subseteq {"export", "list"}
    BY DEF PayrollInv, PayShape
  <1>5. Payroll!TypeOK
    BY <1>1, <1>2, <1>3, <1>4 DEF Payroll!TypeOK
  <1> QED
    BY <1>5, PayrollAgree, PayrollAddsUp, PayrollShown DEF Payroll!ReportsAddUp
-----------------------------------------------------------------------------
(* Severance pay.                                                         *)

LEMMA CesFinite == \A S : Cesantias!IsFiniteSet(S) <=> IsFiniteSet(S)
  BY DEF Cesantias!IsFiniteSet, IsFiniteSet

LEMMA CesCount == \A S : Cesantias!Cardinality(S) = Cardinality(S)
  BY DEF Cesantias!Cardinality, Cardinality

CesRow == [radicado : 1 .. Cardinality(CesantiasRequests), status : Cesantias!Statuses]
CesChanging == [pc : {"update", "history", "mail"}, id : CesantiasRequests, to : Cesantias!Statuses]

CesShape ==
    /\ cesantiasRequest \in [CesantiasRequests -> CesRow \cup {None}]
    /\ cesantiasCreating \in [CesantiasRequests -> 0 .. Cardinality(CesantiasRequests)]
    /\ cesantiasChange \in [CesantiasChanges -> CesChanging \cup {Cesantias!Idle}]
    /\ cesantiasHistorial \in [CesantiasRequests -> Seq(Cesantias!Statuses)]
    /\ cesantiasMailed \in [CesantiasRequests -> Seq(Cesantias!Statuses)]
    /\ cesantiasFailed \subseteq CesantiasRequests /\ cesantiasCrossed \subseteq CesantiasRequests

\* A creation under way has the number of some moment at which its request was
\* not filed.
CesNumbers ==
    /\ Cesantias!Radicados = 1 .. Cardinality(Cesantias!Filed)
    /\ \A i \in CesantiasRequests : cesantiasCreating[i] # 0 =>
          cesantiasRequest[i] = None /\ cesantiasCreating[i] <= Cardinality(Cesantias!Filed) + 1

CesTraceOf(i) == <<"RECIBIDA">> \o cesantiasHistorial[i]
CesAt(i) == CesTraceOf(i)[Len(cesantiasHistorial[i]) + 1]

\* What the change of a request has written so far.
CesWritten(c) ==
    LET i == cesantiasChange[c].id IN
      /\ cesantiasChange[c].pc = "update" =>
           <<cesantiasRequest[i].status, cesantiasChange[c].to>> \in Cesantias!TRANSICIONES_VALIDAS
      /\ cesantiasChange[c].pc = "history" =>
            cesantiasRequest[i].status = cesantiasChange[c].to /\
                <<CesAt(i), cesantiasChange[c].to>> \in Cesantias!TRANSICIONES_VALIDAS
      /\ cesantiasChange[c].pc = "mail" =>
           cesantiasHistorial[i] = Append(cesantiasMailed[i], cesantiasChange[c].to)

CesFollows(i) ==
    /\ \A c, d \in Cesantias!About(i) : c = d
    /\ Cesantias!IsPath(CesTraceOf(i))
    /\ \A c \in Cesantias!About(i) : CesWritten(c)
    /\ (\A c \in Cesantias!About(i) : cesantiasChange[c].pc # "history") =>
         CesAt(i) = cesantiasRequest[i].status
    /\ (\A c \in Cesantias!About(i) : cesantiasChange[c].pc # "mail") =>
         cesantiasMailed[i] = cesantiasHistorial[i]

\* Nothing is written of a request that is not filed.
CesBlank(i) == cesantiasHistorial[i] = <<>> /\ cesantiasMailed[i] = <<>> /\ Cesantias!About(i) = {}

CesantiasInv ==
    /\ CesShape
    /\ CesNumbers
    /\ \A i \in Cesantias!Filed \ (cesantiasCrossed \cup cesantiasFailed) : CesFollows(i)
    /\ \A i \in CesantiasRequests \ Cesantias!Filed : CesBlank(i)

LEMMA CesInit == Cesantias!Init => CesantiasInv
  <1> SUFFICES ASSUME Cesantias!Init PROVE CesantiasInv
    OBVIOUS
  <1>1. Cesantias!Filed = {} /\ Cardinality(Cesantias!Filed) = 0
    BY FS_EmptySet DEF Cesantias!Init, Cesantias!Filed
  <1>2. Cardinality(CesantiasRequests) \in Nat
    BY ComponentsAssumption, FS_CardinalityType, CesCount,
    CesFinite DEF Cesantias!CesantiasAssumption
  <1>3. CesShape
    BY <1>2, CesCount DEF Cesantias!Init, CesShape
  <1>4. CesNumbers
    BY <1>1, CesCount DEF Cesantias!Init, CesNumbers, Cesantias!Radicados
  <1>5. \A i \in CesantiasRequests : CesBlank(i)
    BY DEF Cesantias!Init, CesBlank, Cesantias!About
  <1> QED
    BY <1>1, <1>3, <1>4, <1>5 DEF CesantiasInv

LEMMA CesPath ==
    ASSUME NEW p \in Seq(Cesantias!Statuses), p # <<>>, Cesantias!IsPath(p),
           NEW t \in Cesantias!Statuses,
           <<p[Len(p)], t>> \in Cesantias!TRANSICIONES_VALIDAS
    PROVE  Cesantias!IsPath(Append(p, t))
  BY DEF Cesantias!IsPath

LEMMA CesTrace ==
    ASSUME CesShape, NEW i \in CesantiasRequests
    PROVE  /\ CesTraceOf(i) \in Seq(Cesantias!Statuses)
           /\ Len(CesTraceOf(i)) = Len(cesantiasHistorial[i]) + 1 /\ CesTraceOf(i) # <<>>
           /\ CesAt(i) = CesTraceOf(i)[Len(CesTraceOf(i))] /\ CesAt(i) \in Cesantias!Statuses
           /\ \A t \in Cesantias!Statuses :
                <<"RECIBIDA">> \o Append(cesantiasHistorial[i], t) = Append(CesTraceOf(i), t)
  <1>1. "RECIBIDA" \in Cesantias!Statuses
    BY DEF Cesantias!Statuses, Cesantias!TRANSICIONES_VALIDAS
  <1>2. cesantiasHistorial[i] \in Seq(Cesantias!Statuses)
    BY DEF CesShape
  <1> DEFINE one == <<"RECIBIDA">>
  <1>3. one \in Seq(Cesantias!Statuses) /\ Len(one) = 1
    BY <1>1
  <1>4. CesTraceOf(i) \in Seq(Cesantias!Statuses) /\
          Len(CesTraceOf(i)) = Len(cesantiasHistorial[i]) + 1
    BY <1>2, <1>3 DEF CesTraceOf
  <1>5. ASSUME NEW t \in Cesantias!Statuses
          PROVE one \o Append(cesantiasHistorial[i], t) = Append(CesTraceOf(i), t)
    BY <1>2, <1>3, <1>4 DEF CesTraceOf
  <1>6. Len(cesantiasHistorial[i]) \in Nat
    BY <1>2
  <1> QED
    BY <1>4, <1>5, <1>6 DEF CesAt

\* A step that leaves the rows of a request, and the changes about it, alone.
LEMMA CesOthers ==
    ASSUME NEW j \in Cesantias!Filed, CesFollows(j),
           Cesantias!About(j)' = Cesantias!About(j),
           \A d \in Cesantias!About(j) : cesantiasChange'[d] = cesantiasChange[d],
           cesantiasRequest'[j] = cesantiasRequest[j],
           cesantiasHistorial'[j] = cesantiasHistorial[j], cesantiasMailed'[j] = cesantiasMailed[j]
    PROVE  CesFollows(j)'
  <1>1. CesAt(j)' = CesAt(j) /\ CesTraceOf(j)' = CesTraceOf(j)
    BY DEF CesAt, CesTraceOf
  <1>2. \A d \in Cesantias!About(j) : cesantiasChange[d].id = j
    BY DEF Cesantias!About
  <1>3. Cesantias!IsPath(CesTraceOf(j))'
    BY <1>1 DEF CesFollows, Cesantias!IsPath
  <1>4. \A d \in Cesantias!About(j)' : CesWritten(d)'
    <2> SUFFICES ASSUME NEW d \in Cesantias!About(j) PROVE CesWritten(d)'
      OBVIOUS
    <2>1. cesantiasChange'[d] = cesantiasChange[d] /\ cesantiasChange[d].id = j /\ CesWritten(d)
      BY <1>2 DEF CesFollows
    <2> QED
      BY <2>1 DEF CesWritten, CesAt, CesTraceOf
  <1> QED
    BY <1>1, <1>3, <1>4 DEF CesFollows

LEMMA CesFiled ==
    ASSUME CesShape
    PROVE  /\ IsFiniteSet(Cesantias!Filed) /\ Cardinality(Cesantias!Filed) \in Nat
           /\ Cardinality(Cesantias!Filed) <= Cardinality(CesantiasRequests)
           /\ Cardinality(CesantiasRequests) \in Nat
           /\ \A i \in CesantiasRequests \ Cesantias!Filed :
                /\ Cardinality(Cesantias!Filed \cup {i}) = Cardinality(Cesantias!Filed) + 1
                /\ Cardinality(Cesantias!Filed) + 1 <= Cardinality(CesantiasRequests)
  <1>1. IsFiniteSet(CesantiasRequests) /\ Cesantias!Filed \subseteq CesantiasRequests
    BY ComponentsAssumption, CesFinite DEF Cesantias!CesantiasAssumption, Cesantias!Filed
  <1>2. IsFiniteSet(Cesantias!Filed) /\
          Cardinality(Cesantias!Filed) <= Cardinality(CesantiasRequests)
    BY <1>1, FS_Subset
  <1>3. Cardinality(Cesantias!Filed) \in Nat /\ Cardinality(CesantiasRequests) \in Nat
    BY <1>1, <1>2, FS_CardinalityType
  <1>4. ASSUME NEW i \in CesantiasRequests \ Cesantias!Filed
        PROVE  Cardinality(Cesantias!Filed \cup {i}) = Cardinality(Cesantias!Filed) + 1 /\
            Cardinality(Cesantias!Filed) + 1 <= Cardinality(CesantiasRequests)
    <2>1. Cardinality(Cesantias!Filed \cup {i}) = Cardinality(Cesantias!Filed) + 1
      BY <1>2, FS_AddElement
    <2>2. Cesantias!Filed \cup {i} \subseteq CesantiasRequests
      BY <1>1
    <2>3. Cardinality(Cesantias!Filed \cup {i}) <= Cardinality(CesantiasRequests)
      BY <1>1, <2>2, FS_Subset
    <2> QED
      BY <2>1, <2>3
  <1> QED
    BY <1>2, <1>3, <1>4

LEMMA CesNumber == ASSUME CesantiasInv, NEW i \in CesantiasRequests, Cesantias!GenerarRadicado(i)
    PROVE CesantiasInv'
  <1>1. /\ cesantiasRequest[i] = None
        /\ cesantiasCreating' = [cesantiasCreating EXCEPT ![i] = Cardinality(Cesantias!Filed) + 1]
        /\ UNCHANGED <<cesantiasRequest, cesantiasChange, cesantiasHistorial, cesantiasMailed,
             cesantiasFailed, cesantiasCrossed>>
    BY CesCount DEF Cesantias!GenerarRadicado
  <1>2. Cesantias!Filed' = Cesantias!Filed /\ Cesantias!Radicados' = Cesantias!Radicados
    BY <1>1 DEF Cesantias!Filed, Cesantias!Radicados
  <1>3. Cardinality(Cesantias!Filed) \in Nat /\
          Cardinality(Cesantias!Filed) + 1 \in 0 .. Cardinality(CesantiasRequests)
    <2>1. CesShape /\ i \in CesantiasRequests \ Cesantias!Filed
      BY <1>1 DEF CesantiasInv, Cesantias!Filed
    <2>2. Cardinality(Cesantias!Filed) \in Nat /\ Cardinality(CesantiasRequests) \in Nat /\
            Cardinality(Cesantias!Filed) + 1 <= Cardinality(CesantiasRequests)
      BY <2>1, CesFiled
    <2> QED
      BY <2>2
  <1>4. CesShape'
    BY <1>1, <1>3, CesCount DEF CesantiasInv, CesShape
  <1>5. CesNumbers'
    BY <1>1, <1>2, <1>3, CesCount DEF CesantiasInv, CesShape, CesNumbers
  <1>6. ASSUME NEW j \in Cesantias!Filed \ (cesantiasCrossed \cup cesantiasFailed)
          PROVE CesFollows(j)'
    BY <1>1, CesOthers DEF CesantiasInv, Cesantias!About
  <1>7. ASSUME NEW j \in CesantiasRequests \ Cesantias!Filed PROVE CesBlank(j)'
    BY <1>1 DEF CesantiasInv, CesBlank, Cesantias!About
  <1> QED
    BY <1>1, <1>2, <1>4, <1>5, <1>6, <1>7 DEF CesantiasInv

LEMMA CesCreate == ASSUME CesantiasInv, NEW i \in CesantiasRequests, Cesantias!Create(i)
    PROVE CesantiasInv'
  <1>1. /\ cesantiasCreating[i] # 0
        /\ cesantiasCreating' = [cesantiasCreating EXCEPT ![i] = 0]
        /\ UNCHANGED <<cesantiasChange, cesantiasHistorial, cesantiasMailed, cesantiasFailed,
             cesantiasCrossed>>
    BY DEF Cesantias!Create
  <1>2. cesantiasCreating[i] \in Nat /\ cesantiasCreating[i] <= Cardinality(CesantiasRequests) /\
          cesantiasRequest[i] = None /\ i \in CesantiasRequests \ Cesantias!Filed
        /\ cesantiasCreating[i] <= Cardinality(Cesantias!Filed) + 1
        /\ Cardinality(Cesantias!Filed) \in Nat
    BY <1>1, CesFiled, CesCount DEF CesantiasInv, CesShape, CesNumbers, Cesantias!Filed
  <1>3. CASE cesantiasCreating[i] \in Cesantias!Radicados
    <2>1. cesantiasRequest' = cesantiasRequest /\ Cesantias!Filed' = Cesantias!Filed /\
            Cesantias!Radicados' = Cesantias!Radicados
      BY <1>3 DEF Cesantias!Create, Cesantias!Filed, Cesantias!Radicados
    <2>2. CesShape'
      BY <1>1, <2>1, CesFiled, CesCount DEF CesantiasInv, CesShape
    <2>3. CesNumbers'
      BY <1>1, <2>1, CesCount DEF CesantiasInv, CesShape, CesNumbers
    <2>4. ASSUME NEW j \in Cesantias!Filed \ (cesantiasCrossed \cup cesantiasFailed)
            PROVE CesFollows(j)'
      BY <1>1, <2>1, CesOthers DEF CesantiasInv, Cesantias!About
    <2>5. ASSUME NEW j \in CesantiasRequests \ Cesantias!Filed PROVE CesBlank(j)'
      BY <1>1 DEF CesantiasInv, CesBlank, Cesantias!About
    <2> QED
      BY <1>1, <2>1, <2>2, <2>3, <2>4, <2>5 DEF CesantiasInv
  <1>4. CASE cesantiasCreating[i] \notin Cesantias!Radicados
    <2> DEFINE new == [radicado |-> cesantiasCreating[i], status |-> "RECIBIDA"]
    <2>1. cesantiasRequest' = [cesantiasRequest EXCEPT ![i] = new]
      BY <1>4 DEF Cesantias!Create
    <2>2. cesantiasCreating[i] = Cardinality(Cesantias!Filed) + 1
      BY <1>1, <1>2, <1>4, CesCount DEF CesantiasInv, CesNumbers
    <2>3. "RECIBIDA" \in Cesantias!Statuses
      BY DEF Cesantias!Statuses, Cesantias!TRANSICIONES_VALIDAS
    <2>4. new \in CesRow /\ new # None /\ new.radicado = cesantiasCreating[i] /\
            new.status = "RECIBIDA"
      BY <1>1, <1>2, <2>3, ComponentsAssumption, CesCount DEF CesRow, Cesantias!CesantiasAssumption
    <2> HIDE DEF new
    <2>5. Cesantias!Filed' = Cesantias!Filed \cup {i}
      BY <1>2, <2>1, <2>4 DEF CesantiasInv, CesShape, Cesantias!Filed
    <2>6. Cesantias!Radicados' = Cesantias!Radicados \cup {cesantiasCreating[i]}
      BY <1>2, <2>1, <2>4, <2>5 DEF CesantiasInv, CesShape, Cesantias!Radicados, Cesantias!Filed
    <2>7. Cardinality(Cesantias!Filed)' = Cardinality(Cesantias!Filed) + 1
      BY <1>2, <2>5, CesFiled DEF CesantiasInv
    <2>8. CesShape'
      BY <1>1, <2>1, <2>4, CesFiled, CesCount DEF CesantiasInv, CesShape
    <2>9. CesNumbers'
      <3>1. Cesantias!Radicados' = 1 .. Cardinality(Cesantias!Filed)'
        BY <1>2, <2>2, <2>6, <2>7, CesCount DEF CesantiasInv, CesNumbers
      <3>2. ASSUME NEW j \in CesantiasRequests, cesantiasCreating'[j] # 0
            PROVE  cesantiasRequest'[j] = None /\
                cesantiasCreating'[j] <= Cardinality(Cesantias!Filed)' + 1
        <4>1. j # i /\ cesantiasCreating'[j] = cesantiasCreating[j] /\
                cesantiasRequest'[j] = cesantiasRequest[j]
          BY <1>1, <2>1, <3>2 DEF CesantiasInv, CesShape
        <4>2. cesantiasCreating[j] \in Nat /\ cesantiasRequest[j] = None /\
                cesantiasCreating[j] <= Cardinality(Cesantias!Filed) + 1
          BY <3>2, <4>1, CesFiled, CesCount DEF CesantiasInv, CesShape, CesNumbers
        <4> QED
          BY <1>2, <2>7, <4>1, <4>2
      <3> QED
        BY <3>1, <3>2, CesCount DEF CesNumbers
    <2>10. ASSUME NEW j \in Cesantias!Filed \ (cesantiasCrossed \cup cesantiasFailed)
             PROVE CesFollows(j)'
      <3>1. cesantiasRequest'[j] = cesantiasRequest[j]
        BY <1>2, <2>1 DEF CesantiasInv, CesShape, Cesantias!Filed
      <3> QED
        BY <1>1, <3>1, CesOthers DEF CesantiasInv, Cesantias!About
    <2>11. CesFollows(i)'
      <3>1. cesantiasHistorial[i] = <<>> /\ cesantiasMailed[i] = <<>> /\ Cesantias!About(i)' = {}
        BY <1>1, <1>2 DEF CesantiasInv, CesBlank, Cesantias!About
      <3>2. CesTraceOf(i)' = <<"RECIBIDA">> /\ CesAt(i)' = "RECIBIDA"
        BY <1>1, <3>1 DEF CesTraceOf, CesAt
      <3>3. Cesantias!IsPath(CesTraceOf(i))'
        BY <3>2 DEF Cesantias!IsPath
      <3>4. cesantiasRequest'[i].status = "RECIBIDA"
        BY <2>1, <2>4 DEF CesantiasInv, CesShape
      <3> QED
        BY <1>1, <3>1, <3>2, <3>3, <3>4 DEF CesFollows
    <2>12. ASSUME NEW j \in CesantiasRequests \ Cesantias!Filed PROVE CesBlank(j)'
      BY <1>1 DEF CesantiasInv, CesBlank, Cesantias!About
    <2> QED
      BY <1>1, <2>5, <2>8, <2>9, <2>10, <2>11, <2>12 DEF CesantiasInv
  <1> QED
    BY <1>3, <1>4

\* A step of a change writes about its own request only.
LEMMA CesMove ==
    ASSUME CesantiasInv, NEW c \in CesantiasChanges, NEW i \in Cesantias!Filed,
           NEW w \in CesChanging \cup {Cesantias!Idle},
           NEW r \in CesRow, NEW h \in Seq(Cesantias!Statuses), NEW m \in Seq(Cesantias!Statuses),
           w # Cesantias!Idle => w.id = i, cesantiasChange[c] # Cesantias!Idle =>
               cesantiasChange[c].id = i,
           cesantiasChange' = [cesantiasChange EXCEPT ![c] = w],
           cesantiasRequest' = [cesantiasRequest EXCEPT ![i] = r],
           r.radicado = cesantiasRequest[i].radicado,
           cesantiasHistorial' = [cesantiasHistorial EXCEPT ![i] = h],
           cesantiasMailed' = [cesantiasMailed EXCEPT ![i] = m],
           cesantiasCreating' = cesantiasCreating,
           cesantiasFailed \subseteq cesantiasFailed',
           cesantiasFailed' \subseteq cesantiasFailed \cup {i},
           cesantiasCrossed \subseteq cesantiasCrossed',
           cesantiasCrossed' \subseteq cesantiasCrossed \cup {i},
           i \notin cesantiasCrossed' \cup cesantiasFailed' => CesFollows(i)'
    PROVE  CesantiasInv'
  <1>1. i \in CesantiasRequests /\ cesantiasRequest[i] \in CesRow /\ r # None
    BY ComponentsAssumption, CesCount DEF CesantiasInv, CesShape, Cesantias!Filed, CesRow,
    Cesantias!CesantiasAssumption
  <1>2. Cesantias!Filed' = Cesantias!Filed
    BY <1>1 DEF CesantiasInv, CesShape, Cesantias!Filed
  <1>3. Cesantias!Radicados' = Cesantias!Radicados
    <2>1. \A j \in Cesantias!Filed : cesantiasRequest'[j].radicado = cesantiasRequest[j].radicado
      BY <1>1 DEF CesantiasInv, CesShape, Cesantias!Filed
    <2> QED
      BY <1>2, <2>1 DEF Cesantias!Radicados
  <1>4. CesShape'
    BY <1>1, CesCount DEF CesantiasInv, CesShape
  <1>5. CesNumbers'
    <2>1. \A j \in CesantiasRequests : cesantiasRequest[j] = None => cesantiasRequest'[j] = None
      BY <1>1, <1>2 DEF CesantiasInv, CesShape, Cesantias!Filed
    <2> QED
      BY <1>2, <1>3, <2>1, CesCount DEF CesantiasInv, CesNumbers
  <1>6. ASSUME NEW j \in CesantiasRequests \ {i}
        PROVE  Cesantias!About(j)' = Cesantias!About(j) /\
            \A d \in Cesantias!About(j) : cesantiasChange'[d] = cesantiasChange[d]
    <2>1. c \notin Cesantias!About(j) /\ c \notin Cesantias!About(j)'
      BY DEF CesantiasInv, CesShape, Cesantias!About
    <2>2. \A d \in CesantiasChanges \ {c} : cesantiasChange'[d] = cesantiasChange[d]
      BY DEF CesantiasInv, CesShape
    <2> QED
      BY <2>1, <2>2 DEF Cesantias!About
  <1>7. ASSUME NEW j \in CesantiasRequests \ {i}
        PROVE  cesantiasRequest'[j] = cesantiasRequest[j] /\
            cesantiasHistorial'[j] = cesantiasHistorial[j] /\
                cesantiasMailed'[j] = cesantiasMailed[j]
    BY DEF CesantiasInv, CesShape
  <1>8. ASSUME NEW j \in Cesantias!Filed' \ (cesantiasCrossed' \cup cesantiasFailed')
          PROVE CesFollows(j)'
    <2>1. CASE j = i
      BY <2>1
    <2>2. CASE j # i
      <3>1. j \in Cesantias!Filed /\ CesFollows(j) /\ j \in CesantiasRequests \ {i}
        BY <1>2, <2>2 DEF CesantiasInv, Cesantias!Filed
      <3> QED
        BY <1>6, <1>7, <3>1, CesOthers
    <2> QED
      BY <2>1, <2>2
  <1>9. ASSUME NEW j \in CesantiasRequests \ Cesantias!Filed' PROVE CesBlank(j)'
    <2>1. j \in CesantiasRequests \ {i} /\ CesBlank(j)
      BY <1>2 DEF CesantiasInv
    <2> QED
      BY <1>6, <1>7, <2>1 DEF CesBlank
  <1> QED
    BY <1>4, <1>5, <1>8, <1>9 DEF CesantiasInv

LEMMA CesBegin == ASSUME CesantiasInv, NEW c \in CesantiasChanges, Cesantias!BeginChange(c)
    PROVE CesantiasInv'
  <1>1. PICK i \in Cesantias!Filed, to \in Cesantias!Statuses :
          /\ <<cesantiasRequest[i].status, to>> \in Cesantias!TRANSICIONES_VALIDAS
          /\ cesantiasChange' =
               [cesantiasChange EXCEPT ![c] = [pc |-> "update", id |-> i, to |-> to]]
          /\ cesantiasCrossed' = IF Cesantias!About(i) = {} THEN cesantiasCrossed
               ELSE cesantiasCrossed \cup {i}
    BY DEF Cesantias!BeginChange
  <1>2. cesantiasChange[c] = Cesantias!Idle /\
          UNCHANGED <<cesantiasRequest, cesantiasCreating, cesantiasHistorial, cesantiasMailed,
              cesantiasFailed>>
    BY DEF Cesantias!BeginChange
  <1> DEFINE w == [pc |-> "update", id |-> i, to |-> to]
  <1>3. i \in CesantiasRequests /\ cesantiasRequest[i] \in CesRow
    BY DEF CesantiasInv, CesShape, Cesantias!Filed
  <1>4. w \in CesChanging /\ w.id = i /\ w.pc = "update" /\ w.to = to /\ w # Cesantias!Idle
    BY <1>3 DEF CesChanging, Cesantias!Idle
  <1>5. cesantiasChange' = [cesantiasChange EXCEPT ![c] = w]
    BY <1>1
  <1> HIDE DEF w
  <1>6. /\ cesantiasRequest' = [cesantiasRequest EXCEPT ![i] = cesantiasRequest[i]]
        /\ cesantiasHistorial' = [cesantiasHistorial EXCEPT ![i] = cesantiasHistorial[i]]
        /\ cesantiasHistorial[i] \in Seq(Cesantias!Statuses)
        /\ cesantiasMailed' = [cesantiasMailed EXCEPT ![i] = cesantiasMailed[i]]
        /\ cesantiasMailed[i] \in Seq(Cesantias!Statuses)
    BY <1>2, <1>3 DEF CesantiasInv, CesShape
  <1>7. ASSUME i \notin cesantiasCrossed' \cup cesantiasFailed' PROVE CesFollows(i)'
    <2>1. Cesantias!About(i) = {} /\ CesFollows(i)
      BY <1>1, <1>2, <1>7 DEF CesantiasInv
    <2>2. Cesantias!About(i)' = {c} /\ cesantiasChange'[c] = w
      <3>1. cesantiasChange'[c] = w /\
              \A d \in CesantiasChanges \ {c} : cesantiasChange'[d] = cesantiasChange[d]
        BY <1>5 DEF CesantiasInv, CesShape
      <3> QED
        BY <1>4, <2>1, <3>1 DEF Cesantias!About
    <2>3. Cesantias!IsPath(CesTraceOf(i))' /\ CesAt(i)' = CesAt(i)
      BY <1>2, <2>1 DEF CesFollows, CesTraceOf, CesAt, Cesantias!IsPath
    <2>4. CesWritten(c)'
      BY <1>1, <1>2, <1>4, <2>2 DEF CesWritten
    <2> QED
      BY <1>2, <1>4, <2>1, <2>2, <2>3, <2>4 DEF CesFollows
  <1> HIDE DEF w
  <1> QED
    <2>1. w # Cesantias!Idle => w.id = i
      BY <1>4
    <2>2. /\ cesantiasFailed \subseteq cesantiasFailed'
          /\ cesantiasFailed' \subseteq cesantiasFailed \cup {i}
          /\ cesantiasCrossed \subseteq cesantiasCrossed'
          /\ cesantiasCrossed' \subseteq cesantiasCrossed \cup {i}
      BY <1>1, <1>2
    <2>3. w \in CesChanging \cup {Cesantias!Idle} /\
            (cesantiasChange[c] # Cesantias!Idle => cesantiasChange[c].id = i)
      BY <1>2, <1>4
    <2> QED
      BY <1>2, <1>3, <1>5, <1>6, <1>7, <2>1, <2>2, <2>3, CesMove

\* The one change about a request that nothing crossed.
LEMMA CesAlone ==
    ASSUME CesantiasInv, NEW c \in CesantiasChanges, cesantiasChange[c] # Cesantias!Idle, NEW i,
           i = cesantiasChange[c].id, NEW w,
           cesantiasChange' = [cesantiasChange EXCEPT ![c] = w], w # Cesantias!Idle => w.id = i
    PROVE  /\ cesantiasChange[c] \in CesChanging /\ i \in Cesantias!Filed
           /\ i \in CesantiasRequests /\ cesantiasRequest[i] \in CesRow
           /\ cesantiasHistorial[i] \in Seq(Cesantias!Statuses)
           /\ cesantiasMailed[i] \in Seq(Cesantias!Statuses)
           /\ cesantiasChange'[c] = w
           /\ i \notin cesantiasCrossed \cup cesantiasFailed =>
                 /\ CesFollows(i) /\ CesWritten(c) /\ Cesantias!About(i) = {c}
                 /\ Cesantias!About(i)' = IF w = Cesantias!Idle THEN {} ELSE {c}
  <1>1. cesantiasChange[c] \in CesChanging /\ i \in CesantiasRequests
    BY DEF CesantiasInv, CesShape, CesChanging
  <1>2. c \in Cesantias!About(i)
    BY DEF Cesantias!About
  <1>3. i \in Cesantias!Filed
    BY <1>1, <1>2 DEF CesantiasInv, CesBlank
  <1>4. cesantiasRequest[i] \in CesRow /\ cesantiasHistorial[i] \in Seq(Cesantias!Statuses) /\
          cesantiasMailed[i] \in Seq(Cesantias!Statuses)
    BY <1>1, <1>3 DEF CesantiasInv, CesShape, Cesantias!Filed
  <1>5. cesantiasChange'[c] = w /\
          \A d \in CesantiasChanges \ {c} : cesantiasChange'[d] = cesantiasChange[d]
    BY DEF CesantiasInv, CesShape
  <1>6. ASSUME i \notin cesantiasCrossed \cup cesantiasFailed
        PROVE  /\ CesFollows(i) /\ CesWritten(c) /\ Cesantias!About(i) = {c}
               /\ Cesantias!About(i)' = IF w = Cesantias!Idle THEN {} ELSE {c}
    <2>1. CesFollows(i)
      BY <1>3, <1>6 DEF CesantiasInv
    <2>2. Cesantias!About(i) = {c} /\ CesWritten(c)
      BY <1>2, <2>1 DEF CesFollows
    <2>3. \A d \in CesantiasChanges \ {c} : cesantiasChange[d] = Cesantias!Idle \/
            cesantiasChange[d].id # i
      BY <2>2 DEF Cesantias!About
    <2> QED
      BY <1>5, <2>1, <2>2, <2>3 DEF Cesantias!About
  <1> QED
    BY <1>1, <1>3, <1>4, <1>5, <1>6

LEMMA CesUpdate == ASSUME CesantiasInv, NEW c \in CesantiasChanges, Cesantias!UpdateStatus(c)
    PROVE CesantiasInv'
  <1>0. PICK i : i = cesantiasChange[c].id
    OBVIOUS
  <1> DEFINE w == [cesantiasChange[c] EXCEPT !.pc = "history"]
             r == [cesantiasRequest[i] EXCEPT !.status = cesantiasChange[c].to]
  <1>1. /\ cesantiasChange[c] # Cesantias!Idle /\ cesantiasChange[c].pc = "update"
        /\ UNCHANGED <<cesantiasCreating, cesantiasHistorial, cesantiasMailed, cesantiasFailed,
             cesantiasCrossed>>
    BY DEF Cesantias!UpdateStatus
  <1>2. cesantiasChange[c] \in CesChanging /\ i \in CesantiasRequests
    BY <1>0, <1>1 DEF CesantiasInv, CesShape, CesChanging
  <1>3. w \in CesChanging /\ w.id = i /\ w.pc = "history" /\ w.to = cesantiasChange[c].to /\
          w # Cesantias!Idle
    BY <1>0, <1>2 DEF CesChanging, Cesantias!Idle
  <1>4. cesantiasChange' = [cesantiasChange EXCEPT ![c] = w]
    BY DEF Cesantias!UpdateStatus
  <1> HIDE DEF w
  <1>5. /\ i \in Cesantias!Filed /\ cesantiasRequest[i] \in CesRow /\ cesantiasChange'[c] = w
        /\ cesantiasHistorial[i] \in Seq(Cesantias!Statuses)
        /\ cesantiasMailed[i] \in Seq(Cesantias!Statuses)
        /\ i \notin cesantiasCrossed \cup cesantiasFailed =>
              CesFollows(i) /\ CesWritten(c) /\ Cesantias!About(i) = {c} /\
                  Cesantias!About(i)' = {c}
    <2>1. w # Cesantias!Idle => w.id = i
      BY <1>3
    <2>2. /\ i \in Cesantias!Filed /\ cesantiasRequest[i] \in CesRow /\ cesantiasChange'[c] = w
          /\ cesantiasHistorial[i] \in Seq(Cesantias!Statuses)
          /\ cesantiasMailed[i] \in Seq(Cesantias!Statuses)
      BY <1>0, <1>1, <1>4, <2>1, CesAlone
    <2>3. i \notin cesantiasCrossed \cup cesantiasFailed =>
                /\ CesFollows(i) /\ CesWritten(c) /\ Cesantias!About(i) = {c}
                /\ Cesantias!About(i)' = IF w = Cesantias!Idle THEN {} ELSE {c}
      BY <1>0, <1>1, <1>4, <2>1, CesAlone
    <2> QED
      BY <1>3, <2>2, <2>3
  <1>6. r \in CesRow /\ r.radicado = cesantiasRequest[i].radicado /\
          r.status = cesantiasChange[c].to
    BY <1>2, <1>5 DEF CesRow, CesChanging
  <1>7. cesantiasRequest' = [cesantiasRequest EXCEPT ![i] = r]
    BY <1>0 DEF Cesantias!UpdateStatus
  <1> HIDE DEF r
  <1>8. /\ cesantiasHistorial' = [cesantiasHistorial EXCEPT ![i] = cesantiasHistorial[i]]
        /\ cesantiasMailed' = [cesantiasMailed EXCEPT ![i] = cesantiasMailed[i]]
    BY <1>1, <1>2 DEF CesantiasInv, CesShape
  <1>9. ASSUME i \notin cesantiasCrossed' \cup cesantiasFailed' PROVE CesFollows(i)'
    <2>1. CesFollows(i) /\ CesWritten(c) /\ Cesantias!About(i) = {c} /\ Cesantias!About(i)' = {c}
      BY <1>1, <1>5, <1>9
    <2>2. Cesantias!IsPath(CesTraceOf(i))' /\ CesAt(i)' = CesAt(i)
      BY <1>1, <2>1 DEF CesFollows, CesTraceOf, CesAt, Cesantias!IsPath
    <2>3. cesantiasRequest'[i] = r
      BY <1>2, <1>7 DEF CesantiasInv, CesShape
    <2>4. CesAt(i) = cesantiasRequest[i].status /\
            <<cesantiasRequest[i].status, cesantiasChange[c].to>> \in Cesantias!TRANSICIONES_VALIDAS
      BY <1>1, <2>1, <1>0 DEF CesFollows, CesWritten
    <2>5. CesWritten(c)'
      <3>1. <<CesAt(i)', w.to>> \in Cesantias!TRANSICIONES_VALIDAS /\
              cesantiasRequest'[i].status = w.to
        BY <1>3, <1>6, <2>2, <2>3, <2>4
      <3>2. cesantiasChange'[c].id = i /\ cesantiasChange'[c].pc = "history" /\
              cesantiasChange'[c].to = w.to
        BY <1>3, <1>5
      <3> QED
        BY <3>1, <3>2 DEF CesWritten, CesAt, CesTraceOf
    <2>6. cesantiasMailed'[i] = cesantiasHistorial'[i]
      BY <1>1, <2>1 DEF CesFollows
    <2> QED
      BY <1>3, <1>5, <2>1, <2>2, <2>5, <2>6 DEF CesFollows
  <1> QED
    BY <1>1, <1>3, <1>4, <1>5, <1>6, <1>7, <1>8, <1>9, <1>0, CesMove

LEMMA CesHistorial == ASSUME CesantiasInv, NEW c \in CesantiasChanges,
                             Cesantias!CreateHistorial(c) PROVE CesantiasInv'
  <1>0. PICK i : i = cesantiasChange[c].id
    OBVIOUS
  <1> DEFINE w == [cesantiasChange[c] EXCEPT !.pc = "mail"]
             h == Append(cesantiasHistorial[i], cesantiasChange[c].to)
  <1>1. /\ cesantiasChange[c] # Cesantias!Idle /\ cesantiasChange[c].pc = "history"
        /\ UNCHANGED <<cesantiasRequest, cesantiasCreating, cesantiasMailed, cesantiasFailed,
             cesantiasCrossed>>
    BY DEF Cesantias!CreateHistorial
  <1>2. cesantiasChange[c] \in CesChanging /\ i \in CesantiasRequests
    BY <1>0, <1>1 DEF CesantiasInv, CesShape, CesChanging
  <1>3. w \in CesChanging /\ w.id = i /\ w.pc = "mail" /\ w.to = cesantiasChange[c].to /\
          w # Cesantias!Idle
    BY <1>0, <1>2 DEF CesChanging, Cesantias!Idle
  <1>4. cesantiasChange' = [cesantiasChange EXCEPT ![c] = w]
    BY DEF Cesantias!CreateHistorial
  <1> HIDE DEF w
  <1>5. /\ i \in Cesantias!Filed /\ cesantiasRequest[i] \in CesRow /\ cesantiasChange'[c] = w
        /\ cesantiasHistorial[i] \in Seq(Cesantias!Statuses)
        /\ cesantiasMailed[i] \in Seq(Cesantias!Statuses)
        /\ i \notin cesantiasCrossed \cup cesantiasFailed =>
              CesFollows(i) /\ CesWritten(c) /\ Cesantias!About(i) = {c} /\
                  Cesantias!About(i)' = {c}
    <2>1. w # Cesantias!Idle => w.id = i
      BY <1>3
    <2>2. /\ i \in Cesantias!Filed /\ cesantiasRequest[i] \in CesRow /\ cesantiasChange'[c] = w
          /\ cesantiasHistorial[i] \in Seq(Cesantias!Statuses)
          /\ cesantiasMailed[i] \in Seq(Cesantias!Statuses)
      BY <1>0, <1>1, <1>4, <2>1, CesAlone
    <2>3. i \notin cesantiasCrossed \cup cesantiasFailed =>
                /\ CesFollows(i) /\ CesWritten(c) /\ Cesantias!About(i) = {c}
                /\ Cesantias!About(i)' = IF w = Cesantias!Idle THEN {} ELSE {c}
      BY <1>0, <1>1, <1>4, <2>1, CesAlone
    <2> QED
      BY <1>3, <2>2, <2>3
  <1>6. h \in Seq(Cesantias!Statuses)
    BY <1>2, <1>5 DEF CesChanging
  <1>7. cesantiasHistorial' = [cesantiasHistorial EXCEPT ![i] = h] /\ cesantiasHistorial'[i] = h
    BY <1>0, <1>2 DEF Cesantias!CreateHistorial, CesantiasInv, CesShape
  <1>8. cesantiasRequest' = [cesantiasRequest EXCEPT ![i] = cesantiasRequest[i]] /\
          cesantiasMailed' = [cesantiasMailed EXCEPT ![i] = cesantiasMailed[i]]
    BY <1>1, <1>2 DEF CesantiasInv, CesShape
  <1>9. ASSUME i \notin cesantiasCrossed' \cup cesantiasFailed' PROVE CesFollows(i)'
    <2>1. CesFollows(i) /\ CesWritten(c) /\ Cesantias!About(i) = {c} /\ Cesantias!About(i)' = {c}
      BY <1>1, <1>5, <1>9
    <2>2. /\ Cesantias!IsPath(CesTraceOf(i))
          /\ <<CesAt(i), cesantiasChange[c].to>> \in Cesantias!TRANSICIONES_VALIDAS
          /\ cesantiasRequest[i].status = cesantiasChange[c].to
          /\ cesantiasMailed[i] = cesantiasHistorial[i]
          /\ cesantiasChange[c].to \in Cesantias!Statuses
      BY <1>1, <1>2, <2>1, <1>0 DEF CesFollows, CesWritten, CesChanging
    <2>3. /\ CesTraceOf(i) \in Seq(Cesantias!Statuses) /\ CesTraceOf(i) # <<>>
          /\ CesAt(i) = CesTraceOf(i)[Len(CesTraceOf(i))]
          /\ Len(CesTraceOf(i)) = Len(cesantiasHistorial[i]) + 1
          /\ <<"RECIBIDA">> \o h = Append(CesTraceOf(i), cesantiasChange[c].to)
      BY <1>2, <2>2, CesTrace DEF CesantiasInv
    <2>4. CesTraceOf(i)' = Append(CesTraceOf(i), cesantiasChange[c].to)
      BY <1>7, <2>3 DEF CesTraceOf
    <2>5. Cesantias!IsPath(CesTraceOf(i))'
      <3>1. Cesantias!IsPath(Append(CesTraceOf(i), cesantiasChange[c].to))
        BY <2>2, <2>3, CesPath
      <3> QED
        BY <2>4, <3>1 DEF Cesantias!IsPath
    <2>6. CesAt(i)' = cesantiasChange[c].to
      <3>1. Len(cesantiasHistorial'[i]) = Len(cesantiasHistorial[i]) + 1
        BY <1>2, <1>5, <1>7 DEF CesChanging
      <3>2. Append(CesTraceOf(i), cesantiasChange[c].to)[Len(CesTraceOf(i)) + 1] =
              cesantiasChange[c].to
        BY <2>3
      <3>3. CesAt(i)' = CesTraceOf(i)'[Len(cesantiasHistorial'[i]) + 1]
        BY DEF CesAt
      <3> QED
        BY <2>3, <2>4, <3>1, <3>2, <3>3
    <2>7. CesWritten(c)'
      <3>1. cesantiasChange'[c].id = i /\ cesantiasChange'[c].pc = "mail" /\
              cesantiasChange'[c].to = cesantiasChange[c].to
        BY <1>3, <1>5
      <3>2. cesantiasHistorial'[i] = Append(cesantiasMailed'[i], cesantiasChange[c].to)
        BY <1>1, <1>7, <2>2
      <3> QED
        BY <3>1, <3>2 DEF CesWritten
    <2> QED
      BY <1>1, <1>3, <1>5, <2>1, <2>2, <2>5, <2>6, <2>7 DEF CesFollows
  <1> HIDE DEF h
  <1> QED
    BY <1>1, <1>3, <1>4, <1>5, <1>6, <1>7, <1>8, <1>9, <1>0, CesMove

LEMMA CesMail == ASSUME CesantiasInv, NEW c \in CesantiasChanges, Cesantias!SendMail(c)
    PROVE CesantiasInv'
  <1>0. PICK i : i = cesantiasChange[c].id
    OBVIOUS
  <1> DEFINE m == Append(cesantiasMailed[i], cesantiasChange[c].to)
  <1>1. /\ cesantiasChange[c] # Cesantias!Idle /\ cesantiasChange[c].pc = "mail"
        /\ cesantiasChange' = [cesantiasChange EXCEPT ![c] = Cesantias!Idle]
        /\ UNCHANGED <<cesantiasRequest, cesantiasCreating, cesantiasHistorial, cesantiasFailed,
             cesantiasCrossed>>
    BY DEF Cesantias!SendMail
  <1>2. cesantiasChange[c] \in CesChanging /\ i \in CesantiasRequests
    BY <1>0, <1>1 DEF CesantiasInv, CesShape, CesChanging
  <1>5. /\ i \in Cesantias!Filed /\ cesantiasRequest[i] \in CesRow
        /\ cesantiasHistorial[i] \in Seq(Cesantias!Statuses)
        /\ cesantiasMailed[i] \in Seq(Cesantias!Statuses)
        /\ i \notin cesantiasCrossed \cup cesantiasFailed =>
              CesFollows(i) /\ CesWritten(c) /\ Cesantias!About(i) = {c} /\ Cesantias!About(i)' = {}
    BY <1>0, <1>1, CesAlone
  <1>6. m \in Seq(Cesantias!Statuses)
    BY <1>2, <1>5 DEF CesChanging
  <1>7. cesantiasMailed' = [cesantiasMailed EXCEPT ![i] = m] /\ cesantiasMailed'[i] = m
    BY <1>0, <1>2 DEF Cesantias!SendMail, CesantiasInv, CesShape
  <1>8. /\ cesantiasRequest' = [cesantiasRequest EXCEPT ![i] = cesantiasRequest[i]]
        /\ cesantiasHistorial' = [cesantiasHistorial EXCEPT ![i] = cesantiasHistorial[i]]
    BY <1>1, <1>2 DEF CesantiasInv, CesShape
  <1>9. ASSUME i \notin cesantiasCrossed' \cup cesantiasFailed' PROVE CesFollows(i)'
    <2>1. CesFollows(i) /\ CesWritten(c) /\ Cesantias!About(i) = {c} /\ Cesantias!About(i)' = {}
      BY <1>1, <1>5, <1>9
    <2>2. Cesantias!IsPath(CesTraceOf(i))' /\ CesAt(i)' = CesAt(i)
      BY <1>1, <2>1 DEF CesFollows, CesTraceOf, CesAt, Cesantias!IsPath
    <2>3. CesAt(i) = cesantiasRequest[i].status
      BY <1>1, <2>1 DEF CesFollows
    <2>4. cesantiasMailed'[i] = cesantiasHistorial'[i]
      BY <1>0, <1>1, <1>7, <2>1 DEF CesWritten
    <2> QED
      BY <1>1, <2>1, <2>2, <2>3, <2>4 DEF CesFollows
  <1> HIDE DEF m
  <1> QED
    BY <1>1, <1>5, <1>6, <1>7, <1>8, <1>9, <1>0, CesMove

LEMMA CesFails == ASSUME CesantiasInv, NEW c \in CesantiasChanges, Cesantias!Fails(c)
    PROVE CesantiasInv'
  <1>0. PICK i : i = cesantiasChange[c].id
    OBVIOUS
  <1>1. /\ cesantiasChange[c] # Cesantias!Idle
        /\ cesantiasChange' = [cesantiasChange EXCEPT ![c] = Cesantias!Idle]
        /\ cesantiasFailed' = IF cesantiasChange[c].pc = "update" THEN cesantiasFailed
             ELSE cesantiasFailed \cup {i}
        /\ UNCHANGED <<cesantiasRequest, cesantiasCreating, cesantiasHistorial, cesantiasMailed,
             cesantiasCrossed>>
    BY <1>0 DEF Cesantias!Fails
  <1>2. /\ i \in Cesantias!Filed /\ i \in CesantiasRequests /\ cesantiasRequest[i] \in CesRow
        /\ cesantiasHistorial[i] \in Seq(Cesantias!Statuses)
        /\ cesantiasMailed[i] \in Seq(Cesantias!Statuses)
        /\ i \notin cesantiasCrossed \cup cesantiasFailed =>
              CesFollows(i) /\ CesWritten(c) /\ Cesantias!About(i) = {c} /\ Cesantias!About(i)' = {}
    BY <1>0, <1>1, CesAlone
  <1>3. /\ cesantiasRequest' = [cesantiasRequest EXCEPT ![i] = cesantiasRequest[i]]
        /\ cesantiasHistorial' = [cesantiasHistorial EXCEPT ![i] = cesantiasHistorial[i]]
        /\ cesantiasMailed' = [cesantiasMailed EXCEPT ![i] = cesantiasMailed[i]]
    BY <1>1, <1>2 DEF CesantiasInv, CesShape
  <1>4. ASSUME i \notin cesantiasCrossed' \cup cesantiasFailed' PROVE CesFollows(i)'
    <2>1. CesFollows(i) /\ Cesantias!About(i) = {c} /\ Cesantias!About(i)' = {} /\
            cesantiasChange[c].pc = "update"
      BY <1>1, <1>2, <1>4
    <2>2. Cesantias!IsPath(CesTraceOf(i))' /\ CesAt(i)' = CesAt(i)
      BY <1>1, <2>1 DEF CesFollows, CesTraceOf, CesAt, Cesantias!IsPath
    <2>3. CesAt(i) = cesantiasRequest[i].status /\ cesantiasMailed[i] = cesantiasHistorial[i]
      BY <2>1 DEF CesFollows
    <2> QED
      BY <1>1, <2>1, <2>2, <2>3 DEF CesFollows
  <1> QED
    <2>1. /\ cesantiasFailed \subseteq cesantiasFailed'
          /\ cesantiasFailed' \subseteq cesantiasFailed \cup {i}
          /\ cesantiasCrossed \subseteq cesantiasCrossed'
          /\ cesantiasCrossed' \subseteq cesantiasCrossed \cup {i}
      BY <1>1
    <2>2. Cesantias!Idle \in CesChanging \cup {Cesantias!Idle} /\ cesantiasChange[c].id = i
      BY <1>0
    <2>3. cesantiasChange' = [cesantiasChange EXCEPT ![c] = Cesantias!Idle] /\
            cesantiasCreating' = cesantiasCreating
      BY <1>1
    <2> QED
      BY <1>2, <1>3, <1>4, <2>1, <2>2, <2>3, CesMove

LEMMA CesStep == CesantiasInv /\ [Cesantias!Next]_(Cesantias!vars) => CesantiasInv'
  <1> SUFFICES ASSUME CesantiasInv, [Cesantias!Next]_(Cesantias!vars) PROVE CesantiasInv'
    OBVIOUS
  <1>1. CASE UNCHANGED Cesantias!vars
    <2>1. /\ CesShape' /\ Cesantias!Filed' = Cesantias!Filed
          /\ Cesantias!Radicados' = Cesantias!Radicados
          /\ \A i \in CesantiasRequests : Cesantias!About(i)' = Cesantias!About(i) /\
               CesTraceOf(i)' = CesTraceOf(i) /\ CesAt(i)' = CesAt(i)
      BY <1>1, CesCount DEF Cesantias!vars, CesantiasInv, CesShape, Cesantias!Filed,
      Cesantias!Radicados, Cesantias!About, CesTraceOf, CesAt
    <2>2. CesNumbers'
      BY <1>1, <2>1, CesCount DEF Cesantias!vars, CesantiasInv, CesNumbers
    <2>3. \A i \in Cesantias!Filed \ (cesantiasCrossed \cup cesantiasFailed) : CesFollows(i)'
      BY <1>1, <2>1, CesOthers DEF Cesantias!vars, CesantiasInv, Cesantias!Filed
    <2>4. \A i \in CesantiasRequests \ Cesantias!Filed : CesBlank(i)'
      BY <1>1, <2>1 DEF Cesantias!vars, CesantiasInv, CesBlank
    <2> QED
      BY <1>1, <2>1, <2>2, <2>3, <2>4 DEF Cesantias!vars, CesantiasInv
  <1> QED
    BY <1>1, CesNumber, CesCreate, CesBegin, CesUpdate, CesHistorial, CesMail,
    CesFails DEF Cesantias!Next

LEMMA CesHolds == CesantiasInv => Cesantias!TypeOK /\ Cesantias!TramiteHolds
  <1> SUFFICES ASSUME CesantiasInv PROVE Cesantias!TypeOK /\ Cesantias!TramiteHolds
    OBVIOUS
  <1>1. Cesantias!TypeOK
    BY CesCount DEF CesantiasInv, CesShape, Cesantias!TypeOK, CesRow, CesChanging
  <1>2. Cesantias!Radicados = 1 .. Cardinality(Cesantias!Filed)
    BY CesCount DEF CesantiasInv, CesNumbers
  <1>3. ASSUME NEW i \in Cesantias!Filed \ (cesantiasCrossed \cup cesantiasFailed)
        PROVE  LET path == <<"RECIBIDA">> \o cesantiasHistorial[i]
                   pending == {c \in Cesantias!About(i) : cesantiasChange[c].pc = "history"} IN
                 /\ Cesantias!IsPath(IF pending = {} THEN path
                      ELSE Append(path, cesantiasRequest[i].status))
                 /\ pending = {} => path[Len(path)] = cesantiasRequest[i].status
                 /\ cesantiasMailed[i] = SubSeq(cesantiasHistorial[i], 1, Len(cesantiasMailed[i]))
    <2> DEFINE pending == {c \in Cesantias!About(i) : cesantiasChange[c].pc = "history"}
    <2>1. i \in CesantiasRequests /\ CesFollows(i) /\ cesantiasRequest[i] \in CesRow
      BY DEF CesantiasInv, CesShape, Cesantias!Filed
    <2>2. /\ CesTraceOf(i) \in Seq(Cesantias!Statuses) /\ CesTraceOf(i) # <<>>
          /\ CesAt(i) = CesTraceOf(i)[Len(CesTraceOf(i))]
      BY <2>1, CesTrace DEF CesantiasInv
    <2>3. pending # {} => Cesantias!IsPath(Append(CesTraceOf(i), cesantiasRequest[i].status))
      <3> SUFFICES ASSUME NEW c \in Cesantias!About(i), cesantiasChange[c].pc = "history"
                   PROVE  Cesantias!IsPath(Append(CesTraceOf(i), cesantiasRequest[i].status))
        OBVIOUS
      <3>1. CesWritten(c) /\ Cesantias!IsPath(CesTraceOf(i)) /\ cesantiasChange[c].id = i
        BY <2>1 DEF CesFollows, Cesantias!About
      <3>2. <<CesAt(i), cesantiasRequest[i].status>> \in Cesantias!TRANSICIONES_VALIDAS /\
              cesantiasRequest[i].status \in Cesantias!Statuses
        BY <2>1, <3>1 DEF CesWritten, CesRow
      <3> QED
        BY <2>2, <3>1, <3>2, CesPath
    <2>4. pending = {} => Cesantias!IsPath(CesTraceOf(i)) /\ CesAt(i) = cesantiasRequest[i].status
      BY <2>1 DEF CesFollows
    <2>5. cesantiasMailed[i] = SubSeq(cesantiasHistorial[i], 1, Len(cesantiasMailed[i]))
      <3>1. cesantiasHistorial[i] \in Seq(Cesantias!Statuses) /\
              cesantiasMailed[i] \in Seq(Cesantias!Statuses)
        BY <2>1 DEF CesantiasInv, CesShape
      <3>2. cesantiasMailed[i] = cesantiasHistorial[i] \/
              \E t \in Cesantias!Statuses : cesantiasHistorial[i] = Append(cesantiasMailed[i], t)
        <4>1. \A c \in Cesantias!About(i) : cesantiasChange[c].pc = "mail" =>
                  cesantiasHistorial[i] = Append(cesantiasMailed[i], cesantiasChange[c].to) /\
                      cesantiasChange[c].to \in Cesantias!Statuses
          <5> SUFFICES ASSUME NEW c \in Cesantias!About(i), cesantiasChange[c].pc = "mail"
                       PROVE  cesantiasHistorial[i] =
                           Append(cesantiasMailed[i], cesantiasChange[c].to) /\
                               cesantiasChange[c].to \in Cesantias!Statuses
            OBVIOUS
          <5>1. CesWritten(c) /\ cesantiasChange[c].id = i /\ cesantiasChange[c] \in CesChanging
            BY <2>1 DEF CesFollows, Cesantias!About, CesantiasInv, CesShape
          <5> QED
            BY <5>1 DEF CesWritten, CesChanging
        <4> QED
          BY <2>1, <4>1 DEF CesFollows
      <3>3. CASE cesantiasMailed[i] = cesantiasHistorial[i]
        BY <3>1, <3>3
      <3>4. CASE \E t \in Cesantias!Statuses : cesantiasHistorial[i] = Append(cesantiasMailed[i], t)
        <4>1. PICK t \in Cesantias!Statuses : cesantiasHistorial[i] = Append(cesantiasMailed[i], t)
          BY <3>4
        <4>2. Len(cesantiasMailed[i]) \in Nat /\
                Len(cesantiasHistorial[i]) = Len(cesantiasMailed[i]) + 1
          BY <3>1, <4>1
        <4>3. cesantiasMailed[i] = SubSeq(cesantiasHistorial[i], 1, Len(cesantiasMailed[i]))
          BY <3>1, <4>1, <4>2
        <4> QED
          BY <4>2, <4>3
      <3> QED
        BY <3>2, <3>3, <3>4
    <2> HIDE DEF pending
    <2>6. /\ Cesantias!IsPath(IF pending = {} THEN CesTraceOf(i)
               ELSE Append(CesTraceOf(i), cesantiasRequest[i].status))
          /\ pending = {} => CesTraceOf(i)[Len(CesTraceOf(i))] = cesantiasRequest[i].status
      BY <2>2, <2>3, <2>4
    <2> QED
      BY <2>5, <2>6 DEF pending, CesTraceOf
  <1> QED
    BY <1>1, <1>2, <1>3, CesCount DEF Cesantias!TramiteHolds
-----------------------------------------------------------------------------
(* The alerts about hotel payments.                                       *)

AlertNotified == [level : 0 .. 3, answered : BOOLEAN]
AlertScanning == [pc : {"read", "mark", "due"}, replied : BOOLEAN, level : 0 .. 3]
AlertAtWork == [pc : {"check", "send", "update"}, level : HotelAlerts!Levels]

AlertShape ==
    /\ alertsDue \in HotelAlerts!Levels
    /\ alertsReplied \in BOOLEAN /\ alertsUp \in BOOLEAN
    /\ alertsRecord \in AlertNotified \cup {None}
    /\ alertsScan \in [Scans -> AlertScanning \cup {HotelAlerts!Idle}]
    /\ alertsJob \in [HotelAlerts!Levels -> [state : HotelAlerts!JobStates,
         made : 0 .. AlertAttempts]]
    /\ alertsWorker \in AlertAtWork \cup {HotelAlerts!Idle}
    /\ alertsTried \in [HotelAlerts!Levels -> 0 .. AlertAttempts]
    /\ alertsReached \in [HotelAlerts!Levels -> SUBSET Phones]
    /\ alertsRepeats \in Nat

\* A scan has seen no more than the record has now.
AlertSeen(s) ==
    alertsScan[s] # HotelAlerts!Idle /\ alertsScan[s].pc # "read" =>
        alertsRecord # None /\ alertsScan[s].level <= alertsRecord.level

\* A level has a job only when it is due, and when the level below is recorded.
AlertQueued(l) ==
    /\ alertsJob[l].state = "none" => alertsJob[l].made = 0
    /\ alertsJob[l].state # "none" =>
         l <= alertsDue /\ alertsRecord # None /\ l - 1 <= alertsRecord.level
    /\ alertsJob[l].state = "waiting" => alertsJob[l].made < AlertAttempts
    /\ alertsTried[l] <= alertsJob[l].made
    /\ alertsWorker # HotelAlerts!Idle /\ alertsWorker.level = l =>
         /\ alertsJob[l].state = "active"
         /\ alertsWorker.pc = "check" => alertsTried[l] < alertsJob[l].made
         /\ alertsWorker.pc = "send" => alertsTried[l] < alertsJob[l].made /\ alertsRecord.level < l
         /\ alertsWorker.pc = "update" => 0 < alertsTried[l] /\ alertsRecord.level < l
    /\ alertsRecord # None /\ l <= alertsRecord.level => 0 < alertsTried[l]

\* The level is recorded, or about to be.
AlertSettled(l) ==
    IF \/ alertsRecord # None /\ l <= alertsRecord.level
       \/ alertsWorker # HotelAlerts!Idle /\ alertsWorker.pc = "update" /\ alertsWorker.level = l
    THEN 1 ELSE 0

AlertsInv ==
    /\ AlertShape
    /\ \A s \in Scans : AlertSeen(s)
    /\ \A l \in HotelAlerts!Levels : AlertQueued(l)
    /\ alertsTried[1] + alertsTried[2] + alertsTried[3] =
         alertsRepeats + AlertSettled(1) + AlertSettled(2) + AlertSettled(3)

LEMMA AlertLevels == HotelAlerts!Levels = {1, 2, 3} /\ AlertAttempts \in Nat /\ 0 < AlertAttempts
  BY ComponentsAssumption DEF HotelAlerts!Levels, HotelAlerts!HotelAlertsAssumption

LEMMA AlertInit == HotelAlerts!Init => AlertsInv
  <1> SUFFICES ASSUME HotelAlerts!Init PROVE AlertsInv
    OBVIOUS
  <1>1. AlertShape
    <2>1. alertsReplied \in BOOLEAN /\ alertsUp \in BOOLEAN
      BY DEF HotelAlerts!Init
    <2>2. [state |-> "none", made |-> 0] \in [state : HotelAlerts!JobStates,
            made : 0 .. AlertAttempts] /\ alertsDue \in HotelAlerts!Levels
      BY AlertLevels DEF HotelAlerts!JobStates, HotelAlerts!Init
    <2>3. /\ alertsJob \in [HotelAlerts!Levels -> [state : HotelAlerts!JobStates,
               made : 0 .. AlertAttempts]]
          /\ alertsTried \in [HotelAlerts!Levels -> 0 .. AlertAttempts]
          /\ alertsReached \in [HotelAlerts!Levels -> SUBSET Phones]
      BY <2>2, AlertLevels DEF HotelAlerts!Init
    <2> QED
      BY <2>1, <2>2, <2>3 DEF HotelAlerts!Init, AlertShape
  <1>2. \A s \in Scans : AlertSeen(s)
    BY DEF HotelAlerts!Init, AlertSeen
  <1>3. \A l \in HotelAlerts!Levels : AlertQueued(l) /\ AlertSettled(l) = 0
    BY DEF HotelAlerts!Init, AlertQueued, AlertSettled
  <1> QED
    BY <1>1, <1>2, <1>3, AlertLevels DEF HotelAlerts!Init, AlertsInv

\* A step of a scan.
LEMMA AlertScan ==
    ASSUME AlertsInv, NEW s \in Scans, NEW w \in AlertScanning \cup {HotelAlerts!Idle},
           alertsScan' = [alertsScan EXCEPT ![s] = w],
           w # HotelAlerts!Idle /\ w.pc # "read" =>
               alertsRecord' # None /\ w.level <= alertsRecord'.level,
           alertsRecord' \in AlertNotified,
           alertsRecord # None => alertsRecord'.level = alertsRecord.level,
           alertsRecord = None => alertsRecord'.level = 0,
           UNCHANGED <<alertsDue, alertsReplied, alertsJob, alertsWorker, alertsUp, alertsTried,
               alertsReached, alertsRepeats>>
    PROVE  AlertsInv'
  <1>1. AlertShape' /\ alertsRecord' # None
    BY ComponentsAssumption DEF AlertsInv, AlertShape, HotelAlerts!HotelAlertsAssumption,
    AlertNotified
  <1>2. ASSUME NEW t \in Scans PROVE AlertSeen(t)'
    <2>1. CASE t = s
      BY <2>1 DEF AlertsInv, AlertShape, AlertSeen
    <2>2. CASE t # s
      <3>1. alertsScan'[t] = alertsScan[t] /\ AlertSeen(t)
        BY <2>2 DEF AlertsInv, AlertShape
      <3> QED
        BY <1>1, <3>1 DEF AlertSeen
    <2> QED
      BY <2>1, <2>2
  <1>3. ASSUME NEW l \in HotelAlerts!Levels
          PROVE AlertQueued(l)' /\ AlertSettled(l)' = AlertSettled(l)
    <2>1. l \in 1 .. 3 /\ alertsRecord' \in AlertNotified /\ AlertQueued(l)
      BY DEF AlertsInv, HotelAlerts!Levels
    <2>2. CASE alertsRecord = None
      <3>1. alertsJob[l].state = "none"
        BY <2>1, <2>2 DEF AlertQueued
      <3>2. alertsWorker = HotelAlerts!Idle \/ alertsWorker.level # l
        BY <2>1, <3>1 DEF AlertQueued
      <3> QED
        BY <1>1, <2>1, <2>2, <3>1, <3>2 DEF AlertQueued, AlertSettled
    <2>3. CASE alertsRecord # None
      BY <1>1, <2>1, <2>3 DEF AlertQueued, AlertSettled
    <2> QED
      BY <2>2, <2>3
  <1>4. (alertsTried[1] + alertsTried[2] + alertsTried[3] =
          alertsRepeats + AlertSettled(1) + AlertSettled(2) + AlertSettled(3))'
    <2>1. AlertSettled(1)' = AlertSettled(1) /\ AlertSettled(2)' = AlertSettled(2) /\
            AlertSettled(3)' = AlertSettled(3)
      BY <1>3, AlertLevels
    <2> QED
      BY <2>1 DEF AlertsInv
  <1> QED
    BY <1>1, <1>2, <1>3, <1>4 DEF AlertsInv

LEMMA AlertBegin == ASSUME AlertsInv, NEW s \in Scans, HotelAlerts!BeginScan(s) PROVE AlertsInv'
  <1> DEFINE w == [pc |-> "read", replied |-> alertsReplied, level |-> 0]
  <1>1. w \in AlertScanning /\ w.pc = "read"
    BY DEF AlertsInv, AlertShape, AlertScanning
  <1>2. alertsScan' = [alertsScan EXCEPT ![s] = w] /\
          UNCHANGED <<alertsDue, alertsReplied, alertsRecord, alertsJob, alertsWorker, alertsUp,
              alertsTried, alertsReached, alertsRepeats>>
    BY DEF HotelAlerts!BeginScan
  <1> HIDE DEF w
  <1>3. CASE alertsRecord # None
    <2>1. alertsRecord' \in AlertNotified
      BY <1>2, <1>3 DEF AlertsInv, AlertShape
    <2> QED
      BY <1>1, <1>2, <1>3, <2>1, AlertScan
  <1>4. CASE alertsRecord = None
    <2>1. AlertShape'
      BY <1>1, <1>2 DEF AlertsInv, AlertShape
    <2>2. ASSUME NEW t \in Scans PROVE AlertSeen(t)'
      BY <1>1, <1>2 DEF AlertsInv, AlertShape, AlertSeen
    <2>3. \A l \in HotelAlerts!Levels : AlertQueued(l)' /\ AlertSettled(l)' = AlertSettled(l)
      BY <1>2 DEF AlertsInv, AlertQueued, AlertSettled
    <2> QED
      BY <1>2, <2>1, <2>2, <2>3, AlertLevels DEF AlertsInv
  <1> QED
    BY <1>3, <1>4

LEMMA AlertRead == ASSUME AlertsInv, NEW s \in Scans, HotelAlerts!ReadRecord(s) PROVE AlertsInv'
  <1>1. /\ alertsScan[s] # HotelAlerts!Idle /\ alertsScan[s].pc = "read"
        /\ alertsRecord' = IF alertsRecord = None THEN [level |-> 0, answered |-> FALSE]
             ELSE alertsRecord
        /\ alertsScan' = [alertsScan EXCEPT ![s] =
                  IF alertsRecord'.answered THEN HotelAlerts!Idle
                  ELSE [@ EXCEPT !.pc = IF alertsScan[s].replied THEN "mark"
                      ELSE "due", !.level = alertsRecord'.level]]
        /\ UNCHANGED <<alertsDue, alertsReplied, alertsJob, alertsWorker, alertsUp, alertsTried,
             alertsReached, alertsRepeats>>
    BY DEF HotelAlerts!ReadRecord
  <1>2. alertsRecord' \in AlertNotified /\ (alertsRecord = None => alertsRecord'.level = 0) /\
          (alertsRecord # None => alertsRecord'.level = alertsRecord.level)
    BY <1>1 DEF AlertsInv, AlertShape, AlertNotified
  <1> DEFINE w == IF alertsRecord'.answered THEN HotelAlerts!Idle
                  ELSE [alertsScan[s] EXCEPT !.pc = IF alertsScan[s].replied THEN "mark"
                      ELSE "due", !.level = alertsRecord'.level]
  <1>3. alertsRecord'.level \in 0 .. 3 /\ alertsRecord' # None
    BY <1>2, ComponentsAssumption DEF AlertNotified, HotelAlerts!HotelAlertsAssumption
  <1>4. w \in AlertScanning \cup {HotelAlerts!Idle} /\
          (w # HotelAlerts!Idle => w.level = alertsRecord'.level)
    BY <1>1, <1>3 DEF AlertsInv, AlertShape, AlertScanning
  <1>5. alertsScan' = [alertsScan EXCEPT ![s] = w]
    BY <1>1 DEF AlertsInv, AlertShape
  <1> HIDE DEF w
  <1>6. w # HotelAlerts!Idle /\ w.pc # "read" =>
          alertsRecord' # None /\ w.level <= alertsRecord'.level
    BY <1>3, <1>4
  <1>7. UNCHANGED <<alertsDue, alertsReplied, alertsJob, alertsWorker, alertsUp, alertsTried,
          alertsReached, alertsRepeats>>
    BY <1>1
  <1> QED
    BY <1>2, <1>4, <1>5, <1>6, <1>7, AlertScan

LEMMA AlertMark == ASSUME AlertsInv, NEW s \in Scans, HotelAlerts!MarkAnswered(s) PROVE AlertsInv'
  <1>1. /\ alertsScan[s] # HotelAlerts!Idle /\ alertsScan[s].pc = "mark"
        /\ alertsRecord' = [alertsRecord EXCEPT !.answered = TRUE]
        /\ alertsScan' = [alertsScan EXCEPT ![s].pc = "due"]
        /\ UNCHANGED <<alertsDue, alertsReplied, alertsJob, alertsWorker, alertsUp, alertsTried,
             alertsReached, alertsRepeats>>
    BY DEF HotelAlerts!MarkAnswered
  <1>2. alertsRecord # None /\ alertsScan[s].level <= alertsRecord.level /\
          alertsRecord \in AlertNotified /\ alertsScan[s] \in AlertScanning
    BY <1>1 DEF AlertsInv, AlertShape, AlertSeen
  <1>3. alertsRecord' \in AlertNotified /\ alertsRecord'.level = alertsRecord.level /\
          alertsRecord' # None
    BY <1>1, <1>2, ComponentsAssumption DEF AlertNotified, HotelAlerts!HotelAlertsAssumption
  <1> DEFINE w == [alertsScan[s] EXCEPT !.pc = "due"]
  <1>4. w \in AlertScanning /\ w.level = alertsScan[s].level
    BY <1>2 DEF AlertScanning
  <1>5. alertsScan' = [alertsScan EXCEPT ![s] = w]
    BY <1>1 DEF AlertsInv, AlertShape
  <1> HIDE DEF w
  <1> QED
    BY <1>1, <1>2, <1>3, <1>4, <1>5, AlertScan

\* A step that leaves the record and the scans of others, and the job of a level
\* that changes keeps what is said of it.
LEMMA AlertSame ==
    ASSUME AlertsInv, AlertShape', NEW s, \A t \in Scans \ {s} : alertsScan'[t] = alertsScan[t],
           alertsScan'[s] = HotelAlerts!Idle \/ alertsScan' = alertsScan,
           alertsRecord' = alertsRecord, alertsWorker' = alertsWorker,
           alertsTried' = alertsTried, alertsRepeats' = alertsRepeats,
           alertsDue' = alertsDue \/ alertsDue' = alertsDue + 1,
           NEW k, \A l \in HotelAlerts!Levels \ {k} : alertsJob'[l] = alertsJob[l],
           k \in HotelAlerts!Levels => AlertQueued(k)'
    PROVE  AlertsInv'
  <1>1. ASSUME NEW t \in Scans PROVE AlertSeen(t)'
    BY DEF AlertsInv, AlertSeen
  <1>2. ASSUME NEW l \in HotelAlerts!Levels PROVE AlertQueued(l)'
    <2>1. CASE l = k
      BY <2>1
    <2>2. CASE l # k
      BY <2>2 DEF AlertsInv, AlertShape, AlertQueued, HotelAlerts!Levels
    <2> QED
      BY <2>1, <2>2
  <1>3. \A l \in HotelAlerts!Levels : AlertSettled(l)' = AlertSettled(l)
    BY DEF AlertSettled
  <1> QED
    BY <1>1, <1>2, <1>3, AlertLevels DEF AlertsInv

LEMMA AlertEnqueue == ASSUME AlertsInv, NEW s \in Scans, HotelAlerts!Enqueue(s) PROVE AlertsInv'
  <1>0. PICK l : l = HotelAlerts!getDueLevel(alertsScan[s].level)
    OBVIOUS
  <1>1. /\ alertsScan[s] # HotelAlerts!Idle /\ alertsScan[s].pc = "due"
        /\ alertsScan' = [alertsScan EXCEPT ![s] = HotelAlerts!Idle]
        /\ alertsJob' = IF l # 0 /\ alertsJob[l].state = "none"
                  THEN [alertsJob EXCEPT ![l] = [state |-> "waiting", made |-> 0]] ELSE alertsJob
        /\ UNCHANGED <<alertsDue, alertsReplied, alertsRecord, alertsWorker, alertsUp,
             alertsTried, alertsReached, alertsRepeats>>
    BY <1>0 DEF HotelAlerts!Enqueue
  <1>2. alertsRecord # None /\ alertsScan[s].level <= alertsRecord.level /\
          alertsScan[s].level \in 0 .. 3 /\ alertsRecord.level \in 0 .. 3
    BY <1>1 DEF AlertsInv, AlertShape, AlertSeen, AlertScanning, AlertNotified
  <1>3. l # 0 => l \in HotelAlerts!Levels /\ l <= alertsDue /\ l - 1 <= alertsRecord.level
    BY <1>0, <1>2 DEF HotelAlerts!getDueLevel, AlertsInv, AlertShape, HotelAlerts!Levels
  <1>4. AlertShape'
    BY <1>1, <1>3, AlertLevels DEF AlertsInv, AlertShape, HotelAlerts!JobStates
  <1>5. l \in HotelAlerts!Levels => AlertQueued(l)'
    <2> SUFFICES ASSUME l \in HotelAlerts!Levels PROVE AlertQueued(l)'
      OBVIOUS
    <2>1. CASE l # 0 /\ alertsJob[l].state = "none"
      <3>1. alertsJob'[l].state = "waiting" /\ alertsJob'[l].made = 0
        BY <1>1, <2>1 DEF AlertsInv, AlertShape
      <3>2. AlertQueued(l)
        BY DEF AlertsInv
      <3>3. alertsWorker = HotelAlerts!Idle \/ alertsWorker.level # l
        BY <2>1, <3>2 DEF AlertQueued
      <3>4. alertsTried[l] = 0
        BY <2>1, <3>2 DEF AlertQueued, AlertsInv, AlertShape
      <3> QED
        BY <1>1, <1>2, <1>3, <2>1, <3>1, <3>2, <3>3, <3>4, ComponentsAssumption DEF AlertQueued,
        HotelAlerts!HotelAlertsAssumption
    <2>2. CASE ~(l # 0 /\ alertsJob[l].state = "none")
      BY <1>1, <2>2 DEF AlertsInv, AlertQueued
    <2> QED
      BY <2>1, <2>2
  <1>6. \A k \in HotelAlerts!Levels \ {l} : alertsJob'[k] = alertsJob[k]
    BY <1>1 DEF AlertsInv, AlertShape
  <1>7. alertsScan'[s] = HotelAlerts!Idle /\ \A t \in Scans \ {s} : alertsScan'[t] = alertsScan[t]
    BY <1>1 DEF AlertsInv, AlertShape
  <1> QED
    BY <1>1, <1>4, <1>5, <1>6, <1>7, AlertSame

LEMMA AlertFails == ASSUME AlertsInv, NEW s \in Scans, HotelAlerts!ScanFails(s) PROVE AlertsInv'
  <1>1. alertsScan' = [alertsScan EXCEPT ![s] = HotelAlerts!Idle] /\
          UNCHANGED <<alertsDue, alertsReplied, alertsRecord, alertsJob, alertsWorker, alertsUp,
              alertsTried, alertsReached, alertsRepeats>>
    BY DEF HotelAlerts!ScanFails
  <1>2. AlertShape'
    BY <1>1 DEF AlertsInv, AlertShape
  <1>3. alertsScan'[s] = HotelAlerts!Idle /\ \A t \in Scans \ {s} : alertsScan'[t] = alertsScan[t]
    BY <1>1 DEF AlertsInv, AlertShape
  <1>4. 0 \notin HotelAlerts!Levels
    BY DEF HotelAlerts!Levels
  <1> QED
    BY <1>1, <1>2, <1>3, <1>4, AlertSame

LEMMA AlertRest ==
    ASSUME AlertsInv, HotelAlerts!TimePasses \/ HotelAlerts!Reply \/
        HotelAlerts!InstanceChanges \/ UNCHANGED HotelAlerts!vars
    PROVE  AlertsInv'
  <1>1. UNCHANGED <<alertsRecord, alertsScan, alertsJob, alertsWorker, alertsTried,
          alertsRepeats>> /\ (alertsDue' = alertsDue \/ alertsDue' = alertsDue + 1)
    BY DEF HotelAlerts!TimePasses, HotelAlerts!Reply, HotelAlerts!InstanceChanges, HotelAlerts!vars
  <1>2. AlertShape'
    <2>1. alertsDue' \in HotelAlerts!Levels
      BY AlertLevels DEF HotelAlerts!TimePasses, HotelAlerts!Reply, HotelAlerts!InstanceChanges,
      HotelAlerts!vars, AlertsInv, AlertShape
    <2>2. alertsReplied' \in BOOLEAN /\ alertsUp' \in BOOLEAN
      BY DEF HotelAlerts!TimePasses, HotelAlerts!Reply, HotelAlerts!InstanceChanges,
      HotelAlerts!vars, AlertsInv, AlertShape
    <2>3. UNCHANGED alertsReached
      BY DEF HotelAlerts!TimePasses, HotelAlerts!Reply, HotelAlerts!InstanceChanges,
      HotelAlerts!vars
    <2> QED
      BY <1>1, <2>1, <2>2, <2>3 DEF AlertsInv, AlertShape
  <1>3. 0 \notin HotelAlerts!Levels
    BY DEF HotelAlerts!Levels
  <1> QED
    BY <1>1, <1>2, <1>3, AlertSame

LEMMA AlertBalance ==
    \A t, u, r, s, a, b, x, y \in Nat :
       t + u = r + a + b /\ x + r + a = t + s + y => x + u = s + y + b
  OBVIOUS

\* A step of the worker on the job of a level.
LEMMA AlertWork ==
    ASSUME AlertsInv, AlertShape', NEW l \in HotelAlerts!Levels, AlertQueued(l)',
           UNCHANGED <<alertsDue, alertsScan>>,
           \A k \in HotelAlerts!Levels \ {l} : alertsJob'[k] = alertsJob[k] /\
               alertsTried'[k] = alertsTried[k],
           alertsWorker # HotelAlerts!Idle =>
               alertsWorker.level = l, alertsWorker' # HotelAlerts!Idle => alertsWorker'.level = l,
           alertsRecord # None, alertsRecord' # None, alertsRecord.level <= alertsRecord'.level,
           \A k \in HotelAlerts!Levels \ {l} : k <= alertsRecord'.level => k <= alertsRecord.level,
           alertsTried'[l] + alertsRepeats + AlertSettled(l) =
               alertsTried[l] + alertsRepeats' + AlertSettled(l)'
    PROVE  AlertsInv'
  <1>1. ASSUME NEW t \in Scans PROVE AlertSeen(t)'
    <2>1. alertsScan[t] # HotelAlerts!Idle => alertsScan[t] \in AlertScanning
      BY DEF AlertsInv, AlertShape
    <2>2. alertsRecord \in AlertNotified /\ alertsRecord' \in AlertNotified
      BY DEF AlertsInv, AlertShape
    <2> QED
      BY <2>1, <2>2 DEF AlertsInv, AlertSeen, AlertScanning, AlertNotified
  <1>2. ASSUME NEW k \in HotelAlerts!Levels \ {l}
          PROVE AlertQueued(k)' /\ AlertSettled(k)' = AlertSettled(k)
    <2>1. alertsRecord \in AlertNotified /\ alertsRecord' \in AlertNotified /\ k \in 1 .. 3
      BY DEF AlertsInv, AlertShape, HotelAlerts!Levels
    <2> QED
      BY <2>1 DEF AlertsInv, AlertQueued, AlertSettled, AlertNotified
  <1>3. (alertsTried[1] + alertsTried[2] + alertsTried[3] =
          alertsRepeats + AlertSettled(1) + AlertSettled(2) + AlertSettled(3))'
    <2>1. /\ alertsTried[1] \in Nat /\ alertsTried[2] \in Nat /\ alertsTried[3] \in Nat
          /\ alertsRepeats \in Nat
          /\ alertsTried'[1] \in Nat /\ alertsTried'[2] \in Nat /\ alertsTried'[3] \in Nat
          /\ alertsRepeats' \in Nat
      BY AlertLevels DEF AlertsInv, AlertShape
    <2>2. \A k \in HotelAlerts!Levels : AlertSettled(k) \in Nat /\ AlertSettled(k)' \in Nat
      BY DEF AlertSettled
    <2>3. alertsTried[1] + alertsTried[2] + alertsTried[3] =
            alertsRepeats + AlertSettled(1) + AlertSettled(2) + AlertSettled(3)
      BY DEF AlertsInv
    <2>4. l = 1 \/ l = 2 \/ l = 3
      BY AlertLevels
    <2>5. CASE l = 1
      <3>1. alertsTried'[2] = alertsTried[2] /\ alertsTried'[3] = alertsTried[3] /\
              AlertSettled(2)' = AlertSettled(2) /\ AlertSettled(3)' = AlertSettled(3)
        BY <1>2, <2>5, AlertLevels
      <3>2. alertsTried'[1] + alertsRepeats + AlertSettled(1) =
              alertsTried[1] + alertsRepeats' + AlertSettled(1)'
        BY <2>5
      <3>3. AlertSettled(1) \in Nat /\ AlertSettled(2) \in Nat /\ AlertSettled(3) \in Nat /\
              AlertSettled(1)' \in Nat
        BY <2>2, AlertLevels
      <3>4. alertsTried[1] + (alertsTried[2] + alertsTried[3]) =
              alertsRepeats + AlertSettled(1) + (AlertSettled(2) + AlertSettled(3))
        BY <2>1, <2>3, <3>3
      <3>5. alertsTried'[1] + (alertsTried[2] + alertsTried[3]) =
              alertsRepeats' + AlertSettled(1)' + (AlertSettled(2) + AlertSettled(3))
        BY <2>1, <3>2, <3>3, <3>4, AlertBalance
      <3> QED
        BY <2>1, <3>1, <3>3, <3>5
    <2>6. CASE l = 2
      <3>1. alertsTried'[1] = alertsTried[1] /\ alertsTried'[3] = alertsTried[3] /\
              AlertSettled(1)' = AlertSettled(1) /\ AlertSettled(3)' = AlertSettled(3)
        BY <1>2, <2>6, AlertLevels
      <3>2. alertsTried'[2] + alertsRepeats + AlertSettled(2) =
              alertsTried[2] + alertsRepeats' + AlertSettled(2)'
        BY <2>6
      <3>3. AlertSettled(1) \in Nat /\ AlertSettled(2) \in Nat /\ AlertSettled(3) \in Nat /\
              AlertSettled(2)' \in Nat
        BY <2>2, AlertLevels
      <3>4. alertsTried[2] + (alertsTried[1] + alertsTried[3]) =
              alertsRepeats + AlertSettled(2) + (AlertSettled(1) + AlertSettled(3))
        BY <2>1, <2>3, <3>3
      <3>5. alertsTried'[2] + (alertsTried[1] + alertsTried[3]) =
              alertsRepeats' + AlertSettled(2)' + (AlertSettled(1) + AlertSettled(3))
        BY <2>1, <3>2, <3>3, <3>4, AlertBalance
      <3> QED
        BY <2>1, <3>1, <3>3, <3>5
    <2>7. CASE l = 3
      <3>1. alertsTried'[1] = alertsTried[1] /\ alertsTried'[2] = alertsTried[2] /\
              AlertSettled(1)' = AlertSettled(1) /\ AlertSettled(2)' = AlertSettled(2)
        BY <1>2, <2>7, AlertLevels
      <3>2. alertsTried'[3] + alertsRepeats + AlertSettled(3) =
              alertsTried[3] + alertsRepeats' + AlertSettled(3)'
        BY <2>7
      <3>3. AlertSettled(1) \in Nat /\ AlertSettled(2) \in Nat /\ AlertSettled(3) \in Nat /\
              AlertSettled(3)' \in Nat
        BY <2>2, AlertLevels
      <3>4. alertsTried[3] + (alertsTried[1] + alertsTried[2]) =
              alertsRepeats + AlertSettled(3) + (AlertSettled(1) + AlertSettled(2))
        BY <2>1, <2>3, <3>3
      <3>5. alertsTried'[3] + (alertsTried[1] + alertsTried[2]) =
              alertsRepeats' + AlertSettled(3)' + (AlertSettled(1) + AlertSettled(2))
        BY <2>1, <3>2, <3>3, <3>4, AlertBalance
      <3> QED
        BY <2>1, <3>1, <3>3, <3>5
    <2> QED
      BY <2>4, <2>5, <2>6, <2>7
  <1> QED
    BY <1>1, <1>2, <1>3 DEF AlertsInv

LEMMA AlertTake == ASSUME AlertsInv, NEW l \in HotelAlerts!Levels, HotelAlerts!Take(l)
    PROVE AlertsInv'
  <1>1. /\ alertsWorker = HotelAlerts!Idle /\ alertsJob[l].state = "waiting"
        /\ alertsJob' =
             [alertsJob EXCEPT ![l] = [state |-> "active", made |-> alertsJob[l].made + 1]]
        /\ alertsWorker' = [pc |-> "check", level |-> l]
        /\ UNCHANGED <<alertsDue, alertsReplied, alertsRecord, alertsScan, alertsUp, alertsTried,
             alertsReached, alertsRepeats>>
    BY DEF HotelAlerts!Take, AlertsInv, AlertShape
  <1>2. /\ AlertQueued(l) /\ alertsRecord \in AlertNotified \cup {None}
        /\ alertsTried[l] \in Nat /\ alertsJob[l].made \in Nat
        /\ alertsJob[l].made < AlertAttempts /\ l <= alertsDue /\ alertsRecord # None
        /\ l - 1 <= alertsRecord.level /\ alertsTried[l] <= alertsJob[l].made
    BY <1>1, AlertLevels DEF AlertsInv, AlertShape, AlertQueued
  <1>3. alertsWorker' \in AlertAtWork /\ alertsWorker'.pc = "check" /\ alertsWorker'.level = l /\
          alertsWorker' # HotelAlerts!Idle
    BY <1>1 DEF AlertAtWork, HotelAlerts!Idle
  <1>4. alertsJob'[l].state = "active" /\ alertsJob'[l].made = alertsJob[l].made + 1
    BY <1>1 DEF AlertsInv, AlertShape
  <1>5. AlertShape'
    BY <1>1, <1>2, <1>3, AlertLevels DEF AlertsInv, AlertShape, HotelAlerts!JobStates
  <1>6. AlertQueued(l)'
    BY <1>1, <1>2, <1>3, <1>4 DEF AlertQueued
  <1>7. AlertSettled(l)' = AlertSettled(l)
    BY <1>1, <1>3 DEF AlertSettled
  <1>8. \A k \in HotelAlerts!Levels \ {l} : alertsJob'[k] = alertsJob[k] /\
          alertsTried'[k] = alertsTried[k]
    BY <1>1 DEF AlertsInv, AlertShape
  <1>9. alertsRecord.level <= alertsRecord'.level
    BY <1>1, <1>2 DEF AlertNotified
  <1> QED
    BY <1>1, <1>2, <1>3, <1>5, <1>6, <1>7, <1>8, <1>9, AlertWork

\* What the worker at a level knows.
LEMMA AlertAt ==
    ASSUME AlertsInv, alertsWorker # HotelAlerts!Idle
    PROVE  /\ alertsWorker \in AlertAtWork /\ alertsWorker.level \in HotelAlerts!Levels
           /\ alertsRecord # None /\ alertsRecord \in AlertNotified /\ alertsRecord.level \in 0 .. 3
           /\ AlertQueued(alertsWorker.level) /\ alertsJob[alertsWorker.level].state = "active"
           /\ alertsJob[alertsWorker.level] \in [state : HotelAlerts!JobStates,
                made : 0 .. AlertAttempts]
           /\ alertsTried[alertsWorker.level] \in 0 .. AlertAttempts
  <1>1. alertsWorker \in AlertAtWork /\ alertsWorker.level \in HotelAlerts!Levels
    BY DEF AlertsInv, AlertShape, AlertAtWork
  <1>2. AlertQueued(alertsWorker.level)
    BY <1>1 DEF AlertsInv
  <1>3. alertsJob[alertsWorker.level].state = "active" /\ alertsRecord # None
    BY <1>2 DEF AlertQueued
  <1> QED
    BY <1>1, <1>2, <1>3 DEF AlertsInv, AlertShape, AlertNotified

LEMMA AlertCheck == ASSUME AlertsInv, HotelAlerts!Check PROVE AlertsInv'
  <1>0. PICK l : l = alertsWorker.level
    OBVIOUS
  <1>1. alertsWorker # HotelAlerts!Idle /\ alertsWorker.pc = "check" /\
          UNCHANGED <<alertsDue, alertsReplied, alertsRecord, alertsScan, alertsUp, alertsTried,
              alertsReached, alertsRepeats>>
    BY DEF HotelAlerts!Check
  <1>2. /\ alertsWorker \in AlertAtWork /\ l \in HotelAlerts!Levels /\ alertsRecord # None
        /\ alertsRecord \in AlertNotified /\ AlertQueued(l)
        /\ alertsJob[l].state = "active" /\
             alertsJob[l] \in [state : HotelAlerts!JobStates, made : 0 .. AlertAttempts]
        /\ alertsTried[l] \in 0 .. AlertAttempts
    BY <1>0, <1>1, AlertAt
  <1>3. CASE ~alertsRecord.answered /\ alertsRecord.level < l
    <2>1. alertsWorker' = [alertsWorker EXCEPT !.pc = "send"] /\ UNCHANGED alertsJob
      BY <1>0, <1>3 DEF HotelAlerts!Check
    <2>2. alertsWorker' \in AlertAtWork /\ alertsWorker'.pc = "send" /\
            alertsWorker'.level = l /\ alertsWorker' # HotelAlerts!Idle
      BY <1>0, <1>2, <2>1 DEF AlertAtWork, HotelAlerts!Idle
    <2>3. AlertShape'
      BY <1>1, <2>1, <2>2 DEF AlertsInv, AlertShape
    <2>4. AlertQueued(l)' /\ AlertSettled(l)' = AlertSettled(l)
      BY <1>0, <1>1, <1>2, <1>3, <2>1, <2>2 DEF AlertQueued, AlertSettled
    <2>5. alertsRecord.level <= alertsRecord'.level
      BY <1>1, <1>2 DEF AlertNotified
    <2> QED
      BY <1>0, <1>1, <1>2, <2>1, <2>2, <2>3, <2>4, <2>5, AlertWork
  <1>4. CASE ~(~alertsRecord.answered /\ alertsRecord.level < l)
    <2>1. alertsWorker' = HotelAlerts!Idle /\
            alertsJob' = [alertsJob EXCEPT ![l].state = "completed"]
      BY <1>0, <1>4 DEF HotelAlerts!Check
    <2>2. alertsJob'[l] = [alertsJob[l] EXCEPT !.state = "completed"] /\
            \A k \in HotelAlerts!Levels \ {l} : alertsJob'[k] = alertsJob[k]
      BY <1>2, <2>1 DEF AlertsInv, AlertShape
    <2>3. /\ alertsJob'[l] \in [state : HotelAlerts!JobStates, made : 0 .. AlertAttempts]
          /\ alertsJob'[l].state = "completed" /\ alertsJob'[l].made = alertsJob[l].made
      BY <1>2, <2>2 DEF HotelAlerts!JobStates
    <2>4. AlertShape'
      BY <1>1, <1>2, <2>1, <2>3 DEF AlertsInv, AlertShape
    <2>5. AlertQueued(l)' /\ AlertSettled(l)' = AlertSettled(l)
      BY <1>0, <1>1, <1>2, <2>1, <2>3 DEF AlertQueued, AlertSettled
    <2>6. alertsRecord.level <= alertsRecord'.level
      BY <1>1, <1>2 DEF AlertNotified
    <2> QED
      BY <1>0, <1>1, <1>2, <2>1, <2>2, <2>4, <2>5, <2>6, AlertWork
  <1> QED
    BY <1>3, <1>4

LEMMA AlertSend == ASSUME AlertsInv, HotelAlerts!Send PROVE AlertsInv'
  <1>0. PICK l : l = alertsWorker.level
    OBVIOUS
  <1>1. /\ alertsWorker # HotelAlerts!Idle /\ alertsWorker.pc = "send"
        /\ alertsWorker' = [alertsWorker EXCEPT !.pc = "update"]
        /\ alertsTried' = [alertsTried EXCEPT ![l] = alertsTried[l] + 1]
        /\ UNCHANGED <<alertsDue, alertsReplied, alertsRecord, alertsScan, alertsJob, alertsUp,
             alertsRepeats>>
    BY <1>0 DEF HotelAlerts!Send
  <1>2. /\ alertsWorker \in AlertAtWork /\ l \in HotelAlerts!Levels /\ alertsRecord # None
        /\ alertsRecord \in AlertNotified /\ AlertQueued(l)
        /\ alertsJob[l].state = "active" /\
             alertsJob[l] \in [state : HotelAlerts!JobStates, made : 0 .. AlertAttempts]
        /\ alertsTried[l] \in 0 .. AlertAttempts
    BY <1>0, <1>1, AlertAt
  <1>3. alertsTried[l] < alertsJob[l].made /\ alertsRecord.level < l
    BY <1>0, <1>1, <1>2 DEF AlertQueued
  <1>4. /\ alertsWorker' \in AlertAtWork /\ alertsWorker'.pc = "update"
        /\ alertsWorker'.level = l /\ alertsWorker' # HotelAlerts!Idle
        /\ alertsTried'[l] = alertsTried[l] + 1 /\
             \A k \in HotelAlerts!Levels \ {l} : alertsTried'[k] = alertsTried[k]
    BY <1>0, <1>1, <1>2 DEF AlertAtWork, HotelAlerts!Idle, AlertsInv, AlertShape
  <1>5. alertsReached' \in [HotelAlerts!Levels -> SUBSET Phones]
    <2>1. PICK got \in SUBSET Phones :
            alertsReached' = [alertsReached EXCEPT ![l] = alertsReached[l] \cup got]
      BY <1>0 DEF HotelAlerts!Send
    <2> QED
      BY <1>2, <2>1 DEF AlertsInv, AlertShape
  <1>6. alertsTried[l] + 1 \in 0 .. AlertAttempts
    BY <1>2, <1>3, AlertLevels
  <1>7. AlertShape'
    BY <1>1, <1>2, <1>4, <1>5, <1>6 DEF AlertsInv, AlertShape
  <1>8. AlertQueued(l)'
    BY <1>0, <1>1, <1>2, <1>3, <1>4 DEF AlertQueued
  <1>9. AlertSettled(l) = 0 /\ AlertSettled(l)' = 1
    BY <1>0, <1>1, <1>2, <1>3, <1>4, AlertLevels DEF AlertSettled, AlertNotified
  <1>10. alertsTried'[l] + alertsRepeats + AlertSettled(l) =
           alertsTried[l] + alertsRepeats' + AlertSettled(l)' /\
               alertsRecord.level <= alertsRecord'.level
    <2>1. alertsRecord' = alertsRecord /\ alertsRecord.level \in 0 .. 3 /\
            alertsRepeats' = alertsRepeats /\ alertsRepeats \in Nat /\ alertsTried[l] \in Nat
      BY <1>1, <1>2, AlertLevels DEF AlertNotified, AlertsInv, AlertShape
    <2> QED
      BY <1>4, <1>9, <2>1
  <1> QED
    BY <1>0, <1>1, <1>2, <1>4, <1>7, <1>8, <1>10, AlertWork

LEMMA AlertUpdate == ASSUME AlertsInv, HotelAlerts!Update PROVE AlertsInv'
  <1>0. PICK l : l = alertsWorker.level
    OBVIOUS
  <1>1. /\ alertsWorker # HotelAlerts!Idle /\ alertsWorker.pc = "update"
        /\ alertsWorker' = HotelAlerts!Idle
        /\ alertsRecord' = [alertsRecord EXCEPT !.level = l]
        /\ alertsJob' = [alertsJob EXCEPT ![l].state = "completed"]
        /\ UNCHANGED <<alertsDue, alertsReplied, alertsScan, alertsUp, alertsTried,
             alertsReached, alertsRepeats>>
    BY <1>0 DEF HotelAlerts!Update
  <1>2. /\ alertsWorker \in AlertAtWork /\ l \in HotelAlerts!Levels /\ alertsRecord # None
        /\ alertsRecord \in AlertNotified /\ AlertQueued(l)
        /\ alertsJob[l].state = "active" /\
             alertsJob[l] \in [state : HotelAlerts!JobStates, made : 0 .. AlertAttempts]
        /\ alertsTried[l] \in 0 .. AlertAttempts
    BY <1>0, <1>1, AlertAt
  <1>3. 0 < alertsTried[l] /\ alertsRecord.level < l /\ l - 1 <= alertsRecord.level /\
          l <= alertsDue
    BY <1>0, <1>1, <1>2 DEF AlertQueued
  <1>4. alertsRecord' \in AlertNotified /\ alertsRecord'.level = l /\ alertsRecord' # None
    BY <1>1, <1>2, ComponentsAssumption DEF AlertNotified, HotelAlerts!HotelAlertsAssumption,
    HotelAlerts!Levels
  <1>5. alertsJob'[l] = [alertsJob[l] EXCEPT !.state = "completed"] /\
          \A k \in HotelAlerts!Levels \ {l} : alertsJob'[k] = alertsJob[k]
    BY <1>1, <1>2 DEF AlertsInv, AlertShape
  <1>6. /\ alertsJob'[l] \in [state : HotelAlerts!JobStates, made : 0 .. AlertAttempts]
        /\ alertsJob'[l].state = "completed" /\ alertsJob'[l].made = alertsJob[l].made
    BY <1>2, <1>5 DEF HotelAlerts!JobStates
  <1>7. AlertShape'
    BY <1>1, <1>2, <1>4, <1>6 DEF AlertsInv, AlertShape
  <1>8. AlertQueued(l)'
    BY <1>1, <1>2, <1>3, <1>4, <1>6, AlertLevels DEF AlertQueued
  <1>9. AlertSettled(l) = 1 /\ AlertSettled(l)' = 1
    BY <1>0, <1>1, <1>2, <1>4, AlertLevels DEF AlertSettled
  <1>10. alertsTried'[l] + alertsRepeats + AlertSettled(l) =
           alertsTried[l] + alertsRepeats' + AlertSettled(l)' /\
               alertsRecord.level <= alertsRecord'.level
    BY <1>1, <1>2, <1>3, <1>4, <1>9, AlertLevels DEF AlertNotified
  <1>11. \A k \in HotelAlerts!Levels \ {l} : k <= alertsRecord'.level => k <= alertsRecord.level
    BY <1>2, <1>3, <1>4 DEF HotelAlerts!Levels, AlertNotified
  <1> QED
    BY <1>0, <1>1, <1>2, <1>4, <1>5, <1>7, <1>8, <1>10, <1>11, AlertWork

LEMMA AlertAttempt == ASSUME AlertsInv, HotelAlerts!AttemptFails PROVE AlertsInv'
  <1>0. PICK l : l = alertsWorker.level
    OBVIOUS
  <1>1. /\ alertsWorker # HotelAlerts!Idle /\ alertsWorker' = HotelAlerts!Idle
        /\ alertsRepeats' = IF alertsWorker.pc = "update" THEN alertsRepeats + 1 ELSE alertsRepeats
        /\ UNCHANGED <<alertsDue, alertsReplied, alertsRecord, alertsScan, alertsUp, alertsTried,
             alertsReached>>
    BY DEF HotelAlerts!AttemptFails
  <1>2. /\ alertsWorker \in AlertAtWork /\ l \in HotelAlerts!Levels /\ alertsRecord # None
        /\ alertsRecord \in AlertNotified /\ AlertQueued(l)
        /\ alertsJob[l].state = "active" /\
             alertsJob[l] \in [state : HotelAlerts!JobStates, made : 0 .. AlertAttempts]
        /\ alertsTried[l] \in 0 .. AlertAttempts
    BY <1>0, <1>1, AlertAt
  <1>3. PICK outcome \in {"waiting", "failed"} :
          /\ outcome = "waiting" => alertsJob[l].made < AlertAttempts
          /\ alertsJob' = [alertsJob EXCEPT ![l].state = outcome]
    BY <1>0, <1>2 DEF HotelAlerts!AttemptFails, AlertsInv, AlertShape
  <1>5. alertsJob'[l] = [alertsJob[l] EXCEPT !.state = outcome] /\
          \A k \in HotelAlerts!Levels \ {l} : alertsJob'[k] = alertsJob[k]
    BY <1>2, <1>3 DEF AlertsInv, AlertShape
  <1>6. /\ alertsJob'[l] \in [state : HotelAlerts!JobStates, made : 0 .. AlertAttempts]
        /\ alertsJob'[l].state = outcome /\ alertsJob'[l].made = alertsJob[l].made
    BY <1>2, <1>5 DEF HotelAlerts!JobStates
  <1>7. AlertShape'
    BY <1>1, <1>2, <1>3, <1>6 DEF AlertsInv, AlertShape
  <1>8. AlertQueued(l)'
    BY <1>1, <1>2, <1>3, <1>6, AlertLevels DEF AlertQueued
  <1>9. alertsRepeats' + AlertSettled(l)' = alertsRepeats + AlertSettled(l) /\
          alertsRecord.level <= alertsRecord'.level
    <2>1. alertsWorker.pc = "update" => alertsRecord.level < l
      BY <1>0, <1>1, <1>2 DEF AlertQueued
    <2>2. AlertSettled(l)' = IF l <= alertsRecord.level THEN 1 ELSE 0
      BY <1>1, <1>2 DEF AlertSettled
    <2>3. AlertSettled(l) = IF l <= alertsRecord.level \/ alertsWorker.pc = "update" THEN 1 ELSE 0
      BY <1>0, <1>1, <1>2 DEF AlertSettled
    <2> QED
      BY <1>1, <1>2, <2>1, <2>2, <2>3, AlertLevels DEF AlertNotified, AlertsInv, AlertShape
  <1>10. alertsTried'[l] + alertsRepeats + AlertSettled(l) =
           alertsTried[l] + alertsRepeats' + AlertSettled(l)'
    <2>1. AlertSettled(l) \in Nat /\ AlertSettled(l)' \in Nat /\ alertsRepeats \in Nat /\
            alertsRepeats' \in Nat /\ alertsTried[l] \in Nat
      BY <1>1, <1>2, <1>7 DEF AlertSettled, AlertsInv, AlertShape
    <2> QED
      BY <1>1, <1>9, <2>1
  <1> QED
    BY <1>0, <1>1, <1>2, <1>5, <1>7, <1>8, <1>9, <1>10, AlertWork

LEMMA AlertStep == AlertsInv /\ [HotelAlerts!Next]_(HotelAlerts!vars) => AlertsInv'
  BY AlertBegin, AlertRead, AlertMark, AlertEnqueue, AlertFails, AlertRest, AlertTake, AlertCheck,
     AlertSend, AlertUpdate, AlertAttempt
     DEF HotelAlerts!Next

AlertAgain == [l \in HotelAlerts!Levels |-> IF alertsTried[l] = 0 THEN 0 ELSE alertsTried[l] - 1]

LEMMA AlertSum == \A f : HotelAlerts!SumFunction(f) = SumFunctionOnSet(f, DOMAIN f)
  BY DEF HotelAlerts!SumFunction, HotelAlerts!SumFunctionOnSet, HotelAlerts!FoldFunctionOnSet,
     HotelAlerts!MapThenFoldSet, SumFunctionOnSet, FoldFunctionOnSet, MapThenFoldSet

LEMMA AlertHolds == AlertsInv => HotelAlerts!TypeOK /\ HotelAlerts!AlertsInOrder
  <1> SUFFICES ASSUME AlertsInv PROVE HotelAlerts!TypeOK /\ HotelAlerts!AlertsInOrder
    OBVIOUS
  <1>1. HotelAlerts!TypeOK
    BY DEF AlertsInv, AlertShape, HotelAlerts!TypeOK, AlertNotified, AlertScanning, AlertAtWork
  <1>2. ASSUME NEW l \in HotelAlerts!Levels, alertsTried[l] > 0
        PROVE  l <= alertsDue /\ \A k \in 1 .. l - 1 : alertsTried[k] > 0 /\ alertsRecord.level >= k
    <2>1. AlertQueued(l) /\ alertsTried[l] \in Nat /\ alertsJob[l].made \in Nat /\ l \in 1 .. 3
      BY AlertLevels DEF AlertsInv, AlertShape, HotelAlerts!Levels
    <2>2. l <= alertsDue /\ alertsRecord # None /\ l - 1 <= alertsRecord.level /\
            alertsRecord \in AlertNotified
      BY <1>2, <2>1 DEF AlertQueued, AlertsInv, AlertShape
    <2>3. ASSUME NEW k \in 1 .. l - 1 PROVE alertsTried[k] > 0 /\ alertsRecord.level >= k
      <3>1. k \in HotelAlerts!Levels /\ AlertQueued(k) /\ k <= alertsRecord.level
        BY <2>1, <2>2 DEF AlertsInv, HotelAlerts!Levels, AlertNotified
      <3> QED
        BY <2>2, <3>1 DEF AlertQueued, AlertNotified, HotelAlerts!Levels
    <2> QED
      BY <2>2, <2>3
  <1>3. SumFunctionOnSet(AlertAgain, HotelAlerts!Levels) <= alertsRepeats
    <2>1. SumFunctionOnSet(AlertAgain, {1, 2, 3}) = AlertAgain[1] + AlertAgain[2] + AlertAgain[3]
      <3>1. \A l \in {1, 2, 3} : AlertAgain[l] \in Int
        BY AlertLevels DEF AlertAgain, AlertsInv, AlertShape
      <3>2. IsFiniteSet({}) /\ IsFiniteSet({1}) /\ IsFiniteSet({1, 2})
        BY FS_EmptySet, FS_AddElement, FS_Singleton
      <3>a. 1 \notin {} /\ 2 \notin {1} /\ 3 \notin {1, 2}
        OBVIOUS
      <3>b. /\ \A y \in {} \cup {1} : AlertAgain[y] \in Int
            /\ \A y \in {1} \cup {2} : AlertAgain[y] \in Int
            /\ \A y \in {1, 2} \cup {3} : AlertAgain[y] \in Int
        BY <3>1
      <3>3. SumFunctionOnSet(AlertAgain, {} \cup {1}) =
              SumFunctionOnSet(AlertAgain, {}) + AlertAgain[1]
        BY <3>a, <3>b, <3>2, SumAdded
      <3>4. SumFunctionOnSet(AlertAgain, {1} \cup {2}) =
              SumFunctionOnSet(AlertAgain, {1}) + AlertAgain[2]
        BY <3>a, <3>b, <3>2, SumAdded
      <3>5. SumFunctionOnSet(AlertAgain, {1, 2} \cup {3}) =
              SumFunctionOnSet(AlertAgain, {1, 2}) + AlertAgain[3]
        BY <3>a, <3>b, <3>2, SumAdded
      <3>6. {} \cup {1} = {1} /\ {1} \cup {2} = {1, 2} /\ {1, 2} \cup {3} = {1, 2, 3}
        OBVIOUS
      <3>7. AlertAgain[1] \in Int /\ AlertAgain[2] \in Int /\ AlertAgain[3] \in Int
        BY <3>1
      <3>8. SumFunctionOnSet(AlertAgain, {}) = 0
        BY SumOfNothing
      <3>9. /\ SumFunctionOnSet(AlertAgain, {1}) = 0 + AlertAgain[1]
            /\ SumFunctionOnSet(AlertAgain, {1, 2}) =
                 SumFunctionOnSet(AlertAgain, {1}) + AlertAgain[2]
            /\ SumFunctionOnSet(AlertAgain, {1, 2, 3}) =
                 SumFunctionOnSet(AlertAgain, {1, 2}) + AlertAgain[3]
        BY <3>3, <3>4, <3>5, <3>6, <3>8
      <3> QED
        BY <3>7, <3>9
    <2>2. \A l \in HotelAlerts!Levels : AlertAgain[l] \in Nat /\
            AlertAgain[l] + AlertSettled(l) <= alertsTried[l] /\ alertsTried[l] \in Nat /\
                AlertSettled(l) \in Nat
      <3> SUFFICES ASSUME NEW l \in HotelAlerts!Levels
                   PROVE  AlertAgain[l] \in Nat /\
                       AlertAgain[l] + AlertSettled(l) <= alertsTried[l] /\
                           alertsTried[l] \in Nat /\ AlertSettled(l) \in Nat
        OBVIOUS
      <3>1. alertsTried[l] \in Nat /\ AlertQueued(l)
        BY AlertLevels DEF AlertsInv, AlertShape
      <3>2. alertsTried[l] = 0 => AlertSettled(l) = 0
        BY <3>1 DEF AlertQueued, AlertSettled
      <3>3. AlertSettled(l) = 0 \/ AlertSettled(l) = 1
        BY DEF AlertSettled
      <3>4. AlertAgain[l] = IF alertsTried[l] = 0 THEN 0 ELSE alertsTried[l] - 1
        BY DEF AlertAgain
      <3> QED
        BY <3>1, <3>2, <3>3, <3>4
    <2>3. alertsTried[1] + alertsTried[2] + alertsTried[3] =
            alertsRepeats + AlertSettled(1) + AlertSettled(2) + AlertSettled(3) /\
                alertsRepeats \in Nat
      BY DEF AlertsInv, AlertShape
    <2>4. /\ AlertAgain[1] \in Nat /\ AlertAgain[1] + AlertSettled(1) <= alertsTried[1]
          /\ alertsTried[1] \in Nat /\ AlertSettled(1) \in Nat
          /\ AlertAgain[2] \in Nat /\ AlertAgain[2] + AlertSettled(2) <= alertsTried[2]
          /\ alertsTried[2] \in Nat /\ AlertSettled(2) \in Nat
          /\ AlertAgain[3] \in Nat /\ AlertAgain[3] + AlertSettled(3) <= alertsTried[3]
          /\ alertsTried[3] \in Nat /\ AlertSettled(3) \in Nat
      BY <2>2, AlertLevels
    <2>5. AlertAgain[1] + AlertAgain[2] + AlertAgain[3] <= alertsRepeats
      BY <2>3, <2>4
    <2> QED
      BY <2>1, <2>5, AlertLevels
  <1> QED
    BY <1>1, <1>2, <1>3, AlertSum DEF HotelAlerts!AlertsInOrder, AlertAgain
-----------------------------------------------------------------------------
(* The threads of total payment.                                          *)

ThreadRow == [state : PagoTotal!States, epoch : PagoTotal!Events, sync : BOOLEAN]
ThreadJobStates == {"none", "waiting", "active", "completed", "failed"}
ThreadSeen == UNION {PagoTotal!ToSet(threadsEvent[e]) : e \in DOMAIN threadsEvent}
ThreadRelevant == \E k \in ThreadSeen : k # "unrelated"

ThreadShape ==
    /\ threadsEvent \in Seq(Seq(PagoTotal!Kinds)) /\ Len(threadsEvent) <= MaxEvents
    /\ threadsThread \in ThreadRow \cup {None}
    /\ threadsJob \in [PagoTotal!Events -> ThreadJobStates \X (0 .. ThreadAttempts)]
    /\ threadsWorker \in PagoTotal!AtWork \cup {None}
    /\ threadsSheet \in [Readers -> PagoTotal!ForSheet \cup {"none", "idle"}]
    /\ threadsTold \in Seq(PagoTotal!ForSheet)
    /\ threadsRetried \in BOOLEAN /\ threadsOverlapped \in BOOLEAN

\* The worker is at a message of the thread, and OpenAI is asked of none that is
\* about another matter.
ThreadWorking ==
    threadsWorker # None =>
      /\ threadsWorker.of \in DOMAIN threadsEvent /\ threadsJob[threadsWorker.of][1] = "active"
      /\ threadsWorker.left \in Seq(ThreadSeen)
      /\ threadsWorker.openai => threadsWorker.left # <<>> /\ Head(threadsWorker.left) # "unrelated"

ThreadQueued == \A e \in PagoTotal!Events : threadsJob[e][1] = "waiting" =>
    threadsJob[e][2] < ThreadAttempts

\* The sheet is told, and will be, only of a thread with a message about a total
\* payment.
ThreadDeserved ==
    /\ threadsThread # None /\ threadsThread.state \in PagoTotal!ForSheet => ThreadRelevant
    /\ \A r \in Readers : threadsSheet[r] \in PagoTotal!ForSheet =>
         threadsThread # None /\ ThreadRelevant
    /\ threadsTold # <<>> => ThreadRelevant

\* One request for the sheet at a time: it marks what it has read.
ThreadAlone ==
    ~threadsOverlapped =>
      /\ \A r, o \in Readers : threadsSheet[r] # "idle" /\ threadsSheet[o] # "idle" => r = o
      /\ \A r \in Readers : threadsSheet[r] \in PagoTotal!ForSheet =>
           threadsThread # None /\ ~threadsThread.sync
      /\ Len(threadsTold) = (IF threadsThread # None /\ threadsThread.sync THEN 1 ELSE 0)

\* First in, first out.
ThreadInOrder ==
    ~threadsRetried =>
      /\ \A e \in DOMAIN threadsEvent :
           \/ threadsJob[e] = <<"waiting", 0>> \/ threadsJob[e][1] = "completed"
           \/ threadsJob[e][1] = "active" /\ threadsWorker # None /\ threadsWorker.of = e
      /\ \A d, e \in DOMAIN threadsEvent : d < e /\ threadsJob[e] # <<"waiting", 0>> =>
           threadsJob[d] # <<"waiting", 0>>
      /\ \A e \in DOMAIN threadsEvent : threadsJob[e][1] = "completed" =>
           /\ threadsWorker # None => e < threadsWorker.of
           /\ threadsEvent[e] # <<>> => threadsThread # None /\ threadsThread.epoch >= e

ThreadsInv == ThreadShape /\ ThreadWorking /\ ThreadQueued /\ ThreadDeserved /\ ThreadAlone /\
    ThreadInOrder

-----------------------------------------------------------------------------

LEMMA ThreadConstants ==
    /\ MaxEvents \in Nat /\ MaxMessages \in Nat /\ ThreadAttempts \in Nat /\ 0 < ThreadAttempts
    /\ None \notin ThreadRow /\ None \notin PagoTotal!AtWork
  BY ComponentsAssumption DEF PagoTotal!PagoTotalAssumption, ThreadRow

LEMMA ThreadSeq == ASSUME NEW A, NEW B, A \subseteq B PROVE Seq(A) \subseteq Seq(B)
  OBVIOUS

LEMMA ThreadOwn == ASSUME NEW K, NEW s \in Seq(K) PROVE s \in Seq(PagoTotal!ToSet(s))
  BY DEF PagoTotal!ToSet

\* A thread that is read whole has the messages of its events, and none only if
\* none of them has any.
LEMMA FlattenHas ==
    ASSUME NEW K, NEW seqs \in Seq(Seq(K))
    PROVE  /\ PagoTotal!FlattenSeq(seqs) \in Seq(K)
           /\ PagoTotal!FlattenSeq(seqs) = <<>> => \A i \in DOMAIN seqs : seqs[i] = <<>>
  <1>1. CASE Len(seqs) = 0
    <2>1. seqs = <<>>
      BY <1>1
    <2> QED
      BY <1>1, <2>1 DEF PagoTotal!FlattenSeq
  <1>2. CASE Len(seqs) # 0
    <2> DEFINE n == Len(seqs)
               h == CHOOSE f : Flattens(f, seqs, n)
    <2>1. n \in Nat \ {0}
      BY <1>2
    <2>2. PagoTotal!FlattenSeq(seqs) = h[n]
      BY <1>2 DEF PagoTotal!FlattenSeq, Flattens
    <2> HIDE DEF n, h
    <2>3. Flattens(h, seqs, n) /\ n = Len(seqs)
      BY <2>1, FlattenExists DEF n, h
    <2> QED
      BY <2>1, <2>2, <2>3, FlattenedHas
  <1> QED
    BY <1>1, <1>2

-----------------------------------------------------------------------------

LEMMA ThreadInit == PagoTotal!Init => ThreadsInv
  <1> SUFFICES ASSUME PagoTotal!Init PROVE ThreadsInv
    OBVIOUS
  <1>1. ThreadShape
    <2>1. <<"none", 0>> \in ThreadJobStates \X (0 .. ThreadAttempts)
      BY ThreadConstants DEF ThreadJobStates
    <2>2. threadsJob \in [PagoTotal!Events -> ThreadJobStates \X (0 .. ThreadAttempts)]
      BY <2>1 DEF PagoTotal!Init
    <2>3. threadsEvent \in Seq(Seq(PagoTotal!Kinds)) /\ Len(threadsEvent) <= MaxEvents /\
            threadsTold \in Seq(PagoTotal!ForSheet)
      BY ThreadConstants DEF PagoTotal!Init
    <2>4. threadsRetried \in BOOLEAN /\ threadsOverlapped \in BOOLEAN
      BY DEF PagoTotal!Init
    <2> QED
      BY <2>2, <2>3, <2>4 DEF PagoTotal!Init, ThreadShape
  <1>2. ThreadWorking /\ ThreadQueued /\ ThreadDeserved
    BY DEF PagoTotal!Init, ThreadWorking, ThreadQueued, ThreadDeserved, PagoTotal!ForSheet
  <1>3. ThreadAlone
    BY DEF PagoTotal!Init, ThreadAlone, PagoTotal!ForSheet
  <1>4. ThreadInOrder
    BY DEF PagoTotal!Init, ThreadInOrder
  <1> QED
    BY <1>1, <1>2, <1>3, <1>4 DEF ThreadsInv

LEMMA ThreadPair ==
    ASSUME NEW p \in ThreadJobStates \X (0 .. ThreadAttempts), NEW x \in ThreadJobStates
    PROVE  /\ [p EXCEPT ![1] = x] \in ThreadJobStates \X (0 .. ThreadAttempts)
           /\ [p EXCEPT ![1] = x][1] = x /\ [p EXCEPT ![1] = x][2] = p[2]
  OBVIOUS

LEMMA ThreadFound ==
    ASSUME ThreadShape
    PROVE  /\ ThreadSeen \subseteq PagoTotal!Kinds
           /\ \A e \in DOMAIN threadsEvent : e \in PagoTotal!Events /\
                threadsEvent[e] \in Seq(PagoTotal!Kinds) /\ threadsEvent[e] \in Seq(ThreadSeen)
           /\ threadsEvent \in Seq(Seq(ThreadSeen))
           /\ DOMAIN threadsEvent = 1 .. Len(threadsEvent) /\ Len(threadsEvent) \in Nat
  <1>1. threadsEvent \in Seq(Seq(PagoTotal!Kinds)) /\ Len(threadsEvent) <= MaxEvents
    BY DEF ThreadShape
  <1>2. DOMAIN threadsEvent = 1 .. Len(threadsEvent) /\ Len(threadsEvent) \in Nat
    BY <1>1
  <1>3. ASSUME NEW e \in DOMAIN threadsEvent
        PROVE  e \in PagoTotal!Events /\ threadsEvent[e] \in Seq(PagoTotal!Kinds) /\
            threadsEvent[e] \in Seq(ThreadSeen) /\
                PagoTotal!ToSet(threadsEvent[e]) \subseteq PagoTotal!Kinds
    <2>1. e \in PagoTotal!Events
      BY <1>1, <1>2, ThreadConstants DEF PagoTotal!Events
    <2>2. threadsEvent[e] \in Seq(PagoTotal!Kinds)
      BY <1>1
    <2>3. threadsEvent[e] \in Seq(PagoTotal!ToSet(threadsEvent[e])) /\
            PagoTotal!ToSet(threadsEvent[e]) \subseteq ThreadSeen
      BY <2>2, ThreadOwn DEF ThreadSeen
    <2>4. PagoTotal!ToSet(threadsEvent[e]) \subseteq PagoTotal!Kinds
      BY <2>2 DEF PagoTotal!ToSet
    <2> QED
      BY <2>1, <2>2, <2>3, <2>4, ThreadSeq
  <1>4. ThreadSeen \subseteq PagoTotal!Kinds
    BY <1>3 DEF ThreadSeen
  <1>5. threadsEvent \in Seq(Seq(ThreadSeen))
    <2> DEFINE F == ThreadSeen
    <2>1. \A e \in 1 .. Len(threadsEvent) : threadsEvent[e] \in Seq(F)
      BY <1>2, <1>3
    <2> HIDE DEF F
    <2>2. threadsEvent = [e \in 1 .. Len(threadsEvent) |-> threadsEvent[e]]
      BY <1>1
    <2> QED
      BY <1>2, <2>1, <2>2 DEF F
  <1> QED
    BY <1>2, <1>3, <1>4, <1>5

LEMMA ThreadReceive == ASSUME ThreadsInv, PagoTotal!RecibirEventos PROVE ThreadsInv'
  <1>1. /\ Len(threadsEvent) < MaxEvents
        /\ threadsJob' = [threadsJob EXCEPT ![Len(threadsEvent) + 1] = <<"waiting", 0>>]
        /\ UNCHANGED <<threadsThread, threadsWorker, threadsSheet, threadsTold, threadsRetried,
             threadsOverlapped>>
    BY DEF PagoTotal!RecibirEventos
  <1>2. PICK new \in Seq(PagoTotal!Kinds) : threadsEvent' = Append(threadsEvent, new)
    <2>1. PagoTotal!BoundedSeq(PagoTotal!Kinds, MaxMessages) \subseteq Seq(PagoTotal!Kinds)
      BY ThreadConstants DEF PagoTotal!BoundedSeq, PagoTotal!SeqOf
    <2> QED
      BY <2>1 DEF PagoTotal!RecibirEventos
  <1>3. /\ ThreadSeen \subseteq PagoTotal!Kinds /\ DOMAIN threadsEvent = 1 .. Len(threadsEvent)
        /\ Len(threadsEvent) \in Nat
        /\ \A e \in DOMAIN threadsEvent : e \in PagoTotal!Events
    BY ThreadFound DEF ThreadsInv
  <1>4. /\ threadsEvent' \in Seq(Seq(PagoTotal!Kinds)) /\ Len(threadsEvent') = Len(threadsEvent) + 1
        /\ \A e \in DOMAIN threadsEvent : threadsEvent'[e] = threadsEvent[e]
        /\ DOMAIN threadsEvent' = DOMAIN threadsEvent \cup {Len(threadsEvent) + 1}
    BY <1>2, <1>3 DEF ThreadsInv, ThreadShape
  <1>5. Len(threadsEvent) + 1 \in PagoTotal!Events
    BY <1>1, <1>3, ThreadConstants DEF PagoTotal!Events
  <1>6. threadsJob'[Len(threadsEvent) + 1] = <<"waiting", 0>> /\
          \A e \in PagoTotal!Events \ {Len(threadsEvent) + 1} : threadsJob'[e] = threadsJob[e]
    BY <1>1, <1>5 DEF ThreadsInv, ThreadShape
  <1>7. ThreadSeen \subseteq ThreadSeen'
    BY <1>4 DEF ThreadSeen
  <1>8. ThreadShape'
    <2>1. <<"waiting", 0>> \in ThreadJobStates \X (0 .. ThreadAttempts)
      BY ThreadConstants DEF ThreadJobStates
    <2>2. threadsJob' \in [PagoTotal!Events -> ThreadJobStates \X (0 .. ThreadAttempts)]
      BY <1>1, <2>1 DEF ThreadsInv, ThreadShape
    <2>3. Len(threadsEvent') <= MaxEvents
      BY <1>1, <1>3, <1>4, ThreadConstants
    <2> QED
      BY <1>1, <1>4, <2>2, <2>3 DEF ThreadsInv, ThreadShape
  <1>9. ThreadWorking'
    <2> SUFFICES ASSUME threadsWorker # None PROVE ThreadWorking'
      BY <1>1 DEF ThreadWorking
    <2>1. /\ threadsWorker.of \in DOMAIN threadsEvent
          /\ threadsJob[threadsWorker.of][1] = "active" /\ threadsWorker.left \in Seq(ThreadSeen)
          /\ threadsWorker.openai =>
               threadsWorker.left # <<>> /\ Head(threadsWorker.left) # "unrelated"
      BY DEF ThreadsInv, ThreadWorking
    <2>2. threadsWorker.of # Len(threadsEvent) + 1 /\ threadsWorker.of \in PagoTotal!Events
      BY <1>3, <2>1
    <2>3. threadsWorker.left \in Seq(ThreadSeen')
      BY <1>7, <2>1, ThreadSeq
    <2> QED
      BY <1>1, <1>4, <1>6, <2>1, <2>2, <2>3 DEF ThreadWorking
  <1>10. ThreadQueued'
    BY <1>6, ThreadConstants DEF ThreadsInv, ThreadQueued
  <1>11. ThreadDeserved' /\ ThreadAlone'
    <2>1. ThreadRelevant => ThreadRelevant'
      BY <1>7 DEF ThreadRelevant
    <2> QED
      BY <1>1, <2>1 DEF ThreadsInv, ThreadDeserved, ThreadAlone
  <1>12. ThreadInOrder'
    <2> SUFFICES ASSUME ~threadsRetried PROVE ThreadInOrder'
      BY <1>1 DEF ThreadInOrder
    <2>1. \A e \in DOMAIN threadsEvent : e \in PagoTotal!Events \ {Len(threadsEvent) + 1} /\
            threadsJob'[e] = threadsJob[e] /\ threadsEvent'[e] = threadsEvent[e] /\
                e < Len(threadsEvent) + 1
      <3>1. \A e \in DOMAIN threadsEvent : e < Len(threadsEvent) + 1 /\ e # Len(threadsEvent) + 1
        BY <1>3
      <3> QED
        BY <1>3, <1>4, <1>6, <3>1
    <2>2. threadsJob'[Len(threadsEvent) + 1][1] # "completed"
      BY <1>6
    <2>3. ASSUME NEW e \in DOMAIN threadsEvent'
          PROVE  \/ threadsJob'[e] = <<"waiting", 0>> \/ threadsJob'[e][1] = "completed"
                 \/ threadsJob'[e][1] = "active" /\ threadsWorker' # None /\ threadsWorker'.of = e
      BY <1>1, <1>4, <1>6, <2>1 DEF ThreadsInv, ThreadInOrder
    <2>4. ASSUME NEW d \in DOMAIN threadsEvent', NEW e \in DOMAIN threadsEvent', d < e,
                 threadsJob'[e] # <<"waiting", 0>>
          PROVE  threadsJob'[d] # <<"waiting", 0>>
      <3>1. e \in DOMAIN threadsEvent
        BY <1>4, <1>6, <2>4
      <3>2. d # Len(threadsEvent) + 1
        BY <1>3, <2>4, <3>1
      <3>3. d \in DOMAIN threadsEvent
        BY <1>4, <3>2
      <3> QED
        BY <2>1, <2>4, <3>1, <3>3 DEF ThreadsInv, ThreadInOrder
    <2>5. ASSUME NEW e \in DOMAIN threadsEvent', threadsJob'[e][1] = "completed"
          PROVE  /\ threadsWorker' # None => e < threadsWorker'.of
                 /\ threadsEvent'[e] # <<>> => threadsThread' # None /\ threadsThread'.epoch >= e
      <3>1. e \in DOMAIN threadsEvent
        BY <1>4, <2>2, <2>5
      <3> QED
        BY <1>1, <2>1, <2>5, <3>1 DEF ThreadsInv, ThreadInOrder
    <2> QED
      BY <2>3, <2>4, <2>5 DEF ThreadInOrder
  <1> QED
    BY <1>8, <1>9, <1>10, <1>11, <1>12 DEF ThreadsInv

LEMMA ThreadBegin == ASSUME ThreadsInv, NEW e \in DOMAIN threadsEvent, PagoTotal!Begin(e)
    PROVE ThreadsInv'
  <1>0. PICK messages : messages = IF threadsThread = None
          THEN PagoTotal!FlattenSeq(SubSeq(threadsEvent, 1, e)) ELSE threadsEvent[e]
    OBVIOUS
  <1>1. /\ threadsWorker = None /\ threadsJob[e][1] = "waiting"
        /\ threadsJob[e][2] > 0 \/ \A n \in 1 .. e - 1 : threadsJob[n] # <<"waiting", 0>>
        /\ UNCHANGED <<threadsEvent, threadsThread, threadsSheet, threadsTold, threadsRetried,
             threadsOverlapped>>
    BY DEF PagoTotal!Begin
  <1>2. /\ ThreadSeen \subseteq PagoTotal!Kinds /\ e \in PagoTotal!Events
        /\ threadsEvent[e] \in Seq(ThreadSeen) /\ threadsEvent \in Seq(Seq(ThreadSeen))
        /\ DOMAIN threadsEvent = 1 .. Len(threadsEvent) /\ Len(threadsEvent) \in Nat
        /\ \A d \in DOMAIN threadsEvent : d \in PagoTotal!Events
    BY ThreadFound DEF ThreadsInv
  <1>3. messages \in Seq(ThreadSeen) /\ (messages = <<>> => threadsEvent[e] = <<>>)
    <2>1. CASE threadsThread = None
      <3> DEFINE part == SubSeq(threadsEvent, 1, e)
                 F == ThreadSeen
      <3>1. part \in Seq(Seq(F)) /\ Len(part) = e /\ part[e] = threadsEvent[e] /\ e \in DOMAIN part
        <4> HIDE DEF F
        <4>1. threadsEvent \in Seq(Seq(F)) /\ e \in 1 .. Len(threadsEvent)
          BY <1>2 DEF F
        <4> QED
          BY <4>1
      <3> HIDE DEF part, F
      <3>2. PagoTotal!FlattenSeq(part) \in Seq(F) /\
              (PagoTotal!FlattenSeq(part) = <<>> => part[e] = <<>>)
        BY <3>1, FlattenHas
      <3> QED
        BY <1>0, <2>1, <3>1, <3>2 DEF part, F
    <2>2. CASE threadsThread # None
      BY <1>0, <1>2, <2>2
    <2> QED
      BY <2>1, <2>2
  <1>4. PICK state \in {"completed", "active"} :
          /\ state = "completed" => messages = <<>> /\ threadsWorker' = None
          /\ state = "active" =>
               messages # <<>> /\ threadsWorker' = [of |-> e, left |-> messages, openai |-> FALSE]
          /\ threadsJob' = [threadsJob EXCEPT ![e] = <<state, threadsJob[e][2] + 1>>]
    BY <1>0, <1>2 DEF PagoTotal!Begin, ThreadsInv, ThreadShape
  <1>5. threadsJob[e] \in ThreadJobStates \X (0 .. ThreadAttempts) /\
          threadsJob[e][2] < ThreadAttempts /\ threadsJob[e][2] \in Nat
    BY <1>1, <1>2, ThreadConstants DEF ThreadsInv, ThreadShape, ThreadQueued
  <1>6. <<state, threadsJob[e][2] + 1>> \in ThreadJobStates \X (0 .. ThreadAttempts)
    BY <1>5, ThreadConstants DEF ThreadJobStates
  <1>7. /\ threadsJob'[e] = <<state, threadsJob[e][2] + 1>> /\ threadsJob'[e][1] = state
        /\ \A d \in PagoTotal!Events \ {e} : threadsJob'[d] = threadsJob[d]
    BY <1>2, <1>4 DEF ThreadsInv, ThreadShape
  <1>8. threadsWorker' \in PagoTotal!AtWork \cup {None}
    <2>1. messages \in Seq(PagoTotal!Kinds)
      BY <1>2, <1>3, ThreadSeq
    <2>2. e \in Nat
      BY <1>2
    <2>3. [of |-> e, left |-> messages, openai |-> FALSE] \in PagoTotal!AtWork
      BY <2>1, <2>2 DEF PagoTotal!AtWork
    <2> QED
      BY <1>4, <2>3
  <1>9. ThreadShape'
    BY <1>1, <1>2, <1>4, <1>6, <1>8 DEF ThreadsInv, ThreadShape
  <1>10. ThreadWorking'
    <2>1. CASE state = "completed"
      BY <1>4, <2>1 DEF ThreadWorking
    <2>2. CASE state = "active"
      <3>1. ThreadSeen' = ThreadSeen
        BY <1>1 DEF ThreadSeen
      <3> QED
        BY <1>1, <1>3, <1>4, <1>7, <2>2, <3>1 DEF ThreadWorking
    <2> QED
      BY <2>1, <2>2
  <1>11. ThreadQueued'
    BY <1>1, <1>4, <1>7 DEF ThreadsInv, ThreadQueued
  <1>12. ThreadDeserved' /\ ThreadAlone'
    <2>1. ThreadRelevant' = ThreadRelevant
      BY <1>1 DEF ThreadRelevant, ThreadSeen
    <2> QED
      BY <1>1, <2>1 DEF ThreadsInv, ThreadDeserved, ThreadAlone
  <1>13. ThreadInOrder'
    <2> SUFFICES ASSUME ~threadsRetried PROVE ThreadInOrder'
      BY <1>1 DEF ThreadInOrder
    <2>1. threadsJob[e] = <<"waiting", 0>> /\
            \A d \in DOMAIN threadsEvent : threadsJob[d] = <<"waiting", 0>> \/
                threadsJob[d][1] = "completed"
      BY <1>1 DEF ThreadsInv, ThreadInOrder
    <2>2. \A n \in 1 .. e - 1 : threadsJob[n] # <<"waiting", 0>>
      BY <1>1, <2>1
    <2>3. \A d, f \in DOMAIN threadsEvent : d < f /\ threadsJob[f] # <<"waiting", 0>> =>
            threadsJob[d] # <<"waiting", 0>>
      BY DEF ThreadsInv, ThreadInOrder
    <2>4. threadsWorker' = None \/
            (threadsWorker' # None /\ threadsWorker'.of = e /\ state = "active")
      <3>1. state = "active" => threadsWorker'.of = e
        BY <1>4
      <3> QED
        BY <1>4, <3>1
    <2>5. state = "active" => threadsWorker' # None
      <3>1. messages \in Seq(PagoTotal!Kinds)
        BY <1>2, <1>3, ThreadSeq
      <3>2. [of |-> e, left |-> messages, openai |-> FALSE] \in PagoTotal!AtWork
        BY <1>2, <3>1 DEF PagoTotal!AtWork, PagoTotal!Events
      <3> QED
        BY <1>4, <3>2, ThreadConstants
    <2>6. ASSUME NEW d \in DOMAIN threadsEvent'
          PROVE  \/ threadsJob'[d] = <<"waiting", 0>> \/ threadsJob'[d][1] = "completed"
                 \/ threadsJob'[d][1] = "active" /\ threadsWorker' # None /\ threadsWorker'.of = d
      <3>1. d \in DOMAIN threadsEvent /\ d \in PagoTotal!Events
        BY <1>1, <1>2
      <3>2. CASE d = e
        BY <1>4, <1>7, <2>5, <2>4, <3>2
      <3>3. CASE d # e
        BY <1>7, <2>1, <3>1, <3>3
      <3> QED
        BY <3>2, <3>3
    <2>7. ASSUME NEW d \in DOMAIN threadsEvent', NEW f \in DOMAIN threadsEvent', d < f,
                 threadsJob'[f] # <<"waiting", 0>>
          PROVE  threadsJob'[d] # <<"waiting", 0>>
      <3>1. d \in DOMAIN threadsEvent /\ d \in PagoTotal!Events /\ f \in DOMAIN threadsEvent /\
              f \in PagoTotal!Events
        BY <1>1, <1>2
      <3>2. CASE d = e
        BY <1>4, <1>7, <3>2
      <3>3. CASE d # e /\ f = e
        <4>1. d \in 1 .. e - 1
          BY <1>2, <2>7, <3>1, <3>3
        <4> QED
          BY <1>7, <2>2, <3>1, <3>3, <4>1
      <3>4. CASE d # e /\ f # e
        BY <1>7, <2>3, <2>7, <3>1, <3>4
      <3> QED
        BY <3>2, <3>3, <3>4
    <2>8. ASSUME NEW d \in DOMAIN threadsEvent', threadsJob'[d][1] = "completed"
          PROVE  /\ threadsWorker' # None => d < threadsWorker'.of
                 /\ threadsEvent'[d] # <<>> => threadsThread' # None /\ threadsThread'.epoch >= d
      <3>1. d \in DOMAIN threadsEvent /\ d \in PagoTotal!Events /\ d \in Int /\ e \in Int
        BY <1>1, <1>2
      <3>2. CASE d = e
        <4>1. threadsWorker' = None
          BY <1>4, <1>7, <2>8, <3>2
        <4>2. threadsEvent'[d] = <<>>
          BY <1>1, <1>3, <1>4, <1>7, <2>8, <3>2
        <4> QED
          BY <4>1, <4>2
      <3>3. CASE d # e
        <4>1. threadsJob[d][1] = "completed" /\ threadsJob[d] # <<"waiting", 0>>
          BY <1>7, <2>8, <3>1, <3>3
        <4>2. ~(e < d)
          BY <2>1, <2>3, <3>1, <4>1
        <4>3. d < e
          BY <3>1, <3>3, <4>2
        <4> QED
          BY <1>1, <2>4, <3>1, <4>1, <4>3 DEF ThreadsInv, ThreadInOrder
      <3> QED
        BY <3>2, <3>3
    <2> QED
      BY <2>6, <2>7, <2>8 DEF ThreadInOrder
  <1> QED
    BY <1>9, <1>10, <1>11, <1>12, <1>13 DEF ThreadsInv

\* The row as a verdict leaves it.
ThreadJudged(state, e) == [state |-> state, epoch |-> e, sync |-> threadsThread # None /\
    threadsThread.sync]

\* A step of the worker: it goes on with its event, or ends with it.
LEMMA ThreadWorks ==
    ASSUME ThreadsInv, threadsWorker # None, NEW e, e = threadsWorker.of,
           NEW w \in PagoTotal!AtWork \cup {None}, threadsWorker' = w,
           w # None => w.of = e /\ w.left \in Seq(ThreadSeen),
           w # None /\ w.openai => w.left # <<>> /\ Head(w.left) # "unrelated",
           threadsThread' = threadsThread \/
               \E state \in PagoTotal!States : threadsThread' = ThreadJudged(state, e) /\
                   (state \in PagoTotal!ForSheet => ThreadRelevant),
           NEW outcome \in {"active", "completed", "waiting", "failed"},
           threadsJob' = [threadsJob EXCEPT ![e][1] = outcome],
           w # None <=> outcome = "active",
           outcome = "completed" =>
               threadsThread' # threadsThread \/ (threadsThread # None /\ threadsThread.epoch = e),
           outcome = "waiting" => threadsJob[e][2] < ThreadAttempts,
           outcome \in {"waiting", "failed"} => threadsRetried', threadsRetried =>
               threadsRetried', threadsRetried' \in BOOLEAN,
           UNCHANGED <<threadsEvent, threadsSheet, threadsTold, threadsOverlapped>>
    PROVE  ThreadsInv'
  <1>1. /\ e \in DOMAIN threadsEvent /\ e \in PagoTotal!Events /\ threadsJob[e][1] = "active"
        /\ e \in Int
        /\ DOMAIN threadsEvent = 1 .. Len(threadsEvent) /\ Len(threadsEvent) \in Nat /\
             \A d \in DOMAIN threadsEvent : d \in PagoTotal!Events
    BY ThreadFound DEF ThreadsInv, ThreadWorking, PagoTotal!Events
  <1>2. threadsJob[e] \in ThreadJobStates \X (0 .. ThreadAttempts) /\ outcome \in ThreadJobStates
    BY <1>1 DEF ThreadsInv, ThreadShape, ThreadJobStates
  <1>3. /\ threadsJob'[e] \in ThreadJobStates \X (0 .. ThreadAttempts)
        /\ threadsJob'[e][1] = outcome /\ threadsJob'[e][2] = threadsJob[e][2]
        /\ \A d \in PagoTotal!Events \ {e} : threadsJob'[d] = threadsJob[d]
    <2>1. threadsJob'[e] = [threadsJob[e] EXCEPT ![1] = outcome] /\
            \A d \in PagoTotal!Events \ {e} : threadsJob'[d] = threadsJob[d]
      BY <1>1 DEF ThreadsInv, ThreadShape
    <2> QED
      BY <1>2, <2>1, ThreadPair
  <1>4. ThreadSeen' = ThreadSeen /\ ThreadRelevant' = ThreadRelevant
    BY DEF ThreadSeen, ThreadRelevant
  <1>5. /\ threadsThread' \in ThreadRow \cup {None}
        /\ threadsThread # None => threadsThread' # None /\ threadsThread'.sync = threadsThread.sync
        /\ threadsThread = None /\ threadsThread' # None => ~threadsThread'.sync
        /\ threadsThread' # threadsThread => threadsThread' # None /\ threadsThread'.epoch = e
        /\ threadsThread' # None /\ threadsThread'.state \in PagoTotal!ForSheet => ThreadRelevant
    <2>1. CASE threadsThread' = threadsThread
      BY <2>1 DEF ThreadsInv, ThreadShape, ThreadDeserved
    <2>2. CASE threadsThread' # threadsThread
      <3>1. PICK state \in PagoTotal!States : threadsThread' = ThreadJudged(state, e) /\
              (state \in PagoTotal!ForSheet => ThreadRelevant)
        BY <2>2
      <3>2. (threadsThread # None /\ threadsThread.sync) \in BOOLEAN
        OBVIOUS
      <3>3. ThreadJudged(state, e) \in ThreadRow
        BY <1>1, <3>2 DEF ThreadJudged, ThreadRow
      <3>4. threadsThread' # None
        BY <3>1, <3>3, ThreadConstants
      <3>5. threadsThread'.epoch = e /\ threadsThread'.state = state /\
              threadsThread'.sync = (threadsThread # None /\ threadsThread.sync)
        BY <3>1 DEF ThreadJudged
      <3>6. threadsThread # None => threadsThread.sync \in BOOLEAN
        BY DEF ThreadsInv, ThreadShape, ThreadRow
      <3> QED
        BY <3>1, <3>3, <3>4, <3>5, <3>6
    <2> QED
      BY <2>1, <2>2
  <1>6. ThreadShape'
    <2>1. threadsJob' \in [PagoTotal!Events -> ThreadJobStates \X (0 .. ThreadAttempts)]
      BY <1>3 DEF ThreadsInv, ThreadShape
    <2> QED
      BY <1>5, <2>1 DEF ThreadsInv, ThreadShape
  <1>7. ThreadWorking'
    BY <1>1, <1>3, <1>4 DEF ThreadWorking
  <1>8. ThreadQueued'
    BY <1>3 DEF ThreadsInv, ThreadQueued
  <1>9. ThreadDeserved'
    BY <1>4, <1>5 DEF ThreadsInv, ThreadDeserved
  <1>10. ThreadAlone'
    <2>1. (threadsThread' # None /\ threadsThread'.sync) <=>
            (threadsThread # None /\ threadsThread.sync)
      BY <1>5 DEF ThreadsInv, ThreadShape, ThreadRow
    <2> QED
      BY <1>5, <2>1 DEF ThreadsInv, ThreadAlone
  <1>11. ThreadInOrder'
    <2> SUFFICES ASSUME ~threadsRetried' PROVE ThreadInOrder'
      BY DEF ThreadInOrder
    <2>1. ~threadsRetried /\ outcome \in {"active", "completed"}
      OBVIOUS
    <2>2. \A d \in DOMAIN threadsEvent : d # e =>
            threadsJob[d] = <<"waiting", 0>> \/ threadsJob[d][1] = "completed"
      BY <2>1 DEF ThreadsInv, ThreadInOrder
    <2>3. \A d, f \in DOMAIN threadsEvent : d < f /\ threadsJob[f] # <<"waiting", 0>> =>
            threadsJob[d] # <<"waiting", 0>>
      BY <2>1 DEF ThreadsInv, ThreadInOrder
    <2>4. \A d \in DOMAIN threadsEvent : threadsJob[d][1] = "completed" =>
             d < e /\ (threadsEvent[d] # <<>> => threadsThread # None /\ threadsThread.epoch >= d)
      BY <2>1 DEF ThreadsInv, ThreadInOrder
    <2>5. ASSUME NEW d \in DOMAIN threadsEvent'
          PROVE  \/ threadsJob'[d] = <<"waiting", 0>> \/ threadsJob'[d][1] = "completed"
                 \/ threadsJob'[d][1] = "active" /\ threadsWorker' # None /\ threadsWorker'.of = d
      BY <1>1, <1>3, <2>1, <2>2
    <2>6. threadsJob[e] # <<"waiting", 0>> /\ threadsJob'[e] # <<"waiting", 0>>
      BY <1>1, <1>3, <2>1
    <2>7. ASSUME NEW d \in DOMAIN threadsEvent', NEW f \in DOMAIN threadsEvent', d < f,
                 threadsJob'[f] # <<"waiting", 0>>
          PROVE  threadsJob'[d] # <<"waiting", 0>>
      BY <1>1, <1>3, <2>3, <2>6, <2>7
    <2>8. ASSUME NEW d \in DOMAIN threadsEvent', threadsJob'[d][1] = "completed"
          PROVE  /\ threadsWorker' # None => d < threadsWorker'.of
                 /\ threadsEvent'[d] # <<>> => threadsThread' # None /\ threadsThread'.epoch >= d
      <3>1. CASE d = e
        <4>1. outcome = "completed" /\ threadsWorker' = None
          BY <1>3, <2>8, <3>1
        <4>2. threadsThread' # None /\ threadsThread'.epoch = e
          BY <1>5, <4>1
        <4> QED
          BY <1>1, <3>1, <4>1, <4>2
      <3>2. CASE d # e
        <4>1. d \in DOMAIN threadsEvent /\ threadsJob[d][1] = "completed" /\ d \in Int
          BY <1>1, <1>3, <2>8, <3>2
        <4>2. d < e /\ (threadsEvent[d] # <<>> => threadsThread # None /\ threadsThread.epoch >= d)
          BY <2>4, <4>1
        <4>3. threadsEvent[d] # <<>> => threadsThread' # None /\ threadsThread'.epoch >= d
          BY <1>1, <1>5, <4>1, <4>2
        <4> QED
          BY <4>2, <4>3
      <3> QED
        BY <3>1, <3>2
    <2> QED
      BY <2>5, <2>7, <2>8 DEF ThreadInOrder
  <1> QED
    BY <1>6, <1>7, <1>8, <1>9, <1>10, <1>11 DEF ThreadsInv

LEMMA ThreadAt ==
    ASSUME ThreadsInv, threadsWorker # None
    PROVE  /\ threadsWorker \in PagoTotal!AtWork /\ threadsWorker.of \in DOMAIN threadsEvent
           /\ threadsWorker.of \in PagoTotal!Events
           /\ threadsWorker.of \in Nat /\ threadsWorker.left \in Seq(ThreadSeen)
           /\ threadsWorker.left \in Seq(PagoTotal!Kinds)
           /\ threadsWorker.openai \in BOOLEAN /\ ThreadSeen \subseteq PagoTotal!Kinds
           /\ threadsWorker.openai =>
                threadsWorker.left # <<>> /\ Head(threadsWorker.left) # "unrelated"
           /\ threadsJob[threadsWorker.of] \in ThreadJobStates \X (0 .. ThreadAttempts)
           /\ threadsJob[threadsWorker.of][1] = "active"
           /\ threadsJob' = threadsJob =>
                threadsJob' = [threadsJob EXCEPT ![threadsWorker.of][1] = "active"]
           /\ threadsRetried \in BOOLEAN
  <1>1. threadsWorker \in PagoTotal!AtWork /\ threadsRetried \in BOOLEAN
    BY DEF ThreadsInv, ThreadShape
  <1>2. /\ threadsWorker.of \in DOMAIN threadsEvent
        /\ threadsJob[threadsWorker.of][1] = "active" /\ threadsWorker.left \in Seq(ThreadSeen)
        /\ threadsWorker.openai =>
             threadsWorker.left # <<>> /\ Head(threadsWorker.left) # "unrelated"
    BY DEF ThreadsInv, ThreadWorking
  <1>3. threadsWorker.of \in PagoTotal!Events /\ ThreadSeen \subseteq PagoTotal!Kinds
    BY <1>2, ThreadFound DEF ThreadsInv
  <1>4. threadsJob[threadsWorker.of] \in ThreadJobStates \X (0 .. ThreadAttempts)
    BY <1>3 DEF ThreadsInv, ThreadShape
  <1>5. threadsJob = [threadsJob EXCEPT ![threadsWorker.of][1] = "active"]
    <2>1. [threadsJob[threadsWorker.of] EXCEPT ![1] = "active"] = threadsJob[threadsWorker.of]
      BY <1>2, <1>4
    <2> QED
      BY <1>3, <2>1 DEF ThreadsInv, ThreadShape
  <1> QED
    BY <1>1, <1>2, <1>3, <1>4, <1>5 DEF PagoTotal!AtWork

LEMMA ThreadRegex == ASSUME ThreadsInv, PagoTotal!ClasificarPorRegex PROVE ThreadsInv'
  <1>0. PICK e, k : e = threadsWorker.of /\ k = Head(threadsWorker.left)
    OBVIOUS
  <1>1. /\ threadsWorker # None /\ ~threadsWorker.openai /\ threadsWorker.left # <<>>
        /\ UNCHANGED <<threadsEvent, threadsJob, threadsSheet, threadsTold, threadsRetried,
             threadsOverlapped>>
    BY DEF PagoTotal!ClasificarPorRegex
  <1>2. /\ threadsWorker \in PagoTotal!AtWork /\ e \in Nat
        /\ threadsWorker.left \in Seq(ThreadSeen) /\ threadsWorker.left \in Seq(PagoTotal!Kinds)
        /\ threadsJob' = [threadsJob EXCEPT ![e][1] = "active"] /\ threadsRetried \in BOOLEAN
        /\ ThreadSeen \subseteq PagoTotal!Kinds
    BY <1>0, <1>1, ThreadAt
  <1>3. k \in ThreadSeen /\ k \in PagoTotal!Kinds /\
          Tail(threadsWorker.left) \in Seq(ThreadSeen) /\
              Tail(threadsWorker.left) \in Seq(PagoTotal!Kinds)
    BY <1>0, <1>1, <1>2
  <1> DEFINE asked == [threadsWorker EXCEPT !.openai = TRUE]
             passed == [threadsWorker EXCEPT !.left = Tail(threadsWorker.left)]
  <1>4. /\ asked \in PagoTotal!AtWork /\ asked.of = e /\ asked.left = threadsWorker.left
        /\ asked # None
        /\ passed \in PagoTotal!AtWork /\ passed.of = e
        /\ passed.left = Tail(threadsWorker.left) /\ passed # None
        /\ passed.openai = threadsWorker.openai
    BY <1>0, <1>2, <1>3, ThreadConstants DEF PagoTotal!AtWork
  <1>5. CASE k = "unrelated"
    <2>1. threadsWorker' = passed /\ threadsThread' = threadsThread
      BY <1>0, <1>5 DEF PagoTotal!ClasificarPorRegex
    <2> HIDE DEF passed, asked
    <2> QED
      BY <1>0, <1>1, <1>2, <1>3, <1>4, <2>1, ThreadWorks
  <1>6. CASE k # "unrelated"
    <2>1. ThreadRelevant
      BY <1>3, <1>6 DEF ThreadRelevant
    <2>2. threadsWorker' = asked
      BY <1>0, <1>3, <1>6 DEF PagoTotal!ClasificarPorRegex, PagoTotal!Kinds
    <2>3. threadsThread' = threadsThread \/
            \E state \in PagoTotal!States : threadsThread' = ThreadJudged(state, e) /\
                (state \in PagoTotal!ForSheet => ThreadRelevant)
      <3>1. threadsThread' = threadsThread \/ threadsThread' = ThreadJudged("CONFIRMADO", e) \/
              threadsThread' = ThreadJudged("DESCARTADO", e)
        BY <1>0, <1>3, <1>6 DEF PagoTotal!ClasificarPorRegex, PagoTotal!Kinds, PagoTotal!Upsert,
        ThreadJudged
      <3> QED
        BY <2>1, <3>1 DEF PagoTotal!States
    <2> HIDE DEF passed, asked
    <2> QED
      BY <1>0, <1>1, <1>2, <1>4, <1>6, <2>2, <2>3, ThreadWorks
  <1> QED
    BY <1>5, <1>6

LEMMA ThreadIntencion == ASSUME ThreadsInv, PagoTotal!ClasificarIntencion PROVE ThreadsInv'
  <1>0. PICK e : e = threadsWorker.of
    OBVIOUS
  <1>1. threadsWorker # None /\ threadsWorker.openai /\
          UNCHANGED <<threadsEvent, threadsSheet, threadsTold, threadsRetried, threadsOverlapped>>
    BY DEF PagoTotal!ClasificarIntencion
  <1>2. /\ threadsWorker \in PagoTotal!AtWork /\ e \in Nat
        /\ threadsWorker.left \in Seq(ThreadSeen) /\ threadsWorker.left \in Seq(PagoTotal!Kinds)
        /\ threadsWorker.left # <<>> /\ Head(threadsWorker.left) # "unrelated"
        /\ threadsRetried \in BOOLEAN
        /\ (threadsJob' = threadsJob => threadsJob' = [threadsJob EXCEPT ![e][1] = "active"])
    BY <1>0, <1>1, ThreadAt
  <1>3. Head(threadsWorker.left) \in ThreadSeen /\
          Tail(threadsWorker.left) \in Seq(ThreadSeen) /\
              Tail(threadsWorker.left) \in Seq(PagoTotal!Kinds)
    BY <1>2
  <1>4. CASE /\ threadsWorker' = [threadsWorker EXCEPT !.left = Tail(@), !.openai = FALSE]
             /\ UNCHANGED <<threadsThread, threadsJob>>
    <2> DEFINE passed == [threadsWorker EXCEPT !.left = Tail(threadsWorker.left), !.openai = FALSE]
    <2>1. /\ passed \in PagoTotal!AtWork /\ passed.of = e
          /\ passed.left = Tail(threadsWorker.left) /\ passed # None
          /\ passed.openai = FALSE
      BY <1>0, <1>2, <1>3, ThreadConstants DEF PagoTotal!AtWork
    <2>2. threadsWorker' = passed
      BY <1>4
    <2>3. threadsJob' = [threadsJob EXCEPT ![e][1] = "active"] /\
            threadsThread' = threadsThread /\ passed \in PagoTotal!AtWork \cup {None}
      BY <1>2, <1>4, <2>1
    <2>4. threadsRetried' = threadsRetried /\ threadsRetried' \in BOOLEAN /\
            UNCHANGED <<threadsEvent, threadsSheet, threadsTold, threadsOverlapped>>
      BY <1>1, <1>2
    <2>5. passed.left \in Seq(ThreadSeen) /\ threadsWorker # None
      BY <1>1, <1>3, <2>1
    <2> HIDE DEF passed
    <2> QED
      BY <1>0, <2>1, <2>2, <2>3, <2>4, <2>5, ThreadWorks
  <1>5. CASE /\ \E state \in {"CONFIRMADO", "SOLICITUD", "REVISION"} : PagoTotal!Upsert(state)
             /\ PagoTotal!Ends(threadsWorker.of, "completed")
    <2>1. PICK state \in {"CONFIRMADO", "SOLICITUD", "REVISION"} :
            threadsThread' = ThreadJudged(state, e)
      BY <1>0, <1>5 DEF PagoTotal!Upsert, ThreadJudged
    <2>2. ThreadRelevant
      BY <1>2, <1>3 DEF ThreadRelevant
    <2>3. \E st \in PagoTotal!States : threadsThread' = ThreadJudged(st, e) /\
            (st \in PagoTotal!ForSheet => ThreadRelevant)
      BY <2>1, <2>2 DEF PagoTotal!States
    <2>4. threadsWorker' = None /\ threadsJob' = [threadsJob EXCEPT ![e][1] = "completed"]
      BY <1>0, <1>5 DEF PagoTotal!Ends
    <2>5. threadsThread' # threadsThread \/ (threadsThread # None /\ threadsThread.epoch = e)
      <3>1. threadsThread'.epoch = e
        BY <2>1 DEF ThreadJudged
      <3>2. threadsThread' # None
        <4>1. e \in PagoTotal!Events /\ (threadsThread # None /\ threadsThread.sync) \in BOOLEAN
          BY <1>0, <1>1, ThreadAt
        <4>2. ThreadJudged(state, e) \in ThreadRow
          BY <4>1 DEF ThreadJudged, ThreadRow, PagoTotal!States
        <4> QED
          BY <2>1, <4>2, ThreadConstants
      <3> QED
        BY <3>1, <3>2
    <2> QED
      BY <1>0, <1>1, <1>2, <2>3, <2>4, <2>5, ThreadWorks
  <1> QED
    BY <1>4, <1>5 DEF PagoTotal!ClasificarIntencion

LEMMA ThreadEpoch == ASSUME ThreadsInv, PagoTotal!SoloActualizarEpoch PROVE ThreadsInv'
  <1>0. PICK e : e = threadsWorker.of
    OBVIOUS
  <1>1. /\ threadsWorker # None
        /\ UNCHANGED <<threadsEvent, threadsSheet, threadsTold, threadsRetried, threadsOverlapped>>
        /\ threadsWorker' = None /\ threadsJob' = [threadsJob EXCEPT ![e][1] = "completed"]
    BY <1>0 DEF PagoTotal!SoloActualizarEpoch, PagoTotal!Ends
  <1>2. e \in PagoTotal!Events /\ threadsRetried \in BOOLEAN /\
          (threadsThread # None /\ threadsThread.sync) \in BOOLEAN
    BY <1>0, <1>1, ThreadAt
  <1>3. PICK state \in PagoTotal!States : threadsThread' = ThreadJudged(state, e) /\
          (state \in PagoTotal!ForSheet => ThreadRelevant)
    <2>1. CASE threadsThread = None
      BY <1>0, <2>1 DEF PagoTotal!SoloActualizarEpoch, PagoTotal!Upsert, ThreadJudged,
      PagoTotal!States, PagoTotal!ForSheet
    <2>2. CASE threadsThread # None
      BY <1>0, <2>2 DEF PagoTotal!SoloActualizarEpoch, PagoTotal!Upsert, ThreadJudged,
      ThreadsInv, ThreadShape, ThreadDeserved, ThreadRow
    <2> QED
      BY <2>1, <2>2
  <1>4. ThreadJudged(state, e) \in ThreadRow /\ ThreadJudged(state, e).epoch = e
    BY <1>2 DEF ThreadJudged, ThreadRow
  <1>5. threadsThread' # threadsThread \/ (threadsThread # None /\ threadsThread.epoch = e)
    BY <1>3, <1>4, ThreadConstants
  <1>6. \E st \in PagoTotal!States : threadsThread' = ThreadJudged(st, e) /\
          (st \in PagoTotal!ForSheet => ThreadRelevant)
    BY <1>3
  <1> QED
    BY <1>0, <1>1, <1>2, <1>5, <1>6, ThreadWorks

LEMMA ThreadFails == ASSUME ThreadsInv, PagoTotal!JobFails PROVE ThreadsInv'
  <1>0. PICK e : e = threadsWorker.of
    OBVIOUS
  <1>1. PICK outcome \in {"waiting", "failed"} :
          /\ threadsJob' = [threadsJob EXCEPT ![e][1] = outcome]
          /\ outcome = "waiting" => threadsJob[e][2] < ThreadAttempts
    BY <1>0 DEF PagoTotal!JobFails, PagoTotal!Ends
  <1>2. threadsWorker # None /\ threadsWorker' = None /\ threadsRetried' = TRUE /\
          UNCHANGED <<threadsEvent, threadsThread, threadsSheet, threadsTold, threadsOverlapped>>
    BY DEF PagoTotal!JobFails, PagoTotal!Ends
  <1> QED
    BY <1>0, <1>1, <1>2, ThreadWorks

LEMMA ThreadRead == ASSUME ThreadsInv, NEW r \in Readers, PagoTotal!ReadForSheet(r)
    PROVE ThreadsInv'
  <1>1. /\ threadsSheet[r] = "idle"
        /\ UNCHANGED <<threadsEvent, threadsThread, threadsJob, threadsWorker, threadsTold,
             threadsRetried>>
        /\ threadsSheet' =
             [threadsSheet EXCEPT ![r] = IF PagoTotal!Pending THEN threadsThread.state ELSE "none"]
        /\ threadsOverlapped' = (threadsOverlapped \/ PagoTotal!InCourse(r))
    BY DEF PagoTotal!ReadForSheet
  <1>2. /\ threadsSheet'[r] = "none" \/
             (threadsSheet'[r] \in PagoTotal!ForSheet /\ threadsThread # None /\
                 ~threadsThread.sync /\ threadsThread.state \in PagoTotal!ForSheet)
        /\ \A o \in Readers \ {r} : threadsSheet'[o] = threadsSheet[o]
    BY <1>1 DEF ThreadsInv, ThreadShape, PagoTotal!Pending
  <1>3. threadsOverlapped' \in BOOLEAN
    BY <1>1 DEF ThreadsInv, ThreadShape
  <1>4. ThreadShape'
    BY <1>1, <1>2, <1>3 DEF ThreadsInv, ThreadShape, PagoTotal!Pending
  <1>5. ThreadSeen' = ThreadSeen /\ ThreadRelevant' = ThreadRelevant
    BY <1>1 DEF ThreadSeen, ThreadRelevant
  <1>6. ThreadDeserved'
    <2>1. ASSUME NEW o \in Readers, threadsSheet'[o] \in PagoTotal!ForSheet
            PROVE threadsThread' # None /\ ThreadRelevant'
      <3>1. CASE o = r
        BY <1>1, <1>2, <1>5, <2>1, <3>1 DEF ThreadsInv, ThreadDeserved, PagoTotal!ForSheet
      <3>2. CASE o # r
        BY <1>1, <1>2, <1>5, <2>1, <3>2 DEF ThreadsInv, ThreadDeserved
      <3> QED
        BY <3>1, <3>2
    <2> QED
      BY <1>1, <1>5, <2>1 DEF ThreadsInv, ThreadDeserved
  <1>7. ThreadAlone'
    <2> SUFFICES ASSUME ~threadsOverlapped' PROVE ThreadAlone'
      BY DEF ThreadAlone
    <2>1. ~threadsOverlapped /\ \A o \in Readers \ {r} : threadsSheet[o] = "idle" /\
            threadsSheet'[o] = "idle"
      BY <1>1, <1>2 DEF PagoTotal!InCourse
    <2>2. PagoTotal!ForSheet \cap {"none", "idle"} = {}
      BY DEF PagoTotal!ForSheet
    <2> QED
      BY <1>1, <1>2, <2>1, <2>2 DEF ThreadsInv, ThreadAlone
  <1> QED
    BY <1>1, <1>4, <1>5, <1>6, <1>7 DEF ThreadsInv, ThreadWorking, ThreadQueued, ThreadInOrder

LEMMA ThreadMark == ASSUME ThreadsInv, NEW r \in Readers, PagoTotal!MarkSynced(r) PROVE ThreadsInv'
  <1>1. /\ threadsSheet[r] # "idle" /\ threadsSheet' = [threadsSheet EXCEPT ![r] = "idle"]
        /\ UNCHANGED <<threadsEvent, threadsJob, threadsWorker, threadsRetried, threadsOverlapped>>
    BY DEF PagoTotal!MarkSynced
  <1>2. threadsSheet'[r] = "idle" /\ \A o \in Readers \ {r} : threadsSheet'[o] = threadsSheet[o]
    BY <1>1 DEF ThreadsInv, ThreadShape
  <1>3. ThreadSeen' = ThreadSeen /\ ThreadRelevant' = ThreadRelevant
    BY <1>1 DEF ThreadSeen, ThreadRelevant
  <1>4. "idle" \notin PagoTotal!ForSheet
    BY DEF PagoTotal!ForSheet
  <1>5. CASE threadsSheet[r] = "none"
    <2>1. UNCHANGED <<threadsThread, threadsTold>>
      BY <1>5 DEF PagoTotal!MarkSynced
    <2>2. ThreadShape'
      BY <1>1, <2>1 DEF ThreadsInv, ThreadShape
    <2>3. ThreadDeserved' /\ ThreadAlone'
      BY <1>1, <1>2, <1>3, <1>4, <2>1 DEF ThreadsInv, ThreadDeserved, ThreadAlone
    <2> QED
      BY <1>1, <1>3, <2>1, <2>2, <2>3 DEF ThreadsInv, ThreadWorking, ThreadQueued, ThreadInOrder
  <1>6. CASE threadsSheet[r] # "none"
    <2>1. /\ threadsThread' = [threadsThread EXCEPT !.sync = TRUE]
          /\ threadsTold' = Append(threadsTold, threadsSheet[r])
          /\ threadsSheet[r] \in PagoTotal!ForSheet /\ threadsThread # None
          /\ threadsThread \in ThreadRow /\ ThreadRelevant
      BY <1>1, <1>6 DEF PagoTotal!MarkSynced, ThreadsInv, ThreadShape, ThreadDeserved
    <2>2. threadsThread' \in ThreadRow /\ threadsThread' # None /\ threadsThread'.sync = TRUE /\
            threadsThread'.state = threadsThread.state /\ threadsThread'.epoch = threadsThread.epoch
      BY <2>1, ThreadConstants DEF ThreadRow
    <2>3. threadsTold' \in Seq(PagoTotal!ForSheet) /\ Len(threadsTold') = Len(threadsTold) + 1 /\
            threadsTold \in Seq(PagoTotal!ForSheet)
      BY <2>1 DEF ThreadsInv, ThreadShape
    <2>4. ThreadShape'
      BY <1>1, <2>2, <2>3 DEF ThreadsInv, ThreadShape
    <2>5. ThreadDeserved'
      BY <1>2, <1>3, <1>4, <2>1, <2>2 DEF ThreadsInv, ThreadDeserved
    <2>6. ThreadAlone'
      <3> SUFFICES ASSUME ~threadsOverlapped PROVE ThreadAlone'
        BY <1>1 DEF ThreadAlone
      <3>1. Len(threadsTold) = 0 /\ \A o \in Readers \ {r} : threadsSheet[o] = "idle"
        BY <1>1, <2>1 DEF ThreadsInv, ThreadAlone
      <3> QED
        BY <1>2, <1>4, <2>2, <2>3, <3>1 DEF ThreadAlone
    <2>7. ThreadInOrder'
      BY <1>1, <2>1, <2>2 DEF ThreadsInv, ThreadInOrder
    <2> QED
      BY <1>1, <1>3, <2>4, <2>5, <2>6, <2>7 DEF ThreadsInv, ThreadWorking, ThreadQueued
  <1> QED
    BY <1>5, <1>6

LEMMA ThreadStep == ThreadsInv /\ [PagoTotal!Next]_(PagoTotal!vars) => ThreadsInv'
  <1> SUFFICES ASSUME ThreadsInv, [PagoTotal!Next]_(PagoTotal!vars) PROVE ThreadsInv'
    OBVIOUS
  <1>1. CASE UNCHANGED PagoTotal!vars
    BY <1>1 DEF PagoTotal!vars, ThreadsInv, ThreadShape, ThreadWorking, ThreadQueued,
    ThreadDeserved, ThreadAlone, ThreadInOrder, ThreadSeen, ThreadRelevant
  <1> QED
    BY <1>1, ThreadReceive, ThreadBegin, ThreadRegex, ThreadIntencion, ThreadEpoch, ThreadFails,
       ThreadRead, ThreadMark
       DEF PagoTotal!Next

LEMMA ThreadHolds == ThreadsInv => PagoTotal!TypeOK /\ PagoTotal!ThreadToldOnce
  <1> SUFFICES ASSUME ThreadsInv PROVE PagoTotal!TypeOK /\ PagoTotal!ThreadToldOnce
    OBVIOUS
  <1>1. PagoTotal!TypeOK
    BY DEF ThreadsInv, ThreadShape, ThreadWorking, PagoTotal!TypeOK, ThreadRow, ThreadJobStates
  <1>2. PagoTotal!SheetToldOnce
    <2>1. ~threadsOverlapped =>
            Len(threadsTold) = (IF threadsThread # None /\ threadsThread.sync THEN 1 ELSE 0)
      BY DEF ThreadsInv, ThreadAlone
    <2>2. PagoTotal!ToSet(threadsTold) \subseteq PagoTotal!Verdicts(ThreadSeen)
      <3>1. PagoTotal!ToSet(threadsTold) \subseteq PagoTotal!ForSheet
        BY DEF PagoTotal!ToSet, ThreadsInv, ThreadShape
      <3>2. CASE threadsTold = <<>>
        BY <3>2 DEF PagoTotal!ToSet
      <3>3. CASE threadsTold # <<>>
        <4>1. ~(ThreadSeen \subseteq {"unrelated"})
          BY <3>3 DEF ThreadsInv, ThreadDeserved, ThreadRelevant
        <4> QED
          BY <3>1, <4>1 DEF PagoTotal!Verdicts, PagoTotal!ForSheet, PagoTotal!States
      <3> QED
        BY <3>2, <3>3
    <2> QED
      BY <2>1, <2>2 DEF PagoTotal!SheetToldOnce, ThreadSeen
  <1>3. PagoTotal!EpochAdvances
    BY DEF ThreadsInv, ThreadInOrder, PagoTotal!EpochAdvances
  <1> QED
    BY <1>1, <1>2, <1>3 DEF PagoTotal!ThreadToldOnce
-----------------------------------------------------------------------------
(* The composition.                                                        *)

PortalInv ==
    /\ subject \in Components
    /\ PointsInv /\ FeedInv /\ BirthdaysInv /\ FormsInv /\ OvertimeInv
    /\ PayrollInv /\ CesantiasInv /\ AlertsInv /\ ThreadsInv

LEMMA PortalInit == Init => PortalInv
  BY PointsInit, FeedInit, BirthdayInit, FormInit, OvertimeInit, PayrollInit, CesInit,
     AlertInit, ThreadInit DEF Init, PortalInv

\* The component that moves takes a step of its own; each of the others stays.
LEMMA PeopleMove ==
    ASSUME [Next]_vars
    PROVE  /\ [Points!Next]_(Points!vars)
           /\ [Birthdays!Next]_(Birthdays!vars)
           /\ [Overtime!Next]_(Overtime!vars)
           /\ [Cesantias!Next]_(Cesantias!vars)
           /\ [Payroll!Next]_(Payroll!vars)
  BY DEF Next, vars, pointsVars, birthdaysVars, overtimeVars, cesantiasVars,
     payrollVars, Points!vars, Birthdays!vars, Overtime!vars, Cesantias!vars, Payroll!vars

LEMMA MessagesMove ==
    ASSUME [Next]_vars
    PROVE  /\ [Forms!Next]_(Forms!vars)
           /\ [HotelAlerts!Next]_(HotelAlerts!vars)
           /\ [PagoTotal!Next]_(PagoTotal!vars)
           /\ [Feed!Next]_(Feed!vars)
  BY DEF Next, vars, formsVars, alertsVars, threadsVars, feedVars,
     Forms!vars, HotelAlerts!vars, PagoTotal!vars, Feed!vars

LEMMA PortalStep == PortalInv /\ [Next]_vars => PortalInv'
  <1> SUFFICES ASSUME PortalInv, [Next]_vars PROVE PortalInv'
    OBVIOUS
  <1>1. PointsInv' /\ BirthdaysInv' /\ OvertimeInv' /\ CesantiasInv' /\ PayrollInv'
    BY PeopleMove, PointsStep, BirthdayStep, OvertimeStep, CesStep, PayrollStep DEF PortalInv
  <1>2. FormsInv' /\ AlertsInv' /\ ThreadsInv' /\ FeedInv'
    BY MessagesMove, FormStep, AlertStep, ThreadStep, FeedStep DEF PortalInv
  <1>3. (subject \in Components)'
    BY DEF PortalInv, Next, vars
  <1> QED
    BY <1>1, <1>2, <1>3 DEF PortalInv

LEMMA PortalAlways == Spec => []PortalInv
  BY PortalInit, PortalStep, PTL DEF Spec

(* However decisions about point requests, reads and failures cross, the       *)
(* wallet is the sum of the transactions, each of an approved request, none    *)
(* twice, where no two decisions overlapped (point-request.service.ts).        *)
THEOREM WalletKept == Spec => []WalletIsLedger
  <1>1. PortalInv => WalletIsLedger
    BY PointsHolds DEF PortalInv, WalletIsLedger
  <1> QED
    BY PortalAlways, <1>1, PTL

(* Every component stays in the states of its type, the one that moves and     *)
(* those that do not.                                                          *)
THEOREM TypesKept == Spec => []TypesOK
  <1>1. PortalInv => /\ Points!TypeOK /\ Feed!TypeOK /\ Birthdays!TypeOK /\ Forms!TypeOK
                     /\ Overtime!TypeOK /\ Payroll!TypeOK /\ Cesantias!TypeOK
                     /\ HotelAlerts!TypeOK /\ PagoTotal!TypeOK /\ subject \in Components
    BY PointsHolds, FeedHolds, BirthdayHolds, FormHolds, OvertimeHolds, PayrollHolds, CesHolds,
       AlertHolds, ThreadHolds DEF PortalInv
  <1>2. PortalInv => TypesOK
    BY <1>1 DEF TypesOK
  <1> QED
    BY PortalAlways, <1>2, PTL

(* However the requests on posts, comments and reactions cross the events and  *)
(* the pages of the feed, the last event about a post that one request alone   *)
(* changed says what its rows say, the pages show every post once, and a       *)
(* birthday has one post (feed.service.ts, feed.gateway.ts,                    *)
(* birthdays.service.ts).                                                      *)
THEOREM FeedTold == Spec => []FeedIsTold
  <1>1. PortalInv => FeedIsTold
    BY FeedHolds, BirthdayHolds DEF PortalInv, FeedIsTold
  <1> QED
    BY PortalAlways, <1>1, PTL

(* However many runs of the schedule are cut short or repeated, a birthday has *)
(* one post, on its day, and who is done has one (birthdays.service.ts,        *)
(* birthdays.scheduler.ts).                                                    *)
THEOREM OnePostEach == Spec => []Birthdays!OnePostPerBirthday
  <1>1. PortalInv => Birthdays!OnePostPerBirthday
    BY BirthdayHolds DEF PortalInv
  <1> QED
    BY PortalAlways, <1>1, PTL

(* However updates and deletions of a form cross the submissions, each fits    *)
(* the form as it was when it was inserted, and that form was published        *)
(* (forms.service.ts).                                                         *)
THEOREM SubmissionsStand == Spec => []SubmissionsFit
  <1>1. PortalInv => SubmissionsFit
    BY FormHolds DEF PortalInv, SubmissionsFit
  <1> QED
    BY PortalAlways, <1>1, PTL

(* On each date the overtime of a person keeps to the limit and does not       *)
(* overlap, whatever batches and reviews cross, and N8N is told of nothing     *)
(* that is not approved (overtime.service.ts).                                 *)
THEOREM DaysStand == Spec => []DayHolds
  <1>1. PortalInv => DayHolds
    BY OvertimeHolds DEF PortalInv, DayHolds
  <1> QED
    BY PortalAlways, <1>1, PTL

(* The numbers of the requests for severance pay have no gap or repetition,    *)
(* however many are created at once, and the history and the e-mails follow    *)
(* the state machine (cesantias.service.ts).                                   *)
THEOREM TramiteStands == Spec => []TramiteHolds
  <1>1. PortalInv => TramiteHolds
    BY CesHolds DEF PortalInv, TramiteHolds
  <1> QED
    BY PortalAlways, <1>1, PTL

(* The alerts about a thread go up one level at a time and are sent again only *)
(* after a failure; the sheet is told of a thread once, of its last events,    *)
(* whatever jobs are retried (gmail.service.ts, pago-hotel.processor.ts,       *)
(* pago-total.service.ts).                                                     *)
THEOREM ThreadsHeld == Spec => []ThreadsAreAttended
  <1>1. PortalInv => ThreadsAreAttended
    BY AlertHolds, ThreadHolds DEF PortalInv, ThreadsAreAttended
  <1> QED
    BY PortalAlways, <1>1, PTL

(* The sheets of a payroll workbook agree, the parts of a request in the       *)
(* periods add up to the whole, and the pages of the list show each request    *)
(* once, for any requests, calendar, halves of months and page size            *)
(* (nomina.service.ts, nomina-export.service.ts).                              *)
THEOREM ReportsStand == Spec => []ReportsAddUp
  <1>1. PortalInv => ReportsAddUp
    BY PayrollHolds DEF PortalInv, ReportsAddUp
  <1> QED
    BY PortalAlways, <1>1, PTL
==============================================================================

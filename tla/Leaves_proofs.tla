--------------------------- MODULE Leaves_proofs ---------------------------
(***************************************************************************)
(* Proofs about Leaves, for any calendar, balance and number of handlers.  *)
(*                                                                         *)
(* First the decisions, then the dates, with the locals as records of      *)
(* known fields; then the types, and last the balance, which needs all of  *)
(* them and the sums of Sums_proofs.                                       *)
(***************************************************************************)
EXTENDS Leaves, Sums_proofs, TLAPS

-----------------------------------------------------------------------------
(* The invariants.                                                         *)

Fields == {"pc", "request", "id", "act", "adjustment", "start", "available", "blind"}
TypeToday == today \in Days
Shaped == DOMAIN work = Handlers /\ \A h \in Handlers : DOMAIN work[h] = Fields

\* What a handler creates is a request; what it decides about exists, and an
\* approval of a compensated vacation comes after RRHH accepted it.
LocalOK(h) ==
    /\ Creating(h) => work[h].request \in Request
    /\ work[h].pc \in {"write", "email"} =>
         work[h].id \in Requests /\ requests[work[h].id].status # "none"
    /\ work[h].pc = "write" =>
         /\ work[h].act \in Acts \ {"none"}
         /\ work[h].act = "approve" /\ requests[work[h].id].kind = "compensated"
              => work[h].id \in accepted

BInv ==
    /\ Shaped /\ TypeToday
    /\ requests \in [Requests -> Request]
    /\ told \in [Requests -> Nat]
    /\ \A i \in Requests : requests[i].status = "none" => requests[i] = NoRequest
    /\ CompensatedAccepted
    /\ \A h \in Handlers : LocalOK(h)

\* What a decision required of the row, as far as it does not expire.
StillMay(act, r) ==
    /\ act \in {"accept", "refuse"} => r.kind = "compensated" /\ r.status = "PENDING_HR_VALIDATION"
    /\ act \in {"approve", "reject", "cancel"} => r.status = "PENDING"

\* While no two decisions about one request overlapped.
DInv ==
    "decisions" \notin raced =>
        /\ \A g, h \in Handlers, i \in Requests : Deciding(g, i) /\ Deciding(h, i) => g = h
        /\ \A h \in Handlers : work[h].pc = "write" => StillMay(work[h].act, requests[work[h].id])
        /\ \A h \in Handlers : work[h].pc = "email" =>
             requests[work[h].id].status = "APPROVED" /\ told[work[h].id] = 0
        /\ \A i \in Requests : told[i] # 0 => told[i] = 1 /\ requests[i].status = "APPROVED"

\* An absence on certain days, which a new one has to stay clear of.
Blocks(r) == Active(r) /\ r.kind # "compensated"

\* While, besides, no two requests were created at the same time.
OInv ==
    raced \cap {"creations", "decisions"} = {} =>
        /\ \A g, h \in Handlers : Creating(g) /\ Creating(h) => g = h
        /\ \A i, j \in Requests :
             i # j /\ Blocks(requests[i]) /\ Blocks(requests[j]) => ~Cross(requests[i], requests[j])
        /\ \A h \in Handlers :
             work[h].pc \in {"taken", "pending", "insert"} /\ work[h].request.kind # "compensated" =>
                 \A i \in Requests : Blocks(requests[i]) => ~Cross(requests[i], work[h].request)

-----------------------------------------------------------------------------
(* Lemmas about locals, rows and overlaps.                                 *)

LEMMA IdleShape ==
    DOMAIN Idle = Fields /\ Idle.pc = "idle" /\ Idle.id = 0 /\ Idle.act = "none"
    /\ Idle.request = NoRequest
  BY DEF Idle, Fields

LEMMA NoRequestTyped == NoRequest \in Request /\ NoRequest.status = "none"
  <1>1. 0 \in Days
    BY ConstantsAssumption DEF Days
  <1> QED
    BY <1>1 DEF NoRequest, Request, LeaveStatus, Kinds

LEMMA Continued ==
    ASSUME Shaped, NEW h \in Handlers, NEW w, DOMAIN w = Fields, Continue(h, w)
    PROVE  /\ Shaped' /\ work'[h] = w
           /\ \A g \in Handlers \ {h} : work'[g] = work[g]
  BY DEF Continue, Shaped

LEMMA WentTo ==
    ASSUME Shaped, NEW h \in Handlers, NEW label, GoTo(h, label)
    PROVE  /\ Shaped' /\ work'[h].pc = label /\ work'[h].request = work[h].request
           /\ work'[h].id = work[h].id /\ work'[h].act = work[h].act
           /\ work'[h].adjustment = work[h].adjustment /\ work'[h].start = work[h].start
           /\ work'[h].blind = work[h].blind
           /\ \A g \in Handlers \ {h} : work'[g] = work[g]
  <1> DEFINE w == [work[h] EXCEPT !.pc = label]
  <1>1. DOMAIN work[h] = Fields
    BY DEF Shaped
  <1>2. /\ DOMAIN w = Fields /\ w.pc = label /\ w.request = work[h].request
        /\ w.id = work[h].id /\ w.act = work[h].act
        /\ w.adjustment = work[h].adjustment /\ w.start = work[h].start
        /\ w.blind = work[h].blind
    BY <1>1 DEF Fields
  <1>3. Continue(h, w)
    BY DEF GoTo
  <1> HIDE DEF w
  <1> QED
    BY <1>2, <1>3, Continued

LEMMA Gone ==
    ASSUME Shaped, NEW h \in Handlers, Leave(h)
    PROVE  Shaped' /\ work'[h] = Idle /\ \A g \in Handlers \ {h} : work'[g] = work[g]
  BY IdleShape, Continued DEF Leave

LEMMA Raced ==
    ASSUME NEW kind, NEW condition \in BOOLEAN, Race(kind, condition)
    PROVE  raced \subseteq raced' /\ (kind \notin raced' => ~condition)
  BY DEF Race

\* What a decision makes of a row.
LEMMA DecidedRow ==
    ASSUME NEW act \in Acts \ {"none"}, NEW r \in Request
    PROVE  /\ Decided(act, r) \in Request
           /\ Decided(act, r).kind = r.kind
           /\ Decided(act, r).from = r.from /\ Decided(act, r).to = r.to
           /\ Decided(act, r).status =
                CASE act = "accept" -> "PENDING"
                  [] act = "approve" -> "APPROVED"
                  [] act = "cancel" -> "CANCELLED"
                  [] act \in {"refuse", "reject"} -> "REJECTED"
                  [] OTHER -> r.status
  <1>1. CASE act = "accept"
    BY <1>1 DEF Decided, Request, LeaveStatus
  <1>2. CASE act = "refuse"
    BY <1>2 DEF Decided, Request, LeaveStatus
  <1>3. CASE act = "approve"
    BY <1>3 DEF Decided, Request, LeaveStatus
  <1>4. CASE act = "reject"
    BY <1>4 DEF Decided, Request, LeaveStatus
  <1>5. CASE act = "cancel"
    BY <1>5 DEF Decided, Request, LeaveStatus
  <1>6. CASE act = "giveBack"
    BY <1>6 DEF Decided, Request
  <1>7. CASE act = "revert"
    BY <1>7 DEF Decided, Request
  <1> QED
    BY <1>1, <1>2, <1>3, <1>4, <1>5, <1>6, <1>7 DEF Acts

\* The days of a request are a number of days.
LEMMA CountOfDays == \A from, to \in Int : BusinessDays(from, to) \in Nat
  <1> TAKE from \in Int, to \in Int
  <1>1. IsFiniteSet(from .. to)
    BY FS_Interval
  <1>2. IsFiniteSet((from .. to) \cap WorkDays)
    BY <1>1, FS_Subset
  <1> QED
    BY <1>2, FS_CardinalityType DEF BusinessDays

\* The locals of a creation that begins.
LEMMA AsksFields ==
    ASSUME NEW label, NEW checked, NEW r
    PROVE  /\ DOMAIN Asks(label, checked, r) = Fields
           /\ Asks(label, checked, r).pc = label /\ Asks(label, checked, r).request = r
           /\ Asks(label, checked, r).adjustment \in {0, adjustment}
           /\ Asks(label, checked, r).start \in {Unset, start}
           /\ ~Asks(label, checked, r).blind
  BY DEF Asks, Idle, Fields

LEMMA AbsenceTyped ==
    ASSUME NEW kind \in Kinds, NEW from \in Days, NEW to \in Days, NEW days \in Nat
    PROVE  Absence(kind, from, to, days) \in Request /\ Absence(kind, from, to, days).kind = kind
  BY NoRequestTyped DEF Absence, NoRequest, Request

\* What a request is made of, before it is created.
LEMMA AskedFor ==
    ASSUME TypeToday, NEW h \in Handlers, BeginCreate(h)
    PROVE  \E label \in {"overlap", "taken"}, checked \in BOOLEAN, r \in Request :
              /\ Continue(h, Asks(label, checked, r))
              /\ label = "taken" => r.kind = "compensated"
  <1>1. CASE \E ask \in Asked :
               Continue(h, Asks("overlap", ask[1] = "vacation",
                                Absence(ask[1], ask[2], ask[3], BusinessDays(ask[2], ask[3]))))
    <2>1. PICK ask \in Asked :
               Continue(h, Asks("overlap", ask[1] = "vacation",
                                Absence(ask[1], ask[2], ask[3], BusinessDays(ask[2], ask[3]))))
      BY <1>1
    <2>2. ask[1] \in Kinds /\ ask[2] \in Days /\ ask[3] \in Days
      <3>1. ask \in {"vacation", "other"} \X Days \X Days
        BY ConstantsAssumption DEF Days
      <3> QED
        BY <3>1 DEF Kinds
    <2>3. BusinessDays(ask[2], ask[3]) \in Nat
      <3>1. ask[2] \in Int /\ ask[3] \in Int
        BY <2>2, ConstantsAssumption DEF Days
      <3> QED
        BY <3>1, CountOfDays
    <2>4. Absence(ask[1], ask[2], ask[3], BusinessDays(ask[2], ask[3])) \in Request
      BY <2>2, <2>3, AbsenceTyped
    <2> QED
      BY <2>1, <2>4
  <1>2. CASE \E days \in Compensations :
               Continue(h, Asks("taken", TRUE, Absence("compensated", today, today, days)))
    <2>1. PICK days \in Compensations :
               Continue(h, Asks("taken", TRUE, Absence("compensated", today, today, days)))
      BY <1>2
    <2>2. days \in Nat /\ today \in Days /\ "compensated" \in Kinds
      BY ConstantsAssumption DEF TypeToday, Kinds
    <2> QED
      BY <2>1, <2>2, AbsenceTyped
  <1> QED
    BY <1>1, <1>2 DEF BeginCreate

LEMMA Requested ==
    ASSUME TypeToday, NEW h \in Handlers, BeginCreate(h), Shaped
    PROVE  /\ Shaped' /\ work[h] = Idle /\ work'[h].pc \in {"overlap", "taken"}
           /\ ~work'[h].blind
           /\ work'[h].request \in Request
           /\ work'[h].pc = "taken" => work'[h].request.kind = "compensated"
           /\ \A g \in Handlers \ {h} : work'[g] = work[g]
  <1>1. PICK label \in {"overlap", "taken"}, checked \in BOOLEAN, r \in Request :
              /\ Continue(h, Asks(label, checked, r))
              /\ label = "taken" => r.kind = "compensated"
    BY AskedFor
  <1> DEFINE w == Asks(label, checked, r)
  <1>2. DOMAIN w = Fields /\ w.pc = label /\ w.request = r /\ ~w.blind /\ Continue(h, w)
    BY <1>1, AsksFields
  <1> HIDE DEF w
  <1> QED
    BY <1>1, <1>2, Continued DEF BeginCreate

\* The check of the limit ends the creation, or lets it insert.
LEMMA Limited ==
    ASSUME Shaped, NEW h \in Handlers, NEW projected, NEW locals, DOMAIN locals = Fields,
           locals.request = work[h].request, Decide(h, projected, locals)
    PROVE  /\ Shaped' /\ \A g \in Handlers \ {h} : work'[g] = work[g]
           /\ \/ work'[h] = Idle
              \/ /\ work'[h].pc = "insert" /\ work'[h].request = work[h].request
                 /\ work'[h].blind = locals.blind
                 /\ ~(projected - work[h].request.days < 0 - Debt)
  <1> DEFINE w == [locals EXCEPT !.pc = "insert"]
  <1>1. /\ DOMAIN w = Fields /\ w.pc = "insert" /\ w.request = work[h].request
        /\ w.blind = locals.blind
    BY DEF Fields
  <1>2. Leave(h) \/ (~(projected - work[h].request.days < 0 - Debt) /\ Continue(h, w))
    BY DEF Decide
  <1> HIDE DEF w
  <1> QED
    BY <1>1, <1>2, Gone, Continued

\* Before the contract begins the adjustment alone decides.
LEMMA LimitedBlind ==
    ASSUME Shaped, NEW h \in Handlers, NotBegun(h)
    PROVE  /\ Shaped' /\ \A g \in Handlers \ {h} : work'[g] = work[g]
           /\ \/ work'[h] = Idle
              \/ /\ work'[h].pc = "insert" /\ work'[h].request = work[h].request
                 /\ work'[h].blind = TRUE
                 /\ ~(work[h].adjustment - work[h].request.days < 0 - Debt)
  <1> DEFINE locals == [work[h] EXCEPT !.adjustment = 0, !.start = Unset, !.blind = TRUE]
  <1>1. Decide(h, work[h].adjustment, locals)
    BY DEF NotBegun
  <1>2. DOMAIN locals = Fields /\ locals.request = work[h].request /\ locals.blind = TRUE
    BY DEF Shaped, Fields
  <1> HIDE DEF locals
  <1> QED
    BY <1>1, <1>2, Limited

\* With what is pending the balance is complete.
LEMMA LimitedPending ==
    ASSUME Shaped, NEW h \in Handlers, ReadPending(h)
    PROVE  /\ Shaped' /\ \A g \in Handlers \ {h} : work'[g] = work[g]
           /\ \/ work'[h] = Idle
              \/ /\ work'[h].pc = "insert" /\ work'[h].request = work[h].request
                 /\ work'[h].blind = work[h].blind
                 /\ ~(work[h].available
                        - SumDays({i \in Requests : CountsAsPending(requests[i])})
                        - work[h].request.days < 0 - Debt)
  <1> DEFINE locals == [work[h] EXCEPT !.available = 0]
             projected == work[h].available
                            - SumDays({i \in Requests : CountsAsPending(requests[i])})
  <1>1. Decide(h, projected, locals)
    BY DEF ReadPending
  <1>2. DOMAIN locals = Fields /\ locals.request = work[h].request /\ locals.blind = work[h].blind
    BY DEF Shaped, Fields
  <1> HIDE DEF locals, projected
  <1>3. /\ Shaped' /\ \A g \in Handlers \ {h} : work'[g] = work[g]
        /\ \/ work'[h] = Idle
           \/ /\ work'[h].pc = "insert" /\ work'[h].request = work[h].request
              /\ work'[h].blind = work[h].blind
              /\ ~(projected - work[h].request.days < 0 - Debt)
    BY <1>1, <1>2, Limited
  <1> QED
    BY <1>3 DEF projected

\* The approved days are subtracted from what was accrued since the date read.
LEMMA TakenRead ==
    ASSUME Shaped, NEW h \in Handlers, ReadTaken(h)
    PROVE  /\ Shaped' /\ \A g \in Handlers \ {h} : work'[g] = work[g]
           /\ work'[h].pc = "pending" /\ work'[h].request = work[h].request
           /\ work'[h].blind = work[h].blind
           /\ work'[h].available = Accrued(work[h].start, today) + work[h].adjustment
                - SumDays({i \in Requests : CountsAsTaken(requests[i])})
  <1> DEFINE available == Accrued(work[h].start, today) + work[h].adjustment
                - SumDays({i \in Requests : CountsAsTaken(requests[i])})
             w == [work[h] EXCEPT !.pc = "pending", !.adjustment = 0, !.start = Unset,
                                  !.available = available]
  <1>1. Continue(h, w)
    BY DEF ReadTaken
  <1> HIDE DEF available
  <1>2. /\ DOMAIN w = Fields /\ w.pc = "pending" /\ w.request = work[h].request
        /\ w.blind = work[h].blind /\ w.available = available
    BY DEF Shaped, Fields
  <1> HIDE DEF w
  <1> QED
    BY <1>1, <1>2, Continued DEF available

\* A creation goes from check to check with the request it is about.
LEMMA Creates ==
    ASSUME Shaped, NEW h \in Handlers,
           CheckOverlap(h) \/ NotBegun(h) \/ ReadTaken(h) \/ ReadPending(h)
    PROVE  /\ Shaped' /\ Creating(h)
           /\ \A g \in Handlers \ {h} : work'[g] = work[g]
           /\ \/ work'[h] = Idle
              \/ /\ work'[h].pc \in {"taken", "pending", "insert"}
                 /\ work'[h].request = work[h].request
  <1>1. CASE CheckOverlap(h)
    BY <1>1, Gone, WentTo DEF CheckOverlap, Creating
  <1>2. CASE ReadTaken(h)
    BY <1>2, TakenRead DEF ReadTaken, Creating
  <1>3. CASE ReadPending(h)
    BY <1>3, LimitedPending DEF ReadPending, Creating
  <1>4. CASE NotBegun(h)
    BY <1>4, LimitedBlind DEF NotBegun, Creating
  <1> QED
    BY <1>1, <1>2, <1>3, <1>4

\* The row that a creation inserts.
LEMMA Inserted ==
    ASSUME BInv, NEW h \in Handlers, Insert(h)
    PROVE  \E i \in Requests, r \in Request :
              /\ requests[i].status = "none" /\ requests' = [requests EXCEPT ![i] = r]
              /\ r.kind = work[h].request.kind
              /\ r.from = work[h].request.from /\ r.to = work[h].request.to
              /\ r.status \in {"PENDING", "PENDING_HR_VALIDATION"}
              /\ r.kind = "compensated" => r.status = "PENDING_HR_VALIDATION"
  <1> DEFINE r == [work[h].request EXCEPT !.status = InitialStatus(work[h].request.kind)]
  <1>1. work[h].request \in Request
    BY DEF BInv, LocalOK, Insert, Creating
  <1>2. /\ r \in Request /\ r.kind = work[h].request.kind
        /\ r.from = work[h].request.from /\ r.to = work[h].request.to
        /\ r.status \in {"PENDING", "PENDING_HR_VALIDATION"}
        /\ r.kind = "compensated" => r.status = "PENDING_HR_VALIDATION"
    BY <1>1 DEF Request, InitialStatus, LeaveStatus
  <1>3. PICK i \in Requests : /\ \A other \in Requests : requests[other] = NoRequest <=> other >= i
                              /\ requests' = [requests EXCEPT ![i] = r]
    BY DEF Insert
  <1>4. requests[i].status = "none"
    BY <1>3, NoRequestTyped DEF Requests
  <1> HIDE DEF r
  <1> QED
    BY <1>2, <1>3, <1>4

\* A decision that begins.
LEMMA Decides ==
    ASSUME Shaped, NEW h \in Handlers, NEW i \in Requests, BeginDecision(h, i)
    PROVE  /\ Shaped' /\ work[h] = Idle
           /\ \A g \in Handlers \ {h} : work'[g] = work[g]
           /\ work'[h].pc = "write" /\ work'[h].id = i /\ work'[h].act \in Acts \ {"none"}
           /\ May(work'[h].act, requests[i])
           /\ "decisions" \notin raced' => \A g \in Handlers \ {h} : ~Deciding(g, i)
           /\ raced \subseteq raced'
  <1>1. PICK act \in Acts \ {"none"} :
          /\ May(act, requests[i])
          /\ Continue(h, [Idle EXCEPT !.pc = "write", !.id = i, !.act = act])
    BY DEF BeginDecision
  <1> DEFINE w == [Idle EXCEPT !.pc = "write", !.id = i, !.act = act]
  <1>2. DOMAIN w = Fields /\ w.pc = "write" /\ w.id = i /\ w.act = act
    BY DEF Idle, Fields
  <1>3. Continue(h, w)
    BY <1>1
  <1> HIDE DEF w
  <1>4. /\ raced \subseteq raced'
        /\ "decisions" \notin raced' => \A g \in Handlers \ {h} : ~Deciding(g, i)
    <2>1. Race("decisions", \E other \in Handlers \ {h} : Deciding(other, i))
      BY DEF BeginDecision
    <2> QED
      BY <2>1 DEF Race
  <1> QED
    BY <1>1, <1>2, <1>3, <1>4, Continued DEF BeginDecision

\* A decision that is written.
LEMMA Wrote ==
    ASSUME BInv, NEW h \in Handlers, WriteDecision(h)
    PROVE  /\ Shaped' /\ work[h].id \in Requests /\ work[h].act \in Acts \ {"none"}
           /\ requests' \in [Requests -> Request]
           /\ requests'[work[h].id] = Decided(work[h].act, requests[work[h].id])
           /\ \A i \in Requests \ {work[h].id} : requests'[i] = requests[i]
           /\ \A g \in Handlers \ {h} : work'[g] = work[g]
           /\ \/ work'[h] = Idle /\ ~Tells(work[h].act, requests[work[h].id])
              \/ /\ work'[h].pc = "email" /\ work'[h].id = work[h].id
                 /\ Tells(work[h].act, requests[work[h].id])
           /\ raced \subseteq raced'
  <1>1. /\ work[h].id \in Requests /\ work[h].act \in Acts \ {"none"}
        /\ requests' = [requests EXCEPT ![work[h].id] = Decided(work[h].act, requests[work[h].id])]
    BY DEF WriteDecision, BInv, LocalOK
  <1>2. Decided(work[h].act, requests[work[h].id]) \in Request
    BY <1>1, DecidedRow DEF BInv
  <1>3. raced \subseteq raced'
    BY DEF WriteDecision, Race
  <1>4. IF Tells(work[h].act, requests[work[h].id]) THEN GoTo(h, "email") ELSE Leave(h)
    BY DEF WriteDecision
  <1> QED
    BY <1>1, <1>2, <1>3, <1>4, WentTo, Gone DEF BInv

-----------------------------------------------------------------------------
(* BInv.                                                                   *)

LEMMA BInit == Init => BInv
  <1> SUFFICES ASSUME Init PROVE BInv
    OBVIOUS
  <1>1. Shaped /\ \A h \in Handlers : LocalOK(h)
    BY IdleShape DEF Init, Shaped, LocalOK, Creating
  <1>2. TypeToday
    BY ConstantsAssumption DEF Init, TypeToday, Days
  <1>3. CompensatedAccepted
    BY NoRequestTyped DEF Init, CompensatedAccepted, Active
  <1> QED
    BY <1>1, <1>2, <1>3, NoRequestTyped DEF Init, BInv

\* A step that leaves the rows and the history alone, and whose handler keeps
\* to the creation of a request.
LEMMA CreationKept ==
    ASSUME BInv, NEW h \in Handlers, Shaped',
           UNCHANGED <<today, requests, accepted, told>>,
           \A g \in Handlers \ {h} : work'[g] = work[g],
           \/ work'[h] = Idle
           \/ /\ work'[h].pc \in {"overlap", "taken", "pending", "insert"}
              /\ work'[h].request \in Request
    PROVE  BInv'
  <1>1. LocalOK(h)'
    BY IdleShape DEF LocalOK, Creating
  <1>2. \A g \in Handlers \ {h} : LocalOK(g)'
    BY DEF BInv, LocalOK, Creating
  <1> QED
    BY <1>1, <1>2 DEF BInv, TypeToday, CompensatedAccepted

LEMMA BStep == BInv /\ [Next]_vars => BInv'
  <1> SUFFICES ASSUME BInv, [Next]_vars PROVE BInv'
    OBVIOUS
  <1>s. Shaped /\ TypeToday
    BY DEF BInv
  <1>0. CASE UNCHANGED vars
    BY <1>0 DEF BInv, Shaped, TypeToday, CompensatedAccepted, LocalOK, Creating, vars
  <1>1. ASSUME NEW h \in Handlers, BeginCreate(h) PROVE BInv'
    BY <1>1, <1>s, Requested, CreationKept DEF BeginCreate
  <1>2. ASSUME NEW h \in Handlers,
               CheckOverlap(h) \/ NotBegun(h) \/ ReadTaken(h) \/ ReadPending(h)
        PROVE  BInv'
    <2>1. UNCHANGED <<today, requests, accepted, told>>
      BY <1>2 DEF CheckOverlap, NotBegun, ReadTaken, ReadPending
    <2>2. Creating(h) => work[h].request \in Request
      BY DEF BInv, LocalOK
    <2> QED
      BY <1>2, <1>s, <2>1, <2>2, Creates, CreationKept
  <1>3. ASSUME NEW h \in Handlers, Insert(h) PROVE BInv'
    <2>1. PICK i \in Requests, r \in Request :
              /\ requests[i].status = "none" /\ requests' = [requests EXCEPT ![i] = r]
              /\ r.status \in {"PENDING", "PENDING_HR_VALIDATION"}
              /\ r.kind = "compensated" => r.status = "PENDING_HR_VALIDATION"
      BY <1>3, Inserted
    <2>2. /\ requests' \in [Requests -> Request] /\ requests'[i] = r
          /\ \A j \in Requests \ {i} : requests'[j] = requests[j]
      BY <2>1 DEF BInv
    <2>3. /\ Shaped' /\ work'[h] = Idle
          /\ \A g \in Handlers \ {h} : work'[g] = work[g]
      BY <1>3, <1>s, Gone DEF Insert
    <2>4. \A j \in Requests : requests'[j].status = "none" => requests'[j] = NoRequest
      BY <2>1, <2>2 DEF BInv
    <2>5. CompensatedAccepted'
      BY <1>3, <2>1, <2>2 DEF Insert, BInv, CompensatedAccepted, Active
    <2>6. LocalOK(h)'
      BY <2>3, IdleShape DEF LocalOK, Creating
    <2>7. \A g \in Handlers \ {h} : LocalOK(g)'
      BY <1>3, <2>1, <2>2, <2>3 DEF Insert, BInv, LocalOK, Creating
    <2> QED
      BY <1>3, <2>2, <2>3, <2>4, <2>5, <2>6, <2>7 DEF Insert, BInv, TypeToday
  <1>4. ASSUME NEW h \in Handlers, NEW i \in Requests, BeginDecision(h, i) PROVE BInv'
    <2>1. UNCHANGED <<today, requests, accepted, told>>
      BY <1>4 DEF BeginDecision
    <2>2. /\ Shaped' /\ work'[h].pc = "write" /\ work'[h].id = i /\ work'[h].act \in Acts \ {"none"}
          /\ May(work'[h].act, requests[i])
          /\ \A g \in Handlers \ {h} : work'[g] = work[g]
      BY <1>4, <1>s, Decides
    <2>3. requests[i].status # "none"
      <3> SUFFICES ASSUME requests[i] = NoRequest PROVE FALSE
        BY DEF BInv
      <3> QED
        BY <2>2, NoRequestTyped DEF May, NoRequest
    <2>4. work'[h].act = "approve" /\ requests[i].kind = "compensated" => i \in accepted
      BY <2>2 DEF BInv, CompensatedAccepted, Active, May
    <2>5. LocalOK(h)'
      BY <2>1, <2>2, <2>3, <2>4 DEF LocalOK, Creating
    <2>6. \A g \in Handlers \ {h} : LocalOK(g)'
      BY <2>1, <2>2 DEF BInv, LocalOK, Creating
    <2> QED
      BY <2>1, <2>2, <2>5, <2>6 DEF BInv, TypeToday, CompensatedAccepted
  <1>5. ASSUME NEW h \in Handlers, WriteDecision(h) PROVE BInv'
    <2> DEFINE n == work[h].id
               act == work[h].act
    <2>1. /\ Shaped' /\ n \in Requests /\ act \in Acts \ {"none"}
          /\ requests' \in [Requests -> Request]
          /\ requests'[n] = Decided(act, requests[n])
          /\ \A i \in Requests \ {n} : requests'[i] = requests[i]
          /\ \A g \in Handlers \ {h} : work'[g] = work[g]
          /\ work'[h] = Idle \/ (work'[h].pc = "email" /\ work'[h].id = n)
      <3> HIDE DEF BInv
      <3> QED
        BY <1>5, Wrote
    <2>2. /\ today' = today /\ told' = told
          /\ accepted' = IF act = "accept" THEN accepted \cup {n} ELSE accepted
      BY <1>5 DEF WriteDecision
    <2>3. /\ requests[n].status # "none"
          /\ act = "approve" /\ requests[n].kind = "compensated" => n \in accepted
      BY <1>5 DEF WriteDecision, BInv, LocalOK
    <2>4. /\ requests'[n].kind = requests[n].kind /\ requests'[n].status # "none"
          /\ act = "accept" \/ act = "approve" \/ ~Active(requests'[n])
               \/ requests'[n].status = requests[n].status
      BY <2>1, <2>3, DecidedRow DEF BInv, Active
    <2> HIDE DEF n, act
    <2>5. CompensatedAccepted'
      BY <2>1, <2>2, <2>3, <2>4 DEF BInv, CompensatedAccepted, Active
    <2>6. LocalOK(h)'
      BY <2>1, <2>4, IdleShape DEF LocalOK, Creating
    <2>7. \A i \in Requests : /\ requests'[i].kind = requests[i].kind
                              /\ requests[i].status # "none" => requests'[i].status # "none"
      BY <2>1, <2>4
    <2>8. ASSUME NEW g \in Handlers \ {h} PROVE LocalOK(g)'
      <3>1. LocalOK(g) /\ work'[g] = work[g] /\ accepted \subseteq accepted'
        BY <2>1, <2>2 DEF BInv
      <3>2. ASSUME work[g].pc \in {"write", "email"}
            PROVE  /\ work[g].id \in Requests /\ requests'[work[g].id].status # "none"
                   /\ requests'[work[g].id].kind = requests[work[g].id].kind
        <4>1. work[g].id \in Requests /\ requests[work[g].id].status # "none"
          BY <3>1, <3>2 DEF LocalOK
        <4> QED
          BY <2>7, <4>1
      <3> QED
        BY <3>1, <3>2 DEF LocalOK, Creating
    <2>9. \A i \in Requests : requests'[i].status = "none" => requests'[i] = NoRequest
      BY <2>1, <2>4 DEF BInv
    <2> QED
      BY <2>1, <2>2, <2>5, <2>6, <2>8, <2>9 DEF BInv, TypeToday
  <1>6. ASSUME NEW h \in Handlers, TellAccounting(h) PROVE BInv'
    <2>1. Shaped' /\ work'[h] = Idle /\ \A g \in Handlers \ {h} : work'[g] = work[g]
      BY <1>6, <1>s, Gone DEF TellAccounting
    <2>2. told' \in [Requests -> Nat]
      <3>1. work[h].id \in Requests
        BY <1>6 DEF TellAccounting, BInv, LocalOK
      <3> QED
        BY <1>6, <3>1 DEF TellAccounting, BInv
    <2>3. LocalOK(h)'
      BY <2>1, IdleShape DEF LocalOK, Creating
    <2>4. \A g \in Handlers \ {h} : LocalOK(g)'
      BY <1>6, <2>1 DEF TellAccounting, BInv, LocalOK, Creating
    <2> QED
      BY <1>6, <2>1, <2>2, <2>3, <2>4 DEF TellAccounting, BInv, TypeToday, CompensatedAccepted
  <1>7. ASSUME NEW h \in Handlers, Abandon(h) PROVE BInv'
    BY <1>7, <1>s, Gone, CreationKept DEF Abandon
  <1>8. CASE Adjust \/ ImportStart
    BY <1>8 DEF Adjust, ImportStart, BInv, Shaped, TypeToday, CompensatedAccepted, LocalOK, Creating
  <1>9. CASE NextDay
    <2>1. TypeToday'
      BY <1>9, ConstantsAssumption DEF NextDay, BInv, TypeToday, Days
    <2> QED
      BY <1>9, <2>1 DEF NextDay, BInv, Shaped, CompensatedAccepted, LocalOK, Creating
  <1> QED
    BY <1>0, <1>1, <1>2, <1>3, <1>4, <1>5, <1>6, <1>7, <1>8, <1>9 DEF Next

LEMMA BAlways == Spec => []BInv
  BY BInit, BStep, PTL DEF Spec

(* A compensated vacation that the leader sees, or has approved, was accepted  *)
(* by RRHH, however decisions overlap and wherever executions end (validateByHR *)
(* and leave-leader.guard.ts look before review writes by identifier).         *)
THEOREM CompensatedAreAccepted == Spec => []CompensatedAccepted
  <1>1. BInv => CompensatedAccepted
    BY DEF BInv
  <1> QED
    BY BAlways, <1>1, PTL

-----------------------------------------------------------------------------
(* DInv: decisions about one request, one after the other.                 *)

LEMMA MayStill ==
    ASSUME NEW act, NEW r, May(act, r)
    PROVE  StillMay(act, r)
  BY DEF May, StillMay

\* A step that begins, continues or ends no decision but that of its handler.
LEMMA DecisionsKept ==
    ASSUME DInv, NEW h \in Handlers, UNCHANGED <<requests, told>>, raced \subseteq raced',
           \A g \in Handlers \ {h} : work'[g] = work[g],
           work'[h].pc \notin {"write", "email"}
    PROVE  DInv'
  <1> SUFFICES ASSUME "decisions" \notin raced' PROVE DInv'
    BY DEF DInv
  <1>1. "decisions" \notin raced
    OBVIOUS
  <1>2. \A g \in Handlers : work'[g].pc \in {"write", "email"} => g # h /\ work'[g] = work[g]
    OBVIOUS
  <1> QED
    BY <1>1, <1>2 DEF DInv, Deciding

LEMMA DInit == Init => DInv
  BY IdleShape DEF Init, DInv, Deciding

LEMMA DStep == BInv /\ DInv /\ [Next]_vars => DInv'
  <1> SUFFICES ASSUME BInv, DInv, [Next]_vars PROVE DInv'
    OBVIOUS
  <1>s. Shaped /\ TypeToday
    BY DEF BInv
  <1>0. CASE UNCHANGED vars
    BY <1>0 DEF DInv, Deciding, vars
  <1>1. ASSUME NEW h \in Handlers, BeginCreate(h) PROVE DInv'
    <2>1. raced \subseteq raced'
      BY <1>1 DEF BeginCreate, Race
    <2>2. /\ \A g \in Handlers \ {h} : work'[g] = work[g]
          /\ work'[h].pc \notin {"write", "email"}
      BY <1>1, <1>s, Requested
    <2> QED
      BY <1>1, <2>1, <2>2, DecisionsKept DEF BeginCreate
  <1>2. ASSUME NEW h \in Handlers,
               CheckOverlap(h) \/ NotBegun(h) \/ ReadTaken(h) \/ ReadPending(h)
        PROVE  DInv'
    <2>1. UNCHANGED <<requests, told, raced>>
      BY <1>2 DEF CheckOverlap, NotBegun, ReadTaken, ReadPending
    <2>2. /\ \A g \in Handlers \ {h} : work'[g] = work[g]
          /\ work'[h].pc \notin {"write", "email"}
      BY <1>2, <1>s, Creates, IdleShape
    <2> QED
      BY <2>1, <2>2, DecisionsKept
  <1>3. ASSUME NEW h \in Handlers, Insert(h) PROVE DInv'
    <2> SUFFICES ASSUME "decisions" \notin raced' PROVE DInv'
      BY DEF DInv
    <2>1. PICK i \in Requests, r \in Request :
              requests[i].status = "none" /\ requests' = [requests EXCEPT ![i] = r]
      BY <1>3, Inserted
    <2>2. \A j \in Requests : requests[j].status # "none" => requests'[j] = requests[j]
      BY <2>1 DEF BInv
    <2>3. /\ work'[h].pc = "idle" /\ told' = told /\ "decisions" \notin raced
          /\ \A g \in Handlers \ {h} : work'[g] = work[g]
      BY <1>3, <1>s, Gone, IdleShape DEF Insert
    <2>4. \A g \in Handlers : work'[g].pc \in {"write", "email"} =>
             /\ work'[g] = work[g] /\ work[g].id \in Requests
             /\ requests'[work[g].id] = requests[work[g].id]
      BY <2>2, <2>3 DEF BInv, LocalOK
    <2>5. \A j \in Requests : told'[j] # 0 => told'[j] = 1 /\ requests'[j].status = "APPROVED"
      BY <2>2, <2>3 DEF DInv
    <2> QED
      BY <2>3, <2>4, <2>5 DEF DInv, Deciding
  <1>4. ASSUME NEW h \in Handlers, NEW i \in Requests, BeginDecision(h, i) PROVE DInv'
    <2> SUFFICES ASSUME "decisions" \notin raced' PROVE DInv'
      BY DEF DInv
    <2>1. /\ \A g \in Handlers \ {h} : work'[g] = work[g] /\ ~Deciding(g, i)
          /\ work'[h].pc = "write" /\ work'[h].id = i /\ May(work'[h].act, requests[i])
          /\ "decisions" \notin raced
      BY <1>4, <1>s, Decides
    <2>2. StillMay(work'[h].act, requests[i])
      BY <2>1, MayStill
    <2>3. requests' = requests /\ told' = told
      BY <1>4 DEF BeginDecision
    <2>4. \A f, g \in Handlers, j \in Requests : Deciding(f, j)' /\ Deciding(g, j)' => f = g
      BY <2>1 DEF DInv, Deciding
    <2>5. \A g \in Handlers : (work[g].pc = "write" => StillMay(work[g].act, requests[work[g].id]))'
      BY <2>1, <2>2, <2>3 DEF DInv
    <2>6. \A g \in Handlers : (work[g].pc = "email" =>
             requests[work[g].id].status = "APPROVED" /\ told[work[g].id] = 0)'
      BY <2>1, <2>3 DEF DInv
    <2> QED
      BY <2>1, <2>3, <2>4, <2>5, <2>6 DEF DInv
  <1>5. ASSUME NEW h \in Handlers, WriteDecision(h) PROVE DInv'
    <2> SUFFICES ASSUME "decisions" \notin raced' PROVE DInv'
      BY DEF DInv
    <2> DEFINE n == work[h].id
               act == work[h].act
    <2>1. /\ n \in Requests /\ act \in Acts \ {"none"}
          /\ requests'[n] = Decided(act, requests[n])
          /\ \A i \in Requests \ {n} : requests'[i] = requests[i]
          /\ \A g \in Handlers \ {h} : work'[g] = work[g]
          /\ \/ work'[h] = Idle
             \/ work'[h].pc = "email" /\ work'[h].id = n /\ Tells(act, requests[n])
          /\ "decisions" \notin raced
      <3> HIDE DEF BInv
      <3> QED
        BY <1>5, Wrote
    <2>2. /\ told' = told /\ Deciding(h, n) /\ StillMay(act, requests[n])
          /\ requests[n] \in Request
      BY <1>5, <2>1 DEF WriteDecision, Deciding, DInv, BInv
    <2>3. \A g \in Handlers \ {h} : work[g].pc \in {"write", "email"} =>
             work[g].id \in Requests \ {n}
      <3>1. \A g \in Handlers : work[g].pc \in {"write", "email"} => work[g].id \in Requests
        BY DEF BInv, LocalOK
      <3> QED
        BY <2>1, <2>2, <3>1 DEF DInv, Deciding
    <2>4. requests[n].status = "APPROVED" => requests'[n].status = "APPROVED"
      BY <2>1, <2>2, DecidedRow DEF StillMay
    <2>5. Tells(act, requests[n]) => requests'[n].status = "APPROVED" /\ told[n] = 0
      BY <2>1, <2>2, DecidedRow DEF StillMay, Tells, DInv
    <2> HIDE DEF n, act
    <2>6. \A f, g \in Handlers, j \in Requests : Deciding(f, j)' /\ Deciding(g, j)' => f = g
      <3>1. \A g \in Handlers, j \in Requests : Deciding(g, j)' => Deciding(g, j)
        BY <2>1, <2>2, IdleShape DEF Deciding
      <3> QED
        BY <2>1, <3>1 DEF DInv
    <2>7. \A g \in Handlers : (work[g].pc = "write" => StillMay(work[g].act, requests[work[g].id]))'
      BY <2>1, <2>3, IdleShape DEF DInv
    <2>8. \A g \in Handlers : (work[g].pc = "email" =>
             requests[work[g].id].status = "APPROVED" /\ told[work[g].id] = 0)'
      BY <2>1, <2>2, <2>3, <2>5, IdleShape DEF DInv
    <2>9. \A i \in Requests : told'[i] # 0 => told'[i] = 1 /\ requests'[i].status = "APPROVED"
      BY <2>1, <2>2, <2>4 DEF DInv
    <2> QED
      BY <2>6, <2>7, <2>8, <2>9 DEF DInv
  <1>6. ASSUME NEW h \in Handlers, TellAccounting(h) PROVE DInv'
    <2> SUFFICES ASSUME "decisions" \notin raced' PROVE DInv'
      BY DEF DInv
    <2> DEFINE n == work[h].id
    <2>1. /\ work[h].pc = "email" /\ n \in Requests /\ "decisions" \notin raced
          /\ requests' = requests /\ told' = [told EXCEPT ![n] = told[n] + 1]
      BY <1>6 DEF TellAccounting, BInv, LocalOK
    <2>2. work'[h].pc = "idle" /\ \A g \in Handlers \ {h} : work'[g] = work[g]
      BY <1>6, <1>s, Gone, IdleShape DEF TellAccounting
    <2>3. requests[n].status = "APPROVED" /\ told[n] = 0
      BY <2>1 DEF DInv
    <2>4. told'[n] = 1 /\ \A i \in Requests \ {n} : told'[i] = told[i]
      BY <2>1, <2>3 DEF BInv
    <2>5. \A g \in Handlers \ {h} : work[g].pc \in {"write", "email"} =>
             work[g].id \in Requests \ {n}
      <3>1. \A g \in Handlers : work[g].pc \in {"write", "email"} => work[g].id \in Requests
        BY DEF BInv, LocalOK
      <3> QED
        BY <2>1, <3>1 DEF DInv, Deciding
    <2> HIDE DEF n
    <2>6. \A f, g \in Handlers, j \in Requests : Deciding(f, j)' /\ Deciding(g, j)' => f = g
      BY <2>1, <2>2 DEF DInv, Deciding
    <2>7. \A g \in Handlers : (work[g].pc = "write" => StillMay(work[g].act, requests[work[g].id]))'
      BY <2>1, <2>2 DEF DInv
    <2>8. \A g \in Handlers : (work[g].pc = "email" =>
             requests[work[g].id].status = "APPROVED" /\ told[work[g].id] = 0)'
      BY <2>1, <2>2, <2>4, <2>5 DEF DInv
    <2>9. \A i \in Requests : told'[i] # 0 => told'[i] = 1 /\ requests'[i].status = "APPROVED"
      BY <2>1, <2>3, <2>4 DEF DInv
    <2> QED
      BY <2>6, <2>7, <2>8, <2>9 DEF DInv
  <1>7. ASSUME NEW h \in Handlers, Abandon(h) PROVE DInv'
    <2>1. /\ \A g \in Handlers \ {h} : work'[g] = work[g]
          /\ work'[h].pc \notin {"write", "email"}
      BY <1>7, <1>s, Gone, IdleShape DEF Abandon
    <2> QED
      BY <1>7, <2>1, DecisionsKept DEF Abandon
  <1>8. CASE Adjust \/ ImportStart
    BY <1>8 DEF Adjust, ImportStart, DInv, Deciding
  <1>9. CASE NextDay
    BY <1>9 DEF NextDay, DInv, Deciding
  <1> QED
    BY <1>0, <1>1, <1>2, <1>3, <1>4, <1>5, <1>6, <1>7, <1>8, <1>9 DEF Next

LEMMA DAlways == Spec => []DInv
  <1>1. Init => DInv
    BY DInit
  <1>2. BInv /\ DInv /\ [Next]_vars => DInv'
    BY DStep
  <1> QED
    BY BAlways, <1>1, <1>2, PTL DEF Spec

(* A compensated vacation goes by RRHH before the leader sees it, and unless   *)
(* two decisions about it overlap accounting is told of it once and only if it *)
(* is approved (validateByHR, review and notifyAccountantByEmail).             *)
THEOREM CompensationsTold == Spec => []CompensationsAreTold
  <1>1. BInv /\ DInv => CompensationsAreTold
    BY DEF BInv, DInv, CompensationsAreTold, AccountingToldOnce
  <1> QED
    BY BAlways, DAlways, <1>1, PTL

\* What a step may do to the status of a decided request.
LEMMA FinalStep ==
    ASSUME BInv, DInv, [Next]_vars, "decisions" \notin raced', NEW i \in Requests,
           requests[i].status \in {"APPROVED", "REJECTED", "CANCELLED"}
    PROVE  requests'[i].status = requests[i].status
  <1>1. ASSUME NEW h \in Handlers, Insert(h) PROVE requests'[i].status = requests[i].status
    <2>1. PICK j \in Requests, r \in Request :
              requests[j].status = "none" /\ requests' = [requests EXCEPT ![j] = r]
      BY <1>1, Inserted
    <2> QED
      BY <2>1 DEF BInv
  <1>2. ASSUME NEW h \in Handlers, WriteDecision(h) PROVE requests'[i].status = requests[i].status
    <2> DEFINE n == work[h].id
               act == work[h].act
    <2>1. /\ n \in Requests /\ act \in Acts \ {"none"}
          /\ requests'[n] = Decided(act, requests[n])
          /\ \A k \in Requests \ {n} : requests'[k] = requests[k]
          /\ "decisions" \notin raced
      BY <1>2, Wrote
    <2>2. StillMay(act, requests[n]) /\ requests[n] \in Request
      BY <1>2, <2>1 DEF WriteDecision, DInv, BInv
    <2>3. CASE i = n
      BY <2>1, <2>2, <2>3, DecidedRow DEF StillMay
    <2> QED
      BY <2>1, <2>3
  <1>3. CASE UNCHANGED requests
    BY <1>3
  <1> QED
    BY <1>1, <1>2, <1>3 DEF Next, vars, BeginCreate, CheckOverlap, NotBegun, ReadTaken,
       ReadPending, BeginDecision, TellAccounting, Abandon, Adjust, ImportStart, NextDay

(* Once approved, rejected or cancelled a request stays so, unless two         *)
(* decisions about it overlap (review and cancel write what they validated     *)
(* before).                                                                    *)
THEOREM DecisionsFinal == Spec => DecisionsAreFinal
  <1>1. BInv /\ DInv /\ [Next]_vars =>
          [raced' \cap {"decisions"} = {} =>
             \A i \in Requests :
               requests[i].status \in {"APPROVED", "REJECTED", "CANCELLED"}
                 => requests'[i].status = requests[i].status]_vars
    BY FinalStep
  <1> QED
    BY BAlways, DAlways, <1>1, PTL DEF Spec, DecisionsAreFinal

-----------------------------------------------------------------------------
(* OInv: the dates of the absences.                                        *)

Undisturbed == raced \cap {"creations", "decisions"} = {}
Clear(r) == \A i \in Requests : Blocks(requests[i]) => ~Cross(requests[i], r)
Checked(h) == work[h].pc \in {"taken", "pending", "insert"} /\ work[h].request.kind # "compensated"

\* A step that blocks no day that was free, and whose handler creates nothing
\* it did not create before, nor anything unchecked.
LEMMA DaysKept ==
    ASSUME OInv, NEW h \in Handlers, raced \subseteq raced',
           requests \in [Requests -> Request],
           \A i \in Requests : /\ Blocks(requests'[i]) => Blocks(requests[i])
                               /\ requests'[i].from = requests[i].from
                               /\ requests'[i].to = requests[i].to,
           \A g \in Handlers \ {h} : work'[g] = work[g],
           Undisturbed' => \A g \in Handlers \ {h} : Creating(g) => ~Creating(h)',
           Undisturbed' => (Checked(h)' => Clear(work[h].request)')
    PROVE  OInv'
  <1> SUFFICES ASSUME Undisturbed' PROVE OInv'
    BY DEF OInv, Undisturbed
  <1>1. Undisturbed
    BY DEF Undisturbed
  <1>2. \A f, g \in Handlers : Creating(f)' /\ Creating(g)' => f = g
    BY <1>1 DEF OInv, Undisturbed, Creating
  <1>3. \A i, j \in Requests :
          Cross(requests'[i], requests'[j]) <=> Cross(requests[i], requests[j])
    BY DEF Cross
  <1>4. \A i, j \in Requests :
          i # j /\ Blocks(requests'[i]) /\ Blocks(requests'[j]) => ~Cross(requests'[i], requests'[j])
    BY <1>1, <1>3 DEF OInv, Undisturbed
  <1>5. \A g \in Handlers \ {h} : Checked(g)' => Clear(work[g].request)'
    <2> SUFFICES ASSUME NEW g \in Handlers \ {h}, Checked(g)', NEW i \in Requests, Blocks(requests'[i])
                 PROVE  ~Cross(requests'[i], work'[g].request)
      BY DEF Clear
    <2>1. Checked(g) /\ Blocks(requests[i]) /\ work'[g] = work[g]
      BY DEF Checked
    <2>2. ~Cross(requests[i], work[g].request)
      BY <1>1, <2>1 DEF OInv, Undisturbed, Checked
    <2> QED
      BY <2>1, <2>2 DEF Cross
  <1>6. \A g \in Handlers : Checked(g)' => Clear(work[g].request)'
    BY <1>5
  <1> QED
    BY <1>2, <1>4, <1>6 DEF OInv, Checked, Clear

LEMMA OInit == Init => OInv
  BY IdleShape, NoRequestTyped DEF Init, OInv, Creating, Blocks, Active

LEMMA OStep == BInv /\ DInv /\ OInv /\ [Next]_vars => OInv'
  <1> SUFFICES ASSUME BInv, DInv, OInv, [Next]_vars PROVE OInv'
    OBVIOUS
  <1>s. Shaped /\ TypeToday /\ requests \in [Requests -> Request]
    BY DEF BInv
  <1>i. Idle.pc \notin {"overlap", "taken", "pending", "insert"}
    BY IdleShape
  <1>0. CASE UNCHANGED vars
    BY <1>0 DEF OInv, Creating, Blocks, Active, vars
  <1>1. ASSUME NEW h \in Handlers, BeginCreate(h) PROVE OInv'
    <2>1. /\ requests' = requests /\ raced \subseteq raced'
          /\ "creations" \notin raced' => \A g \in Handlers \ {h} : ~Creating(g)
      <3>1. Race("creations", \E other \in Handlers \ {h} : Creating(other))
        BY <1>1 DEF BeginCreate
      <3> QED
        BY <1>1, <3>1 DEF BeginCreate, Race
    <2>2. /\ \A g \in Handlers \ {h} : work'[g] = work[g]
          /\ work'[h].pc \in {"overlap", "taken"}
          /\ work'[h].pc = "taken" => work'[h].request.kind = "compensated"
      BY <1>1, <1>s, Requested
    <2>3. ~Checked(h)'
      BY <2>2 DEF Checked
    <2>4. Undisturbed' => \A g \in Handlers \ {h} : ~Creating(g)
      BY <2>1 DEF Undisturbed
    <2> QED
      BY <1>s, <2>1, <2>2, <2>3, <2>4, DaysKept
  <1>2. ASSUME NEW h \in Handlers,
               CheckOverlap(h) \/ NotBegun(h) \/ ReadTaken(h) \/ ReadPending(h)
        PROVE  OInv'
    <2>1. requests' = requests /\ raced' = raced
      BY <1>2 DEF CheckOverlap, NotBegun, ReadTaken, ReadPending
    <2>2. /\ Creating(h) /\ \A g \in Handlers \ {h} : work'[g] = work[g]
          /\ \/ work'[h] = Idle
             \/ work'[h].pc \in {"taken", "pending", "insert"} /\ work'[h].request = work[h].request
      BY <1>2, <1>s, Creates
    <2>3. Undisturbed' => \A g \in Handlers \ {h} : ~Creating(g)
      BY <2>1, <2>2 DEF OInv, Undisturbed
    <2>4. Undisturbed' => (Checked(h)' => Clear(work[h].request)')
      <3> SUFFICES ASSUME Undisturbed, Checked(h)' PROVE Clear(work[h].request)'
        BY <2>1 DEF Undisturbed
      <3>1. work'[h].request = work[h].request /\ work[h].request.kind # "compensated"
        BY <2>2, <1>i DEF Checked
      <3>2. CASE CheckOverlap(h)
        <4>1. ~\E i \in Requests : Active(requests[i]) /\ Cross(requests[i], work[h].request)
          BY <1>i, <1>s, <3>2, Gone DEF CheckOverlap, Checked
        <4> QED
          BY <2>1, <3>1, <4>1 DEF Clear, Blocks
      <3>3. CASE NotBegun(h) \/ ReadTaken(h) \/ ReadPending(h)
        <4>1. Checked(h)
          BY <3>1, <3>3 DEF NotBegun, ReadTaken, ReadPending, Checked
        <4> QED
          BY <2>1, <3>1, <4>1 DEF OInv, Undisturbed, Checked, Clear
      <3> QED
        BY <1>2, <3>2, <3>3
    <2> QED
      BY <1>s, <2>1, <2>2, <2>3, <2>4, DaysKept
  <1>3. ASSUME NEW h \in Handlers, Insert(h) PROVE OInv'
    <2> SUFFICES ASSUME Undisturbed PROVE OInv'
      BY <1>3 DEF Insert, OInv, Undisturbed
    <2>1. PICK i \in Requests, r \in Request :
              /\ requests[i].status = "none" /\ requests' = [requests EXCEPT ![i] = r]
              /\ r.kind = work[h].request.kind
              /\ r.from = work[h].request.from /\ r.to = work[h].request.to
              /\ r.kind = "compensated" => r.status = "PENDING_HR_VALIDATION"
      BY <1>3, Inserted
    <2>2. /\ raced' = raced /\ work'[h] = Idle /\ \A g \in Handlers \ {h} : work'[g] = work[g]
      BY <1>3, <1>s, Gone DEF Insert
    <2>3. Creating(h) /\ \A g \in Handlers \ {h} : ~Creating(g)
      BY <1>3 DEF Insert, Creating, OInv, Undisturbed
    <2>4. \A g \in Handlers : ~Creating(g)'
      BY <1>i, <2>2, <2>3 DEF Creating
    <2>5. requests'[i] = r /\ \A j \in Requests \ {i} : requests'[j] = requests[j]
      BY <1>s, <2>1
    <2>6. ASSUME NEW j \in Requests \ {i}, Blocks(requests[j]), Blocks(r)
          PROVE  ~Cross(requests[j], r) /\ ~Cross(r, requests[j])
      <3>1. ~Cross(requests[j], work[h].request)
        BY <1>3, <2>1, <2>6 DEF Insert, OInv, Undisturbed, Blocks
      <3>2. {requests[j].from, requests[j].to, r.from, r.to} \subseteq Int
        BY <1>s, ConstantsAssumption DEF Request, Days
      <3> QED
        BY <2>1, <3>1, <3>2 DEF Cross
    <2>7. \A j, k \in Requests :
            j # k /\ Blocks(requests'[j]) /\ Blocks(requests'[k]) => ~Cross(requests'[j], requests'[k])
      <3> SUFFICES ASSUME NEW j \in Requests, NEW k \in Requests, j # k,
                          Blocks(requests'[j]), Blocks(requests'[k])
                   PROVE  ~Cross(requests'[j], requests'[k])
        OBVIOUS
      <3>1. CASE j = i
        BY <2>5, <2>6, <3>1
      <3>2. CASE k = i
        BY <2>5, <2>6, <3>2
      <3>3. CASE j # i /\ k # i
        BY <2>5, <3>3 DEF OInv, Undisturbed
      <3> QED
        BY <3>1, <3>2, <3>3
    <2> QED
      BY <2>4, <2>7 DEF OInv, Creating
  <1>4. ASSUME NEW h \in Handlers, NEW i \in Requests, BeginDecision(h, i) PROVE OInv'
    <2>1. requests' = requests
      BY <1>4 DEF BeginDecision
    <2>2. /\ \A g \in Handlers \ {h} : work'[g] = work[g]
          /\ work'[h].pc = "write" /\ raced \subseteq raced'
      BY <1>4, <1>s, Decides
    <2>3. ~Checked(h)' /\ ~Creating(h)'
      BY <2>2 DEF Checked, Creating
    <2> QED
      BY <1>s, <2>1, <2>2, <2>3, DaysKept
  <1>5. ASSUME NEW h \in Handlers, WriteDecision(h) PROVE OInv'
    <2> DEFINE n == work[h].id
               act == work[h].act
    <2>1. /\ n \in Requests /\ act \in Acts \ {"none"}
          /\ requests'[n] = Decided(act, requests[n])
          /\ \A i \in Requests \ {n} : requests'[i] = requests[i]
          /\ \A g \in Handlers \ {h} : work'[g] = work[g]
          /\ work'[h] = Idle \/ work'[h].pc = "email"
          /\ raced \subseteq raced'
      <3> HIDE DEF BInv, DInv, OInv
      <3> QED
        BY <1>5, Wrote
    <2> SUFFICES ASSUME Undisturbed' PROVE OInv'
      BY DEF OInv, Undisturbed
    <2>2. StillMay(act, requests[n]) /\ requests[n] \in Request
      BY <1>5, <2>1 DEF WriteDecision, DInv, BInv, Undisturbed
    <2>3. /\ Blocks(requests'[n]) => Blocks(requests[n])
          /\ requests'[n].from = requests[n].from /\ requests'[n].to = requests[n].to
      BY <2>1, <2>2, DecidedRow DEF StillMay, Blocks, Active
    <2>4. ~Checked(h)' /\ ~Creating(h)'
      BY <1>i, <2>1 DEF Checked, Creating
    <2> HIDE DEF n, act
    <2>5. \A i \in Requests : /\ Blocks(requests'[i]) => Blocks(requests[i])
                              /\ requests'[i].from = requests[i].from
                              /\ requests'[i].to = requests[i].to
      BY <2>1, <2>3
    <2> QED
      BY <1>s, <2>1, <2>4, <2>5, DaysKept
  <1>6. ASSUME NEW h \in Handlers, TellAccounting(h) \/ Abandon(h) PROVE OInv'
    <2>1. /\ requests' = requests /\ raced' = raced /\ work'[h] = Idle
          /\ \A g \in Handlers \ {h} : work'[g] = work[g]
      BY <1>6, <1>s, Gone DEF TellAccounting, Abandon
    <2>2. ~Checked(h)' /\ ~Creating(h)'
      BY <1>i, <2>1 DEF Checked, Creating
    <2> QED
      BY <1>s, <2>1, <2>2, DaysKept
  <1>7. CASE Adjust \/ ImportStart \/ NextDay
    <2>1. UNCHANGED <<requests, work, raced>>
      BY <1>7 DEF Adjust, ImportStart, NextDay
    <2> QED
      BY <2>1 DEF OInv, Creating, Blocks, Active
  <1> QED
    BY <1>0, <1>1, <1>2, <1>3, <1>4, <1>5, <1>6, <1>7 DEF Next

(* Unless two requests are created, or one is decided, at the same time, no    *)
(* two open or approved absences of an employee share a day, also when         *)
(* vacations are given back and taken again (create looks for overlaps and     *)
(* then inserts; markNotTaken leaves the status).                              *)
THEOREM AbsencesApart == Spec => []NoOverlap
  <1>1. BInv /\ OInv => NoOverlap
    <2> SUFFICES ASSUME BInv, OInv, Undisturbed, NEW i \in Requests, NEW j \in Requests, i # j,
                        Active(requests[i]), Active(requests[j]),
                        "compensated" \notin {requests[i].kind, requests[j].kind}
                 PROVE  ~(requests[i].from <= requests[j].to /\ requests[j].from <= requests[i].to)
      BY DEF NoOverlap, Undisturbed
    <2>1. ~Cross(requests[i], requests[j])
      BY DEF OInv, Undisturbed, Blocks
    <2>2. {requests[i].to, requests[j].from} \subseteq Int
      BY ConstantsAssumption DEF BInv, Request, Days
    <2> QED
      BY <2>1, <2>2 DEF Cross
  <1>2. Init => OInv
    BY OInit
  <1>3. BInv /\ DInv /\ OInv /\ [Next]_vars => OInv'
    BY OStep
  <1> QED
    BY BAlways, DAlways, <1>1, <1>2, <1>3, PTL DEF Spec

-----------------------------------------------------------------------------
(* The types.                                                              *)

\* What BInv does not say of the types.
TInv ==
    /\ {adjustment, best} \subseteq Adjustments
    /\ {start, first} \subseteq Starts \cup {Unset}
    /\ work \in [Handlers -> Work]
    /\ accepted \subseteq Requests /\ reverted \subseteq Requests /\ blind \subseteq Requests
    /\ raced \subseteq Overlaps

LEMMA IdleTyped == Idle \in Work /\ 0 \in 0 .. MaxRequests /\ Unset \in Int
  <1>1. 0 \in 0 .. MaxRequests
    BY ConstantsAssumption
  <1>2. Unset \in Int
    BY ConstantsAssumption DEF Unset
  <1> QED
    BY <1>1, <1>2, NoRequestTyped DEF Idle, Work, Acts

LEMMA WorkTyped ==
    ASSUME work \in [Handlers -> Work], NEW h \in Handlers, NEW w \in Work, Continue(h, w)
    PROVE  work' \in [Handlers -> Work]
  BY DEF Continue

LEMMA WentTyped ==
    ASSUME work \in [Handlers -> Work], NEW h \in Handlers,
           NEW label \in {"taken", "insert", "email"}, GoTo(h, label)
    PROVE  work' \in [Handlers -> Work]
  <1> DEFINE w == [work[h] EXCEPT !.pc = label]
  <1>1. w \in Work
    BY DEF Work
  <1> HIDE DEF w
  <1> QED
    BY <1>1, WorkTyped DEF GoTo, w

LEMMA BegunTyped ==
    ASSUME NEW i \in Requests, NEW act \in Acts
    PROVE  [Idle EXCEPT !.pc = "write", !.id = i, !.act = act] \in Work
  <1>1. i \in 0 .. MaxRequests /\ Idle \in Work
    BY IdleTyped, ConstantsAssumption DEF Requests
  <1> QED
    BY <1>1 DEF Work

LEMMA EditedTyped ==
    ASSUME NEW w \in Work, NEW none \in Int, NEW date \in Int, NEW days \in Int
    PROVE  /\ [w EXCEPT !.pc = "pending", !.adjustment = none, !.start = date,
                        !.available = days] \in Work
           /\ [w EXCEPT !.adjustment = none, !.start = date, !.blind = TRUE] \in Work
           /\ [w EXCEPT !.available = none] \in Work
  <1>1. [w EXCEPT !.pc = "pending", !.adjustment = none, !.start = date,
                  !.available = days] \in Work
    BY DEF Work
  <1>2. [w EXCEPT !.adjustment = none, !.start = date, !.blind = TRUE] \in Work
    BY DEF Work
  <1>3. [w EXCEPT !.available = none] \in Work
    BY DEF Work
  <1> QED
    BY <1>1, <1>2, <1>3

LEMMA AsksTyped ==
    ASSUME NEW label \in {"overlap", "taken"}, NEW checked \in BOOLEAN, NEW r \in Request,
           adjustment \in Int, start \in Int
    PROVE  Asks(label, checked, r) \in Work
  <1>1. Idle \in Work /\ Unset \in Int
    BY IdleTyped, ConstantsAssumption DEF Unset
  <1>2. (IF checked THEN adjustment ELSE 0) \in Int /\ (IF checked THEN start ELSE Unset) \in Int
    BY <1>1
  <1> QED
    BY <1>1, <1>2 DEF Asks, Work

LEMMA LimitedTyped ==
    ASSUME work \in [Handlers -> Work], NEW h \in Handlers, NEW projected, NEW locals \in Work,
           Decide(h, projected, locals)
    PROVE  work' \in [Handlers -> Work]
  <1> DEFINE w == [locals EXCEPT !.pc = "insert"]
  <1>1. w \in Work
    BY DEF Work
  <1>2. Leave(h) \/ Continue(h, w)
    BY DEF Decide
  <1> HIDE DEF w
  <1> QED
    BY <1>1, <1>2, IdleTyped, WorkTyped DEF Leave

LEMMA GoneTyped ==
    ASSUME work \in [Handlers -> Work], NEW h \in Handlers, Leave(h)
    PROVE  work' \in [Handlers -> Work]
  BY IdleTyped, WorkTyped DEF Leave

\* A row has a number of days.
LEMMA DaysOfRows ==
    ASSUME requests \in [Requests -> Request], NEW chosen, chosen \subseteq Requests
    PROVE  /\ IsFiniteSet(chosen)
           /\ \A i \in chosen : [j \in Requests |-> requests[j].days][i] = requests[i].days
                                /\ requests[i].days \in Nat
           /\ SumDays(chosen) \in Nat
  <1>1. IsFiniteSet(chosen)
    <2>1. IsFiniteSet(Requests)
      BY ConstantsAssumption, FS_Interval DEF Requests
    <2> QED
      BY <2>1, FS_Subset
  <1>2. \A i \in chosen : [j \in Requests |-> requests[j].days][i] = requests[i].days
                          /\ requests[i].days \in Nat
    BY DEF Request
  <1> QED
    BY <1>1, <1>2, SumIsNatural DEF SumDays

LEMMA EarnedNumber == \A worked \in Nat : Earned(worked) \in Nat
  <1> SUFFICES ASSUME NEW worked \in Nat PROVE Earned(worked) \in Nat
    OBVIOUS
  <1> DEFINE a == worked * DaysPerYear
  <1>1. a \in Nat /\ YearLength \in Nat \ {0}
    BY ConstantsAssumption
  <1>2. Earned(worked) = ((a * 100) \div YearLength + 50) \div 100
    BY DEF Earned
  <1> HIDE DEF a
  <1> DEFINE b == (a * 100) \div YearLength
  <1>3. b \in Nat
    BY <1>1
  <1> HIDE DEF b
  <1>4. (b + 50) \div 100 \in Nat
    BY <1>3
  <1> QED
    BY <1>2, <1>4 DEF b

LEMMA AccruedNumber ==
    ASSUME NEW from \in Int, NEW day \in Int
    PROVE  Accrued(from, day) \in Nat /\ Accrued(from, day) \in Int
  <1>1. CASE from > day
    BY <1>1 DEF Accrued
  <1>2. CASE ~(from > day)
    <2>1. day - from \in Nat
      BY <1>2
    <2> QED
      BY <1>2, <2>1, EarnedNumber DEF Accrued
  <1> QED
    BY <1>1, <1>2

\* The dates on which the contract may begin are numbers of days.
LEMMA StartNumber == Unset \in Int /\ \A date \in Starts \cup {Unset} : date \in Int /\ date <= Unset
  BY ConstantsAssumption DEF Unset

LEMMA TodayNumber == TypeToday => today \in Nat
  BY ConstantsAssumption DEF TypeToday, Days

LEMMA DateNumbers ==
    ASSUME BInv, TInv
    PROVE  /\ {today, start, first} \subseteq Int /\ first <= Unset
           /\ \A h \in Handlers : work[h].start \in Int
  <1>1. today \in Int
    BY TodayNumber DEF BInv
  <1>2. start \in Int /\ first \in Int /\ first <= Unset
    BY StartNumber DEF TInv
  <1>3. \A h \in Handlers : work[h].start \in Int
    BY DEF TInv, Work
  <1> QED
    BY <1>1, <1>2, <1>3

LEMMA TInit == Init => TInv
  BY IdleTyped, ConstantsAssumption DEF Init, TInv

LEMMA TStep == BInv /\ TInv /\ [Next]_vars => TInv'
  <1> SUFFICES ASSUME BInv, TInv, [Next]_vars PROVE TInv'
    OBVIOUS
  <1>s. /\ work \in [Handlers -> Work] /\ Adjustments \subseteq Int
        /\ adjustment \in Int /\ start \in Int /\ TypeToday
    BY StartNumber, ConstantsAssumption DEF TInv, BInv
  <1>0. CASE UNCHANGED vars
    BY <1>0 DEF TInv, vars
  <1>1. ASSUME NEW h \in Handlers, BeginCreate(h) PROVE TInv'
    <2>1. PICK label \in {"overlap", "taken"}, checked \in BOOLEAN, r \in Request :
             Continue(h, Asks(label, checked, r))
      BY <1>1, <1>s, AskedFor
    <2>2. Asks(label, checked, r) \in Work
      BY <1>s, AsksTyped
    <2>3. work' \in [Handlers -> Work]
      BY <1>s, <2>1, <2>2, WorkTyped
    <2> QED
      BY <1>1, <2>3 DEF BeginCreate, TInv, Race, employee
  <1>2. ASSUME NEW h \in Handlers, CheckOverlap(h) PROVE TInv'
    <2>1. work' \in [Handlers -> Work]
      BY <1>2, <1>s, GoneTyped, WentTyped DEF CheckOverlap
    <2> QED
      BY <1>2, <2>1 DEF CheckOverlap, TInv, employee
  <1>3. ASSUME NEW h \in Handlers, ReadTaken(h) PROVE TInv'
    <2> DEFINE available == Accrued(work[h].start, today) + work[h].adjustment
                              - SumDays({i \in Requests : CountsAsTaken(requests[i])})
               w == [work[h] EXCEPT !.pc = "pending", !.adjustment = 0, !.start = Unset,
                                    !.available = available]
    <2>1. available \in Int
      <3>1. Accrued(work[h].start, today) \in Nat /\ work[h].adjustment \in Int
        BY <1>s, DateNumbers, AccruedNumber DEF Work
      <3>2. SumDays({i \in Requests : CountsAsTaken(requests[i])}) \in Nat
        BY DaysOfRows DEF BInv
      <3> QED
        BY <3>1, <3>2
    <2>2. Continue(h, w)
      BY <1>3 DEF ReadTaken
    <2> HIDE DEF available
    <2>3. w \in Work
      <3>1. work[h] \in Work /\ Unset \in Int /\ 0 \in Int
        BY <1>s, IdleTyped
      <3> QED
        BY <2>1, <3>1, EditedTyped
    <2> HIDE DEF w
    <2>4. work' \in [Handlers -> Work]
      BY <1>s, <2>2, <2>3, WorkTyped
    <2> QED
      BY <1>3, <2>4 DEF ReadTaken, TInv, employee
  <1>4. ASSUME NEW h \in Handlers, NotBegun(h) \/ ReadPending(h) PROVE TInv'
    <2>1. [work[h] EXCEPT !.adjustment = 0, !.start = Unset, !.blind = TRUE] \in Work
      <3>1. work[h] \in Work /\ Unset \in Int /\ 0 \in Int
        BY <1>s, IdleTyped
      <3> QED
        BY <3>1, EditedTyped
    <2>2. [work[h] EXCEPT !.available = 0] \in Work
      <3>1. work[h] \in Work /\ Unset \in Int /\ 0 \in Int
        BY <1>s, IdleTyped
      <3> QED
        BY <3>1, EditedTyped
    <2>3. work' \in [Handlers -> Work]
      <3>1. CASE NotBegun(h)
        BY <1>s, <2>1, <3>1, LimitedTyped DEF NotBegun
      <3>2. CASE ReadPending(h)
        BY <1>s, <2>2, <3>2, LimitedTyped DEF ReadPending
      <3> QED
        BY <1>4, <3>1, <3>2
    <2> QED
      BY <1>4, <2>3 DEF NotBegun, ReadPending, TInv, employee
  <1>5. ASSUME NEW h \in Handlers, Insert(h) \/ Abandon(h) PROVE TInv'
    <2>1. work' \in [Handlers -> Work]
      BY <1>5, <1>s, GoneTyped DEF Insert, Abandon
    <2> QED
      BY <1>5, <2>1 DEF Insert, Abandon, TInv, employee
  <1>6. ASSUME NEW h \in Handlers, NEW i \in Requests, BeginDecision(h, i) PROVE TInv'
    <2>1. PICK act \in Acts \ {"none"} :
            Continue(h, [Idle EXCEPT !.pc = "write", !.id = i, !.act = act])
      BY <1>6 DEF BeginDecision
    <2> DEFINE w == [Idle EXCEPT !.pc = "write", !.id = i, !.act = act]
    <2>2. w \in Work
      BY BegunTyped
    <2>3. Continue(h, w)
      BY <2>1
    <2> HIDE DEF w
    <2>4. work' \in [Handlers -> Work]
      BY <1>s, <2>2, <2>3, WorkTyped
    <2> QED
      BY <1>6, <2>4 DEF BeginDecision, TInv, Race, employee
  <1>7. ASSUME NEW h \in Handlers, WriteDecision(h) PROVE TInv'
    <2>1. work' \in [Handlers -> Work]
      BY <1>7, <1>s, GoneTyped, WentTyped DEF WriteDecision
    <2>2. work[h].id \in Requests
      BY <1>7 DEF WriteDecision, BInv, LocalOK
    <2> QED
      BY <1>7, <2>1, <2>2 DEF WriteDecision, TInv, Race, employee
  <1>8. ASSUME NEW h \in Handlers, TellAccounting(h) PROVE TInv'
    <2>1. work' \in [Handlers -> Work]
      BY <1>8, <1>s, GoneTyped DEF TellAccounting
    <2> QED
      BY <1>8, <2>1 DEF TellAccounting, TInv, employee
  <1>9. CASE Adjust \/ ImportStart \/ NextDay
    BY <1>9 DEF Adjust, ImportStart, NextDay, TInv, employee
  <1> QED
    BY <1>0, <1>1, <1>2, <1>3, <1>4, <1>5, <1>6, <1>7, <1>8, <1>9 DEF Next

LEMMA TAlways == Spec => []TInv
  BY BAlways, TInit, TStep, PTL DEF Spec

(* Every variable keeps its type: a handler's locals are a request with as     *)
(* many days as it counts, the adjustment and the date it read, and a balance  *)
(* that is an integer, whatever requests are summed to compute it.             *)
THEOREM TypesKept == Spec => []TypeOK
  <1>1. BInv /\ TInv => TypeOK
    BY DEF BInv, TInv, TypeOK, TypeToday
  <1> QED
    BY BAlways, TAlways, <1>1, PTL

-----------------------------------------------------------------------------
(* The balance.                                                            *)

\* The vacations WithinLimit is about, those of them that are approved, and
\* what they have to fit in.
OwedRow(r) == r.kind = "vacation" /\ r.status \in {"PENDING", "APPROVED"} /\ ~r.notTaken
Owed == {i \in Requests : OwedRow(requests[i]) /\ i \notin reverted \cup blind}
Granted == {i \in Owed : requests[i].status = "APPROVED"}
Credit == Accrued(first, today) + best

\* No adjustment that counts is higher than the highest so far, and no startDate
\* is earlier than the earliest.
BestInv ==
    /\ 0 <= best /\ adjustment <= best /\ first <= start
    /\ \A h \in Handlers : work[h].pc \in {"overlap", "taken"} =>
         work[h].adjustment <= best /\ first <= work[h].start

\* While nothing overlaps what a creation has read stays good: the approved
\* days until the pending ones are read, and then the room for its request.
RoomFor(h) ==
    /\ work[h].pc = "pending" => work[h].available + SumDays(Granted) <= Credit
    /\ work[h].pc = "insert" /\ work[h].request.kind = "vacation" /\ ~work[h].blind =>
         SumDays(Owed) + work[h].request.days <= Credit + Debt
RoomInv ==
    raced = {} => SumDays(Owed) <= Credit + Debt /\ \A h \in Handlers : RoomFor(h)

\* More days worked never earn less.
LEMMA EarnedGrows == \A m, n \in Nat : m <= n => Earned(m) <= Earned(n)
  <1> SUFFICES ASSUME NEW m \in Nat, NEW n \in Nat, m <= n PROVE Earned(m) <= Earned(n)
    OBVIOUS
  <1> DEFINE a == m * DaysPerYear
             b == n * DaysPerYear
  <1>1. DaysPerYear \in Nat /\ YearLength \in Nat \ {0}
    BY ConstantsAssumption
  <1>2. a \in Int /\ b \in Int /\ a <= b
    BY <1>1, ProductMonotone
  <1> HIDE DEF a, b
  <1> DEFINE c == (a * 100) \div YearLength
             d == (b * 100) \div YearLength
  <1>3. c \in Int /\ d \in Int /\ c <= d
    <2>1. a * 100 \in Int /\ b * 100 \in Int /\ a * 100 <= b * 100
      BY <1>2
    <2> QED
      BY <1>1, <2>1, QuotientMonotone
  <1>4. Earned(m) = (c + 50) \div 100 /\ Earned(n) = (d + 50) \div 100
    BY DEF Earned, a, b
  <1> HIDE DEF c, d
  <1> QED
    BY <1>3, <1>4

\* Neither one more day nor an earlier date takes from what is accrued.
LEMMA AccruedGrows ==
    ASSUME NEW late \in Int, NEW early \in Int, early <= late,
           NEW day \in Int, NEW later \in Int, day <= later
    PROVE  Accrued(late, day) <= Accrued(early, later)
  <1>1. CASE late > day
    BY <1>1, AccruedNumber DEF Accrued
  <1>2. CASE ~(late > day)
    <2>1. ~(early > later) /\ day - late \in Nat /\ later - early \in Nat
          /\ day - late <= later - early
      BY <1>2
    <2>2. Earned(day - late) <= Earned(later - early)
      BY <2>1, EarnedGrows
    <2> QED
      BY <1>2, <2>1, <2>2 DEF Accrued
  <1> QED
    BY <1>1, <1>2

\* The best adjustment and the earliest date.
LEMMA BestInit == Init => BestInv
  BY IdleShape, StartNumber DEF Init, BestInv

LEMMA BestStep == BInv /\ TInv /\ BestInv /\ [Next]_vars => BestInv'
  <1> SUFFICES ASSUME BInv, TInv, BestInv, [Next]_vars PROVE BestInv'
    OBVIOUS
  <1>s. /\ Shaped /\ TypeToday /\ work \in [Handlers -> Work]
        /\ adjustment \in Int /\ best \in Int /\ start \in Int /\ first \in Int /\ first <= Unset
    BY StartNumber, ConstantsAssumption DEF BInv, TInv
  <1>0. CASE UNCHANGED vars
    BY <1>0 DEF BestInv, vars
  <1>1. ASSUME NEW h \in Handlers, UNCHANGED employee,
               \A g \in Handlers \ {h} : work'[g] = work[g],
               work'[h].pc \notin {"overlap", "taken"}
        PROVE  BestInv'
    BY <1>1 DEF BestInv, employee
  <1>2. ASSUME NEW h \in Handlers, BeginCreate(h) PROVE BestInv'
    <2>1. PICK label \in {"overlap", "taken"}, checked \in BOOLEAN, r \in Request :
             Continue(h, Asks(label, checked, r))
      BY <1>2, <1>s, AskedFor
    <2> DEFINE w == Asks(label, checked, r)
    <2>2. /\ DOMAIN w = Fields /\ w.adjustment \in {0, adjustment} /\ w.start \in {Unset, start}
          /\ Continue(h, w)
      BY <2>1, AsksFields
    <2> HIDE DEF w
    <2>3. work'[h] = w /\ \A g \in Handlers \ {h} : work'[g] = work[g]
      BY <1>s, <2>2, Continued
    <2>4. w.adjustment <= best /\ first <= w.start
      BY <1>s, <2>2 DEF BestInv
    <2> QED
      BY <1>2, <2>3, <2>4 DEF BeginCreate, BestInv, employee
  <1>3. ASSUME NEW h \in Handlers, CheckOverlap(h) PROVE BestInv'
    <2>1. CASE Leave(h)
      BY <1>1, <1>3, <1>s, <2>1, Gone, IdleShape DEF CheckOverlap
    <2>2. CASE ~Leave(h)
      <3>1. PICK label : GoTo(h, label)
        BY <1>3, <2>2 DEF CheckOverlap
      <3>4. /\ work'[h].adjustment = work[h].adjustment /\ work'[h].start = work[h].start
            /\ \A g \in Handlers \ {h} : work'[g] = work[g]
        BY <1>s, <3>1, WentTo
      <3>5. work[h].adjustment <= best /\ first <= work[h].start
        BY <1>3 DEF CheckOverlap, BestInv
      <3> QED
        BY <1>3, <3>4, <3>5 DEF CheckOverlap, BestInv, employee
    <2> QED
      BY <2>1, <2>2
  <1>4. ASSUME NEW h \in Handlers, NotBegun(h) \/ ReadTaken(h) \/ ReadPending(h) PROVE BestInv'
    <2>1. work'[h].pc \notin {"overlap", "taken"} /\ \A g \in Handlers \ {h} : work'[g] = work[g]
      BY <1>4, <1>s, LimitedBlind, TakenRead, LimitedPending, IdleShape
    <2> QED
      BY <1>1, <1>4, <2>1 DEF NotBegun, ReadTaken, ReadPending
  <1>5. ASSUME NEW h \in Handlers, Insert(h) \/ Abandon(h) \/ TellAccounting(h) PROVE BestInv'
    BY <1>1, <1>5, <1>s, Gone, IdleShape DEF Insert, Abandon, TellAccounting
  <1>6. ASSUME NEW h \in Handlers, NEW i \in Requests, BeginDecision(h, i) PROVE BestInv'
    BY <1>1, <1>6, <1>s, Decides DEF BeginDecision
  <1>7. ASSUME NEW h \in Handlers, WriteDecision(h) PROVE BestInv'
    BY <1>1, <1>7, <1>s, Gone, WentTo, IdleShape DEF WriteDecision
  <1>8. CASE Adjust
    <2>1. /\ adjustment' \in Int /\ best' \in Int
          /\ best' = IF adjustment' > best THEN adjustment' ELSE best
      BY <1>8, <1>s, ConstantsAssumption DEF Adjust
    <2>2. best <= best' /\ adjustment' <= best'
      BY <1>s, <2>1
    <2>3. \A h \in Handlers : work[h].adjustment \in Int
      BY <1>s DEF Work
    <2> QED
      BY <1>8, <1>s, <2>1, <2>2, <2>3 DEF Adjust, BestInv
  <1>9. CASE ImportStart
    <2>1. start' \in Int /\ first' = IF start' < first THEN start' ELSE first
      BY <1>9, StartNumber DEF ImportStart
    <2>2. first' <= first /\ first' <= start' /\ first' \in Int
      BY <1>s, <2>1
    <2>3. \A h \in Handlers : work[h].start \in Int
      BY <1>s DEF Work
    <2> QED
      BY <1>9, <1>s, <2>1, <2>2, <2>3 DEF ImportStart, BestInv
  <1>10. CASE NextDay
    BY <1>10 DEF NextDay, BestInv, employee
  <1> QED
    BY <1>0, <1>2, <1>3, <1>4, <1>5, <1>6, <1>7, <1>8, <1>9, <1>10 DEF Next

LEMMA BestAlways == Spec => []BestInv
  BY BAlways, TAlways, BestInit, BestStep, PTL DEF Spec

LEMMA RowsFinite == IsFiniteSet(Requests)
  BY ConstantsAssumption, FS_Interval DEF Requests

\* The days of some rows.
Total(rows, chosen) == SumFunctionOnSet([i \in Requests |-> rows[i].days], chosen)

LEMMA TotalIsNatural ==
    ASSUME NEW rows \in [Requests -> Request], NEW chosen, chosen \subseteq Requests
    PROVE  Total(rows, chosen) \in Nat
  <1>1. IsFiniteSet(chosen)
    BY RowsFinite, FS_Subset
  <1>2. \A i \in chosen : [j \in Requests |-> rows[j].days][i] \in Nat
    BY DEF Request
  <1> QED
    BY <1>1, <1>2, SumIsNatural DEF Total

LEMMA TotalAtMost ==
    ASSUME NEW rows \in [Requests -> Request], NEW later \in [Requests -> Request],
           NEW chosen, chosen \subseteq Requests, NEW fewer, fewer \subseteq chosen,
           \A i \in fewer : later[i].days = rows[i].days
    PROVE  Total(later, fewer) <= Total(rows, chosen)
  <1> DEFINE f == [j \in Requests |-> later[j].days]
             g == [j \in Requests |-> rows[j].days]
  <1>1. IsFiniteSet(chosen)
    BY RowsFinite, FS_Subset
  <1>2. \A i \in Requests : f[i] \in Nat /\ g[i] \in Nat
    BY DEF Request
  <1>3. \A i \in fewer : f[i] = g[i]
    OBVIOUS
  <1> HIDE DEF f, g
  <1>4. SumFunctionOnSet(f, fewer) <= SumFunctionOnSet(g, chosen)
    BY <1>1, <1>2, <1>3, SumAtMost
  <1> QED
    BY <1>4 DEF Total, f, g

\* A row more.
LEMMA TotalWith ==
    ASSUME NEW rows \in [Requests -> Request], NEW chosen, chosen \subseteq Requests,
           NEW i \in Requests, i \notin chosen
    PROVE  Total(rows, chosen \cup {i}) = Total(rows, chosen) + rows[i].days
  <1> DEFINE f == [j \in Requests |-> rows[j].days]
  <1>1. IsFiniteSet(chosen)
    BY RowsFinite, FS_Subset
  <1>2. (\A j \in Requests : f[j] \in Int) /\ f[i] = rows[i].days
    BY DEF Request
  <1> HIDE DEF f
  <1>3. SumFunctionOnSet(f, chosen \cup {i}) = SumFunctionOnSet(f, chosen) + f[i]
    BY <1>1, <1>2, SumAdded
  <1> QED
    BY <1>2, <1>3 DEF Total, f

\* The rows of two kinds, counted apart.
LEMMA TotalApart ==
    ASSUME NEW rows \in [Requests -> Request], NEW some, some \subseteq Requests,
           NEW others, others \subseteq Requests, some \cap others = {}
    PROVE  Total(rows, some \cup others) = Total(rows, some) + Total(rows, others)
  <1> DEFINE f == [j \in Requests |-> rows[j].days]
  <1>1. IsFiniteSet(some) /\ IsFiniteSet(others)
    BY RowsFinite, FS_Subset
  <1>2. \A j \in Requests : f[j] \in Int
    BY DEF Request
  <1> HIDE DEF f
  <1>3. SumFunctionOnSet(f, some \cup others)
          = SumFunctionOnSet(f, some) + SumFunctionOnSet(f, others)
    BY <1>1, <1>2, SumOfTwo
  <1> QED
    BY <1>3 DEF Total, f

\* The numbers the balance is about, and what they are made of.
LEMMA Numbers ==
    ASSUME BInv, TInv
    PROVE  /\ SumDays(Owed) = Total(requests, Owed) /\ Total(requests, Owed) \in Nat
           /\ SumDays(Granted) = Total(requests, Granted) /\ Total(requests, Granted) \in Nat
           /\ Credit \in Int /\ Debt \in Nat
           /\ \A h \in Handlers : work[h].available \in Int /\ work[h].adjustment \in Int
                                  /\ work[h].start \in Int /\ work[h].request.days \in Nat
                                  /\ work[h].blind \in BOOLEAN
  <1>1. requests \in [Requests -> Request] /\ Owed \subseteq Requests /\ Granted \subseteq Requests
    BY DEF BInv, Owed, Granted
  <1>2. Credit \in Int /\ Debt \in Nat
    <2>1. Accrued(first, today) \in Int /\ best \in Int /\ Debt \in Nat
      <3>1. first \in Int /\ today \in Int
        BY DateNumbers
      <3>2. best \in Int /\ Debt \in Nat
        BY ConstantsAssumption DEF TInv
      <3> QED
        BY <3>1, <3>2, AccruedNumber
    <2> QED
      BY <2>1 DEF Credit
  <1>3. \A h \in Handlers : work[h].available \in Int /\ work[h].adjustment \in Int
                            /\ work[h].start \in Int /\ work[h].request.days \in Nat
                            /\ work[h].blind \in BOOLEAN
    BY DEF TInv, Work, Request
  <1> QED
    BY <1>1, <1>2, <1>3, TotalIsNatural DEF SumDays, Total

LEMMA NumbersNext ==
    ASSUME BInv', TInv'
    PROVE  /\ SumDays(Owed)' = Total(requests', Owed') /\ Total(requests', Owed') \in Nat
           /\ SumDays(Granted)' = Total(requests', Granted') /\ Total(requests', Granted') \in Nat
           /\ Credit' \in Int
           /\ \A h \in Handlers : work'[h].available \in Int /\ work'[h].adjustment \in Int
                                  /\ work'[h].request.days \in Nat
  <1>1. /\ requests' \in [Requests -> Request]
        /\ Owed' \subseteq Requests /\ Granted' \subseteq Requests
    BY DEF BInv, Owed, Granted
  <1>2. Credit' \in Int
    <2>1. today' \in Int /\ best' \in Int /\ first' \in Int
      <3>1. today' \in Days
        BY DEF BInv, TypeToday
      <3>2. best' \in Adjustments /\ first' \in Starts \cup {Unset}'
        BY DEF TInv
      <3>3. Unset' = Unset
        BY DEF Unset
      <3> QED
        BY <3>1, <3>2, <3>3, StartNumber, ConstantsAssumption DEF Days
    <2>2. Accrued(first', today') \in Int
      BY <2>1, AccruedNumber
    <2>3. Credit' = Accrued(first', today') + best'
      BY DEF Credit, Accrued, Earned
    <2> QED
      BY <2>1, <2>2, <2>3
  <1>3. \A h \in Handlers : work'[h].available \in Int /\ work'[h].adjustment \in Int
                            /\ work'[h].request.days \in Nat
    BY DEF TInv, Work, Request
  <1> QED
    BY <1>1, <1>2, <1>3, TotalIsNatural DEF SumDays, Total

\* A step that owes and grants no more, and gives a handler no more than it
\* leaves.
LEMMA RoomKept ==
    ASSUME BInv, TInv, BInv', TInv', RoomInv,
           Credit <= Credit', raced' = {} => raced = {},
           raced' = {} => Owed' \subseteq Owed
                          /\ \A i \in Requests : requests'[i].days = requests[i].days,
           raced' = {} => \/ Granted' \subseteq Granted
                          \/ \A h \in Handlers : work'[h].pc # "pending",
           \A h \in Handlers : work'[h] = work[h] \/ (raced' = {} => RoomFor(h)')
    PROVE  RoomInv'
  <1> SUFFICES ASSUME raced' = {} PROVE RoomInv'
    BY DEF RoomInv
  <1> DEFINE m == Total(requests, Owed)
             n == Total(requests, Granted)
             m1 == Total(requests', Owed')
             n1 == Total(requests', Granted')
             c == Credit
             c1 == Credit'
  <1>1. /\ SumDays(Owed) = m /\ SumDays(Granted) = n /\ {m, n} \subseteq Nat
        /\ SumDays(Owed)' = m1 /\ SumDays(Granted)' = n1 /\ {m1, n1} \subseteq Nat
        /\ {c, c1} \subseteq Int /\ Debt \in Nat
        /\ \A h \in Handlers : /\ work[h].available \in Int
                               /\ work[h].request.days \in Nat
    BY Numbers, NumbersNext
  <1>2. requests \in [Requests -> Request] /\ requests' \in [Requests -> Request]
        /\ Owed \subseteq Requests /\ Granted \subseteq Requests
    BY DEF BInv, Owed, Granted
  <1>3. m1 <= m
    BY <1>2, TotalAtMost
  <1>4. n1 <= n \/ \A h \in Handlers : work'[h].pc # "pending"
    BY <1>2, TotalAtMost DEF Granted, Owed
  <1>5. m <= c + Debt /\ \A h \in Handlers : RoomFor(h)
    BY <1>1 DEF RoomInv
  <1>6. c <= c1
    OBVIOUS
  <1> HIDE DEF m, n, m1, n1, c, c1
  <1>7. ASSUME NEW h \in Handlers, work'[h] = work[h] PROVE RoomFor(h)'
    <2>1. /\ work[h].pc = "pending" => work[h].available + n <= c
          /\ work[h].pc = "insert" /\ work[h].request.kind = "vacation" /\ ~work[h].blind =>
               m + work[h].request.days <= c + Debt
      BY <1>1, <1>5 DEF RoomFor, c
    <2>2. /\ work[h].pc = "pending" => work[h].available + n1 <= c1
          /\ work[h].pc = "insert" /\ work[h].request.kind = "vacation" /\ ~work[h].blind =>
               m1 + work[h].request.days <= c1 + Debt
      BY <1>1, <1>3, <1>4, <1>6, <1>7, <2>1
    <2> QED
      BY <1>1, <1>7, <2>2 DEF RoomFor, c1
  <1>8. m1 <= c1 + Debt
    BY <1>1, <1>3, <1>5, <1>6
  <1> QED
    BY <1>1, <1>7, <1>8 DEF RoomInv, c1

\* A step of one handler that decides nothing and inserts nothing.
LEMMA RoomQuiet ==
    ASSUME BInv, TInv, BInv', TInv', RoomInv, raced \subseteq raced',
           UNCHANGED <<today, requests, employee, reverted, blind>>, NEW h \in Handlers,
           \A g \in Handlers \ {h} : work'[g] = work[g],
           raced' = {} => RoomFor(h)'
    PROVE  RoomInv'
  <1>1. Owed' = Owed /\ Granted' = Granted
    BY DEF Owed, Granted
  <1>2. Credit' = Credit /\ Credit <= Credit'
    <2>1. Credit' = Credit
      BY DEF Credit, Accrued, Earned, employee
    <2> QED
      BY <2>1, Numbers
  <1>3. \A i \in Requests : requests'[i].days = requests[i].days
    OBVIOUS
  <1>4. \A g \in Handlers : work'[g] = work[g] \/ (raced' = {} => RoomFor(g)')
    OBVIOUS
  <1>5. raced' = {} => raced = {}
    OBVIOUS
  <1> HIDE DEF Owed, Granted, Credit
  <1> QED
    BY <1>1, <1>2, <1>3, <1>4, <1>5, RoomKept

\* The approved days that are subtracted are at least those of vacations.
LEMMA RoomTaken ==
    ASSUME BInv, TInv, BestInv, BInv', TInv', RoomInv, NEW h \in Handlers, ReadTaken(h)
    PROVE  RoomInv'
  <1>s. Shaped /\ requests \in [Requests -> Request]
    BY DEF BInv
  <1> DEFINE Taken == {i \in Requests : CountsAsTaken(requests[i])}
             accrued == Accrued(work[h].start, today)
             available == accrued + work[h].adjustment - SumDays(Taken)
  <1>1. /\ work[h].adjustment <= best /\ first <= work[h].start
        /\ UNCHANGED <<today, requests, employee, reverted, blind, raced>>
    BY DEF ReadTaken, BestInv
  <1>2. /\ work'[h].pc = "pending" /\ work'[h].available = available
        /\ \A g \in Handlers \ {h} : work'[g] = work[g]
    BY <1>s, TakenRead
  <1> DEFINE t == Total(requests, Taken)
             n == Total(requests, Granted)
             a == Accrued(first, today)
  <1>3. SumDays(Taken) = t /\ t \in Nat /\ n <= t
    <2>1. Granted \subseteq Taken /\ Taken \subseteq Requests
      BY DEF Granted, Owed, OwedRow, CountsAsTaken
    <2> HIDE DEF Taken
    <2>2. t \in Nat /\ n <= t
      BY <1>s, <2>1, TotalIsNatural, TotalAtMost
    <2> QED
      BY <2>2 DEF SumDays, Total
  <1>4. /\ n \in Nat /\ a \in Int /\ best \in Int /\ work[h].adjustment \in Int
        /\ accrued \in Int /\ accrued <= a
    <2>1. n \in Nat /\ best \in Int /\ work[h].adjustment \in Int /\ work[h].start \in Int
      BY Numbers, ConstantsAssumption DEF TInv
    <2>2. today \in Int /\ first \in Int
      BY DateNumbers
    <2>3. a \in Int /\ accrued \in Int
      BY <2>1, <2>2, AccruedNumber
    <2>4. accrued <= a
      BY <1>1, <2>1, <2>2, AccruedGrows
    <2> QED
      BY <2>1, <2>3, <2>4
  <1>5. available = accrued + work[h].adjustment - t
    BY <1>3
  <1>6. SumDays(Granted)' = n /\ Credit' = a + best
    BY <1>1 DEF SumDays, Total, Granted, Owed, Credit, Accrued, Earned, employee
  <1> HIDE DEF Taken, t, n, a, accrued, available
  <1>7. available + n <= a + best
    BY <1>1, <1>3, <1>4, <1>5
  <1>8. RoomFor(h)'
    BY <1>2, <1>6, <1>7 DEF RoomFor
  <1> QED
    BY <1>1, <1>2, <1>8, RoomQuiet

\* Who looked at no sum is in none.
LEMMA RoomBlind ==
    ASSUME BInv, TInv, BInv', TInv', RoomInv, NEW h \in Handlers, NotBegun(h)
    PROVE  RoomInv'
  <1>1. /\ \A g \in Handlers \ {h} : work'[g] = work[g]
        /\ work'[h].pc # "pending" /\ (work'[h].pc = "insert" => work'[h].blind = TRUE)
    BY LimitedBlind, IdleShape DEF BInv
  <1>2. RoomFor(h)'
    BY <1>1 DEF RoomFor
  <1> QED
    BY <1>1, <1>2, RoomQuiet DEF NotBegun

\* What is pending is at least what is owed and not approved.
LEMMA RoomPending ==
    ASSUME BInv, TInv, BInv', TInv', RoomInv, NEW h \in Handlers, ReadPending(h)
    PROVE  RoomInv'
  <1>s. Shaped /\ requests \in [Requests -> Request]
    BY DEF BInv
  <1> DEFINE Pending == {i \in Requests : CountsAsPending(requests[i])}
             Rest == Owed \ Granted
  <1>1. /\ work[h].pc = "pending"
        /\ UNCHANGED <<today, requests, employee, reverted, blind, raced>>
    BY DEF ReadPending
  <1>2. /\ \A g \in Handlers \ {h} : work'[g] = work[g]
        /\ \/ work'[h] = Idle
           \/ /\ work'[h].pc = "insert" /\ work'[h].request = work[h].request
              /\ ~(work[h].available - SumDays(Pending) - work[h].request.days < 0 - Debt)
    BY <1>s, LimitedPending
  <1>3. CASE work'[h] = Idle
    <2>1. RoomFor(h)'
      BY <1>3, IdleShape DEF RoomFor
    <2> QED
      BY <1>1, <1>2, <2>1, RoomQuiet
  <1>4. CASE work'[h] # Idle
    <2>1. ~(work[h].available - SumDays(Pending) - work[h].request.days < 0 - Debt)
      BY <1>2, <1>4
    <2>2. /\ work'[h].pc = "insert" /\ work'[h].request = work[h].request
          /\ \A g \in Handlers \ {h} : work'[g] = work[g]
      BY <1>2, <1>4
    <2> DEFINE p == Total(requests, Pending)
               n == Total(requests, Granted)
               q == Total(requests, Rest)
               m == Total(requests, Owed)
    <2>3. SumDays(Pending) = p /\ p \in Nat /\ q \in Nat /\ q <= p
      <3>1. Rest \subseteq Pending /\ Pending \subseteq Requests
        BY DEF Granted, Owed, OwedRow, CountsAsPending
      <3> HIDE DEF Pending, Rest
      <3>2. p \in Nat /\ q \in Nat /\ q <= p
        BY <1>s, <3>1, TotalIsNatural, TotalAtMost
      <3> QED
        BY <3>2 DEF SumDays, Total
    <2>4. m = n + q
      <3>1. Owed = Granted \cup Rest /\ Granted \cap Rest = {}
            /\ Granted \subseteq Requests /\ Rest \subseteq Requests
        BY DEF Granted, Owed
      <3> HIDE DEF Rest
      <3> QED
        BY <1>s, <3>1, TotalApart
    <2>5. /\ n \in Nat /\ m \in Nat /\ Credit \in Int /\ Debt \in Nat
          /\ SumDays(Granted) = n /\ SumDays(Owed) = m
          /\ work[h].available \in Int /\ work[h].request.days \in Nat
      BY Numbers
    <2>6. raced = {} => work[h].available + n <= Credit
      BY <1>1, <2>5 DEF RoomInv, RoomFor
    <2>7. SumDays(Owed)' = m /\ Credit' = Credit
      BY <1>1, <2>5 DEF SumDays, Total, Owed, Credit, Accrued, Earned, employee
    <2> DEFINE c == Credit
               d == work[h].request.days
               available == work[h].available
    <2>8. ASSUME raced = {} PROVE m + d <= c + Debt
      <3>1. ~(available - p - d < 0 - Debt) /\ available + n <= c /\ {c, available} \subseteq Int
            /\ {d, p, q, n, m, Debt} \subseteq Nat /\ q <= p /\ m = n + q
        BY <2>1, <2>3, <2>4, <2>5, <2>6, <2>8
      <3> HIDE DEF p, q, n, m, c, d, available
      <3> QED
        BY <3>1
    <2>9. raced' = {} => RoomFor(h)'
      <3> HIDE DEF m
      <3> QED
        BY <1>1, <2>2, <2>7, <2>8 DEF RoomFor
    <2> QED
      BY <1>1, <2>2, <2>9, RoomQuiet
  <1> QED
    BY <1>3, <1>4

\* A vacation takes the room that was found for it, since nobody else creates.
LEMMA RoomInserted ==
    ASSUME BInv, TInv, OInv, BInv', TInv', RoomInv, NEW h \in Handlers, Insert(h)
    PROVE  RoomInv'
  <1>s. Shaped /\ requests \in [Requests -> Request] /\ requests' \in [Requests -> Request]
    BY DEF BInv
  <1> DEFINE r == [work[h].request EXCEPT !.status = InitialStatus(work[h].request.kind)]
  <1>1. work[h].request \in Request
    BY DEF BInv, LocalOK, Insert, Creating
  <1>2. r.kind = work[h].request.kind /\ r.days = work[h].request.days /\ r.days \in Nat
    BY <1>1 DEF Request
  <1>3. PICK i \in Requests : /\ \A other \in Requests : requests[other] = NoRequest <=> other >= i
                              /\ requests' = [requests EXCEPT ![i] = r]
                              /\ blind' = IF work[h].blind THEN blind \cup {i} ELSE blind
    BY DEF Insert
  <1> HIDE DEF r
  <1>4. /\ raced' = raced /\ today' = today /\ UNCHANGED employee /\ reverted' = reverted
        /\ work[h].pc = "insert" /\ work'[h] = Idle
        /\ \A g \in Handlers \ {h} : work'[g] = work[g]
    BY <1>s, Gone DEF Insert
  <1> SUFFICES ASSUME raced = {} PROVE RoomInv'
    BY <1>4 DEF RoomInv
  <1>5. requests'[i] = r /\ i \notin Owed /\ \A j \in Requests \ {i} : requests'[j] = requests[j]
    <2>1. requests[i] = NoRequest
      BY <1>3 DEF Requests
    <2> QED
      BY <1>s, <1>3, <2>1, NoRequestTyped DEF Owed, OwedRow
  <1>6. \A g \in Handlers : ~Creating(g)'
    <2>1. \A g \in Handlers \ {h} : ~Creating(g)
      BY <1>4 DEF OInv, Creating
    <2> QED
      BY <1>4, <2>1, IdleShape DEF Creating
  <1> DEFINE m == Total(requests, Owed)
             m1 == Total(requests', Owed')
             kept == Total(requests', Owed)
             c == Credit
  <1>7. /\ SumDays(Owed) = m /\ SumDays(Owed)' = m1 /\ Credit' = c
        /\ m \in Nat /\ m1 \in Nat /\ c \in Int /\ Debt \in Nat
    <2>1. Credit' = c
      BY <1>4 DEF Credit, Accrued, Earned, employee
    <2> QED
      BY <2>1, Numbers, NumbersNext
  <1>8. /\ m <= c + Debt
        /\ work[h].request.kind = "vacation" /\ ~work[h].blind => m + r.days <= c + Debt
    BY <1>2, <1>4, <1>7 DEF RoomInv, RoomFor
  <1>9. m1 <= c + Debt
    <2>1. CASE r.kind = "vacation" /\ ~work[h].blind
      <3>1. Owed \subseteq Requests /\ Owed' \subseteq Owed \cup {i}
        BY <1>3, <1>4, <1>5 DEF Owed
      <3>2. m1 <= Total(requests', Owed \cup {i})
        BY <1>s, <3>1, TotalAtMost
      <3>3. Total(requests', Owed \cup {i}) = kept + r.days
        BY <1>s, <1>5, <3>1, TotalWith
      <3>4. kept <= m /\ kept \in Nat
        BY <1>s, <1>5, <3>1, TotalAtMost, TotalIsNatural
      <3> HIDE DEF m, m1, kept, c
      <3> QED
        BY <1>2, <1>7, <1>8, <2>1, <3>2, <3>3, <3>4
    <2>2. CASE r.kind # "vacation" \/ work[h].blind
      <3>1. Owed \subseteq Requests /\ Owed' \subseteq Owed
        BY <1>3, <1>4, <1>5, <2>2 DEF Owed, OwedRow
      <3>2. m1 <= m
        BY <1>s, <1>5, <3>1, TotalAtMost
      <3> HIDE DEF m, m1, c
      <3> QED
        BY <1>7, <1>8, <3>2
    <2> QED
      BY <2>1, <2>2
  <1> HIDE DEF m, m1, c
  <1>10. \A g \in Handlers : RoomFor(g)'
    BY <1>6 DEF RoomFor, Creating
  <1> QED
    BY <1>7, <1>9, <1>10 DEF RoomInv

\* A decision never changes how many days a request is of.
LEMMA DecidedCount ==
    ASSUME NEW act \in Acts \ {"none"}, NEW r \in Request
    PROVE  Decided(act, r).days = r.days
  BY DEF Decided, Request, Acts

LEMMA DecidedDays ==
    ASSUME NEW act \in Acts \ {"none"}, NEW r \in Request, StillMay(act, r)
    PROVE  /\ Decided(act, r).days = r.days
           /\ act # "revert" /\ OwedRow(Decided(act, r)) => OwedRow(r)
  <1>1. CASE act = "accept"
    BY <1>1 DEF Decided, Request, StillMay, OwedRow
  <1>2. CASE act = "refuse"
    BY <1>2 DEF Decided, Request, OwedRow
  <1>3. CASE act = "approve"
    BY <1>3 DEF Decided, Request, StillMay, OwedRow
  <1>4. CASE act = "reject"
    BY <1>4 DEF Decided, Request, OwedRow
  <1>5. CASE act = "cancel"
    BY <1>5 DEF Decided, Request, OwedRow
  <1>6. CASE act = "giveBack"
    BY <1>6 DEF Decided, Request, OwedRow
  <1>7. CASE act = "revert"
    BY <1>7 DEF Decided, Request
  <1> QED
    BY <1>1, <1>2, <1>3, <1>4, <1>5, <1>6, <1>7 DEF Acts

\* A decision adds nothing that is owed, and nobody is summing meanwhile.
LEMMA RoomDecided ==
    ASSUME BInv, TInv, DInv, BInv', TInv', RoomInv, NEW h \in Handlers, WriteDecision(h)
    PROVE  RoomInv'
  <1> DEFINE n == work[h].id
             act == work[h].act
  <1>1. /\ n \in Requests /\ act \in Acts \ {"none"}
        /\ requests'[n] = Decided(act, requests[n])
        /\ \A i \in Requests \ {n} : requests'[i] = requests[i]
        /\ \A g \in Handlers \ {h} : work'[g] = work[g]
        /\ work'[h] = Idle \/ work'[h].pc = "email"
        /\ raced \subseteq raced'
    <2> HIDE DEF BInv
    <2> QED
      BY Wrote
  <1>2. /\ today' = today /\ UNCHANGED employee /\ blind' = blind /\ work[h].pc = "write"
        /\ reverted' = IF act = "revert" THEN reverted \cup {n} ELSE reverted
    BY DEF WriteDecision
  <1>3. raced' = {} => act # "approve" \/ \A g \in Handlers : work[g].pc # "pending"
    <2>1. Race("sums", act = "approve" /\ \E other \in Handlers : work[other].pc = "pending")
      BY DEF WriteDecision
    <2> QED
      BY <2>1 DEF Race
  <1>4. raced' = {} => StillMay(act, requests[n]) /\ requests[n] \in Request
    BY <1>1, <1>2 DEF DInv, BInv
  <1>5. Credit' = Credit /\ Credit <= Credit'
    <2>1. Credit' = Credit
      BY <1>2 DEF Credit, Accrued, Earned, employee
    <2> QED
      BY <2>1, Numbers
  <1> HIDE DEF n, act
  <1>6. ASSUME raced' = {}
        PROVE  /\ Owed' \subseteq Owed
               /\ \A i \in Requests : requests'[i].days = requests[i].days
    <2>1. /\ requests'[n].days = requests[n].days
          /\ act # "revert" /\ OwedRow(requests'[n]) => OwedRow(requests[n])
      BY <1>1, <1>4, <1>6, DecidedDays
    <2>2. \A i \in Requests : requests'[i].days = requests[i].days
      BY <1>1, <2>1
    <2>3. ASSUME NEW i \in Owed' PROVE i \in Owed
      <3>1. i \in Requests /\ OwedRow(requests'[i]) /\ i \notin reverted' \cup blind'
        BY <2>3 DEF Owed
      <3>2. i \notin reverted \cup blind /\ (i = n => act # "revert")
        BY <1>2, <3>1
      <3>3. OwedRow(requests[i])
        BY <1>1, <2>1, <3>1, <3>2
      <3> QED
        BY <3>1, <3>2, <3>3 DEF Owed
    <2> QED
      BY <2>2, <2>3
  <1>7. raced' = {} => \/ Granted' \subseteq Granted
                       \/ \A g \in Handlers : work'[g].pc # "pending"
    <2>1. CASE act = "approve"
      BY <1>1, <1>3, <2>1, IdleShape
    <2>2. ASSUME raced' = {}, act # "approve" PROVE Granted' \subseteq Granted
      <3>1. requests'[n].status = "APPROVED" => requests[n].status = "APPROVED"
        BY <1>1, <1>4, <2>2, DecidedRow
      <3>2. \A i \in Requests : requests'[i].status = "APPROVED" => requests[i].status = "APPROVED"
        BY <1>1, <3>1
      <3>3. Owed' \subseteq Owed /\ Owed \subseteq Requests
        BY <1>6, <2>2 DEF Owed
      <3>4. Granted' = {i \in Owed' : requests'[i].status = "APPROVED"}
        BY DEF Granted
      <3> QED
        BY <3>2, <3>3, <3>4 DEF Granted
    <2> QED
      BY <2>1, <2>2
  <1>8. \A g \in Handlers : work'[g] = work[g] \/ (raced' = {} => RoomFor(g)')
    <2>1. RoomFor(h)'
      BY <1>1, IdleShape DEF RoomFor
    <2> QED
      BY <1>1, <2>1
  <1>9. raced' = {} => raced = {}
    BY <1>1
  <1> HIDE DEF Owed, Granted, Credit
  <1> QED
    BY <1>5, <1>6, <1>7, <1>8, <1>9, RoomKept

LEMMA RoomInit == Init => RoomInv
  <1> SUFFICES ASSUME Init PROVE RoomInv
    OBVIOUS
  <1>1. Owed = {}
    BY NoRequestTyped DEF Init, Owed, OwedRow
  <1>2. SumDays(Owed) = 0
    BY <1>1, SumOfNothing DEF SumDays
  <1>3. Credit + Debt \in Nat
    <2>1. Accrued(first, 0) \in Nat
      <3>1. first \in Int
        BY StartNumber DEF Init
      <3> QED
        BY <3>1, AccruedNumber
    <2> QED
      BY <2>1, ConstantsAssumption DEF Init, Credit
  <1>4. \A h \in Handlers : RoomFor(h)
    BY IdleShape DEF Init, RoomFor
  <1> QED
    BY <1>2, <1>3, <1>4 DEF RoomInv

LEMMA RoomStep ==
    BInv /\ TInv /\ DInv /\ OInv /\ BestInv /\ RoomInv /\ BInv' /\ TInv' /\ [Next]_vars => RoomInv'
  <1> SUFFICES ASSUME BInv, TInv, DInv, OInv, BestInv, RoomInv, BInv', TInv', [Next]_vars
               PROVE  RoomInv'
    OBVIOUS
  <1>s. Shaped /\ TypeToday
    BY DEF BInv
  <1>q. \A h \in Handlers : work'[h].pc \notin {"pending", "insert"} => RoomFor(h)'
    BY DEF RoomFor
  <1>0. CASE UNCHANGED vars
    BY <1>0 DEF RoomInv, RoomFor, Owed, Granted, Credit, SumDays, Accrued, Earned, vars
  <1>1. ASSUME NEW h \in Handlers, BeginCreate(h) PROVE RoomInv'
    <2>1. raced \subseteq raced' /\ UNCHANGED <<today, requests, employee, reverted, blind>>
      BY <1>1 DEF BeginCreate, Race
    <2>2. RoomFor(h)' /\ \A g \in Handlers \ {h} : work'[g] = work[g]
      BY <1>1, <1>s, <1>q, Requested
    <2> QED
      BY <2>1, <2>2, RoomQuiet
  <1>2. ASSUME NEW h \in Handlers, CheckOverlap(h) PROVE RoomInv'
    <2>1. /\ \A g \in Handlers \ {h} : work'[g] = work[g]
          /\ RoomFor(h)'
      <3>1. CASE Leave(h)
        BY <1>s, <1>q, <3>1, Gone, IdleShape
      <3>2. CASE GoTo(h, "taken")
        BY <1>s, <1>q, <3>2, WentTo
      <3>3. CASE work[h].request.kind # "vacation" /\ GoTo(h, "insert")
        BY <1>s, <3>3, WentTo DEF RoomFor
      <3> QED
        BY <1>2, <3>1, <3>2, <3>3 DEF CheckOverlap
    <2> QED
      BY <1>2, <2>1, RoomQuiet DEF CheckOverlap
  <1>3. ASSUME NEW h \in Handlers, ReadTaken(h) PROVE RoomInv'
    BY <1>3, RoomTaken
  <1>4. ASSUME NEW h \in Handlers, ReadPending(h) PROVE RoomInv'
    BY <1>4, RoomPending
  <1>5. ASSUME NEW h \in Handlers, Insert(h) PROVE RoomInv'
    BY <1>5, RoomInserted
  <1>6. ASSUME NEW h \in Handlers, TellAccounting(h) \/ Abandon(h) PROVE RoomInv'
    <2>1. RoomFor(h)' /\ \A g \in Handlers \ {h} : work'[g] = work[g]
      BY <1>6, <1>s, <1>q, Gone, IdleShape DEF TellAccounting, Abandon
    <2> QED
      BY <1>6, <2>1, RoomQuiet DEF TellAccounting, Abandon
  <1>7. ASSUME NEW h \in Handlers, NEW i \in Requests, BeginDecision(h, i) PROVE RoomInv'
    <2>1. raced \subseteq raced' /\ RoomFor(h)' /\ \A g \in Handlers \ {h} : work'[g] = work[g]
      BY <1>7, <1>s, <1>q, Decides
    <2> QED
      BY <1>7, <2>1, RoomQuiet DEF BeginDecision
  <1>8. ASSUME NEW h \in Handlers, WriteDecision(h) PROVE RoomInv'
    BY <1>8, RoomDecided
  <1>9. CASE Adjust \/ ImportStart \/ NextDay
    <2>1. UNCHANGED <<requests, work, reverted, blind, raced>>
      BY <1>9 DEF Adjust, ImportStart, NextDay
    <2>2. Owed' = Owed /\ Granted' = Granted
      BY <2>1 DEF Owed, Granted
    <2>3. Credit <= Credit'
      <3>d. best \in Int /\ today \in Int /\ first \in Int
        BY DateNumbers, ConstantsAssumption DEF TInv
      <3>1. /\ best \in Int /\ today \in Int /\ first \in Int
            /\ today + 1 \in Int /\ today <= today + 1 /\ today <= today
        BY <3>d
      <3>2. \A d \in {today, today + 1} : Accrued(first, d) \in Int
        BY <3>1, AccruedNumber
      <3>3. CASE Adjust
        <4>1. best' \in Int /\ best <= best'
          <5>1. adjustment' \in Int
            BY <3>3, ConstantsAssumption DEF Adjust
          <5> QED
            BY <3>1, <3>3, <5>1 DEF Adjust
        <4>2. Credit' = Accrued(first, today) + best'
          BY <3>3 DEF Adjust, Credit, Accrued, Earned
        <4> QED
          BY <3>1, <3>2, <4>1, <4>2 DEF Credit
      <3>4. CASE ImportStart
        <4>1. first' \in Int /\ first' <= first
          <5>1. start' \in Int
            BY <3>4, StartNumber DEF ImportStart
          <5> QED
            BY <3>1, <3>4, <5>1 DEF ImportStart
        <4>2. Accrued(first, today) <= Accrued(first', today) /\ Accrued(first', today) \in Int
          BY <3>1, <4>1, AccruedGrows, AccruedNumber
        <4>3. Credit' = Accrued(first', today) + best
          BY <3>4 DEF ImportStart, Credit, Accrued, Earned
        <4> QED
          BY <3>1, <3>2, <4>2, <4>3 DEF Credit
      <3>5. CASE NextDay
        <4>1. Accrued(first, today) <= Accrued(first, today + 1)
          BY <3>1, AccruedGrows
        <4>2. Credit' = Accrued(first, today + 1) + best
          BY <3>5 DEF NextDay, Credit, Accrued, Earned, employee
        <4> QED
          BY <3>1, <3>2, <4>1, <4>2 DEF Credit
      <3> QED
        BY <1>9, <3>3, <3>4, <3>5
    <2> HIDE DEF Owed, Granted, Credit
    <2> QED
      BY <2>1, <2>2, <2>3, RoomKept
  <1>10. ASSUME NEW h \in Handlers, NotBegun(h) PROVE RoomInv'
    BY <1>10, RoomBlind
  <1> QED
    BY <1>0, <1>1, <1>2, <1>3, <1>4, <1>5, <1>6, <1>7, <1>8, <1>9, <1>10 DEF Next

LEMMA OAlways == Spec => []OInv
  <1>1. Init => OInv
    BY OInit
  <1>2. BInv /\ DInv /\ OInv /\ [Next]_vars => OInv'
    BY OStep
  <1> QED
    BY BAlways, DAlways, <1>1, <1>2, PTL DEF Spec

LEMMA RoomAlways == Spec => []RoomInv
  BY BAlways, TAlways, DAlways, OAlways, BestAlways, RoomInit, RoomStep, PTL DEF Spec

(* The open and approved vacations of an employee, those a sum held back, fit  *)
(* in what is accrued since the earliest startDate, in the best adjustment so  *)
(* far, and in Debt days more, if nothing overlaps: what                       *)
(* calculateVacationBalance sums in two queries stays enough until create      *)
(* inserts, whatever is cancelled, given back, adjusted or accrued meanwhile,  *)
(* and whatever startDate an import writes.                                    *)
THEOREM VacationsFit == Spec => []WithinLimit
  <1>1. RoomInv => WithinLimit
    <2> DEFINE counted == {i \in Requests \ blind : /\ requests[i].kind = "vacation"
                                                    /\ requests[i].status \in {"PENDING", "APPROVED"}
                                                    /\ ~requests[i].notTaken /\ i \notin reverted}
    <2>1. Owed = counted
      BY DEF Owed, OwedRow
    <2>2. WithinLimit <=> (raced = {} => SumDays(counted) <= Accrued(first, today) + best + Debt)
      BY DEF WithinLimit
    <2> HIDE DEF counted
    <2> QED
      <3>1. RoomInv /\ raced = {} => SumDays(counted) <= (Accrued(first, today) + best) + Debt
        BY <2>1 DEF RoomInv, Credit
      <3> QED
        BY <2>2, <3>1
  <1> QED
    BY RoomAlways, <1>1, PTL

-----------------------------------------------------------------------------
(* The requests no sum held back.                                          *)

\* They exist, and fit in the adjustment; so do those about to be inserted.
FitsAlone(days) == days <= best + Debt
Counting(h) == work[h].pc \in {"overlap", "taken", "pending"}
BlindInv ==
    /\ \A i \in blind : requests[i].status # "none" /\ FitsAlone(requests[i].days)
    /\ \A h \in Handlers : Counting(h) => ~work[h].blind
    /\ \A h \in Handlers : work[h].pc = "insert" /\ work[h].blind => FitsAlone(work[h].request.days)

\* A step that leaves the days of these rows alone, and whose handler does not
\* begin to insert one.
LEMMA BlindKept ==
    ASSUME BlindInv, NEW h \in Handlers, UNCHANGED <<best, blind>>,
           \A i \in blind : requests'[i].status # "none" /\ requests'[i].days = requests[i].days,
           \A g \in Handlers \ {h} : work'[g] = work[g],
           (Counting(h) \/ work[h].pc = "insert")' => ~work'[h].blind
    PROVE  BlindInv'
  BY DEF BlindInv, FitsAlone, Counting

LEMMA BlindInit == Init => BlindInv
  BY IdleShape DEF Init, BlindInv, Counting

LEMMA BlindStep == BInv /\ TInv /\ BestInv /\ BlindInv /\ [Next]_vars => BlindInv'
  <1> SUFFICES ASSUME BInv, TInv, BestInv, BlindInv, [Next]_vars PROVE BlindInv'
    OBVIOUS
  <1>s. /\ Shaped /\ TypeToday /\ requests \in [Requests -> Request] /\ blind \subseteq Requests
        /\ best \in Int /\ Debt \in Nat
    BY ConstantsAssumption DEF BInv, TInv
  <1>b. \A i \in blind : requests[i].status # "none"
    BY DEF BlindInv
  <1>0. CASE UNCHANGED vars
    BY <1>0 DEF BlindInv, FitsAlone, Counting, vars
  <1>1. ASSUME NEW h \in Handlers, BeginCreate(h) PROVE BlindInv'
    <2>1. /\ \A g \in Handlers \ {h} : work'[g] = work[g]
          /\ ~work'[h].blind
      BY <1>1, <1>s, Requested
    <2> QED
      BY <1>1, <1>b, <2>1, BlindKept DEF BeginCreate, employee
  <1>2. ASSUME NEW h \in Handlers, CheckOverlap(h) \/ ReadTaken(h) \/ ReadPending(h)
        PROVE  BlindInv'
    <2>1. UNCHANGED <<requests, employee, blind>> /\ Counting(h) /\ ~work[h].blind
      BY <1>2 DEF CheckOverlap, ReadTaken, ReadPending, BlindInv, Counting
    <2>2. /\ \A g \in Handlers \ {h} : work'[g] = work[g]
          /\ work'[h] = Idle \/ ~work'[h].blind
      <3>1. CASE CheckOverlap(h)
        BY <1>s, <2>1, <3>1, Gone, WentTo DEF CheckOverlap
      <3>2. CASE ReadTaken(h) \/ ReadPending(h)
        BY <1>s, <2>1, <3>2, TakenRead, LimitedPending
      <3> QED
        BY <1>2, <3>1, <3>2
    <2>3. (Counting(h) \/ work[h].pc = "insert")' => ~work'[h].blind
      BY <2>2, IdleShape DEF Counting
    <2> QED
      BY <1>b, <2>1, <2>2, <2>3, BlindKept DEF employee
  <1>3. ASSUME NEW h \in Handlers, NotBegun(h) PROVE BlindInv'
    <2>1. /\ UNCHANGED <<requests, employee, blind>> /\ work[h].pc = "taken"
          /\ work[h].adjustment <= best
      BY <1>3 DEF NotBegun, BestInv
    <2>2. work[h].adjustment \in Int /\ work[h].request.days \in Nat
      BY DEF TInv, Work, Request
    <2>3. /\ \A g \in Handlers \ {h} : work'[g] = work[g]
          /\ \/ work'[h] = Idle
             \/ /\ work'[h].pc = "insert" /\ work'[h].request = work[h].request
                /\ ~(work[h].adjustment - work[h].request.days < 0 - Debt)
      BY <1>3, <1>s, LimitedBlind
    <2>4. CASE work'[h] = Idle
      BY <1>b, <2>1, <2>3, <2>4, IdleShape, BlindKept DEF Counting, employee
    <2>5. CASE work'[h] # Idle
      <3>1. work'[h].pc = "insert" /\ FitsAlone(work'[h].request.days)
        <4> DEFINE a == work[h].adjustment
                   d == work[h].request.days
        <4>1. ~(a - d < 0 - Debt) /\ a <= best /\ a \in Int /\ d \in Nat
          BY <2>1, <2>2, <2>3, <2>5
        <4> HIDE DEF a, d
        <4>2. d <= best + Debt
          BY <1>s, <4>1
        <4> QED
          BY <2>3, <2>5, <4>2 DEF FitsAlone, d
      <3> QED
        BY <2>1, <2>3, <3>1 DEF BlindInv, FitsAlone, Counting, employee
    <2> QED
      BY <2>4, <2>5
  <1>4. ASSUME NEW h \in Handlers, Insert(h) PROVE BlindInv'
    <2> DEFINE r == [work[h].request EXCEPT !.status = InitialStatus(work[h].request.kind)]
    <2>1. work[h].request \in Request /\ work[h].pc = "insert"
      BY <1>4 DEF BInv, LocalOK, Insert, Creating
    <2>2. r.days = work[h].request.days /\ r.status # "none"
      BY <2>1 DEF Request, InitialStatus
    <2>3. PICK i \in Requests : /\ \A other \in Requests : requests[other] = NoRequest <=> other >= i
                                /\ requests' = [requests EXCEPT ![i] = r]
                                /\ blind' = IF work[h].blind THEN blind \cup {i} ELSE blind
      BY <1>4 DEF Insert
    <2> HIDE DEF r
    <2>4. /\ work'[h] = Idle /\ \A g \in Handlers \ {h} : work'[g] = work[g]
          /\ best' = best
      BY <1>4, <1>s, Gone DEF Insert, employee
    <2>5. i \notin blind
      BY <1>b, <2>3, NoRequestTyped DEF Requests
    <2>6. requests'[i] = r /\ \A j \in Requests \ {i} : requests'[j] = requests[j]
      BY <1>s, <2>3
    <2>7. \A j \in blind' : requests'[j].status # "none" /\ FitsAlone(requests'[j].days)
      <3>1. ASSUME i \in blind' PROVE FitsAlone(r.days)
        <4>1. work[h].blind
          BY <2>3, <2>5, <3>1
        <4> QED
          BY <2>1, <2>2, <4>1 DEF BlindInv
      <3> QED
        BY <1>s, <2>2, <2>3, <2>6, <3>1 DEF BlindInv
    <2> QED
      BY <2>4, <2>7, IdleShape DEF BlindInv, FitsAlone, Counting
  <1>5. ASSUME NEW h \in Handlers, TellAccounting(h) \/ Abandon(h) PROVE BlindInv'
    <2>1. UNCHANGED <<requests, employee, blind>>
      BY <1>5 DEF TellAccounting, Abandon
    <2>2. work'[h] = Idle /\ \A g \in Handlers \ {h} : work'[g] = work[g]
      BY <1>5, <1>s, Gone DEF TellAccounting, Abandon
    <2> QED
      BY <1>b, <2>1, <2>2, IdleShape, BlindKept DEF Counting, employee
  <1>6. ASSUME NEW h \in Handlers, NEW i \in Requests, BeginDecision(h, i) PROVE BlindInv'
    <2>1. UNCHANGED <<requests, employee, blind>>
      BY <1>6 DEF BeginDecision
    <2>2. work'[h].pc = "write" /\ \A g \in Handlers \ {h} : work'[g] = work[g]
      BY <1>6, <1>s, Decides
    <2> QED
      BY <1>b, <2>1, <2>2, BlindKept DEF Counting, employee
  <1>7. ASSUME NEW h \in Handlers, WriteDecision(h) PROVE BlindInv'
    <2> DEFINE n == work[h].id
               act == work[h].act
    <2>1. /\ n \in Requests /\ act \in Acts \ {"none"}
          /\ requests'[n] = Decided(act, requests[n])
          /\ \A i \in Requests \ {n} : requests'[i] = requests[i]
          /\ \A g \in Handlers \ {h} : work'[g] = work[g]
          /\ work'[h] = Idle \/ work'[h].pc = "email"
      BY <1>7, Wrote
    <2>2. UNCHANGED <<employee, blind>>
      BY <1>7 DEF WriteDecision
    <2>3. requests[n] \in Request
      BY <1>s, <2>1
    <2> HIDE DEF n, act
    <2>4. /\ requests'[n].days = requests[n].days
          /\ requests[n].status # "none" => requests'[n].status # "none"
      BY <2>1, <2>3, DecidedRow, DecidedCount
    <2>5. \A i \in blind : requests'[i].status # "none" /\ requests'[i].days = requests[i].days
      BY <1>b, <1>s, <2>1, <2>4
    <2>6. work'[h].pc \notin {"overlap", "taken", "pending", "insert"}
      BY <2>1, IdleShape
    <2> QED
      BY <2>1, <2>2, <2>5, <2>6, BlindKept DEF Counting, employee
  <1>8. CASE Adjust \/ ImportStart \/ NextDay
    <2>1. UNCHANGED <<requests, work, blind>>
      BY <1>8 DEF Adjust, ImportStart, NextDay
    <2>2. best' \in Int /\ best <= best'
      <3>1. CASE Adjust
        <4>1. adjustment' \in Int
          BY <3>1, ConstantsAssumption DEF Adjust
        <4> QED
          BY <1>s, <3>1, <4>1 DEF Adjust
      <3>2. CASE ImportStart \/ NextDay
        BY <1>s, <3>2 DEF ImportStart, NextDay, employee
      <3> QED
        BY <1>8, <3>1, <3>2
    <2>3. ASSUME NEW days \in Nat, days <= best + Debt PROVE days <= best' + Debt
      <3>1. best \in Int /\ Debt \in Int /\ best' \in Int /\ best <= best' /\ days \in Int
        BY <1>s, <2>2
      <3>2. \A m, n, debt, d \in Int : m <= n /\ d <= m + debt => d <= n + debt
        OBVIOUS
      <3> QED
        BY <2>3, <3>1, <3>2
    <2>4. /\ \A i \in blind : requests[i].days \in Nat
          /\ \A h \in Handlers : work[h].request.days \in Nat
      BY <1>s DEF TInv, Work, Request
    <2> QED
      BY <2>1, <2>3, <2>4 DEF BlindInv, Counting, FitsAlone
  <1> QED
    BY <1>0, <1>1, <1>2, <1>3, <1>4, <1>5, <1>6, <1>7, <1>8 DEF Next

LEMMA BlindAlways == Spec => []BlindInv
  BY BAlways, TAlways, BestAlways, BlindInit, BlindStep, PTL DEF Spec

(* The absences of an employee share no day, and fit in the balance; those     *)
(* asked for without a startDate, or before it, each fit in the adjustment,    *)
(* whatever overlaps (calculateVacationBalance returns it alone).              *)
THEOREM AbsencesAlwaysFit == Spec => []AbsencesFit
  <1>1. BlindInv => BeforeContract
    BY DEF BlindInv, BeforeContract, FitsAlone
  <1>2. NoOverlap /\ WithinLimit /\ BeforeContract => AbsencesFit
    BY DEF AbsencesFit
  <1> QED
    BY AbsencesApart, VacationsFit, BlindAlways, <1>1, <1>2, PTL
=============================================================================

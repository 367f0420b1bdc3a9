--------------------------- MODULE AiQuota_proofs ---------------------------
(***************************************************************************)
(* Proofs about AiQuota for any users, requests, limits and handlers.      *)
(***************************************************************************)
EXTENDS AiQuota, FiniteSetTheorems, TLAPS

-----------------------------------------------------------------------------
(* Lemmas about locals and runs.                                           *)

LEMMA IdleTyped == Idle \in Work /\ NoRun \in Run
  BY BoundsAssumption DEF Idle, Work, PCs, NoRun, Run, RunStatus, Times

\* A step of one handler changes its own locals and nobody else's.
LEMMA Continued ==
    ASSUME work \in [Handlers -> Work], NEW h \in Handlers,
           NEW w \in Work, Continue(h, w)
    PROVE  /\ work' \in [Handlers -> Work]
           /\ work'[h] = w
           /\ \A g \in Handlers : g # h => work'[g] = work[g]
  BY DEF Continue

\* What settling a run may not change: which runs there are, whose, about what
\* and when; and no run becomes pending.
Kept ==
    \A i \in Requests :
        /\ runs'[i].status = "none" <=> runs[i].status = "none"
        /\ runs'[i].status = "pending" => runs[i].status = "pending"
        /\ runs'[i].by = runs[i].by
        /\ runs'[i].target = runs[i].target
        /\ runs'[i].at = runs[i].at

\* Settling does not disturb the limits and the order of a conversation.
LEMMA KeptLimits ==
    ASSUME IInv, Kept
    PROVE  DailyLimitHolds' /\ HourlyLimitHolds' /\ ThreadsSerial'
  <1>1. DailyLimitHolds'
    <2> SUFFICES ASSUME NEW t \in Times
                 PROVE  Cardinality({i \in Requests : Reserved(i)' /\ Day(runs'[i].at) = Day(t)})
                            <= DailyLimit
      BY DEF DailyLimitHolds, Day
    <2>1. {i \in Requests : Reserved(i)' /\ Day(runs'[i].at) = Day(t)}
             = {i \in Requests : Reserved(i) /\ Day(runs[i].at) = Day(t)}
      BY DEF Kept, Reserved
    <2> QED
      BY <2>1 DEF IInv, DailyLimitHolds
  <1>2. HourlyLimitHolds'
    <2> SUFFICES ASSUME NEW user \in Users, NEW start \in Times
                 PROVE  Cardinality(Within(user, start)') <= HourlyLimit
      BY DEF HourlyLimitHolds
    <2>1. Within(user, start)' = Within(user, start)
      BY DEF Kept, Reserved, Within
    <2> QED
      BY <2>1 DEF IInv, HourlyLimitHolds
  <1>3. ThreadsSerial'
    BY DEF IInv, ThreadsSerial, Kept, Reserved, Requests
  <1> QED
    BY <1>1, <1>2, <1>3

\* What a handler counted before its insert is still so after others settled.
LEMMA KeptAllowed ==
    ASSUME IInv, Kept, NEW g \in Handlers, Allowed(g), work'[g] = work[g],
           work[g].pc = "insert"
    PROVE  Allowed(g)'
  <1>1. work[g].id \in Requests
    BY DEF IInv, LocalsOK, LocalOK
  <1>2. ~Reserved(work[g].id)'
    BY <1>1 DEF Allowed, Kept, Reserved
  <1>3. OfDay(Day(work[g].at))' = OfDay(Day(work[g].at))
    BY DEF OfDay, Kept, Reserved, Day
  <1>4. Since(work[g].by, work[g].at)' = Since(work[g].by, work[g].at)
    BY DEF Since, Kept, Reserved
  <1>5. ThreadFree(g) => ThreadFree(g)'
    BY DEF ThreadFree, Kept, Requests
  <1>6. DocumentFree(g) => DocumentFree(g)'
    BY DEF DocumentFree, Kept, Requests
  <1> QED
    BY <1>2, <1>3, <1>4, <1>5, <1>6 DEF Allowed

-----------------------------------------------------------------------------
(* What a step of a handler that reserves nothing owes the invariant.      *)

LEMMA HandlerInv ==
    ASSUME IInv, TypeOK', Kept,
           NEW h \in Handlers,
           \A g \in Handlers : g # h => work'[g] = work[g],
           \A i \in Requests : runs'[i].status # runs[i].status =>
               Answering(h) /\ i = work[h].id,
           \A i \in Readings : landed'[i] # landed[i] => Answering(h) /\ i = work[h].id,
           faults' = 0 => faults = 0,
           LandedOK', EachRevisionReadOnce', ReadingsTellFate',
           LocalOK(work[h])',
           AnswerOK(h)',
           Answering(h)' => Answering(h) /\ work'[h].id = work[h].id,
           faults' = 0 /\ Answering(h) =>
               Answering(h)' \/ runs'[work[h].id].status # "pending",
           lock' = h <=> work'[h].pc = "insert",
           lock' = h => Allowed(h)',
           \A g \in Handlers : g # h => (lock' = g <=> lock = g)
    PROVE  IInv'
  <1>1. DailyLimitHolds' /\ HourlyLimitHolds' /\ ThreadsSerial'
    BY KeptLimits
  <1>2. LocalsOK'
    BY DEF IInv, LocalsOK, LocalOK
  <1>3. LockOK'
    <2> SUFFICES ASSUME NEW g \in Handlers, g # h
                 PROVE  (lock' = g <=> work'[g].pc = "insert") /\ (lock' = g => Allowed(g)')
      BY DEF LockOK
    <2>1. (lock = g <=> work[g].pc = "insert") /\ (lock = g => Allowed(g))
      BY DEF IInv, LockOK
    <2> QED
      BY <2>1, KeptAllowed
  <1>4. AnswersOK'
    <2> SUFFICES ASSUME NEW g \in Handlers, g # h, Answering(g)'
                 PROVE  AnswerOK(g)'
      BY DEF AnswersOK, AnswerOK
    <2>1. /\ AnswerOK(g) /\ Answering(g) /\ work'[g] = work[g] /\ LocalOK(work[g])
          /\ work[g].id \in Requests
      BY DEF IInv, AnswersOK, Answering, LocalsOK, LocalOK
    <2>2. Answering(h) => work[h].id # work[g].id
      BY <2>1 DEF IInv, AnsweredAlone
    <2>3. runs'[work[g].id].status = runs[work[g].id].status
      BY <2>1, <2>2
    <2>4. work[g].id \in Readings => landed'[work[g].id] = landed[work[g].id]
      BY <2>1, <2>2
    <2> QED
      BY <2>1, <2>3, <2>4 DEF AnswerOK, Answering, Reserved, Kept
  <1>5. AnsweredAlone'
    <2> SUFFICES ASSUME NEW f \in Handlers, NEW g \in Handlers,
                        Answering(f)', Answering(g)', work'[f].id = work'[g].id
                 PROVE  f = g
      BY DEF AnsweredAlone, Answering
    <2>1. \A k \in {f, g} : Answering(k) /\ work'[k].id = work[k].id
      BY DEF Answering
    <2> QED
      BY <2>1 DEF IInv, AnsweredAlone
  <1>6. PendingIsAttended'
    <2> SUFFICES ASSUME NEW i \in Requests, runs'[i].status = "pending", faults' = 0
                 PROVE  \E g \in Handlers : work'[g].id = i /\ Answering(g)'
      BY DEF PendingIsAttended, Answering
    <2>1. PICK g \in Handlers : work[g].id = i /\ Answering(g)
      BY DEF Kept, IInv, PendingIsAttended
    <2>2. CASE g = h
      BY <2>1, <2>2
    <2>3. CASE g # h
      BY <2>1, <2>3 DEF Answering
    <2> QED
      BY <2>2, <2>3
  <1> QED
    BY <1>1, <1>2, <1>3, <1>4, <1>5, <1>6 DEF IInv

\* A step that changes nothing but the locals of one handler and the faults.
LEMMA LocalStep ==
    ASSUME IInv, NEW h \in Handlers, NEW w \in Work, Continue(h, w),
           UNCHANGED <<now, runs, documents, landed, lock>>,
           faults' \in 0 .. MaxFaults, faults' = 0 => faults = 0,
           work[h].pc # "insert", w.pc # "insert",
           LocalOK(w), AnswerOK(h)',
           Answering(h)' => Answering(h) /\ w.id = work[h].id,
           faults' = 0 /\ Answering(h) =>
               Answering(h)' \/ runs[work[h].id].status # "pending"
    PROVE  IInv'
  <1>1. /\ work' \in [Handlers -> Work] /\ work'[h] = w
        /\ \A g \in Handlers : g # h => work'[g] = work[g]
    BY Continued DEF IInv, TypeOK
  <1>2. TypeOK' /\ Kept
    BY <1>1 DEF IInv, TypeOK, Kept
  <1>3. LandedOK' /\ EachRevisionReadOnce' /\ ReadingsTellFate'
    BY DEF IInv, LandedOK, EachRevisionReadOnce, ReadingsTellFate, Reserved
  <1>4. LocalOK(work[h])'
    BY <1>1 DEF LocalOK
  <1>5. lock # h
    BY DEF IInv, LockOK
  <1> QED
    BY <1>1, <1>2, <1>3, <1>4, <1>5, HandlerInv

\* A handler that answers without a run, or after a fault, leaves nothing.
LEMMA LeaveStep ==
    ASSUME IInv, NEW h \in Handlers, Leave(h), work[h].pc # "insert",
           UNCHANGED <<now, runs, documents, landed, lock>>,
           \/ UNCHANGED faults /\ ~Answering(h)
           \/ faults' \in 1 .. MaxFaults
    PROVE  IInv'
  <1>1. LocalOK(Idle) /\ Idle.pc = "idle"
    BY DEF LocalOK, Idle
  <1>2. work'[h] = Idle
    BY IdleTyped, Continued DEF Leave, IInv, TypeOK
  <1>3. ~Answering(h)' /\ AnswerOK(h)'
    BY <1>1, <1>2 DEF Answering, AnswerOK
  <1>4. faults' \in 0 .. MaxFaults /\ (faults' = 0 => faults = 0)
    BY DEF IInv, TypeOK
  <1> QED
    BY <1>1, <1>3, <1>4, IdleTyped, LocalStep DEF Leave

-----------------------------------------------------------------------------
(* Steps that only read.                                                   *)

LEMMA BeginInv ==
    ASSUME IInv, NEW h \in Handlers, Begin(h)
    PROVE  IInv'
  <1>1. PICK w \in Work :
            Continue(h, w) /\ w.pc = "stamp" /\ LocalOK(w)
    <2>1. PICK user \in Users :
              \/ \E i \in Chats, t \in Threads :
                    Continue(h, [Idle EXCEPT !.pc = "stamp", !.id = i, !.by = user,
                                             !.target = t])
              \/ \E i \in Readings, d \in Documents :
                    /\ documents[d].revision < MaxRevision
                    /\ Continue(h, [Idle EXCEPT !.pc = "stamp", !.id = i, !.by = user,
                                                !.target = d,
                                                !.revision = documents[d].revision])
      BY DEF Begin
    <2>2. CASE \E i \in Chats, t \in Threads :
                  Continue(h, [Idle EXCEPT !.pc = "stamp", !.id = i, !.by = user, !.target = t])
      <3>1. PICK i \in Chats, t \in Threads :
                Continue(h, [Idle EXCEPT !.pc = "stamp", !.id = i, !.by = user, !.target = t])
        BY <2>2
      <3> DEFINE w == [Idle EXCEPT !.pc = "stamp", !.id = i, !.by = user, !.target = t]
      <3>2. w \in Work /\ w.pc = "stamp"
        BY IdleTyped DEF Work, PCs, Idle, Requests, Targets
      <3>3. LocalOK(w)
        BY RequestsAssumption DEF LocalOK, Idle, Requests
      <3> QED
        BY <3>1, <3>2, <3>3
    <2>3. CASE \E i \in Readings, d \in Documents :
                  /\ documents[d].revision < MaxRevision
                  /\ Continue(h, [Idle EXCEPT !.pc = "stamp", !.id = i, !.by = user,
                                              !.target = d,
                                              !.revision = documents[d].revision])
      <3>1. PICK i \in Readings, d \in Documents :
                /\ documents[d].revision < MaxRevision
                /\ Continue(h, [Idle EXCEPT !.pc = "stamp", !.id = i, !.by = user,
                                            !.target = d,
                                            !.revision = documents[d].revision])
        BY <2>3
      <3> DEFINE w == [Idle EXCEPT !.pc = "stamp", !.id = i, !.by = user, !.target = d,
                                   !.revision = documents[d].revision]
      <3>2. documents[d].revision \in 1 .. MaxRevision
            /\ documents[d].revision \in 0 .. MaxRevision
        BY BoundsAssumption DEF IInv, TypeOK, Revisions
      <3>3. w \in Work /\ w.pc = "stamp"
        <4>1. \A r \in 0 .. MaxRevision :
                 LET v == [Idle EXCEPT !.pc = "stamp", !.id = i, !.by = user, !.target = d,
                                       !.revision = r]
                 IN  v \in Work /\ v.pc = "stamp"
          BY IdleTyped DEF Work, PCs, Idle, Requests, Targets
        <4> QED
          BY <3>2, <4>1
      <3>4. LocalOK(w)
        BY <3>1, <3>2, RequestsAssumption DEF LocalOK, Idle, Requests
      <3> QED
        BY <3>1, <3>3, <3>4
    <2> QED
      BY <2>1, <2>2, <2>3
  <1>2. work'[h] = w
    BY <1>1, Continued DEF IInv, TypeOK
  <1>3. AnswerOK(h)' /\ ~Answering(h)' /\ ~Answering(h)
    BY <1>1, <1>2 DEF AnswerOK, Answering, Begin
  <1> QED
    BY <1>1, <1>3, LocalStep DEF Begin, IInv, TypeOK

LEMMA StampInv ==
    ASSUME IInv, NEW h \in Handlers, Stamp(h)
    PROVE  IInv'
  <1>1. CASE Leave(h)
    BY <1>1, LeaveStep DEF Stamp, Answering
  <1>2. CASE Continue(h, [work[h] EXCEPT !.pc = "count", !.at = now])
    <2> DEFINE w == [work[h] EXCEPT !.pc = "count", !.at = now]
    <2>1. work[h] \in Work /\ now \in Times /\ LocalOK(work[h]) /\ work[h].pc = "stamp"
      BY DEF IInv, TypeOK, LocalsOK, Stamp
    <2>2. w \in Work /\ w.pc = "count" /\ LocalOK(w)
      BY <2>1 DEF Work, PCs, LocalOK
    <2> HIDE DEF w
    <2>3. work'[h] = w
      BY <1>2, <2>2, Continued DEF IInv, TypeOK, w
    <2>4. AnswerOK(h)' /\ ~Answering(h)' /\ ~Answering(h)
      BY <2>1, <2>2, <2>3 DEF AnswerOK, Answering
    <2> QED
      BY <1>2, <2>1, <2>2, <2>4, LocalStep DEF Stamp, IInv, TypeOK, w
  <1> QED
    BY <1>1, <1>2 DEF Stamp

\* From here on the counts are frozen: nobody else inserts.
LEMMA CountInv ==
    ASSUME IInv, NEW h \in Handlers, Count(h)
    PROVE  IInv'
  <1>1. CASE Leave(h) /\ UNCHANGED lock
    BY <1>1, LeaveStep DEF Count, Answering
  <1>2. CASE Allowed(h) /\ lock' = h /\ GoTo(h, "insert")
    <2> DEFINE w == [work[h] EXCEPT !.pc = "insert"]
    <2>1. work[h] \in Work /\ LocalOK(work[h]) /\ work[h].pc = "count" /\ lock = Nobody
      BY DEF IInv, TypeOK, LocalsOK, Count, LockFree
    <2>2. w \in Work /\ w.pc = "insert" /\ LocalOK(w)
      BY <2>1 DEF Work, PCs, LocalOK
    <2>3. w.id = work[h].id /\ w.by = work[h].by /\ w.target = work[h].target
          /\ w.at = work[h].at
      BY <2>1 DEF Work
    <2>4. Continue(h, w)
      BY <1>2 DEF GoTo
    <2> HIDE DEF w
    <2>5. /\ work' \in [Handlers -> Work] /\ work'[h] = w
          /\ \A g \in Handlers : g # h => work'[g] = work[g]
      BY <2>2, <2>4, Continued DEF IInv, TypeOK
    <2>6. UNCHANGED <<now, runs, documents, landed, faults>>
      BY DEF Count
    <2>7. Allowed(h)'
      BY <1>2, <2>3, <2>5, <2>6 DEF Allowed, Reserved, OfDay, Since, Day, ThreadFree,
         DocumentFree
    <2>8. TypeOK' /\ Kept
      BY <1>2, <2>5, <2>6 DEF IInv, TypeOK, Kept
    <2>9. LandedOK' /\ EachRevisionReadOnce' /\ ReadingsTellFate'
      BY <2>6 DEF IInv, LandedOK, EachRevisionReadOnce, ReadingsTellFate, Reserved
    <2>10. LocalOK(work[h])' /\ AnswerOK(h)' /\ ~Answering(h)' /\ ~Answering(h)
      BY <2>1, <2>2, <2>5 DEF LocalOK, AnswerOK, Answering
    <2>11. \A g \in Handlers : g # h => lock # g /\ lock' # g
      BY <1>2, <2>1, RequestsAssumption
    <2> QED
      BY <1>2, <2>2, <2>5, <2>6, <2>7, <2>8, <2>9, <2>10, <2>11, HandlerInv
  <1> QED
    BY <1>1, <1>2 DEF Count

\* A handler that goes on to another label while it answers.
LEMMA AnswerStep ==
    ASSUME IInv, NEW h \in Handlers, NEW label \in {"wait", "save", "succeed", "fail"},
           GoTo(h, label), Answering(h),
           UNCHANGED <<now, runs, documents, landed, lock>>,
           faults' \in 0 .. MaxFaults, faults' = 0 => faults = 0,
           label = "save" => work[h].id \in Readings /\ work[h].pc = "wait",
           label = "wait" => work[h].pc = "call",
           label = "succeed" => work[h].id \in Chats /\ work[h].pc = "wait",
           label = "fail" =>
               \/ faults' # 0
               \/ work[h].pc \in {"call", "wait", "save"}
    PROVE  IInv'
  <1> DEFINE w == [work[h] EXCEPT !.pc = label]
  <1>1. /\ work[h] \in Work /\ LocalOK(work[h]) /\ AnswerOK(h)
        /\ work[h].pc \notin {"idle", "insert"}
    BY DEF IInv, TypeOK, LocalsOK, AnswersOK, Answering
  <1>2. w \in Work /\ w.pc = label /\ w.id = work[h].id /\ w.target = work[h].target
    BY <1>1 DEF Work, PCs
  <1>3. LocalOK(w)
    BY <1>1 DEF LocalOK, Work
  <1>4. Continue(h, w)
    BY DEF GoTo
  <1> HIDE DEF w
  <1>5. work'[h] = w
    BY <1>2, <1>4, Continued DEF IInv, TypeOK
  <1>6. Answering(h)'
    BY <1>2, <1>5 DEF Answering
  <1>7. work[h].id \in Chats => work[h].id \notin Readings
    BY RequestsAssumption
  <1>8. AnswerOK(h)'
    BY <1>1, <1>2, <1>5, <1>7 DEF AnswerOK, Answering, Reserved
  <1> QED
    BY <1>1, <1>2, <1>3, <1>4, <1>6, <1>8, LocalStep

LEMMA AskInv ==
    ASSUME IInv, NEW h \in Handlers, CallOpenAi(h) \/ Receive(h) \/ Conflict(h)
    PROVE  IInv'
  <1>1. /\ Answering(h) /\ faults' \in 0 .. MaxFaults /\ faults' = faults
        /\ UNCHANGED <<now, runs, documents, landed, lock>>
    BY DEF CallOpenAi, Receive, Conflict, Answering, IInv, TypeOK
  <1>2. PICK label \in {"wait", "save", "succeed", "fail"} :
            /\ GoTo(h, label)
            /\ label = "save" => work[h].id \in Readings /\ work[h].pc = "wait"
            /\ label = "wait" => work[h].pc = "call"
            /\ label = "succeed" => work[h].id \in Chats /\ work[h].pc = "wait"
            /\ work[h].pc \in {"call", "wait", "save"}
    BY DEF CallOpenAi, Receive, Conflict
  <1> QED
    BY <1>1, <1>2, AnswerStep

-----------------------------------------------------------------------------
(* The reservation.                                                        *)

\* A row created under the lock respects both limits and the conversation: it
\* was counted after every other row was there. It may commit and the handler
\* not hear of it.
LEMMA ReservationInv ==
    ASSUME IInv, TypeOK', NEW h \in Handlers, work[h].pc = "insert",
           runs' = [runs EXCEPT ![work[h].id] = Reservation(h)],
           lock' = Nobody, UNCHANGED <<documents, landed>>,
           \A g \in Handlers : g # h => work'[g] = work[g],
           LocalOK(work[h])',
           \/ /\ work'[h].pc = "call" /\ UNCHANGED faults
              /\ work'[h].id = work[h].id /\ work'[h].target = work[h].target
           \/ work'[h].pc = "idle" /\ faults' # 0,
           faults' = 0 => faults = 0
    PROVE  IInv'
  <1>0. PICK id \in Requests, user \in Users, at \in Times :
            id = work[h].id /\ user = work[h].by /\ at = work[h].at
    BY DEF IInv, TypeOK, Work, LocalsOK, LocalOK
  <1>1. /\ Allowed(h) /\ LocalOK(work[h]) /\ work[h] \in Work
        /\ id \in Requests /\ user \in Users /\ lock = h
    BY DEF IInv, TypeOK, LocalsOK, LockOK
  <1>2. /\ at \in Times /\ at \in Nat /\ ~Reserved(id)
        /\ runs \in [Requests -> Run] /\ IsFiniteSet(Requests)
    BY <1>0, <1>1, BoundsAssumption, RequestsAssumption DEF Times, Allowed, IInv, TypeOK
  <1>3. /\ runs'[id] = [status |-> "pending", by |-> user, target |-> work[h].target,
                        at |-> at]
        /\ \A i \in Requests : i # id => runs'[i] = runs[i]
    BY <1>0, <1>1, <1>2 DEF Reservation
  <1>4. Reserved(id)' /\ \A i \in Requests : i # id => (Reserved(i)' <=> Reserved(i))
    BY <1>1, <1>3 DEF Reserved
  <1>5. \A i \in Readings : i = id => landed[i] = 0
    BY <1>2 DEF IInv, LandedOK
  <1>6. DailyLimitHolds'
    <2> SUFFICES ASSUME NEW t \in Times
                 PROVE  Cardinality(OfDay(Day(t))') <= DailyLimit
      BY DEF DailyLimitHolds, OfDay, Day
    <2>1. IsFiniteSet(OfDay(Day(t))) /\ Cardinality(OfDay(Day(t))) <= DailyLimit
          /\ Cardinality(OfDay(Day(t))) \in Nat
      BY <1>2, FS_Subset, FS_CardinalityType DEF OfDay, IInv, DailyLimitHolds
    <2>2. CASE Day(at) = Day(t)
      <3>1. OfDay(Day(t))' = OfDay(Day(t)) \cup {id} /\ id \notin OfDay(Day(t))
        BY <1>1, <1>2, <1>3, <1>4, <2>2 DEF OfDay, Day
      <3>2. Cardinality(OfDay(Day(t))) < DailyLimit
        BY <1>0, <1>1, <2>2 DEF Allowed
      <3>3. Cardinality(OfDay(Day(t))') = Cardinality(OfDay(Day(t))) + 1
        BY <2>1, <3>1, FS_AddElement
      <3> QED
        BY <2>1, <3>2, <3>3, LimitsAssumption
    <2>3. CASE Day(at) # Day(t)
      <3>1. OfDay(Day(t))' = OfDay(Day(t))
        BY <1>1, <1>2, <1>3, <1>4, <2>3 DEF OfDay, Day
      <3> QED
        BY <2>1, <3>1
    <2> QED
      BY <2>2, <2>3
  <1>7. HourlyLimitHolds'
    <2> SUFFICES ASSUME NEW u \in Users, NEW start \in Times
                 PROVE  Cardinality(Within(u, start)') <= HourlyLimit
      BY DEF HourlyLimitHolds
    <2>1. IsFiniteSet(Within(u, start)) /\ Cardinality(Within(u, start)) <= HourlyLimit
      BY <1>2, FS_Subset DEF Within, IInv, HourlyLimitHolds
    <2>2. CASE u = user /\ start <= at /\ at <= start + Hour
      <3>1. Within(u, start)' = Within(u, start) \cup {id} /\ id \notin Within(u, start)
        BY <1>1, <1>2, <1>3, <1>4, <2>2 DEF Within
      <3>2. Within(u, start) \subseteq Since(user, at)
        <4> SUFFICES ASSUME NEW i \in Within(u, start) PROVE i \in Since(user, at)
          OBVIOUS
        <4>1. runs[i].at \in Nat /\ start \in Nat /\ Hour \in Nat
          BY <1>2, LimitsAssumption, BoundsAssumption DEF Within, Run, Times
        <4>2. start <= runs[i].at
          BY DEF Within
        <4>3. runs[i].at + Hour >= at
          BY <1>2, <2>2, <4>1, <4>2
        <4> QED
          BY <2>2, <4>3 DEF Within, Since
      <3>3. IsFiniteSet(Since(user, at)) /\ Cardinality(Since(user, at)) < HourlyLimit
        BY <1>0, <1>1, <1>2, FS_Subset DEF Since, Allowed
      <3>4. Cardinality(Within(u, start)) <= Cardinality(Since(user, at))
        BY <3>2, <3>3, FS_Subset
      <3>5. Cardinality(Within(u, start)') = Cardinality(Within(u, start)) + 1
        BY <2>1, <3>1, FS_AddElement
      <3>6. Cardinality(Within(u, start)) \in Nat /\ Cardinality(Since(user, at)) \in Nat
        BY <2>1, <3>3, FS_CardinalityType
      <3> QED
        BY <3>3, <3>4, <3>5, <3>6, LimitsAssumption
    <2>3. CASE ~(u = user /\ start <= at /\ at <= start + Hour)
      <3>1. Within(u, start)' = Within(u, start)
        BY <1>1, <1>2, <1>3, <1>4, <2>3 DEF Within
      <3> QED
        BY <2>1, <3>1
    <2> QED
      BY <2>2, <2>3
  <1>8. ThreadsSerial'
    <2>1. id \in Chats => ThreadFree(h)
      BY <1>0, <1>1 DEF Allowed
    <2>2. id \in Chats => \A i \in Chats : runs[i].target = work[h].target =>
             runs[i].status # "pending" /\ runs[i].by = user
      BY <1>0, <2>1 DEF ThreadFree
    <2> SUFFICES ASSUME NEW i \in Chats, NEW j \in Chats, i # j, Reserved(i)', Reserved(j)',
                        runs'[i].target = runs'[j].target
                 PROVE  /\ runs'[i].by = runs'[j].by
                        /\ ~(runs'[i].status = "pending" /\ runs'[j].status = "pending")
      BY DEF ThreadsSerial, Reserved
    <2>3. i \in Requests /\ j \in Requests
      BY DEF Requests
    <2>4. CASE i = id
      BY <1>3, <2>2, <2>3, <2>4
    <2>5. CASE j = id
      BY <1>3, <2>2, <2>3, <2>5
    <2>6. CASE i # id /\ j # id
      BY <1>3, <1>4, <2>3, <2>6 DEF IInv, ThreadsSerial
    <2> QED
      BY <2>4, <2>5, <2>6
  <1>9. LandedOK' /\ EachRevisionReadOnce' /\ ReadingsTellFate'
    <2>1. \A i \in Readings : i \in Requests
      BY DEF Requests
    <2>2. \A i \in Readings : landed[i] # 0 => i # id
      BY <1>5
    <2>3. LandedOK'
      BY <1>3, <1>4, <2>1, <2>2 DEF IInv, LandedOK
    <2>4. EachRevisionReadOnce'
      <3> SUFFICES ASSUME NEW i \in Readings, NEW j \in Readings, i # j, landed[i] # 0,
                          runs'[i].target = runs'[j].target
                   PROVE  landed[i] # landed[j]
        BY DEF EachRevisionReadOnce
      <3>1. CASE j = id
        BY <1>5, <3>1
      <3>2. CASE j # id
        BY <1>3, <2>1, <2>2, <3>2 DEF IInv, EachRevisionReadOnce
      <3> QED
        BY <3>1, <3>2
    <2>5. ReadingsTellFate'
      BY <1>3, <1>5, <2>1 DEF IInv, ReadingsTellFate
    <2> QED
      BY <2>3, <2>4, <2>5
  <1>10. LocalsOK'
    BY DEF IInv, LocalsOK, LocalOK
  <1>11. LockOK'
    <2>1. \A g \in Handlers : g # h => work[g].pc # "insert"
      BY <1>1 DEF IInv, LockOK
    <2> QED
      BY <2>1, RequestsAssumption DEF LockOK
  <1>12. \A g \in Handlers : Answering(g)' =>
            \/ g # h /\ Answering(g) /\ work[g].id \in Requests \ {id} /\ work'[g] = work[g]
               /\ AnswerOK(g)
            \/ g = h /\ work'[h].pc = "call" /\ work'[h].id = id
               /\ work'[h].target = work[h].target
    <2> SUFFICES ASSUME NEW g \in Handlers, g # h, Answering(g)'
                 PROVE  Answering(g) /\ work[g].id \in Requests \ {id} /\ work'[g] = work[g]
                        /\ AnswerOK(g)
      BY <1>0 DEF Answering
    <2>1. Answering(g) /\ AnswerOK(g) /\ LocalOK(work[g]) /\ work'[g] = work[g]
      BY DEF Answering, IInv, AnswersOK, LocalsOK
    <2> QED
      BY <1>2, <2>1 DEF AnswerOK, LocalOK, Answering
  <1>13. AnswersOK'
    <2> SUFFICES ASSUME NEW g \in Handlers, Answering(g)' PROVE AnswerOK(g)'
      BY DEF AnswersOK, AnswerOK
    <2>1. CASE g = h
      BY <1>3, <1>4, <1>5, <1>12, <2>1 DEF AnswerOK, Answering
    <2>2. CASE g # h
      BY <1>3, <1>4, <1>12, <2>2 DEF AnswerOK, Answering
    <2> QED
      BY <2>1, <2>2
  <1>14. AnsweredAlone'
    <2> SUFFICES ASSUME NEW f \in Handlers, NEW g \in Handlers,
                        Answering(f)', Answering(g)', work'[f].id = work'[g].id
                 PROVE  f = g
      BY DEF AnsweredAlone, Answering
    <2> QED
      BY <1>12 DEF IInv, AnsweredAlone
  <1>15. PendingIsAttended'
    <2> SUFFICES ASSUME NEW i \in Requests, runs'[i].status = "pending", faults' = 0
                 PROVE  \E g \in Handlers : work'[g].id = i /\ Answering(g)'
      BY DEF PendingIsAttended, Answering
    <2>1. CASE i = id
      BY <1>0, <2>1 DEF Answering
    <2>2. CASE i # id
      <3>1. PICK g \in Handlers : work[g].id = i /\ Answering(g)
        BY <1>3, <2>2 DEF IInv, PendingIsAttended
      <3> QED
        BY <2>2, <3>1 DEF Answering
    <2> QED
      BY <2>1, <2>2
  <1> QED
    BY <1>6, <1>7, <1>8, <1>9, <1>10, <1>11, <1>13, <1>14, <1>15 DEF IInv

LEMMA InsertInv ==
    ASSUME IInv, NEW h \in Handlers, Insert(h)
    PROVE  IInv'
  <1> DEFINE w == [work[h] EXCEPT !.pc = "call"]
  <1>1. /\ work[h] \in Work /\ LocalOK(work[h]) /\ work[h].pc = "insert"
        /\ work[h].id \in Requests
    BY DEF IInv, TypeOK, LocalsOK, LocalOK, Insert
  <1>2. w \in Work /\ w.pc = "call" /\ w.id = work[h].id /\ w.target = work[h].target
    BY <1>1 DEF Work, PCs
  <1>3. LocalOK(w)
    BY <1>1 DEF LocalOK, Work
  <1>4. Continue(h, w)
    BY DEF Insert, GoTo
  <1> HIDE DEF w
  <1>5. /\ work' \in [Handlers -> Work] /\ work'[h] = w
        /\ \A g \in Handlers : g # h => work'[g] = work[g]
    BY <1>2, <1>4, Continued DEF IInv, TypeOK
  <1>6. TypeOK'
    BY <1>1, <1>5 DEF Insert, Reservation, IInv, TypeOK, Work, Run, RunStatus
  <1>7. LocalOK(work[h])'
    BY <1>3, <1>5 DEF LocalOK
  <1> QED
    BY <1>1, <1>2, <1>5, <1>6, <1>7, ReservationInv DEF Insert

LEMMA ReservationFailsInv ==
    ASSUME IInv, NEW h \in Handlers, ReservationFails(h)
    PROVE  IInv'
  <1>1. /\ work[h] \in Work /\ LocalOK(work[h]) /\ work[h].pc = "insert" /\ lock = h
        /\ work[h].id \in Requests /\ ~Answering(h)
    BY DEF IInv, TypeOK, LocalsOK, LocalOK, LockOK, ReservationFails, Answering
  <1>2. /\ work' \in [Handlers -> Work] /\ work'[h] = Idle
        /\ \A g \in Handlers : g # h => work'[g] = work[g]
    BY IdleTyped, Continued DEF ReservationFails, Leave, IInv, TypeOK
  <1>3. faults' \in 1 .. MaxFaults /\ faults' # 0
    BY BoundsAssumption DEF ReservationFails, Fault, IInv, TypeOK
  <1>4. LocalOK(work[h])' /\ AnswerOK(h)' /\ ~Answering(h)' /\ work'[h].pc = "idle"
    BY <1>2 DEF LocalOK, AnswerOK, Answering, Idle
  <1>5. TypeOK'
    BY <1>1, <1>2, <1>3, RequestsAssumption DEF ReservationFails, Reservation, IInv, TypeOK,
       Work, Run, RunStatus
  <1>6. CASE runs' = [runs EXCEPT ![work[h].id] = Reservation(h)]
    BY <1>1, <1>2, <1>3, <1>4, <1>5, <1>6, ReservationInv DEF ReservationFails
  <1>7. CASE UNCHANGED runs
    <2>1. Kept /\ LandedOK' /\ EachRevisionReadOnce' /\ ReadingsTellFate'
      BY <1>3, <1>7 DEF ReservationFails, IInv, Kept, LandedOK, EachRevisionReadOnce,
         ReadingsTellFate, Reserved
    <2>2. lock' = Nobody /\ \A g \in Handlers : g # h => lock' # g /\ lock # g
      BY <1>1, RequestsAssumption DEF ReservationFails
    <2>3. lock' # h
      BY RequestsAssumption DEF ReservationFails
    <2> QED
      BY <1>1, <1>2, <1>3, <1>4, <1>5, <1>7, <2>1, <2>2, <2>3, HandlerInv
         DEF ReservationFails
  <1> QED
    BY <1>6, <1>7 DEF ReservationFails

-----------------------------------------------------------------------------
(* Saving and settling.                                                    *)

\* Settling the handler's own run: a success only of a reading that is in its
\* document, a failure without faults only of one that is not.
LEMMA SettleInv ==
    ASSUME IInv, TypeOK', NEW h \in Handlers, work[h].pc \in {"succeed", "fail"},
           NEW status \in {"succeeded", "failed"},
           \/ SetStatus(work[h].id, status)
           \/ UNCHANGED runs
                /\ (runs[work[h].id].status # "pending" \/ faults' # 0),
           status = "succeeded" => work[h].pc = "succeed",
           status = "failed" => work[h].pc = "fail",
           \/ Leave(h)
           \/ GoTo(h, "fail") /\ faults' # 0,
           UNCHANGED <<documents, landed, lock>>,
           faults' = 0 => faults = 0
    PROVE  IInv'
  <1>1. /\ work[h] \in Work /\ LocalOK(work[h]) /\ work[h].id \in Requests
        /\ Answering(h) /\ AnswerOK(h) /\ lock # h
        /\ runs \in [Requests -> Run]
    BY DEF IInv, TypeOK, LocalsOK, LocalOK, LockOK, AnswersOK, Answering
  <1>2. Idle \in Work /\ [work[h] EXCEPT !.pc = "fail"] \in Work
    BY <1>1, IdleTyped DEF Work, PCs
  <1>3. /\ \A g \in Handlers : g # h => work'[g] = work[g]
        /\ \/ work'[h] = Idle
           \/ work'[h] = [work[h] EXCEPT !.pc = "fail"] /\ faults' # 0
    BY <1>2, Continued DEF Leave, GoTo, IInv, TypeOK
  <1>4. /\ work'[h].pc \in {"idle", "fail"} /\ work'[h].pc # "insert"
        /\ work'[h].pc = "fail" => /\ work'[h].id = work[h].id /\ faults' # 0
                                   /\ work'[h].target = work[h].target
                                   /\ work'[h].by = work[h].by
                                   /\ work'[h].revision = work[h].revision
    BY <1>1, <1>3 DEF Idle, Work
  <1>5. \/ runs' = runs
        \/ /\ \A i \in Requests : i # work[h].id => runs'[i] = runs[i]
           /\ runs'[work[h].id] = [runs[work[h].id] EXCEPT !.status = status]
    BY <1>1 DEF SetStatus
  <1>6. Kept
    <2>1. runs[work[h].id].status # "none" /\ runs[work[h].id] \in Run
      BY <1>1 DEF AnswerOK, Reserved
    <2> QED
      BY <1>5, <2>1 DEF Kept, Run
  <1>7. \A i \in Requests : runs'[i].status # runs[i].status => i = work[h].id
    BY <1>5
  <1>8. LocalOK(work[h])'
    BY <1>1, <1>4 DEF LocalOK
  <1>9. LandedOK' /\ EachRevisionReadOnce'
    <2>1. \A i \in Readings : i \in Requests
      BY DEF Requests
    <2> QED
      BY <1>6, <2>1 DEF IInv, LandedOK, EachRevisionReadOnce, Kept, Reserved
  <1>10. ReadingsTellFate'
    <2> SUFFICES ASSUME NEW i \in Readings
                 PROVE  /\ runs'[i].status = "succeeded" => landed[i] # 0
                        /\ runs'[i].status \in {"none", "failed"} /\ faults' = 0
                              => landed[i] = 0
      BY DEF ReadingsTellFate
    <2>1. i \in Requests
      BY DEF Requests
    <2>2. CASE runs'[i] = runs[i]
      BY <2>2 DEF IInv, ReadingsTellFate
    <2>3. CASE i = work[h].id /\ runs'[i] = [runs[i] EXCEPT !.status = status]
      <3>1. runs'[i].status = status
        BY <1>1, <2>1, <2>3 DEF Run
      <3>2. status = "succeeded" => landed[i] # 0
        BY <1>1, <2>3 DEF AnswerOK
      <3>3. status = "failed" /\ faults' = 0 => landed[i] = 0
        BY <1>1, <2>3 DEF AnswerOK
      <3> QED
        BY <3>1, <3>2, <3>3
    <2> QED
      BY <1>5, <2>1, <2>2, <2>3
  <1>11. AnswerOK(h)'
    BY <1>1, <1>4, <1>6 DEF AnswerOK, Answering, Kept, Reserved
  <1>12. /\ Answering(h)' => work'[h].id = work[h].id
         /\ faults' = 0 => runs'[work[h].id].status # "pending"
    <2>1. runs'[work[h].id] = [runs[work[h].id] EXCEPT !.status = status]
             => runs'[work[h].id].status # "pending"
      BY <1>1 DEF Run
    <2>2. SetStatus(work[h].id, status)
             => runs'[work[h].id] = [runs[work[h].id] EXCEPT !.status = status]
      BY <1>1 DEF SetStatus
    <2> QED
      BY <1>4, <2>1, <2>2 DEF Answering
  <1> QED
    BY <1>1, <1>3, <1>4, <1>6, <1>7, <1>8, <1>9, <1>10, <1>11, <1>12, HandlerInv

LEMMA SettleStep ==
    ASSUME IInv, NEW h \in Handlers, Succeed(h) \/ Fail(h) \/ SettleFails(h)
    PROVE  IInv'
  <1>1. /\ work[h] \in Work /\ runs \in [Requests -> Run] /\ work[h].id \in Requests
        /\ \A i \in Requests, s \in RunStatus : [runs[i] EXCEPT !.status = s] \in Run
    BY DEF IInv, TypeOK, Run, LocalsOK, LocalOK, Succeed, Fail, SettleFails
  <1>2. \A w \in Work : [work EXCEPT ![h] = w] \in [Handlers -> Work]
    BY DEF IInv, TypeOK
  <1>3. Idle \in Work /\ [work[h] EXCEPT !.pc = "fail"] \in Work
    BY <1>1, IdleTyped DEF Work, PCs
  <1>4. runs' \in [Requests -> Run]
    <2> HIDE DEF Run
    <2> QED
      BY <1>1 DEF Succeed, Fail, SettleFails, SetStatus, RunStatus
  <1>5. work' \in [Handlers -> Work]
    BY <1>2, <1>3 DEF Succeed, Fail, SettleFails, Leave, GoTo, Continue
  <1>6. faults' \in 0 .. MaxFaults /\ (faults' = 0 => faults = 0)
        /\ (SettleFails(h) => faults' # 0)
    BY BoundsAssumption DEF Succeed, Fail, SettleFails, Fault, IInv, TypeOK
  <1>7. TypeOK' /\ UNCHANGED <<documents, landed, lock>>
    BY <1>4, <1>5, <1>6 DEF IInv, TypeOK, Succeed, Fail, SettleFails
  <1>8. CASE Succeed(h)
    BY <1>6, <1>7, <1>8, SettleInv DEF Succeed
  <1>9. CASE Fail(h)
    BY <1>6, <1>7, <1>9, SettleInv DEF Fail
  <1>10. CASE SettleFails(h)
    <2>1. CASE work[h].pc = "succeed"
      BY <1>6, <1>7, <1>10, <2>1, SettleInv DEF SettleFails
    <2>2. CASE work[h].pc = "fail"
      BY <1>6, <1>7, <1>10, <2>2, SettleInv DEF SettleFails
    <2> QED
      BY <1>10, <2>1, <2>2 DEF SettleFails
  <1> QED
    BY <1>8, <1>9, <1>10

\* The conditional update moves the document past the revision that was read.
LEMMA SaveInv ==
    ASSUME IInv, NEW h \in Handlers,
           work[h].pc = "save", Current(h), WriteDocument(h),
           NEW label \in {"succeed", "fail"}, GoTo(h, label),
           UNCHANGED <<now, runs, lock>>,
           faults' \in 0 .. MaxFaults, faults' = 0 => faults = 0,
           label = "fail" => faults' # 0
    PROVE  IInv'
  <1> DEFINE w == [work[h] EXCEPT !.pc = label]
  <1>1. PICK id \in Requests, d \in Documents, r \in Nat :
            /\ id = work[h].id /\ id \in Readings /\ d = work[h].target
            /\ r = work[h].revision /\ r >= 1 /\ r < MaxRevision /\ r \in 0 .. MaxRevision
    BY DEF IInv, TypeOK, LocalsOK, LocalOK, Work
  <1>2. /\ work[h] \in Work /\ LocalOK(work[h]) /\ Answering(h) /\ AnswerOK(h) /\ lock # h
        /\ documents \in [Documents -> [revision: Revisions, deleted: BOOLEAN]]
        /\ landed \in [Readings -> 0 .. MaxRevision]
    BY DEF IInv, TypeOK, LocalsOK, LockOK, AnswersOK, Answering
  <1>3. w \in Work /\ w.pc = label /\ w.id = id /\ w.target = d /\ w.revision = r
        /\ w.by = work[h].by
    BY <1>1, <1>2 DEF Work, PCs
  <1>4. Continue(h, w)
    BY DEF GoTo
  <1> HIDE DEF w
  <1>5. /\ work' \in [Handlers -> Work] /\ work'[h] = w
        /\ \A g \in Handlers : g # h => work'[g] = work[g]
    BY <1>3, <1>4, Continued DEF IInv, TypeOK
  <1>6. /\ documents[d].revision = r
        /\ documents'[d] = [documents[d] EXCEPT !.revision = r + 1]
        /\ documents'[d].revision = r + 1
        /\ \A e \in Documents : e # d => documents'[e] = documents[e]
    BY <1>1, <1>2 DEF Current, WriteDocument
  <1>7. /\ landed'[id] = r /\ landed[id] = 0
        /\ \A i \in Readings : i # id => landed'[i] = landed[i]
    BY <1>1, <1>2 DEF WriteDocument, AnswerOK
  <1>8. documents' \in [Documents -> [revision: Revisions, deleted: BOOLEAN]]
    <2>1. documents'[d] \in [revision: Revisions, deleted: BOOLEAN]
      BY <1>1, <1>2, <1>6, BoundsAssumption DEF Revisions
    <2> QED
      BY <1>1, <1>2, <2>1 DEF WriteDocument, Current
  <1>9. landed' \in [Readings -> 0 .. MaxRevision]
    BY <1>1, <1>2 DEF WriteDocument
  <1>10. TypeOK' /\ Kept
    BY <1>5, <1>8, <1>9 DEF IInv, TypeOK, Kept
  <1>11. /\ runs[id].target = d /\ Reserved(id) /\ runs[id].status = "pending"
         /\ Reserved(id)'
    BY <1>1, <1>2 DEF AnswerOK, Reserved
  <1>12. \A i \in Readings : landed[i] # 0 =>
            /\ Reserved(i)' /\ runs[i].target \in Documents
            /\ landed[i] < documents[runs[i].target].revision
            /\ landed[i] \in Nat /\ documents[runs[i].target].revision \in Nat
    BY <1>2, BoundsAssumption DEF IInv, LandedOK, Reserved, Revisions
  <1>13. LandedOK'
    <2> SUFFICES ASSUME NEW i \in Readings, landed'[i] # 0
                 PROVE  /\ Reserved(i)' /\ runs[i].target \in Documents
                        /\ landed'[i] < documents'[runs[i].target].revision
      BY DEF LandedOK
    <2>1. CASE i = id
      <3>1. r < r + 1 /\ landed'[i] = r /\ documents'[d].revision = r + 1
        BY <1>1, <1>6, <1>7, <2>1
      <3>2. Reserved(i)' /\ runs[i].target = d
        BY <1>11, <2>1
      <3> QED
        BY <3>1, <3>2
    <2>2. CASE i # id
      <3>1. PICK e \in Documents : e = runs[i].target
        BY <1>7, <1>12, <2>2
      <3>2. landed'[i] < documents[e].revision /\ landed'[i] \in Nat
        BY <1>7, <1>12, <2>2, <3>1
      <3>3. landed'[i] < documents'[e].revision
        <4>1. CASE e = d
          <5>1. documents'[e].revision = r + 1 /\ documents[e].revision = r
            BY <1>6, <4>1
          <5> QED
            BY <1>1, <3>2, <5>1
        <4>2. CASE e # d
          BY <1>6, <3>2, <4>2
        <4> QED
          BY <4>1, <4>2
      <3> QED
        BY <1>7, <1>12, <2>2, <3>1, <3>3
    <2> QED
      BY <2>1, <2>2
  <1>14. EachRevisionReadOnce'
    <2> SUFFICES ASSUME NEW i \in Readings, NEW j \in Readings, i # j, landed'[i] # 0,
                        runs[i].target = runs[j].target
                 PROVE  landed'[i] # landed'[j]
      BY DEF EachRevisionReadOnce
    <2>1. CASE i = id
      <3>1. landed[j] # 0 => landed[j] < r
        BY <1>6, <1>11, <1>12, <2>1
      <3> QED
        BY <1>1, <1>7, <1>12, <2>1, <3>1
    <2>2. CASE j = id
      <3>1. landed[i] < r /\ landed[i] \in Nat
        BY <1>6, <1>7, <1>11, <1>12, <2>2
      <3> QED
        BY <1>1, <1>7, <2>2, <3>1
    <2>3. CASE i # id /\ j # id
      BY <1>7, <2>3 DEF IInv, EachRevisionReadOnce
    <2> QED
      BY <2>1, <2>2, <2>3
  <1>15. ReadingsTellFate'
    <2> SUFFICES ASSUME NEW i \in Readings
                 PROVE  /\ runs[i].status = "succeeded" => landed'[i] # 0
                        /\ runs[i].status \in {"none", "failed"} /\ faults' = 0
                              => landed'[i] = 0
      BY DEF ReadingsTellFate
    <2>1. CASE i = id
      BY <1>11, <2>1
    <2>2. CASE i # id
      BY <1>7, <2>2 DEF IInv, ReadingsTellFate
    <2> QED
      BY <2>1, <2>2
  <1>16. LocalOK(work[h])'
    BY <1>1, <1>3, <1>5, RequestsAssumption DEF LocalOK, IInv, LocalsOK
  <1>17. Answering(h)' /\ work'[h].id = id /\ work'[h].pc # "insert"
    BY <1>3, <1>5 DEF Answering
  <1>18. AnswerOK(h)'
    BY <1>1, <1>3, <1>5, <1>7, <1>11 DEF AnswerOK
  <1> QED
    BY <1>1, <1>2, <1>5, <1>7, <1>10, <1>13, <1>14, <1>15, <1>16, <1>17, <1>18, HandlerInv

LEMMA SaveStep ==
    ASSUME IInv, NEW h \in Handlers, SaveDocument(h) \/ SaveFails(h)
    PROVE  IInv'
  <1>1. CASE SaveDocument(h)
    <2>1. faults' \in 0 .. MaxFaults
      BY <1>1 DEF SaveDocument, IInv, TypeOK
    <2> QED
      BY <1>1, <2>1, SaveInv DEF SaveDocument
  <1>2. CASE SaveFails(h)
    <2>1. faults' \in 0 .. MaxFaults /\ faults' # 0
      BY <1>2, BoundsAssumption DEF SaveFails, Fault, IInv, TypeOK
    <2>2. CASE Current(h) /\ WriteDocument(h)
      BY <1>2, <2>1, <2>2, SaveInv DEF SaveFails
    <2>3. CASE UNCHANGED <<documents, landed>>
      <3>1. Answering(h)
        BY <1>2 DEF SaveFails, Answering
      <3> QED
        BY <1>2, <2>1, <2>3, <3>1, AnswerStep DEF SaveFails
    <2> QED
      BY <1>2, <2>2, <2>3 DEF SaveFails
  <1> QED
    BY <1>1, <1>2

-----------------------------------------------------------------------------
(* Around the handlers.                                                    *)

\* Nobody's run, lock or locals change.
LEMMA OutsideInv ==
    ASSUME IInv, TypeOK', UNCHANGED <<runs, lock, work, landed, faults>>,
           \A d \in Documents : documents[d].revision <= documents'[d].revision
    PROVE  IInv'
  <1>1. LandedOK'
    <2> SUFFICES ASSUME NEW i \in Readings, landed[i] # 0
                 PROVE  /\ Reserved(i) /\ runs[i].target \in Documents
                        /\ landed[i] < documents'[runs[i].target].revision
      BY DEF LandedOK, Reserved
    <2>1. PICK d \in Documents : d = runs[i].target
      BY DEF IInv, LandedOK
    <2>2. /\ Reserved(i) /\ landed[i] < documents[d].revision
          /\ landed[i] \in Nat /\ documents[d].revision \in Nat
          /\ documents'[d].revision \in Nat
      BY <2>1, BoundsAssumption DEF IInv, TypeOK, LandedOK, Revisions
    <2>3. documents[d].revision <= documents'[d].revision
      OBVIOUS
    <2>4. landed[i] < documents'[d].revision
      BY <2>2, <2>3
    <2> QED
      BY <2>1, <2>2, <2>4
  <1>2. LocalsOK' /\ AnswersOK' /\ AnsweredAlone'
    BY DEF IInv, LocalsOK, LocalOK, AnswersOK, AnswerOK, AnsweredAlone, Answering, Reserved
  <1>3. LockOK'
    BY DEF IInv, LockOK, Allowed, Reserved, OfDay, Since, Day, ThreadFree, DocumentFree
  <1>4. DailyLimitHolds' /\ HourlyLimitHolds'
    BY DEF IInv, DailyLimitHolds, HourlyLimitHolds, Within, Reserved, Day
  <1>5. ThreadsSerial' /\ EachRevisionReadOnce' /\ ReadingsTellFate' /\ PendingIsAttended'
    BY DEF IInv, ThreadsSerial, EachRevisionReadOnce, ReadingsTellFate, PendingIsAttended,
       Reserved, Answering
  <1> QED
    BY <1>1, <1>2, <1>3, <1>4, <1>5 DEF IInv

LEMMA ScreenInv ==
    ASSUME IInv, NEW d \in Documents, EditDocument(d) \/ DeleteDocument(d)
    PROVE  IInv'
  <1>1. /\ documents \in [Documents -> [revision: Revisions, deleted: BOOLEAN]]
        /\ documents[d].revision < MaxRevision
        /\ \E b \in BOOLEAN :
              documents' = [documents EXCEPT ![d] = [revision |-> documents[d].revision + 1,
                                                     deleted |-> b]]
    BY DEF IInv, TypeOK, EditDocument, DeleteDocument
  <1>2. documents[d].revision \in Nat /\ documents[d].revision + 1 \in Revisions
    BY <1>1, BoundsAssumption DEF Revisions
  <1>3. documents' \in [Documents -> [revision: Revisions, deleted: BOOLEAN]]
    BY <1>1, <1>2
  <1>4. \A e \in Documents : documents[e].revision <= documents'[e].revision
    <2> SUFFICES ASSUME NEW e \in Documents
                 PROVE  documents[e].revision <= documents'[e].revision
      OBVIOUS
    <2>1. documents[e].revision \in Nat
      BY <1>1, BoundsAssumption DEF Revisions
    <2> QED
      BY <1>1, <1>2, <2>1
  <1> QED
    BY <1>3, <1>4, OutsideInv DEF EditDocument, DeleteDocument, IInv, TypeOK

LEMMA TickInv ==
    ASSUME IInv, Tick
    PROVE  IInv'
  <1>1. now' \in Times
    BY BoundsAssumption DEF Tick, IInv, TypeOK, Times
  <1>2. \A d \in Documents : documents[d].revision <= documents'[d].revision
    BY BoundsAssumption DEF Tick, IInv, TypeOK, Revisions
  <1> QED
    BY <1>1, <1>2, OutsideInv DEF Tick, IInv, TypeOK

\* A run whose process died stays pending; nothing else of it is left.
LEMMA CrashInv ==
    ASSUME IInv, Crash
    PROVE  IInv'
  <1>1. \A h \in Handlers : work'[h] = Idle
    BY DEF Crash
  <1>2. faults' \in 0 .. MaxFaults /\ faults' # 0
    BY BoundsAssumption DEF Crash, Fault, IInv, TypeOK
  <1>3. TypeOK' /\ Kept
    BY <1>1, <1>2, IdleTyped DEF Crash, IInv, TypeOK, Kept
  <1>4. DailyLimitHolds' /\ HourlyLimitHolds' /\ ThreadsSerial'
    BY <1>3, KeptLimits
  <1>5. LocalsOK' /\ LockOK' /\ AnswersOK' /\ AnsweredAlone'
    BY <1>1, RequestsAssumption DEF Crash, LocalsOK, LocalOK, LockOK, AnswersOK, AnswerOK,
       AnsweredAlone, Answering, Idle
  <1>6. LandedOK' /\ EachRevisionReadOnce' /\ ReadingsTellFate' /\ PendingIsAttended'
    BY <1>2 DEF Crash, IInv, LandedOK, EachRevisionReadOnce, ReadingsTellFate,
       PendingIsAttended, Reserved
  <1> QED
    BY <1>3, <1>4, <1>5, <1>6 DEF IInv

-----------------------------------------------------------------------------
(* The invariant.                                                          *)

LEMMA InitIInv == Init => IInv
  <1> SUFFICES ASSUME Init PROVE IInv
    OBVIOUS
  <1>1. TypeOK
    BY IdleTyped, BoundsAssumption DEF Init, TypeOK, Times, Revisions
  <1>2. \A i \in Requests : ~Reserved(i) /\ runs[i].status = "none"
    BY DEF Init, Reserved, NoRun
  <1>3. LocalsOK /\ LockOK /\ AnswersOK /\ AnsweredAlone
    BY RequestsAssumption DEF Init, LocalsOK, LocalOK, LockOK, AnswersOK, AnswerOK,
       AnsweredAlone, Answering, Idle
  <1>4. LandedOK /\ EachRevisionReadOnce
    BY DEF Init, LandedOK, EachRevisionReadOnce
  <1>5. ThreadsSerial /\ PendingIsAttended /\ ReadingsTellFate
    BY <1>2 DEF Init, ThreadsSerial, PendingIsAttended, ReadingsTellFate, Requests
  <1>6. DailyLimitHolds
    <2> SUFFICES ASSUME NEW t \in Times
                 PROVE  Cardinality({i \in Requests : Reserved(i) /\ Day(runs[i].at) = Day(t)})
                            <= DailyLimit
      BY DEF DailyLimitHolds
    <2>1. {i \in Requests : Reserved(i) /\ Day(runs[i].at) = Day(t)} = {}
      BY <1>2
    <2> QED
      BY <2>1, FS_EmptySet, LimitsAssumption
  <1>7. HourlyLimitHolds
    <2> SUFFICES ASSUME NEW user \in Users, NEW start \in Times
                 PROVE  Cardinality(Within(user, start)) <= HourlyLimit
      BY DEF HourlyLimitHolds
    <2>1. Within(user, start) = {}
      BY <1>2 DEF Within
    <2> QED
      BY <2>1, FS_EmptySet, LimitsAssumption
  <1> QED
    BY <1>1, <1>3, <1>4, <1>5, <1>6, <1>7 DEF IInv

LEMMA StepIInv == IInv /\ [Next]_vars => IInv'
  <1> SUFFICES ASSUME IInv, [Next]_vars PROVE IInv'
    OBVIOUS
  <1>1. ASSUME NEW h \in Handlers, HandlerStep(h) PROVE IInv'
    BY <1>1, StampInv, CountInv, InsertInv, AskInv, SaveStep, SettleStep DEF HandlerStep
  <1>2. ASSUME NEW h \in Handlers,
               Begin(h) \/ ReservationFails(h) \/ SaveFails(h) \/ SettleFails(h)
        PROVE  IInv'
    BY <1>2, BeginInv, ReservationFailsInv, SaveStep, SettleStep
  <1>3. ASSUME NEW d \in Documents, EditDocument(d) \/ DeleteDocument(d) PROVE IInv'
    BY <1>3, ScreenInv
  <1>4. CASE Tick
    BY <1>4, TickInv
  <1>5. CASE Crash
    BY <1>5, CrashInv
  <1>6. CASE UNCHANGED vars
    <2>1. TypeOK' /\ \A d \in Documents : documents[d].revision <= documents'[d].revision
      BY <1>6, BoundsAssumption DEF vars, IInv, TypeOK, Revisions
    <2> QED
      BY <1>6, <2>1, OutsideInv DEF vars
  <1> QED
    BY <1>1, <1>2, <1>3, <1>4, <1>5, <1>6 DEF Next, Replay

\* The invariant of the reservation under the lock holds in every reachable
\* state.
THEOREM Invariance == Spec => []IInv
  BY InitIInv, StepIInv, PTL DEF Spec

\* Every variable keeps its type.
THEOREM TypeCorrect == Spec => []TypeOK
  <1>1. IInv => TypeOK
    BY DEF IInv
  <1> QED
    BY <1>1, Invariance, PTL

\* The team never exceeds its requests of a day, for any number of handlers
\* and whatever the order in which they stamp and wait for the lock.
THEOREM DailyQuotaKept == Spec => []DailyLimitHolds
  <1>1. IInv => DailyLimitHolds
    BY DEF IInv
  <1> QED
    BY <1>1, Invariance, PTL

\* No window of one hour holds more requests of a user than allowed, although
\* the count is made from a stamp older than the lock.
THEOREM HourlyQuotaKept == Spec => []HourlyLimitHolds
  <1>1. IInv => HourlyLimitHolds
    BY DEF IInv
  <1> QED
    BY <1>1, Invariance, PTL

\* Neither quota is exceeded, whatever the handlers, the clock and the lock do.
THEOREM QuotasKept == Spec => []QuotasHold
  <1>1. IInv => QuotasHold
    BY DEF IInv, QuotasHold
  <1> QED
    BY <1>1, Invariance, PTL

\* A conversation has one owner and one answer under way at most.
THEOREM ConversationsSerial == Spec => []ThreadsSerial
  <1>1. IInv => ThreadsSerial
    BY DEF IInv
  <1> QED
    BY <1>1, Invariance, PTL

\* Two readings never replace the same revision of a document, also when the
\* first was given up for lost.
THEOREM RevisionsReadOnce == Spec => []EachRevisionReadOnce
  <1>1. IInv => EachRevisionReadOnce
    BY DEF IInv
  <1> QED
    BY <1>1, Invariance, PTL

\* The status of a reading says what became of its document.
THEOREM ReadingsTell == Spec => []ReadingsTellFate
  <1>1. IInv => ReadingsTellFate
    BY DEF IInv
  <1> QED
    BY <1>1, Invariance, PTL

\* A revision is read once, and the runs and the documents agree on it.
THEOREM RevisionsTell == Spec => []RevisionsTellFate
  <1>1. IInv => RevisionsTellFate
    BY DEF IInv, RevisionsTellFate
  <1> QED
    BY <1>1, Invariance, PTL

\* Without a death or a failed statement no run is left behind.
THEOREM PendingAttended == Spec => []PendingIsAttended
  <1>1. IInv => PendingIsAttended
    BY DEF IInv
  <1> QED
    BY <1>1, Invariance, PTL
=============================================================================

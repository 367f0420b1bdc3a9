------------------------------ MODULE AiQuota ------------------------------
(***************************************************************************)
(* The AI requests of the auxiliary team: the e-mail assistant             *)
(* (auxiliary-chat.service.ts) and the reading of identity documents       *)
(* (auxiliary-document-ai.service.ts), which share one quota.              *)
(*                                                                         *)
(* A reservation is one transaction that first takes the advisory lock     *)
(* 74231021, then counts, then creates the row; nobody else inserts a run  *)
(* in between, but the runs already there may settle. The time a row is    *)
(* stamped with is read before the transaction waits for the lock, so      *)
(* stamps may go backwards in the order of the reservations.               *)
(***************************************************************************)
EXTENDS Naturals, FiniteSets

CONSTANTS
    Handlers,      \* concurrent executions of createReply / extract
    Nobody,        \* no handler, no user, no run
    Users,
    Chats,         \* request identifiers of the assistant
    Readings,      \* request identifiers of the readings
    Threads,       \* conversations with the assistant
    Documents,
    DailyLimit,    \* AUXILIARY_AI_DAILY_LIMIT
    HourlyLimit,   \* MAX_REQUESTS_PER_HOUR
    Hour,          \* the length of the window of HourlyLimit
    PendingSpan,   \* how long a pending reading blocks its document
    DayLength,
    MaxTime,       \* bound on the clock
    MaxRevision,   \* bound on the revision of a document
    MaxFaults      \* bound on process deaths and failed statements

Requests == Chats \cup Readings

ASSUME RequestsAssumption ==
    /\ IsFiniteSet(Requests)
    /\ Chats \cap Readings = {}
    /\ Threads \cap Documents = {}
    /\ Nobody \notin Handlers \cup Users \cup Requests \cup Threads \cup Documents

ASSUME LimitsAssumption ==
    /\ DailyLimit \in Nat \ {0}
    /\ HourlyLimit \in Nat \ {0}
    /\ Hour \in Nat
    /\ PendingSpan \in Nat
    /\ DayLength \in Nat \ {0}

ASSUME BoundsAssumption ==
    /\ MaxTime \in Nat
    /\ MaxRevision \in Nat \ {0}
    /\ MaxFaults \in Nat

VARIABLES
    now,        \* the clock
    runs,       \* the rows of the two tables of runs, by request identifier
    documents,  \* the auxop_documents rows
    lock,       \* the holder of the advisory lock
    work,       \* the locals of each handler
    landed,     \* history: the revision a reading was made of, once it is saved
    faults      \* process deaths and failed statements so far

vars == <<now, runs, documents, lock, work, landed, faults>>

Times == 0 .. MaxTime
Revisions == 1 .. MaxRevision
Targets == Threads \cup Documents
RunStatus == {"none", "pending", "succeeded", "failed"}
Run == [status: RunStatus, by: Users \cup {Nobody}, target: Targets \cup {Nobody},
        at: Times]
NoRun == [status |-> "none", by |-> Nobody, target |-> Nobody, at |-> 0]

PCs == {"idle", "stamp", "count", "insert", "call", "wait", "save", "succeed", "fail"}
Work == [pc: PCs, id: Requests \cup {Nobody}, by: Users \cup {Nobody},
         target: Targets \cup {Nobody}, revision: 0 .. MaxRevision, at: Times]
Idle == [pc |-> "idle", id |-> Nobody, by |-> Nobody, target |-> Nobody,
         revision |-> 0, at |-> 0]

TypeOK ==
    /\ now \in Times
    /\ runs \in [Requests -> Run]
    /\ documents \in [Documents -> [revision: Revisions, deleted: BOOLEAN]]
    /\ lock \in Handlers \cup {Nobody}
    /\ work \in [Handlers -> Work]
    /\ landed \in [Readings -> 0 .. MaxRevision]
    /\ faults \in 0 .. MaxFaults

Init ==
    /\ now = 0
    /\ runs = [i \in Requests |-> NoRun]
    /\ documents = [d \in Documents |-> [revision |-> 1, deleted |-> FALSE]]
    /\ lock = Nobody
    /\ work = [h \in Handlers |-> Idle]
    /\ landed = [i \in Readings |-> 0]
    /\ faults = 0

Continue(h, locals) == work' = [work EXCEPT ![h] = locals]
GoTo(h, label) == Continue(h, [work[h] EXCEPT !.pc = label])
Leave(h) == Continue(h, Idle)
SetStatus(id, status) == runs' = [runs EXCEPT ![id] = [runs[id] EXCEPT !.status = status]]
-----------------------------------------------------------------------------
(* Reserving.                                                              *)

Reserved(i) == runs[i].status # "none"
Day(t) == t \div DayLength

\* Mutant: the assistant's table is the only one counted.
OfDayChats(day) == {i \in Chats : Reserved(i) /\ Day(runs[i].at) = day}

\* The runs of a day, of both tables.
OfDay(day) == {i \in Requests : Reserved(i) /\ Day(runs[i].at) = day}

\* Mutant: only the successful runs count for the hour.
SinceSucceeded(user, at) ==
    {i \in Requests : /\ runs[i].status = "succeeded" /\ runs[i].by = user
                      /\ runs[i].at + Hour >= at}

\* The runs of a user from one hour before a time on.
Since(user, at) ==
    {i \in Requests : Reserved(i) /\ runs[i].by = user /\ runs[i].at + Hour >= at}

\* Mutant: the thread is taken for the user's without looking.
ThreadUnchecked(h) ==
    \A i \in Chats : runs[i].target = work[h].target => runs[i].status # "pending"

\* The assistant: one question at a time, and one owner, per conversation.
ThreadFree(h) ==
    \A i \in Chats : runs[i].target = work[h].target =>
        runs[i].status # "pending" /\ runs[i].by = work[h].by

\* A reading: nobody is reading the document, or they began too long ago.
DocumentFree(h) ==
    \A i \in Readings : runs[i].target = work[h].target /\ runs[i].status = "pending" =>
        runs[i].at + PendingSpan < work[h].at

Allowed(h) ==
    /\ ~Reserved(work[h].id)
    /\ Cardinality(OfDay(Day(work[h].at))) < DailyLimit
    /\ Cardinality(Since(work[h].by, work[h].at)) < HourlyLimit
    /\ work[h].id \in Chats => ThreadFree(h)
    /\ work[h].id \in Readings => DocumentFree(h)

\* A request whose identifier is used is answered from its row: the stored
\* answer, or 409. A run is never taken up again.
Replay(h) ==
    /\ work[h].pc = "idle"
    /\ \E i \in Requests : Reserved(i)
    /\ UNCHANGED vars

\* The document is read first; the clock once the identifier is seen to be new.
Begin(h) ==
    /\ work[h].pc = "idle"
    /\ \E user \in Users :
          \/ \E i \in Chats, t \in Threads :
                /\ ~Reserved(i)
                /\ Continue(h, [Idle EXCEPT !.pc = "stamp", !.id = i, !.by = user,
                                            !.target = t])
          \/ \E i \in Readings, d \in Documents :
                /\ ~Reserved(i) /\ ~documents[d].deleted
                /\ documents[d].revision < MaxRevision
                /\ Continue(h, [Idle EXCEPT !.pc = "stamp", !.id = i, !.by = user,
                                            !.target = d,
                                            !.revision = documents[d].revision])
    /\ UNCHANGED <<now, runs, documents, lock, landed, faults>>

Stamp(h) ==
    /\ work[h].pc = "stamp"
    /\ IF Reserved(work[h].id) THEN Leave(h)
       ELSE Continue(h, [work[h] EXCEPT !.pc = "count", !.at = now])
    /\ UNCHANGED <<now, runs, documents, lock, landed, faults>>

LockFree(h) == lock = Nobody

\* The lock and the counts.
Count(h) ==
    /\ work[h].pc = "count"
    /\ LockFree(h)
    /\ \/ /\ Allowed(h)
          /\ lock' = h
          /\ GoTo(h, "insert")
       \/ /\ ~Allowed(h)
          /\ Leave(h)
          /\ UNCHANGED lock
    /\ UNCHANGED <<now, runs, documents, landed, faults>>

\* Mutant: a status the other handlers do not know.
ReservationQueued(h) == [status |-> "queued", by |-> work[h].by,
                         target |-> work[h].target, at |-> work[h].at]

Reservation(h) == [status |-> "pending", by |-> work[h].by,
                   target |-> work[h].target, at |-> work[h].at]

\* The row, and the commit, which releases the lock.
Insert(h) ==
    /\ work[h].pc = "insert"
    /\ runs' = [runs EXCEPT ![work[h].id] = Reservation(h)]
    /\ lock' = Nobody
    /\ GoTo(h, "call")
    /\ UNCHANGED <<now, documents, landed, faults>>
-----------------------------------------------------------------------------
(* Answering.                                                              *)

\* The files are downloaded (a reading may fail there) and OpenAI is called.
CallOpenAi(h) ==
    /\ work[h].pc = "call"
    /\ \/ GoTo(h, "wait")
       \/ work[h].id \in Readings /\ GoTo(h, "fail")
    /\ UNCHANGED <<now, runs, documents, lock, landed, faults>>

\* An answer, or an error, a refusal, a time-out or an answer without the
\* structure that was asked for.
Receive(h) ==
    /\ work[h].pc = "wait"
    /\ \/ work[h].id \in Chats /\ GoTo(h, "succeed")
       \/ work[h].id \in Readings /\ GoTo(h, "save")
       \/ GoTo(h, "fail")
    /\ UNCHANGED <<now, runs, documents, lock, landed, faults>>

\* Mutant: the document is written by its identifier.
UnreadRevision(h) == ~documents[work[h].target].deleted

\* The update is conditional on the revision that was read.
Current(h) ==
    /\ documents[work[h].target].revision = work[h].revision
    /\ ~documents[work[h].target].deleted

WriteDocument(h) ==
    /\ documents' = [documents EXCEPT ![work[h].target] =
                        [documents[work[h].target] EXCEPT !.revision = @ + 1]]
    /\ landed' = [landed EXCEPT ![work[h].id] = work[h].revision]

SaveDocument(h) ==
    /\ work[h].pc = "save"
    /\ Current(h)
    /\ WriteDocument(h)
    /\ GoTo(h, "succeed")
    /\ UNCHANGED <<now, runs, lock, faults>>

\* Mutant: the conflict is answered and not recorded.
ConflictUnrecorded(h) ==
    /\ work[h].pc = "save"
    /\ ~Current(h)
    /\ Leave(h)
    /\ UNCHANGED <<now, runs, documents, lock, landed, faults>>

\* Mutant: nobody looks at how many rows were updated.
ConflictUnseen(h) ==
    /\ work[h].pc = "save"
    /\ ~Current(h)
    /\ GoTo(h, "succeed")
    /\ UNCHANGED <<now, runs, documents, lock, landed, faults>>

\* Somebody changed or deleted the document meanwhile.
Conflict(h) ==
    /\ work[h].pc = "save"
    /\ ~Current(h)
    /\ GoTo(h, "fail")
    /\ UNCHANGED <<now, runs, documents, lock, landed, faults>>

Succeed(h) ==
    /\ work[h].pc = "succeed"
    /\ SetStatus(work[h].id, "succeeded")
    /\ Leave(h)
    /\ UNCHANGED <<now, documents, lock, landed, faults>>

\* The catch, conditional on the run being pending still.
Fail(h) ==
    /\ work[h].pc = "fail"
    /\ IF runs[work[h].id].status = "pending" THEN SetStatus(work[h].id, "failed")
       ELSE UNCHANGED runs
    /\ Leave(h)
    /\ UNCHANGED <<now, documents, lock, landed, faults>>
-----------------------------------------------------------------------------
(* Around the handlers.                                                    *)

\* A person edits a document, conditional on the revision on the screen.
EditDocument(d) ==
    /\ ~documents[d].deleted
    /\ documents[d].revision < MaxRevision
    /\ documents' = [documents EXCEPT ![d] = [documents[d] EXCEPT !.revision = @ + 1]]
    /\ UNCHANGED <<now, runs, lock, work, landed, faults>>

DeleteDocument(d) ==
    /\ ~documents[d].deleted
    /\ documents[d].revision < MaxRevision
    /\ documents' = [documents EXCEPT ![d] = [revision |-> documents[d].revision + 1,
                                              deleted |-> TRUE]]
    /\ UNCHANGED <<now, runs, lock, work, landed, faults>>

Tick ==
    /\ now < MaxTime
    /\ now' = now + 1
    /\ UNCHANGED <<runs, documents, lock, work, landed, faults>>

Fault == faults < MaxFaults /\ faults' = faults + 1

\* The reservation is rolled back, or commits and the handler does not hear of
\* it: either way the catch believes that nothing is reserved.
ReservationFails(h) ==
    /\ Fault
    /\ work[h].pc = "insert"
    /\ \/ runs' = [runs EXCEPT ![work[h].id] = Reservation(h)]
       \/ UNCHANGED runs
    /\ lock' = Nobody
    /\ Leave(h)
    /\ UNCHANGED <<now, documents, landed>>

\* A later statement fails, or commits and its acknowledgement is lost.
SaveFails(h) ==
    /\ Fault
    /\ work[h].pc = "save"
    /\ (Current(h) /\ WriteDocument(h)) \/ UNCHANGED <<documents, landed>>
    /\ GoTo(h, "fail")
    /\ UNCHANGED <<now, runs, lock>>

SettleFails(h) ==
    /\ Fault
    /\ \/ /\ work[h].pc = "succeed"
          /\ SetStatus(work[h].id, "succeeded") \/ UNCHANGED runs
          /\ GoTo(h, "fail")
       \/ /\ work[h].pc = "fail"
          /\ Leave(h)
          /\ UNCHANGED runs
    /\ UNCHANGED <<now, documents, lock, landed>>

Crash ==
    /\ Fault
    /\ lock' = Nobody
    /\ work' = [h \in Handlers |-> Idle]
    /\ UNCHANGED <<now, runs, documents, landed>>
-----------------------------------------------------------------------------
HandlerStep(h) ==
    \/ Stamp(h) \/ Count(h) \/ Insert(h)
    \/ CallOpenAi(h) \/ Receive(h)
    \/ SaveDocument(h) \/ Conflict(h) \/ Succeed(h) \/ Fail(h)

Next ==
    \/ \E h \in Handlers :
          \/ Begin(h) \/ Replay(h) \/ HandlerStep(h)
          \/ ReservationFails(h) \/ SaveFails(h) \/ SettleFails(h)
    \/ \E d \in Documents : EditDocument(d) \/ DeleteDocument(d)
    \/ Tick
    \/ Crash

Spec == Init /\ [][Next]_vars
-----------------------------------------------------------------------------
(* Properties.                                                             *)

\* The quota of a day is never exceeded, whoever asks and in whatever order
\* the reservations wait for the lock.
DailyLimitHolds ==
    \A t \in Times :
        Cardinality({i \in Requests : Reserved(i) /\ Day(runs[i].at) = Day(t)}) <= DailyLimit

Answering(h) == work[h].pc \in {"call", "wait", "save", "succeed", "fail"}

Within(user, start) ==
    {i \in Requests : /\ Reserved(i) /\ runs[i].by = user
                      /\ start <= runs[i].at /\ runs[i].at <= start + Hour}

\* No hour, wherever it begins, holds more than HourlyLimit requests of one
\* user, although each is stamped before it waits for the lock and may be
\* reserved after a request with a later stamp.
HourlyLimitHolds ==
    \A user \in Users, start \in Times : Cardinality(Within(user, start)) <= HourlyLimit

\* The quota of the team and that of each user.
QuotasHold == DailyLimitHolds /\ HourlyLimitHolds

\* A conversation belongs to one user, who has one answer under way at most.
ThreadsSerial ==
    \A i, j \in Chats :
        Reserved(i) /\ Reserved(j) /\ runs[i].target = runs[j].target /\ i # j =>
            /\ runs[i].by = runs[j].by
            /\ ~(runs[i].status = "pending" /\ runs[j].status = "pending")

\* One revision of a document is replaced by one reading at most, also when a
\* slow reading outlived the time it blocks the document for.
EachRevisionReadOnce ==
    \A i, j \in Readings :
        i # j /\ landed[i] # 0 /\ runs[i].target = runs[j].target => landed[i] # landed[j]

\* A reading that is recorded as successful is in its document; one that is
\* recorded as failed is not, unless a statement failed after the document
\* was saved.
ReadingsTellFate ==
    \A i \in Readings :
        /\ runs[i].status = "succeeded" => landed[i] # 0
        /\ runs[i].status \in {"none", "failed"} /\ faults = 0 => landed[i] = 0

\* A reading lands on the revision it was made of, once, and says so.
RevisionsTellFate == EachRevisionReadOnce /\ ReadingsTellFate

\* Without faults a pending run has a handler working on it: no path of the
\* two handlers leaves a conversation blocked behind a run nobody will settle.
PendingIsAttended ==
    \A i \in Requests : runs[i].status = "pending" /\ faults = 0 =>
        \E h \in Handlers : work[h].id = i /\ Answering(h)
-----------------------------------------------------------------------------
(* The inductive invariant behind the properties.                          *)

\* What a handler with locals w was asked for.
LocalOK(w) ==
    /\ w.pc # "idle" =>
          /\ w.id \in Requests /\ w.by \in Users
          /\ w.id \in Chats => w.target \in Threads
          /\ w.id \in Readings =>
                w.target \in Documents /\ w.revision >= 1 /\ w.revision < MaxRevision
    /\ w.pc = "save" => w.id \in Readings

LocalsOK == \A h \in Handlers : LocalOK(work[h])

\* Whoever holds the lock has counted, and what was counted is still so.
LockOK ==
    \A h \in Handlers :
        /\ lock = h <=> work[h].pc = "insert"
        /\ lock = h => Allowed(h)

\* A reading is saved with the revision the document then left behind.
LandedOK ==
    \A i \in Readings : landed[i] # 0 =>
        /\ Reserved(i)
        /\ runs[i].target \in Documents
        /\ landed[i] < documents[runs[i].target].revision

\* What the handler of a run knows of it.
AnswerOK(h) ==
    Answering(h) =>
        /\ Reserved(work[h].id)
        /\ runs[work[h].id].target = work[h].target
        /\ work[h].pc # "fail" => runs[work[h].id].status = "pending"
        /\ work[h].id \in Readings =>
              /\ work[h].pc \in {"call", "wait", "save"} => landed[work[h].id] = 0
              /\ work[h].pc = "succeed" => landed[work[h].id] # 0
              /\ work[h].pc = "fail" /\ faults = 0 => landed[work[h].id] = 0

AnswersOK == \A h \in Handlers : AnswerOK(h)

\* A run has one handler at most.
AnsweredAlone ==
    \A g, h \in Handlers :
        Answering(g) /\ Answering(h) /\ work[g].id = work[h].id => g = h

IInv ==
    /\ TypeOK
    /\ LocalsOK
    /\ LockOK
    /\ LandedOK
    /\ AnswersOK
    /\ AnsweredAlone
    /\ DailyLimitHolds
    /\ HourlyLimitHolds
    /\ ThreadsSerial
    /\ EachRevisionReadOnce
    /\ ReadingsTellFate
    /\ PendingIsAttended
=============================================================================

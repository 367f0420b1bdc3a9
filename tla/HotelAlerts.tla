---------------------------- MODULE HotelAlerts ----------------------------
(***************************************************************************)
(* The alerts for a hotel that has to be paid at once: a scan of the inbox *)
(* every five minutes registers the thread and enqueues the alert that is  *)
(* due; a worker sends it to two telephones and records the level          *)
(* (google/gmail/gmail.service.ts, processors/pago-hotel.processor.ts,     *)
(* infrastructure/evolution-api, jobs/cron.service.ts). One thread.        *)
(*                                                                         *)
(* The queue keeps one job per identifier, also when it is done or has     *)
(* failed; a job that throws, or whose worker stops, is run again.         *)
(***************************************************************************)
EXTENDS Naturals, FiniteSets, Functions

CONSTANTS
    Scans,     \* executions of the scan that may overlap
    Phones,    \* the two numbers
    Attempts,  \* attempts of a job
    None       \* no record

Levels == 1 .. 3
HotelAlertsAssumption ==
    Attempts \in Nat \ {0} /\ None \notin [level: 0 .. 3, answered: BOOLEAN]

VARIABLES
    due,      \* the highest level whose delay has passed
    replied,  \* a message of the thread has the label SENT
    record,   \* the HotelImmediatePayment row
    scan,     \* what each scan is at
    job,      \* the job of each level
    worker,   \* what the worker is at: it runs one job at a time
    up,       \* the WhatsApp instance is connected
    tried,    \* history: how often the alert of each level was sent off
    reached,  \* history: the telephones that got each level
    repeats   \* history: attempts that failed after they had sent

vars == <<due, replied, record, scan, job, worker, up, tried, reached, repeats>>

Idle == [pc |-> "idle"]
JobStates == {"none", "waiting", "active", "completed", "failed"}

TypeOK ==
    /\ due \in Levels
    /\ replied \in BOOLEAN /\ up \in BOOLEAN
    /\ record = None \/ record \in [level: 0 .. 3, answered: BOOLEAN]
    /\ \A s \in Scans : scan[s] = Idle
         \/ (scan[s].pc \in {"read", "mark", "due"} /\ scan[s].replied \in BOOLEAN)
    /\ job \in [Levels -> [state: JobStates, made: 0 .. Attempts]]
    /\ worker = Idle \/ (worker.pc \in {"check", "send", "update"} /\ worker.level \in Levels)
    /\ tried \in [Levels -> 0 .. Attempts]
    /\ reached \in [Levels -> SUBSET Phones]
    /\ repeats \in Nat

Init ==
    /\ due = 1
    /\ replied = FALSE
    /\ record = None
    /\ scan = [s \in Scans |-> Idle]
    /\ job = [l \in Levels |-> [state |-> "none", made |-> 0]]
    /\ worker = Idle
    /\ up = TRUE
    /\ tried = [l \in Levels |-> 0]
    /\ reached = [l \in Levels |-> {}]
    /\ repeats = 0
-----------------------------------------------------------------------------
(* scan, processThread.                                                    *)

\* threads.get: the messages of the thread as they are.
BeginScan(s) ==
    /\ scan[s] = Idle
    /\ scan' = [scan EXCEPT ![s] = [pc |-> "read", replied |-> replied, level |-> 0]]
    /\ UNCHANGED <<due, replied, record, job, worker, up, tried, reached, repeats>>

\* The record is found or created; the insert of a second scan is refused.
ReadRecord(s) ==
    /\ scan[s] # Idle /\ scan[s].pc = "read"
    /\ record' = IF record = None THEN [level |-> 0, answered |-> FALSE] ELSE record
    /\ scan' = [scan EXCEPT ![s] =
                  IF record'.answered THEN Idle
                  ELSE [@ EXCEPT !.pc = IF scan[s].replied THEN "mark" ELSE "due", !.level = record'.level]]
    /\ UNCHANGED <<due, replied, job, worker, up, tried, reached, repeats>>

\* An answered thread is marked, and the alert that is due is looked for all
\* the same.
MarkAnswered(s) ==
    /\ scan[s] # Idle /\ scan[s].pc = "mark"
    /\ record' = [record EXCEPT !.answered = TRUE]
    /\ scan' = [scan EXCEPT ![s].pc = "due"]
    /\ UNCHANGED <<due, replied, job, worker, up, tried, reached, repeats>>

\* Mutant: the level whose delay has passed, whatever was notified.
DueByTime(level) == IF level = 3 THEN 0 ELSE due

\* getDueLevel: the next level, when its delay has passed.
getDueLevel(level) == IF level < 3 /\ level + 1 <= due THEN level + 1 ELSE 0

Enqueue(s) ==
    /\ scan[s] # Idle /\ scan[s].pc = "due"
    /\ LET l == getDueLevel(scan[s].level)
       IN  job' = IF l # 0 /\ job[l].state = "none"
                  THEN [job EXCEPT ![l] = [state |-> "waiting", made |-> 0]] ELSE job
    /\ scan' = [scan EXCEPT ![s] = Idle]
    /\ UNCHANGED <<due, replied, record, worker, up, tried, reached, repeats>>

\* Gmail or the database fails: the thread is left for the next scan.
ScanFails(s) ==
    /\ scan[s] # Idle
    /\ scan' = [scan EXCEPT ![s] = Idle]
    /\ UNCHANGED <<due, replied, record, job, worker, up, tried, reached, repeats>>
-----------------------------------------------------------------------------
(* process.                                                                *)

Take(l) ==
    /\ worker = Idle /\ job[l].state = "waiting"
    /\ job' = [job EXCEPT ![l] = [state |-> "active", made |-> @.made + 1]]
    /\ worker' = [pc |-> "check", level |-> l]
    /\ UNCHANGED <<due, replied, record, scan, up, tried, reached, repeats>>

\* An alert that is not needed any more is dropped. The instance is a method
\* that is not called, so its absence stops nothing here.
Check ==
    /\ worker # Idle /\ worker.pc = "check"
    /\ LET needed == ~record.answered /\ record.level < worker.level
       IN  IF needed
           THEN worker' = [worker EXCEPT !.pc = "send"] /\ UNCHANGED job
           ELSE /\ worker' = Idle
                /\ job' = [job EXCEPT ![worker.level].state = "completed"]
    /\ UNCHANGED <<due, replied, record, scan, up, tried, reached, repeats>>

\* enviarMensaje, to both: a failure is answered with false, and not thrown.
Send ==
    /\ worker # Idle /\ worker.pc = "send"
    /\ tried' = [tried EXCEPT ![worker.level] = @ + 1]
    /\ \E got \in SUBSET Phones :
         /\ got # {} => up
         /\ reached' = [reached EXCEPT ![worker.level] = @ \cup got]
    /\ worker' = [worker EXCEPT !.pc = "update"]
    /\ UNCHANGED <<due, replied, record, scan, job, up, repeats>>

Update ==
    /\ worker # Idle /\ worker.pc = "update"
    /\ record' = [record EXCEPT !.level = worker.level]
    /\ job' = [job EXCEPT ![worker.level].state = "completed"]
    /\ worker' = Idle
    /\ UNCHANGED <<due, replied, scan, up, tried, reached, repeats>>

\* A database error, or a worker that stops: the job is run again, up to its
\* attempts.
AttemptFails ==
    /\ worker # Idle
    /\ LET l == worker.level
       IN  job' = [job EXCEPT ![l].state = IF @ = "active" /\ job[l].made < Attempts
                                           THEN "waiting" ELSE "failed"]
    /\ repeats' = IF worker.pc = "update" THEN repeats + 1 ELSE repeats
    /\ worker' = Idle
    /\ UNCHANGED <<due, replied, record, scan, up, tried, reached>>
-----------------------------------------------------------------------------
TimePasses ==
    /\ due < 3
    /\ due' = due + 1
    /\ UNCHANGED <<replied, record, scan, job, worker, up, tried, reached, repeats>>

Reply ==
    /\ ~replied
    /\ replied' = TRUE
    /\ UNCHANGED <<due, record, scan, job, worker, up, tried, reached, repeats>>

InstanceChanges ==
    /\ up' = ~up
    /\ UNCHANGED <<due, replied, record, scan, job, worker, tried, reached, repeats>>

Next ==
    \/ \E s \in Scans : BeginScan(s) \/ ReadRecord(s) \/ MarkAnswered(s) \/ Enqueue(s) \/ ScanFails(s)
    \/ \E l \in Levels : Take(l)
    \/ Check \/ Send \/ Update \/ AttemptFails
    \/ TimePasses \/ Reply \/ InstanceChanges

Spec == Init /\ [][Next]_vars
-----------------------------------------------------------------------------
\* The alerts go up one level at a time, none before its delay, none of a
\* level before the one below is recorded; and one is sent off again only
\* after an attempt that failed once it had sent (getDueLevel, enqueueAlert,
\* process).
AlertsInOrder ==
    /\ \A l \in Levels : tried[l] > 0 =>
         /\ l <= due
         /\ \A k \in 1 .. l - 1 : tried[k] > 0 /\ record.level >= k
    /\ SumFunction([l \in Levels |-> IF tried[l] = 0 THEN 0 ELSE tried[l] - 1]) <= repeats

\* "Alerta nivel ${level} enviada": a level that is recorded as notified
\* reached a telephone (process, enviarMensaje).
NotifiedIsSent ==
    record # None => \A l \in 1 .. record.level : reached[l] # {}
=============================================================================

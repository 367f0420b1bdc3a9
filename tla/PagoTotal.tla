------------------------------ MODULE PagoTotal ------------------------------
(* The threads of e-mail about total payments: events queued one job a thread, *)
(* messages classified by patterns and then by OpenAI, and the rows the sheet  *)
(* fetches (pago-total.*.ts).  One thread.                                     *)
EXTENDS Naturals, Sequences, SequencesExt, FiniteSets

CONSTANTS
    MaxEvents,      \* bound: the events of the thread
    MaxMessages,    \* bound: the new messages of one event
    Attempts,       \* attempts of a job
    Readers,        \* requests for the sheet
    None

VARIABLES
    event,      \* the new messages of each event, oldest first
    thread,     \* the row of the thread: its state, the epoch, syncSheet
    job,        \* the job of each event
    worker,     \* the event under way and its messages still to be analysed
    sheet,      \* what each request for the sheet has read and not yet marked
    told,       \* the states the sheet was told, in order
    retried,    \* a job was tried again
    overlapped  \* two requests for the sheet ran together

vars == <<event, thread, job, worker, sheet, told, retried, overlapped>>

\* What the patterns see: no mention of "pago total", one of the patterns of
\* certainty, one of those to be sent to OpenAI, or none.
Kinds == {"unrelated", "certain", "likely", "other"}
States == {"SOLICITUD", "CONFIRMADO", "DESCARTADO", "REVISION"}
ForSheet == {"CONFIRMADO", "REVISION"}
Events == 1 .. MaxEvents
AtWork == [of : Nat, left : Seq(Kinds), openai : BOOLEAN]

PagoTotalAssumption ==
    /\ {MaxEvents, MaxMessages, Attempts} \subseteq Nat \ {0}
    /\ None \notin [state : States, epoch : Events, sync : BOOLEAN] \cup AtWork

TypeOK ==
    /\ event \in Seq(Seq(Kinds)) /\ Len(event) <= MaxEvents
    /\ thread = None \/ thread \in [state : States, epoch : Events, sync : BOOLEAN]
    /\ job \in [Events -> {"none", "waiting", "active", "completed", "failed"} \X (0 .. Attempts)]
    /\ worker = None \/
         (worker \in AtWork /\ worker.of \in DOMAIN event /\ (worker.openai => worker.left # <<>>))
    /\ sheet \in [Readers -> ForSheet \cup {"none", "idle"}]
    /\ told \in Seq(ForSheet)
    /\ {retried, overlapped} \subseteq BOOLEAN

Init ==
    /\ event = <<>> /\ thread = None /\ job = [e \in Events |-> <<"none", 0>>] /\ worker = None
    /\ sheet = [r \in Readers |-> "idle"] /\ told = <<>>
    /\ retried = FALSE /\ overlapped = FALSE

-----------------------------------------------------------------------------
RecibirEventos ==
    /\ Len(event) < MaxEvents
    /\ \E new \in BoundedSeq(Kinds, MaxMessages) : event' = Append(event, new)
    /\ job' = [job EXCEPT ![Len(event) + 1] = <<"waiting", 0>>]
    /\ UNCHANGED <<thread, worker, sheet, told, retried, overlapped>>

Ends(e, outcome) ==
    /\ worker' = None
    /\ job' = [job EXCEPT ![e][1] = outcome]

\* A thread not seen before is analysed whole; one with nothing to analyse is
\* left as it is.  The queue is first in, first out, but a job that failed waits
\* its delay, and others pass it.
Begin(e) ==
    /\ worker = None /\ job[e][1] = "waiting"
    /\ job[e][2] > 0 \/ \A n \in 1 .. e - 1 : job[n] # <<"waiting", 0>>
    /\ LET messages == IF thread = None THEN FlattenSeq(SubSeq(event, 1, e)) ELSE event[e] IN
         IF messages = <<>>
         THEN worker' = None /\ job' = [job EXCEPT ![e] = <<"completed", @[2] + 1>>]
         ELSE /\ worker' = [of |-> e, left |-> messages, openai |-> FALSE]
              /\ job' = [job EXCEPT ![e] = <<"active", @[2] + 1>>]
    /\ UNCHANGED <<event, thread, sheet, told, retried, overlapped>>

Upsert(state) ==
    thread' = [state |-> state, epoch |-> worker.of,
               sync |-> thread # None /\ thread.sync]

\* The patterns: their verdict is written, and OpenAI is asked all the same.
ClasificarPorRegex ==
    /\ worker # None /\ ~worker.openai /\ worker.left # <<>>
    /\ CASE Head(worker.left) = "unrelated" ->
              worker' = [worker EXCEPT !.left = Tail(@)] /\ UNCHANGED thread
         [] Head(worker.left) = "likely" ->
              worker' = [worker EXCEPT !.openai = TRUE] /\ UNCHANGED thread
         [] Head(worker.left) = "certain" ->
              worker' = [worker EXCEPT !.openai = TRUE] /\ Upsert("CONFIRMADO")
         [] OTHER -> worker' = [worker EXCEPT !.openai = TRUE] /\ Upsert("DESCARTADO")
    /\ UNCHANGED <<event, job, sheet, told, retried, overlapped>>

\* OpenAI: another matter, an answer of little confidence or an error goes on to
\* the next message; any other verdict is the last word.
ClasificarIntencion ==
    /\ worker # None /\ worker.openai
    /\ \/ /\ worker' = [worker EXCEPT !.left = Tail(@), !.openai = FALSE]
          /\ UNCHANGED <<thread, job>>
       \/ /\ \E state \in {"CONFIRMADO", "SOLICITUD", "REVISION"} : Upsert(state)
          /\ Ends(worker.of, "completed")
    /\ UNCHANGED <<event, sheet, told, retried, overlapped>>

SoloActualizarEpoch ==
    /\ worker # None /\ worker.left = <<>>
    /\ Upsert(IF thread = None THEN "DESCARTADO" ELSE thread.state)
    /\ Ends(worker.of, "completed")
    /\ UNCHANGED <<event, sheet, told, retried, overlapped>>

\* Mutant: a job that fails is tried again without end.
JobFailsForever ==
    /\ worker # None
    /\ Ends(worker.of, "waiting")
    /\ retried' = TRUE
    /\ UNCHANGED <<event, thread, sheet, told, overlapped>>

\* The database fails: the job is tried again after the others, or given up.
JobFails ==
    /\ worker # None
    /\ Ends(worker.of, IF job[worker.of][2] < Attempts THEN "waiting" ELSE "failed")
    /\ retried' = TRUE
    /\ UNCHANGED <<event, thread, sheet, told, overlapped>>

-----------------------------------------------------------------------------
Pending == thread # None /\ thread.state \in ForSheet /\ ~thread.sync
InCourse(r) == \E o \in Readers \ {r} : sheet[o] # "idle"

ReadForSheet(r) ==
    /\ sheet[r] = "idle" /\ Len(told) + Cardinality({o \in Readers : sheet[o] # "idle"}) < Cardinality(Readers)
    /\ sheet' = [sheet EXCEPT ![r] = IF Pending THEN thread.state ELSE "none"]
    /\ overlapped' = (overlapped \/ InCourse(r))
    /\ UNCHANGED <<event, thread, job, worker, told, retried>>

\* Mutant: the rows are answered and not marked.
AnswerUnmarked(r) ==
    /\ sheet[r] # "idle"
    /\ sheet' = [sheet EXCEPT ![r] = "idle"]
    /\ told' = IF sheet[r] = "none" THEN told ELSE Append(told, sheet[r])
    /\ UNCHANGED <<event, thread, job, worker, retried, overlapped>>

\* The rows read are marked, whatever became of them since.
MarkSynced(r) ==
    /\ sheet[r] # "idle"
    /\ sheet' = [sheet EXCEPT ![r] = "idle"]
    /\ IF sheet[r] = "none"
       THEN UNCHANGED <<thread, told>>
       ELSE thread' = [thread EXCEPT !.sync = TRUE] /\ told' = Append(told, sheet[r])
    /\ UNCHANGED <<event, job, worker, retried, overlapped>>

Next ==
    \/ RecibirEventos \/ \E e \in DOMAIN event : Begin(e)
    \/ ClasificarPorRegex \/ ClasificarIntencion \/ SoloActualizarEpoch \/ JobFails
    \/ \E r \in Readers : ReadForSheet(r) \/ MarkSynced(r)

Spec == Init /\ [][Next]_vars
-----------------------------------------------------------------------------
Verdicts(kinds) ==
    (IF "certain" \in kinds THEN {"CONFIRMADO"} ELSE {})
      \cup (IF kinds \subseteq {"unrelated"} THEN {} ELSE States \ {"DESCARTADO"})

(* The sheet is told of a thread once, and a thread is marked only if the      *)
(* sheet was told of it, unless two requests for the sheet overlapped; and it  *)
(* is told only of threads with a message about a total payment.               *)
SheetToldOnce ==
    /\ ~overlapped => Len(told) = (IF thread # None /\ thread.sync THEN 1 ELSE 0)
    /\ ToSet(told) \subseteq Verdicts(UNION {ToSet(event[e]) : e \in DOMAIN event})

(* Unless a job was tried again, after a later one, the events leave their     *)
(* mark in order: the epoch of the thread is never behind an event handled.    *)
EpochAdvances ==
    ~retried => \A e \in DOMAIN event :
        job[e][1] = "completed" /\ event[e] # <<>> => thread # None /\ thread.epoch >= e

ThreadToldOnce == SheetToldOnce /\ EpochAdvances
=============================================================================

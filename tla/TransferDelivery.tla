-------------------------- MODULE TransferDelivery --------------------------
(***************************************************************************)
(* One transfer request of one adviser, the handlers that edit and cancel *)
(* it (transfers.service.ts) and the handlers that send it to the         *)
(* provider by Gmail or WhatsApp (transfers-messaging.service.ts).        *)
(*                                                                         *)
(* A handler runs in the single Node process; every await of a database   *)
(* or HTTP call is a step of its own, and the handlers interleave there.  *)
(* The process may be killed (a deploy stops the container), which ends   *)
(* every handler and keeps the database and the calls already made.       *)
(***************************************************************************)
EXTENDS Naturals, FiniteSets

CONSTANTS
    Channels,    \* the channels in use, of "EMAIL" and "WHATSAPP"
    Senders,     \* concurrent executions of sendEmail / sendWhatsApp
    Editors,     \* concurrent executions of updateMine / cancelMine
    Emails,      \* Gmail accounts the adviser may connect
    Contacts,    \* contacts a provider row may hold
    Payloads,    \* contents of the request
    OpenStatus,  \* "IN_PROGRESS" and "CONFIRMED", which nothing here tells apart
    Instance,    \* the Evolution instance WhatsApp messages leave from
    NoConnection,  \* no row in transfer_gmail_connections
    NoProvider,    \* no active provider for the destination
    Unset,         \* a local not yet assigned
    MaxVersion,  \* bound on the version of the request
    MaxAttempt,  \* bound on the attempts at one message
    MaxFaults    \* bound on process deaths and failed database calls

ASSUME BoundsAssumption ==
    /\ MaxVersion \in Nat \ {0}
    /\ MaxAttempt \in Nat \ {0}
    /\ MaxFaults \in Nat

ASSUME ChannelsAssumption ==
    /\ Channels \subseteq {"EMAIL", "WHATSAPP"}
    /\ Channels # {}

ASSUME UnsetAssumption == Unset \notin Payloads

VARIABLES
    request,     \* the transfer_requests row
    payloadAt,   \* history: the content each version was written with
    lastEdit,    \* the newest event an edit or a cancellation appended
    provider,    \* the active transfer_providers row of the destination
    connection,  \* the adviser's transfer_gmail_connections row
    delivery,    \* the two delivery tables, by channel and version
    sentLog,     \* how many "sent" events were appended, by channel and version
    send,        \* the locals of each sending handler
    edit,        \* the locals of each editing handler
    calls,       \* every message handed to Gmail or Evolution, and its fate
    faults       \* process deaths and failed database calls so far

vars == <<request, payloadAt, lastEdit, provider, connection, delivery,
          sentLog, send, edit, calls, faults>>

Versions == 1 .. MaxVersion
RequestStatus == {"PENDING", "CANCELLED"} \cup OpenStatus
RowStatus == {"NONE", "SENDING", "FAILED", "UNCERTAIN", "SENT", "ACCEPTED"}
NoRow == [status |-> "NONE", attempt |-> 0]

\* The status that says the provider took the message.
Done(ch) == IF ch = "EMAIL" THEN "SENT" ELSE "ACCEPTED"

\* What became of a message: "rejected" is an HTTP 4xx, before anything was
\* sent; "noid" a 2xx without an identifier; the two errors a 5xx or a broken
\* connection, after or before the provider took the message.
Verdicts == {"pending", "ok", "noid", "rejected", "error_sent", "error_lost"}
Call == [by: Senders, ch: Channels, version: Versions, attempt: 1 .. MaxAttempt,
         payload: Payloads, to: Contacts, from: Emails \cup {Instance},
         verdict: Verdicts]
Delivered(c) == c.verdict \in {"ok", "noid", "error_sent"}

SendPC == {"idle", "provider", "sender", "row", "claim", "recheck", "call",
           "wait", "reauth", "recordTry", "recordLast"}
Sending == [pc: SendPC, ch: Channels, version: Versions,
            payload: Payloads \cup {Unset}, to: Contacts \cup {Unset},
            from: Emails \cup {Instance, Unset}, token: Emails \cup {Instance, Unset},
            attempt: 0 .. MaxAttempt, target: RowStatus]
IdleSend == [pc |-> "idle", ch |-> CHOOSE ch \in Channels : TRUE, version |-> 1, payload |-> Unset,
             to |-> Unset, from |-> Unset, token |-> Unset, attempt |-> 0,
             target |-> "NONE"]

Editing == [pc: {"idle", "update", "cancel"}, version: Versions,
            status: RequestStatus, payload: Payloads \cup {Unset},
            seen: RequestStatus]
IdleEdit == [pc |-> "idle", version |-> 1, status |-> "PENDING",
             payload |-> Unset, seen |-> "PENDING"]

Row(s) == delivery[send[s].ch][send[s].version]
SetRow(s, row) ==
    delivery' = [delivery EXCEPT ![send[s].ch] =
                    [delivery[send[s].ch] EXCEPT ![send[s].version] = row]]

TypeOK ==
    /\ request \in [status: RequestStatus, version: Versions, payload: Payloads]
    /\ payloadAt \in [Versions -> Payloads \cup {Unset}]
    /\ lastEdit \in {"created", "edited", "cancelled"} \cup RequestStatus
    /\ provider \in [channel: Channels, contact: Contacts] \cup {NoProvider}
    /\ connection \in [email: Emails, status: {"CONNECTED", "REAUTHORIZE"}]
                        \cup {NoConnection}
    /\ delivery \in [Channels -> [Versions ->
                        [status: RowStatus, attempt: 0 .. MaxAttempt]]]
    /\ sentLog \in [Channels -> [Versions -> Nat]]
    /\ send \in [Senders -> Sending]
    /\ edit \in [Editors -> Editing]
    /\ calls \in SUBSET Call
    /\ faults \in 0 .. MaxFaults

\* The state right after create(): version 1, "Solicitud registrada".
Init ==
    /\ request \in [status: {"PENDING"}, version: {1}, payload: Payloads]
    /\ payloadAt = [v \in Versions |-> IF v = 1 THEN request.payload ELSE Unset]
    /\ lastEdit = "created"
    /\ provider \in [channel: Channels, contact: Contacts] \cup {NoProvider}
    /\ connection \in [email: Emails, status: {"CONNECTED"}] \cup {NoConnection}
    /\ delivery = [ch \in Channels |-> [v \in Versions |-> NoRow]]
    /\ sentLog = [ch \in Channels |-> [v \in Versions |-> 0]]
    /\ send = [s \in Senders |-> IdleSend]
    /\ edit = [e \in Editors |-> IdleEdit]
    /\ calls = {}
    /\ faults = 0

requestVars == <<request, payloadAt, lastEdit>>
settingVars == <<provider, connection>>
rowVars == <<delivery, sentLog>>

-----------------------------------------------------------------------------
(* Editing the request.                                                    *)

\* updateMine, up to the read of the current row. The client sends the version
\* it was shown; an older one than the current can only lose, which is no step.
ReadForUpdate(e) ==
    /\ edit[e].pc = "idle"
    /\ \E st \in RequestStatus, p \in Payloads :
          edit' = [edit EXCEPT ![e] =
                      [pc |-> "update", version |-> request.version, status |-> st,
                       payload |-> p, seen |-> request.status]]
    /\ UNCHANGED <<requestVars, settingVars, rowVars, send, calls, faults>>

\* Mutant: the transaction writes by id alone.
WriteUpdateUnconditional(e) ==
    /\ edit[e].pc = "update"
    /\ request.version < MaxVersion
    /\ request' = [status |-> edit[e].status, version |-> request.version + 1,
                   payload |-> edit[e].payload]
    /\ payloadAt' = [payloadAt EXCEPT ![request.version + 1] = edit[e].payload]
    /\ lastEdit' = IF edit[e].seen # edit[e].status THEN edit[e].status ELSE "edited"
    /\ edit' = [edit EXCEPT ![e] = IdleEdit]
    /\ UNCHANGED <<settingVars, rowVars, send, calls, faults>>

\* Mutant: the version is not incremented.
WriteUpdateInPlace(e) ==
    /\ edit[e].pc = "update"
    /\ edit[e].version = request.version
    /\ request' = [status |-> edit[e].status, version |-> request.version,
                   payload |-> edit[e].payload]
    /\ payloadAt' = [payloadAt EXCEPT ![request.version] = edit[e].payload]
    /\ lastEdit' = IF edit[e].seen # edit[e].status THEN edit[e].status ELSE "edited"
    /\ edit' = [edit EXCEPT ![e] = IdleEdit]
    /\ UNCHANGED <<settingVars, rowVars, send, calls, faults>>

\* updateMine, the transaction: the write is conditional on the version, the
\* wording of the event on the status read before.
WriteUpdate(e) ==
    LET dto == edit[e] IN
    /\ dto.pc = "update"
    /\ dto.version = request.version
    /\ request.version < MaxVersion
    /\ request' = [status |-> dto.status, version |-> request.version + 1,
                   payload |-> dto.payload]
    /\ payloadAt' = [payloadAt EXCEPT ![request.version + 1] = dto.payload]
    /\ lastEdit' = IF dto.seen # dto.status THEN dto.status ELSE "edited"
    /\ edit' = [edit EXCEPT ![e] = IdleEdit]
    /\ UNCHANGED <<settingVars, rowVars, send, calls, faults>>

\* updateMine, no row matches: 409.
LoseUpdate(e) ==
    /\ edit[e].pc = "update"
    /\ edit[e].version # request.version
    /\ edit' = [edit EXCEPT ![e] = IdleEdit]
    /\ UNCHANGED <<requestVars, settingVars, rowVars, send, calls, faults>>

\* cancelMine, the read and the check of the status.
ReadForCancel(e) ==
    /\ edit[e].pc = "idle"
    /\ request.status = "PENDING"
    /\ edit' = [edit EXCEPT ![e] = [IdleEdit EXCEPT !.pc = "cancel"]]
    /\ UNCHANGED <<requestVars, settingVars, rowVars, send, calls, faults>>

\* cancelMine, the transaction: unconditional.
WriteCancel(e) ==
    /\ edit[e].pc = "cancel"
    /\ request.version < MaxVersion
    /\ request' = [request EXCEPT !.status = "CANCELLED",
                                  !.version = request.version + 1]
    /\ payloadAt' = [payloadAt EXCEPT ![request.version + 1] = request.payload]
    /\ lastEdit' = "cancelled"
    /\ edit' = [edit EXCEPT ![e] = IdleEdit]
    /\ UNCHANGED <<settingVars, rowVars, send, calls, faults>>

-----------------------------------------------------------------------------
(* Settings that change under a sending handler.                           *)

\* createProvider / updateProvider by an administrator.
ChangeProvider ==
    /\ provider' \in [channel: Channels, contact: Contacts] \cup {NoProvider}
    /\ provider' # provider
    /\ UNCHANGED <<requestVars, connection, rowVars, send, edit, calls, faults>>

\* The upsert at the end of finishGmail.
ConnectGmail ==
    /\ connection' \in [email: Emails, status: {"CONNECTED"}]
    /\ connection' # connection
    /\ UNCHANGED <<requestVars, provider, rowVars, send, edit, calls, faults>>

\* disconnectGmail.
DisconnectGmail ==
    /\ connection # NoConnection
    /\ connection' = NoConnection
    /\ UNCHANGED <<requestVars, provider, rowVars, send, edit, calls, faults>>

-----------------------------------------------------------------------------
(* Sending: the preview is built again, row by row, and compared with the  *)
(* one the adviser approved.                                               *)

Continue(s, locals) == send' = [send EXCEPT ![s] = locals]
GoTo(s, label) == Continue(s, [send[s] EXCEPT !.pc = label])
Leave(s) == Continue(s, IdleSend)

\* emailPreview / whatsappPreview: owned(). A cancelled request cannot be sent.
ReadRequest(s) ==
    /\ send[s].pc = "idle"
    /\ request.status # "CANCELLED"
    /\ \E ch \in Channels :
          Continue(s, [IdleSend EXCEPT !.pc = "provider", !.ch = ch,
                                       !.version = request.version,
                                       !.payload = request.payload])
    /\ UNCHANGED <<requestVars, settingVars, rowVars, edit, calls, faults>>

\* provider(): the destination must use this channel.
UsesChannel(ch) == provider # NoProvider /\ provider.channel = ch

ReadProvider(s) ==
    /\ send[s].pc = "provider"
    /\ \/ /\ UsesChannel(send[s].ch)
          /\ Continue(s, [send[s] EXCEPT !.pc = "sender", !.to = provider.contact])
       \/ /\ ~UsesChannel(send[s].ch)
          /\ Leave(s)
    /\ UNCHANGED <<requestVars, settingVars, rowVars, edit, calls, faults>>

\* The Gmail connection, or the health of the Evolution instance; then the
\* hash of version, recipients, sender and text is compared with the client's.
ReadSender(s) ==
    /\ send[s].pc = "sender"
    /\ \/ /\ send[s].ch = "EMAIL"
          /\ connection # NoConnection /\ connection.status = "CONNECTED"
          /\ Continue(s, [send[s] EXCEPT !.pc = "row", !.from = connection.email])
       \/ /\ send[s].ch = "WHATSAPP"
          /\ Continue(s, [send[s] EXCEPT !.pc = "row", !.from = Instance])
       \/ Leave(s)  \* not connected, or not the preview the client approved
    /\ UNCHANGED <<requestVars, settingVars, rowVars, edit, calls, faults>>

\* The delivery row of this version: a new one is claimed, a failed one only
\* on an explicit retry, every other one refused.
ReadRow(s) ==
    /\ send[s].pc = "row"
    /\ \/ /\ Row(s).status \in {"NONE", "FAILED"}
          /\ Row(s).attempt < MaxAttempt
          /\ Continue(s, [send[s] EXCEPT !.pc = "claim", !.attempt = Row(s).attempt])
       \/ /\ Row(s).status # "NONE"
          /\ Leave(s)
    /\ UNCHANGED <<requestVars, settingVars, rowVars, edit, calls, faults>>

\* Mutant: the retry is an update by key alone.
ClaimableByKey(s) ==
    \/ send[s].attempt = 0 /\ Row(s).status = "NONE"
    \/ send[s].attempt # 0 /\ Row(s).status # "NONE"

\* A create on the unique (request, version), or an updateMany conditional on
\* the failed status and the attempt that was read.
Claimable(s) ==
    \/ send[s].attempt = 0 /\ Row(s).status = "NONE"
    \/ /\ send[s].attempt # 0
       /\ Row(s).status = "FAILED"
       /\ Row(s).attempt = send[s].attempt

\* Mutant: a retry is claimed under a status the enum does not have.
WriteClaimRetrying(s) ==
    SetRow(s, [status |-> IF send[s].attempt = 0 THEN "SENDING" ELSE "RETRYING",
               attempt |-> send[s].attempt + 1])

WriteClaim(s) ==
    SetRow(s, [status |-> "SENDING", attempt |-> send[s].attempt + 1])

Claim(s) ==
    /\ send[s].pc = "claim"
    /\ Claimable(s)
    /\ WriteClaim(s)
    /\ Continue(s, [send[s] EXCEPT
                  !.pc = IF send[s].ch = "EMAIL" THEN "recheck" ELSE "call",
                  !.token = IF send[s].ch = "EMAIL" THEN Unset ELSE Instance,
                  !.attempt = send[s].attempt + 1])
    /\ UNCHANGED <<requestVars, settingVars, sentLog, edit, calls, faults>>

\* Another handler claimed it first: 409.
LoseClaim(s) ==
    /\ send[s].pc = "claim"
    /\ ~Claimable(s)
    /\ Leave(s)
    /\ UNCHANGED <<requestVars, settingVars, rowVars, edit, calls, faults>>

\* The claim is committed but its acknowledgement is lost: the catch answers
\* 409 and the row stays claimed by nobody.
ClaimUnacknowledged(s) ==
    /\ send[s].pc = "claim"
    /\ Claimable(s)
    /\ faults < MaxFaults
    /\ WriteClaim(s)
    /\ Leave(s)
    /\ faults' = faults + 1
    /\ UNCHANGED <<requestVars, settingVars, sentLog, edit, calls>>

\* Mutant: any connected account will do.
AnyAccount(s) == connection # NoConnection

\* sendEmail reads the connection again: the account must still be the one
\* of the preview, and its token is the one the message leaves with.
SameAccount(s) == connection # NoConnection /\ connection.email = send[s].from

Recheck(s) ==
    /\ send[s].pc = "recheck"
    /\ \/ /\ SameAccount(s)
          /\ Continue(s, [send[s] EXCEPT !.pc = "call", !.token = connection.email])
       \/ /\ ~SameAccount(s)
          /\ Continue(s, [send[s] EXCEPT !.pc = "recordLast", !.target = "FAILED"])
    /\ UNCHANGED <<requestVars, settingVars, rowVars, edit, calls, faults>>

CallProvider(s) ==
    /\ send[s].pc = "call"
    /\ calls' = calls \cup
          {[by |-> s, ch |-> send[s].ch, version |-> send[s].version,
            attempt |-> send[s].attempt, payload |-> send[s].payload,
            to |-> send[s].to, from |-> send[s].token, verdict |-> "pending"]}
    /\ GoTo(s, "wait")
    /\ UNCHANGED <<requestVars, settingVars, rowVars, edit, faults>>

\* Gmail or Evolution takes or refuses a message, at any time.
ProviderDecides(c) ==
    /\ c.verdict = "pending"
    /\ \E verdict \in Verdicts \ {"pending"} :
          calls' = (calls \ {c}) \cup {[c EXCEPT !.verdict = verdict]}
    /\ UNCHANGED <<requestVars, settingVars, rowVars, send, edit, faults>>

MyCall(s, c) ==
    /\ c.by = s
    /\ c.ch = send[s].ch
    /\ c.version = send[s].version
    /\ c.attempt = send[s].attempt

\* The answer arrives. A rejection is an exception for Gmail and a plain
\* response for Evolution, so only Evolution's is still recorded in the try.
Result(s, label, status) ==
    Continue(s, [send[s] EXCEPT !.pc = label, !.target = status])

Receive(s) ==
    /\ send[s].pc = "wait"
    /\ \E c \in calls :
          /\ MyCall(s, c)
          /\ \/ c.verdict = "ok" /\ Result(s, "recordTry", Done(send[s].ch))
             \/ c.verdict = "noid" /\ Result(s, "recordTry", "UNCERTAIN")
             \/ /\ c.verdict = "rejected"
                /\ \/ send[s].ch = "EMAIL" /\ Result(s, "reauth", "FAILED")
                   \/ send[s].ch = "EMAIL" /\ Result(s, "recordLast", "FAILED")
                   \/ send[s].ch = "WHATSAPP" /\ Result(s, "recordTry", "FAILED")
             \/ /\ c.verdict \in {"error_sent", "error_lost"}
                /\ \/ send[s].ch = "EMAIL" /\ Result(s, "recordLast", "UNCERTAIN")
                   \/ send[s].ch = "WHATSAPP" /\ Result(s, "recordTry", "UNCERTAIN")
    /\ UNCHANGED <<requestVars, settingVars, rowVars, edit, calls, faults>>

\* Mutant: no answer is taken for a failure.
GiveUpAsFailed(s) ==
    /\ send[s].pc = "wait"
    /\ Result(s, "recordLast", "FAILED")
    /\ UNCHANGED <<requestVars, settingVars, rowVars, edit, calls, faults>>

\* Mutant: no answer is not recorded.
GiveUpSilently(s) ==
    /\ send[s].pc = "wait"
    /\ Leave(s)
    /\ UNCHANGED <<requestVars, settingVars, rowVars, edit, calls, faults>>

\* No answer: the timeout of fetch, or a broken connection to Google.
GiveUp(s) ==
    /\ send[s].pc = "wait"
    /\ Result(s, "recordLast", "UNCERTAIN")
    /\ UNCHANGED <<requestVars, settingVars, rowVars, edit, calls, faults>>

\* Gmail refused the credentials: the connection is marked before recording.
MarkReauthorize(s) ==
    /\ send[s].pc = "reauth"
    /\ connection' = IF connection = NoConnection THEN NoConnection
                     ELSE [connection EXCEPT !.status = "REAUTHORIZE"]
    /\ GoTo(s, "recordLast")
    /\ UNCHANGED <<requestVars, provider, rowVars, edit, calls, faults>>

\* Mutant: the row is written without its event.
WriteRecordRowOnly(s) ==
    /\ SetRow(s, [Row(s) EXCEPT !.status = send[s].target])
    /\ UNCHANGED sentLog

\* record(): the row, by its key alone, and its event in one transaction.
WriteRecord(s) ==
    /\ SetRow(s, [Row(s) EXCEPT !.status = send[s].target])
    /\ sentLog' = IF send[s].target # Done(send[s].ch) THEN sentLog
                  ELSE [sentLog EXCEPT ![send[s].ch][send[s].version] = @ + 1]

Record(s) ==
    /\ send[s].pc \in {"recordTry", "recordLast"}
    /\ WriteRecord(s)
    /\ Leave(s)
    /\ UNCHANGED <<requestVars, settingVars, edit, calls, faults>>

\* The transaction fails, or commits and its acknowledgement is lost. Inside
\* the try the catch records the doubt; outside it the handler fails.
RecordFails(s) ==
    /\ send[s].pc \in {"recordTry", "recordLast"}
    /\ faults < MaxFaults
    /\ faults' = faults + 1
    /\ WriteRecord(s) \/ UNCHANGED rowVars
    /\ \/ send[s].pc = "recordTry" /\ Result(s, "recordLast", "UNCERTAIN")
       \/ send[s].pc = "recordLast" /\ Leave(s)
    /\ UNCHANGED <<requestVars, settingVars, edit, calls>>

\* The process dies; nothing resumes or repairs what its handlers were doing.
Crash ==
    /\ faults < MaxFaults
    /\ faults' = faults + 1
    /\ send' = [s \in Senders |-> IdleSend]
    /\ edit' = [e \in Editors |-> IdleEdit]
    /\ UNCHANGED <<requestVars, settingVars, rowVars, calls>>

-----------------------------------------------------------------------------
SenderStep(s) ==
    \/ ReadProvider(s) \/ ReadSender(s) \/ ReadRow(s)
    \/ Claim(s) \/ LoseClaim(s)
    \/ Recheck(s) \/ CallProvider(s) \/ Receive(s) \/ GiveUp(s)
    \/ MarkReauthorize(s) \/ Record(s)

SenderFault(s) == ClaimUnacknowledged(s) \/ RecordFails(s)

EditorStep(e) ==
    \/ ReadForUpdate(e) \/ WriteUpdate(e) \/ LoseUpdate(e)
    \/ ReadForCancel(e) \/ WriteCancel(e)

SettingStep == ChangeProvider \/ ConnectGmail \/ DisconnectGmail

Next ==
    \/ \E s \in Senders : ReadRequest(s) \/ SenderStep(s) \/ SenderFault(s)
    \/ \E e \in Editors : EditorStep(e)
    \/ \E c \in calls : ProviderDecides(c)
    \/ SettingStep
    \/ Crash

Spec == Init /\ [][Next]_vars

\* A handler that was started runs on: its next await completes.
FairSpec == Spec /\ \A s \in Senders : WF_vars(SenderStep(s))
-----------------------------------------------------------------------------
(* Properties.                                                             *)

SameMessage(c, d) == c.ch = d.ch /\ c.version = d.version

\* A version is handed to a channel again only when every earlier call for it
\* is known to have been refused: two handlers, a retry, a late answer or a
\* death of the process never put the same message in the provider's hands
\* twice (the claim and the UNCERTAIN status of sendEmail and sendWhatsApp).
NoResendInDoubt ==
    \A c, d \in calls :
        SameMessage(c, d) /\ c # d => "rejected" \in {c.verdict, d.verdict}

\* A row that says SENT or ACCEPTED has a message the provider took, and a row
\* that may be tried again has none that it took or still may take.
RowTellsFate ==
    \A ch \in Channels, v \in Versions :
        LET status == delivery[ch][v].status
            mine == {c \in calls : c.ch = ch /\ c.version = v}
        IN  /\ status = Done(ch) => \E c \in mine : Delivered(c)
            /\ status \in {"NONE", "FAILED"} =>
                  \A c \in mine : c.verdict = "rejected"

\* A message carries the content its version was written with, even when the
\* request was edited while the handler ran.
MessageIsItsVersion == \A c \in calls : c.payload = payloadAt[c.version]

\* A Gmail message leaves with the account the approved preview named, though
\* the adviser may connect another one while the handler runs.
SenderIsApproved ==
    [][\A c \in calls' \ calls :
          c.verdict = "pending" => c.from = send[c.by].from]_vars

\* The history of the request announces a version as sent at most once, and
\* whenever its row says so.
SentEventsMatch ==
    \A ch \in Channels, v \in Versions :
        /\ sentLog[ch][v] <= 1
        /\ delivery[ch][v].status = Done(ch) => sentLog[ch][v] = 1

\* The delivery row and the history tell, together, what became of a message.
HistoryTellsFate == RowTellsFate /\ SentEventsMatch

\* The event of an edit tells a change of status exactly when the status
\* changed, though it is worded from a row read before the transaction.
EventTellsTheChange ==
    [][request'.version # request.version /\ lastEdit' # "cancelled" =>
          lastEdit' = IF request'.status # request.status
                      THEN request'.status ELSE "edited"]_vars

\* However edits, cancellations and a send interleave, an edit is what its event
\* says and what is sent of it is what it wrote (updateMine, sendWhatsApp).
EditsStand == []MessageIsItsVersion /\ EventTellsTheChange

\* cancelMine refuses every request that is not pending ("Solo se pueden
\* cancelar solicitudes pendientes").
OnlyPendingCancelled ==
    [][request'.version # request.version /\ lastEdit' = "cancelled" =>
          request.status = "PENDING"]_vars

\* While no process dies and no database call fails, every claimed row gets a
\* result: a row stays SENDING for ever only after a fault, and there is none
\* of the code's own paths that forgets one.
SendsSettle ==
    \A ch \in Channels, v \in Versions :
        delivery[ch][v].status = "SENDING" /\ faults = 0
            ~> delivery[ch][v].status # "SENDING" \/ faults > 0

\* The detailed delivery tables implement the promise of SendOnce.
AbstractState(status) ==
    CASE status = "NONE" -> "none"
      [] status = "SENDING" -> "sending"
      [] status = "FAILED" -> "failed"
      [] status = "UNCERTAIN" -> "uncertain"
      [] OTHER -> "sent"

Once == INSTANCE SendOnce WITH
    Keys <- Channels \X Versions,
    state <- [k \in Channels \X Versions |->
                 AbstractState(delivery[k[1]][k[2]].status)],
    delivered <- [k \in Channels \X Versions |->
                     \E c \in calls : c.ch = k[1] /\ c.version = k[2] /\ Delivered(c)]

\* Each row of the two tables is a send-once cell: every step of every handler
\* is a step SendOnce allows or leaves its cells alone.
ImplementsSendOnce == Once!Spec
-----------------------------------------------------------------------------
(* The inductive invariant behind the safety properties.                   *)

\* A handler holds its row from the claim until it has recorded what it knows
\* for certain; the doubt recorded by a catch may come after that.
RecordPC == {"recordTry", "recordLast"}
Holder(s) ==
    \/ send[s].pc \in {"recheck", "call", "wait", "reauth"}
    \/ send[s].pc \in RecordPC /\ send[s].target \in {"FAILED", Done(send[s].ch)}

SameRow(s, t) == send[s].ch = send[t].ch /\ send[s].version = send[t].version
Mine(s) == {c \in calls : c.ch = send[s].ch /\ c.version = send[s].version}

EditorsOK ==
    \A e \in Editors : edit[e].pc = "update" => edit[e].payload \in Payloads

LocalOK(s) ==
    /\ send[s].pc = "claim" => send[s].attempt < MaxAttempt
    /\ send[s].pc \in {"sender", "row", "claim", "recheck", "call"} =>
          send[s].to \in Contacts
    /\ send[s].pc \in {"row", "claim", "recheck", "call"} =>
          send[s].from \in Emails \cup {Instance}
    /\ send[s].pc = "call" => send[s].token \in Emails \cup {Instance}
    /\ send[s].pc \in SendPC \ {"idle"} => send[s].payload \in Payloads
    /\ send[s].pc \in {"recheck", "call", "wait", "reauth"} \cup RecordPC =>
          send[s].attempt \in 1 .. MaxAttempt /\ Row(s).status # "NONE"
    /\ send[s].pc = "reauth" => send[s].target = "FAILED"
    /\ send[s].pc \in RecordPC =>
          send[s].target \in {"FAILED", "UNCERTAIN", Done(send[s].ch)}

LocalsOK == \A s \in Senders : LocalOK(s)

RowsOK ==
    \A ch \in Channels, v \in Versions :
        /\ delivery[ch][v].status = "NONE" => delivery[ch][v].attempt = 0
        /\ delivery[ch][v].status \in
              {"NONE", "SENDING", "FAILED", "UNCERTAIN", Done(ch)}

HoldersOwn ==
    \A s \in Senders : Holder(s) =>
        /\ Row(s).status \in {"SENDING", "UNCERTAIN"}
        /\ Row(s).attempt = send[s].attempt
        /\ \A t \in Senders : Holder(t) /\ SameRow(s, t) => t = s

Knows(s) ==
    /\ \/ send[s].pc \in {"recheck", "call", "reauth"}
       \/ send[s].pc \in RecordPC /\ send[s].target = "FAILED"
       => \A c \in Mine(s) : c.verdict = "rejected"
    /\ send[s].pc \in {"recheck", "call"} =>
          \A c \in Mine(s) : c.attempt < send[s].attempt
    /\ send[s].pc = "wait" =>
          \A c \in Mine(s) : c.verdict = "rejected" \/ MyCall(s, c)
    /\ send[s].pc \in RecordPC /\ send[s].target = Done(send[s].ch) =>
          \E c \in Mine(s) : Delivered(c)

HoldersKnow == \A s \in Senders : Knows(s)

CallsNumbered ==
    /\ \A c \in calls : c.attempt <= delivery[c.ch][c.version].attempt
    /\ \A c, d \in calls : SameMessage(c, d) /\ c.attempt = d.attempt => c = d

HoldersUnlogged ==
    /\ \A s \in Senders :
          Holder(s) => sentLog[send[s].ch][send[s].version] = 0
    /\ \A ch \in Channels, v \in Versions :
          delivery[ch][v].status \in {"NONE", "FAILED"} => sentLog[ch][v] = 0

\* Everything a claim relies on, as one inductive statement: a row is held by
\* at most one handler, and what the holder is about to record is true.
IInv ==
    /\ TypeOK
    /\ EditorsOK
    /\ LocalsOK
    /\ RowsOK
    /\ HoldersOwn
    /\ HoldersKnow
    /\ CallsNumbered
    /\ HoldersUnlogged
    /\ NoResendInDoubt
    /\ RowTellsFate
    /\ SentEventsMatch

\* What a message relies on to leave with the approved account: the instance is
\* the only sender of WhatsApp, and a token is held only for the account it is of.
SendersApproved ==
    \A s \in Senders :
        /\ send[s].pc \in {"row", "claim"} /\ send[s].ch = "WHATSAPP" =>
              send[s].from = Instance
        /\ send[s].pc = "call" => send[s].token = send[s].from

\* What the version stands for: nobody holds a version the row has not reached,
\* what is held or sent of one is what it was written with, and an editor that
\* was shown the current version was shown its status.
VersionsStand ==
    /\ payloadAt[request.version] = request.payload
    /\ \A s \in Senders : send[s].pc # "idle" =>
          /\ send[s].version <= request.version
          /\ send[s].payload = payloadAt[send[s].version]
    /\ \A e \in Editors : edit[e].pc = "update" =>
          /\ edit[e].version <= request.version
          /\ edit[e].version = request.version => edit[e].seen = request.status
    /\ \A c \in calls : c.version <= request.version
    /\ MessageIsItsVersion
=============================================================================

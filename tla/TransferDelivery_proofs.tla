---------------------- MODULE TransferDelivery_proofs ----------------------
(***************************************************************************)
(* Proofs about TransferDelivery for every number of handlers, versions,  *)
(* attempts and faults.                                                    *)
(***************************************************************************)
EXTENDS TransferDelivery, TLAPS

-----------------------------------------------------------------------------
(* Lemmas about the two ways a handler writes: its locals and its row.     *)

\* The record of an idle handler is well typed whatever channel it names.
LEMMA IdleSendTyped == IdleSend \in Sending
  <1>1. (CHOOSE ch \in Channels : TRUE) \in Channels
    BY ChannelsAssumption
  <1>2. 1 \in Versions /\ 0 \in 0 .. MaxAttempt
    BY BoundsAssumption DEF Versions
  <1> QED
    BY <1>1, <1>2 DEF IdleSend, Sending, SendPC, RowStatus

LEMMA IdleEditTyped == IdleEdit \in Editing
  BY BoundsAssumption DEF IdleEdit, Editing, Versions, RequestStatus

\* A step of one handler changes its own locals and nobody else's.
LEMMA Continued ==
    ASSUME send \in [Senders -> Sending], NEW s \in Senders,
           NEW r \in Sending, Continue(s, r)
    PROVE  /\ send' \in [Senders -> Sending]
           /\ send'[s] = r
           /\ \A t \in Senders : t # s => send'[t] = send[t]
  BY DEF Continue

RowType == [status: RowStatus, attempt: 0 .. MaxAttempt]

\* A write of one delivery row leaves every other row alone.
LEMMA RowWritten ==
    ASSUME delivery \in [Channels -> [Versions -> RowType]],
           send \in [Senders -> Sending],
           NEW s \in Senders, NEW row \in RowType, SetRow(s, row)
    PROVE  /\ delivery' \in [Channels -> [Versions -> RowType]]
           /\ delivery'[send[s].ch][send[s].version] = row
           /\ \A ch \in Channels, v \in Versions :
                 ch # send[s].ch \/ v # send[s].version =>
                     delivery'[ch][v] = delivery[ch][v]
  <1> DEFINE ch0 == send[s].ch
             v0 == send[s].version
             table == [delivery[ch0] EXCEPT ![v0] = row]
  <1>1. ch0 \in Channels /\ v0 \in Versions
    BY DEF Sending
  <1>2. delivery[ch0] \in [Versions -> RowType]
    BY <1>1
  <1>3. table \in [Versions -> RowType]
    BY <1>2
  <1>4. table[v0] = row /\ \A v \in Versions : v # v0 => table[v] = delivery[ch0][v]
    BY <1>1, <1>2
  <1>5. delivery' = [delivery EXCEPT ![ch0] = table]
    BY DEF SetRow
  <1> HIDE DEF ch0, v0, table
  <1>6. delivery' \in [Channels -> [Versions -> RowType]]
    BY <1>1, <1>3, <1>5
  <1>7. delivery'[ch0] = table /\ \A ch \in Channels : ch # ch0 => delivery'[ch] = delivery[ch]
    BY <1>1, <1>5
  <1> QED
    BY <1>1, <1>4, <1>6, <1>7 DEF ch0, v0

-----------------------------------------------------------------------------
(* Type correctness.                                                       *)

LEMMA InitTypeOK == Init => TypeOK
  <1> SUFFICES ASSUME Init PROVE TypeOK
    OBVIOUS
  <1> USE BoundsAssumption DEF Init, Versions
  <1>1. request \in [status: RequestStatus, version: Versions, payload: Payloads]
    BY DEF RequestStatus
  <1>2. payloadAt \in [Versions -> Payloads \cup {Unset}]
    BY <1>1
  <1>3. NoRow \in RowType
    BY DEF NoRow, RowStatus, RowType
  <1>4. delivery \in [Channels -> [Versions -> RowType]]
    BY <1>3
  <1>5. send \in [Senders -> Sending] /\ edit \in [Editors -> Editing]
    BY IdleSendTyped, IdleEditTyped
  <1>6. provider \in [channel: Channels, contact: Contacts] \cup {NoProvider}
    OBVIOUS
  <1>7. connection \in [email: Emails, status: {"CONNECTED", "REAUTHORIZE"}] \cup {NoConnection}
    OBVIOUS
  <1> QED
    BY <1>1, <1>2, <1>4, <1>5, <1>6, <1>7 DEF TypeOK, RowType

LEMMA EditorTypeOK ==
    ASSUME TypeOK, EditorsOK, NEW e \in Editors, EditorStep(e)
    PROVE  TypeOK' /\ EditorsOK'
  <1> USE BoundsAssumption, IdleEditTyped DEF requestVars, settingVars, rowVars
  <1>1. edit[e] \in Editing /\ request.version \in Versions
    BY DEF TypeOK
  <1>2. CASE ReadForUpdate(e)
    <2>1. PICK st \in RequestStatus, p \in Payloads :
             edit' = [edit EXCEPT ![e] =
                         [pc |-> "update", version |-> request.version, status |-> st,
                          payload |-> p, seen |-> request.status]]
      BY <1>2 DEF ReadForUpdate
    <2>3. [pc |-> "update", version |-> request.version, status |-> st,
           payload |-> p, seen |-> request.status] \in Editing
      BY <1>1 DEF TypeOK, Editing
    <2>4. edit' \in [Editors -> Editing]
      BY <2>1, <2>3 DEF TypeOK
    <2>5. EditorsOK'
      BY <2>1 DEF EditorsOK, TypeOK
    <2> QED
      BY <1>2, <2>4, <2>5 DEF ReadForUpdate, TypeOK
  <1>3. ASSUME edit' = [edit EXCEPT ![e] = IdleEdit]
        PROVE  edit' \in [Editors -> Editing] /\ EditorsOK'
    BY <1>3 DEF TypeOK, EditorsOK, IdleEdit
  <1>4. CASE WriteUpdate(e)
    <2>1. request.version + 1 \in Versions
      BY <1>1, <1>4 DEF WriteUpdate, Versions
    <2>2. edit[e].status \in RequestStatus
      BY <1>1 DEF Editing
    <2>3. edit[e].payload \in Payloads
      BY <1>4 DEF WriteUpdate, EditorsOK
    <2>4. request' \in [status: RequestStatus, version: Versions, payload: Payloads]
      BY <1>4, <2>1, <2>2, <2>3 DEF WriteUpdate
    <2>5. payloadAt' \in [Versions -> Payloads \cup {Unset}]
      BY <1>4, <2>1, <2>3 DEF WriteUpdate, TypeOK
    <2>6. lastEdit' \in {"created", "edited", "cancelled"} \cup RequestStatus
      BY <1>4, <2>2 DEF WriteUpdate
    <2> QED
      BY <1>3, <1>4, <2>4, <2>5, <2>6 DEF WriteUpdate, TypeOK
  <1>5. CASE LoseUpdate(e)
    BY <1>3, <1>5 DEF LoseUpdate, TypeOK
  <1>6. CASE ReadForCancel(e)
    <2>1. [IdleEdit EXCEPT !.pc = "cancel"] \in Editing
      BY DEF Editing
    <2>2. edit' \in [Editors -> Editing]
      BY <1>6, <2>1 DEF ReadForCancel, TypeOK
    <2>3. EditorsOK'
      BY <1>6 DEF ReadForCancel, EditorsOK, TypeOK, IdleEdit
    <2> QED
      BY <1>6, <2>2, <2>3 DEF ReadForCancel, TypeOK
  <1>7. CASE WriteCancel(e)
    <2>1. request.version + 1 \in Versions
      BY <1>1, <1>7 DEF WriteCancel, Versions
    <2>2. request' \in [status: RequestStatus, version: Versions, payload: Payloads]
      BY <1>7, <2>1 DEF WriteCancel, TypeOK, RequestStatus
    <2>3. payloadAt' \in [Versions -> Payloads \cup {Unset}]
      BY <1>7, <2>1 DEF WriteCancel, TypeOK
    <2> QED
      BY <1>3, <1>7, <2>2, <2>3 DEF WriteCancel, TypeOK
  <1> QED
    BY <1>2, <1>4, <1>5, <1>6, <1>7 DEF EditorStep

LEMMA SettingTypeOK ==
    ASSUME TypeOK, EditorsOK, SettingStep PROVE TypeOK' /\ EditorsOK'
  <1> USE DEF requestVars, settingVars, rowVars
  <1>1. CASE ChangeProvider
    BY <1>1 DEF ChangeProvider, TypeOK, EditorsOK
  <1>2. CASE ConnectGmail
    BY <1>2 DEF ConnectGmail, TypeOK, EditorsOK
  <1>3. CASE DisconnectGmail
    BY <1>3 DEF DisconnectGmail, TypeOK, EditorsOK
  <1> QED
    BY <1>1, <1>2, <1>3 DEF SettingStep

LEMMA DecisionTypeOK ==
    ASSUME TypeOK, EditorsOK, NEW c \in calls, ProviderDecides(c)
    PROVE  TypeOK' /\ EditorsOK'
  <1>1. c \in Call
    BY DEF TypeOK
  <1>2. ASSUME NEW x \in Verdicts PROVE [c EXCEPT !.verdict = x] \in Call
    BY <1>1 DEF Call
  <1>3. calls' \in SUBSET Call
    BY <1>2 DEF ProviderDecides, TypeOK
  <1> QED
    BY <1>3 DEF ProviderDecides, TypeOK, EditorsOK, requestVars, settingVars, rowVars

LEMMA CrashTypeOK ==
    ASSUME TypeOK, Crash PROVE TypeOK' /\ EditorsOK'
  <1>1. send' \in [Senders -> Sending] /\ edit' \in [Editors -> Editing]
    BY IdleSendTyped, IdleEditTyped DEF Crash
  <1>2. faults' \in 0 .. MaxFaults
    BY BoundsAssumption DEF Crash, TypeOK
  <1>3. EditorsOK'
    BY DEF Crash, EditorsOK, IdleEdit
  <1> QED
    BY <1>1, <1>2, <1>3 DEF Crash, TypeOK, requestVars, settingVars, rowVars

\* Only the locals of the handler, its row, its log entry, its call and the
\* connection can change in a step of a sending handler.
LEMMA SenderTypeOK ==
    ASSUME TypeOK, EditorsOK, LocalsOK, NEW s \in Senders,
           ReadRequest(s) \/ SenderStep(s) \/ SenderFault(s)
    PROVE  TypeOK' /\ EditorsOK'
  <1> USE BoundsAssumption DEF requestVars, settingVars, rowVars
  <1>1. send \in [Senders -> Sending] /\ send[s] \in Sending
    BY DEF TypeOK
  <1>2. delivery \in [Channels -> [Versions -> RowType]] /\ Row(s) \in RowType
    BY <1>1 DEF TypeOK, RowType, Row, Sending
  <1>3. ASSUME NEW r \in Sending, Continue(s, r) PROVE send' \in [Senders -> Sending]
    BY <1>1, <1>3, Continued
  <1>4. ASSUME NEW l \in SendPC, NEW t \in RowStatus, Result(s, l, t)
        PROVE  send' \in [Senders -> Sending]
    <2>1. [send[s] EXCEPT !.pc = l, !.target = t] \in Sending
      BY <1>1 DEF Sending
    <2> QED
      BY <1>3, <1>4, <2>1 DEF Result
  <1>5. ASSUME NEW l \in SendPC, GoTo(s, l) PROVE send' \in [Senders -> Sending]
    <2>1. [send[s] EXCEPT !.pc = l] \in Sending
      BY <1>1 DEF Sending
    <2> QED
      BY <1>3, <1>5, <2>1 DEF GoTo
  <1>6. ASSUME Leave(s) PROVE send' \in [Senders -> Sending]
    BY <1>3, <1>6, IdleSendTyped DEF Leave
  <1>7. ASSUME WriteRecord(s)
        PROVE  /\ delivery' \in [Channels -> [Versions -> RowType]]
               /\ sentLog' \in [Channels -> [Versions -> Nat]]
    <2>1. [Row(s) EXCEPT !.status = send[s].target] \in RowType
      BY <1>1, <1>2 DEF RowType, Sending
    <2>2. delivery' \in [Channels -> [Versions -> RowType]]
      BY <1>1, <1>2, <1>7, <2>1, RowWritten DEF WriteRecord
    <2>3. sentLog' \in [Channels -> [Versions -> Nat]]
      BY <1>1, <1>7 DEF WriteRecord, TypeOK, Sending
    <2> QED
      BY <2>2, <2>3
  <1>8. ASSUME WriteClaim(s), send[s].pc = "claim"
        PROVE  delivery' \in [Channels -> [Versions -> RowType]]
    <2>1. [status |-> "SENDING", attempt |-> send[s].attempt + 1] \in RowType
      BY <1>1, <1>8 DEF LocalsOK, LocalOK, Sending, RowType, RowStatus
    <2> QED
      BY <1>1, <1>2, <1>8, <2>1, RowWritten DEF WriteClaim
  <1>9. EditorsOK' /\ (send' \in [Senders -> Sending] =>
           \/ /\ UNCHANGED <<requestVars, settingVars, rowVars, edit, calls, faults>>
              /\ TypeOK'
           \/ ~UNCHANGED <<requestVars, settingVars, rowVars, edit, calls, faults>>)
    BY DEF TypeOK, EditorsOK, SenderStep, SenderFault, ReadRequest, ReadProvider,
       ReadSender, ReadRow, Claim, LoseClaim, ClaimUnacknowledged, Recheck,
       CallProvider, Receive, GiveUp, MarkReauthorize, Record, RecordFails
  <1>10. CASE ReadRequest(s)
    <2>1. PICK ch \in Channels :
             Continue(s, [IdleSend EXCEPT !.pc = "provider", !.ch = ch,
                             !.version = request.version, !.payload = request.payload])
      BY <1>10 DEF ReadRequest
    <2>2. [IdleSend EXCEPT !.pc = "provider", !.ch = ch,
              !.version = request.version, !.payload = request.payload] \in Sending
      BY IdleSendTyped DEF TypeOK, Sending, SendPC
    <2> QED
      BY <1>3, <1>9, <1>10, <2>1, <2>2 DEF ReadRequest
  <1>11. CASE ReadProvider(s)
    <2>1. CASE UsesChannel(send[s].ch) /\
               Continue(s, [send[s] EXCEPT !.pc = "sender", !.to = provider.contact])
      <3>1. [send[s] EXCEPT !.pc = "sender", !.to = provider.contact] \in Sending
        BY <1>1, <2>1 DEF UsesChannel, TypeOK, Sending, SendPC
      <3> QED
        BY <1>3, <1>9, <1>11, <2>1, <3>1 DEF ReadProvider
    <2> QED
      BY <1>6, <1>9, <1>11, <2>1 DEF ReadProvider
  <1>12. CASE ReadSender(s)
    <2>1. ASSUME NEW x \in Emails \cup {Instance},
                 Continue(s, [send[s] EXCEPT !.pc = "row", !.from = x])
          PROVE  send' \in [Senders -> Sending]
      <3>1. [send[s] EXCEPT !.pc = "row", !.from = x] \in Sending
        BY <1>1 DEF Sending, SendPC
      <3> QED
        BY <1>3, <2>1, <3>1
    <2>2. connection # NoConnection => connection.email \in Emails
      BY DEF TypeOK
    <2> QED
      BY <1>6, <1>9, <1>12, <2>1, <2>2 DEF ReadSender
  <1>13. CASE ReadRow(s)
    <2>1. [send[s] EXCEPT !.pc = "claim", !.attempt = Row(s).attempt] \in Sending
      BY <1>1, <1>2 DEF Sending, SendPC, RowType
    <2> QED
      BY <1>3, <1>6, <1>9, <1>13, <2>1 DEF ReadRow
  <1>14. CASE Claim(s)
    <2>1. [send[s] EXCEPT
              !.pc = IF send[s].ch = "EMAIL" THEN "recheck" ELSE "call",
              !.token = IF send[s].ch = "EMAIL" THEN Unset ELSE Instance,
              !.attempt = send[s].attempt + 1] \in Sending
      <3>1. send[s].attempt + 1 \in 0 .. MaxAttempt
        BY <1>1, <1>14 DEF Claim, LocalsOK, LocalOK, Sending
      <3> QED
        BY <1>1, <3>1 DEF Sending, SendPC
    <2>2. send' \in [Senders -> Sending]
      BY <1>3, <1>14, <2>1 DEF Claim
    <2> QED
      BY <1>8, <1>9, <1>14, <2>2 DEF Claim, TypeOK, RowType
  <1>15. CASE LoseClaim(s)
    BY <1>6, <1>9, <1>15 DEF LoseClaim
  <1>16. CASE ClaimUnacknowledged(s)
    <2>1. faults' \in 0 .. MaxFaults
      BY <1>16 DEF ClaimUnacknowledged, TypeOK
    <2> QED
      BY <1>6, <1>8, <1>9, <1>16, <2>1 DEF ClaimUnacknowledged, TypeOK, RowType
  <1>17. CASE Recheck(s)
    <2>1. CASE SameAccount(s) /\
               Continue(s, [send[s] EXCEPT !.pc = "call", !.token = connection.email])
      <3>1. [send[s] EXCEPT !.pc = "call", !.token = connection.email] \in Sending
        BY <1>1, <2>1 DEF SameAccount, TypeOK, Sending, SendPC
      <3> QED
        BY <1>3, <1>9, <1>17, <2>1, <3>1 DEF Recheck
    <2>2. CASE ~SameAccount(s) /\
               Continue(s, [send[s] EXCEPT !.pc = "recordLast", !.target = "FAILED"])
      <3>1. [send[s] EXCEPT !.pc = "recordLast", !.target = "FAILED"] \in Sending
        BY <1>1 DEF Sending, SendPC, RowStatus
      <3> QED
        BY <1>3, <1>9, <1>17, <2>2, <3>1 DEF Recheck
    <2> QED
      BY <1>17, <2>1, <2>2 DEF Recheck
  <1>18. CASE CallProvider(s)
    <2>1. send' \in [Senders -> Sending]
      BY <1>5, <1>18 DEF CallProvider, SendPC
    <2>2. calls' \in SUBSET Call
      <3>1. /\ send[s].payload \in Payloads
            /\ send[s].to \in Contacts
            /\ send[s].token \in Emails \cup {Instance}
            /\ send[s].attempt \in 1 .. MaxAttempt
        BY <1>18 DEF CallProvider, LocalsOK, LocalOK, SendPC
      <3>2. [by |-> s, ch |-> send[s].ch, version |-> send[s].version,
             attempt |-> send[s].attempt, payload |-> send[s].payload,
             to |-> send[s].to, from |-> send[s].token, verdict |-> "pending"] \in Call
        BY <1>1, <3>1 DEF Sending, Call, Verdicts
      <3> QED
        BY <1>18, <3>2 DEF CallProvider, TypeOK
    <2> QED
      BY <1>9, <1>18, <2>1, <2>2 DEF CallProvider, TypeOK
  <1>19. CASE Receive(s)
    <2>1. Done(send[s].ch) \in RowStatus
      BY DEF Done, RowStatus
    <2>2. send' \in [Senders -> Sending]
      BY <1>4, <1>19, <2>1 DEF Receive, SendPC, RowStatus
    <2> QED
      BY <1>9, <1>19, <2>2 DEF Receive
  <1>20. CASE GiveUp(s)
    BY <1>4, <1>9, <1>20 DEF GiveUp, SendPC, RowStatus
  <1>21. CASE MarkReauthorize(s)
    <2>1. connection' \in [email: Emails, status: {"CONNECTED", "REAUTHORIZE"}]
                             \cup {NoConnection}
      BY <1>21 DEF MarkReauthorize, TypeOK
    <2>2. send' \in [Senders -> Sending]
      BY <1>5, <1>21 DEF MarkReauthorize, SendPC
    <2> QED
      BY <1>9, <1>21, <2>1, <2>2 DEF MarkReauthorize, TypeOK
  <1>22. CASE Record(s)
    BY <1>6, <1>7, <1>9, <1>22 DEF Record, TypeOK, RowType
  <1>23. CASE RecordFails(s)
    <2>1. send' \in [Senders -> Sending]
      BY <1>4, <1>6, <1>23 DEF RecordFails, SendPC, RowStatus
    <2>2. faults' \in 0 .. MaxFaults
      BY <1>23 DEF RecordFails, TypeOK
    <2>3. /\ delivery' \in [Channels -> [Versions -> RowType]]
          /\ sentLog' \in [Channels -> [Versions -> Nat]]
      BY <1>7, <1>23 DEF RecordFails, TypeOK, RowType
    <2> QED
      BY <1>9, <1>23, <2>1, <2>2, <2>3 DEF RecordFails, TypeOK, RowType
  <1> QED
    BY <1>10, <1>11, <1>12, <1>13, <1>14, <1>15, <1>16, <1>17, <1>18, <1>19,
       <1>20, <1>21, <1>22, <1>23 DEF SenderStep, SenderFault
-----------------------------------------------------------------------------
(* The invariant of the claim.                                             *)

\* The part of IInv about rows, holders and calls.
RowInv ==
    /\ RowsOK
    /\ HoldersOwn
    /\ HoldersKnow
    /\ CallsNumbered
    /\ HoldersUnlogged
    /\ NoResendInDoubt
    /\ RowTellsFate
    /\ SentEventsMatch

\* A handler that holds nothing after the step disturbs nobody, as long as it
\* writes no row and makes no call.
LEMMA QuietWithoutRow ==
    ASSUME TypeOK, RowInv, NEW s \in Senders, NEW r \in Sending, Continue(s, r),
           UNCHANGED <<delivery, sentLog, calls>>,
           \/ r.pc \in {"idle", "provider", "sender", "row", "claim"}
           \/ r.pc \in RecordPC /\ r.target = "UNCERTAIN"
    PROVE  RowInv'
  <1>1. send \in [Senders -> Sending]
    BY DEF TypeOK
  <1>2. /\ send'[s] = r
        /\ \A t \in Senders : t # s => send'[t] = send[t]
    BY <1>1, Continued
  <1>3. ~Holder(s)'
    BY <1>2 DEF Holder, Done, RecordPC
  <1>4. \A t \in Senders : t # s => (Holder(t)' <=> Holder(t))
    BY <1>2 DEF Holder
  <1>5. \A t \in Senders : t # s => Row(t)' = Row(t) /\ Mine(t)' = Mine(t)
    BY <1>2 DEF Row, Mine
  <1>6. HoldersOwn'
    BY <1>2, <1>3, <1>4, <1>5 DEF RowInv, HoldersOwn, SameRow
  <1>7. HoldersKnow'
    <2>1. ASSUME NEW t \in Senders, t # s
          PROVE  /\ send'[t] = send[t]
                 /\ Mine(t)' = Mine(t)
                 /\ \A c \in calls : MyCall(t, c)' <=> MyCall(t, c)
      BY <1>2, <1>5, <2>1 DEF MyCall
    <2>2. ASSUME NEW t \in Senders, t # s PROVE Knows(t)'
      <3>1. Knows(t)
        BY DEF RowInv, HoldersKnow
      <3>2. Mine(t) \subseteq calls
        BY DEF Mine
      <3> QED
        BY <2>1, <2>2, <3>1, <3>2 DEF Knows, Delivered
    <2>3. Knows(s)'
      BY <1>2 DEF Knows, Done, RecordPC
    <2> QED
      BY <2>2, <2>3 DEF HoldersKnow
  <1>8. HoldersUnlogged'
    BY <1>2, <1>3, <1>4 DEF RowInv, HoldersUnlogged
  <1> QED
    BY <1>6, <1>7, <1>8 DEF RowInv, RowsOK, CallsNumbered, NoResendInDoubt,
       RowTellsFate, SentEventsMatch

\* A holder that goes on with the same row keeps what the others know, and has
\* to justify what it will record.
LEMMA QuietWithRow ==
    ASSUME TypeOK, RowInv, NEW s \in Senders, NEW r \in Sending, Continue(s, r),
           UNCHANGED <<delivery, sentLog, calls>>, Holder(s),
           r.ch = send[s].ch, r.version = send[s].version,
           r.attempt = send[s].attempt,
           \/ r.pc \in {"recheck", "call", "reauth"}
           \/ r.pc \in RecordPC /\ r.target = "FAILED"
           => \A c \in Mine(s) : c.verdict = "rejected",
           r.pc \in {"recheck", "call"} => \A c \in Mine(s) : c.attempt < r.attempt,
           r.pc # "wait",
           r.pc \in RecordPC /\ r.target = Done(r.ch) => \E c \in Mine(s) : Delivered(c)
    PROVE  RowInv'
  <1>1. send \in [Senders -> Sending]
    BY DEF TypeOK
  <1>2. /\ send'[s] = r
        /\ \A t \in Senders : t # s => send'[t] = send[t]
    BY <1>1, Continued
  <1>3. \A t \in Senders : Holder(t)' => Holder(t)
    BY <1>2 DEF Holder
  <1>4. \A t \in Senders : Row(t)' = Row(t) /\ Mine(t)' = Mine(t)
    BY <1>2 DEF Row, Mine
  <1>5. \A t \in Senders : /\ send'[t].ch = send[t].ch
                           /\ send'[t].version = send[t].version
                           /\ send'[t].attempt = send[t].attempt
    BY <1>2
  <1>6. HoldersOwn'
    BY <1>3, <1>4, <1>5 DEF RowInv, HoldersOwn, SameRow
  <1>7. HoldersKnow'
    <2>1. ASSUME NEW t \in Senders, t # s
          PROVE  /\ send'[t] = send[t]
                 /\ \A c \in calls : MyCall(t, c)' <=> MyCall(t, c)
      BY <1>2, <2>1 DEF MyCall
    <2>2. ASSUME NEW t \in Senders, t # s PROVE Knows(t)'
      <3>1. Knows(t)
        BY DEF RowInv, HoldersKnow
      <3>2. Mine(t) \subseteq calls
        BY DEF Mine
      <3> QED
        BY <1>4, <2>1, <2>2, <3>1, <3>2 DEF Knows, Delivered
    <2>3. Knows(s)'
      BY <1>2, <1>4 DEF Knows, Delivered
    <2> QED
      BY <2>2, <2>3 DEF HoldersKnow
  <1>8. HoldersUnlogged'
    BY <1>3, <1>5 DEF RowInv, HoldersUnlogged
  <1> QED
    BY <1>6, <1>7, <1>8 DEF RowInv, RowsOK, CallsNumbered, NoResendInDoubt,
       RowTellsFate, SentEventsMatch
\* The claim: a row that nobody holds and whose calls were all refused becomes
\* the row of this handler, or of nobody when the acknowledgement was lost.
LEMMA ClaimRowInv ==
    ASSUME TypeOK, LocalsOK, RowInv, NEW s \in Senders, NEW r \in Sending,
           send[s].pc = "claim", Claimable(s), WriteClaim(s), Continue(s, r),
           UNCHANGED <<sentLog, calls>>,
           \/ r.pc = "idle"
           \/ /\ r.pc \in {"recheck", "call"}
              /\ r.ch = send[s].ch
              /\ r.version = send[s].version
              /\ r.attempt = send[s].attempt + 1
    PROVE  RowInv'
  <1> DEFINE ch0 == send[s].ch
             v0 == send[s].version
             row == [status |-> "SENDING", attempt |-> send[s].attempt + 1]
  <1>1. /\ send \in [Senders -> Sending]
        /\ delivery \in [Channels -> [Versions -> RowType]]
        /\ calls \subseteq Call
    BY DEF TypeOK, RowType
  <1>2. ch0 \in Channels /\ v0 \in Versions /\ send[s].attempt \in Nat
    BY <1>1, BoundsAssumption DEF Sending
  <1>3. row \in RowType
    BY <1>1, BoundsAssumption DEF LocalsOK, LocalOK, Sending, RowType, RowStatus
  <1>4. /\ send'[s] = r
        /\ \A t \in Senders : t # s => send'[t] = send[t]
    BY <1>1, Continued
  <1>5. /\ delivery'[ch0][v0] = row
        /\ \A ch \in Channels, v \in Versions :
              ch # ch0 \/ v # v0 => delivery'[ch][v] = delivery[ch][v]
    BY <1>1, <1>3, RowWritten DEF WriteClaim
  <1>6. /\ delivery[ch0][v0].status \in {"NONE", "FAILED"}
        /\ delivery[ch0][v0].attempt = send[s].attempt
    BY <1>2 DEF Claimable, Row, RowInv, RowsOK
  <1>7. \A c \in calls : c.ch = ch0 /\ c.version = v0 =>
           c.verdict = "rejected" /\ c.attempt <= send[s].attempt
    BY <1>2, <1>6 DEF RowInv, RowTellsFate, CallsNumbered
  <1>8. \A t \in Senders : Holder(t) => send[t].ch # ch0 \/ send[t].version # v0
    BY <1>6 DEF RowInv, HoldersOwn, Row
  <1>9. sentLog[ch0][v0] = 0
    BY <1>2, <1>6 DEF RowInv, HoldersUnlogged
  <1> HIDE DEF ch0, v0, row
  <1>10. \A t \in Senders : t # s => (Holder(t)' <=> Holder(t))
    BY <1>4 DEF Holder
  <1>11. Holder(s)' => r.ch = ch0 /\ r.version = v0 /\ r.attempt = send[s].attempt + 1
    BY <1>4 DEF Holder, ch0, v0, RecordPC
  <1>12. \A t \in Senders : t # s /\ Holder(t) => Row(t)' = Row(t)
    BY <1>1, <1>4, <1>5, <1>8 DEF Row, Sending
  <1>13. HoldersOwn'
    <2>1. ASSUME NEW t \in Senders, Holder(t)', t # s
          PROVE  /\ Row(t)'.status \in {"SENDING", "UNCERTAIN"}
                 /\ Row(t)'.attempt = send'[t].attempt
                 /\ \A u \in Senders : Holder(u)' /\ SameRow(t, u)' => u = t
      <3>1. Holder(t) /\ Row(t)' = Row(t) /\ send'[t] = send[t]
        BY <1>4, <1>10, <1>12, <2>1
      <3>2. ASSUME NEW u \in Senders, Holder(u)', SameRow(t, u)' PROVE u = t
        <4>1. u # s
          BY <1>4, <1>8, <1>11, <3>1, <3>2 DEF SameRow
        <4> QED
          BY <1>4, <1>10, <3>1, <3>2, <4>1 DEF SameRow, RowInv, HoldersOwn
      <3> QED
        BY <3>1, <3>2 DEF RowInv, HoldersOwn
    <2>2. ASSUME Holder(s)'
          PROVE  /\ Row(s)'.status \in {"SENDING", "UNCERTAIN"}
                 /\ Row(s)'.attempt = send'[s].attempt
                 /\ \A u \in Senders : Holder(u)' /\ SameRow(s, u)' => u = s
      <3>1. Row(s)' = row
        BY <1>4, <1>5, <1>11, <2>2 DEF Row
      <3>2. row.status = "SENDING" /\ row.attempt = send[s].attempt + 1
        BY DEF row
      <3> QED
        BY <1>4, <1>8, <1>10, <1>11, <2>2, <3>1, <3>2 DEF SameRow
    <2> QED
      BY <2>1, <2>2 DEF HoldersOwn
  <1>14. HoldersKnow'
    <2>1. ASSUME NEW t \in Senders, t # s PROVE Knows(t)'
      <3>1. send'[t] = send[t] /\ Mine(t)' = Mine(t) /\ Mine(t) \subseteq calls
        BY <1>4, <2>1 DEF Mine
      <3>2. \A c \in calls : MyCall(t, c)' <=> MyCall(t, c)
        BY <3>1 DEF MyCall
      <3>3. Knows(t)
        BY DEF RowInv, HoldersKnow
      <3> QED
        BY <3>1, <3>2, <3>3 DEF Knows, Delivered
    <2>2. Knows(s)'
      <3>1. CASE r.pc = "idle"
        BY <1>4, <3>1 DEF Knows, RecordPC
      <3>2. CASE r.pc \in {"recheck", "call"}
        <4>1. \A c \in Mine(s)' : /\ c.verdict = "rejected"
                                  /\ c.attempt \in Nat
                                  /\ c.attempt <= send[s].attempt
          BY <1>1, <1>4, <1>7, <3>2, BoundsAssumption DEF Mine, ch0, v0, Call
        <4>2. r.attempt = send[s].attempt + 1
          BY <3>2
        <4> QED
          BY <1>2, <1>4, <3>2, <4>1, <4>2 DEF Knows, RecordPC
      <3> QED
        BY <3>1, <3>2
    <2> QED
      BY <2>1, <2>2 DEF HoldersKnow
  <1>15. RowsOK'
    <2>1. row.status = "SENDING"
      BY DEF row
    <2> QED
      BY <1>5, <2>1 DEF RowInv, RowsOK
  <1>16. CallsNumbered'
    <2>1. ASSUME NEW c \in calls PROVE c.attempt <= delivery'[c.ch][c.version].attempt
      <3>1. c \in Call /\ c.attempt \in Nat
        BY <1>1, BoundsAssumption DEF Call
      <3>2. CASE c.ch = ch0 /\ c.version = v0
        BY <1>2, <1>5, <1>7, <3>1, <3>2 DEF row
      <3>3. CASE ~(c.ch = ch0 /\ c.version = v0)
        BY <1>5, <3>1, <3>3 DEF Call, RowInv, CallsNumbered
      <3> QED
        BY <3>2, <3>3
    <2> QED
      BY <2>1 DEF RowInv, CallsNumbered, SameMessage
  <1>17. HoldersUnlogged'
    <2>1. ASSUME NEW t \in Senders, Holder(t)'
          PROVE  sentLog[send'[t].ch][send'[t].version] = 0
      <3>1. CASE t = s
        BY <1>4, <1>9, <1>11, <2>1, <3>1
      <3>2. CASE t # s
        BY <1>4, <1>10, <2>1, <3>2 DEF RowInv, HoldersUnlogged
      <3> QED
        BY <3>1, <3>2
    <2>2. row.status = "SENDING"
      BY DEF row
    <2>3. \A ch \in Channels, v \in Versions :
             delivery'[ch][v].status \in {"NONE", "FAILED"} => sentLog[ch][v] = 0
      BY <1>5, <2>2 DEF RowInv, HoldersUnlogged
    <2> QED
      BY <2>1, <2>3 DEF HoldersUnlogged
  <1>18. RowTellsFate' /\ SentEventsMatch'
    <2>1. row.status = "SENDING"
      BY DEF row
    <2>2. RowTellsFate'
      BY <1>5, <2>1 DEF RowInv, RowTellsFate, Done, Delivered
    <2>3. SentEventsMatch'
      BY <1>5, <2>1 DEF RowInv, SentEventsMatch, Done
    <2> QED
      BY <2>2, <2>3
  <1> QED
    BY <1>13, <1>14, <1>15, <1>16, <1>17, <1>18 DEF RowInv, NoResendInDoubt, SameMessage

\* The call: the holder adds the only call of its row that is not refused.
LEMMA CallRowInv ==
    ASSUME TypeOK, LocalsOK, RowInv, NEW s \in Senders, CallProvider(s)
    PROVE  RowInv'
  <1> DEFINE ch0 == send[s].ch
             v0 == send[s].version
             call == [by |-> s, ch |-> ch0, version |-> v0,
                      attempt |-> send[s].attempt, payload |-> send[s].payload,
                      to |-> send[s].to, from |-> send[s].token, verdict |-> "pending"]
  <1>1. send \in [Senders -> Sending] /\ send[s] \in Sending
    BY DEF TypeOK
  <1>2. /\ send[s].pc = "call"
        /\ calls' = calls \cup {call}
        /\ UNCHANGED <<delivery, sentLog>>
    BY DEF CallProvider, rowVars
  <1>3. /\ send'[s] = [send[s] EXCEPT !.pc = "wait"]
        /\ \A t \in Senders : t # s => send'[t] = send[t]
    BY <1>1 DEF CallProvider, GoTo, Continue
  <1>4. /\ send'[s].pc = "wait"
        /\ send'[s].ch = ch0
        /\ send'[s].version = v0
        /\ send'[s].attempt = send[s].attempt
    BY <1>1, <1>3 DEF Sending
  <1>5. /\ call.by = s
        /\ call.ch = ch0
        /\ call.version = v0
        /\ call.attempt = send[s].attempt
        /\ call.verdict = "pending"
    OBVIOUS
  <1>6. Holder(s)
    BY <1>2 DEF Holder
  <1>7. /\ delivery[ch0][v0].status \in {"SENDING", "UNCERTAIN"}
        /\ delivery[ch0][v0].attempt = send[s].attempt
    BY <1>6 DEF RowInv, HoldersOwn, Row
  <1>8. \A c \in calls : c.ch = ch0 /\ c.version = v0 =>
           c.verdict = "rejected" /\ c.attempt < send[s].attempt
    BY <1>2 DEF RowInv, HoldersKnow, Knows, Mine
  <1>9. send[s].attempt \in Nat /\ \A c \in calls : c.attempt \in Nat
    BY <1>1, BoundsAssumption DEF Sending, TypeOK, Call
  <1> HIDE DEF ch0, v0, call
  <1>10. \A t \in Senders : Holder(t)' <=> Holder(t)
    BY <1>2, <1>3, <1>4 DEF Holder
  <1>11. \A t \in Senders : /\ send'[t].ch = send[t].ch
                            /\ send'[t].version = send[t].version
                            /\ send'[t].attempt = send[t].attempt
    BY <1>3, <1>4 DEF ch0, v0
  <1>12. HoldersOwn'
    BY <1>2, <1>10, <1>11 DEF RowInv, HoldersOwn, SameRow, Row
  <1>13. HoldersKnow'
    <2>1. ASSUME NEW t \in Senders, t # s PROVE Knows(t)'
      <3>1. send'[t] = send[t]
        BY <1>3, <2>1
      <3>2. Knows(t)
        BY DEF RowInv, HoldersKnow
      <3>3. CASE Holder(t)
        <4>1. ~SameRow(s, t)
          BY <1>6, <2>1, <3>3 DEF RowInv, HoldersOwn
        <4>2. Mine(t)' = Mine(t)
          BY <1>2, <1>5, <3>1, <4>1 DEF Mine, SameRow, ch0, v0
        <4>3. \A c \in Mine(t) : MyCall(t, c)' <=> MyCall(t, c)
          BY <3>1 DEF MyCall
        <4> QED
          BY <3>1, <3>2, <4>2, <4>3 DEF Knows, Delivered
      <3>4. CASE ~Holder(t)
        BY <3>1, <3>4 DEF Knows, Holder
      <3> QED
        BY <3>3, <3>4
    <2>2. Knows(s)'
      <3>1. \A c \in Mine(s)' : c.verdict = "rejected" \/ MyCall(s, c)'
        BY <1>2, <1>4, <1>5, <1>8 DEF Mine, MyCall
      <3> QED
        BY <1>4, <3>1 DEF Knows, RecordPC
    <2> QED
      BY <2>1, <2>2 DEF HoldersKnow
  <1>14. CallsNumbered'
    <2>1. \A c \in calls' : c.attempt <= delivery[c.ch][c.version].attempt
      BY <1>2, <1>5, <1>7, <1>9 DEF RowInv, CallsNumbered
    <2>2. \A c, d \in calls' : SameMessage(c, d) /\ c.attempt = d.attempt => c = d
      BY <1>2, <1>5, <1>8, <1>9 DEF RowInv, CallsNumbered, SameMessage
    <2> QED
      BY <1>2, <2>1, <2>2 DEF CallsNumbered, SameMessage
  <1>15. NoResendInDoubt'
    BY <1>2, <1>5, <1>8 DEF RowInv, NoResendInDoubt, SameMessage
  <1>16. RowTellsFate'
    BY <1>2, <1>5, <1>7 DEF RowInv, RowTellsFate, Delivered
  <1>17. HoldersUnlogged'
    BY <1>2, <1>10, <1>11 DEF RowInv, HoldersUnlogged
  <1> QED
    BY <1>2, <1>12, <1>13, <1>14, <1>15, <1>16, <1>17
       DEF RowInv, RowsOK, SentEventsMatch
\* The provider decides about the one call of a row that is not refused.
LEMMA DecisionRowInv ==
    ASSUME TypeOK, RowInv, NEW c \in calls, ProviderDecides(c)
    PROVE  RowInv'
  <1>1. PICK x \in Verdicts \ {"pending"} :
           calls' = (calls \ {c}) \cup {[c EXCEPT !.verdict = x]}
    BY DEF ProviderDecides
  <1> DEFINE d == [c EXCEPT !.verdict = x]
  <1>2. c \in Call /\ c.verdict = "pending"
    BY DEF TypeOK, ProviderDecides
  <1>3. /\ d.by = c.by /\ d.ch = c.ch /\ d.version = c.version
        /\ d.attempt = c.attempt /\ d.verdict = x
        /\ d \in Call
    BY <1>2 DEF Call
  <1>4. calls' = (calls \ {c}) \cup {d}
    BY <1>1
  <1>5. UNCHANGED <<delivery, sentLog, send>>
    BY DEF ProviderDecides, rowVars
  <1> HIDE DEF d
  <1>6. \A e \in calls : e # c /\ SameMessage(c, e) => e.verdict = "rejected"
    BY <1>2 DEF RowInv, NoResendInDoubt
  <1>7. HoldersKnow'
    <2>1. ASSUME NEW t \in Senders PROVE Knows(t)'
      <3>1. Knows(t) /\ send'[t] = send[t]
        BY <1>5 DEF RowInv, HoldersKnow
      <3>2. CASE c \in Mine(t)
        <4>1. \A e \in Mine(t)' : e = d \/ e.verdict = "rejected"
          BY <1>4, <1>6, <3>1, <3>2 DEF Mine, SameMessage
        <4>2. d \in Mine(t)'
          BY <1>3, <1>4, <3>1, <3>2 DEF Mine
        <4>3. ~(send[t].pc \in {"recheck", "call", "reauth"})
              /\ ~(send[t].pc \in RecordPC /\ send[t].target = "FAILED")
          BY <1>2, <3>1, <3>2 DEF Knows
        <4>4. send[t].pc = "wait" => MyCall(t, c)
          BY <1>2, <3>1, <3>2 DEF Knows
        <4>5. MyCall(t, c) => MyCall(t, d)'
          BY <1>3, <3>1 DEF MyCall
        <4>6. ASSUME NEW e \in Mine(t), Delivered(e) PROVE e \in Mine(t)'
          BY <1>2, <1>4, <3>1, <4>6 DEF Mine, Delivered
        <4> QED
          BY <3>1, <4>1, <4>3, <4>4, <4>5, <4>6 DEF Knows, Delivered
      <3>3. CASE c \notin Mine(t)
        <4>1. Mine(t)' = Mine(t)
          BY <1>3, <1>4, <3>1, <3>3 DEF Mine
        <4>2. \A e \in Mine(t) : MyCall(t, e)' <=> MyCall(t, e)
          BY <3>1 DEF MyCall
        <4> QED
          BY <3>1, <4>1, <4>2 DEF Knows, Delivered
      <3> QED
        BY <3>2, <3>3
    <2> QED
      BY <2>1 DEF HoldersKnow
  <1>8. CallsNumbered'
    <2>1. \A e \in calls' : e.attempt <= delivery[e.ch][e.version].attempt
      BY <1>3, <1>4 DEF RowInv, CallsNumbered
    <2>2. \A e, f \in calls' : SameMessage(e, f) /\ e.attempt = f.attempt => e = f
      BY <1>3, <1>4 DEF RowInv, CallsNumbered, SameMessage
    <2> QED
      BY <1>5, <2>1, <2>2 DEF CallsNumbered, SameMessage
  <1>9. NoResendInDoubt'
    BY <1>3, <1>4, <1>6 DEF RowInv, NoResendInDoubt, SameMessage
  <1>10. RowTellsFate'
    <2>1. ASSUME NEW ch \in Channels, NEW v \in Versions, delivery[ch][v].status = Done(ch)
          PROVE  \E e \in calls' : e.ch = ch /\ e.version = v /\ Delivered(e)
      <3>1. PICK e \in calls : e.ch = ch /\ e.version = v /\ Delivered(e)
        BY <2>1 DEF RowInv, RowTellsFate
      <3> QED
        BY <1>2, <1>4, <3>1 DEF Delivered
    <2>2. ASSUME NEW ch \in Channels, NEW v \in Versions,
                 delivery[ch][v].status \in {"NONE", "FAILED"},
                 NEW e \in calls', e.ch = ch, e.version = v
          PROVE  e.verdict = "rejected"
      <3>1. \A g \in calls : g.ch = ch /\ g.version = v => g.verdict = "rejected"
        BY <2>2 DEF RowInv, RowTellsFate
      <3> QED
        BY <1>2, <1>3, <1>4, <2>2, <3>1
    <2>3. \A e : Delivered(e)' <=> Delivered(e)
      BY DEF Delivered
    <2> QED
      BY <1>5, <2>1, <2>2, <2>3 DEF RowTellsFate
  <1>11. HoldersOwn' /\ HoldersUnlogged'
    BY <1>5 DEF RowInv, HoldersOwn, HoldersUnlogged, Holder, Row, SameRow
  <1> QED
    BY <1>5, <1>7, <1>8, <1>9, <1>10, <1>11 DEF RowInv, RowsOK, SentEventsMatch

\* A handler ends by writing its row: what it holds it knows, and what it no
\* longer holds it can only put in doubt.
LEMMA RecordRowInv ==
    ASSUME TypeOK, LocalsOK, RowInv, NEW s \in Senders, NEW r \in Sending,
           send[s].pc \in RecordPC, WriteRecord(s), Continue(s, r), UNCHANGED calls,
           \/ r.pc = "idle"
           \/ r.pc \in RecordPC /\ r.target = "UNCERTAIN"
    PROVE  RowInv'
  <1> DEFINE ch0 == send[s].ch
             v0 == send[s].version
             target == send[s].target
             row == [Row(s) EXCEPT !.status = target]
  <1>1. /\ send \in [Senders -> Sending]
        /\ delivery \in [Channels -> [Versions -> RowType]]
        /\ sentLog \in [Channels -> [Versions -> Nat]]
    BY DEF TypeOK, RowType
  <1>2. ch0 \in Channels /\ v0 \in Versions /\ Row(s) \in RowType
    BY <1>1 DEF Sending, Row
  <1>3. row \in RowType /\ row.status = target /\ row.attempt = Row(s).attempt
    BY <1>1, <1>2 DEF Sending, RowType
  <1>4. /\ send'[s] = r
        /\ \A t \in Senders : t # s => send'[t] = send[t]
    BY <1>1, Continued
  <1>5. /\ delivery'[ch0][v0] = row
        /\ \A ch \in Channels, v \in Versions :
              ch # ch0 \/ v # v0 => delivery'[ch][v] = delivery[ch][v]
    BY <1>1, <1>3, RowWritten DEF WriteRecord
  <1>6. /\ target \in {"FAILED", "UNCERTAIN", Done(ch0)}
        /\ Row(s).status # "NONE"
    BY DEF LocalsOK, LocalOK, RecordPC
  <1>7. ~Holder(s)'
    BY <1>4 DEF Holder, RecordPC, Done
  <1>8. \A t \in Senders : t # s => (Holder(t)' <=> Holder(t))
    BY <1>4 DEF Holder
  <1>9. target # "UNCERTAIN" => Holder(s)
    BY <1>6 DEF Holder, ch0
  <1>10. ASSUME NEW t \in Senders, t # s, Holder(t)
         PROVE  /\ Row(t)'.status \in {"SENDING", "UNCERTAIN"}
                /\ Row(t)'.attempt = send[t].attempt
    <2>1. send'[t] = send[t] /\ send[t].ch \in Channels /\ send[t].version \in Versions
      BY <1>1, <1>4, <1>10 DEF Sending
    <2>2. Row(t).status \in {"SENDING", "UNCERTAIN"} /\ Row(t).attempt = send[t].attempt
      BY <1>10 DEF RowInv, HoldersOwn
    <2>3. CASE SameRow(s, t)
      <3>1. target = "UNCERTAIN"
        BY <1>9, <1>10, <2>3 DEF RowInv, HoldersOwn
      <3>2. Row(t)' = row /\ Row(t) = Row(s)
        BY <1>5, <2>1, <2>3 DEF SameRow, Row
      <3> QED
        BY <1>3, <2>2, <3>1, <3>2
    <2>4. CASE ~SameRow(s, t)
      <3>1. Row(t)' = Row(t)
        BY <1>5, <2>1, <2>4 DEF SameRow, Row
      <3> QED
        BY <2>2, <3>1
    <2> QED
      BY <2>3, <2>4
  <1>11. /\ target # Done(ch0) => sentLog' = sentLog
         /\ target = Done(ch0) => /\ sentLog[ch0][v0] = 0
                                  /\ sentLog'[ch0][v0] = 1
         /\ \A ch \in Channels, v \in Versions :
               ch # ch0 \/ v # v0 => sentLog'[ch][v] = sentLog[ch][v]
    <2>1. CASE target # Done(ch0)
      BY <2>1 DEF WriteRecord
    <2>2. CASE target = Done(ch0)
      <3>1. sentLog[ch0][v0] = 0
        BY <1>9, <2>2 DEF RowInv, HoldersUnlogged, Done
      <3>2. sentLog' = [sentLog EXCEPT ![ch0][v0] = @ + 1]
        BY <2>2 DEF WriteRecord
      <3> QED
        BY <1>1, <1>2, <2>2, <3>1, <3>2
    <2> QED
      BY <2>1, <2>2
  <1>12. /\ target = "FAILED" => \A c \in Mine(s) : c.verdict = "rejected"
         /\ target = Done(ch0) => \E c \in Mine(s) : Delivered(c)
    BY DEF RowInv, HoldersKnow, Knows, RecordPC
  <1>13. target = "FAILED" => sentLog[ch0][v0] = 0
    BY <1>9 DEF RowInv, HoldersUnlogged
  <1> HIDE DEF ch0, v0, target, row
  <1>14. HoldersOwn'
    BY <1>4, <1>7, <1>8, <1>10 DEF RowInv, HoldersOwn, SameRow
  <1>15. HoldersKnow'
    <2>1. ASSUME NEW t \in Senders, t # s PROVE Knows(t)'
      <3>1. send'[t] = send[t] /\ Mine(t)' = Mine(t)
        BY <1>4, <2>1 DEF Mine
      <3>2. \A c \in Mine(t) : MyCall(t, c)' <=> MyCall(t, c)
        BY <3>1 DEF MyCall
      <3>3. Knows(t)
        BY DEF RowInv, HoldersKnow
      <3> QED
        BY <3>1, <3>2, <3>3 DEF Knows, Delivered
    <2>2. Knows(s)'
      BY <1>4 DEF Knows, RecordPC, Done
    <2> QED
      BY <2>1, <2>2 DEF HoldersKnow
  <1>16. RowsOK'
    <2>1. target # "NONE"
      BY <1>6 DEF Done
    <2> QED
      BY <1>3, <1>5, <1>6, <2>1 DEF RowInv, RowsOK
  <1>17. CallsNumbered'
    <2>1. Row(s) = delivery[ch0][v0]
      BY DEF Row, ch0, v0
    <2>2. \A c \in calls : c.attempt <= delivery'[c.ch][c.version].attempt
      BY <1>3, <1>5, <2>1 DEF RowInv, CallsNumbered, TypeOK, Call
    <2> QED
      BY <2>2 DEF RowInv, CallsNumbered, SameMessage
  <1>18. HoldersUnlogged'
    <2>1. ASSUME NEW t \in Senders, Holder(t)'
          PROVE  sentLog'[send'[t].ch][send'[t].version] = 0
      <3>1. t # s /\ Holder(t) /\ send'[t] = send[t]
        BY <1>4, <1>7, <1>8, <2>1
      <3>2. sentLog[send[t].ch][send[t].version] = 0
        BY <3>1 DEF RowInv, HoldersUnlogged
      <3>3. CASE SameRow(s, t)
        <4>1. target = "UNCERTAIN"
          BY <1>9, <3>1, <3>3 DEF RowInv, HoldersOwn
        <4> QED
          BY <1>11, <3>1, <3>2, <4>1 DEF Done
      <3>4. CASE ~SameRow(s, t)
        BY <1>1, <1>11, <3>1, <3>2, <3>4 DEF SameRow, ch0, v0, Sending
      <3> QED
        BY <3>3, <3>4
    <2>2. \A ch \in Channels, v \in Versions :
             delivery'[ch][v].status \in {"NONE", "FAILED"} => sentLog'[ch][v] = 0
      <3> SUFFICES ASSUME NEW ch \in Channels, NEW v \in Versions,
                          delivery'[ch][v].status \in {"NONE", "FAILED"}
                   PROVE  sentLog'[ch][v] = 0
        OBVIOUS
      <3>1. CASE ch = ch0 /\ v = v0
        <4>1. target = "FAILED"
          BY <1>3, <1>5, <1>6, <3>1 DEF Done
        <4> QED
          BY <1>11, <1>13, <3>1, <4>1 DEF Done
      <3>2. CASE ~(ch = ch0 /\ v = v0)
        BY <1>5, <1>11, <3>2 DEF RowInv, HoldersUnlogged
      <3> QED
        BY <3>1, <3>2
    <2> QED
      BY <2>1, <2>2 DEF HoldersUnlogged
  <1>19. RowTellsFate'
    <2>1. ASSUME NEW ch \in Channels, NEW v \in Versions
          PROVE  /\ delivery'[ch][v].status = Done(ch) =>
                       \E c \in calls : c.ch = ch /\ c.version = v /\ Delivered(c)
                 /\ delivery'[ch][v].status \in {"NONE", "FAILED"} =>
                       \A c \in calls : c.ch = ch /\ c.version = v => c.verdict = "rejected"
      <3>1. CASE ch = ch0 /\ v = v0
        BY <1>3, <1>5, <1>6, <1>12, <3>1 DEF Mine, Done, ch0, v0
      <3>2. CASE ~(ch = ch0 /\ v = v0)
        BY <1>5, <3>2 DEF RowInv, RowTellsFate
      <3> QED
        BY <3>1, <3>2
    <2> QED
      BY <2>1 DEF RowTellsFate, Delivered
  <1>20. SentEventsMatch'
    <2> SUFFICES ASSUME NEW ch \in Channels, NEW v \in Versions
                 PROVE  /\ sentLog'[ch][v] <= 1
                        /\ delivery'[ch][v].status = Done(ch) => sentLog'[ch][v] = 1
      BY DEF SentEventsMatch
    <2>1. CASE ch = ch0 /\ v = v0
      BY <1>3, <1>5, <1>11, <2>1 DEF RowInv, SentEventsMatch
    <2>2. CASE ~(ch = ch0 /\ v = v0)
      BY <1>5, <1>11, <2>2 DEF RowInv, SentEventsMatch
    <2> QED
      BY <2>1, <2>2
  <1> QED
    BY <1>14, <1>15, <1>16, <1>17, <1>18, <1>19, <1>20 DEF RowInv, NoResendInDoubt, SameMessage
LEMMA CrashRowInv ==
    ASSUME TypeOK, RowInv, Crash PROVE RowInv' /\ LocalsOK'
  <1>1. \A s \in Senders : send'[s] = IdleSend /\ IdleSend.pc = "idle"
    BY DEF Crash, IdleSend
  <1>2. UNCHANGED <<delivery, sentLog, calls>>
    BY DEF Crash, rowVars
  <1>3. \A s \in Senders : ~Holder(s)' /\ Knows(s)'
    BY <1>1 DEF Holder, Knows, RecordPC
  <1>4. LocalsOK'
    BY <1>1 DEF LocalsOK, LocalOK, RecordPC
  <1> QED
    BY <1>2, <1>3, <1>4 DEF RowInv, RowsOK, HoldersOwn, HoldersKnow, CallsNumbered,
       HoldersUnlogged, NoResendInDoubt, SameMessage, RowTellsFate, Delivered,
       SentEventsMatch

\* A step that touches neither rows, calls nor sending handlers.
LEMMA OthersRowInv ==
    ASSUME LocalsOK, RowInv, UNCHANGED <<delivery, sentLog, calls, send>>
    PROVE  RowInv' /\ LocalsOK'
  BY DEF LocalsOK, LocalOK, Row, RowInv, RowsOK, HoldersOwn, Holder, SameRow, HoldersKnow,
     Knows, Mine, MyCall, CallsNumbered, HoldersUnlogged, NoResendInDoubt,
     SameMessage, RowTellsFate, Delivered, SentEventsMatch

\* The locals of the others stay justified as long as no row disappears.
LEMMA LocalsKept ==
    ASSUME TypeOK, LocalsOK, NEW s \in Senders, NEW r \in Sending, Continue(s, r),
           \A ch \in Channels, v \in Versions :
              delivery[ch][v].status # "NONE" => delivery'[ch][v].status # "NONE",
           LocalOK(s)'
    PROVE  LocalsOK'
  <1>1. send \in [Senders -> Sending]
    BY DEF TypeOK
  <1>2. \A t \in Senders : t # s => send'[t] = send[t]
    BY <1>1, Continued
  <1>3. ASSUME NEW t \in Senders, t # s PROVE LocalOK(t)'
    <2>1. LocalOK(t)
      BY DEF LocalsOK, LocalOK
    <2>2. send[t].ch \in Channels /\ send[t].version \in Versions
      BY <1>1 DEF Sending
    <2>3. send'[t] = send[t] /\ (Row(t).status # "NONE" => Row(t)'.status # "NONE")
      BY <1>2, <1>3, <2>2 DEF Row
    <2> QED
      BY <2>1, <2>3 DEF LocalOK
  <1> QED
    BY <1>3 DEF LocalsOK, LocalOK
LEMMA SenderInv ==
    ASSUME IInv, TypeOK', NEW s \in Senders,
           ReadRequest(s) \/ SenderStep(s) \/ SenderFault(s)
    PROVE  RowInv' /\ LocalsOK'
  <1>1. TypeOK /\ LocalsOK /\ RowInv /\ LocalOK(s) /\ Knows(s)
    BY DEF IInv, RowInv, LocalsOK, HoldersKnow
  <1>2. /\ send \in [Senders -> Sending] /\ send[s] \in Sending
        /\ delivery \in [Channels -> [Versions -> RowType]]
        /\ Row(s) \in RowType
    BY DEF IInv, TypeOK, RowType, Row, Sending
  <1>3. ASSUME NEW r, Continue(s, r) PROVE r \in Sending /\ send'[s] = r
    <2>1. send'[s] = r /\ send' \in [Senders -> Sending]
      BY <1>2, <1>3 DEF Continue, TypeOK
    <2> QED
      BY <2>1
  \* The steps that hold no row afterwards and write none.
  <1>4. ASSUME NEW r, Continue(s, r), UNCHANGED <<delivery, sentLog, calls>>,
               \/ r.pc \in {"idle", "provider", "sender", "row", "claim"}
               \/ r.pc \in RecordPC /\ r.target = "UNCERTAIN",
               LocalOK(s)'
        PROVE  RowInv' /\ LocalsOK'
    BY <1>1, <1>3, <1>4, QuietWithoutRow, LocalsKept
  <1>5. ASSUME Leave(s), UNCHANGED <<delivery, sentLog, calls>>
        PROVE  RowInv' /\ LocalsOK'
    <2>1. LocalOK(s)'
      BY <1>3, <1>5 DEF Leave, IdleSend, LocalOK, RecordPC
    <2> QED
      BY <1>4, <1>5, <2>1 DEF Leave, IdleSend
  <1>6. CASE ReadRequest(s)
    <2>1. PICK ch \in Channels :
             Continue(s, [IdleSend EXCEPT !.pc = "provider", !.ch = ch,
                             !.version = request.version, !.payload = request.payload])
      BY <1>6 DEF ReadRequest
    <2> DEFINE r == [IdleSend EXCEPT !.pc = "provider", !.ch = ch,
                        !.version = request.version, !.payload = request.payload]
    <2>2. r.pc = "provider" /\ r.payload \in Payloads
      BY <1>1 DEF IdleSend, TypeOK
    <2>3. LocalOK(s)'
      BY <1>3, <2>1, <2>2 DEF LocalOK, RecordPC
    <2> QED
      BY <1>4, <1>6, <2>1, <2>2, <2>3 DEF ReadRequest, rowVars
  <1>7. CASE ReadProvider(s)
    <2>1. CASE UsesChannel(send[s].ch) /\
               Continue(s, [send[s] EXCEPT !.pc = "sender", !.to = provider.contact])
      <3> DEFINE r == [send[s] EXCEPT !.pc = "sender", !.to = provider.contact]
      <3>1. r.pc = "sender" /\ r.payload = send[s].payload /\ r.to = provider.contact
        BY <1>2 DEF Sending
      <3>2. provider.contact \in Contacts /\ send[s].payload \in Payloads
        BY <1>1, <1>7, <2>1 DEF UsesChannel, TypeOK, LocalOK, ReadProvider, SendPC
      <3>3. LocalOK(s)'
        BY <1>3, <2>1, <3>1, <3>2 DEF LocalOK, RecordPC
      <3> QED
        BY <1>4, <1>7, <2>1, <3>1, <3>3 DEF ReadProvider, rowVars
    <2> QED
      BY <1>5, <1>7, <2>1 DEF ReadProvider, rowVars
  <1>8. CASE ReadSender(s)
    <2>1. ASSUME NEW x \in Emails \cup {Instance},
                 Continue(s, [send[s] EXCEPT !.pc = "row", !.from = x])
          PROVE  RowInv' /\ LocalsOK'
      <3> DEFINE r == [send[s] EXCEPT !.pc = "row", !.from = x]
      <3>1. /\ r.pc = "row" /\ r.from = x
            /\ r.payload = send[s].payload /\ r.to = send[s].to
        BY <1>2 DEF Sending
      <3>2. send[s].payload \in Payloads /\ send[s].to \in Contacts
        BY <1>1, <1>8 DEF LocalOK, ReadSender, SendPC
      <3>3. LocalOK(s)'
        BY <1>3, <2>1, <3>1, <3>2 DEF LocalOK, RecordPC
      <3> QED
        BY <1>4, <1>8, <2>1, <3>1, <3>3 DEF ReadSender, rowVars
    <2>2. connection # NoConnection => connection.email \in Emails
      BY <1>1 DEF TypeOK
    <2> QED
      BY <1>5, <1>8, <2>1, <2>2 DEF ReadSender, rowVars
  <1>9. CASE ReadRow(s)
    <2>1. CASE /\ Row(s).attempt < MaxAttempt
               /\ Continue(s, [send[s] EXCEPT !.pc = "claim", !.attempt = Row(s).attempt])
      <3> DEFINE r == [send[s] EXCEPT !.pc = "claim", !.attempt = Row(s).attempt]
      <3>1. /\ r.pc = "claim" /\ r.attempt = Row(s).attempt /\ r.from = send[s].from
            /\ r.payload = send[s].payload /\ r.to = send[s].to
        BY <1>2 DEF Sending
      <3>2. /\ send[s].payload \in Payloads /\ send[s].to \in Contacts
            /\ send[s].from \in Emails \cup {Instance}
        BY <1>1, <1>9 DEF LocalOK, ReadRow, SendPC
      <3>3. LocalOK(s)'
        BY <1>3, <2>1, <3>1, <3>2 DEF LocalOK, RecordPC
      <3> QED
        BY <1>4, <1>9, <2>1, <3>1, <3>3 DEF ReadRow, rowVars
    <2> QED
      BY <1>5, <1>9, <2>1 DEF ReadRow, rowVars
  \* The claims.
  <1>10. ASSUME WriteClaim(s)
         PROVE  \A ch \in Channels, v \in Versions :
                   /\ delivery[ch][v].status # "NONE" => delivery'[ch][v].status # "NONE"
                   /\ ch = send[s].ch /\ v = send[s].version => delivery'[ch][v].status # "NONE"
    <2>1. delivery' = [delivery EXCEPT ![send[s].ch] =
             [delivery[send[s].ch] EXCEPT ![send[s].version] =
                [status |-> "SENDING", attempt |-> send[s].attempt + 1]]]
      BY <1>10 DEF WriteClaim, SetRow
    <2> QED
      BY <1>2, <2>1 DEF Sending
  <1>11. CASE Claim(s)
    <2> DEFINE r == [send[s] EXCEPT
                  !.pc = IF send[s].ch = "EMAIL" THEN "recheck" ELSE "call",
                  !.token = IF send[s].ch = "EMAIL" THEN Unset ELSE Instance,
                  !.attempt = send[s].attempt + 1]
    <2>1. /\ send[s].pc = "claim" /\ Claimable(s) /\ WriteClaim(s) /\ Continue(s, r)
          /\ UNCHANGED <<sentLog, calls>>
      BY <1>11 DEF Claim
    <2>2. /\ r.pc \in {"recheck", "call"} /\ r.ch = send[s].ch
          /\ r.version = send[s].version /\ r.attempt = send[s].attempt + 1
          /\ r.to = send[s].to /\ r.from = send[s].from /\ r.payload = send[s].payload
          /\ r.pc = "call" => r.token = Instance
      BY <1>2 DEF Sending
    <2>3. r \in Sending /\ send'[s] = r
      BY <1>3, <2>1
    <2>4. RowInv'
      BY <1>1, <2>1, <2>2, <2>3, ClaimRowInv
    <2>5. /\ send[s].payload \in Payloads /\ send[s].to \in Contacts
          /\ send[s].from \in Emails \cup {Instance} /\ send[s].attempt < MaxAttempt
          /\ send[s].attempt \in Nat
      BY <1>1, <1>2, <2>1, BoundsAssumption DEF LocalOK, SendPC, Sending
    <2>6. Row(s)' = delivery'[send[s].ch][send[s].version]
      BY <2>2, <2>3 DEF Row
    <2>7. Row(s)'.status # "NONE"
      BY <1>2, <1>10, <2>1, <2>6 DEF Sending
    <2>8. send[s].attempt + 1 \in 1 .. MaxAttempt
      BY <2>5, BoundsAssumption
    <2> HIDE DEF r
    <2>9. LocalOK(s)'
      BY <2>2, <2>3, <2>5, <2>7, <2>8 DEF LocalOK, RecordPC
    <2> QED
      BY <1>1, <1>10, <2>1, <2>3, <2>4, <2>9, LocalsKept
  <1>12. CASE LoseClaim(s)
    BY <1>5, <1>12 DEF LoseClaim, rowVars
  <1>13. CASE ClaimUnacknowledged(s)
    <2>1. /\ send[s].pc = "claim" /\ Claimable(s) /\ WriteClaim(s) /\ Continue(s, IdleSend)
          /\ UNCHANGED <<sentLog, calls>>
      BY <1>13 DEF ClaimUnacknowledged, Leave
    <2>2. IdleSend \in Sending /\ send'[s] = IdleSend /\ IdleSend.pc = "idle"
      BY <1>3, <2>1 DEF IdleSend
    <2>3. RowInv'
      BY <1>1, <2>1, <2>2, ClaimRowInv
    <2>4. LocalOK(s)'
      BY <2>2 DEF LocalOK, RecordPC
    <2> QED
      BY <1>1, <1>10, <2>1, <2>2, <2>3, <2>4, LocalsKept
  \* The steps of a holder.
  <1>14. ASSUME NEW l \in {"reauth", "recordTry", "recordLast"},
                NEW t \in {"FAILED", "UNCERTAIN", Done(send[s].ch)},
                Result(s, l, t), UNCHANGED <<delivery, sentLog, calls>>,
                send[s].pc \in {"recheck", "wait", "recordTry"},
                l = "reauth" => t = "FAILED",
                t # "UNCERTAIN" => Holder(s),
                t = "FAILED" => \A c \in Mine(s) : c.verdict = "rejected",
                t = Done(send[s].ch) => \E c \in Mine(s) : Delivered(c)
         PROVE  RowInv' /\ LocalsOK'
    <2> DEFINE r == [send[s] EXCEPT !.pc = l, !.target = t]
    <2>1. /\ r.pc = l /\ r.target = t /\ r.ch = send[s].ch
          /\ r.version = send[s].version /\ r.attempt = send[s].attempt
          /\ r.payload = send[s].payload
      BY <1>2 DEF Sending
    <2>2. Continue(s, r) /\ r \in Sending /\ send'[s] = r
      BY <1>3, <1>14 DEF Result
    <2> HIDE DEF r
    <2>3. Row(s)' = Row(s)
      BY <1>14, <2>1, <2>2 DEF Row
    <2>4. /\ send[s].payload \in Payloads
          /\ send[s].attempt \in 1 .. MaxAttempt /\ Row(s).status # "NONE"
      BY <1>1, <1>14 DEF LocalOK, SendPC, RecordPC
    <2>5. LocalOK(s)'
      BY <1>14, <2>1, <2>2, <2>3, <2>4 DEF LocalOK, RecordPC
    <2>6. CASE t = "UNCERTAIN"
      BY <1>4, <1>14, <2>1, <2>2, <2>5, <2>6 DEF RecordPC
    <2>7. CASE t # "UNCERTAIN"
      <3>1. RowInv'
        BY <1>1, <1>14, <2>1, <2>2, <2>7, QuietWithRow DEF RecordPC
      <3> QED
        BY <1>1, <1>14, <2>2, <2>5, <3>1, LocalsKept
    <2> QED
      BY <2>6, <2>7
  <1>15. CASE Recheck(s)
    <2>1. CASE SameAccount(s) /\
               Continue(s, [send[s] EXCEPT !.pc = "call", !.token = connection.email])
      <3> DEFINE r == [send[s] EXCEPT !.pc = "call", !.token = connection.email]
      <3>1. /\ r.pc = "call" /\ r.ch = send[s].ch /\ r.version = send[s].version
            /\ r.attempt = send[s].attempt /\ r.token = connection.email
            /\ r.to = send[s].to /\ r.from = send[s].from /\ r.payload = send[s].payload
        BY <1>2 DEF Sending
      <3>2. r \in Sending /\ send'[s] = r
        BY <1>3, <2>1
      <3>3. connection.email \in Emails
        BY <1>1, <2>1 DEF SameAccount, TypeOK
      <3>4. Holder(s) /\ UNCHANGED <<delivery, sentLog, calls>> /\ send[s].pc = "recheck"
        BY <1>15 DEF Holder, Recheck, rowVars
      <3> HIDE DEF r
      <3>5. RowInv'
        BY <1>1, <2>1, <3>1, <3>2, <3>4, QuietWithRow DEF Knows, RecordPC, r
      <3>6. Row(s)' = Row(s)
        BY <3>1, <3>2, <3>4 DEF Row
      <3>7. LocalOK(s)'
        BY <1>1, <3>1, <3>2, <3>3, <3>4, <3>6 DEF LocalOK, RecordPC, SendPC
      <3> QED
        BY <1>1, <2>1, <3>2, <3>4, <3>5, <3>7, LocalsKept DEF r
    <2>2. CASE Result(s, "recordLast", "FAILED")
      <3>1. send[s].pc = "recheck" /\ UNCHANGED <<delivery, sentLog, calls>>
        BY <1>15 DEF Recheck, rowVars
      <3> QED
        BY <1>1, <1>14, <2>2, <3>1 DEF Knows, Holder, RecordPC, Done
    <2> QED
      BY <1>15, <2>1, <2>2 DEF Recheck, Result
  <1>16. CASE CallProvider(s)
    <2> DEFINE r == [send[s] EXCEPT !.pc = "wait"]
    <2>1. /\ r.pc = "wait" /\ r.ch = send[s].ch /\ r.version = send[s].version
          /\ r.attempt = send[s].attempt /\ r.payload = send[s].payload
      BY <1>2 DEF Sending
    <2>2. Continue(s, r) /\ r \in Sending /\ send'[s] = r
      BY <1>3, <1>16 DEF CallProvider, GoTo
    <2> HIDE DEF r
    <2>3. send[s].pc = "call" /\ UNCHANGED delivery
      BY <1>16 DEF CallProvider, rowVars
    <2>4. Row(s)' = Row(s)
      BY <2>1, <2>2, <2>3 DEF Row
    <2>5. LocalOK(s)'
      BY <1>1, <2>1, <2>2, <2>3, <2>4 DEF LocalOK, RecordPC, SendPC
    <2> QED
      BY <1>1, <1>16, <2>2, <2>3, <2>5, CallRowInv, LocalsKept
  <1>17. CASE Receive(s)
    <2>1. /\ send[s].pc = "wait" /\ UNCHANGED <<delivery, sentLog, calls>>
          /\ send[s].ch \in {"EMAIL", "WHATSAPP"}
      BY <1>2, <1>17, ChannelsAssumption DEF Receive, rowVars, Sending
    <2>2. PICK c \in calls :
             /\ MyCall(s, c)
             /\ \/ c.verdict = "ok" /\ Result(s, "recordTry", Done(send[s].ch))
                \/ c.verdict = "noid" /\ Result(s, "recordTry", "UNCERTAIN")
                \/ /\ c.verdict = "rejected"
                   /\ \E l \in {"reauth", "recordTry", "recordLast"} : Result(s, l, "FAILED")
                \/ /\ c.verdict \in {"error_sent", "error_lost"}
                   /\ \E l \in {"recordTry", "recordLast"} : Result(s, l, "UNCERTAIN")
      BY <1>17 DEF Receive
    <2>3. c \in Mine(s) /\ Holder(s)
      BY <2>1, <2>2 DEF Mine, MyCall, Holder
    <2>4. c.verdict = "rejected" => \A d \in Mine(s) : d.verdict = "rejected"
      BY <1>1, <2>1, <2>2 DEF Knows, Mine, MyCall, RowInv, CallsNumbered, SameMessage
    <2>5. c.verdict = "ok" => Delivered(c)
      BY DEF Delivered
    <2>6. CASE c.verdict = "ok" /\ Result(s, "recordTry", Done(send[s].ch))
      BY <1>14, <2>1, <2>3, <2>5, <2>6 DEF Done
    <2>7. ASSUME NEW l \in {"reauth", "recordTry", "recordLast"},
                 c.verdict = "rejected", Result(s, l, "FAILED")
          PROVE  RowInv' /\ LocalsOK'
      BY <1>14, <2>1, <2>3, <2>4, <2>7 DEF Done
    <2>8. ASSUME NEW l \in {"recordTry", "recordLast"}, Result(s, l, "UNCERTAIN")
          PROVE  RowInv' /\ LocalsOK'
      BY <1>14, <2>1, <2>8 DEF Done
    <2> QED
      BY <2>2, <2>6, <2>7, <2>8
  <1>18. CASE GiveUp(s)
    <2>1. /\ send[s].pc = "wait" /\ UNCHANGED <<delivery, sentLog, calls>>
          /\ Result(s, "recordLast", "UNCERTAIN")
      BY <1>18 DEF GiveUp, rowVars
    <2> QED
      BY <1>14, <2>1 DEF Done
  <1>19. CASE MarkReauthorize(s)
    <2> DEFINE r == [send[s] EXCEPT !.pc = "recordLast"]
    <2>1. /\ r.pc = "recordLast" /\ r.ch = send[s].ch /\ r.version = send[s].version
          /\ r.attempt = send[s].attempt /\ r.payload = send[s].payload
          /\ r.target = send[s].target
      BY <1>2 DEF Sending
    <2>2. Continue(s, r) /\ r \in Sending /\ send'[s] = r
      BY <1>3, <1>19 DEF MarkReauthorize, GoTo
    <2> HIDE DEF r
    <2>3. send[s].pc = "reauth" /\ UNCHANGED <<delivery, sentLog, calls>> /\ Holder(s)
      BY <1>19 DEF MarkReauthorize, rowVars, Holder
    <2>4. send[s].target = "FAILED" /\ \A c \in Mine(s) : c.verdict = "rejected"
      BY <1>1, <2>3 DEF LocalOK, Knows
    <2>5. RowInv'
      BY <1>1, <2>1, <2>2, <2>3, <2>4, QuietWithRow DEF RecordPC, Done
    <2>6. Row(s)' = Row(s)
      BY <2>1, <2>2, <2>3 DEF Row
    <2>7. LocalOK(s)'
      BY <1>1, <2>1, <2>2, <2>3, <2>4, <2>6 DEF LocalOK, RecordPC, SendPC
    <2> QED
      BY <1>1, <2>2, <2>3, <2>5, <2>7, LocalsKept
  \* The records.
  <1>20. ASSUME WriteRecord(s), send[s].pc \in RecordPC
         PROVE  /\ \A ch \in Channels, v \in Versions :
                      delivery[ch][v].status # "NONE" => delivery'[ch][v].status # "NONE"
                /\ delivery'[send[s].ch][send[s].version].status # "NONE"
    <2>1. send[s].target # "NONE"
      BY <1>1, <1>20 DEF LocalOK, Done
    <2> DEFINE row == [Row(s) EXCEPT !.status = send[s].target]
    <2>2. row \in RowType /\ row.status = send[s].target
      BY <1>2 DEF RowType, Sending
    <2> HIDE DEF row
    <2>3. SetRow(s, row)
      BY <1>20 DEF WriteRecord, row
    <2> QED
      BY <1>2, <2>1, <2>2, <2>3, RowWritten
  <1>21. CASE Record(s)
    <2>1. /\ send[s].pc \in RecordPC /\ WriteRecord(s) /\ Continue(s, IdleSend)
          /\ UNCHANGED calls
      BY <1>21 DEF Record, Leave, RecordPC
    <2>2. IdleSend \in Sending /\ send'[s] = IdleSend /\ IdleSend.pc = "idle"
      BY <1>3, <2>1 DEF IdleSend
    <2>3. RowInv'
      BY <1>1, <2>1, <2>2, RecordRowInv
    <2>4. LocalOK(s)'
      BY <2>2 DEF LocalOK, RecordPC
    <2> QED
      BY <1>1, <1>20, <2>1, <2>2, <2>3, <2>4, LocalsKept
  <1>22. CASE RecordFails(s)
    <2>1. /\ send[s].pc \in RecordPC /\ UNCHANGED calls
          /\ WriteRecord(s) \/ UNCHANGED <<delivery, sentLog>>
          /\ \/ send[s].pc = "recordTry" /\ Result(s, "recordLast", "UNCERTAIN")
             \/ Continue(s, IdleSend)
      BY <1>22 DEF RecordFails, Leave, RecordPC, rowVars
    <2>2. CASE UNCHANGED <<delivery, sentLog>> /\ Continue(s, IdleSend)
      BY <1>5, <2>1, <2>2 DEF Leave
    <2>3. CASE /\ UNCHANGED <<delivery, sentLog>>
               /\ send[s].pc = "recordTry" /\ Result(s, "recordLast", "UNCERTAIN")
      BY <1>14, <2>1, <2>3 DEF Done
    <2>4. CASE WriteRecord(s) /\ Continue(s, IdleSend)
      <3>1. IdleSend \in Sending /\ send'[s] = IdleSend /\ IdleSend.pc = "idle"
        BY <1>3, <2>4 DEF IdleSend
      <3>2. RowInv'
        BY <1>1, <2>1, <2>4, <3>1, RecordRowInv
      <3>3. LocalOK(s)'
        BY <3>1 DEF LocalOK, RecordPC
      <3> QED
        BY <1>1, <1>20, <2>1, <2>4, <3>1, <3>2, <3>3, LocalsKept
    <2>5. CASE WriteRecord(s) /\ Result(s, "recordLast", "UNCERTAIN")
      <3> DEFINE r == [send[s] EXCEPT !.pc = "recordLast", !.target = "UNCERTAIN"]
      <3>1. /\ r.pc = "recordLast" /\ r.target = "UNCERTAIN" /\ r.ch = send[s].ch
            /\ r.version = send[s].version /\ r.attempt = send[s].attempt
            /\ r.payload = send[s].payload
        BY <1>2 DEF Sending
      <3>2. Continue(s, r) /\ r \in Sending /\ send'[s] = r
        BY <1>3, <2>5 DEF Result
      <3> HIDE DEF r
      <3>3. RowInv'
        BY <1>1, <2>1, <2>5, <3>1, <3>2, RecordRowInv DEF RecordPC
      <3>4. Row(s)'.status # "NONE"
        BY <1>20, <2>1, <2>5, <3>1, <3>2 DEF Row
      <3>5. send[s].payload \in Payloads /\ send[s].attempt \in 1 .. MaxAttempt
        BY <1>1, <2>1 DEF LocalOK, RecordPC, SendPC
      <3>6. LocalOK(s)'
        BY <3>1, <3>2, <3>4, <3>5 DEF LocalOK, RecordPC
      <3> QED
        BY <1>1, <1>20, <2>1, <2>5, <3>2, <3>3, <3>6, LocalsKept
    <2> QED
      BY <2>1, <2>2, <2>3, <2>4, <2>5
  <1> QED
    BY <1>6, <1>7, <1>8, <1>9, <1>11, <1>12, <1>13, <1>15, <1>16, <1>17, <1>18,
       <1>19, <1>21, <1>22 DEF SenderStep, SenderFault

-----------------------------------------------------------------------------
(* The theorems.                                                           *)

LEMMA InitIInv == Init => IInv
  <1> SUFFICES ASSUME Init PROVE IInv
    OBVIOUS
  <1>1. TypeOK
    BY InitTypeOK
  <1>2. \A s \in Senders : send[s].pc = "idle"
    BY DEF Init, IdleSend
  <1>3. \A e \in Editors : edit[e].pc = "idle"
    BY DEF Init, IdleEdit
  <1>4. \A ch \in Channels, v \in Versions :
           /\ delivery[ch][v].status = "NONE" /\ delivery[ch][v].attempt = 0
           /\ sentLog[ch][v] = 0
    BY DEF Init, NoRow
  <1>5. calls = {}
    BY DEF Init
  <1>6. EditorsOK /\ LocalsOK
    BY <1>2, <1>3 DEF EditorsOK, LocalsOK, LocalOK, RecordPC
  <1>7. \A s \in Senders : ~Holder(s) /\ Knows(s)
    BY <1>2 DEF Holder, Knows, RecordPC
  <1>8. RowsOK /\ SentEventsMatch /\ RowTellsFate
    BY <1>4, <1>5 DEF RowsOK, SentEventsMatch, RowTellsFate, Done
  <1> QED
    BY <1>1, <1>4, <1>5, <1>6, <1>7, <1>8 DEF IInv, HoldersOwn, HoldersKnow,
       CallsNumbered, HoldersUnlogged, NoResendInDoubt

LEMMA StepIInv == IInv /\ [Next]_vars => IInv'
  <1> SUFFICES ASSUME IInv, [Next]_vars PROVE IInv'
    OBVIOUS
  <1>1. TypeOK /\ EditorsOK /\ LocalsOK /\ RowInv
    BY DEF IInv, RowInv
  <1>2. ASSUME NEW s \in Senders, ReadRequest(s) \/ SenderStep(s) \/ SenderFault(s)
        PROVE  TypeOK' /\ EditorsOK' /\ LocalsOK' /\ RowInv'
    BY <1>1, <1>2, SenderTypeOK, SenderInv
  <1>3. ASSUME NEW e \in Editors, EditorStep(e)
        PROVE  TypeOK' /\ EditorsOK' /\ LocalsOK' /\ RowInv'
    <2>1. UNCHANGED <<delivery, sentLog, calls, send>>
      BY <1>3 DEF EditorStep, ReadForUpdate, WriteUpdate, LoseUpdate, ReadForCancel,
         WriteCancel, rowVars
    <2> QED
      BY <1>1, <1>3, <2>1, EditorTypeOK, OthersRowInv
  <1>4. ASSUME NEW c \in calls, ProviderDecides(c)
        PROVE  TypeOK' /\ EditorsOK' /\ LocalsOK' /\ RowInv'
    <2>1. LocalsOK'
      BY <1>1, <1>4 DEF ProviderDecides, LocalsOK, LocalOK, Row, rowVars
    <2> QED
      BY <1>1, <1>4, <2>1, DecisionTypeOK, DecisionRowInv
  <1>5. CASE SettingStep
    <2>1. UNCHANGED <<delivery, sentLog, calls, send>>
      BY <1>5 DEF SettingStep, ChangeProvider, ConnectGmail, DisconnectGmail, rowVars
    <2> QED
      BY <1>1, <1>5, <2>1, SettingTypeOK, OthersRowInv DEF IInv, RowInv
  <1>6. CASE Crash
    BY <1>1, <1>6, CrashTypeOK, CrashRowInv DEF IInv, RowInv
  <1>7. CASE UNCHANGED vars
    <2>1. TypeOK' /\ EditorsOK'
      BY <1>1, <1>7 DEF TypeOK, EditorsOK, vars
    <2> QED
      BY <1>1, <1>7, <2>1, OthersRowInv DEF vars, IInv, RowInv
  <1> QED
    BY <1>2, <1>3, <1>4, <1>5, <1>6, <1>7 DEF Next, IInv, RowInv

\* The invariant of the claim holds in every reachable state.
THEOREM Invariance == Spec => []IInv
  BY InitIInv, StepIInv, PTL DEF Spec

\* Every variable keeps its type.
THEOREM TypeCorrect == Spec => []TypeOK
  <1>1. IInv => TypeOK
    BY DEF IInv
  <1> QED
    BY <1>1, Invariance, PTL

\* Neither concurrent handlers, retries, late answers, lost acknowledgements
\* nor a death of the process hand a version to a channel again while an
\* earlier call for it may have been taken.
THEOREM NeverResentInDoubt == Spec => []NoResendInDoubt
  <1>1. IInv => NoResendInDoubt
    BY DEF IInv
  <1> QED
    BY <1>1, Invariance, PTL

\* A row that says "sent" is right, and so is one that invites a retry.
THEOREM RowsTellFate == Spec => []RowTellsFate
  <1>1. IInv => RowTellsFate
    BY DEF IInv
  <1> QED
    BY <1>1, Invariance, PTL

\* The history shows a version as sent at most once, and whenever its row does.
THEOREM SentEventsAgree == Spec => []SentEventsMatch
  <1>1. IInv => SentEventsMatch
    BY DEF IInv
  <1> QED
    BY <1>1, Invariance, PTL

\* Row and history agree with what became of the message.
THEOREM HistoriesTellFate == Spec => []HistoryTellsFate
  <1>1. IInv => HistoryTellsFate
    BY DEF IInv, HistoryTellsFate
  <1> QED
    BY <1>1, Invariance, PTL
-----------------------------------------------------------------------------
(* The approved sender and the content of a version.                       *)

\* Where a sending handler may go: it leaves, starts on the current request,
\* or goes on with the channel, version and content it has, and calls only with
\* the token of the sender it was approved for.
Onward(s, r) ==
    /\ send[s].pc # "idle"
    /\ r.ch = send[s].ch /\ r.version = send[s].version /\ r.payload = send[s].payload
    /\ r.pc = "call" => r.token = r.from
    /\ r.pc \in {"row", "claim"} /\ r.ch = "WHATSAPP" => r.from = Instance

LEMMA SenderMoves ==
    ASSUME TypeOK, LocalsOK, SendersApproved, NEW s \in Senders,
           SenderStep(s) \/ SenderFault(s)
    PROVE  \/ Continue(s, IdleSend)
           \/ \E r \in Sending : Continue(s, r) /\ Onward(s, r)
  <1>1. send \in [Senders -> Sending] /\ send[s] \in Sending
    BY DEF TypeOK
  <1>2. /\ send[s].ch \in {"EMAIL", "WHATSAPP"}
        /\ LocalOK(s)
    BY <1>1, ChannelsAssumption DEF Sending, LocalsOK
  <1>3. ASSUME NEW l \in SendPC \ {"call", "row", "claim"}, NEW t \in RowStatus,
               send[s].pc # "idle", Result(s, l, t)
        PROVE  \E r \in Sending : Continue(s, r) /\ Onward(s, r)
    <2> DEFINE r == [send[s] EXCEPT !.pc = l, !.target = t]
    <2>1. /\ r \in Sending /\ r.pc = l /\ r.ch = send[s].ch /\ r.from = send[s].from
          /\ r.version = send[s].version /\ r.payload = send[s].payload
      BY <1>1 DEF Sending
    <2>2. Continue(s, r)
      BY <1>3 DEF Result
    <2> HIDE DEF r
    <2> QED
      BY <1>3, <2>1, <2>2 DEF Onward
  <1>4. ASSUME NEW l \in SendPC \ {"call", "row", "claim"},
               send[s].pc # "idle", GoTo(s, l)
        PROVE  \E r \in Sending : Continue(s, r) /\ Onward(s, r)
    <2> DEFINE r == [send[s] EXCEPT !.pc = l]
    <2>1. /\ r \in Sending /\ r.pc = l /\ r.ch = send[s].ch /\ r.from = send[s].from
          /\ r.version = send[s].version /\ r.payload = send[s].payload
      BY <1>1 DEF Sending
    <2>2. Continue(s, r)
      BY <1>4 DEF GoTo
    <2> HIDE DEF r
    <2> QED
      BY <1>4, <2>1, <2>2 DEF Onward
  <1>5. CASE ReadProvider(s)
    <2> DEFINE r == [send[s] EXCEPT !.pc = "sender", !.to = provider.contact]
    <2>1. CASE UsesChannel(send[s].ch) /\ Continue(s, r)
      <3>1. /\ r \in Sending /\ r.pc = "sender" /\ r.ch = send[s].ch
            /\ r.from = send[s].from /\ r.version = send[s].version
            /\ r.payload = send[s].payload
        BY <1>1, <2>1 DEF UsesChannel, TypeOK, Sending, SendPC
      <3> HIDE DEF r
      <3> QED
        BY <1>5, <2>1, <3>1 DEF ReadProvider, Onward
    <2> QED
      BY <1>5, <2>1 DEF ReadProvider, Leave
  <1>6. CASE ReadSender(s)
    <2>1. ASSUME NEW x \in Emails \cup {Instance}, send[s].ch = "EMAIL" \/ x = Instance,
                 Continue(s, [send[s] EXCEPT !.pc = "row", !.from = x])
          PROVE  \E r \in Sending : Continue(s, r) /\ Onward(s, r)
      <3> DEFINE r == [send[s] EXCEPT !.pc = "row", !.from = x]
      <3>1. /\ r \in Sending /\ r.pc = "row" /\ r.ch = send[s].ch /\ r.from = x
            /\ r.version = send[s].version /\ r.payload = send[s].payload
        BY <1>1 DEF Sending, SendPC
      <3> HIDE DEF r
      <3> QED
        BY <1>6, <2>1, <3>1 DEF ReadSender, Onward, r
    <2>2. connection # NoConnection => connection.email \in Emails
      BY DEF TypeOK
    <2> QED
      BY <1>6, <2>1, <2>2 DEF ReadSender, Leave
  <1>7. CASE ReadRow(s)
    <2> DEFINE r == [send[s] EXCEPT !.pc = "claim", !.attempt = Row(s).attempt]
    <2>1. CASE Continue(s, r)
      <3>1. Row(s).attempt \in 0 .. MaxAttempt
        BY <1>1 DEF TypeOK, Row, Sending
      <3>2. /\ r \in Sending /\ r.pc = "claim" /\ r.ch = send[s].ch
            /\ r.from = send[s].from /\ r.version = send[s].version
            /\ r.payload = send[s].payload
        BY <1>1, <3>1 DEF Sending, SendPC
      <3> HIDE DEF r
      <3> QED
        BY <1>7, <2>1, <3>2 DEF ReadRow, Onward, SendersApproved
    <2> QED
      BY <1>7, <2>1 DEF ReadRow, Leave
  <1>8. CASE Claim(s)
    <2> DEFINE r == [send[s] EXCEPT
                        !.pc = IF send[s].ch = "EMAIL" THEN "recheck" ELSE "call",
                        !.token = IF send[s].ch = "EMAIL" THEN Unset ELSE Instance,
                        !.attempt = send[s].attempt + 1]
    <2>1. send[s].pc = "claim"
      BY <1>8 DEF Claim
    <2>4. send[s].attempt + 1 \in 0 .. MaxAttempt
      BY <1>1, <1>2, <2>1, BoundsAssumption DEF LocalOK, Sending
    <2>2. /\ r \in Sending /\ r.ch = send[s].ch /\ r.from = send[s].from
          /\ r.version = send[s].version /\ r.payload = send[s].payload
          /\ r.pc = IF send[s].ch = "EMAIL" THEN "recheck" ELSE "call"
          /\ r.token = IF send[s].ch = "EMAIL" THEN Unset ELSE Instance
      BY <1>1, <2>4 DEF Sending, SendPC
    <2>3. Continue(s, r)
      BY <1>8 DEF Claim
    <2> HIDE DEF r
    <2> QED
      BY <1>2, <2>1, <2>2, <2>3 DEF Onward, SendersApproved
  <1>9. CASE Recheck(s)
    <2> DEFINE r == [send[s] EXCEPT !.pc = "call", !.token = connection.email]
    <2>1. CASE SameAccount(s) /\ Continue(s, r)
      <3>1. /\ r \in Sending /\ r.pc = "call" /\ r.ch = send[s].ch
            /\ r.from = send[s].from /\ r.version = send[s].version
            /\ r.payload = send[s].payload /\ r.token = connection.email
        BY <1>1, <2>1 DEF SameAccount, TypeOK, Sending, SendPC
      <3> HIDE DEF r
      <3> QED
        BY <1>9, <2>1, <3>1 DEF Recheck, Onward, SameAccount
    <2> QED
      BY <1>3, <1>9, <2>1 DEF Recheck, SendPC, RowStatus, Result
  <1>10. CASE CallProvider(s) \/ MarkReauthorize(s)
    BY <1>4, <1>10 DEF CallProvider, MarkReauthorize, SendPC
  <1>11. CASE Receive(s) \/ GiveUp(s)
    BY <1>3, <1>11 DEF Receive, GiveUp, SendPC, RowStatus, Done
  <1>12. CASE RecordFails(s)
    BY <1>3, <1>12 DEF RecordFails, Leave, SendPC, RowStatus
  <1>13. CASE LoseClaim(s) \/ ClaimUnacknowledged(s) \/ Record(s)
    BY <1>13 DEF LoseClaim, ClaimUnacknowledged, Record, Leave
  <1> QED
    BY <1>5, <1>6, <1>7, <1>8, <1>9, <1>10, <1>11, <1>12, <1>13 DEF SenderStep, SenderFault

\* Only CallProvider hands a message over, and it names the token it holds.
LEMMA CallsMade ==
    ASSUME TypeOK, LocalsOK, NEW s \in Senders,
           ReadRequest(s) \/ SenderStep(s) \/ SenderFault(s),
           NEW c \in calls' \ calls
    PROVE  /\ send[s].pc = "call"
           /\ c.by = s /\ c.ch = send[s].ch /\ c.version = send[s].version
           /\ c.payload = send[s].payload /\ c.from = send[s].token
  <1>1. CASE CallProvider(s)
    BY <1>1 DEF CallProvider
  <1>2. CASE ~CallProvider(s)
    <2>1. UNCHANGED calls
      BY <1>2 DEF SenderStep, SenderFault, ReadRequest, ReadProvider, ReadSender, ReadRow,
         Claim, LoseClaim, ClaimUnacknowledged, Recheck, Receive, GiveUp,
         MarkReauthorize, Record, RecordFails
    <2> QED
      BY <2>1
  <1> QED
    BY <1>1, <1>2

\* A sending handler leaves the request, its history and the editors alone.
LEMMA SendersOnlySend ==
    ASSUME NEW s \in Senders, ReadRequest(s) \/ SenderStep(s) \/ SenderFault(s)
    PROVE  UNCHANGED <<request, payloadAt, lastEdit, edit>> /\ calls \subseteq calls'
  BY DEF SenderStep, SenderFault, ReadRequest, ReadProvider, ReadSender, ReadRow, Claim,
     LoseClaim, ClaimUnacknowledged, Recheck, CallProvider, Receive, GiveUp,
     MarkReauthorize, Record, RecordFails, requestVars

\* What a handler that starts is given.
LEMMA SenderStarts ==
    ASSUME TypeOK, NEW s \in Senders, ReadRequest(s)
    PROVE  \E r \in Sending :
              /\ Continue(s, r) /\ r.pc = "provider"
              /\ r.version = request.version /\ r.payload = request.payload
  <1>1. PICK ch \in Channels :
           Continue(s, [IdleSend EXCEPT !.pc = "provider", !.ch = ch,
                           !.version = request.version, !.payload = request.payload])
    BY DEF ReadRequest
  <1> DEFINE r == [IdleSend EXCEPT !.pc = "provider", !.ch = ch,
                      !.version = request.version, !.payload = request.payload]
  <1>2. /\ r \in Sending /\ r.pc = "provider"
        /\ r.version = request.version /\ r.payload = request.payload
    BY IdleSendTyped DEF TypeOK, Sending, SendPC
  <1>3. Continue(s, r)
    BY <1>1
  <1> HIDE DEF r
  <1> QED
    BY <1>2, <1>3

ApprovedInv == IInv /\ SendersApproved /\ VersionsStand

LEMMA SenderApproved ==
    ASSUME IInv, SendersApproved, NEW s \in Senders,
           ReadRequest(s) \/ SenderStep(s) \/ SenderFault(s)
    PROVE  SendersApproved'
  <1>1. TypeOK /\ LocalsOK /\ send \in [Senders -> Sending]
    BY DEF IInv, TypeOK
  <1>2. ASSUME NEW r \in Sending, Continue(s, r),
               r.pc \in {"row", "claim"} /\ r.ch = "WHATSAPP" => r.from = Instance,
               r.pc = "call" => r.token = r.from
        PROVE  SendersApproved'
    <2>1. send'[s] = r /\ \A t \in Senders : t # s => send'[t] = send[t]
      BY <1>1, <1>2, Continued
    <2> QED
      BY <1>2, <2>1 DEF SendersApproved
  <1>3. CASE ReadRequest(s)
    BY <1>1, <1>2, <1>3, SenderStarts
  <1>4. CASE Continue(s, IdleSend)
    BY <1>2, <1>4, IdleSendTyped DEF IdleSend
  <1>5. ASSUME NEW r \in Sending, Continue(s, r), Onward(s, r)
        PROVE  SendersApproved'
    BY <1>2, <1>5 DEF Onward, SendersApproved
  <1> QED
    BY <1>1, <1>3, <1>4, <1>5, SenderMoves

LEMMA SenderVersions ==
    ASSUME IInv, SendersApproved, VersionsStand, NEW s \in Senders,
           ReadRequest(s) \/ SenderStep(s) \/ SenderFault(s)
    PROVE  VersionsStand'
  <1>1. TypeOK /\ LocalsOK /\ send \in [Senders -> Sending] /\ request.version \in Nat
    BY DEF IInv, TypeOK, Versions
  <1>2. UNCHANGED <<request, payloadAt, edit>>
    BY SendersOnlySend
  <1>3. ASSUME NEW r \in Sending, Continue(s, r),
               r.pc # "idle" =>
                  r.version <= request.version /\ r.payload = payloadAt[r.version]
        PROVE  \A t \in Senders : send'[t].pc # "idle" =>
                  /\ send'[t].version <= request.version
                  /\ send'[t].payload = payloadAt[send'[t].version]
    <2>1. send'[s] = r /\ \A t \in Senders : t # s => send'[t] = send[t]
      BY <1>1, <1>3, Continued
    <2> QED
      BY <1>3, <2>1 DEF VersionsStand
  <1>4. \A t \in Senders : send'[t].pc # "idle" =>
           /\ send'[t].version <= request.version
           /\ send'[t].payload = payloadAt[send'[t].version]
    <2>1. CASE ReadRequest(s)
      BY <1>1, <1>3, <2>1, SenderStarts DEF VersionsStand
    <2>2. CASE Continue(s, IdleSend)
      BY <1>3, <2>2, IdleSendTyped DEF IdleSend
    <2>3. ASSUME NEW r \in Sending, Continue(s, r), Onward(s, r)
          PROVE  \A t \in Senders : send'[t].pc # "idle" =>
                    /\ send'[t].version <= request.version
                    /\ send'[t].payload = payloadAt[send'[t].version]
      BY <1>3, <2>3 DEF Onward, VersionsStand
    <2> QED
      BY <1>1, <2>1, <2>2, <2>3, SenderMoves
  <1>5. \A c \in calls' : c.version <= request.version /\ c.payload = payloadAt[c.version]
    <2> SUFFICES ASSUME NEW c \in calls'
                 PROVE  c.version <= request.version /\ c.payload = payloadAt[c.version]
      OBVIOUS
    <2>1. CASE c \in calls
      BY <2>1 DEF VersionsStand, MessageIsItsVersion
    <2>2. CASE c \notin calls
      BY <1>1, <2>2, CallsMade DEF VersionsStand
    <2> QED
      BY <2>1, <2>2
  <1> QED
    BY <1>2, <1>4, <1>5 DEF VersionsStand, MessageIsItsVersion

LEMMA EditorVersions ==
    ASSUME IInv, VersionsStand, NEW e \in Editors, EditorStep(e)
    PROVE  VersionsStand'
  <1>1. /\ edit \in [Editors -> Editing]
        /\ request.version \in Nat
        /\ payloadAt \in [Versions -> Payloads \cup {Unset}]
        /\ \A s \in Senders : send[s].version \in Nat
        /\ \A c \in calls : c.version \in Nat
        /\ \A f \in Editors : edit[f].version \in Nat
    BY DEF IInv, TypeOK, Versions, Sending, Editing, Call
  <1>2. UNCHANGED <<send, calls>>
    BY DEF EditorStep, ReadForUpdate, WriteUpdate, LoseUpdate, ReadForCancel, WriteCancel
  <1>3. CASE ReadForUpdate(e)
    <2>1. PICK st \in RequestStatus, p \in Payloads :
             edit' = [edit EXCEPT ![e] =
                         [pc |-> "update", version |-> request.version, status |-> st,
                          payload |-> p, seen |-> request.status]]
      BY <1>3 DEF ReadForUpdate
    <2>2. UNCHANGED <<request, payloadAt>>
      BY <1>3 DEF ReadForUpdate, requestVars
    <2> QED
      BY <1>1, <1>2, <2>1, <2>2 DEF VersionsStand, MessageIsItsVersion
  <1>4. CASE LoseUpdate(e) \/ ReadForCancel(e)
    <2>1. /\ UNCHANGED <<request, payloadAt>>
          /\ edit'[e].pc # "update"
          /\ \A f \in Editors : f # e => edit'[f] = edit[f]
      BY <1>1, <1>4 DEF LoseUpdate, ReadForCancel, requestVars, IdleEdit
    <2> QED
      BY <1>2, <2>1 DEF VersionsStand, MessageIsItsVersion
  <1>5. ASSUME WriteUpdate(e) \/ WriteCancel(e)
        PROVE  /\ request'.version = request.version + 1
               /\ payloadAt'[request.version + 1] = request'.payload
               /\ \A v \in Versions : v # request.version + 1 =>
                     payloadAt'[v] = payloadAt[v]
               /\ edit'[e].pc = "idle"
               /\ \A f \in Editors : f # e => edit'[f] = edit[f]
    <2>1. request \in [status: RequestStatus, version: Versions, payload: Payloads]
      BY DEF IInv, TypeOK
    <2>2. request.version < MaxVersion
      BY <1>5 DEF WriteUpdate, WriteCancel
    <2>3. request.version + 1 \in Versions
      BY <2>1, <2>2, BoundsAssumption DEF Versions
    <2>4. /\ edit' = [edit EXCEPT ![e] = IdleEdit]
          /\ payloadAt' = [payloadAt EXCEPT ![request.version + 1] = request'.payload]
          /\ request'.version = request.version + 1
      <3>1. CASE WriteUpdate(e)
        BY <3>1 DEF WriteUpdate
      <3>2. CASE WriteCancel(e)
        BY <2>1, <3>2 DEF WriteCancel
      <3> QED
        BY <1>5, <3>1, <3>2
    <2> QED
      BY <1>1, <2>3, <2>4 DEF IdleEdit
  <1>6. CASE WriteUpdate(e) \/ WriteCancel(e)
    <2>1. \A s \in Senders : send[s].version \in Versions
      BY DEF IInv, TypeOK, Sending
    <2>2. \A c \in calls : c.version \in Versions
      BY DEF IInv, TypeOK, Call
    <2>3. \A s \in Senders : send'[s].pc # "idle" =>
             /\ send'[s].version <= request'.version
             /\ send'[s].payload = payloadAt'[send'[s].version]
      BY <1>1, <1>2, <1>5, <1>6, <2>1 DEF VersionsStand
    <2>4. \A c \in calls' : c.version <= request'.version /\ c.payload = payloadAt'[c.version]
      BY <1>1, <1>2, <1>5, <1>6, <2>2 DEF VersionsStand, MessageIsItsVersion
    <2>5. \A f \in Editors : edit'[f].pc = "update" =>
             edit'[f].version <= request'.version /\ edit'[f].version # request'.version
      BY <1>1, <1>5, <1>6 DEF VersionsStand
    <2>6. payloadAt'[request'.version] = request'.payload
      BY <1>5, <1>6
    <2> QED
      BY <2>3, <2>4, <2>5, <2>6 DEF VersionsStand, MessageIsItsVersion
  <1> QED
    BY <1>3, <1>4, <1>6 DEF EditorStep

LEMMA InitApproved == Init => ApprovedInv
  <1> SUFFICES ASSUME Init PROVE ApprovedInv
    OBVIOUS
  <1>1. IInv
    BY InitIInv
  <1>2. /\ \A s \in Senders : send[s].pc = "idle"
        /\ \A e \in Editors : edit[e].pc = "idle"
        /\ calls = {}
    BY DEF Init, IdleSend, IdleEdit
  <1>3. payloadAt[request.version] = request.payload
    BY BoundsAssumption DEF Init, Versions
  <1> QED
    BY <1>1, <1>2, <1>3 DEF ApprovedInv, SendersApproved, VersionsStand, MessageIsItsVersion

LEMMA StepApproved == ApprovedInv /\ [Next]_vars => ApprovedInv'
  <1> SUFFICES ASSUME ApprovedInv, [Next]_vars PROVE ApprovedInv'
    OBVIOUS
  <1>1. IInv /\ SendersApproved /\ VersionsStand /\ IInv'
    BY StepIInv DEF ApprovedInv
  <1>2. ASSUME NEW s \in Senders, ReadRequest(s) \/ SenderStep(s) \/ SenderFault(s)
        PROVE  SendersApproved' /\ VersionsStand'
    BY <1>1, <1>2, SenderApproved, SenderVersions
  <1>3. ASSUME NEW e \in Editors, EditorStep(e)
        PROVE  SendersApproved' /\ VersionsStand'
    <2>1. UNCHANGED send
      BY <1>3 DEF EditorStep, ReadForUpdate, WriteUpdate, LoseUpdate, ReadForCancel,
         WriteCancel
    <2> QED
      BY <1>1, <1>3, <2>1, EditorVersions DEF SendersApproved
  <1>4. ASSUME NEW c \in calls, ProviderDecides(c)
        PROVE  SendersApproved' /\ VersionsStand'
    <2>1. UNCHANGED <<request, payloadAt, send, edit>>
      BY <1>4 DEF ProviderDecides, requestVars
    <2>2. c \in Call
      BY <1>1 DEF IInv, TypeOK
    <2>3. PICK x \in Verdicts : calls' = (calls \ {c}) \cup {[c EXCEPT !.verdict = x]}
      BY <1>4 DEF ProviderDecides
    <2>4. \A d \in calls' : d.version <= request.version /\ d.payload = payloadAt[d.version]
      BY <1>1, <2>2, <2>3 DEF VersionsStand, MessageIsItsVersion, Call
    <2> QED
      BY <1>1, <2>1, <2>4 DEF SendersApproved, VersionsStand, MessageIsItsVersion
  <1>5. ASSUME SettingStep \/ UNCHANGED vars
        PROVE  SendersApproved' /\ VersionsStand'
    <2>1. UNCHANGED <<request, payloadAt, send, edit, calls>>
      BY <1>5 DEF SettingStep, ChangeProvider, ConnectGmail, DisconnectGmail,
         requestVars, vars
    <2> QED
      BY <1>1, <2>1 DEF SendersApproved, VersionsStand, MessageIsItsVersion
  <1>6. ASSUME Crash PROVE SendersApproved' /\ VersionsStand'
    <2>1. /\ UNCHANGED <<request, payloadAt, calls>>
          /\ \A s \in Senders : send'[s].pc = "idle"
          /\ \A e \in Editors : edit'[e].pc = "idle"
      BY <1>6 DEF Crash, requestVars, IdleSend, IdleEdit
    <2> QED
      BY <1>1, <2>1 DEF SendersApproved, VersionsStand, MessageIsItsVersion
  <1> QED
    BY <1>1, <1>2, <1>3, <1>4, <1>5, <1>6 DEF Next, ApprovedInv

LEMMA AlwaysApproved == Spec => []ApprovedInv
  BY InitApproved, StepApproved, PTL DEF Spec

\* Whatever account is connected or taken away while a handler runs, a Gmail
\* message leaves with the account its preview named, and a WhatsApp one from
\* the instance.
THEOREM SendersAreApproved == Spec => SenderIsApproved
  <1> DEFINE Made == \A c \in calls' \ calls :
                        c.verdict = "pending" => c.from = send[c.by].from
  <1>1. ASSUME ApprovedInv, [Next]_vars PROVE [Made]_vars
    <2> SUFFICES ASSUME NEW c \in calls' \ calls, c.verdict = "pending"
                 PROVE  c.from = send[c.by].from
      OBVIOUS
    <2>1. IInv /\ TypeOK /\ LocalsOK /\ SendersApproved
      BY <1>1 DEF ApprovedInv, IInv
    <2>2. ASSUME NEW s \in Senders, ReadRequest(s) \/ SenderStep(s) \/ SenderFault(s)
          PROVE  c.from = send[c.by].from
      BY <2>1, <2>2, CallsMade DEF SendersApproved
    <2>3. ASSUME NEW d \in calls, ProviderDecides(d) PROVE FALSE
      <3>1. d \in Call
        BY <2>1 DEF TypeOK
      <3>2. PICK x \in Verdicts \ {"pending"} :
               calls' = (calls \ {d}) \cup {[d EXCEPT !.verdict = x]}
        BY <2>3 DEF ProviderDecides
      <3>3. [d EXCEPT !.verdict = x].verdict = x
        BY <3>1 DEF Call
      <3> QED
        BY <3>2, <3>3
    <2>4. ASSUME UNCHANGED calls PROVE FALSE
      BY <2>4
    <2>5. \A e \in Editors : EditorStep(e) => UNCHANGED calls
      BY DEF EditorStep, ReadForUpdate, WriteUpdate, LoseUpdate, ReadForCancel, WriteCancel
    <2>6. SettingStep \/ Crash \/ UNCHANGED vars => UNCHANGED calls
      BY DEF SettingStep, ChangeProvider, ConnectGmail, DisconnectGmail, Crash, vars
    <2> QED
      BY <1>1, <2>2, <2>3, <2>4, <2>5, <2>6 DEF Next
  <1> QED
    BY <1>1, AlwaysApproved, PTL DEF Spec, SenderIsApproved

\* However edits, cancellations and sends interleave, what is sent of a version
\* is what the version was written with, and the event of an edit says what the
\* edit did, though it is worded from a row read before the transaction.
THEOREM EditsAreWhatTheySay == Spec => EditsStand
  <1>1. ASSUME ApprovedInv, [Next]_vars
        PROVE  [request'.version # request.version /\ lastEdit' # "cancelled" =>
                  lastEdit' = IF request'.status # request.status
                              THEN request'.status ELSE "edited"]_vars
    <2> SUFFICES ASSUME request'.version # request.version, lastEdit' # "cancelled"
                 PROVE  lastEdit' = IF request'.status # request.status
                                    THEN request'.status ELSE "edited"
      OBVIOUS
    <2>1. VersionsStand
      BY <1>1 DEF ApprovedInv
    <2>2. ASSUME UNCHANGED request PROVE FALSE
      BY <2>2
    <2>3. ASSUME NEW e \in Editors, EditorStep(e)
          PROVE  lastEdit' = IF request'.status # request.status
                             THEN request'.status ELSE "edited"
      <3>1. CASE WriteUpdate(e)
        BY <2>1, <3>1 DEF WriteUpdate, VersionsStand
      <3>2. CASE ReadForUpdate(e) \/ LoseUpdate(e) \/ ReadForCancel(e)
        BY <2>2, <3>2 DEF ReadForUpdate, LoseUpdate, ReadForCancel, requestVars
      <3>3. CASE WriteCancel(e)
        BY <3>3 DEF WriteCancel
      <3> QED
        BY <2>3, <3>1, <3>2, <3>3 DEF EditorStep
    <2>4. \A s \in Senders :
             ReadRequest(s) \/ SenderStep(s) \/ SenderFault(s) => UNCHANGED request
      BY SendersOnlySend
    <2>5. (\E c \in calls : ProviderDecides(c)) \/ SettingStep \/ Crash \/ UNCHANGED vars
             => UNCHANGED request
      BY DEF ProviderDecides, SettingStep, ChangeProvider, ConnectGmail, DisconnectGmail,
         Crash, vars, requestVars
    <2> QED
      BY <1>1, <2>2, <2>3, <2>4, <2>5 DEF Next
  <1>2. ApprovedInv => MessageIsItsVersion
    BY DEF ApprovedInv, VersionsStand
  <1> QED
    BY <1>1, <1>2, AlwaysApproved, PTL DEF Spec, EditsStand, EventTellsTheChange

-----------------------------------------------------------------------------
(* The delivery tables implement SendOnce.                                 *)

AbstractStates == [k \in Channels \X Versions |->
                      AbstractState(delivery[k[1]][k[2]].status)]
AbstractDelivered ==
    [k \in Channels \X Versions |->
        \E c \in calls : c.ch = k[1] /\ c.version = k[2] /\ Delivered(c)]

\* A row changes by one of the moves of its cell: what SendOnce calls Begin,
\* SettleSent, SettleFailed and SettleUncertain.
CellMove(ch, v, status) ==
    LET old == delivery[ch][v].status
        mine == {c \in calls : c.ch = ch /\ c.version = v}
        given == \E c \in mine : Delivered(c)
    IN  \/ status = "SENDING" /\ old \in {"NONE", "FAILED"} /\ ~given
        \/ status = Done(ch) /\ old \in {"SENDING", "UNCERTAIN"} /\ given
        \/ status = "FAILED" /\ old \in {"SENDING", "UNCERTAIN"} /\ ~given
        \/ status = "UNCERTAIN" /\ old # "NONE"

LEMMA MovesRefine ==
    ASSUME TypeOK, NEW s \in Senders, NEW row \in RowType, SetRow(s, row),
           UNCHANGED calls, CellMove(send[s].ch, send[s].version, row.status)
    PROVE  Once!Next
  <1> DEFINE ch0 == send[s].ch
             v0 == send[s].version
             k0 == <<ch0, v0>>
             Keys == Channels \X Versions
  <1>1. ch0 \in Channels /\ v0 \in Versions /\ k0 \in Keys
    BY DEF TypeOK, Sending
  <1>2. /\ delivery' \in [Channels -> [Versions -> RowType]]
        /\ delivery'[ch0][v0] = row
        /\ \A ch \in Channels, v \in Versions :
              ch # ch0 \/ v # v0 => delivery'[ch][v] = delivery[ch][v]
    BY RowWritten DEF TypeOK, RowType
  <1>3. AbstractStates' = [AbstractStates EXCEPT ![k0] = AbstractState(row.status)]
    <2>1. AbstractStates' \in [Keys -> {AbstractStates'[k] : k \in Keys}]
      BY DEF AbstractStates
    <2> SUFFICES ASSUME NEW k \in Keys
                 PROVE  AbstractStates'[k] =
                           [AbstractStates EXCEPT ![k0] = AbstractState(row.status)][k]
      BY DEF AbstractStates
    <2>2. CASE k = k0
      BY <1>1, <1>2, <2>2 DEF AbstractStates
    <2>3. CASE k # k0
      <3>1. k[1] # ch0 \/ k[2] # v0
        BY <2>3
      <3> QED
        BY <1>1, <1>2, <2>3, <3>1 DEF AbstractStates
    <2> QED
      BY <2>2, <2>3
  <1>4. AbstractDelivered' = AbstractDelivered
    BY DEF AbstractDelivered
  <1>5. /\ AbstractStates[k0] = AbstractState(delivery[ch0][v0].status)
        /\ AbstractDelivered[k0] =
              \E c \in calls : c.ch = ch0 /\ c.version = v0 /\ Delivered(c)
    BY <1>1 DEF AbstractStates, AbstractDelivered
  <1> DEFINE Becomes(x) == AbstractStates' = [AbstractStates EXCEPT ![k0] = x]
  <1>6. /\ AbstractStates[k0] \in {"none", "failed"} /\ ~AbstractDelivered[k0]
           /\ Becomes("sending") => Once!Begin(k0)
        /\ AbstractStates[k0] \in {"sending", "uncertain"} /\ AbstractDelivered[k0]
           /\ Becomes("sent") => Once!SettleSent(k0)
        /\ AbstractStates[k0] \in {"sending", "uncertain"} /\ ~AbstractDelivered[k0]
           /\ Becomes("failed") => Once!SettleFailed(k0)
        /\ AbstractStates[k0] # "none"
           /\ Becomes("uncertain") => Once!SettleUncertain(k0)
    BY <1>4 DEF Once!Begin, Once!SettleSent, Once!SettleFailed, Once!SettleUncertain,
       AbstractStates, AbstractDelivered
  <1>7. /\ AbstractState("NONE") = "none" /\ AbstractState("SENDING") = "sending"
        /\ AbstractState("FAILED") = "failed" /\ AbstractState("UNCERTAIN") = "uncertain"
        /\ AbstractState(Done(ch0)) = "sent"
        /\ \A x \in RowStatus : x # "NONE" => AbstractState(x) # "none"
    BY DEF AbstractState, Done, RowStatus
  <1>8. delivery[ch0][v0].status \in RowStatus
    BY <1>1 DEF TypeOK
  <1>9. \/ Once!Begin(k0) \/ Once!SettleSent(k0)
        \/ Once!SettleFailed(k0) \/ Once!SettleUncertain(k0)
    <2> DEFINE given == \E c \in {d \in calls : d.ch = ch0 /\ d.version = v0} : Delivered(c)
    <2>1. AbstractDelivered[k0] <=> given
      BY <1>5
    <2>2. /\ AbstractStates[k0] = AbstractState(delivery[ch0][v0].status)
          /\ Becomes(AbstractState(row.status))
      BY <1>3, <1>5
    <2>3. \/ row.status = "SENDING" /\ delivery[ch0][v0].status \in {"NONE", "FAILED"} /\ ~given
          \/ /\ row.status = Done(ch0)
             /\ delivery[ch0][v0].status \in {"SENDING", "UNCERTAIN"} /\ given
          \/ /\ row.status = "FAILED"
             /\ delivery[ch0][v0].status \in {"SENDING", "UNCERTAIN"} /\ ~given
          \/ row.status = "UNCERTAIN" /\ delivery[ch0][v0].status # "NONE"
      BY DEF CellMove
    <2> HIDE DEF given, Becomes, ch0, v0, k0
    <2> QED
      BY <1>6, <1>7, <1>8, <2>1, <2>2, <2>3
  <1> QED
    BY <1>1, <1>9 DEF Once!Next

LEMMA RecordMoves ==
    ASSUME IInv, NEW s \in Senders, send[s].pc \in RecordPC
    PROVE  CellMove(send[s].ch, send[s].version, send[s].target)
  <1>1. LocalOK(s) /\ Knows(s) /\ (Holder(s) => Row(s).status \in {"SENDING", "UNCERTAIN"})
    BY DEF IInv, LocalsOK, HoldersKnow, HoldersOwn
  <1>2. /\ Row(s).status # "NONE"
        /\ send[s].target \in {"FAILED", "UNCERTAIN", Done(send[s].ch)}
    BY <1>1 DEF LocalOK, RecordPC
  <1>3. CASE send[s].target = "UNCERTAIN"
    BY <1>2, <1>3 DEF CellMove, Row
  <1>4. CASE send[s].target \in {"FAILED", Done(send[s].ch)}
    <2>1. Row(s).status \in {"SENDING", "UNCERTAIN"}
      BY <1>1, <1>4 DEF Holder
    <2>2. CASE send[s].target = "FAILED"
      <3>1. \A c \in Mine(s) : ~Delivered(c)
        BY <1>1, <2>2 DEF Knows, Delivered
      <3> QED
        BY <2>1, <2>2, <3>1 DEF CellMove, Row, Mine
    <2>3. CASE send[s].target = Done(send[s].ch)
      BY <1>1, <2>1, <2>3 DEF Knows, CellMove, Row, Mine
    <2> QED
      BY <1>4, <2>2, <2>3
  <1> QED
    BY <1>2, <1>3, <1>4

LEMMA ClaimMoves ==
    ASSUME IInv, NEW s \in Senders, Claimable(s)
    PROVE  CellMove(send[s].ch, send[s].version, "SENDING")
  <1>1. send[s].ch \in Channels /\ send[s].version \in Versions
    BY DEF IInv, TypeOK, Sending
  <1>2. delivery[send[s].ch][send[s].version].status \in {"NONE", "FAILED"}
    BY DEF Claimable, Row
  <1>3. \A c \in calls : c.ch = send[s].ch /\ c.version = send[s].version =>
           c.verdict = "rejected"
    BY <1>1, <1>2 DEF IInv, RowTellsFate
  <1> QED
    BY <1>2, <1>3 DEF CellMove, Delivered

\* The cells do not move when neither the rows nor the deliveries do.
LEMMA CellsRest ==
    ASSUME UNCHANGED delivery,
           \A ch \in Channels, v \in Versions :
              (\E c \in calls' : c.ch = ch /\ c.version = v /\ Delivered(c)) <=>
              (\E c \in calls : c.ch = ch /\ c.version = v /\ Delivered(c))
    PROVE  UNCHANGED Once!vars
  <1>1. AbstractStates' = AbstractStates
    BY DEF AbstractStates
  <1>2. AbstractDelivered' = AbstractDelivered
    BY DEF AbstractDelivered
  <1> QED
    BY <1>1, <1>2 DEF Once!vars, AbstractStates, AbstractDelivered

LEMMA DecisionRefines ==
    ASSUME IInv, NEW c \in calls, ProviderDecides(c)
    PROVE  [Once!Next]_Once!vars
  <1>1. c \in Call /\ c.ch \in Channels /\ c.version \in Versions /\ c.verdict = "pending"
    BY DEF IInv, TypeOK, Call, ProviderDecides
  <1>2. PICK x \in Verdicts \ {"pending"} :
           calls' = (calls \ {c}) \cup {[c EXCEPT !.verdict = x]}
    BY DEF ProviderDecides
  <1>3. UNCHANGED delivery
    BY DEF ProviderDecides, rowVars
  <1> DEFINE e == [c EXCEPT !.verdict = x]
             k0 == <<c.ch, c.version>>
  <1>4. e.ch = c.ch /\ e.version = c.version /\ e.verdict = x
    BY <1>1 DEF Call
  <1>5. calls' = (calls \ {c}) \cup {e}
    BY <1>2
  <1> HIDE DEF e
  <1>6. ~Delivered(c) /\ (Delivered(e) <=> x \in {"ok", "noid", "error_sent"})
    BY <1>1, <1>4 DEF Delivered
  <1>7. CASE ~Delivered(e)
    BY <1>3, <1>4, <1>5, <1>6, <1>7, CellsRest
  <1>8. CASE Delivered(e)
    <2>1. \A d \in calls : d.ch = c.ch /\ d.version = c.version => ~Delivered(d)
      BY <1>1 DEF IInv, NoResendInDoubt, SameMessage, Delivered
    <2>2. delivery[c.ch][c.version].status \in {"SENDING", "UNCERTAIN"}
      <3>1. delivery[c.ch][c.version].status \notin {"NONE", "FAILED"}
        BY <1>1 DEF IInv, RowTellsFate
      <3>2. delivery[c.ch][c.version].status # Done(c.ch)
        BY <1>1, <2>1 DEF IInv, RowTellsFate
      <3> QED
        BY <1>1, <3>1, <3>2 DEF IInv, RowsOK
    <2>3. AbstractStates' = AbstractStates
      BY <1>3 DEF AbstractStates
    <2>4. k0 \in Channels \X Versions /\ k0[1] = c.ch /\ k0[2] = c.version
      BY <1>1
    <2>5. AbstractStates[k0] \in {"sending", "uncertain"} /\ ~AbstractDelivered[k0]
      BY <2>1, <2>2, <2>4 DEF AbstractStates, AbstractDelivered, AbstractState
    <2>6. AbstractDelivered' = [AbstractDelivered EXCEPT ![k0] = TRUE]
      <3> SUFFICES ASSUME NEW k \in Channels \X Versions
                   PROVE  AbstractDelivered'[k] = [AbstractDelivered EXCEPT ![k0] = TRUE][k]
        BY DEF AbstractDelivered
      <3>1. CASE k = k0
        BY <1>4, <1>5, <1>8, <2>4, <3>1 DEF AbstractDelivered
      <3>2. CASE k # k0
        <4>1. ~(k[1] = c.ch /\ k[2] = c.version)
          BY <3>2
        <4>2. AbstractDelivered'[k] = AbstractDelivered[k]
          BY <1>4, <1>5, <4>1 DEF AbstractDelivered
        <4> QED
          BY <3>2, <4>2 DEF AbstractDelivered
      <3> QED
        BY <3>1, <3>2
    <2>7. Once!Deliver(k0)
      BY <2>3, <2>5, <2>6 DEF Once!Deliver, AbstractStates, AbstractDelivered
    <2> QED
      BY <2>4, <2>7 DEF Once!Next
  <1> QED
    BY <1>7, <1>8

LEMMA SenderRefines ==
    ASSUME IInv, NEW s \in Senders, ReadRequest(s) \/ SenderStep(s) \/ SenderFault(s)
    PROVE  [Once!Next]_Once!vars
  <1>1. TypeOK /\ LocalsOK
    BY DEF IInv
  <1>2. CASE Claim(s) \/ ClaimUnacknowledged(s)
    <2>1. Claimable(s) /\ WriteClaim(s) /\ UNCHANGED calls /\ send[s].pc = "claim"
      BY <1>2 DEF Claim, ClaimUnacknowledged
    <2> DEFINE row == [status |-> "SENDING", attempt |-> send[s].attempt + 1]
    <2>2. row \in RowType /\ row.status = "SENDING"
      BY <1>1, <2>1, BoundsAssumption DEF LocalsOK, LocalOK, TypeOK, Sending, RowType, RowStatus
    <2>3. SetRow(s, row)
      BY <2>1 DEF WriteClaim
    <2> HIDE DEF row
    <2> QED
      BY <1>1, <2>1, <2>2, <2>3, ClaimMoves, MovesRefine
  <1>3. CASE send[s].pc \in RecordPC /\ WriteRecord(s) /\ UNCHANGED calls
    <2> DEFINE row == [Row(s) EXCEPT !.status = send[s].target]
    <2>1. Row(s) \in RowType /\ send[s].target \in RowStatus
      BY <1>1 DEF TypeOK, Row, RowType, Sending
    <2>2. row \in RowType /\ row.status = send[s].target
      BY <2>1 DEF RowType
    <2>3. SetRow(s, row)
      BY <1>3 DEF WriteRecord
    <2> HIDE DEF row
    <2> QED
      BY <1>1, <1>3, <2>2, <2>3, RecordMoves, MovesRefine
  <1>4. CASE UNCHANGED delivery /\ UNCHANGED calls
    BY <1>4, CellsRest
  <1>5. CASE CallProvider(s)
    <2> DEFINE c == [by |-> s, ch |-> send[s].ch, version |-> send[s].version,
                     attempt |-> send[s].attempt, payload |-> send[s].payload,
                     to |-> send[s].to, from |-> send[s].token, verdict |-> "pending"]
    <2>1. calls' = calls \cup {c} /\ UNCHANGED delivery /\ ~Delivered(c)
      BY <1>5 DEF CallProvider, rowVars, Delivered
    <2> HIDE DEF c
    <2> QED
      BY <2>1, CellsRest
  <1>6. CASE Record(s) \/ RecordFails(s)
    <2>1. send[s].pc \in RecordPC /\ UNCHANGED calls /\ (WriteRecord(s) \/ UNCHANGED delivery)
      BY <1>6 DEF Record, RecordFails, RecordPC, rowVars
    <2> QED
      BY <1>3, <1>4, <2>1
  <1>7. CASE ReadRequest(s) \/ ReadProvider(s) \/ ReadSender(s) \/ ReadRow(s) \/ LoseClaim(s)
             \/ Recheck(s) \/ Receive(s) \/ GiveUp(s) \/ MarkReauthorize(s)
    BY <1>4, <1>7 DEF ReadRequest, ReadProvider, ReadSender, ReadRow, LoseClaim, Recheck,
       Receive, GiveUp, MarkReauthorize, rowVars
  <1> QED
    BY <1>2, <1>5, <1>6, <1>7 DEF SenderStep, SenderFault

LEMMA InitRefines == Init => Once!Init
  <1> SUFFICES ASSUME Init PROVE Once!Init
    OBVIOUS
  <1>1. \A k \in Channels \X Versions : delivery[k[1]][k[2]].status = "NONE"
    BY DEF Init, NoRow
  <1>2. AbstractStates = [k \in Channels \X Versions |-> "none"]
    BY <1>1 DEF AbstractStates, AbstractState
  <1>3. AbstractDelivered = [k \in Channels \X Versions |-> FALSE]
    BY DEF Init, AbstractDelivered
  <1> QED
    BY <1>2, <1>3 DEF Once!Init, AbstractStates, AbstractDelivered

LEMMA StepRefines == IInv /\ [Next]_vars => [Once!Next]_Once!vars
  <1> SUFFICES ASSUME IInv, [Next]_vars PROVE [Once!Next]_Once!vars
    OBVIOUS
  <1>1. CASE UNCHANGED delivery /\ UNCHANGED calls
    BY <1>1, CellsRest
  <1>2. \A e \in Editors : EditorStep(e) => UNCHANGED delivery /\ UNCHANGED calls
    BY DEF EditorStep, ReadForUpdate, WriteUpdate, LoseUpdate, ReadForCancel, WriteCancel,
       rowVars
  <1>3. SettingStep \/ Crash \/ UNCHANGED vars => UNCHANGED delivery /\ UNCHANGED calls
    BY DEF SettingStep, ChangeProvider, ConnectGmail, DisconnectGmail, Crash, rowVars, vars
  <1> QED
    BY <1>1, <1>2, <1>3, DecisionRefines, SenderRefines DEF Next

\* Every run of the handlers is, row by row, a run of SendOnce: a message is
\* attempted when it is new or known to have failed, is delivered at most once,
\* and a row is settled as "sent" or "failed" only when that is what happened.
THEOREM RefinesSendOnce == Spec => ImplementsSendOnce
  BY InitRefines, StepRefines, Invariance, PTL DEF Spec, ImplementsSendOnce, Once!Spec
=============================================================================

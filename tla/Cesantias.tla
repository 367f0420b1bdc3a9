------------------------------ MODULE Cesantias ------------------------------
(* Withdrawals of severance pay: the number a request is filed under, its      *)
(* states, the history of them and the e-mails that tell of both               *)
(* (cesantias.service.ts, cesantias-state-machine.ts).                         *)
EXTENDS Naturals, Sequences, FiniteSets

CONSTANTS
    Requests,       \* the requests that may be created
    Changes,        \* changes of state in course at once
    MaxHistory,     \* bound: the changes of all requests
    None

VARIABLES
    request,    \* the row of each request: its radicado and its status
    creating,   \* the radicado a creation under way has computed
    change,     \* each change under way
    historial,  \* the entries of each request
    mailed,     \* the changes of which the person was told
    failed,     \* an e-mail or an entry failed after its row was written
    crossed     \* the requests two changes were about at once

vars == <<request, creating, change, historial, mailed, failed, crossed>>

TRANSICIONES_VALIDAS ==
    {<<"RECIBIDA", "EN_REVISION">>,
     <<"EN_REVISION", "PENDIENTE_DOCUMENTOS">>, <<"EN_REVISION", "APROBADA">>,
     <<"EN_REVISION", "RECHAZADA">>,
     <<"PENDIENTE_DOCUMENTOS", "CORREGIDA">>, <<"PENDIENTE_DOCUMENTOS", "DESISTIDA">>,
     <<"CORREGIDA", "EN_REVISION">>, <<"APROBADA", "ENVIADA_AL_FONDO">>,
     <<"RECHAZADA", "CERRADA">>, <<"ENVIADA_AL_FONDO", "PAGADA_FINALIZADA">>,
     <<"ENVIADA_AL_FONDO", "RECHAZADA">>, <<"PAGADA_FINALIZADA", "CERRADA">>,
     <<"DESISTIDA", "CERRADA">>}
Statuses == {t[1] : t \in TRANSICIONES_VALIDAS} \cup {t[2] : t \in TRANSICIONES_VALIDAS}
Idle == [pc |-> "idle"]

CesantiasAssumption ==
    /\ IsFiniteSet(Requests)
    /\ MaxHistory \in Nat \ {0}
    /\ None \notin [radicado : Nat, status : Statuses]

TypeOK ==
    /\ \A i \in Requests : request[i] = None \/
         request[i] \in [radicado : 1 .. Cardinality(Requests), status : Statuses]
    /\ creating \in [Requests -> 0 .. Cardinality(Requests)]
    /\ \A c \in Changes : change[c] = Idle \/
         change[c] \in [pc : {"update", "history", "mail"}, id : Requests, to : Statuses]
    /\ historial \in [Requests -> Seq(Statuses)] /\ mailed \in [Requests -> Seq(Statuses)]
    /\ failed \subseteq Requests /\ crossed \subseteq Requests

Init ==
    /\ request = [i \in Requests |-> None] /\ creating = [i \in Requests |-> 0]
    /\ change = [c \in Changes |-> Idle]
    /\ historial = [i \in Requests |-> <<>>] /\ mailed = [i \in Requests |-> <<>>]
    /\ failed = {} /\ crossed = {}

-----------------------------------------------------------------------------
Filed == {i \in Requests : request[i] # None}
Radicados == {request[i].radicado : i \in Filed}

\* The number is the count of the year plus one.
GenerarRadicado(i) ==
    /\ request[i] = None /\ creating[i] = 0
    /\ creating' = [creating EXCEPT ![i] = Cardinality(Filed) + 1]
    /\ UNCHANGED <<request, change, historial, mailed, failed, crossed>>

\* Mutant: the number is not unique.
CreateAnyway(i) ==
    /\ creating[i] # 0
    /\ request' = [request EXCEPT ![i] = [radicado |-> creating[i], status |-> "RECIBIDA"]]
    /\ creating' = [creating EXCEPT ![i] = 0]
    /\ UNCHANGED <<change, historial, mailed, failed, crossed>>

\* The number is unique: of two creations with the same one, the second fails and
\* the person may ask again.
Create(i) ==
    /\ creating[i] # 0
    /\ request' = IF creating[i] \in Radicados THEN request
                  ELSE [request EXCEPT ![i] = [radicado |-> creating[i], status |-> "RECIBIDA"]]
    /\ creating' = [creating EXCEPT ![i] = 0]
    /\ UNCHANGED <<change, historial, mailed, failed, crossed>>

-----------------------------------------------------------------------------
Recorded == Cardinality(failed) + Cardinality(UNION {{i} \X DOMAIN historial[i] : i \in Requests})
About(i) == {c \in Changes : change[c] # Idle /\ change[c].id = i}

\* The change is checked against the status read.
BeginChange(c) ==
    /\ change[c] = Idle /\ Recorded < MaxHistory
    /\ \E i \in Filed, to \in Statuses :
         /\ <<request[i].status, to>> \in TRANSICIONES_VALIDAS
         /\ change' = [change EXCEPT ![c] = [pc |-> "update", id |-> i, to |-> to]]
         /\ crossed' = IF About(i) = {} THEN crossed ELSE crossed \cup {i}
    /\ UNCHANGED <<request, creating, historial, mailed, failed>>

UpdateStatus(c) ==
    /\ change[c] # Idle /\ change[c].pc = "update"
    /\ request' = [request EXCEPT ![change[c].id].status = change[c].to]
    /\ change' = [change EXCEPT ![c].pc = "history"]
    /\ UNCHANGED <<creating, historial, mailed, failed, crossed>>

CreateHistorial(c) ==
    /\ change[c] # Idle /\ change[c].pc = "history"
    /\ historial' = [historial EXCEPT ![change[c].id] = Append(@, change[c].to)]
    /\ change' = [change EXCEPT ![c].pc = "mail"]
    /\ UNCHANGED <<request, creating, mailed, failed, crossed>>

SendMail(c) ==
    /\ change[c] # Idle /\ change[c].pc = "mail"
    /\ mailed' = [mailed EXCEPT ![change[c].id] = Append(@, change[c].to)]
    /\ change' = [change EXCEPT ![c] = Idle]
    /\ UNCHANGED <<request, creating, historial, failed, crossed>>

\* A step fails: what was written before it stays.
Fails(c) ==
    /\ change[c] # Idle
    /\ change' = [change EXCEPT ![c] = Idle]
    /\ failed' = IF change[c].pc = "update" THEN failed ELSE failed \cup {change[c].id}
    /\ UNCHANGED <<request, creating, historial, mailed, crossed>>

Next ==
    \/ \E i \in Requests : GenerarRadicado(i) \/ Create(i)
    \/ \E c \in Changes : BeginChange(c) \/ UpdateStatus(c) \/ CreateHistorial(c)
                            \/ SendMail(c) \/ Fails(c)

Spec == Init /\ [][Next]_vars
-----------------------------------------------------------------------------
\* A path of the state machine from RECIBIDA to the status of the request.
IsPath(path) == \A n \in 1 .. Len(path) - 1 : <<path[n], path[n + 1]>> \in TRANSICIONES_VALIDAS

(* The numbers of the filed requests are 1, 2, ... without a gap or a          *)
(* repetition, whatever the creations that met; and unless two changes met or  *)
(* a step failed, the history of a request is a path of the state machine from *)
(* RECIBIDA to its status, less the entry of the change under way, and the     *)
(* person was told of it in that order.                                        *)
TramiteHolds ==
    /\ Radicados = 1 .. Cardinality(Filed)
    /\ \A i \in Filed \ (crossed \cup failed) :
         LET path == <<"RECIBIDA">> \o historial[i]
             pending == {c \in About(i) : change[c].pc = "history"} IN
           /\ IsPath(IF pending = {} THEN path ELSE Append(path, request[i].status))
           /\ pending = {} => path[Len(path)] = request[i].status
           /\ mailed[i] = SubSeq(historial[i], 1, Len(mailed[i]))
=============================================================================

------------------------------ MODULE Payroll ------------------------------
(***************************************************************************)
(* The payroll novelties: the absences and the overtime that fall in a     *)
(* period, their summary and totals, the workbook that is exported, and    *)
(* the list of requests in pages (nomina/nomina.service.ts,                *)
(* nomina-export.service.ts, utils/periodo.util.ts,                        *)
(* config/tipos-novedad.ts).                                               *)
(*                                                                         *)
(* The workbook reads its novelties three times, for three sheets, each    *)
(* time in two queries; requests are registered and decided meanwhile.     *)
(* Dates are numbers of days, with the time of day dropped.                *)
(***************************************************************************)
EXTENDS Naturals, Sequences, FiniteSets, FiniteSetsExt

CONSTANTS
    Offered,    \* the requests that may be registered
    WorkDays,   \* the days countBusinessDays counts
    Periods,    \* the periods that are settled, as pairs of days
    TestUsers,  \* the people with isUserTest
    MaxRows,    \* bound on the requests registered
    PageSize,   \* pageSize of the list
    MaxChanges  \* bound on the decisions modelled

VARIABLES
    rows,     \* the requests, in the order they are created
    export,   \* the workbook being generated, sheet by sheet and query by query
    settled,  \* the last detail exported for each period, with the rows it read
    listing,  \* the pages of the list that have been read
    changes,  \* decisions so far
    mixed     \* history: what changed under a reader

vars == <<rows, export, settled, listing, changes, mixed>>

Kinds == {"vacation", "compensated", "illness", "unpaid", "overtime"}
Statuses == {"PENDING", "APPROVED", "REJECTED"}
Sheets == {"detail", "people", "totals"}
Sources == {"leaves", "overtimes"}
Request ==
    [kind: Kinds, person: STRING, from: Nat, to: Nat, hours: Nat, days: Nat,
     status: Statuses, notTaken: BOOLEAN]
NoExport == [period |-> <<>>]
Unsettled == [rows |-> <<>>, detail |-> {}]
NoListing == [page |-> 0, seen |-> <<>>]

\* What is registered waits for a decision; the periods, halves of months
\* (periodosDelMes), share no day and leave none out.
PayrollAssumption ==
    /\ {MaxRows, PageSize} \subseteq Nat \ {0} /\ MaxChanges \in Nat
    /\ Offered \subseteq
         {r \in Request : r.status = "PENDING" /\ ~r.notTaken /\ r.from <= r.to}
    /\ Periods \subseteq Nat \X Nat
    /\ \A r \in Offered : \A day \in r.from .. r.to :
         \E p \in Periods : \A q \in Periods : day \in q[1] .. q[2] <=> p = q

TypeOK ==
    /\ Len(rows) <= MaxRows
    /\ \A i \in DOMAIN rows : rows[i] \in Request
    /\ export = NoExport \/ export.period \in Periods
    /\ DOMAIN settled \subseteq Periods
    /\ listing.page \in 0 .. MaxRows
    /\ changes \in 0 .. MaxChanges
    /\ mixed \subseteq {"export", "list"}

Init ==
    /\ rows = <<>>
    /\ export = NoExport
    /\ settled = [p \in {} |-> {}]
    /\ listing = NoListing
    /\ changes = 0
    /\ mixed = {}
-----------------------------------------------------------------------------
(* Types and periods.                                                      *)

\* CONFIG_TIPOS and resolverConfigVacaciones.
Config(kind) ==
    [esRemunerada |-> kind # "unpaid",
     contarHabiles |-> kind # "illness",
     unidad |-> IF kind = "overtime" THEN "HORAS" ELSE "DIAS"]

diasCalendario(from, to) == Cardinality(from .. to)
countBusinessDays(from, to) == Cardinality((from .. to) \cap WorkDays)
Contar(kind, from, to) ==
    IF Config(kind).contarHabiles THEN countBusinessDays(from, to) ELSE diasCalendario(from, to)

\* recortarAlPeriodo, for a request that meets the period.
Recortar(row, period) ==
    [from |-> Max({row.from, period[1]}), to |-> Min({row.to, period[2]})]

Meets(row, period) == row.from <= period[2] /\ row.to >= period[1]

\* obtenerLeaves: a test user's leaves are left out, and what has no working
\* day in the period. The amount of a leave is that of its dates.
obtenerLeaves(period) ==
    {[id |-> i, kind |-> rows[i].kind, person |-> rows[i].person,
      partial |-> rows[i].hours,
      amount |-> Contar(rows[i].kind, Recortar(rows[i], period).from, Recortar(rows[i], period).to),
      total |-> Contar(rows[i].kind, rows[i].from, rows[i].to),
      crosses |-> rows[i].from < period[1] \/ rows[i].to > period[2]] :
        i \in {j \in DOMAIN rows :
                 /\ rows[j].kind # "overtime"
                 /\ rows[j].status = "APPROVED"
                 /\ ~rows[j].notTaken
                 /\ rows[j].person \notin TestUsers
                 /\ Meets(rows[j], period)
                 /\ Contar(rows[j].kind, Recortar(rows[j], period).from,
                           Recortar(rows[j], period).to) # 0}}

\* obtenerOvertimes: by its date, which has no end; nobody is left out.
obtenerOvertimes(period) ==
    {[id |-> i, kind |-> "overtime", person |-> rows[i].person, partial |-> 0,
      amount |-> rows[i].hours, total |-> rows[i].hours, crosses |-> FALSE] :
        i \in {j \in DOMAIN rows :
                 /\ rows[j].kind = "overtime"
                 /\ rows[j].status = "APPROVED"
                 /\ rows[j].from \in period[1] .. period[2]}}

Amount(novedades) == SumFunction([n \in novedades |-> n.amount])
Unpaid(novedades) == {n \in novedades : ~Config(n.kind).esRemunerada}
Hours(novedades) == {n \in novedades : Config(n.kind).unidad = "HORAS"}
Vacations(novedades) == {n \in novedades : n.kind \in {"vacation", "compensated"}}

resumenPorColaborador(novedades) ==
    [p \in {n.person : n \in novedades} |->
       LET own == {n \in novedades : n.person = p}
       IN  [extra |-> Amount(Hours(own)), vacations |-> Amount(Vacations(own)),
            absence |-> Amount((own \ Hours(own)) \ Vacations(own)), unpaid |-> Amount(Unpaid(own))]]

totalesPeriodo(novedades) ==
    [people |-> Cardinality({n.person : n \in novedades}),
     extra |-> Amount(Hours(novedades)),
     vacations |-> Amount(Vacations(novedades)),
     absence |-> Amount({n \in novedades : Config(n.kind).unidad = "DIAS"} \ Vacations(novedades)),
     unpaid |-> Amount(Unpaid(novedades)),
     partial |-> SumFunction([n \in novedades |-> n.partial]),
     crossing |-> Cardinality({n \in novedades : n.crosses})]
-----------------------------------------------------------------------------
(* The requests, as the modules that keep them leave them.                 *)

Changed ==
    mixed' = mixed \cup (IF export # NoExport THEN {"export"} ELSE {})

Register ==
    /\ Len(rows) < MaxRows
    /\ \E r \in Offered : rows' = Append(rows, r)
    /\ mixed' = mixed \cup (IF listing # NoListing THEN {"list"} ELSE {})
    /\ UNCHANGED <<export, settled, listing, changes>>

Decide ==
    /\ changes < MaxChanges
    /\ \E i \in DOMAIN rows :
         \/ /\ rows[i].status = "PENDING"
            /\ \E status \in {"APPROVED", "REJECTED"} :
                 rows' = [rows EXCEPT ![i].status = status]
         \/ /\ rows[i].kind = "vacation" /\ rows[i].status = "APPROVED" /\ ~rows[i].notTaken
            /\ rows' = [rows EXCEPT ![i].notTaken = TRUE]
    /\ changes' = changes + 1
    /\ Changed
    /\ UNCHANGED <<export, settled, listing>>
-----------------------------------------------------------------------------
(* The workbook.                                                           *)

\* The list and the workbook share no state: one is read at a time, and a
\* period is settled once.
BeginExport ==
    /\ export = NoExport /\ listing = NoListing
    /\ \E p \in Periods \ DOMAIN settled : export' = [period |-> p, read |-> [q \in {} |-> {}]]
    /\ mixed' = mixed \ {"export"}
    /\ UNCHANGED <<rows, settled, listing, changes>>

\* consolidar, one of its two queries for one of the sheets.
ReadNovelties(sheet, source) ==
    /\ export # NoExport
    /\ <<sheet, source>> \notin DOMAIN export.read
    /\ LET found == IF source = "leaves" THEN obtenerLeaves(export.period)
                    ELSE obtenerOvertimes(export.period)
       IN  export' = [export EXCEPT !.read =
                        [q \in DOMAIN export.read \cup {<<sheet, source>>} |->
                           IF q = <<sheet, source>> THEN found ELSE export.read[q]]]
    /\ UNCHANGED <<rows, settled, listing, changes, mixed>>

WholeRead == export # NoExport /\ DOMAIN export.read = Sheets \X Sources
Read(sheet) == UNION {export.read[<<sheet, source>>] : source \in Sources}

\* generarWorkbook: the sheets are built from what was read. Of a workbook that
\* was read while a request was decided, nothing is kept.
WriteWorkbook ==
    /\ WholeRead
    /\ settled' = [p \in DOMAIN settled \cup {export.period} |->
                     IF p # export.period THEN settled[p]
                     ELSE IF "export" \in mixed THEN Unsettled
                     ELSE [rows |-> rows, detail |-> Read("detail")]]
    /\ export' = NoExport
    /\ UNCHANGED <<rows, listing, changes, mixed>>

ExportFails ==
    /\ export # NoExport
    /\ export' = NoExport
    /\ UNCHANGED <<rows, settled, listing, changes, mixed>>
-----------------------------------------------------------------------------
(* The list of requests, the newest first.                                 *)

\* queryLeaves and queryOvertimes: a test user's requests are left out.
Listed ==
    LET found == {i \in DOMAIN rows : rows[i].person \notin TestUsers} IN
      CHOOSE s \in [1 .. Cardinality(found) -> found] :
        \A i, j \in DOMAIN s : i < j => s[i] > s[j]

TotalPages == IF Listed = <<>> THEN 1 ELSE (Len(Listed) + PageSize - 1) \div PageSize

\* Mutant: the pages are counted from zero.
PageFromZero(page) == SubSeq(Listed, page * PageSize + 1, Min({Len(Listed), (page + 1) * PageSize}))

Page(page) == SubSeq(Listed, (page - 1) * PageSize + 1, Min({Len(Listed), page * PageSize}))

\* findAllSolicitudes, page after page.
findAllSolicitudes ==
    /\ export = NoExport
    /\ listing.page < TotalPages
    /\ listing' = [page |-> listing.page + 1, seen |-> listing.seen \o Page(listing.page + 1)]
    /\ mixed' = IF listing = NoListing THEN mixed \ {"list"} ELSE mixed
    /\ UNCHANGED <<rows, export, settled, changes>>

CloseList ==
    /\ listing # NoListing
    /\ listing' = NoListing
    /\ UNCHANGED <<rows, export, settled, changes, mixed>>

Next ==
    \/ Register \/ Decide
    \/ BeginExport \/ WriteWorkbook \/ ExportFails
    \/ \E sheet \in Sheets, source \in Sources : ReadNovelties(sheet, source)
    \/ findAllSolicitudes \/ CloseList

Spec == Init /\ [][Next]_vars
-----------------------------------------------------------------------------
\* The sheets of a workbook agree: what the employees add up to is the total
\* of the period, and both are those of the detail, unless a request was
\* decided while they were read (generarWorkbook, resumenPorColaborador,
\* totalesPeriodo).
SheetsAgree ==
    LET people == resumenPorColaborador(Read("people"))
        totals == totalesPeriodo(Read("totals"))
    IN  WholeRead /\ "export" \notin mixed =>
            /\ totals.people = Cardinality(DOMAIN people)
            /\ \A field \in {"extra", "vacations", "absence", "unpaid"} :
                 totals[field] = SumFunction([p \in DOMAIN people |-> people[p][field]])
            /\ totals.extra + totals.vacations + totals.absence = Amount(Read("detail"))

\* A request that was approved and stayed as it was while every period was
\* settled is paid in full, once: its parts add up to its total
\* (recortarAlPeriodo, obtenerLeaves, obtenerOvertimes).
PeriodsAddUp ==
    DOMAIN settled = Periods =>
        \A p \in Periods : \A n \in settled[p].detail :
          (\A q \in Periods : n.id \in DOMAIN settled[q].rows
                              /\ settled[q].rows[n.id] = settled[p].rows[n.id]) =>
            LET parts == {q \in Periods : \E o \in settled[q].detail : o.id = n.id}
                PartOf(q) == CHOOSE o \in settled[q].detail : o.id = n.id
            IN  n.total = SumFunction([q \in parts |-> PartOf(q).amount])

\* The pages of the list show each request once, unless one was registered
\* between two of them (findAllSolicitudes).
PagesShowAll ==
    (listing.page = TotalPages /\ "list" \notin mixed) =>
        /\ IsInjective(listing.seen)
        /\ Range(listing.seen) = Range(Listed)

ReportsAddUp == SheetsAgree /\ PeriodsAddUp /\ PagesShowAll
=============================================================================

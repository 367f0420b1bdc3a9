------------------------------ MODULE Portal ------------------------------
(* The services of the portal that share neither a row nor a call with each    *)
(* other.  They are taken one at a time: "subject" is the component that       *)
(* moves, and the others stay as they began.                                   *)
EXTENDS Naturals

CONSTANTS
    None,                                          \* no row, no person, no choice
    Employees, Leaders, PointRequests, PointHandlers, Amounts,
    Users, ReactionTypes, MaxPosts, Comments, FeedHandlers, PageLimit,
    MaxBegun,
    Celebrants, BirthdayOf, BirthdayRuns, BirthdayPosts, LastDay,
    FormIds, Submissions, FormHandlers, Schemas, SubmittedData, MaxUpdates,
    OvertimeIds, OvertimeBatches, OvertimeReviews, HoursOfDay, DailyLimit,
    MonthlyLimit, DaysOfMonth, MaxBatch,
    Novelties, WorkDays, Periods, TestUsers, MaxRows, RowsPerPage, MaxChanges,
    CesantiasRequests, CesantiasChanges, MaxHistory,
    Scans, Phones, AlertAttempts,
    MaxEvents, MaxMessages, ThreadAttempts, Readers

VARIABLES
    subject,   \* the component that moves
    pointsRequest, pointsWallet, pointsTransaction, pointsWork,
    pointsNotified, pointsLost, pointsCrossed,
    feedPost, feedReaction, feedComment, feedWork, feedTold, feedReader,
    feedBegun, feedCrossed,
    birthdaysToday, birthdaysActive, birthdaysAuthor, birthdaysPost,
    birthdaysRun, birthdaysDone, birthdaysCrossed,
    formsForm, formsSubmission, formsWork, formsUpdates, formsTaken,
    formsCrossed, formsUndone,
    overtimeToday, overtimeEntry, overtimeBatch, overtimeReview,
    overtimeTold, overtimeCrossed,
    payrollRows, payrollExport, payrollSettled, payrollListing,
    payrollChanges, payrollMixed,
    cesantiasRequest, cesantiasCreating, cesantiasChange,
    cesantiasHistorial, cesantiasMailed, cesantiasFailed,
    cesantiasCrossed,
    alertsDue, alertsReplied, alertsRecord, alertsScan, alertsJob,
    alertsWorker, alertsUp, alertsTried, alertsReached, alertsRepeats,
    threadsEvent, threadsThread, threadsJob, threadsWorker,
    threadsSheet, threadsTold, threadsRetried, threadsOverlapped

pointsVars == <<pointsRequest, pointsWallet, pointsTransaction, pointsWork,
    pointsNotified, pointsLost, pointsCrossed>>
feedVars == <<feedPost, feedReaction, feedComment, feedWork, feedTold,
    feedReader, feedBegun, feedCrossed>>
birthdaysVars == <<birthdaysToday, birthdaysActive, birthdaysAuthor,
    birthdaysPost, birthdaysRun, birthdaysDone,
    birthdaysCrossed>>
formsVars == <<formsForm, formsSubmission, formsWork, formsUpdates,
    formsTaken, formsCrossed, formsUndone>>
overtimeVars == <<overtimeToday, overtimeEntry, overtimeBatch,
    overtimeReview, overtimeTold, overtimeCrossed>>
payrollVars == <<payrollRows, payrollExport, payrollSettled, payrollListing,
    payrollChanges, payrollMixed>>
cesantiasVars == <<cesantiasRequest, cesantiasCreating, cesantiasChange,
    cesantiasHistorial, cesantiasMailed, cesantiasFailed, cesantiasCrossed>>
alertsVars == <<alertsDue, alertsReplied, alertsRecord, alertsScan,
    alertsJob, alertsWorker, alertsUp, alertsTried, alertsReached,
    alertsRepeats>>
threadsVars == <<threadsEvent, threadsThread, threadsJob, threadsWorker,
    threadsSheet, threadsTold, threadsRetried, threadsOverlapped>>

Points == INSTANCE Points WITH
    Requests <- PointRequests, Handlers <- PointHandlers, Nothing <- None,
    request <- pointsRequest, wallet <- pointsWallet,
    transaction <- pointsTransaction, work <- pointsWork,
    notified <- pointsNotified, lost <- pointsLost, crossed <- pointsCrossed
Feed == INSTANCE Feed WITH
    Types <- ReactionTypes, Handlers <- FeedHandlers, Limit <- PageLimit,
    post <- feedPost, reaction <- feedReaction, comment <- feedComment,
    work <- feedWork, told <- feedTold, reader <- feedReader,
    begun <- feedBegun, crossed <- feedCrossed
Birthdays == INSTANCE Birthdays WITH
    Employees <- Celebrants, Runs <- BirthdayRuns, Posts <- BirthdayPosts,
    today <- birthdaysToday, active <- birthdaysActive,
    author <- birthdaysAuthor, post <- birthdaysPost, run <- birthdaysRun,
    done <- birthdaysDone, crossed <- birthdaysCrossed
Forms == INSTANCE Forms WITH
    Handlers <- FormHandlers, Data <- SubmittedData,
    form <- formsForm, submission <- formsSubmission, work <- formsWork,
    updates <- formsUpdates, taken <- formsTaken, crossed <- formsCrossed,
    undone <- formsUndone
Overtime == INSTANCE Overtime WITH
    Ids <- OvertimeIds, Batches <- OvertimeBatches,
    Reviews <- OvertimeReviews, Hours <- HoursOfDay, Days <- DaysOfMonth,
    today <- overtimeToday, entry <- overtimeEntry, batch <- overtimeBatch,
    review <- overtimeReview, told <- overtimeTold, crossed <- overtimeCrossed
Payroll == INSTANCE Payroll WITH
    Offered <- Novelties, PageSize <- RowsPerPage, rows <- payrollRows,
    export <- payrollExport, settled <- payrollSettled,
    listing <- payrollListing, changes <- payrollChanges,
    mixed <- payrollMixed
Cesantias == INSTANCE Cesantias WITH
    Requests <- CesantiasRequests, Changes <- CesantiasChanges,
    request <- cesantiasRequest, creating <- cesantiasCreating,
    change <- cesantiasChange, historial <- cesantiasHistorial,
    mailed <- cesantiasMailed, failed <- cesantiasFailed,
    crossed <- cesantiasCrossed
HotelAlerts == INSTANCE HotelAlerts WITH
    Attempts <- AlertAttempts,
    due <- alertsDue, replied <- alertsReplied, record <- alertsRecord,
    scan <- alertsScan, job <- alertsJob, worker <- alertsWorker,
    up <- alertsUp, tried <- alertsTried, reached <- alertsReached,
    repeats <- alertsRepeats
PagoTotal == INSTANCE PagoTotal WITH
    Attempts <- ThreadAttempts, event <- threadsEvent, thread <- threadsThread,
    job <- threadsJob, worker <- threadsWorker, sheet <- threadsSheet,
    told <- threadsTold, retried <- threadsRetried,
    overlapped <- threadsOverlapped

Components ==
    {"points", "feed", "birthdays", "forms", "overtime", "payroll",
     "cesantias", "alerts", "threads"}

ASSUME ComponentsAssumption ==
    /\ Points!AmountsAssumption
    /\ Feed!FeedAssumption
    /\ Birthdays!BirthdaysAssumption
    /\ Forms!FormsAssumption
    /\ Overtime!LimitsAssumption
    /\ Payroll!PayrollAssumption
    /\ Cesantias!CesantiasAssumption
    /\ HotelAlerts!HotelAlertsAssumption
    /\ PagoTotal!PagoTotalAssumption

vars ==
    <<subject, pointsVars, feedVars, birthdaysVars, formsVars, overtimeVars,
      payrollVars, cesantiasVars, alertsVars, threadsVars>>

Init ==
    /\ subject \in Components
    /\ Points!Init
    /\ Feed!Init
    /\ Birthdays!Init
    /\ Forms!Init
    /\ Overtime!Init
    /\ Payroll!Init
    /\ Cesantias!Init
    /\ HotelAlerts!Init
    /\ PagoTotal!Init

Next ==
    /\ UNCHANGED subject
    /\ IF subject = "points" THEN Points!Next ELSE UNCHANGED pointsVars
    /\ IF subject = "feed" THEN Feed!Next ELSE UNCHANGED feedVars
    /\ IF subject = "birthdays" THEN Birthdays!Next ELSE UNCHANGED birthdaysVars
    /\ IF subject = "forms" THEN Forms!Next ELSE UNCHANGED formsVars
    /\ IF subject = "overtime" THEN Overtime!Next ELSE UNCHANGED overtimeVars
    /\ IF subject = "payroll" THEN Payroll!Next ELSE UNCHANGED payrollVars
    /\ IF subject = "cesantias" THEN Cesantias!Next ELSE UNCHANGED cesantiasVars
    /\ IF subject = "alerts" THEN HotelAlerts!Next ELSE UNCHANGED alertsVars
    /\ IF subject = "threads" THEN PagoTotal!Next ELSE UNCHANGED threadsVars

Spec == Init /\ [][Next]_vars
-----------------------------------------------------------------------------
(* Every component is in a state of its type.                                  *)
TypesOK ==
    /\ subject \in Components
    /\ subject = "points" => Points!TypeOK
    /\ subject = "feed" => Feed!TypeOK
    /\ subject = "birthdays" => Birthdays!TypeOK
    /\ subject = "forms" => Forms!TypeOK
    /\ subject = "overtime" => Overtime!TypeOK
    /\ subject = "payroll" => Payroll!TypeOK
    /\ subject = "cesantias" => Cesantias!TypeOK
    /\ subject = "alerts" => HotelAlerts!TypeOK
    /\ subject = "threads" => PagoTotal!TypeOK

(* The wallet is the sum of the transactions, of approved requests, none       *)
(* twice, where no two decisions overlapped (point-request.service.ts).        *)
WalletIsLedger == Points!WalletIsLedger

(* The last event about a post says what the rows say, a client that turns the *)
(* pages sees every post once, and a birthday has one post, on its day         *)
(* (feed.service.ts, feed.gateway.ts, birthdays.service.ts).                   *)
FeedIsTold == Feed!FeedIsTold /\ Birthdays!OnePostPerBirthday

(* A submission fits the form as it was when it was inserted, and that form    *)
(* was published (forms.service.ts).                                           *)
SubmissionsFit == Forms!SubmissionsFit

(* On each date the overtime of a person keeps to the limit and does not       *)
(* overlap, and N8N is told of nothing that is not approved                    *)
(* (overtime.service.ts).                                                      *)
DayHolds == Overtime!DayHolds

(* The sheets of the payroll workbook, the periods and the pages of the list   *)
(* add up to the requests there are (nomina.service.ts, nomina-                *)
(* export.service.ts).                                                         *)
ReportsAddUp == Payroll!ReportsAddUp

(* The numbers of the requests for severance pay have no gap or repetition,    *)
(* and the history and the e-mails follow the state machine                    *)
(* (cesantias.service.ts).                                                     *)
TramiteHolds == Cesantias!TramiteHolds

(* The alerts about a thread go up one level at a time and are sent again only *)
(* after a failure; the sheet is told of a thread once, of its last events     *)
(* (gmail.service.ts, pago-hotel.processor.ts, pago-total.service.ts).         *)
ThreadsAreAttended == HotelAlerts!AlertsInOrder /\ PagoTotal!ThreadToldOnce
=============================================================================

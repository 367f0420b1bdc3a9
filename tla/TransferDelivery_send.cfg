SPECIFICATION FairSpec
CONSTANTS
    Channels = {"EMAIL"}
    Senders = {s1, s2}
    Editors = {}
    Emails = {m1, m2}
    Contacts = {k1}
    Payloads = {p1}
    OpenStatus = {"IN_PROGRESS", "CONFIRMED"}
    Instance = instance
    NoConnection = no_connection
    NoProvider = no_provider
    Unset = unset
    MaxVersion = 1
    MaxAttempt = 2
    MaxFaults = 1
INVARIANTS
    TypeOK
    NoResendInDoubt
    HistoryTellsFate
PROPERTIES
    SenderIsApproved
    ImplementsSendOnce
    SendsSettle

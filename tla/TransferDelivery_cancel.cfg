SPECIFICATION Spec
CONSTANTS
    Channels = {"EMAIL"}
    Senders = {}
    Editors = {e1, e2}
    Emails = {m1}
    Contacts = {k1}
    Payloads = {p1}
    OpenStatus = {"IN_PROGRESS", "CONFIRMED"}
    Instance = instance
    NoConnection = no_connection
    NoProvider = no_provider
    Unset = unset
    MaxVersion = 3
    MaxAttempt = 1
    MaxFaults = 0
PROPERTIES
    OnlyPendingCancelled

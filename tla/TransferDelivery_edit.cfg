SPECIFICATION Spec
CONSTANTS
    Channels = {"WHATSAPP"}
    Senders = {s1}
    Editors = {e1, e2}
    Emails = {}
    Contacts = {k1}
    Payloads = {p1, p2}
    OpenStatus = {}
    Instance = instance
    NoConnection = no_connection
    NoProvider = no_provider
    Unset = unset
    MaxVersion = 3
    MaxAttempt = 1
    MaxFaults = 0
SYMMETRY EditSymmetry
PROPERTIES
    EditsStand

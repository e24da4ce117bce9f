CONSTANTS
    a = a
    b = b
    NoContact = NoContact
    Contacts = {a, b}
    t1 = t1
    t2 = t2
    direct = direct
    publish = publish
    NoWorker = NoWorker
    Workers = {t1, t2, direct, publish}
    Temps = {t1, t2}
    Receivers = {direct}
    Publishers = {publish}
    PeerGens = {1, 2}
    PageSize = 1
    BusCapacity = 1
    MaxOps = 5
SPECIFICATION Spec
SYMMETRY Symmetric
INVARIANTS NoForeignRows LastChoiceWins BubblesAreAnswered ExportWhole 
PROPERTIES NewIsUnread
CHECK_DEADLOCK FALSE

CONSTANTS
    Texts = {a, b}
    Cats = {c, d}
    Tags = {t}
    Requests = {r1, r2}
    MaxVersion = 2
    None = None
    Unread = Unread
SPECIFICATION Spec
INVARIANTS TypeOK DetailFresh SavedIsKept
PROPERTIES ImplementsRegister
SYMMETRY Renamings
CHECK_DEADLOCK TRUE

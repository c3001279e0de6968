SPECIFICATION Spec
CONSTANTS
    h1 = h1
    h2 = h2
    t1 = t1
    tx = tx
    Handlers = {h1, h2}
    Tabs = {t1}
    Sides = {tx}
    Tones <- MCTones
    Filters = {f0, f1}
    DefaultFilter = f0
    Groups = {"air"}
    Names <- MCNames
    ToneOf <- MCToneOf
    Files <- MCFiles
    Capacity = 1
    MaxRequests = 3
    MaxRestarts = 1
SYMMETRY Symmetry
INVARIANTS TypeOK PagesAreRight Coupled
PROPERTY IdsAreForever
CHECK_DEADLOCK FALSE

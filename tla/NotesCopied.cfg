CONSTANTS
    NoteIds = {n1, n2}
    Owners = {a, b}
    MaxOrders = 1
    MaxVisits = 3
SPECIFICATION StoreSpec
INVARIANT NotesStayWithTheirWallet
CHECK_DEADLOCK FALSE

SPECIFICATION Spec
CONSTANTS
    Tables = {"animals", "invoices", "invoiceItems"}
    MaxUnread = 1
    Starts <- MCStarts
    Filters = {"none", "duck"}
    NoFilter = "none"
    Texts = {0, 1}
    Pages = 2
INVARIANTS
    TypeOK
    ShownIsAsked
PROPERTY
    StatusCatchesUp

SPECIFICATION Spec
CONSTANTS
    Etfs = {e1, e2}
    MaxDate = 2
    short = short
    long = long
    Contents <- ShortAndLong
    RowCount <- Lengths
    Commands = {c1}
    MaxSnapshots = 2
INVARIANTS TypeOK ReadersSeeTheLastUpdate
PROPERTY StoreIsKept
SYMMETRY Symmetry

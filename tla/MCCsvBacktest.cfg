SPECIFICATION CsvSpec
CONSTANTS
    Symbols = {s1, s2}
    Prices <- NoneLowHigh
    Quantities <- Some
    Configs <- SomeConfigs
    MaxSignals = 3
SYMMETRY Symmetry
INVARIANTS
    CsvTypeOK
    BooksBalance
    DrawdownIsWorst
CHECK_DEADLOCK FALSE

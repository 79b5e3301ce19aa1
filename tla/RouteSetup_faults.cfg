SPECIFICATION Spec
CONSTANTS
    Editions = {1, 2}
    RouteCounts <- MCRouteCounts
    Entries <- MCEntries
    Stations <- MCStations
    DatFiles <- MCDatFiles
    MaxStations = 3
    MaxFiles = 2
    Inputs <- MCFewInputs
    Faults = TRUE
INVARIANTS
    TypeOK
    OneEdition

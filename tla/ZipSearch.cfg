SPECIFICATION Spec
CONSTANTS
    Names <- MCNames
    MaxFiles = 4
    Window = 8
    MaxSize = 24
    Comment = 10
    Word = 1024
INVARIANTS LocateFinds ScanFindsFar
CHECK_DEADLOCK FALSE

\* Two pages and more of rows that come and go.
SPECIFICATION Spec
CONSTANTS
    Keys <- MCKeys
    PageSize = 2
\* The last page was read.
CHECK_DEADLOCK FALSE
INVARIANTS
    TypeOK
    MissedRowWasMoved
    RepeatedRowWasPushed

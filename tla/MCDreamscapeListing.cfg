CONSTANTS
    Jobs = 4
    PageSize = 2

SPECIFICATION ListingSpec

INVARIANTS
    NothingIsSkipped
    CardsInOrder

\* Everything listed and removed: the page rests.
CHECK_DEADLOCK FALSE

\* Up to six rows, pages of one, two, by default (three) or minus two, a walk from a page
\* before, at or after the first.
CONSTANTS
    NoPage = NoPage
    MaxRows = 6
    FirstPages <- SomePages
    PerPages <- SomeSizes
SPECIFICATION FairSpec
INVARIANTS
    WalkSeesOlderRows
PROPERTIES
    WalkEnds
\* A walk ends.
CHECK_DEADLOCK FALSE

\* One query at a time against a dataset with three matching flows; usize
\* is four bits wide, so DEFAULT_PER_PAGE (15) is its largest value and a
\* page number of 2 already overflows page * per_page for per_page >= 8.
CONSTANTS
    NONE = NONE
    UsizeBits = 4
    NumFlows = 3
    Accounts = {"alice", "bob"}
    KnownAccounts = {"alice"}

SPECIFICATION Spec
INVARIANT PageMatchesRequest
\* a query returns once served
CHECK_DEADLOCK FALSE

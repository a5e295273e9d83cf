\* The gate off, and on with fewer slots than requests and with as many; callers that may and
\* may not wait; no budget, one that two handlers overspend, one they spend together.  Decodes
\* may never end.
SPECIFICATION Spec
CONSTANTS
    Requests = {r1, r2}
    SlotFlags = {0, 1, 2}
    WaitFlags = {TRUE, FALSE}
    BudgetFlags <- BudgetArguments
INVARIANT TypeOK
INVARIANT GateAccounted
INVARIANT QueueAccounted
INVARIANT ChargesMatchAnswers
INVARIANT LastPermitsAnnounced
PROPERTY QueueMoves
PROPERTY BudgetRetires
CHECK_DEADLOCK FALSE

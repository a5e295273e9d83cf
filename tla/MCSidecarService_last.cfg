\* No gate, one request, a budget of one: the process exits before the answer.
SPECIFICATION Spec
CONSTANTS
    Requests = {r1}
    SlotFlags = {0}
    WaitFlags = {FALSE}
    BudgetFlags = {1}
INVARIANT LastAnswerSent
CHECK_DEADLOCK FALSE

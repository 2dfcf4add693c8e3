\* Four calls, each of any kind; a finish completes with a handoff or fails without; one death.
SPECIFICATION PromptSpec
CONSTANTS
    c1 = c1
    c2 = c2
    c3 = c3
    c4 = c4
    a1 = a1
    a2 = a2
    n1 = n1
    None = None
    Call = {c1, c2, c3, c4}
    Agent = {a1, a2}
    AgentOf <- Owners
    Note = {n1}
    Request <- Requests
    MaxDeaths = 1
SYMMETRY SameAgent
CHECK_DEADLOCK FALSE
INVARIANTS AnswersAreTrue HandedOffOnce
PROPERTY JournalsOnlyGrow

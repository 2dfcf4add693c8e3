\* Three committers, two of them of one command; a process may die anywhere.
SPECIFICATION Spec
CONSTANTS
    c1 = c1
    c2 = c2
    c3 = c3
    c4 = c4
    r1 = r1
    k1 = k1
    k2 = k2
    v0 = v0
    v1 = v1
    None = None
    Committer = {c1, c2, c3}
    Repairer = {}
    Checked = {c2, c3}
    Command = {k1, k2}
    Version = {v0, v1}
    CommandOf <- Commands
    AfterOf <- Versions
    Start = v0
    DeathPoints <- Anywhere
    TornAppends = TRUE
CHECK_DEADLOCK FALSE
INVARIANTS AuditIsOneHistory OneEntryPerCommand PassportAgrees AnswersAreTrue RepairsNeverConflict
PROPERTY ImplementsLedger

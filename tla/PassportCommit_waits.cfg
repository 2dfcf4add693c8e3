\* Patient calls; a process may die while its lock names it.
SPECIFICATION PatientSpec
CONSTANTS
    c1 = c1
    c2 = c2
    c3 = c3
    c4 = c4
    r1 = r1
    k1 = k1
    k2 = k2
    v0 = v0
    v1 = v1
    None = None
    Committer = {c1, c3}
    Repairer = {r1}
    Checked = {c1}
    Command = {k1, k2}
    Version = {v0, v1}
    CommandOf <- Commands
    AfterOf <- Versions
    Start = v0
    DeathPoints <- UnderTheLock
    TornAppends = FALSE
CHECK_DEADLOCK FALSE
PROPERTY WaitersGoOn

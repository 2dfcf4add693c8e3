\* One daemon, two posters, dispatches of any length.
SPECIFICATION Spec
CONSTANTS
    h1 = h1
    h2 = h2
    h3 = h3
    h4 = h4
    p1 = p1
    p2 = p2
    c1 = c1
    c2 = c2
    None = None
    Poster = {h1, h2}
    Repairer = {}
    Process = {p1}
    Command = {c1, c2}
    CommandOf <- Commands
    MaxAttempts = 3
    TornWrites = FALSE
PROPERTY CompletedStays

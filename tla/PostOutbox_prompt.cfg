\* Two posters that ask again and again and a repairer, two daemons, dispatches that end within their leases.
SPECIFICATION FairSpec
CONSTANTS
    h1 = h1
    h2 = h2
    h3 = h3
    h4 = h4
    p1 = p1
    p2 = p2
    c1 = c1
    c2 = c2
    None = None
    Poster = {h1, h2, h4}
    Repairer = {h3}
    Process = {p1, p2}
    Command = {c1, c2}
    CommandOf <- Commands
    MaxAttempts = 3
    TornWrites = TRUE
INVARIANTS OneCopy DeliveredMeansCompleted
PROPERTY SettlesWhenRetried

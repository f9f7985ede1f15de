\* Two workers, native works that fail
\* or outlive their consumer, shutdown and removal at any moment.
SPECIFICATION FairSpec
CONSTANTS
    k1 = k1  o1 = o1
    p1 = p1  p2 = p2  c1 = c1  c2 = c2
    w1 = w1  w2 = w2  w3 = w3
    Keys = {k1}
    Orgs = {o1}
    SlugOf <- OneSlug
    Producers = {}
    Consumers = {c1, c2}
    Works = {w1, w2, w3}
INVARIANTS ThreadsHaveOpenOrg CleanDrainIsQuiet
PROPERTIES NoLaunchAfterStop ItemsAreServed DrainEnds
CHECK_DEADLOCK FALSE

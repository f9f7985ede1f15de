\* Two bounded producers race on one key, against ordinary enqueues, late
\* loop callbacks, one worker, shutdown and removal of the organisation.
SPECIFICATION Spec
CONSTANTS
    k1 = k1  o1 = o1
    p1 = p1  p2 = p2  c1 = c1  c2 = c2
    w1 = w1  w2 = w2  w3 = w3
    Keys = {k1}
    Orgs = {o1}
    SlugOf <- OneSlug
    Producers = {p1, p2}
    Consumers = {c1}
    Works = {w1, w2, w3}
SYMMETRY Interchangeable
INVARIANTS TypeOK CountsExact BoundedWake OneHolder
CHECK_DEADLOCK FALSE

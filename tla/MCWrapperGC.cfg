\* Two Python objects, which with the sentinel make a ring of three, and two addresses.
CONSTANTS
    Wrappers = {v, w}
    Addrs = {a, b}
    MaxRefs = 2
    AllowReinit = FALSE
    sentinel = sentinel
    NULL = NULL
SPECIFICATION Spec
INVARIANTS TypeOK ListIsLive WrappedSurvive CacheIsCurrent
PROPERTIES Pins CollectionEnds

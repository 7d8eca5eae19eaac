\* Every connection to nine ports, and every native intent with up to three
\* dangerous patterns.
SPECIFICATION LayersSpec
CONSTANTS
    Ports <- SomePorts
    FirstBytes <- SomeBytes
    MaxPatterns = 3
INVARIANTS
    DryRunReference
    DryRunIsStricter
    MarkedIsRouted
    FilterRunsAsListed
    FilterServesPassed
CHECK_DEADLOCK FALSE

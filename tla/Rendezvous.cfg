\* Three processes: a master, a late slave, and whoever comes next.
SPECIFICATION RendezvousSpec
CONSTANTS
    Instances = {p1, p2, p3}
    Regimes <- AllRegimes
INVARIANTS
    OneCollector
    AtMostOnce
    SleeperKeepsFile
PROPERTIES
    CompressionServed

\* Decompression with everything granted: one master at work, the next one asleep.
SPECIFICATION RendezvousSpec
CONSTANTS
    Instances = {p1, p2}
    Regimes <- CalmDecompression
PROPERTIES
    DecompressionServed

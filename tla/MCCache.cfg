SPECIFICATION Spec
CONSTANTS
    d1 = d1
    d2 = d2
    d3 = d3
    Dirs = {d1, d2, d3}
    Buckets = {0}
    hash <- OneBucket
    MaxEntries = 2
    Ttl = 1
    Listings <- AllListings
    Channels = {c1, c2}
    Names = {n}
    DirAt <- D2InD1
    Versions = 1
SYMMETRY Alike
INVARIANTS CacheWellFormed NamesCurrent
PROPERTIES ListingsCurrent

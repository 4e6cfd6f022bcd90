\* Two overlapping loops, two rows, two instants, one reader.
CONSTANTS
    Loops = {L1, L2}
    Readers = {R1}
    Free = Free
    Outcomes <- SomeOutcomes
    MaxRows = 2
    MaxTime = 1
    MaxReads = 1
    Quantiles <- OneQuantile
    ListLimit = 3
SPECIFICATION FairReadsSpec
INVARIANTS
    RepliesHoldTogether
PROPERTIES
    ImplementsSiteStore
    NobodyWaitsForEver

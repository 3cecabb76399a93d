SPECIFICATION FairSpec
CONSTANTS
    Entry = {e1, e2, e3, e4}
    None = None
    Delays <- TwoDelays
    Reentrant = TRUE
INVARIANTS ExactlyOnce FiresOnTime NothingExpiredOvernight
PROPERTIES EventuallyFires

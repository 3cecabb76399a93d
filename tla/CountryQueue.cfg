SPECIFICATION FairSpec
CONSTANTS
    N = 2
    Entry = {e1, e2, e3}
    None = None
    Delays <- ShortDelays
    Reentrant = TRUE
INVARIANTS ExactlyOnce FiresOnTime ScanBoundedByCapacity
PROPERTIES EventuallySettled

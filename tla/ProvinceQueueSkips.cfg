SPECIFICATION Spec
CONSTANTS
    Entry = {e1, e2, e3}
    None = None
    Delays <- SmallDelays
    Reentrant = FALSE
INVARIANTS SkippedIsEvaluatedNextDay

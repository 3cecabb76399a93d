SPECIFICATION Spec
CONSTANTS
    N = 1
    Entry = {e1, e2, e3}
    None = None
    Delays <- BatteryDelays
    Reentrant = FALSE
PROPERTIES ImplementsTickModel

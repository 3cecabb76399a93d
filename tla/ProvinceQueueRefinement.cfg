SPECIFICATION Spec
CONSTANTS
    Entry = {e1, e2, e3, e4}
    None = None
    Delays <- BatteryDelays
    Reentrant = FALSE
PROPERTIES ImplementsTickModel

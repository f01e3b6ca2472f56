SPECIFICATION Spec
CONSTANTS
    Mandant = {"c1"}
    Voll = {"c1"}
    Deckel = 1
    Menge <- EinStueck
    MaxMenge = 1
    Fristen = 1
    Einstellung <- Vorgabe
    MaxSignal = 1
    MaxStoerung = 0
INVARIANT TauschOderNichts
CHECK_DEADLOCK FALSE

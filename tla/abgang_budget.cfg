SPECIFICATION Spec
CONSTANTS
    Mandant = {"c1", "c2"}
    Voll = {}
    Deckel = 1
    Menge <- EinStueck
    MaxMenge = 1
    Fristen = 1
    Einstellung <- Vorgabe
    MaxSignal = 3
    MaxStoerung = 2
INVARIANTS TypeOK TagesDeckel PlatzKommtZurueck
CHECK_DEADLOCK FALSE

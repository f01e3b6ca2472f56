SPECIFICATION Spec
CONSTANTS
    Mandant = {"c1"}
    Voll = {"c1"}
    Deckel = 1
    Menge <- ZweiStueck
    MaxMenge = 2
    Fristen = 2
    Einstellung <- AlleEinstellungen
    MaxSignal = 1
    MaxStoerung = 3
INVARIANTS KeinUeberverkauf AusstiegGedeckt TauschRueckgaengig
PROPERTY AbsendungEndet
CHECK_DEADLOCK FALSE

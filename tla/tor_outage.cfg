SPECIFICATION Spec
CONSTANTS
    Auftrag = {"stop"}
    Art <- MCArt
    Konto <- MCKonto
    LimitExit <- MCLimitExit
    Inst = {i1}
    AblageFehler = TRUE
    Mehrdeutig = TRUE
    SpaeteAnkunft = FALSE
PROPERTY SchutzExitGehtHinaus
INVARIANT AbschlussStimmt

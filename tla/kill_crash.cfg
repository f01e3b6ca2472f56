SPECIFICATION Spec
CONSTANTS
    Prozess = {"p1"}
    Faden = {"t1"}
    ProzessVon <- MCProzessVon
    Schleife = {}
    Nutzer = {"u1", "u2"}
    Global = "global"
    LiveKonto = TRUE
    AblageFehler = FALSE
INVARIANTS TripIstDauerhaft HaltNenntGrund

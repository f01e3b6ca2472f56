SPECIFICATION Spec
CONSTANTS
    Prozess = {"p1", "p2"}
    Faden = {"t1", "t3", "s1"}
    ProzessVon <- MCProzessVon
    Schleife = {"s1"}
    Nutzer = {}
    Global = "global"
    LiveKonto = FALSE
    AblageFehler = TRUE
PROPERTY HaltStopptSchleife
INVARIANTS TypeOK HaltGilt

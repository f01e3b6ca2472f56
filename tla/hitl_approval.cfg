SPECIFICATION Spec
CONSTANTS
    Nutzer = {"global"}
    Symbol = {"a"}
    Bediener = {"m1", "m2"}
    Drain = "drain"
    Speicher = {"redis", "lokal", "keiner"}
    Desktop = TRUE
    Wert = {0, 1, 2}
    ProTrade = 1
    ProTag = 1
    MaxId = 3
    MaxTag = 2
    MaxEreignis = 4
INVARIANTS TypeOK EineFreigabeEineOrder KeineFreigabeVerloren MenschEntscheidet TagesBudget
PROPERTY FreigabeWirdGeholt

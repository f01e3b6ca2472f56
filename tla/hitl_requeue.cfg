SPECIFICATION Spec
CONSTANTS
    Nutzer = {"global"}
    Symbol = {"a"}
    Bediener = {"m1", "m2"}
    Drain = "drain"
    Speicher = {"redis", "lokal", "keiner"}
    Desktop = TRUE
    Wert = {0, 1, 2}
    ProTrade = 1
    ProTag = 1
    MaxId = 3
    MaxTag = 2
    MaxEreignis = 2
INVARIANT FreigabeUmgehtTor

SPECIFICATION Spec
CONSTANTS
    Coid = {c1, c2}
    Akteur = {a1, a2, a3}
    MitAusfall = TRUE
    FristLaeuft = FALSE
INVARIANTS TypeOK VerzeichnisTreu
PROPERTIES NurVorwaerts HaeltIdeal
SYMMETRY Symmetrie

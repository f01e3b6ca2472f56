SPECIFICATION Spec
CONSTANTS
    Auftrag = {"kauf", "trim"}
    Art <- MCArt
    Konto <- MCKonto
    LimitExit <- MCLimitExit
    Inst = {i1}
    AblageFehler = FALSE
    Mehrdeutig = FALSE
    SpaeteAnkunft = FALSE
INVARIANTS TypeOK SichtbarVorDemBroker AbgleichVollstaendig ZurueckgehaltenSpurlos EineOrderJeBein

SPECIFICATION Spec
CONSTANTS
  MaxOrder = 2
  Verkauf = {2}
  Menge <- EinsUndZwei
  Grenze = 2
  Scharf = TRUE
  Strom = TRUE
  Ablage = {TRUE, FALSE}
  Bediener = {"m1"}
  MaxStoerung = 1
INVARIANTS TypeOK GrundAbgelegt
PROPERTIES AufhebungGesehen VollerFillErfasst AbweichungSperrt

SPECIFICATION Spec
CONSTANTS
  i1 = i1  i2 = i2  h1 = h1  a1 = a1
  Inst = {i1, i2}
  Host = {h1}
  HostOf <- EinRechner
  Pid = {1, 2}
  Aufgabe = {a1}
  AufEngineRing <- NurErsteInstanz
  KannHaengen = {i1}
  MaxToken = 3
  Frist = 2
  MitFehlern = TRUE
INVARIANTS TypeOK BruchTrifftNurTote VermerkNenntDenHalter
PROPERTIES LebenderHalterBleibt FestgefahreneEngineGibtAb VerwaisteSperreLaeuftAb
CHECK_DEADLOCK FALSE

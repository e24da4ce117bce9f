CONSTANTS
  r1 = r1
  r2 = r2
  t1 = t1
  t2 = t2
  p1 = p1
  p2 = p2
  e1 = e1
  Runs = {r1, r2}
  NoRun = NoRun
  Txns = {t1, t2}
  Passes = {p1, p2}
  NoPass = NoPass
  Exports = {e1}
  Faults = {}
  MaxCrashes = 2
  MaxWipes = 1
SPECIFICATION Spec
SYMMETRY Symmetric
INVARIANTS KeepsCommitted   VaultOpens

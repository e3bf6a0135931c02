SPECIFICATION YearSpec
CONSTANTS
  d1 = d1
  d2 = d2
  Callers = {c1, c2}
  Keys = {k1, k2}
  Documents = {d1, d2}
  Sources <- FourSources
  MaxCommands = 4
  NoCall = NoCall
SYMMETRY Owners
PROPERTIES
  ChangedByCorrection
CHECK_DEADLOCK FALSE

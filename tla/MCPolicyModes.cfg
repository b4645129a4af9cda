CONSTANTS
  Parts = {p1, p2}
  Maps = {deflt, m55, m88}
  Banks = {b0}
  Programs = {pc0, pc1}
  Default = deflt
  FirstBank = b0
  FirstProgram = pc0
SPECIFICATION ModesSpec
INVARIANTS Transparent ChosenMapHolds ProgramRemembered
PROPERTY SetIsHeard

CONSTANTS
  Parts = {p1, p2}
  Maps = {deflt, m55, m88}
  Banks = {b0, b1}
  Programs = {pc0, pc1}
  Default = deflt
  FirstBank = b0
  FirstProgram = pc0
  FirstPart = p1
  m55 = m55
  m88 = m88
  deflt = deflt
  s55 = s55
  s88 = s88
  s88pro = s88pro
  Sets = {s55, s88, s88pro}
  SetOf <- VscSetOf
SPECIFICATION Spec
CHECK_DEADLOCK FALSE
INVARIANTS ShownSetPlays OptionIsOpenSet
PROPERTY ImplementsPartMaps

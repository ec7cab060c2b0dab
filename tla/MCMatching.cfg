SPECIFICATION Spec
CONSTANTS
  n1 = n1
  n2 = n2
  p1 = p1
  p2 = p2
  a1 = a1
  a2 = a2
  None = None
  NoList = NoList
  Names <- MCNames
  Notes <- MCNotes
  Authors <- MCAuthors
  Ladder <- MCLadder
  Inputs <- MCInputs
SYMMETRY Symmetry
INVARIANTS
  VerdictsAreSound
  AbsenceIsEarned
  NamesNeverDecide
  ExtrasAreUntracked
CHECK_DEADLOCK FALSE

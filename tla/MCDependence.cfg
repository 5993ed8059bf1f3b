CONSTANTS
  R = R
  A = A
  B = B
  P = P
  K = K
  Fld = Fld
  Glob = Glob
  None = None
  Func = {R, A, B}
  Atom = {P, K, Fld, Glob}
  Global = {Glob}
  Junk <- MCJunk
  Programs <- MCPrograms
SPECIFICATION Spec
INVARIANTS
  TypeOK
  IntraComplete
  IntraSound
  StoresReachRoot
  ActualsReachFormals
PROPERTIES
  BuildEnds

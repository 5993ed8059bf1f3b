SPECIFICATION Spec
CONSTANTS
  NodeNum = 36
  Sources <- MCSources
INVARIANTS Covers Justified CollectsAll

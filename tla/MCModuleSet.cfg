CONSTANTS
  modA = modA
  modB = modB
  modC = modC
  modB2 = modB2
  funF = funF
  funG = funG
  funMain = funMain
  Path = {modA, modB, modC, modB2}
  Cut = Cut
  NameSeq <- MCNameSeq
  Main = funMain
  NoFunc = NoFunc
  Contents <- MCContents
  PreRuns <- MCPreRuns
  Args <- MCArgs
  MaxModuleNum = 1
SPECIFICATION Spec
INVARIANTS
  DemandsMet
  DeclarationsResolved
  MapsAgree
  WithinCapacity

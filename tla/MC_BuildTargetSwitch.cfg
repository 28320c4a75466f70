SPECIFICATION Spec
CONSTANTS
  compileA = compileA
  compileB = compileB
  compileBridge = compileBridge
  archive = archive
  archiveA = archiveA
  append = append
  link = link
  srcA = srcA
  srcB = srcB
  header = header
  objA = objA
  objB = objB
  objBridge = objBridge
  lib = lib
  libA = libA
  libOther = libOther
  prog = prog
  extLib = extLib
  Absent = Absent
  Corrupt = Corrupt
  Artifact = Artifact
  Step = {compileA, compileB, compileBridge, archive, archiveA, link}
  Captured <- MCCaptured
  Kind <- MCKind
  Out <- MCOut
  Operands <- MCOperands
  Headers <- MCNoHeaders
  Unresolved <- MCNone
  Source = {srcA, srcB}
  Version = {v1, v2}
  External = {extLib}
  Flags = {f1}
  Target = {t1, t2}
  Project <- MCProgram
INVARIANTS FreshArtifacts

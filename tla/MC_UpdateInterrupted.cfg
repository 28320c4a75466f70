\* Nothing but updates, one of which is interrupted.
SPECIFICATION Spec
SYMMETRY VersionSymmetry
CONSTANTS
  None = None
  FileKind = {"header", "source", "bazel"}
  v1 = v1
  v2 = v2
  Version <- Two
  Manual = {}
  EditableAt = {}
  MayFail = TRUE
  MaxDisturbed = 2
  Built = TRUE
INVARIANTS UpdatedIsFresh

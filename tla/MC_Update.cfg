\* A built project; at most two things besides updates that run to their end.
\* Changes of sources call for wasm-build, as those of "config" do among others;
\* they are in MC_UpdateInterrupted.
SPECIFICATION Spec
SYMMETRY VersionSymmetry
CONSTANTS
  None = None
  FileKind = {"header", "bazel", "config", "other"}
  v1 = v1
  v2 = v2
  Version <- Two
  Manual = {"build", "parse-headers"}
  EditableAt = {"idle"}
  MayFail = TRUE
  MaxDisturbed = 2
  Built = TRUE
INVARIANTS UndisturbedIsFresh SpecMatchesRecord
PROPERTIES UserEditsKept

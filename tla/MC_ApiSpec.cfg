CONSTANTS
  Projects <- MCProjects
  Absent = Absent
  Lenient = {}
SPECIFICATION SpecApiSpec
INVARIANTS ClassesCommitted MembersKept ReferencesResolve ValuesAreComplete PassesIdempotent
CHECK_DEADLOCK FALSE

\* Two headers, the first including the second; one text does not compile,
\* and two headers with another clash in an umbrella.
SPECIFICATION FairSpec
CONSTANTS
  h1 = h1
  h2 = h2
  h3 = h3
  None = None
  Corrupt = Corrupt
  Header = {h1, h2}
  Lists <- OneOrTwo
  Includes <- Chain
  Text = {a, b, c}
  Broken = {b}
  Clashing = {c}
  Flags = {f1, f2}
  Extra = {x1, x2}
  EditsDuring = TRUE
  MayCrash = TRUE
  SaveFails = TRUE
  MaxUnkeyed = 1
  MaxFiles = 2
INVARIANTS KeyedSpecIsFresh BatchesDescribeTexts WarmAfterSuccess
PROPERTIES CommandEnds

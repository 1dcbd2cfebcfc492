SPECIFICATION Spec
CONSTANTS
  Atoms = {"1", "2", "7", "true", "-32601"}
  Strings <- TextStrings
  Methods = {"id"}
  Ids = {"1"}
  Params <- TrickyParams
  Results <- HandlerResults
  Names = {alpha, beta}
  Revisions = {old, new}
  MaxEntries = 3
INVARIANTS
  TypeOK
  RequestsAnswered
  HandlersSeeTheMessage
  ListsTheRegistered
SYMMETRY Symmetry

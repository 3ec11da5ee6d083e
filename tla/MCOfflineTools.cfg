CONSTANTS
  lowpc = 0
  highpc = 10
  null = null
  FunctionNames = {"main", "f", "alias", "long", "empty", "loop", "asm", "g", "end", "data", "handler"}
  Outside = {20}
  Handler = 6
  MaxDepth = 4
  MaxStray = 2
  Names = {"f", "g"}
  Nowhere = Nowhere
  MaxLines = 6
  WORD = 16
  PGSIZE = 2
  max_allowed_pa = 11
  Bases = {0, 1, 3, 4, 6, 10}
  Sizes = {0, 1, 2, 3, 5, 15}
  MaxTuples = 3
SPECIFICATION MCSpec
CHECK_DEADLOCK FALSE
INVARIANTS
  TextIsTable
  LabelsAreStack
  FunctionsFound
  LayoutIsAsked

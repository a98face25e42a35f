SPECIFICATION Spec
CONSTANTS
  Words <- MCWords
  ValueOf <- MCValueOf
  MaxArgs = 1
INVARIANTS
  HelpIsHelp

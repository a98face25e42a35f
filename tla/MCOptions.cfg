SPECIFICATION Spec
CONSTANTS
  Words <- MCWords
  ValueOf <- MCValueOf
  MaxArgs = 6
INVARIANTS
  ValuesAreTheirs
  AcceptsExactly

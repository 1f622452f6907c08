\* A record found in storage whose Value length prefix is close to 2^63.
CONSTANTS
  NoTree = NoTree
  Trees = {}
  Inputs <- MCLengthOverflowInputs
  Pairs = {}
SPECIFICATION Spec
CHECK_DEADLOCK FALSE
INVARIANT UnmarshalNeverPanics

\* Two options and one other name; strings of up to two items.
CONSTANTS
  Options = {a, b}
  Other = Other
  MaxTokens = 2
  None = None
SPECIFICATION Spec
INVARIANT IncludedNeverExcluded

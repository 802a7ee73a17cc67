\* The string test against the segment contract, over well-formed names.
CONSTANTS
    Names <- MCWellFormedNames
    MaxNames = 3
SPECIFICATION Spec
INVARIANT StartFromMatchesSpec

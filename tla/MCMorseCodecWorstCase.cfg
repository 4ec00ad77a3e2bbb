CONSTANT Texts <- MCTexts
SPECIFICATION Spec
INVARIANT WorstCaseIsFive
CHECK_DEADLOCK FALSE

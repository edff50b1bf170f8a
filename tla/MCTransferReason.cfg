SPECIFICATION Spec
CONSTANT LEGS = 2
INVARIANT EndedAsTransferred
CHECK_DEADLOCK FALSE

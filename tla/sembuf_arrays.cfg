CONSTANT MaxVal = 3
SPECIFICATION Spec
INVARIANT SummariesAgree

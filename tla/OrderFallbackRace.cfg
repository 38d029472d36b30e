SPECIFICATION Spec
CONSTANT Target = 2
INVARIANTS ZeroFillProven
CHECK_DEADLOCK FALSE

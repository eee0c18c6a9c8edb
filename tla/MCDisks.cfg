SPECIFICATION Spec
INVARIANTS DisksTypeOK ServedInOrder NobodyForgotten WritesAreKept WhereThought NeverWrongData TracksReadable
CHECK_DEADLOCK FALSE

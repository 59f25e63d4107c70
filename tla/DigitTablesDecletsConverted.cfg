SPECIFICATION Spec
INVARIANT
  DecletsConverted
CHECK_DEADLOCK FALSE

SPECIFICATION Spec
CONSTANT
    Null = Null
INVARIANTS
    TypeOK
    SearchesAgree
    ClientAgrees
CHECK_DEADLOCK FALSE

SPECIFICATION Spec
CONSTANTS
    Request = {r1, r2}
    r1 = r1
    r2 = r2
CHECK_DEADLOCK FALSE
INVARIANT TransfersDrain

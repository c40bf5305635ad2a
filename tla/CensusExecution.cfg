SPECIFICATION Spec
INVARIANTS ReceiptsAgree
CHECK_DEADLOCK FALSE

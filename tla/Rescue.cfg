SPECIFICATION Spec
CONSTANT MaxFaults = 4
INVARIANTS SuccessIsWritten
PROPERTIES PayloadBeforeErase ImplementsContract
CHECK_DEADLOCK FALSE

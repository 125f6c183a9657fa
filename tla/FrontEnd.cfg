SPECIFICATION FairSpec
CONSTANTS
  Names = {"A", "B"}
  Users = {1, 2}
  Ids = {1, 2}
  MaxOpens = 2
  MaxCmds = 2
  MaxAsks = 1
INVARIANT LeaseIsOpenPort
PROPERTIES QuestionKept OperationEnds
CHECK_DEADLOCK FALSE

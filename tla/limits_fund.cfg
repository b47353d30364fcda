SPECIFICATION FairSpec
CONSTANTS
    q1 = q1  q2 = q2  r1 = r1  r2 = r2
    Requests = {q1, q2}
    Records = {r1, r2}
    Groups = {1, 2}
    NoGroup = NoGroup
    NoRecord = NoRecord
    Unwritten = Unwritten
    Nobody = Nobody
    Amounts <- FundAmounts
    AtLeast = 0
    AtMost = 2
    Operations <- AllOperations
  
PROPERTIES  EveryRequestEnds
CHECK_DEADLOCK FALSE

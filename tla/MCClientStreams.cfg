CONSTANTS
    n1 = n1
    n2 = n2
    p1 = p1
    p2 = p2
    Listeners = {f1}
    Other = other
    MaxRegistrations = 3
    MaxEvents = 2
    Callers = {a, b, c, d}
    MaxCalls = 5
    OrderedCallers = {a, b, c}
    NoResult = NoResult
    Queries = {q1}
    Nodes = {n1, n2}
    Stored <- MCStored
    Options <- MCOptions
    Answers <- MCAnswers
    Absent = Absent
    Null = Null
    MaxChanges = 1
    Transactions <- MCTransactions
    Undefined = 3
    PageSize = 2
    MaxLogs = 3
    MaxPages = 3
    Calls = {c1, c2}
    Loops = {l1, l2}
    MaxBlock = 2
    MaxFailures = 1
SPECIFICATION ClientSpec
INVARIANT AllStreamsReturned
CHECK_DEADLOCK FALSE

CONSTANTS
    n1 = n1
    n2 = n2
    n3 = n3
    r1 = r1
    billing = billing
    NoNode = NoNode
    EmptyId = EmptyId
    NoContent = NoContent
    Nodes <- MCNodes
    Ids <- MCIds
    Contents <- MCContents
    ProofLists <- MCProofs
    NodeViews <- MCViews
    Precision = 6
    Buffers = {0, 1}
    MaxBlockNumber = 3
SPECIFICATION ReportSpec
INVARIANT OneReporterAtATime
INVARIANT LastReportIsHighest
PROPERTY AcceptedByHalf
PROPERTY ProcessedIsFinal
PROPERTY ReputationEarned

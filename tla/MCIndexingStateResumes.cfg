CONSTANTS
    Calls = {c1, c2}
    Loops = {l1, l2}
    MaxBlock = 1
    MaxFailures = 1
SPECIFICATION TimedIndexingSpec
PROPERTY PollingResumes

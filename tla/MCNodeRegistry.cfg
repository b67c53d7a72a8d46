CONSTANTS
    a1 = a1
    a2 = a2
    a3 = a3
    NoAddress = NoAddress
    Addresses <- MCAddresses
    MaxBlock = 3
SPECIFICATION RegistrySpec
INVARIANT ListWellFormed
PROPERTY RefinesNodeList

SPECIFICATION FairSpec
CONSTANTS
    Browsers = {b1}
    Ann = Ann
    Cat = Cat
    c1 = c1
    c2 = c2
    NONE = NONE
    Accounts = {Ann, Cat}
    Users = {Ann}
    Clients = {c1}
    ClientsOf <- OneEach
    Mortal = {Ann, Cat}
    SecretKeys = 2
    MaxRestarts = 2
    MaxChunks = 1
    MaxDrives = 2
    MaxDeaths = 1
    MaxFaults = 1
INVARIANTS TypeOK
PROPERTIES IndexKept SignsInAgain
CHECK_DEADLOCK FALSE

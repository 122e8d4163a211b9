SPECIFICATION FairSpec
CONSTANTS
    Locals = {"v", "w"}
    Argument = "lane"
    Modulus = 4
    Fuel = 8
    Programs <- ReturnedLanes
    Arguments = {0, 1}
    Unwritten = {0, 1}
    MaxOutput = 8
INVARIANTS
    StoresAreMeant
CHECK_DEADLOCK FALSE

SPECIFICATION FairSpec
CONSTANTS
    Server = "server"
    Scripts = {"script 1", "script 2"}
    MaxCrashes = 2
INVARIANT VersionIsBacked
PROPERTY Upgrades
CHECK_DEADLOCK FALSE

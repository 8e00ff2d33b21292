\* A Freeze on its way to the worker when the contract changes.
SPECIFICATION FairSpec
CONSTANTS
    MaxHead = 0
    MaxCalls = 1
    MaxFaults = 0
    Faults = {}
    Opened = {"changed"}
    MaxIds = 2
    Slots = 3
    MaxMail = 2
PROPERTIES
    WorkDrains

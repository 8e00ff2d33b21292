\* A Batch sent before the file was opened and one more; or a changed read contract;
\* with one fault: a lost answer, refused credentials, a host event, a restart, a reset.
SPECIFICATION FairSpec
CONSTANTS
    MaxHead = 1
    MaxCalls = 2
    MaxFaults = 1
    Faults = {"error", "unauthorized", "lifecycle", "restart", "reset"}
    Opened = {"sent", "settled"}
    MaxIds = 2
    Slots = 3
    MaxMail = 2
PROPERTIES
    WorkDrains TransferEnds

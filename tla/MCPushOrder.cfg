\* Two refused credentials and a wake() of the host, met by a Batch whose owner is
\* still asked for.
SPECIFICATION Spec
CONSTANTS
    MaxHead = 1
    MaxCalls = 2
    MaxFaults = 3
    Faults = {"unauthorized", "lifecycle"}
    Opened = {"sent"}
    MaxIds = 2
    Slots = 3
    MaxMail = 2
INVARIANTS
    PushBehindOwners

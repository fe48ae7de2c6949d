\* Two clients and five operations, one client adding, one removing labels, a
\* failed request; a watch of four events, any of them untranslatable.
CONSTANTS
    Clients = {"c1", "c2"}
    Removers = {"c2"}
    MaxRetries = 2
    MaxOps = 5
    MaxFaults = 1
    Buffer = 1
    MaxEvents = 4
SPECIFICATION Spec
INVARIANTS LosesOnlyRaces EveryEventOnce
PROPERTIES NoLostUpdate StopEnds
CHECK_DEADLOCK FALSE

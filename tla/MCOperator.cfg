\* Three calls of Run, two of them with metrics collectors; two users writing
\* an object twice, under every set-up of admission.
CONSTANTS
    Runs = {"r1", "r2", "r3"}
    Collecting = {"r1", "r2"}
    Hooked = {"r2", "r3"}
    Kinds = {"k1"}
    Users = {"a", "b"}
    MaxWrites = 2
    MaxTime = 1
SPECIFICATION Spec
INVARIANTS PanicsOnlyOnReuse Attributed HonestAdmitted
PROPERTIES FlagReset
CHECK_DEADLOCK FALSE

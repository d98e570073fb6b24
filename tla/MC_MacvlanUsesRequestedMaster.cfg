CONSTANTS
    Absent = Absent
    NoRdma = NoRdma
    Invalid = Invalid
    NoCondition = NoCondition
    RdmaConfigs <- MCRdmaConfigs1
    Creds = {c1}
    Order <- MCOrder
    MaxFaults = 0
    MaxEnvChanges = 0

SPECIFICATION Spec

INVARIANT MacvlanUsesRequestedMaster

\* Once the GPUAddon is gone and the garbage collector is done, the
\* controller has nothing left to do.
CHECK_DEADLOCK FALSE

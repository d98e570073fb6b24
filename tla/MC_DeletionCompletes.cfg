CONSTANTS
    Absent = Absent
    NoRdma = NoRdma
    Invalid = Invalid
    NoCondition = NoCondition
    RdmaConfigs <- MCRdmaConfigs1
    Creds = {c1}
    Order <- MCOrder
    MaxFaults = 1
    MaxEnvChanges = 1

SPECIFICATION Spec

PROPERTY DeletionCompletes

\* Once the GPUAddon is gone and the garbage collector is done, the
\* controller has nothing left to do.
CHECK_DEADLOCK FALSE

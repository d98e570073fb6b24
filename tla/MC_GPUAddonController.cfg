CONSTANTS
    Absent = Absent
    NoRdma = NoRdma
    Invalid = Invalid
    NoCondition = NoCondition
    RdmaConfigs <- MCRdmaConfigs
    Creds = {c1, c2}
    Order <- MCOrder
    MaxFaults = 2
    MaxEnvChanges = 2

SPECIFICATION Spec

INVARIANT TypeOK
INVARIANT ConvergedMeansDeployed
INVARIANT NoOrphanAfterTeardown
INVARIANT OneConditionPerType
PROPERTY ConvergesWhenQuiet
PROPERTY ImplementsLifecycle
PROPERTY PassStopsAtFirstError

\* Once the GPUAddon is gone and the garbage collector is done, the
\* controller has nothing left to do.
CHECK_DEADLOCK FALSE

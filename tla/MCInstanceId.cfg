CONSTANTS
    Chars = {"a", "#"}
    NameClass = {"a"}
    MaxFieldLen = 3
    Ports = {0, 12}
    Vpcs <- MCVpcs
    MaxInstances = 2
    Nil = Nil

SPECIFICATION Spec

\* The run stops once MaxInstances instances are created.
CHECK_DEADLOCK FALSE

INVARIANTS
    InstanceIdsDistinct

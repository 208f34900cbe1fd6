CONSTANTS
    Clients = {c1, c2}
    Ids = {i1}
    Services = {s1, s2}
    LiveServices = {s1}
    MaxTryTimes = 2
    Nil = Nil

SPECIFICATION Spec


INVARIANTS
    TypeOK

PROPERTIES
    UpdateMetadataNilVsEmpty
    CallsReturn

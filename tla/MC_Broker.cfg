CONSTANTS
    e1 = e1
    T1 = T1
    T2 = T2
    t1 = t1
    t2 = t2
    None = None
    Events = {e1}
    Types = {T1, T2}
    Triggers = {t1, t2}
    MaxTTL = 2
    MaxGen = 2
    NoSubscriber = {t2}
    WithDLS = {t1}
    MaxReplyHops = 2
    FilterOf <- MCFilterOf
    ProducerTTLs <- MCProducerTTLs

SPECIFICATION Spec

INVARIANT TypeOK

CHECK_DEADLOCK FALSE

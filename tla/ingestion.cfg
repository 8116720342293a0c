SPECIFICATION FairSpec
INVARIANTS
    OneRunPerContent
    EventsAccountForKeys
PROPERTIES
    EventuallyAnswered
    ImplementsRegister
CONSTANTS
    Clients = {c1, c2}
    Keys = {k1, k2}
    Contents = {d1, d2}
    Nonces = {n1}
    None = None

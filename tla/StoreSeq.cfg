\* One client at a time, two episodes that share the objects directory; one
\* call dies or fails on a write.
CONSTANTS
    Clients = {c1}
    Episodes = {e1, e2}
    Names = {n1, n2}
    Contents = {x1, x2}
    States = {backlog}
    Backlog = backlog
    Empty = Empty
    Torn = Torn
    NoCall = NoCall
    MaxDeaths = 1
SPECIFICATION Spec
INVARIANTS TypeOK Immutable LinkedStay
PROPERTIES ImplementsStore

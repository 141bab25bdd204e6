\* Two clients on one store root; one call dies or fails on a write.
CONSTANTS
    Clients = {c1, c2}
    Episodes = {e1}
    Names = {n1, n2}
    Contents = {x1}
    States = {backlog}
    Backlog = backlog
    Empty = Empty
    Torn = Torn
    NoCall = NoCall
    MaxDeaths = 1
SPECIFICATION Spec
INVARIANTS IndexBacked ToldObjectWhole

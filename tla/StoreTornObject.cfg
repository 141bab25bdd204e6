\* A put dies while it writes its object and is tried again.
CONSTANTS
    Clients = {c1}
    Episodes = {e1}
    Names = {n1}
    Contents = {x1}
    States = {backlog}
    Backlog = backlog
    Empty = Empty
    Torn = Torn
    NoCall = NoCall
    MaxDeaths = 1
SPECIFICATION Spec
INVARIANTS ToldReadable

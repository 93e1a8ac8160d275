CONSTANTS
    Models  = {a, b}
    MaxTime = 4
SPECIFICATION Spec
INVARIANTS FreshStart OneStamp

SPECIFICATION MCSpec
CHECK_DEADLOCK FALSE
CONSTANTS
    Messages = {m1}
    Kinds = {"image", "video", "info", "help"}
    Processes = {q1, q2}
    Nobody = Nobody
    MaxAttempts = 2
    MaxFaults = 2
    Workers = {w1, w2}
    MaxDeckFaults = 2
    MaxDecisions = 2
INVARIANTS
    NeverForgotten
PROPERTIES
    
    DeckConcluded

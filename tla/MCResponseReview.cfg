SPECIFICATION Spec
CONSTANTS
    Callers = {c1, c2, c3}
    Texts = {proposed, edited}
    Proposed = proposed
SYMMETRY Symmetry
INVARIANTS OneCall
PROPERTIES RejectionIsFinal CancellationIsFinal TextIsFinal
CHECK_DEADLOCK FALSE

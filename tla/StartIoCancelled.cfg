SPECIFICATION Spec
CONSTANTS
    Irps = {i1, i2}
    Cancellable = {i1, i2}
    None = None
PROPERTIES
    CancelledStaysCancelled
CHECK_DEADLOCK FALSE

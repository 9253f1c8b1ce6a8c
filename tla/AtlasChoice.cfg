SPECIFICATION Spec
CONSTANTS
    None = None
    Arrivals = {a1}
    Calls = {u1}
    MaxDay = 1
PROPERTIES
    ChoiceStands
CHECK_DEADLOCK FALSE

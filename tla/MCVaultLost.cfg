SPECIFICATION Spec
CONSTANTS
    None = None
    Clients = {c1, c2}
    Names = {n1, n2}
    Values = {v1}
    OldItems = {}
PROPERTIES
    ValuesSurvive

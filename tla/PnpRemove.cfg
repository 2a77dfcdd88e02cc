SPECIFICATION Spec
CONSTANTS
    WdmPdos = {p1}
    HidPdos = {h1}
    None = None
PROPERTY RemoveDetaches

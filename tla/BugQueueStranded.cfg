SPECIFICATION Spec
CONSTANTS
    Jobs = {j1}
    Null = Null
    MaxQueue = 3
PROPERTIES
    EveryCallIsServed

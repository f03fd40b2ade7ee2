SPECIFICATION LiveSpec
CONSTANTS
    Devices = {d1, d2}
    MaxRestarts = 1
    MaxCommands = 3
    MaxGraphs = 4
INVARIANTS
    WidgetsOutliveGraphs
    
PROPERTIES
    SwitchEnds

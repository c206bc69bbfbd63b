CONSTANTS
    Task = {h1, h2, s1, inner}
    Handlers = {h1, h2}
    Starters = {s1}
    Inner = inner
    MaxHeight = 1
    MaxReorgs = 1
    MaxRestarts = 1
SPECIFICATION Spec
PROPERTIES
    MinerRestartsAfterReorg

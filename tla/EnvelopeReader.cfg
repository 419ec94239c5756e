SPECIFICATION Spec
CONSTANTS
    HeaderSize = 2
    MaxFrames = 3
    Lengths = {0, 1}
    Bodies <- MCBodies
INVARIANTS
    ChunkingIrrelevant
    Delivery

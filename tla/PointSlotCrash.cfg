SPECIFICATION SpecRestart
CONSTANTS
    SlotWriters = {w1}
    SlotReaders = {r1}
    SlotSeqMod = 64
    MaxSets = 2
INVARIANT NeverTorn

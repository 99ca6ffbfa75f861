SPECIFICATION Spec
CONSTANTS
    j1 = j1  j2 = j2  s1 = s1  s2 = s2  m1 = m1  m2 = m2  h1 = h1  h2 = h2
    Job = {j2}
    Slot = {s1, s2}
    Media = {m1, m2}
    Hash = {h1, h2}
    NoTrack = NoTrack
    NoSlot = NoSlot
    NoMedia = NoMedia
    NoHash = NoHash
    Catalog <- MCDirectCatalog
    DirectJob = {j2}
    Attempts = 2
    MaxCancels = 0
    Faults = {}
INVARIANT RepeatIsADuplicate

SPECIFICATION Spec
CONSTANTS
    j1 = j1  j2 = j2  s1 = s1  s2 = s2  m1 = m1  m2 = m2  h1 = h1  h2 = h2
    Job = {j1, j2}
    Slot = {s1, s2}
    Media = {m1, m2}
    Hash = {h1, h2}
    NoTrack = NoTrack
    NoSlot = NoSlot
    NoMedia = NoMedia
    NoHash = NoHash
    Catalog <- MCCatalog
    DirectJob = {}
    Attempts = 2
    MaxCancels = 1
    Faults = {"db", "source", "telegram", "discard"}
SYMMETRY MCSymmetry
INVARIANTS TypeOK IInv AtMostOneUpload NoContentTwice UploadIsClaimed StatusIsTruthful OneOwnerPerTrack
PROPERTIES NoStepRewritesHistory  KeepsLedger  DeliveriesRunDown

SPECIFICATION FairSpec
CONSTANTS
    t1 = t1  t2 = t2  t3 = t3  m1 = m1  m2 = m2
    d1 = d1  d2 = d2  d3 = d3  d4 = d4
    Task = {t1, t2}
    Media = {m1, m2}
    Dir = {d1, d2, d3}
    WritesFail = TRUE
    NoMedia = NoMedia
    NoDir = NoDir
INVARIANTS TypeOK ReservationsAreHeld DirectoriesAreOwned 
PROPERTIES DirectoriesAreRemoved

SPECIFICATION Spec
CONSTANTS
    t1 = t1  t2 = t2  t3 = t3  m1 = m1  m2 = m2
    d1 = d1  d2 = d2  d3 = d3  d4 = d4
    Task = {t1, t2}
    Media = {m1}
    Dir = {d1, d2, d3}
    WritesFail = FALSE
    NoMedia = NoMedia
    NoDir = NoDir
INVARIANT OnePreparer

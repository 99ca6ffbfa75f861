SPECIFICATION Spec
CONSTANTS
    t1 = t1  t2 = t2  q1 = q1  q2 = q2  u1 = u1  u2 = u2
    Task = {t1, t2}
    Query = {q1, q2}
    Url = {u1, u2}
    Pool <- MCPool
    Limit = 2
    NoTask = NoTask
    NoFile = NoFile
INVARIANTS TypeOK QueriesStayCached
PROPERTIES RejectionsSurvive

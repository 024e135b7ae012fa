CONSTANTS
    Tokens = {t1, t2, t3, t4}
    Accounts = {u1}
    Root = Root
    Requests = {r1, r2}
    t1 = t1
    t2 = t2
    t3 = t3
    t4 = t4
    u1 = u1
    r1 = r1
    r2 = r2
SPECIFICATION SessionSpec
CONSTRAINT FewExpire
INVARIANT SessionTypeOK
INVARIANT SessionSurvives
PROPERTY RefreshReplacesItsOwn
SYMMETRY Symmetry

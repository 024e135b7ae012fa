CONSTANTS
    Tokens = {t1, t2, t3}
    Accounts = {u1}
    Root = Root
    Requests = {r1, r2}
    t1 = t1
    t2 = t2
    t3 = t3
    u1 = u1
    r1 = r1
    r2 = r2
SPECIFICATION Spec
INVARIANT TypeOK
INVARIANT AtMostOneSuccessor
INVARIANT SuccessorOnlyIfSpent
PROPERTY ImplementsPromise

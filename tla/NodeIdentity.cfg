SPECIFICATION Spec
CONSTANTS
    Keys = {k1, k2}
    Tokens = {t1, t2}
    Credentials = {c1, c2, c3}
    Challenges = {h1, h2}
    Sessions = {s1, s2}
    Requests = {r1, r2}
    None = None
INVARIANT NothingOutlivesItsKey
PROPERTIES ValidAnswerIsCurrent RevocationLasts
SYMMETRY Symmetry
CHECK_DEADLOCK FALSE

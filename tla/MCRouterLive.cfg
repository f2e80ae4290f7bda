SPECIFICATION LiveSpec
CONSTANTS
    q1 = q1  q2 = q2  c1 = c1   e1 = e1   t1 = t1  t2 = t2
    r1 = r1  r2 = r2  r3 = r3
    None = None
    Poller = Poller
    Requests = {q1, q2}
    Checks = {c1}
    Revisions = {e1}
    Targets <- MCTargets
    Target <- MCTarget
    Tokens = {t1}
    RouteIds = {r1, r2, r3}
    MaxRV <- MCMaxRV
    MaxSecretRV = 0
    MaxRestarts = 0
PROPERTIES
    DrainAcknowledged
    RequestAnswered

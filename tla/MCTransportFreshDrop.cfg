\* Two concurrent first subscriptions for one agent: NoSilentDrop fails.
CONSTANTS
    a1 = a1
    a2 = a2
    x1 = x1
    x2 = x2
    x3 = x3
    r1 = r1
    s1 = s1
    s2 = s2
    s3 = s3
    e1 = e1
    e2 = e2
    t1 = t1
    Agents = {a1, a2}
    Subs = {x1, x2, x3, r1}
    Receivers = {r1}
    Sends = {s1, s2, s3}
    Envs = {e1, e2}
    Tags = {t1}
    Cap = 1
    StreamCap = 1
    SubAgent <- MCSubAgent
    SendEnv <- MCSendEnv
    Workloads <- FreshWorkloads
SPECIFICATION Spec
INVARIANT NoSilentDrop
CHECK_DEADLOCK FALSE

SPECIFICATION MCSpec
CONSTANTS
    gfx = gfx
    compute = compute
    t1 = t1
    t2 = t2
    Threads = {t1, t2}
    Queues = {gfx, compute}
    Submits <- MCSubmits
    Presents <- MCPresents
    Internal = {gfx}
    MAX_FRAMES = 3
    MAX_SUBMISSIONS = 4
    MaxSubmits <- MCMaxSubmits
    MaxFailures = 1
    Ctl = Ctl
    NULL = NULL
INVARIANTS ReadsOwnResults InUseOnce DisabledIsDrained

SPECIFICATION FairSpec
CONSTANTS
    gfx = gfx
    compute = compute
    t1 = t1
    t2 = t2
    Threads = {t1, t2}
    Queues = {gfx}
    Submits <- MCSubmits
    Presents <- MCPresents
    Internal = {gfx}
    MAX_FRAMES = 3
    MAX_SUBMISSIONS = 2
    MaxSubmits <- MCLiveMaxSubmits
    MaxFailures = 0
    Ctl = Ctl
    NULL = NULL
PROPERTIES FrameCompletes DisableReturns CallsReturn

----------------------------- MODULE MCFramePacer -----------------------------
(* The frame pacer for TLC: one internally synchronised graphics queue that   *)
(* two threads use, and a compute queue.                                      *)
EXTENDS FramePacer, TLC
CONSTANTS gfx, compute, t1, t2

MCSubmits == {<<t1, gfx>>, <<t2, gfx>>, <<t2, compute>>}
MCPresents == {<<t1, gfx>>}
MCMaxSubmits == [q \in Queues |-> IF q = gfx THEN 1 ELSE 0]
MCLiveMaxSubmits == [q \in Queues |-> IF q = gfx THEN 2 ELSE 0]

Unused == [latency_sensitive |-> FALSE, semaphore_value |-> 0,
           signal_value |-> [f \in FrameIdx |-> 0], num_submits |-> [f \in FrameIdx |-> 0],
           queries |-> ringbuffer_init]

Quiet ==
    /\ contexts = Queues
    /\ frames_mtx = NULL /\ queries_mtx = [q \in Queues |-> NULL]
    /\ th = [t \in Threads |-> Idle]
    /\ ctl = Updated
    /\ failed = FALSE

(* The pacer has been in use before: three submissions to the graphics queue, *)
(* one in each frame, were evaluated.  The ring of queries is about to wrap,  *)
(* or presents were made on the compute queue too.                            *)
MCUsedBefore ==
    /\ enabled = FALSE /\ active_frame = NULL /\ frames = ringbuffer_init
    /\ Quiet
    /\ \E c \in {0, 1} :
          /\ ctx = gfx :> [Unused EXCEPT !.latency_sensitive = TRUE, !.semaphore_value = 3,
                                         !.signal_value = [f \in FrameIdx |-> f + 1],
                                         !.queries = [head |-> 6, tail |-> 6, size |-> 0]]
                @@ compute :> [Unused EXCEPT !.latency_sensitive = c = 1]
          /\ budget = [submits |-> gfx :> 3 - c @@ compute :> c, failures |-> 0]
    /\ pending = [q \in Queues |-> <<>>]
    /\ sem = gfx :> 3 @@ compute :> 0
    /\ written = [q \in Queues |-> {}]

(* Both rings are full: two frames of two submissions each, the first of them *)
(* executed, and a third frame that is active.                                *)
MCInFlight ==
    LET w(v) == [value |-> v, slot |-> 2 * (v - 1), frame |-> (v - 1) \div 2]
    IN  /\ enabled = TRUE /\ active_frame = 2 /\ frames = [head |-> 0, tail |-> 0, size |-> 3]
        /\ Quiet
        /\ ctx = gfx :> [latency_sensitive |-> TRUE, semaphore_value |-> 4,
                         signal_value |-> 0 :> 2 @@ 1 :> 4 @@ 2 :> 0,
                         num_submits |-> 0 :> 2 @@ 1 :> 2 @@ 2 :> 0,
                         queries |-> [head |-> 0, tail |-> 0, size |-> 8]]
              @@ compute :> Unused
        /\ pending = gfx :> <<w(3), w(4)>> @@ compute :> <<>>
        /\ sem = gfx :> 2 @@ compute :> 0
        /\ written = gfx :> {w(1), w(2)} @@ compute :> {}
        /\ budget = [submits |-> gfx :> 2 @@ compute :> 0, failures |-> 0]

MCSpec == (Init \/ MCUsedBefore \/ MCInFlight) /\ [][Next]_vars
=============================================================================

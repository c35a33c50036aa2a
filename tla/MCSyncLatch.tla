---------------------------- MODULE MCSyncLatch ----------------------------
(* SyncLatch for TLC: three threads on a mutex; or, on an rw-lock, readers  *)
(* and writers, and a page read whose x-lock the i/o thread releases.       *)
EXTENDS SyncLatch

MCPlays ==
    {Thread \X Mutex \X {"mutex"},
     ({"t1", "t2"} \X RwLock \X {"s", "x"}) \cup ({"t3"} \X RwLock \X {"passed"})}
=============================================================================

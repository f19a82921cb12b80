---------------------------- MODULE MCTaskStore ----------------------------
(* A small task table for TLC: t2 waits for t1, and one id, t3, comes from *)
(* a legacy file.                                                          *)
EXTENDS TaskStore, TLC

CONSTANTS c1, c2, t1, t2, t3

MCDeps == (t1 :> {}) @@ (t2 :> {t1}) @@ (t3 :> {t1})

(* Legacy rows: unleased and leased in-progress work, a pending row that   *)
(* kept an owner, finished and failed work.                                *)
MCLegacyRows ==
    { [status |-> "in_progress", owner |-> c1, ttl |-> NoLease],
      [status |-> "in_progress", owner |-> c1, ttl |-> 1],
      [status |-> "pending", owner |-> c1, ttl |-> NoLease],
      [status |-> "completed", owner |-> NoOwner, ttl |-> NoLease],
      [status |-> "failed", owner |-> c1, ttl |-> NoLease] }

=============================================================================

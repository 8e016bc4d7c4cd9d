------------------------------- MODULE MCSync -------------------------------
(* Sync for TLC: a lock, a re-entrant lock, a semaphore, a monitor with a   *)
(* lock of its own or over the lock, and a thread object.                   *)
EXTENDS Sync, TLC

CONSTANTS lock, rlock, semaphore, monitor, thread

MCOwn == monitor :> monitor
MCOver == monitor :> lock
=============================================================================

------------------------------ MODULE WorldLock ------------------------------
(***************************************************************************)
(* What stopping the world promises, whatever the protocol: a view either  *)
(* executes, or collects, or does neither; any number of views execute     *)
(* together, but a view collects alone.  docs/GC.md:19 says it of          *)
(* gc.collect, and ugc.c:357 needs it to read every view's stacks.         *)
(***************************************************************************)
CONSTANTS Views

VARIABLES executing, (* the views that execute                              *)
          collecting (* the views that collect                              *)

Init == executing = {} /\ collecting = {}

Execute(v) ==
  /\ collecting = {}
  /\ executing' = executing \cup {v}
  /\ UNCHANGED collecting

Stop(v) ==
  /\ executing' = executing \ {v}
  /\ UNCHANGED collecting

Collect(v) ==
  /\ executing = {}
  /\ collecting = {}
  /\ collecting' = {v}
  /\ UNCHANGED executing

Release(v) ==
  /\ collecting' = collecting \ {v}
  /\ UNCHANGED executing

Next == \E v \in Views : Execute(v) \/ Stop(v) \/ Collect(v) \/ Release(v)

Spec == Init /\ [][Next]_<<executing, collecting>>
=============================================================================

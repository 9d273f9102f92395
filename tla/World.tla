------------------------------- MODULE World -------------------------------
(***************************************************************************)
(* What StopTheWorld()/StartTheWorld() promise, without saying how: while  *)
(* the world is stopped no attached mutator runs managed code, none is     *)
(* attached or detached, and only one thread at a time stops the world.    *)
(*                                                                         *)
(* "running" holds the attached mutators that may touch managed objects:   *)
(* those outside a saferegion.  Module Saferegion implements this one.     *)
(***************************************************************************)
CONSTANTS Mutators

VARIABLES
  attached,   \* mutators registered with the runtime
  running,    \* the attached mutators that are outside a saferegion
  stopped     \* TRUE between StopTheWorld() and StartTheWorld()

vars == <<attached, running, stopped>>

Init ==
  /\ attached = {}
  /\ running = {}
  /\ stopped = FALSE

(* A thread is registered; it starts outside a saferegion.                 *)
Attach(m) ==
  /\ ~stopped
  /\ m \in Mutators \ attached
  /\ attached' = attached \cup {m}
  /\ running' = running \cup {m}
  /\ UNCHANGED stopped

(* A thread that is inside a saferegion unregisters.                       *)
Detach(m) ==
  /\ ~stopped
  /\ m \in attached \ running
  /\ attached' = attached \ {m}
  /\ UNCHANGED <<running, stopped>>

(* A mutator leaves its saferegion: never while the world is stopped.      *)
Resume(m) ==
  /\ ~stopped
  /\ m \in attached \ running
  /\ running' = running \cup {m}
  /\ UNCHANGED <<attached, stopped>>

(* A mutator enters a saferegion.                                          *)
Park(m) ==
  /\ m \in running
  /\ running' = running \ {m}
  /\ UNCHANGED <<attached, stopped>>

Stop ==
  /\ ~stopped
  /\ running = {}
  /\ stopped' = TRUE
  /\ UNCHANGED <<attached, running>>

Start ==
  /\ stopped
  /\ stopped' = FALSE
  /\ UNCHANGED <<attached, running>>

Next ==
  \/ \E m \in Mutators : Attach(m) \/ Detach(m) \/ Resume(m) \/ Park(m)
  \/ Stop
  \/ Start

Spec == Init /\ [][Next]_vars
=============================================================================

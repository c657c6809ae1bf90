--------------------------- MODULE RegisteredSet ---------------------------
(***************************************************************************)
(* What the thread registry promises to its callers, without its array,    *)
(* its mutex or its memory: a bounded set of thread handles.  A thread     *)
(* that registered itself "has no need to call unregister" (StackTrace.h), *)
(* so it has left the set by the time its handle dies and can be reused;   *)
(* only a handle that somebody registers by its id may outlive its thread. *)
(***************************************************************************)
EXTENDS FiniteSets, Integers

CONSTANTS Threads,   \* native handles
          ById,      \* handles that callers (un)register by id
          Capacity   \* capacity of the set

VARIABLES members,   \* the registered handles
          dead       \* handles whose thread has ended

vars == <<members, dead>>

Init == members = {} /\ dead = {}

\* A full set drops the handle, so Join is only ever taken below Capacity.
Join(id) ==
  /\ id \in ById \/ id \notin dead
  /\ Cardinality(members) < Capacity
  /\ members' = members \union {id}
  /\ UNCHANGED dead

Leave(id) ==
  /\ members' = members \ {id}
  /\ UNCHANGED dead

Die(t) ==
  /\ t \in members => t \in ById
  /\ dead' = dead \union {t}
  /\ UNCHANGED members

Reuse(t) ==
  /\ dead' = dead \ {t}
  /\ UNCHANGED members

Next == \E t \in Threads : Join(t) \/ Leave(t) \/ Die(t) \/ Reuse(t)

Spec == Init /\ [][Next]_vars
=============================================================================

---------------------------- MODULE EventStream ----------------------------
(***************************************************************************)
(* What the reliable websocket promises the application: events come in    *)
(* the order of their publication, one after the other, or everything is   *)
(* fetched again. What the promise leaves out is the set lost: events that *)
(* a delivery may pass over.                                               *)
(***************************************************************************)
EXTENDS Integers

CONSTANT MaxEvents

VARIABLES published, view, lost

vars == <<published, view, lost>>

Init == published = 0 /\ view = 0 /\ lost = {}

\* An event is published; it may be lost at once.
Publish ==
  /\ published < MaxEvents
  /\ published' = published + 1
  /\ lost' \in {lost, lost \cup {published + 1}}
  /\ UNCHANGED view

\* An event is lost later, on its way.
Lose(n) ==
  /\ n \in 1 .. published
  /\ lost' = lost \cup {n}
  /\ UNCHANGED <<published, view>>

\* Event n is delivered. The application has every event before it, up to lost
\* ones; an event it knew of already changes nothing.
Deliver(n) ==
  /\ n \in 1 .. published
  /\ (view + 1 .. n - 1) \subseteq lost
  /\ view' = IF n > view THEN n ELSE view
  /\ UNCHANGED <<published, lost>>

\* The application fetches everything.
Resync ==
  /\ view' = published
  /\ UNCHANGED <<published, lost>>

Next == \/ Publish \/ Resync
        \/ \E n \in 1 .. MaxEvents : Lose(n) \/ Deliver(n)

Spec == Init /\ [][Next]_vars
=============================================================================

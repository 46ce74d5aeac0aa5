----------------------------- MODULE ReadModel ------------------------------
(***************************************************************************)
(* What the query cache promises of the copies the screens show: the       *)
(* server counts its writes; each view holds what the server had after one *)
(* of them, or nothing yet (0); views catch up one at a time and at any    *)
(* time, never go back, and never run ahead of the server.                 *)
(***************************************************************************)
EXTENDS Naturals

CONSTANT Keys       \* what can be viewed

VARIABLES
    now,    \* writes the server has seen, from 1
    views   \* views[k]: the write after which the server had what k shows

Init == now = 1 /\ views = [k \in Keys |-> 0]

Write == now' = now + 1 /\ UNCHANGED views

CatchUp(k) ==
    /\ \E s \in views[k]..now : views' = [views EXCEPT ![k] = s]
    /\ UNCHANGED now

Next == Write \/ \E k \in Keys : CatchUp(k)

Spec == Init /\ [][Next]_<<now, views>>
=============================================================================

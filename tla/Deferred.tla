------------------------------ MODULE Deferred ------------------------------
(***************************************************************************)
(* What "when" promises, without how: a directive scheduled for a hook     *)
(* that is not over is invoked once, there, after those scheduled for that *)
(* hook before it, and the transaction does not leave the hook before.     *)
(* One that is scheduled for a hook that is over is never invoked.         *)
(***************************************************************************)
EXTENDS Naturals, Sequences

CONSTANT Hook       \* the hooks, numbers in the order they come

VARIABLES
  at,       \* where the transaction is
  slots     \* slots[h]: what has been scheduled for hook h, in order

dvars == <<at, slots>>

Pending(h) == {i \in DOMAIN slots[h] : slots[h][i] = "due"}

DeferredInit == at = 0 /\ slots = [h \in Hook |-> << >>]

Promise(h) ==
  /\ slots' = [slots EXCEPT ![h] = Append(@, IF h >= at THEN "due" ELSE "late")]
  /\ UNCHANGED at

Keep ==
  /\ at \in Hook
  /\ \E i \in Pending(at) :
       /\ \A j \in Pending(at) : i <= j
       /\ slots' = [slots EXCEPT ![at] = [j \in DOMAIN slots[at] |->
                      IF j = i THEN "done" ELSE slots[at][j]]]
  /\ UNCHANGED at

\* Hooks in between are not visited; what was promised for them lapses.
Move ==
  /\ at \in Hook => Pending(at) = {}
  /\ at' \in Nat /\ at' > at
  /\ UNCHANGED slots

DeferredNext == (\E h \in Hook : Promise(h)) \/ Keep \/ Move

DeferredSpec == DeferredInit /\ [][DeferredNext]_dvars
=============================================================================

---------------------------- MODULE ConnLifecycle ----------------------------
(***************************************************************************)
(* What the accept callback and the worker threads promise about one       *)
(* connection, whatever lists, watchers, mutexes and signals they use for  *)
(* it: it is handed to one worker and stays with it, it is polled before   *)
(* it is ever served, it is closed only while it is being served (never    *)
(* under a started watcher), and it never comes back.                      *)
(***************************************************************************)
EXTENDS Integers

CONSTANTS Conns, Threads

VARIABLES
  stage,   \* how far each connection has got
  owner    \* the worker it belongs to, 0 before it has one

vars == <<stage, owner>>

Stages == {"unborn", "accepted", "queued", "polled", "served", "closed"}

Init ==
  /\ stage = [c \in Conns |-> "unborn"]
  /\ owner = [c \in Conns |-> 0]

Move(c, from, to) ==
  /\ stage[c] = from
  /\ stage' = [stage EXCEPT ![c] = to]
  /\ UNCHANGED owner

\* The main thread hands over one connection before it accepts another.
Accept(c) ==
  /\ \A d \in Conns : stage[d] # "accepted"
  /\ Move(c, "unborn", "accepted")

Reject(c) == Move(c, "unborn", "closed")

Enqueue(c, t) ==
  /\ stage[c] = "accepted"
  /\ stage' = [stage EXCEPT ![c] = "queued"]
  /\ owner' = [owner EXCEPT ![c] = t]

\* A worker takes over everything that is queued for it at once.
TakeOver(t) ==
  /\ stage' = [c \in Conns |-> IF stage[c] = "queued" /\ owner[c] = t
                               THEN "polled" ELSE stage[c]]
  /\ UNCHANGED owner

Serve(c) == Move(c, "polled", "served")
Wait(c)  == Move(c, "served", "polled")
Close(c) == Move(c, "served", "closed")

Next ==
  \/ \E c \in Conns : \/ Accept(c) \/ Reject(c)
                      \/ \E t \in Threads : Enqueue(c, t)
                      \/ Serve(c) \/ Wait(c) \/ Close(c)
  \/ \E t \in Threads : TakeOver(t)

Spec == Init /\ [][Next]_vars
=============================================================================

------------------------------ MODULE PermitPool ------------------------------
(***************************************************************************)
(* What the bounded gates of the gateway promise: at most Permits users    *)
(* hold a permit, users that find none free wait in arrival order (at most *)
(* QueueMax of them), a permit that is given back goes to the longest      *)
(* waiter, and nobody overtakes a waiter.                                  *)
(*                                                                         *)
(* gateway/admission.ts (requests) and copilot/inference_pool.ts           *)
(* (connections to one upstream origin) both implement it.                 *)
(***************************************************************************)
EXTENDS Naturals, Sequences, FiniteSets, SequencesExt

CONSTANTS
  Users,      \* whoever may ask for a permit
  Permits,    \* permits in the pool
  QueueMax    \* users that may wait

VARIABLES
  granted,    \* the users holding a permit, or being handed one
  queue       \* the users waiting, longest first

vars == <<granted, queue>>

TypeOK ==
  /\ granted \subseteq Users
  /\ queue \in Seq(Users)

Init ==
  /\ granted = {}
  /\ queue = <<>>

\* A permit is free, so nobody waits for one.
Enter(u) ==
  /\ u \notin granted
  /\ queue = <<>>
  /\ Cardinality(granted) < Permits
  /\ granted' = granted \cup {u}
  /\ UNCHANGED queue

\* Every permit is taken: the user joins the queue.
Wait(u) ==
  /\ u \notin granted \cup ToSet(queue)
  /\ Cardinality(granted) = Permits
  /\ Len(queue) < QueueMax
  /\ queue' = Append(queue, u)
  /\ UNCHANGED granted

\* A permit is given back; the longest waiter takes it over.
Leave(u) ==
  /\ u \in granted
  /\ IF queue = <<>>
     THEN granted' = granted \ {u} /\ UNCHANGED queue
     ELSE /\ granted' = (granted \ {u}) \cup {Head(queue)}
          /\ queue' = Tail(queue)

\* A waiter leaves the queue without a permit.
GiveUp(u) ==
  /\ u \in ToSet(queue)
  /\ queue' = RemoveFirst(queue, u)
  /\ UNCHANGED granted

\* The gate closes: every waiter is turned away.
TurnAway ==
  /\ queue # <<>>
  /\ queue' = <<>>
  /\ UNCHANGED granted

Next ==
  \/ \E u \in Users : Enter(u) \/ Wait(u) \/ Leave(u) \/ GiveUp(u)
  \/ TurnAway

Spec == Init /\ [][Next]_vars

===============================================================================

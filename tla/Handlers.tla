------------------------------ MODULE Handlers ------------------------------
(***************************************************************************)
(* Requests in progress, the same for every part of the API: a handler     *)
(* runs its statements one by one on a connection pool and opens no        *)
(* transaction, so two requests interleave between any two of them.  req   *)
(* holds what a handler has read so far and the step it is at.             *)
(***************************************************************************)
EXTENDS Naturals, FiniteSets

CONSTANTS
  Requests,  \* slots for concurrently running HTTP requests
  Mixes,     \* sets of operations; a behaviour uses those of one set
  Faults     \* whether a request may stop half way and statements may fail

VARIABLES mix, req

Idle == [op |-> "none", at |-> "none"]

HandlersInit ==
  /\ mix \in Mixes
  /\ req = [r \in Requests |-> Idle]

At(r, op, step) == req[r].op = op /\ req[r].at = step
Begin(r, q) == req[r] = Idle /\ q.op \in mix /\ req' = [req EXCEPT ![r] = q]
GoTo(r, step) == req' = [req EXCEPT ![r].at = step]
Done(r) == req' = [req EXCEPT ![r] = Idle]
Moves(r) == req[r] # Idle /\ req'[r] # req[r]

(* The client goes away, a statement fails, the instance is replaced.      *)
Abandon(r) == Faults /\ req[r] # Idle /\ Done(r) /\ UNCHANGED mix
=============================================================================

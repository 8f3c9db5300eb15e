---------------------------- MODULE ApiRequests -----------------------------
(* Requests of the API in progress, shared by the modules about its tables.  *)
(* A request is a process: it reads, decides, and writes in later steps on   *)
(* what it read. req[r] is what it still holds: the step it is at and, under *)
(* further fields, what it read. Transactions are READ COMMITTED: one is a   *)
(* single step where row locks make it so, and several where it relies on a  *)
(* row that it has not locked.                                               *)
CONSTANTS
    Requests,    \* requests in progress at the same time
    None         \* no row

VARIABLE req

Idle == [pc |-> "idle"]

At(r, label)   == req[r].pc = label
Begin(r, call) == At(r, "idle") /\ req' = [req EXCEPT ![r] = call]
Goto(r, label) == req' = [req EXCEPT ![r].pc = label]
Done(r)        == req' = [req EXCEPT ![r] = Idle]
=============================================================================

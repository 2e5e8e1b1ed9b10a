------------------------------ MODULE Delivery ------------------------------
(***************************************************************************)
(* What an upstream transport promises about each request: the upstream    *)
(* receives it at most once, and the caller is told "ok" only for a        *)
(* request the upstream has received.  An error promises nothing: the      *)
(* request may have been received before it, or may be received after it.  *)
(***************************************************************************)
EXTENDS Naturals

CONSTANT Requests

VARIABLES sent,      \* how often the upstream has received each request
          outcome    \* what each caller has been told

vars == <<sent, outcome>>

Init == /\ sent = [r \in Requests |-> 0]
        /\ outcome = [r \in Requests |-> "none"]

Receive(r) == /\ sent[r] = 0
              /\ sent' = [sent EXCEPT ![r] = 1]

Tell(r, result) == /\ outcome[r] = "none"
                   /\ outcome' = [outcome EXCEPT ![r] = result]

\* The upstream receives the request, in time or late.
Arrive(r) == Receive(r) /\ UNCHANGED outcome

Succeed(r) == sent[r] = 1 /\ Tell(r, "ok") /\ UNCHANGED sent

Fail(r) == Tell(r, "error") /\ UNCHANGED sent

\* A transport whose exchange is one step to an observer.
Exchange(r) == Receive(r) /\ \E result \in {"ok", "error"} : Tell(r, result)

Next == \E r \in Requests : Arrive(r) \/ Succeed(r) \/ Fail(r) \/ Exchange(r)

Spec == Init /\ [][Next]_vars

=============================================================================

---------------------------- MODULE ResetMailbox ----------------------------
(***************************************************************************)
(* What the controller may rely on when it asks the game script for a      *)
(* reset through SharedAgentMemory: a request stays pending until it is    *)
(* served, and once it has been, whatever is reported about the car was    *)
(* measured after the latest request.  ResetHandshake shows how the two    *)
(* sides of the memory keep this promise.                                  *)
(***************************************************************************)
EXTENDS Naturals

CONSTANT Field    \* the reported quantities that accumulate over an episode

VARIABLES
  requests,   \* how many resets have been asked for
  pending,    \* the latest of them has not been served
  report      \* for each field, the requests it was measured after

vars == <<requests, pending, report>>

Fresh == ~ pending => \A f \in Field : report[f] \subseteq {requests}

Init ==
  /\ requests = 0
  /\ pending = FALSE
  /\ report = [f \in Field |-> {}]

Request ==
  /\ requests' = requests + 1
  /\ pending' = TRUE
  /\ UNCHANGED report

\* A field is withdrawn, or reported anew; a stale report only while pending.
Report(f) ==
  /\ \E S \in SUBSET (0 .. requests) :
       /\ ~ pending => S \subseteq {requests}
       /\ report' = [report EXCEPT ![f] = S]
  /\ UNCHANGED <<requests, pending>>

Serve ==
  /\ pending
  /\ \A f \in Field : report[f] = {}
  /\ pending' = FALSE
  /\ UNCHANGED <<requests, report>>

Next == Request \/ Serve \/ \E f \in Field : Report(f)

Spec == Init /\ [][Next]_vars
=============================================================================

----------------------------- MODULE Requests -----------------------------
(***************************************************************************)
(* What the services of the web server share in a model: a pool of HTTP    *)
(* requests, each of which runs one operation, and a bound on the calls    *)
(* that fail.  A request is a Node.js handler: between two awaits it runs  *)
(* alone, at every await other requests may run.                           *)
(***************************************************************************)
EXTENDS Naturals

CONSTANTS
  Request,     \* bound: HTTP requests
  MaxFaults    \* bound: failed calls

ASSUME MaxFaultsAssumption == MaxFaults \in Nat

VARIABLE faults   \* failures so far

Fault ==
  /\ faults < MaxFaults
  /\ faults' = faults + 1
=============================================================================

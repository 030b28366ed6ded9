---------------------------- MODULE FetchProperties ----------------------------
(* What fetch_candidate owes its callers and the hosts. *)
EXTENDS FetchTransport

(* The timeout of a fetch holds for everything it does together: a retry after a  *)
(* back-off, a rendering, a second rendering and two waits for the health store   *)
(* end within the timeout, the back-off, the store's two waits and what one       *)
(* transport overruns its own limit by; the two overruns never add up.            *)
DeadlineKept == \A t \in Threads : clock[t] <= LastMoment

(* A host's breaker counts a failure only for the answer that the fetch got last, *)
(* whichever thread it was: a retry that helped takes the first attempt's failure *)
(* back, and what fails in the browser or in the reader is not the host's fault.  *)
BlamedForLastAnswer ==
  [][\A h \in Hosts :
       /\ health'[h] = Failed(Store!OrFresh(health[h])) /\ health'[h] # health[h]
       => \E t \in Threads : Host(t) = h /\ pc[t] = "recording" /\ heard[t] \in Affecting]_vars
=============================================================================

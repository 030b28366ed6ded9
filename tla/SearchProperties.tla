--------------------------- MODULE SearchProperties ---------------------------
(***************************************************************************)
(* What the search session promises the rest of the request.               *)
(***************************************************************************)
EXTENDS SearchSession

(* "a provider answering every query in 10-20s can, by itself, consume the *)
(* entire shared workflow budget": its fair share, plus the one call that  *)
(* crosses it, is all the time any provider ever gets, over all queries,   *)
(* half-open probes and retries of the request.                            *)
FairShare == \A i \in Providers : used[i] < Share + LongestCall

(* A bot check reopens max_blocked_reopens times: a provider that keeps    *)
(* blocking is probed no more often than that, whatever it answered in     *)
(* between and however long the request lasts.                             *)
BlockedReopensBounded == \A i \in Providers : blocked[i] <= MaxReopens + 1

(* "Timeouts stay open for the request", and so do parse errors: that      *)
(* answer is the provider's last one.                                      *)
TimeoutIsFinal ==
  \A i \in gaveUp : i \in open /\ ~(pc = "calling" /\ cursor = i)

(* However late in the budget a call begins, and although its retry reuses *)
(* a timeout computed earlier, searching overruns the budget by less than  *)
(* one whole attempt.                                                      *)
OverrunBounded ==
  pc = "calling" => now <= Total + Overrun \/ now < Total + Timeout + Overrun - Headroom
=============================================================================

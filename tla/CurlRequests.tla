----------------------------- MODULE CurlRequests -----------------------------
(***************************************************************************)
(* What CurlGlobal promises the CurlRequests it drives, without sockets,   *)
(* timers or the deferred call: an added request runs until libcurl        *)
(* finishes it, and only then is it handed to Done(), once for that Add(). *)
(* Remove() ends it in any phase, and nothing of an earlier Add() reaches  *)
(* a request added again.  libcurl may finish, and ReadInfo() may report,  *)
(* several requests in one call.                                           *)
(***************************************************************************)
CONSTANT Requests

VARIABLE phase   \* "idle", "running", "finished" (not yet reported), "done"

Phases == {"idle", "running", "finished", "done"}

TypeOK == phase \in [Requests -> Phases]

Init == phase = [r \in Requests |-> "idle"]

\* phase moves from `from` to `to` for the non-empty set S, and only for S.
Move(S, from, to) ==
    /\ S # {}
    /\ \A r \in S : phase[r] = from
    /\ phase' = [r \in Requests |-> IF r \in S THEN to ELSE phase[r]]

Add(r) == Move({r}, "idle", "running")

Finish(S) == Move(S, "running", "finished")

Done(S) == Move(S, "finished", "done")

Remove(r) ==
    /\ phase[r] # "idle"
    /\ phase' = [phase EXCEPT ![r] = "idle"]

Next ==
    \/ \E r \in Requests : Add(r) \/ Remove(r)
    \/ \E S \in SUBSET Requests : Finish(S) \/ Done(S)

Spec == Init /\ [][Next]_phase

===============================================================================

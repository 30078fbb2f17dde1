---------------------------- MODULE RunLifecycle ----------------------------
(***************************************************************************)
(* What the CI/CD engine promises of one run, seen by a client of its API: *)
(* a run is accepted into the queue or refused, starts at most once, ends  *)
(* exactly once, and a restart of the server fails what had not ended.     *)
(* CicdEngine is shown to implement it.                                    *)
(***************************************************************************)
EXTENDS Naturals

CONSTANT Runs

VARIABLE state

Ended == {"success", "failed", "canceled"}
Unfinished == {"queued", "running"}

Init == state = [r \in Runs |-> "absent"]

Become(r, s) == state' = [state EXCEPT ![r] = s]

(* The run gets its place in the queue. *)
Accept(r) == state[r] = "absent" /\ Become(r, "queued")

(* It never gets one: the queue was full, or it was cancelled before.      *)
Refuse(r) == state[r] = "absent" /\ \E s \in {"failed", "canceled"} : Become(r, s)

Start(r) == state[r] = "queued" /\ Become(r, "running")

CancelInQueue(r) == state[r] = "queued" /\ Become(r, "canceled")

End(r) == state[r] = "running" /\ \E s \in Ended : Become(r, s)

(* The server restarts: every unfinished run fails; one that was only being *)
(* submitted is forgotten or shown as ended; an ended run is untouched.     *)
Interrupt ==
  \E fate \in [{r \in Runs : state[r] = "absent"} -> {"absent", "failed", "canceled"}] :
    state' = [r \in Runs |-> IF state[r] = "absent" THEN fate[r]
                             ELSE IF state[r] \in Unfinished THEN "failed" ELSE state[r]]

Next ==
  \/ \E r \in Runs : Accept(r) \/ Refuse(r) \/ Start(r) \/ CancelInQueue(r) \/ End(r)
  \/ Interrupt

Spec == Init /\ [][Next]_state

=============================================================================

------------------------------ MODULE LoginJobs ------------------------------
(***************************************************************************)
(* What the server's QR login jobs promise to whoever polls them           *)
(* (LoginJobManager.start, get and cancel_pending in                       *)
(* server/mijia_runtime.py), without its threads, attempts and locks: of   *)
(* the jobs that were given out at most one is open, a job that is over    *)
(* never opens or succeeds again, and only a restart makes the server      *)
(* forget one.                                                             *)
(***************************************************************************)
CONSTANT Ids

VARIABLE shown   \* what get answers of a job that was given out

Over == {"success", "failed", "canceled"}

Init == shown = [j \in Ids |-> "none"]

(* cancel_pending: every job that is not finished.                         *)
Canceled == [j \in Ids |-> IF shown[j] = "open" THEN "canceled" ELSE shown[j]]

(* start returns a job.                                                    *)
Start(j) ==
  /\ shown[j] = "none"
  /\ shown' = [Canceled EXCEPT ![j] = "open"]

(* It returns one that was superseded while it was prepared.               *)
Refuse(j) ==
  /\ shown[j] = "none"
  /\ shown' = [shown EXCEPT ![j] = "canceled"]

(* A removal of the account, or a start that is still being prepared.      *)
CancelAll == shown' = Canceled

Settle(j, s) ==
  /\ shown[j] = "open"
  /\ shown' = [shown EXCEPT ![j] = s]

(* The thread cannot be started: start says so of a canceled job too.      *)
NotStarted(j) ==
  /\ shown[j] = "canceled"
  /\ shown' = [shown EXCEPT ![j] = "failed"]

Restart == shown' = [j \in Ids |-> "none"]

(* What may happen to the jobs given out, and a new one.                   *)
Changes ==
  CancelAll \/ Restart \/ \E j \in Ids : NotStarted(j) \/ \E s \in Over : Settle(j, s)
GivesOut(j) == Start(j) \/ Refuse(j)

Next == Changes \/ \E j \in Ids : GivesOut(j)

Spec == Init /\ [][Next]_shown

(* One login at a time can succeed.                                        *)
OneOpen == \A i, j \in Ids : shown[i] = "open" /\ shown[j] = "open" => i = j

=============================================================================

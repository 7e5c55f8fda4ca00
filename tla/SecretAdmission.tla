--------------------------- MODULE SecretAdmission ---------------------------
(***************************************************************************)
(* What the server promises of the requests that carry a secret, an API    *)
(* key (server/store_api_keys.py) or a session token of the administrator  *)
(* (server/store_auth.py), without caches, generations and locks: one is   *)
(* let in only with a secret that was in force at some moment since the    *)
(* request was last begun, and that no call has ended and returned since.  *)
(***************************************************************************)
CONSTANTS Secrets, Requests

VARIABLES standing,   \* the secrets the database lets in
          ended,      \* those a call that has returned put out of force
          request     \* how far each request has come

vars == <<standing, ended, request>>

NotAsked == [stage |-> "none"]
Request(stage, s) == [stage |-> stage, secret |-> s]

Init == standing = {} /\ ended = {} /\ request = [r \in Requests |-> NotAsked]

At(r, stage, s) == request[r] = Request(stage, s)
Goes(r, stage, s) == request' = [request EXCEPT ![r] = Request(stage, s)]

Ask(r, s) ==
  /\ request[r] = NotAsked \/ \E t \in Secrets : At(r, "let in", t)
  /\ Goes(r, "asked", s)

See(r, s) == At(r, "asked", s) /\ s \in standing /\ Goes(r, "seen", s)
AskAgain(r, s) == At(r, "seen", s) /\ Goes(r, "asked", s)
LetIn(r, s) == At(r, "seen", s) /\ s \notin ended /\ Goes(r, "let in", s)

(* Requests are turned away, or are over, at any time.                     *)
TurnedAway ==
  \E R \in SUBSET Requests :
    request' = [r \in Requests |-> IF r \in R THEN NotAsked ELSE request[r]]

(* Secrets come into force and go out of it; one that a returned call has  *)
(* ended stays so until it is put into force again.                        *)
Changes ==
  /\ standing' \in SUBSET Secrets /\ ended' \in SUBSET Secrets
  /\ ended' \cap standing' = {}
  /\ ended \subseteq ended' \cup standing'
  /\ TurnedAway

Next ==
  \/ Changes
  \/ /\ \E r \in Requests, s \in Secrets : Ask(r, s) \/ See(r, s) \/ AskAgain(r, s) \/ LetIn(r, s)
     /\ UNCHANGED <<standing, ended>>

Spec == Init /\ [][Next]_vars

=============================================================================

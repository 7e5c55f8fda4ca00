-------------------------- MODULE ControlOperation --------------------------
(***************************************************************************)
(* A control request on its way to a device: run_audited_control, the      *)
(* batches of DeviceService, HttpClient.post with its retries, and the     *)
(* Xiaomi cloud, which may execute a request whose answer never comes      *)
(* back.  A batch is sent part by part; a property, an action and a scene  *)
(* have one part.  The items of a part are abstracted to one.              *)
(***************************************************************************)
EXTENDS Naturals

CONSTANTS Ops,           \* control requests, each handled once
          MaxAttempts,   \* stop_after_attempt of HttpClient._do_post
          MaxParts       \* bound on the parts of a batch

ASSUME ControlAssumption == MaxAttempts \in Nat \ {0} /\ MaxParts \in Nat \ {0}

VARIABLE op              \* per request: where it stands

(* What the audit trail records (none: the server never got so far), and   *)
(* what the HTTP response says to the caller.                              *)
Receipt == {"none", "success", "warning", "failed", "unknown"}
Answer  == Receipt

OpPc == {"idle", "sent", "validate", "dispatch", "wait", "over"}

OpRecord == [pc : OpPc,
             parts : 0 .. MaxParts,      \* parts of the request
             acked : Nat,                \* len(results)
             accepted : Nat,             \* results with code 0
             attempt : Nat,              \* attempts of the part in hand
             reply : {"none", "ok", "rejected"},  \* the cloud's, on its way
             transit : Nat,              \* requests on their way to the cloud
             done : Nat,                 \* parts the cloud has executed
             receipt : Receipt,
             answer : Answer]

NewOp == [pc |-> "idle", parts |-> 0, acked |-> 0, accepted |-> 0, attempt |-> 0,
          reply |-> "none", transit |-> 0, done |-> 0,
          receipt |-> "none", answer |-> "none"]

OpInit == op = [o \in Ops |-> NewOp]

----------------------------------------------------------------------------
(* An HTTP request for a control with n parts leaves its client. *)
SendOp(o, n) ==
  /\ op[o].pc = "idle"
  /\ op' = [op EXCEPT ![o].pc = "sent", ![o].parts = n]

Ends(o, receipt, answer) ==
  op' = [op EXCEPT ![o].pc = "over", ![o].attempt = 0, ![o].reply = "none",
                   ![o].receipt = receipt, ![o].answer = answer]

Served(o) ==
  /\ op[o].pc = "sent"
  /\ op' = [op EXCEPT ![o].pc = "validate"]

(* No session, no permission, another account, no specification, a value   *)
(* it does not admit: nothing has been sent to the cloud.  Refused before  *)
(* run_audited_control there is no receipt; a 5xx answer leaves the caller *)
(* in doubt.                                                               *)
Refused(o) ==
  /\ op[o].pc = "validate"
  /\ \E receipt \in {"none", "failed"}, answer \in {"failed", "unknown"} :
       Ends(o, receipt, answer)

(* Every item is validated before the first part is sent. *)
Validated(o) ==
  /\ op[o].pc = "validate"
  /\ op' = [op EXCEPT ![o].pc = "dispatch"]

(* An exception that proves that the part was not executed ends the batch; *)
(* after other parts it is an ExecutionUnknownError.                       *)
Raises(o) ==
  IF op[o].acked > 0
  THEN Ends(o, "unknown", "unknown")
  ELSE \E answer \in {"failed", "unknown"} : Ends(o, "failed", answer)

(* The connection fails before anything is sent: retried, up to a limit.   *)
ConnectFails(o) ==
  /\ op[o].pc = "dispatch"
  /\ IF op[o].attempt + 1 < MaxAttempts
     THEN op' = [op EXCEPT ![o].attempt = @ + 1]
     ELSE Raises(o)

Dispatched(o) ==
  /\ op[o].pc = "dispatch"
  /\ op' = [op EXCEPT ![o].pc = "wait", ![o].transit = @ + 1]

(* The cloud executes or rejects a request, or never gets it; its answer   *)
(* is of interest only while the server waits for it.                      *)
Replies(o, reply) == IF op[o].pc = "wait" THEN reply ELSE "none"

CloudExecutes(o) ==
  /\ op[o].transit > 0
  /\ op' = [op EXCEPT ![o].transit = @ - 1, ![o].done = @ + 1,
                      ![o].reply = Replies(o, "ok")]

CloudRejects(o) ==
  /\ op[o].transit > 0
  /\ op' = [op EXCEPT ![o].transit = @ - 1, ![o].reply = Replies(o, "rejected")]

RequestLost(o) ==
  /\ op[o].transit > 0
  /\ op' = [op EXCEPT ![o].transit = @ - 1]

(* control_audit_status; the same tells the caller. *)
Completed(o, accepted) ==
  LET r == IF accepted = op[o].parts THEN "success"
           ELSE IF accepted > 0 THEN "warning" ELSE "failed"
  IN  op' = [op EXCEPT ![o].pc = "over", ![o].attempt = 0, ![o].reply = "none",
                       ![o].acked = op[o].parts, ![o].accepted = accepted,
                       ![o].receipt = r, ![o].answer = r]

(* An answer with a valid acknowledgement; its code says whether the       *)
(* device accepted.                                                        *)
Acknowledged(o) ==
  /\ op[o].pc = "wait"
  /\ op[o].reply # "none"
  /\ LET accepted == op[o].accepted + (IF op[o].reply = "ok" THEN 1 ELSE 0)
     IN  IF op[o].acked + 1 = op[o].parts
         THEN Completed(o, accepted)
         ELSE op' = [op EXCEPT ![o].pc = "dispatch", ![o].reply = "none",
                               ![o].acked = @ + 1, ![o].accepted = accepted,
                               ![o].attempt = 0]

(* An answer that rejects the whole request: a 4xx status, or a code other *)
(* than 0 at its top.                                                      *)
RejectedByCloud(o) ==
  /\ op[o].pc = "wait"
  /\ op[o].reply = "rejected"
  /\ Raises(o)

(* Faulty variants: a request whose answer was lost is sent again, or      *)
(* reported as an ordinary failure.                                        *)
NoAnswerRetried(o) ==
  /\ op[o].pc = "wait"
  /\ IF op[o].attempt + 1 < MaxAttempts
     THEN op' = [op EXCEPT ![o].pc = "dispatch", ![o].attempt = @ + 1,
                           ![o].reply = "none"]
     ELSE Ends(o, "unknown", "unknown")

NoAnswerFails(o) ==
  /\ op[o].pc = "wait"
  /\ Ends(o, "failed", "failed")

(* A timeout or a broken connection after the request was sent, a 5xx, an  *)
(* answer that cannot be read or acknowledges something else: never sent   *)
(* again, whatever was executed ("A lost response to these requests cannot *)
(* safely authorize another dispatch").                                    *)
NoAnswer(o) ==
  /\ op[o].pc = "wait"
  /\ Ends(o, "unknown", "unknown")

(* The server process dies in the middle of the request. *)
OpDies(o) ==
  /\ op[o].pc \in {"validate", "dispatch", "wait"}
  /\ Ends(o, "none", "none")

ServerStep(o) ==
  \/ Served(o) \/ Refused(o) \/ Validated(o) \/ ConnectFails(o) \/ Dispatched(o)
  \/ Acknowledged(o) \/ RejectedByCloud(o) \/ NoAnswer(o) \/ OpDies(o)

CloudStep(o) == CloudExecutes(o) \/ CloudRejects(o) \/ RequestLost(o)

OpStep(o) == ServerStep(o) \/ CloudStep(o)

OpNext == \E o \in Ops : OpStep(o) \/ \E n \in 1 .. MaxParts : SendOp(o, n)

OpSpec == OpInit /\ [][OpNext]_op

----------------------------------------------------------------------------
(* Every record keeps its type. *)
OpTypeOK == op \in [Ops -> OpRecord]

(* No part of a control request is ever executed twice, and none is still  *)
(* on its way to the cloud when the next one is sent, whatever connections *)
(* fail and whatever answers are lost ("no automatic resend", README).     *)
SentAtMostOnce ==
  \A o \in Ops : /\ op[o].done + op[o].transit <= op[o].parts
                 /\ op[o].done + op[o].transit <= op[o].acked + 1

(* The receipt of a control tells the truth about the devices, also about  *)
(* what the cloud may still do after the answer: "success" means that      *)
(* every part was executed, "failed" that none was and none will be, and   *)
(* "warning" that some were; everything else is "unknown".                 *)
ReceiptIsTrue ==
  \A o \in Ops :
    /\ op[o].receipt = "success" => op[o].done = op[o].parts
    /\ op[o].receipt = "failed"  => op[o].done = 0
    /\ op[o].receipt = "warning" => op[o].done \in 1 .. op[o].parts - 1
    /\ op[o].receipt \notin {"none", "unknown"} => op[o].transit = 0

=============================================================================

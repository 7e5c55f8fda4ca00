--------------------------- MODULE DeviceControl ---------------------------
(***************************************************************************)
(* The device dialog of the admin page, web/src/composables/               *)
(* useDeviceControl.ts, and the control requests of ControlOperation it    *)
(* sends.  The dialog may be closed, reopened or switched to another       *)
(* device while a request, a state read or a wait is under way; the memory *)
(* of outcomes outlives it.  A selection generation or a state sequence is *)
(* only compared with the present one, so a flag that falls when it moves  *)
(* on stands for it.  Specifications, drafts and messages are left out.    *)
(***************************************************************************)
EXTENDS ControlOperation

CONSTANTS Devices,
          None,          \* no device, no request
          MaxReads,      \* attempts of the read-back loop
          MaxOpens       \* bound on how often the dialog is opened

ASSUME DialogAssumption ==
  None \notin Devices \cup Ops /\ MaxReads \in Nat \ {0} /\ MaxOpens \in Nat

VARIABLES
  dialog,      \* selectedId and visible: the device shown, or None
  opens,       \* how often the dialog has been opened
  read,        \* the latest refreshState of the dialog
  flow,        \* per device: the submit() under way
  outcome,     \* outcomes[id], with the request it is about
  verified     \* verifiedUnknown[id]

page == <<dialog, opens, read, flow, outcome, verified>>
vars == <<op, page>>

(* The latest state read: on its way, or read by the server while a        *)
(* control of the device was still unanswered (stale) or not (fresh).      *)
ReadState == {"none", "sent", "stale", "fresh"}

FlowPhase == {"none", "post", "read", "wait", "lastread"}

Flow == [phase : FlowPhase,
         op : Ops \cup {None},
         kind : {"readable", "writeonly", "action"},  \* what is submitted
         shown : BOOLEAN,      \* the dialog has not been left since
         latest : BOOLEAN,     \* its state read is the latest one
         attempt : 0 .. MaxReads]

NoFlow == [phase |-> "none", op |-> None, kind |-> "action", shown |-> FALSE,
           latest |-> FALSE, attempt |-> 0]

Outcome == [status : {"none", "success", "failed", "unknown"}, op : Ops \cup {None}]

NoOutcome == [status |-> "none", op |-> None]

Init ==
  /\ OpInit
  /\ dialog = None
  /\ opens = 0
  /\ read = "none"
  /\ flow = [d \in Devices |-> NoFlow]
  /\ outcome = [d \in Devices |-> NoOutcome]
  /\ verified = [d \in Devices |-> FALSE]

busy(d) == flow[d].phase # "none"

Unresolved(d) == outcome[d].status = "unknown"

(* Flows that find the dialog left, or their read no longer the latest.    *)
Left == [d \in Devices |-> [flow[d] EXCEPT !.shown = FALSE, !.latest = FALSE]]
Superseded == [d \in Devices |-> [flow[d] EXCEPT !.latest = FALSE]]

Shows(d, s, o) == outcome' = [outcome EXCEPT ![d] = [status |-> s, op |-> o]]

----------------------------------------------------------------------------
(* The user. *)

(* openDevice, with its refreshState. *)
OpenDevice(d) ==
  /\ opens < MaxOpens
  /\ opens' = opens + 1
  /\ dialog' = d
  /\ read' = "sent"
  /\ flow' = Left
  /\ UNCHANGED <<op, outcome, verified>>

CloseDevice ==
  /\ dialog # None
  /\ dialog' = None
  /\ read' = "none"
  /\ flow' = Left
  /\ UNCHANGED <<op, opens, outcome, verified>>

(* refreshState, from a button that is disabled while it loads.            *)
RefreshState ==
  /\ dialog # None
  /\ read = "none"
  /\ read' = "sent"
  /\ flow' = Superseded
  /\ UNCHANGED <<op, dialog, opens, outcome, verified>>

(* submit: canControl allows one control of a device at a time, and none   *)
(* while the outcome of the last one is unknown.                           *)
Submit(d, o, kind) ==
  /\ dialog = d
  /\ ~busy(d)
  /\ ~Unresolved(d)
  /\ SendOp(o, 1)
  /\ flow' = [flow EXCEPT ![d] = [phase |-> "post", op |-> o, kind |-> kind,
                                  shown |-> TRUE, latest |-> FALSE, attempt |-> 0]]
  /\ verified' = [verified EXCEPT ![d] = FALSE]
  /\ UNCHANGED <<dialog, opens, read, outcome>>

(* acknowledgeUnknown; its button is disabled while the state is read.     *)
AcknowledgeUnknown(d) ==
  /\ dialog = d
  /\ read = "none"
  /\ verified[d]
  /\ ~busy(d)
  /\ Unresolved(d)
  /\ outcome' = [outcome EXCEPT ![d] = NoOutcome]
  /\ verified' = [verified EXCEPT ![d] = FALSE]
  /\ UNCHANGED <<op, dialog, opens, read, flow>>

----------------------------------------------------------------------------
(* The answer to the control. *)

(* The flow ends; busyIds[id] is false again. *)
FlowEnds(d) == flow' = [flow EXCEPT ![d] = NoFlow]

(* confirmPropertyReadback gives up: the write was accepted, its effect    *)
(* remains unconfirmed.                                                    *)
Unconfirmed(d) ==
  /\ FlowEnds(d)
  /\ Shows(d, "unknown", flow[d].op)

(* The flow asks for the state itself, and awaits the answer. *)
FlowReads(d, phase) ==
  /\ read' = "sent"
  /\ flow' = [Superseded EXCEPT ![d].phase = phase, ![d].latest = TRUE]

(* The read-back of an accepted write begins. *)
ReadBack(d) ==
  /\ Shows(d, "unknown", flow[d].op)
  /\ IF flow[d].shown
     THEN FlowReads(d, IF flow[d].kind = "readable" THEN "read" ELSE "lastread")
     ELSE FlowEnds(d) /\ UNCHANGED read
  /\ UNCHANGED verified

(* Any other result is shown; the state is read once more if it may have   *)
(* changed.                                                                *)
Settles(d, s) ==
  /\ Shows(d, s, flow[d].op)
  /\ IF flow[d].shown /\ s # "failed"
     THEN read' = "sent" /\ flow' = [Superseded EXCEPT ![d] = NoFlow]
     ELSE FlowEnds(d) /\ UNCHANGED read
  /\ UNCHANGED verified

PostAnswered(d) ==
  /\ flow[d].phase = "post"
  /\ op[flow[d].op].answer # "none"
  /\ LET s == op[flow[d].op].answer
     IN  IF s = "success" /\ flow[d].kind # "action" THEN ReadBack(d) ELSE Settles(d, s)
  /\ UNCHANGED <<op, dialog, opens>>

(* A faulty variant: a lost answer counts as a failure. *)
PostLostFails(d) ==
  /\ flow[d].phase = "post"
  /\ Settles(d, "failed")
  /\ UNCHANGED <<op, dialog, opens>>

(* fetch() rejects: "a lost browser response cannot establish whether a    *)
(* submitted command ran" (controlError).                                  *)
PostLost(d) ==
  /\ flow[d].phase = "post"
  /\ Settles(d, "unknown")
  /\ UNCHANGED <<op, dialog, opens>>

----------------------------------------------------------------------------
(* State reads. *)

(* GET /api/admin/devices/{id}/state is answered by the server.            *)
ServeState ==
  /\ read = "sent"
  /\ read' = IF flow[dialog].phase = "post" THEN "stale" ELSE "fresh"
  /\ UNCHANGED <<op, dialog, opens, flow, outcome, verified>>

OwnRead(d) == flow[d].phase \in {"read", "lastread"} /\ flow[d].latest

(* The read of a flow is compared with the value written; `matches` is     *)
(* what comes out, "no" when another attempt may be made.                  *)
Compared(d, matches) ==
  IF matches = "yes" THEN
    /\ Shows(d, "success", flow[d].op)
    /\ FlowEnds(d)
  ELSE IF matches = "no" /\ flow[d].attempt + 1 < MaxReads THEN
    /\ flow' = [flow EXCEPT ![d].phase = "wait", ![d].attempt = @ + 1,
                            ![d].latest = FALSE]
    /\ UNCHANGED outcome
  ELSE Unconfirmed(d)

(* The latest read of the dialog succeeds: an unknown outcome counts as    *)
(* verified, and a flow that awaits the read goes on.                      *)
StateArrives(matches) ==
  /\ read \in {"stale", "fresh"}
  /\ read' = "none"
  /\ LET d == dialog
     IN  /\ IF OwnRead(d) /\ flow[d].phase = "read"
            THEN /\ Compared(d, matches)
                 /\ verified' = [verified EXCEPT ![d] = matches # "yes"]
            ELSE /\ verified' = [verified EXCEPT ![d] = @ \/ Unresolved(d)]
                 /\ IF OwnRead(d) THEN FlowEnds(d) ELSE UNCHANGED flow
                 /\ UNCHANGED outcome
  /\ UNCHANGED <<op, dialog, opens>>

StateFails ==
  /\ read # "none"
  /\ read' = "none"
  /\ LET d == dialog
     IN  IF OwnRead(d)
         THEN FlowEnds(d) /\ Shows(d, "unknown", flow[d].op)
         ELSE UNCHANGED <<flow, outcome>>
  /\ UNCHANGED <<op, dialog, opens, verified>>

(* A faulty variant: the flow goes on although its dialog was left, with a *)
(* value that was read before.                                             *)
StaleReadTrusted(d) ==
  /\ flow[d].phase \in {"read", "lastread"}
  /\ ~flow[d].latest
  /\ Shows(d, "success", flow[d].op)
  /\ FlowEnds(d)
  /\ UNCHANGED <<op, dialog, opens, read, verified>>

(* The read a flow awaits is not the latest any more, or the dialog was    *)
(* left: its answer is dropped.                                            *)
StaleReadDropped(d) ==
  /\ flow[d].phase \in {"read", "lastread"}
  /\ ~flow[d].latest
  /\ Unconfirmed(d)
  /\ UNCHANGED <<op, dialog, opens, read, verified>>

(* A faulty variant: the wait is only over while the dialog is shown.      *)
WaitEndsShown(d) ==
  /\ flow[d].phase = "wait"
  /\ flow[d].shown
  /\ FlowReads(d, "read")
  /\ UNCHANGED <<op, dialog, opens, outcome, verified>>

(* The second between two reads is over, or cut short by cancelReadbackWait. *)
WaitEnds(d) ==
  /\ flow[d].phase = "wait"
  /\ IF flow[d].shown
     THEN FlowReads(d, "read") /\ UNCHANGED outcome
     ELSE Unconfirmed(d) /\ UNCHANGED read
  /\ UNCHANGED <<op, dialog, opens, verified>>

----------------------------------------------------------------------------
(* Requests of API clients, batches included. *)
ApiClientSends(o, n) == SendOp(o, n) /\ UNCHANGED page

Proceeds(o) == OpStep(o) /\ UNCHANGED page

FlowStep(d) ==
  PostAnswered(d) \/ PostLost(d) \/ StaleReadDropped(d) \/ WaitEnds(d)

ReadStep ==
  ServeState \/ StateFails \/ \E m \in {"yes", "no", "error"} : StateArrives(m)

Next ==
  \/ CloseDevice \/ RefreshState \/ ReadStep
  \/ \E d \in Devices :
       \/ OpenDevice(d) \/ AcknowledgeUnknown(d) \/ FlowStep(d)
       \/ \E o \in Ops, kind \in {"readable", "writeonly", "action"} :
            Submit(d, o, kind)
  \/ \E o \in Ops : \/ Proceeds(o)
                    \/ \E n \in 1 .. MaxParts : ApiClientSends(o, n)

Spec == Init /\ [][Next]_vars

(* Calls are answered or fail, and timers fire.                            *)
FairSpec == Spec /\ WF_vars(ReadStep) /\ \A d \in Devices : WF_vars(FlowStep(d))

----------------------------------------------------------------------------
(* Every variable keeps its type. *)
TypeOK ==
  /\ OpTypeOK
  /\ dialog \in Devices \cup {None}
  /\ opens \in 0 .. MaxOpens
  /\ read \in ReadState
  /\ flow \in [Devices -> Flow]
  /\ outcome \in [Devices -> Outcome]
  /\ verified \in [Devices -> BOOLEAN]

(* What the page shows about a control is true, whatever was lost on the   *)
(* way and whatever still is on its way: after "failed" the device has not *)
(* been and will not be controlled by it, after "success" it has been.     *)
ShownOutcomeIsTrue ==
  \A d \in Devices :
    LET o == outcome[d].op
    IN  /\ outcome[d].status = "failed"
             => op[o].pc = "over" /\ op[o].done + op[o].transit = 0
        /\ outcome[d].status = "success" => op[o].done > 0

(* A write is reported as confirmed only by a read of the dialog it was    *)
(* made in, and only while that dialog is still open on its device ("a     *)
(* late matching value is ignored", control-readback.test.cjs).            *)
ConfirmedInItsDialog ==
  [][\A d \in Devices :
       outcome[d].status = "unknown" /\ outcome'[d].status = "success"
         => dialog = d /\ flow[d].shown /\ read = "fresh"]_vars

(* The controls of a device are enabled again in the end, also when the    *)
(* dialog is closed, reopened or switched in the middle.                   *)
ControlsComeBack == \A d \in Devices : busy(d) ~> ~busy(d)

(* "Query the latest device state first; the console requires an explicit  *)
(* check before it admits a new manual operation" (docs, control           *)
(* receipts): the read that allows an unknown outcome to be acknowledged   *)
(* was not made before the control was answered.                           *)
VerifiedByFreshRead ==
  [][\A d \in Devices : ~verified[d] /\ verified'[d] => read = "fresh"]_vars

=============================================================================

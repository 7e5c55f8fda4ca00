------------------------ MODULE DeviceControlProofs ------------------------
(***************************************************************************)
(* Controls are executed at most once and reported truthfully, for any     *)
(* number of requests, parts, attempts, devices and dialogs.               *)
(***************************************************************************)
EXTENDS DeviceControl, TLAPS

(* Where a control stands says what the cloud may have done of it.  The    *)
(* part in hand is the only one whose fate can be open: the parts before   *)
(* it were acknowledged, and those the cloud executed are those it         *)
(* accepted.                                                               *)
Untouched(r) == /\ r.acked = 0 /\ r.accepted = 0 /\ r.done = 0 /\ r.transit = 0
                /\ r.reply = "none"

UnderWay(r) == /\ r.acked < r.parts /\ r.accepted <= r.acked
               /\ r.receipt = "none" /\ r.answer = "none"
               /\ r.pc = "dispatch" => r.transit = 0 /\ r.done = r.accepted /\ r.reply = "none"
               /\ r.pc = "wait" =>
                    \/ r.reply = "none" /\ r.done = r.accepted /\ r.transit <= 1
                    \/ r.reply = "ok" /\ r.done = r.accepted + 1 /\ r.transit = 0
                    \/ r.reply = "rejected" /\ r.done = r.accepted /\ r.transit = 0

Truthful(r, report) ==
  /\ report = "success" => r.done = r.parts
  /\ report = "failed"  => r.done = 0
  /\ report = "warning" => r.done \in 1 .. r.parts - 1
  /\ report \notin {"none", "unknown"} => r.transit = 0

OpState(r) ==
  /\ r.pc = "idle" => Untouched(r) /\ r.receipt = "none" /\ r.answer = "none"
  /\ r.pc # "idle" => r.parts \in 1 .. MaxParts
  /\ r.pc \in {"sent", "validate"}
       => Untouched(r) /\ r.receipt = "none" /\ r.answer = "none"
  /\ r.pc \in {"dispatch", "wait"} => UnderWay(r)
  /\ r.pc = "over" => /\ r.done + r.transit <= r.parts
                      /\ r.done + r.transit <= r.acked + 1
                      /\ Truthful(r, r.receipt) /\ Truthful(r, r.answer)

OpInv == OpTypeOK /\ \A o \in Ops : OpState(op[o])

(* No control has been sent at first. *)
LEMMA OpInitInv == OpInit => OpInv
  BY ControlAssumption
  DEF OpInit, OpInv, OpTypeOK, OpRecord, NewOp, OpState, OpPc, Receipt, Answer,
      Untouched, UnderWay, Truthful

(* A step of one control keeps the invariant of all, once its own record   *)
(* is sound.                                                               *)
LEMMA OpMoves ==
  ASSUME OpInv, NEW o \in Ops, NEW new \in OpRecord, OpState(new),
         op' = [op EXCEPT ![o] = new]
  PROVE  OpInv'
<1>1. OpTypeOK'
  BY DEF OpInv, OpTypeOK
<1>2. ASSUME NEW q \in Ops PROVE OpState(op'[q])
  <2>1. op'[q] = IF q = o THEN new ELSE op[q]
    BY DEF OpInv, OpTypeOK
  <2> QED BY <2>1 DEF OpInv
<1> QED BY <1>1, <1>2 DEF OpInv

(* A control that ends; its receipt and its answer are truthful.           *)
LEMMA OpEnds ==
  ASSUME OpInv, NEW o \in Ops, NEW receipt \in Receipt, NEW answer \in Answer,
         Ends(o, receipt, answer),
         op[o].pc \in {"validate", "dispatch", "wait"},
         Truthful(op[o], receipt), Truthful(op[o], answer)
  PROVE  OpInv'
<1> DEFINE r == op[o]
           new == [r EXCEPT !.pc = "over", !.attempt = 0, !.reply = "none",
                            !.receipt = receipt, !.answer = answer]
<1>1. r \in OpRecord /\ OpState(r)
  BY DEF OpInv, OpTypeOK
<1>2. op' = [op EXCEPT ![o] = new]
  BY DEF Ends
<1>3. new \in OpRecord
  BY <1>1 DEF OpRecord, OpPc, Receipt, Answer
<1>4. /\ new.pc = "over" /\ new.done = r.done /\ new.transit = r.transit
      /\ new.parts = r.parts /\ new.acked = r.acked
      /\ new.receipt = receipt /\ new.answer = answer
  BY <1>1 DEF OpRecord
<1>5. /\ r.parts \in 1 .. MaxParts
      /\ r.done + r.transit <= r.parts /\ r.done + r.transit <= r.acked + 1
  BY <1>1, ControlAssumption DEF OpState, OpRecord, UnderWay, Untouched
<1>6. OpState(new)
  BY <1>1, <1>4, <1>5 DEF OpState, Truthful
<1> HIDE DEF new, r
<1> QED BY <1>2, <1>3, <1>6, OpMoves

(* Sending a control keeps the invariant. *)
LEMMA SendInv ==
  ASSUME OpInv, NEW o \in Ops, NEW n \in 1 .. MaxParts, SendOp(o, n)
  PROVE  OpInv'
<1> DEFINE r == op[o]
           new == [r EXCEPT !.pc = "sent", !.parts = n]
<1>1. r \in OpRecord /\ OpState(r) /\ r.pc = "idle"
  BY DEF OpInv, OpTypeOK, SendOp
<1>2. op' = [op EXCEPT ![o] = new]
  BY DEF SendOp
<1>3. new \in OpRecord
  <2>1. n \in 0 .. MaxParts /\ "sent" \in OpPc
    BY ControlAssumption DEF OpPc
  <2> QED BY <1>1, <2>1 DEF OpRecord
<1>4. OpState(new)
  BY <1>1 DEF OpState, OpRecord, Untouched, UnderWay, Truthful
<1> HIDE DEF new, r
<1> QED BY <1>2, <1>3, <1>4, OpMoves

----------------------------------------------------------------------------
(* The steps of the server that do not end the control. *)
LEMMA ServerMoves ==
  ASSUME OpInv, NEW o \in Ops, Served(o) \/ Validated(o) \/ Dispatched(o)
  PROVE  OpInv'
<1> DEFINE r == op[o]
<1>1. r \in OpRecord /\ OpState(r)
  BY DEF OpInv, OpTypeOK
<1>2. CASE Served(o)
  <2> DEFINE new == [r EXCEPT !.pc = "validate"]
  <2>1. op' = [op EXCEPT ![o] = new] /\ r.pc = "sent"
    BY <1>2 DEF Served
  <2>2. new \in OpRecord
    BY <1>1 DEF OpRecord, OpPc
  <2>3. OpState(new)
    BY <1>1, <2>1 DEF OpState, OpRecord, Untouched
  <2> HIDE DEF new, r
  <2> QED BY <2>1, <2>2, <2>3, OpMoves
<1>3. CASE Validated(o)
  <2> DEFINE new == [r EXCEPT !.pc = "dispatch"]
  <2>1. op' = [op EXCEPT ![o] = new] /\ r.pc = "validate"
    BY <1>3 DEF Validated
  <2>2. new \in OpRecord
    BY <1>1 DEF OpRecord, OpPc
  <2>3. OpState(new)
    BY <1>1, <2>1, ControlAssumption DEF OpState, OpRecord, Untouched, UnderWay
  <2> HIDE DEF new, r
  <2> QED BY <2>1, <2>2, <2>3, OpMoves
<1>4. CASE Dispatched(o)
  <2> DEFINE new == [r EXCEPT !.pc = "wait", !.transit = @ + 1]
  <2>1. op' = [op EXCEPT ![o] = new] /\ r.pc = "dispatch"
    BY <1>4 DEF Dispatched
  <2>2. new \in OpRecord
    <3>1. r.transit + 1 \in Nat /\ "wait" \in OpPc
      BY <1>1 DEF OpRecord, OpPc
    <3> QED BY <1>1, <3>1 DEF OpRecord
  <2>3. OpState(new)
    BY <1>1, <2>1 DEF OpState, OpRecord, UnderWay
  <2> HIDE DEF new, r
  <2> QED BY <2>1, <2>2, <2>3, OpMoves
<1> QED BY <1>2, <1>3, <1>4

(* An exception before the part was executed: nothing was executed when it *)
(* is the first part, and the report says "unknown" otherwise.             *)
LEMMA RaiseInv ==
  ASSUME OpInv, NEW o \in Ops, Raises(o), op[o].pc \in {"dispatch", "wait"},
         op[o].pc = "wait" => op[o].reply = "rejected"
  PROVE  OpInv'
<1>1. op[o] \in OpRecord /\ OpState(op[o]) /\ UnderWay(op[o])
  BY DEF OpInv, OpTypeOK, OpState
<1>2. CASE op[o].acked > 0
  <2>1. Ends(o, "unknown", "unknown")
    BY <1>2 DEF Raises
  <2> QED BY <2>1, OpEnds DEF Truthful, Receipt, Answer
<1>3. CASE ~(op[o].acked > 0)
  <2>1. PICK answer \in {"failed", "unknown"} : Ends(o, "failed", answer)
    BY <1>3 DEF Raises
  <2>2. op[o].done = 0 /\ op[o].transit = 0
    BY <1>1, <1>3 DEF UnderWay, OpRecord
  <2>3. /\ Truthful(op[o], "failed") /\ Truthful(op[o], answer)
        /\ "failed" \in Receipt /\ answer \in Answer
    BY <2>2 DEF Truthful, Receipt, Answer
  <2> QED BY <2>1, <2>3, OpEnds
<1> QED BY <1>2, <1>3

(* The ways a control ends without a complete answer keep the invariant. *)
LEMMA ServerEnds ==
  ASSUME OpInv, NEW o \in Ops,
         Refused(o) \/ NoAnswer(o) \/ OpDies(o) \/ RejectedByCloud(o)
  PROVE  OpInv'
<1>1. op[o] \in OpRecord /\ OpState(op[o])
  BY DEF OpInv, OpTypeOK
<1>2. CASE Refused(o)
  <2>1. PICK receipt \in {"none", "failed"}, answer \in {"failed", "unknown"} :
          Ends(o, receipt, answer)
    BY <1>2 DEF Refused
  <2>2. op[o].pc = "validate" /\ op[o].done = 0 /\ op[o].transit = 0
    BY <1>1, <1>2 DEF Refused, OpState, Untouched
  <2>3. /\ Truthful(op[o], receipt) /\ Truthful(op[o], answer)
        /\ receipt \in Receipt /\ answer \in Answer
    BY <2>2 DEF Truthful, Receipt, Answer
  <2> QED BY <2>1, <2>2, <2>3, OpEnds
<1>3. CASE NoAnswer(o)
  BY <1>3, OpEnds DEF NoAnswer, Truthful, Receipt, Answer
<1>4. CASE OpDies(o)
  BY <1>4, OpEnds DEF OpDies, Truthful, Receipt, Answer
<1>5. CASE RejectedByCloud(o)
  BY <1>5, RaiseInv DEF RejectedByCloud
<1> QED BY <1>2, <1>3, <1>4, <1>5

(* A connection that fails before anything was sent keeps the invariant. *)
LEMMA ConnectInv ==
  ASSUME OpInv, NEW o \in Ops, ConnectFails(o)
  PROVE  OpInv'
<1> DEFINE r == op[o]
           new == [r EXCEPT !.attempt = @ + 1]
<1>1. r \in OpRecord /\ OpState(r) /\ r.pc = "dispatch"
  BY DEF OpInv, OpTypeOK, ConnectFails
<1>2. CASE r.attempt + 1 < MaxAttempts
  <2>1. op' = [op EXCEPT ![o] = new]
    BY <1>2 DEF ConnectFails
  <2>2. new \in OpRecord
    BY <1>1 DEF OpRecord
  <2>3. OpState(new)
    BY <1>1 DEF OpState, OpRecord, UnderWay
  <2> HIDE DEF new, r
  <2> QED BY <2>1, <2>2, <2>3, OpMoves
<1>3. CASE ~(r.attempt + 1 < MaxAttempts)
  BY <1>1, <1>3, RaiseInv DEF ConnectFails
<1> QED BY <1>2, <1>3

(* An acknowledgement says of one more part whether it was executed.       *)
LEMMA AcknowledgeInv ==
  ASSUME OpInv, NEW o \in Ops, Acknowledged(o)
  PROVE  OpInv'
<1> DEFINE r == op[o]
           accepted == r.accepted + (IF r.reply = "ok" THEN 1 ELSE 0)
<1>1. r \in OpRecord /\ OpState(r) /\ r.pc = "wait" /\ r.reply # "none"
  BY DEF OpInv, OpTypeOK, Acknowledged
<1>2. /\ UnderWay(r) /\ r.parts \in 1 .. MaxParts
      /\ r.transit = 0 /\ r.done = accepted /\ accepted \in Nat
      /\ accepted <= r.acked + 1 /\ r.acked + 1 <= r.parts
  BY <1>1, ControlAssumption DEF OpState, UnderWay, OpRecord
<1>3. CASE r.acked + 1 = r.parts
  <2> DEFINE t == IF accepted = r.parts THEN "success"
                  ELSE IF accepted > 0 THEN "warning" ELSE "failed"
             new == [r EXCEPT !.pc = "over", !.attempt = 0, !.reply = "none",
                              !.acked = r.parts, !.accepted = accepted,
                              !.receipt = t, !.answer = t]
  <2>1. op' = [op EXCEPT ![o] = new]
    BY <1>3, ZenonT(60) DEF Acknowledged, Completed
  <2>2. t \in Receipt /\ t \in Answer /\ r.parts \in Nat
    BY <1>2 DEF Receipt, Answer
  <2>3. Truthful(r, t)
    BY <1>1, <1>2, <1>3 DEF Truthful, OpRecord
  <2> HIDE DEF t, accepted
  <2>4. new \in OpRecord
    BY <1>1, <1>2, <2>2 DEF OpRecord, OpPc
  <2>5. OpState(new)
    BY <1>1, <1>2, <1>3, <2>2, <2>3 DEF OpState, OpRecord, Truthful
  <2> HIDE DEF new, r
  <2> QED BY <2>1, <2>4, <2>5, OpMoves
<1>4. CASE r.acked + 1 # r.parts
  <2> DEFINE new == [r EXCEPT !.pc = "dispatch", !.reply = "none",
                              !.acked = @ + 1, !.accepted = accepted, !.attempt = 0]
  <2>1. op' = [op EXCEPT ![o] = new]
    BY <1>4 DEF Acknowledged
  <2> HIDE DEF accepted
  <2>2. new \in OpRecord
    <3>1. r.acked + 1 \in Nat /\ accepted \in Nat /\ "dispatch" \in OpPc
      BY <1>1, <1>2 DEF OpRecord, OpPc
    <3> QED BY <1>1, <3>1 DEF OpRecord
  <2>3. OpState(new)
    BY <1>1, <1>2, <1>4 DEF OpState, OpRecord, UnderWay
  <2> HIDE DEF new, r
  <2> QED BY <2>1, <2>2, <2>3, OpMoves
<1> QED BY <1>3, <1>4

(* The cloud, also after the server has stopped waiting for it.            *)
LEMMA CloudInv ==
  ASSUME OpInv, NEW o \in Ops, CloudStep(o)
  PROVE  OpInv'
<1> DEFINE r == op[o]
<1>1. r \in OpRecord /\ OpState(r) /\ r.transit > 0
  BY DEF OpInv, OpTypeOK, CloudStep, CloudExecutes, CloudRejects, RequestLost
<1>2. /\ r.pc \in {"wait", "over"} /\ r.parts \in 1 .. MaxParts
      /\ r.pc = "wait" => /\ UnderWay(r) /\ r.reply = "none"
                          /\ r.done = r.accepted /\ r.transit = 1
  BY <1>1 DEF OpState, UnderWay, Untouched, OpRecord, OpPc
<1>3. r.transit - 1 \in Nat /\ r.done + 1 \in Nat
  BY <1>1 DEF OpRecord
<1>4. r.pc = "over" => r.receipt \in {"none", "unknown"} /\ r.answer \in {"none", "unknown"}
  BY <1>1 DEF OpState, OpRecord, Truthful
<1>5. CASE CloudExecutes(o)
  <2> DEFINE reply == Replies(o, "ok")
             new == [r EXCEPT !.transit = @ - 1, !.done = @ + 1, !.reply = reply]
  <2>1. op' = [op EXCEPT ![o] = new]
    BY <1>5 DEF CloudExecutes
  <2>2. reply = (IF r.pc = "wait" THEN "ok" ELSE "none")
    BY DEF Replies
  <2> HIDE DEF reply
  <2>3. new \in OpRecord
    <3>1. reply \in {"none", "ok", "rejected"}
      BY <2>2
    <3> QED BY <1>1, <1>3, <3>1 DEF OpRecord
  <2>4. OpState(new)
    BY <1>1, <1>2, <1>4, <2>2 DEF OpState, OpRecord, UnderWay, Truthful
  <2> HIDE DEF new, r
  <2> QED BY <2>1, <2>3, <2>4, OpMoves
<1>6. CASE CloudRejects(o)
  <2> DEFINE reply == Replies(o, "rejected")
             new == [r EXCEPT !.transit = @ - 1, !.reply = reply]
  <2>1. op' = [op EXCEPT ![o] = new]
    BY <1>6 DEF CloudRejects
  <2>2. reply = (IF r.pc = "wait" THEN "rejected" ELSE "none")
    BY DEF Replies
  <2> HIDE DEF reply
  <2>3. new \in OpRecord
    <3>1. reply \in {"none", "ok", "rejected"}
      BY <2>2
    <3> QED BY <1>1, <1>3, <3>1 DEF OpRecord
  <2>4. OpState(new)
    BY <1>1, <1>2, <1>4, <2>2 DEF OpState, OpRecord, UnderWay, Truthful
  <2> HIDE DEF new, r
  <2> QED BY <2>1, <2>3, <2>4, OpMoves
<1>7. CASE RequestLost(o)
  <2> DEFINE new == [r EXCEPT !.transit = @ - 1]
  <2>1. op' = [op EXCEPT ![o] = new]
    BY <1>7 DEF RequestLost
  <2>3. new \in OpRecord
    BY <1>1, <1>3 DEF OpRecord
  <2>4. OpState(new)
    BY <1>1, <1>2, <1>4 DEF OpState, OpRecord, UnderWay, Truthful
  <2> HIDE DEF new, r
  <2> QED BY <2>1, <2>3, <2>4, OpMoves
<1> QED BY <1>5, <1>6, <1>7 DEF CloudStep

(* Every step of a control keeps the invariant. *)
LEMMA OpNextInv == OpInv /\ [OpNext]_op => OpInv'
<1> SUFFICES ASSUME OpInv, [OpNext]_op PROVE OpInv'
  OBVIOUS
<1>1. CASE UNCHANGED op
  BY <1>1 DEF OpInv, OpTypeOK
<1>2. ASSUME NEW o \in Ops, OpStep(o) PROVE OpInv'
  BY <1>2, ServerMoves, ServerEnds, ConnectInv, AcknowledgeInv, CloudInv
  DEF OpStep, ServerStep
<1>3. ASSUME NEW o \in Ops, NEW n \in 1 .. MaxParts, SendOp(o, n) PROVE OpInv'
  BY <1>3, SendInv
<1> QED BY <1>1, <1>2, <1>3 DEF OpNext

(* At any time every control has at most its part in hand undecided, and   *)
(* its receipt and answer are truthful.                                    *)
THEOREM OpIsSound == OpSpec => []OpInv
  BY OpInitInv, OpNextInv, PTL DEF OpSpec

(* The invariant of the controls contains both of their properties. *)
LEMMA OpInvImplies == OpInv => SentAtMostOnce /\ ReceiptIsTrue
<1> SUFFICES ASSUME OpInv, NEW o \in Ops
             PROVE  /\ op[o].done + op[o].transit <= op[o].parts
                    /\ op[o].done + op[o].transit <= op[o].acked + 1
                    /\ Truthful(op[o], op[o].receipt)
  BY DEF SentAtMostOnce, ReceiptIsTrue, Truthful
<1>1. op[o] \in OpRecord /\ OpState(op[o])
  BY DEF OpInv, OpTypeOK
<1> QED BY <1>1, ControlAssumption
        DEF OpState, OpRecord, OpPc, Untouched, UnderWay, Truthful

----------------------------------------------------------------------------
(* The page only sends controls; the rest of its steps leave them alone.   *)
LEMMA PageSends == [Next]_vars => [OpNext]_op
<1> SUFFICES ASSUME [Next]_vars PROVE [OpNext]_op
  OBVIOUS
<1>1. CASE UNCHANGED vars
  BY <1>1 DEF vars
<1>2. CASE CloseDevice \/ RefreshState \/ ReadStep
  BY <1>2 DEF CloseDevice, RefreshState, ReadStep, ServeState, StateFails, StateArrives
<1>3. ASSUME NEW d \in Devices, OpenDevice(d) \/ AcknowledgeUnknown(d) \/ FlowStep(d)
      PROVE  UNCHANGED op
  BY <1>3 DEF OpenDevice, AcknowledgeUnknown, FlowStep, PostAnswered, PostLost,
              StaleReadDropped, WaitEnds
<1>4. ASSUME NEW d \in Devices, NEW o \in Ops,
             NEW kind \in {"readable", "writeonly", "action"}, Submit(d, o, kind)
      PROVE  OpNext
  <2>1. 1 \in 1 .. MaxParts /\ SendOp(o, 1)
    BY <1>4, ControlAssumption DEF Submit
  <2> QED BY <2>1 DEF OpNext
<1>5. ASSUME NEW o \in Ops, Proceeds(o) \/ \E n \in 1 .. MaxParts : ApiClientSends(o, n)
      PROVE  OpNext
  BY <1>5 DEF Proceeds, ApiClientSends, OpNext
<1> QED BY <1>1, <1>2, <1>3, <1>4, <1>5 DEF Next

(* The dialog sends and handles controls only as ControlOperation allows. *)
THEOREM PageUsesControls == Spec => OpSpec
  BY PageSends, PTL DEF Spec, OpSpec, Init

(* No part of a control is ever executed twice, for any number of          *)
(* requests, parts and attempts, whatever is lost on the way.              *)
THEOREM ControlsAreSentOnce == Spec => []SentAtMostOnce
  BY OpIsSound, OpInvImplies, PageUsesControls, PTL

(* A receipt tells the truth about the devices.                            *)
THEOREM ReceiptsAreTrue == Spec => []ReceiptIsTrue
  BY OpIsSound, OpInvImplies, PageUsesControls, PTL

----------------------------------------------------------------------------
(* What a control is known to have done stays true.                        *)
Kept(q) ==
  /\ op[q].pc # "idle" => op'[q].pc # "idle" /\ op'[q].parts = op[q].parts
  /\ op[q].answer = "success" => op'[q].answer = "success"
  /\ op[q].pc = "over" /\ op[q].done + op[q].transit = 0
       => op'[q].pc = "over" /\ op'[q].done + op'[q].transit = 0
  /\ op[q].done > 0 => op'[q].done > 0

(* Sending a control takes back nothing that is known of another. *)
LEMMA SendKeeps ==
  ASSUME OpInv, NEW o \in Ops, NEW n \in 1 .. MaxParts, SendOp(o, n), NEW q \in Ops
  PROVE  Kept(q)
<1>1. op[o] \in OpRecord /\ op \in [Ops -> OpRecord] /\ OpState(op[o])
  BY DEF OpInv, OpTypeOK
<1> QED BY <1>1 DEF SendOp, Kept, OpState, Untouched, OpRecord

(* A step of a control takes back nothing that is known of one. *)
LEMMA StepKeeps ==
  ASSUME OpInv, NEW o \in Ops, OpStep(o), NEW q \in Ops
  PROVE  Kept(q)
<1>1. op[o] \in OpRecord /\ op \in [Ops -> OpRecord] /\ OpState(op[o])
  BY DEF OpInv, OpTypeOK
<1>2. ASSUME NEW receipt, NEW answer, Ends(o, receipt, answer), op[o].pc # "over",
             op[o].answer = "none"
      PROVE  Kept(q)
  BY <1>1, <1>2 DEF Ends, Kept, OpRecord
<1>3. op[o].pc # "over" => op[o].answer = "none"
  BY <1>1 DEF OpState, OpRecord, OpPc, UnderWay
<1>4. CASE Served(o) \/ Validated(o) \/ Dispatched(o)
  BY <1>1, <1>3, <1>4 DEF Served, Validated, Dispatched, Kept, OpRecord
<1>5. CASE Refused(o)
  BY <1>2, <1>3, <1>5 DEF Refused
<1>6. CASE ConnectFails(o)
  BY <1>1, <1>2, <1>3, <1>6 DEF ConnectFails, Raises, Kept, OpRecord
<1>7. CASE Acknowledged(o)
  BY <1>1, <1>3, <1>7 DEF Acknowledged, Completed, Kept, OpRecord
<1>8. CASE RejectedByCloud(o) \/ NoAnswer(o) \/ OpDies(o)
  BY <1>2, <1>3, <1>8 DEF RejectedByCloud, NoAnswer, OpDies, Raises
<1>9. CASE CloudExecutes(o)
  BY <1>1, <1>9 DEF CloudExecutes, Kept, OpRecord
<1>10. CASE CloudRejects(o) \/ RequestLost(o)
  BY <1>1, <1>10 DEF CloudRejects, RequestLost, Kept, OpRecord
<1> QED BY <1>4, <1>5, <1>6, <1>7, <1>8, <1>9, <1>10 DEF OpStep, ServerStep, CloudStep

(* No step of the page or the controls takes back what is known of a       *)
(* control.                                                                *)
LEMMA NextKeeps ==
  ASSUME OpInv, [OpNext]_op, NEW q \in Ops
  PROVE  Kept(q)
<1>1. CASE UNCHANGED op
  BY <1>1 DEF Kept
<1> QED BY <1>1, SendKeeps, StepKeeps DEF OpNext

----------------------------------------------------------------------------
(* The page.  A flow knows a control of one part; until it has the answer  *)
(* the device has no unknown outcome, afterwards the control succeeded.    *)
(* The read a flow awaits is one of the dialog it was started in, and was  *)
(* not made before the answer.                                             *)
FlowState(d) ==
  /\ busy(d) => /\ flow[d].op \in Ops
                /\ op[flow[d].op].pc # "idle" /\ op[flow[d].op].parts = 1
  /\ flow[d].phase = "post" => ~Unresolved(d)
  /\ flow[d].phase \in {"read", "wait", "lastread"} => op[flow[d].op].answer = "success"
  /\ flow[d].shown => dialog = d
  /\ OwnRead(d) => flow[d].shown /\ read \in {"sent", "fresh"}

OutcomeState(d) ==
  LET o == outcome[d].op
  IN  /\ outcome[d].status \in {"failed", "success"} => o \in Ops
      /\ outcome[d].status = "failed" => op[o].pc = "over" /\ op[o].done + op[o].transit = 0
      /\ outcome[d].status = "success" => op[o].done > 0

PageTypeOK ==
  /\ dialog \in Devices \cup {None}
  /\ opens \in 0 .. MaxOpens
  /\ read \in ReadState
  /\ flow \in [Devices -> Flow]
  /\ outcome \in [Devices -> Outcome]
  /\ verified \in [Devices -> BOOLEAN]

PageInv == /\ OpInv
           /\ PageTypeOK
           /\ read # "none" => dialog \in Devices
           /\ \A d \in Devices : FlowState(d)
           /\ \A d \in Devices : OutcomeState(d)

(* The page starts with no flow and no outcome. *)
LEMMA PageInitInv == Init => PageInv
<1> SUFFICES ASSUME Init PROVE PageInv
  OBVIOUS
<1>1. NoFlow \in Flow /\ NoOutcome \in Outcome
  BY DialogAssumption DEF NoFlow, NoOutcome, Flow, Outcome, FlowPhase
<1>2. PageTypeOK
  BY <1>1, DialogAssumption DEF Init, PageTypeOK, ReadState
<1>3. ASSUME NEW d \in Devices PROVE FlowState(d) /\ OutcomeState(d)
  BY DEF Init, FlowState, OutcomeState, busy, OwnRead, NoFlow, NoOutcome
<1> QED BY <1>2, <1>3, OpInitInv DEF PageInv, Init

(* Controls proceed under a page that stands still. *)
LEMMA ControlsProceed ==
  ASSUME PageInv, [OpNext]_op, UNCHANGED page
  PROVE  PageInv'
<1>1. OpInv'
  BY OpNextInv DEF PageInv
<1>2. PageTypeOK'
  BY DEF PageInv, PageTypeOK, page
<1>3. ASSUME NEW d \in Devices PROVE FlowState(d)' /\ OutcomeState(d)'
  <2>1. FlowState(d)'
    <3>1. \A q \in Ops : Kept(q)
      BY NextKeeps DEF PageInv
    <3> QED BY <3>1 DEF PageInv, FlowState, busy, Unresolved, OwnRead, page, Kept
  <2>2. OutcomeState(d)'
    <3>1. \A q \in Ops : Kept(q)
      BY NextKeeps DEF PageInv
    <3> QED BY <3>1 DEF PageInv, OutcomeState, page, Kept
  <2> QED BY <2>1, <2>2
<1> QED BY <1>1, <1>2, <1>3 DEF PageInv, page

(* What the user does. *)
LEMMA DialogMoves ==
  ASSUME PageInv,
         CloseDevice \/ RefreshState \/ \E d \in Devices : OpenDevice(d) \/ AcknowledgeUnknown(d)
  PROVE  PageInv'
<1>1. OpInv' /\ UNCHANGED op
  BY DEF PageInv, OpInv, OpTypeOK, CloseDevice, RefreshState, OpenDevice, AcknowledgeUnknown
<1>2. ASSUME NEW e \in Devices
      PROVE  /\ Left[e] \in Flow /\ Superseded[e] \in Flow
             /\ Left[e].op = flow[e].op /\ Left[e].phase = flow[e].phase
             /\ ~Left[e].shown /\ ~Left[e].latest
             /\ Superseded[e].op = flow[e].op
             /\ Superseded[e].phase = flow[e].phase
             /\ Superseded[e].shown = flow[e].shown
             /\ ~Superseded[e].latest
  BY DEF PageInv, PageTypeOK, Left, Superseded, Flow
<1>3. CASE CloseDevice
  <2>1. PageTypeOK'
    BY <1>2, <1>3 DEF PageInv, PageTypeOK, CloseDevice, ReadState, Left
  <2>2. ASSUME NEW e \in Devices PROVE FlowState(e)' /\ OutcomeState(e)'
    BY <1>1, <1>2, <1>3 DEF PageInv, FlowState, OutcomeState, busy, Unresolved, OwnRead, CloseDevice
  <2> QED BY <1>1, <1>3, <2>1, <2>2 DEF PageInv, PageTypeOK, CloseDevice
<1>4. CASE RefreshState
  <2>1. PageTypeOK'
    BY <1>2, <1>4 DEF PageInv, PageTypeOK, RefreshState, ReadState, Superseded
  <2>2. ASSUME NEW e \in Devices PROVE FlowState(e)' /\ OutcomeState(e)'
    BY <1>1, <1>2, <1>4 DEF PageInv, FlowState, OutcomeState, busy, Unresolved, OwnRead, RefreshState
  <2> QED BY <1>1, <1>4, <2>1, <2>2 DEF PageInv, PageTypeOK, RefreshState
<1>5. ASSUME NEW d \in Devices, OpenDevice(d) PROVE PageInv'
  <2>1. PageTypeOK'
    <3>1. opens' \in 0 .. MaxOpens
      BY <1>5, DialogAssumption DEF PageInv, PageTypeOK, OpenDevice
    <3>2. flow' \in [Devices -> Flow]
      BY <1>2, <1>5 DEF OpenDevice, Left
    <3> QED BY <1>5, <3>1, <3>2 DEF PageInv, PageTypeOK, OpenDevice, ReadState
  <2>2. ASSUME NEW e \in Devices PROVE FlowState(e)' /\ OutcomeState(e)'
    BY <1>1, <1>2, <1>5 DEF PageInv, FlowState, OutcomeState, busy, Unresolved, OwnRead, OpenDevice
  <2> QED BY <1>1, <1>5, <2>1, <2>2 DEF PageInv, PageTypeOK, OpenDevice
<1>6. ASSUME NEW d \in Devices, AcknowledgeUnknown(d) PROVE PageInv'
  <2>1. PageTypeOK'
    BY <1>6 DEF PageInv, PageTypeOK, AcknowledgeUnknown, Outcome, NoOutcome
  <2>2. ASSUME NEW e \in Devices PROVE FlowState(e)' /\ OutcomeState(e)'
    <3>1. outcome'[e] = IF e = d THEN NoOutcome ELSE outcome[e]
      BY <1>6 DEF PageInv, PageTypeOK, AcknowledgeUnknown
    <3> QED BY <1>1, <1>6, <3>1
            DEF PageInv, FlowState, OutcomeState, busy, Unresolved, OwnRead, AcknowledgeUnknown, NoOutcome
  <2> QED BY <1>1, <1>6, <2>1, <2>2 DEF PageInv, PageTypeOK, AcknowledgeUnknown
<1> QED BY <1>3, <1>4, <1>5, <1>6

----------------------------------------------------------------------------
(* The flow of one device takes a step: what its new state must satisfy.   *)
FlowFits(d, f, out, o, r) ==
  /\ f.phase # "none" => /\ f.op \in Ops /\ o[f.op].pc # "idle" /\ o[f.op].parts = 1
  /\ f.phase = "post" => out.status # "unknown"
  /\ f.phase \in {"read", "wait", "lastread"} => o[f.op].answer = "success"
  /\ f.shown => dialog = d
  /\ f.phase \in {"read", "lastread"} /\ f.latest => f.shown /\ r \in {"sent", "fresh"}

OutcomeFits(out, o) ==
  /\ out.status \in {"failed", "success"} => out.op \in Ops
  /\ out.status = "failed" => o[out.op].pc = "over" /\ o[out.op].done + o[out.op].transit = 0
  /\ out.status = "success" => o[out.op].done > 0

(* A step of one device's flow and outcome keeps the invariant of all      *)
(* devices.                                                                *)
LEMMA FlowMoves ==
  ASSUME PageInv, OpInv', NEW d \in Devices, NEW f \in Flow, NEW out \in Outcome,
         \A q \in Ops : Kept(q),
         UNCHANGED <<dialog, opens>>,
         flow' \in {[flow EXCEPT ![d] = f], [Superseded EXCEPT ![d] = f]},
         outcome' = [outcome EXCEPT ![d] = out],
         read' \in ReadState,
         verified' \in [Devices -> BOOLEAN],
         read' = read \/ dialog = d,
         FlowFits(d, f, out, op', read'),
         OutcomeFits(out, op')
  PROVE  PageInv'
<1>1. flow \in [Devices -> Flow] /\ outcome \in [Devices -> Outcome]
  BY DEF PageInv, PageTypeOK
<1>2. ASSUME NEW e \in Devices
      PROVE  /\ Superseded[e] \in Flow
             /\ Superseded[e].op = flow[e].op
             /\ Superseded[e].phase = flow[e].phase
             /\ Superseded[e].shown = flow[e].shown
             /\ ~Superseded[e].latest
  BY <1>1 DEF Superseded, Flow
<1>3. Superseded \in [Devices -> Flow]
  BY <1>2 DEF Superseded
<1>4. PageTypeOK'
  BY <1>1, <1>3 DEF PageInv, PageTypeOK
<1>5. flow'[d] = f /\ outcome'[d] = out
  BY <1>1, <1>3
<1>6. ASSUME NEW e \in Devices, e # d
      PROVE  /\ outcome'[e] = outcome[e]
             /\ flow'[e].op = flow[e].op /\ flow'[e].phase = flow[e].phase
             /\ flow'[e].shown = flow[e].shown
             /\ flow'[e] = flow[e] \/ ~flow'[e].latest
  <2>1. flow'[e] \in {flow[e], Superseded[e]} /\ outcome'[e] = outcome[e]
    BY <1>1, <1>3, <1>6
  <2> QED BY <1>2, <2>1
<1>7. ASSUME NEW e \in Devices PROVE FlowState(e)' /\ OutcomeState(e)'
  <2>1. CASE e = d
    BY <1>5, <2>1 DEF FlowState, OutcomeState, FlowFits, OutcomeFits, busy, Unresolved, OwnRead
  <2>2. CASE e # d
    <3>1. FlowState(e) /\ OutcomeState(e)
      BY DEF PageInv
    <3>2. OutcomeState(e)'
      BY <1>6, <2>2, <3>1 DEF OutcomeState, Kept
    <3>3. OwnRead(e)' => flow'[e].shown /\ read' \in {"sent", "fresh"}
      BY <1>6, <2>2, <3>1 DEF FlowState, OwnRead
    <3>4. /\ busy(e)' => /\ flow'[e].op \in Ops
                         /\ op'[flow'[e].op].pc # "idle" /\ op'[flow'[e].op].parts = 1
          /\ flow'[e].phase = "post" => ~Unresolved(e)'
          /\ flow'[e].phase \in {"read", "wait", "lastread"}
               => op'[flow'[e].op].answer = "success"
          /\ flow'[e].shown => dialog' = e
      BY <1>6, <2>2, <3>1 DEF FlowState, busy, Unresolved, Kept
    <3> QED BY <3>2, <3>3, <3>4 DEF FlowState
  <2> QED BY <2>1, <2>2
<1>8. read' # "none" => dialog' \in Devices
  BY DEF PageInv
<1> QED BY <1>4, <1>7, <1>8 DEF PageInv

(* Submitting a control keeps the invariant. *)
LEMMA SubmitInv ==
  ASSUME PageInv, NEW d \in Devices, NEW o \in Ops,
         NEW kind \in {"readable", "writeonly", "action"}, Submit(d, o, kind)
  PROVE  PageInv'
<1> DEFINE f == [phase |-> "post", op |-> o, kind |-> kind,
                 shown |-> TRUE, latest |-> FALSE, attempt |-> 0]
           out == outcome[d]
<1>1. SendOp(o, 1) /\ 1 \in 1 .. MaxParts
  BY ControlAssumption DEF Submit
<1>2. OpInv' /\ \A q \in Ops : Kept(q)
  BY <1>1, SendInv, SendKeeps DEF PageInv
<1>3. f \in Flow /\ f.phase = "post" /\ f.op = o /\ f.shown /\ ~f.latest
  BY DialogAssumption DEF Flow, FlowPhase
<1>4. op'[o].pc # "idle" /\ op'[o].parts = 1
  BY <1>1 DEF SendOp, PageInv, OpInv, OpTypeOK, OpRecord
<1>5. out \in Outcome /\ outcome' = [outcome EXCEPT ![d] = out]
  BY DEF PageInv, PageTypeOK, Submit
<1>6. flow' = [flow EXCEPT ![d] = f]
  BY DEF Submit
<1>7. /\ UNCHANGED <<dialog, opens, read>> /\ dialog = d /\ out.status # "unknown"
      /\ verified' \in [Devices -> BOOLEAN] /\ read' \in ReadState
  BY DEF Submit, Unresolved, PageInv, PageTypeOK
<1>8. OutcomeFits(out, op')
  BY <1>2 DEF OutcomeFits, PageInv, OutcomeState, Kept
<1> HIDE DEF f, out
<1>9. FlowFits(d, f, out, op', read')
  BY <1>3, <1>4, <1>7 DEF FlowFits
<1> QED BY <1>2, <1>3, <1>5, <1>6, <1>7, <1>8, <1>9, FlowMoves

(* A device without a flow satisfies the flow's part of the invariant. *)
LEMMA NoFlowFits ==
  ASSUME NEW d, NEW out, NEW o, NEW r
  PROVE  NoFlow \in Flow /\ FlowFits(d, NoFlow, out, o, r)
  BY DialogAssumption DEF NoFlow, Flow, FlowPhase, FlowFits

(* A step that leaves the controls alone keeps what is known of them. *)
LEMMA StillControls == UNCHANGED op => \A q \in Ops : Kept(q)
  BY DEF Kept

(* A step that leaves the controls alone keeps their invariant. *)
LEMMA StillSound == PageInv /\ UNCHANGED op => OpInv'
  BY DEF PageInv, OpInv, OpTypeOK

(* A flow that ends, with an outcome of its control.                       *)
LEMMA FlowEndsInv ==
  ASSUME PageInv, NEW d \in Devices, busy(d), UNCHANGED <<op, dialog, opens>>,
         NEW s \in {"success", "failed", "unknown"},
         flow' \in {[flow EXCEPT ![d] = NoFlow], [Superseded EXCEPT ![d] = NoFlow]},
         Shows(d, s, flow[d].op),
         read' \in ReadState, verified' \in [Devices -> BOOLEAN],
         read' = read \/ dialog = d,
         s = "failed" => LET o == flow[d].op
                         IN  op[o].pc = "over" /\ op[o].done + op[o].transit = 0,
         s = "success" => op[flow[d].op].done > 0
  PROVE  PageInv'
<1> DEFINE out == [status |-> s, op |-> flow[d].op]
<1>1. flow[d].op \in Ops
  BY DEF PageInv, FlowState
<1>2. out \in Outcome /\ outcome' = [outcome EXCEPT ![d] = out]
  BY <1>1 DEF Outcome, Shows
<1>3. OutcomeFits(out, op')
  BY <1>1 DEF OutcomeFits
<1> HIDE DEF out
<1> QED BY <1>2, <1>3, NoFlowFits, StillControls, StillSound, FlowMoves

(* What is known when the server has answered. *)
LEMMA AnswerMeans ==
  ASSUME PageInv, NEW d \in Devices, busy(d), op[flow[d].op].answer # "none"
  PROVE  LET o == flow[d].op
         IN  /\ op[o].answer \in {"success", "failed", "unknown"}
             /\ op[o].answer = "failed" => op[o].pc = "over" /\ op[o].done + op[o].transit = 0
             /\ op[o].answer = "success" => op[o].done > 0
<1> DEFINE o == flow[d].op
<1>1. o \in Ops /\ op[o].parts = 1
  BY DEF PageInv, FlowState
<1>2. op[o] \in OpRecord /\ OpState(op[o])
  BY <1>1 DEF PageInv, OpInv, OpTypeOK
<1> HIDE DEF o
<1>3. op[o].pc = "over" /\ Truthful(op[o], op[o].answer)
  BY <1>2 DEF OpState, OpRecord, OpPc, UnderWay, o
<1>4. /\ op[o].answer \in {"success", "failed", "unknown"}
      /\ op[o].answer = "failed" => op[o].pc = "over" /\ op[o].done + op[o].transit = 0
      /\ op[o].answer = "success" => op[o].done > 0
  BY <1>1, <1>2, <1>3 DEF Truthful, OpRecord, Answer, Receipt, o
<1> QED BY <1>4 DEF o

(* Settling on a truthful outcome keeps the invariant. *)
LEMMA SettlesInv ==
  ASSUME PageInv, NEW d \in Devices, busy(d), UNCHANGED <<op, dialog, opens>>,
         NEW s \in {"success", "failed", "unknown"}, Settles(d, s),
         s = "failed" => LET o == flow[d].op
                         IN  op[o].pc = "over" /\ op[o].done + op[o].transit = 0,
         s = "success" => op[flow[d].op].done > 0
  PROVE  PageInv'
<1>1. flow' \in {[flow EXCEPT ![d] = NoFlow], [Superseded EXCEPT ![d] = NoFlow]}
  BY DEF Settles, FlowEnds
<1>2. /\ Shows(d, s, flow[d].op) /\ read' \in ReadState
      /\ verified' \in [Devices -> BOOLEAN]
      /\ read' = read \/ dialog = d
  BY DEF Settles, PageInv, PageTypeOK, ReadState, FlowState
<1> QED BY <1>1, <1>2, FlowEndsInv

(* The answer to a control, or its loss, keeps the invariant. *)
LEMMA PostInv ==
  ASSUME PageInv, NEW d \in Devices, PostAnswered(d) \/ PostLost(d)
  PROVE  PageInv'
<1>1. /\ busy(d) /\ flow[d].phase = "post" /\ UNCHANGED <<op, dialog, opens>>
      /\ flow[d].op \in Ops
  BY DEF PostAnswered, PostLost, busy, PageInv, FlowState
<1>2. CASE PostLost(d)
  BY <1>1, <1>2, SettlesInv DEF PostLost
<1>3. CASE PostAnswered(d)
  <2> DEFINE s == op[flow[d].op].answer
  <2>1. /\ s \in {"success", "failed", "unknown"}
        /\ s = "failed" => LET o == flow[d].op
                           IN  op[o].pc = "over" /\ op[o].done + op[o].transit = 0
        /\ s = "success" => op[flow[d].op].done > 0
    BY <1>1, <1>3, AnswerMeans DEF PostAnswered
  <2>2. CASE s = "success" /\ flow[d].kind # "action"
    <3>1. ReadBack(d)
      BY <1>3, <2>2 DEF PostAnswered
    <3>2. CASE flow[d].shown
      <4> DEFINE phase == IF flow[d].kind = "readable" THEN "read" ELSE "lastread"
                 f == [flow[d] EXCEPT !.phase = phase, !.latest = TRUE]
                 out == [status |-> "unknown", op |-> flow[d].op]
      <4>1. flow[d] \in Flow /\ flow \in [Devices -> Flow]
        BY DEF PageInv, PageTypeOK
      <4>2. f \in Flow /\ out \in Outcome
        BY <1>1, <4>1 DEF Flow, FlowPhase, Outcome
      <4>3. flow' = [Superseded EXCEPT ![d] = f]
        <5>1. flow' = [Superseded EXCEPT ![d].phase = phase, ![d].latest = TRUE]
          BY <3>1, <3>2 DEF ReadBack, FlowReads
        <5>2. [Superseded[d] EXCEPT !.phase = phase, !.latest = TRUE] = f
          BY <4>1 DEF Superseded, Flow
        <5> QED BY <5>1, <5>2
      <4>4. /\ outcome' = [outcome EXCEPT ![d] = out] /\ read' = "sent"
            /\ verified' \in [Devices -> BOOLEAN] /\ "sent" \in ReadState
        BY <3>1, <3>2 DEF ReadBack, FlowReads, Shows, PageInv, PageTypeOK, ReadState
      <4>5. f.op = flow[d].op /\ f.phase \in {"read", "lastread"} /\ f.shown
        BY <3>2, <4>1 DEF Flow
      <4>6. op[flow[d].op].pc # "idle" /\ op[flow[d].op].parts = 1 /\ dialog = d
        BY <1>1, <3>2 DEF PageInv, FlowState
      <4>7. OutcomeFits(out, op')
        BY DEF OutcomeFits
      <4> HIDE DEF f, out
      <4>8. FlowFits(d, f, out, op', read')
        BY <1>1, <2>2, <4>4, <4>5, <4>6 DEF FlowFits
      <4> QED BY <1>1, <4>2, <4>3, <4>4, <4>6, <4>7, <4>8, StillControls, StillSound, FlowMoves
    <3>3. CASE ~flow[d].shown
      <4>1. /\ flow' = [flow EXCEPT ![d] = NoFlow] /\ read' = read
            /\ Shows(d, "unknown", flow[d].op) /\ verified' = verified
        BY <3>1, <3>3 DEF ReadBack, FlowEnds
      <4>2. read' \in ReadState /\ verified' \in [Devices -> BOOLEAN]
        BY <4>1 DEF PageInv, PageTypeOK
      <4> QED BY <1>1, <4>1, <4>2, FlowEndsInv
    <3> QED BY <3>2, <3>3
  <2>3. CASE ~(s = "success" /\ flow[d].kind # "action")
    <3>1. Settles(d, s)
      BY <1>3, <2>3 DEF PostAnswered
    <3> HIDE DEF s
    <3> QED BY <1>1, <2>1, <3>1, SettlesInv DEF s
  <2> QED BY <2>2, <2>3
<1> QED BY <1>2, <1>3

(* A flow asks for the state of its own dialog. *)
LEMMA FlowReadsInv ==
  ASSUME PageInv, NEW d \in Devices, flow[d].phase = "wait", flow[d].shown,
         UNCHANGED <<op, dialog, opens, outcome, verified>>, FlowReads(d, "read")
  PROVE  PageInv'
<1> DEFINE f == [flow[d] EXCEPT !.phase = "read", !.latest = TRUE]
           out == outcome[d]
<1>1. flow[d] \in Flow /\ out \in Outcome /\ outcome' = [outcome EXCEPT ![d] = out]
  BY DEF PageInv, PageTypeOK
<1>2. f \in Flow
  BY <1>1 DEF Flow, FlowPhase
<1>3. flow' = [Superseded EXCEPT ![d] = f]
  <2>1. flow' = [Superseded EXCEPT ![d].phase = "read", ![d].latest = TRUE]
    BY DEF FlowReads
  <2>2. [Superseded[d] EXCEPT !.phase = "read", !.latest = TRUE] = f
    BY <1>1 DEF Superseded, Flow
  <2> QED BY <2>1, <2>2
<1>4. /\ read' = "sent" /\ "sent" \in ReadState /\ verified' \in [Devices -> BOOLEAN]
  BY DEF FlowReads, ReadState, PageInv, PageTypeOK
<1>5. f.op = flow[d].op /\ f.phase = "read" /\ f.shown
  BY <1>1 DEF Flow
<1>6. /\ flow[d].op \in Ops /\ op[flow[d].op].pc # "idle" /\ op[flow[d].op].parts = 1
      /\ op[flow[d].op].answer = "success" /\ dialog = d
  BY DEF PageInv, FlowState, busy
<1>7. OutcomeFits(out, op')
  BY DEF OutcomeFits, PageInv, OutcomeState
<1> HIDE DEF f, out
<1>8. FlowFits(d, f, out, op', read')
  BY <1>4, <1>5, <1>6 DEF FlowFits
<1> QED BY <1>1, <1>2, <1>3, <1>4, <1>6, <1>7, <1>8, StillControls, StillSound, FlowMoves

(* Giving up a read-back keeps the invariant: unknown is never untrue. *)
LEMMA UnconfirmedInv ==
  ASSUME PageInv, NEW d \in Devices, busy(d), UNCHANGED <<op, dialog, opens>>,
         Unconfirmed(d), read' \in ReadState, verified' \in [Devices -> BOOLEAN],
         read' = read \/ dialog = d
  PROVE  PageInv'
  BY FlowEndsInv DEF Unconfirmed, FlowEnds

(* Every step of a flow keeps the invariant. *)
LEMMA FlowStepInv ==
  ASSUME PageInv, NEW d \in Devices, FlowStep(d)
  PROVE  PageInv'
<1>1. read \in ReadState /\ verified \in [Devices -> BOOLEAN]
  BY DEF PageInv, PageTypeOK
<1>2. CASE StaleReadDropped(d)
  BY <1>1, <1>2, UnconfirmedInv DEF StaleReadDropped, busy
<1>3. CASE WaitEnds(d)
  <2>1. CASE flow[d].shown
    BY <1>3, <2>1, FlowReadsInv DEF WaitEnds
  <2>2. CASE ~flow[d].shown
    BY <1>1, <1>3, <2>2, UnconfirmedInv DEF WaitEnds, busy
  <2> QED BY <2>1, <2>2
<1> QED BY <1>2, <1>3, PostInv DEF FlowStep

(* A state read served by the server keeps the invariant. *)
LEMMA ServeInv ==
  ASSUME PageInv, ServeState
  PROVE  PageInv'
<1>1. OpInv' /\ UNCHANGED <<op, dialog, flow, outcome>>
  BY StillSound DEF ServeState
<1>2. PageTypeOK'
  BY DEF PageInv, PageTypeOK, ServeState, ReadState
<1>3. ASSUME NEW d \in Devices PROVE FlowState(d)' /\ OutcomeState(d)'
  <2>1. FlowState(d) /\ OutcomeState(d)
    BY DEF PageInv
  <2>2. OwnRead(d) => dialog = d /\ flow[dialog].phase # "post"
    BY <2>1 DEF FlowState, OwnRead
  <2>3. OwnRead(d)' => flow'[d].shown /\ read' \in {"sent", "fresh"}
    BY <1>1, <2>1, <2>2 DEF FlowState, OwnRead, ServeState
  <2> QED BY <1>1, <2>1, <2>3 DEF FlowState, OutcomeState, busy, Unresolved
<1> QED BY <1>1, <1>2, <1>3 DEF PageInv, ServeState

(* An answer about another dialog's device changes no flow. *)
LEMMA ReadOver ==
  ASSUME PageInv, UNCHANGED <<op, dialog, opens, flow, outcome>>, read' = "none",
         verified' \in [Devices -> BOOLEAN], dialog \in Devices => ~OwnRead(dialog)
  PROVE  PageInv'
<1>1. OpInv'
  BY StillSound
<1>2. PageTypeOK'
  BY DEF PageInv, PageTypeOK, ReadState
<1>3. ASSUME NEW d \in Devices PROVE FlowState(d)' /\ OutcomeState(d)'
  <2>1. FlowState(d) /\ OutcomeState(d)
    BY DEF PageInv
  <2>2. ~OwnRead(d)
    BY <2>1 DEF FlowState
  <2>3. ~OwnRead(d)'
    BY <2>2 DEF OwnRead
  <2> QED BY <2>1, <2>3 DEF FlowState, OutcomeState, busy, Unresolved
<1> QED BY <1>1, <1>2, <1>3 DEF PageInv

(* A dialog that is open shows a device while its state is read.           *)
LEMMA StateFailsInv ==
  ASSUME PageInv, StateFails
  PROVE  PageInv'
<1> DEFINE d == dialog
<1>1. /\ read' = "none" /\ read' \in ReadState /\ d \in Devices
      /\ UNCHANGED <<op, dialog, opens, verified>> /\ verified' \in [Devices -> BOOLEAN]
  BY DEF StateFails, ReadState, PageInv, PageTypeOK
<1>2. CASE OwnRead(d)
  <2>1. FlowEnds(d) /\ Shows(d, "unknown", flow[d].op)
    BY <1>2 DEF StateFails
  <2>2. busy(d)
    BY <1>2 DEF OwnRead, busy
  <2> QED BY <1>1, <2>1, <2>2, UnconfirmedInv DEF Unconfirmed
<1>3. CASE ~OwnRead(d)
  <2>1. UNCHANGED <<flow, outcome>>
    BY <1>3 DEF StateFails
  <2> QED BY <1>1, <1>3, <2>1, ReadOver
<1> QED BY <1>2, <1>3

(* A state read that arrives keeps the invariant: a matching value         *)
(* confirms an executed write.                                             *)
LEMMA StateArrivesInv ==
  ASSUME PageInv, NEW m \in {"yes", "no", "error"}, StateArrives(m)
  PROVE  PageInv'
<1> DEFINE d == dialog
<1>1. /\ read' = "none" /\ read' \in ReadState /\ d \in Devices
      /\ UNCHANGED <<op, dialog, opens>>
      /\ flow \in [Devices -> Flow] /\ outcome \in [Devices -> Outcome]
  BY DEF StateArrives, ReadState, PageInv, PageTypeOK
<1>2. verified' \in [Devices -> BOOLEAN]
  <2>1. verified \in [Devices -> BOOLEAN]
    BY DEF PageInv, PageTypeOK
  <2>2. \/ verified' = [verified EXCEPT ![d] = m # "yes"]
        \/ verified' = [verified EXCEPT ![d] = verified[d] \/ Unresolved(d)]
    BY DEF StateArrives
  <2>3. (m # "yes") \in BOOLEAN /\ (verified[d] \/ Unresolved(d)) \in BOOLEAN
    OBVIOUS
  <2> QED BY <2>1, <2>2, <2>3
<1>3. CASE ~OwnRead(d)
  <2>1. UNCHANGED <<flow, outcome>>
    BY <1>3 DEF StateArrives
  <2> QED BY <1>1, <1>2, <1>3, <2>1, ReadOver
<1>4. CASE OwnRead(d) /\ flow[d].phase = "lastread"
  <2>1. FlowEnds(d) /\ outcome' = [outcome EXCEPT ![d] = outcome[d]]
    BY <1>1, <1>4 DEF StateArrives
  <2>2. OutcomeFits(outcome[d], op')
    BY <1>1 DEF OutcomeFits, PageInv, OutcomeState
  <2>3. outcome[d] \in Outcome
    BY <1>1
  <2> QED BY <1>1, <1>2, <2>1, <2>2, <2>3, NoFlowFits, StillControls, StillSound, FlowMoves
          DEF FlowEnds
<1>5. CASE OwnRead(d) /\ flow[d].phase = "read"
  <2>1. Compared(d, m)
    BY <1>5 DEF StateArrives
  <2>2. /\ busy(d) /\ flow[d].op \in Ops
        /\ op[flow[d].op].pc # "idle" /\ op[flow[d].op].parts = 1
        /\ op[flow[d].op].answer = "success"
        /\ flow[d].shown => dialog = d
    BY <1>1, <1>5 DEF PageInv, FlowState, busy
  <2>3. CASE m = "yes"
    <3>1. FlowEnds(d) /\ Shows(d, "success", flow[d].op)
      BY <2>1, <2>3 DEF Compared
    <3>2. op[flow[d].op].done > 0
      BY <1>1, <2>2, AnswerMeans
    <3> QED BY <1>1, <1>2, <2>2, <3>1, <3>2, FlowEndsInv DEF FlowEnds
  <2>4. CASE m = "no" /\ flow[d].attempt + 1 < MaxReads
    <3> DEFINE f == [flow[d] EXCEPT !.phase = "wait", !.attempt = @ + 1, !.latest = FALSE]
               out == outcome[d]
    <3>1. flow' = [flow EXCEPT ![d] = f] /\ outcome' = [outcome EXCEPT ![d] = out]
      BY <1>1, <2>1, <2>4 DEF Compared
    <3>2. flow[d].attempt + 1 \in 0 .. MaxReads /\ flow[d] \in Flow
      BY <1>1, <2>4, DialogAssumption DEF Flow
    <3>3. f \in Flow /\ f.phase = "wait" /\ f.op = flow[d].op /\ f.shown = flow[d].shown
      BY <3>2 DEF Flow, FlowPhase
    <3>4. OutcomeFits(out, op') /\ out \in Outcome
      BY <1>1 DEF OutcomeFits, PageInv, OutcomeState
    <3> HIDE DEF f, out
    <3>5. FlowFits(d, f, out, op', read')
      BY <1>1, <2>2, <3>3 DEF FlowFits
    <3> HIDE DEF d
    <3> QED BY <1>1, <1>2, <3>1, <3>3, <3>4, <3>5, StillControls, StillSound, FlowMoves DEF d
  <2>5. CASE m # "yes" /\ ~(m = "no" /\ flow[d].attempt + 1 < MaxReads)
    <3>1. Unconfirmed(d)
      BY <2>1, <2>5 DEF Compared
    <3> QED BY <1>1, <1>2, <2>2, <3>1, UnconfirmedInv
  <2> QED BY <2>3, <2>4, <2>5
<1> QED BY <1>3, <1>4, <1>5 DEF OwnRead

(* Every step keeps the invariant of the page. *)
LEMMA PageNextInv == PageInv /\ [Next]_vars => PageInv'
<1> SUFFICES ASSUME PageInv, [Next]_vars PROVE PageInv'
  OBVIOUS
<1>1. CASE UNCHANGED vars
  BY <1>1, ControlsProceed DEF vars
<1>2. CASE CloseDevice \/ RefreshState
  BY <1>2, DialogMoves
<1>3. CASE ReadStep
  BY <1>3, ServeInv, StateFailsInv, StateArrivesInv DEF ReadStep
<1>4. ASSUME NEW d \in Devices, OpenDevice(d) \/ AcknowledgeUnknown(d) \/ FlowStep(d)
      PROVE  PageInv'
  BY <1>4, DialogMoves, FlowStepInv
<1>5. ASSUME NEW d \in Devices, NEW o \in Ops,
             NEW kind \in {"readable", "writeonly", "action"}, Submit(d, o, kind)
      PROVE  PageInv'
  BY <1>5, SubmitInv
<1>6. ASSUME NEW o \in Ops, Proceeds(o) \/ \E n \in 1 .. MaxParts : ApiClientSends(o, n)
      PROVE  PageInv'
  BY <1>6, ControlsProceed DEF Proceeds, ApiClientSends, OpNext
<1> QED BY <1>1, <1>2, <1>3, <1>4, <1>5, <1>6 DEF Next

(* The invariant of the page and of its controls. *)
LEMMA PageIsSound == Spec => []PageInv
  BY PageInitInv, PageNextInv, PTL DEF Spec

(* Every variable keeps its type. *)
THEOREM PageTypeCorrect == Spec => []TypeOK
<1>1. PageInv => TypeOK
  BY DEF PageInv, OpInv, PageTypeOK, TypeOK
<1> QED BY <1>1, PageIsSound, PTL

(* The page never lies about a control, for any number of devices, dialogs *)
(* and controls: "failed" is shown only for a control that has not been    *)
(* and will not be executed, "success" only for one that has been.         *)
THEOREM OutcomesAreTrue == Spec => []ShownOutcomeIsTrue
<1>1. PageInv => ShownOutcomeIsTrue
  BY DEF PageInv, OutcomeState, ShownOutcomeIsTrue
<1> QED BY <1>1, PageIsSound, PTL

(* A step that turns unknown into success is the arrival of a fresh read   *)
(* in the dialog of the flow.                                              *)
LEMMA ConfirmedStep ==
  ASSUME PageInv, [Next]_vars, NEW e \in Devices,
         outcome[e].status = "unknown", outcome'[e].status = "success"
  PROVE  dialog = e /\ flow[e].shown /\ read = "fresh"
<1>1. outcome' # outcome /\ outcome \in [Devices -> Outcome]
  BY DEF PageInv, PageTypeOK
<1>2. ASSUME NEW d \in Devices, PostAnswered(d) \/ PostLost(d) PROVE FALSE
  <2>1. flow[d].phase = "post" /\ ~Unresolved(d)
    BY <1>2 DEF PostAnswered, PostLost, PageInv, FlowState
  <2>2. e # d
    BY <2>1 DEF Unresolved
  <2>3. outcome'[e] = outcome[e]
    BY <1>1, <1>2, <2>2 DEF PostAnswered, PostLost, ReadBack, Settles, Shows
  <2> QED BY <2>3
<1>3. ASSUME NEW d \in Devices, Unconfirmed(d) PROVE FALSE
  BY <1>1, <1>3 DEF Unconfirmed, Shows
<1>4. ASSUME NEW m \in {"yes", "no", "error"}, StateArrives(m)
      PROVE  dialog = e /\ flow[e].shown /\ read = "fresh"
  <2> DEFINE d == dialog
  <2>1. d \in Devices /\ read \in {"stale", "fresh"}
    BY <1>4 DEF StateArrives, PageInv
  <2>2. OwnRead(d) /\ Compared(d, m)
    BY <1>1, <1>4 DEF StateArrives
  <2>3. m = "yes" /\ Shows(d, "success", flow[d].op)
    BY <1>1, <1>3, <2>1, <2>2 DEF Compared
  <2>4. e = d
    BY <1>1, <2>3 DEF Shows
  <2> QED BY <2>1, <2>2, <2>4 DEF PageInv, FlowState
<1>5. CASE StateFails
  <2>1. dialog \in Devices
    BY <1>5 DEF StateFails, PageInv
  <2> QED BY <1>1, <1>5, <2>1 DEF StateFails, Shows
<1>6. ASSUME NEW d \in Devices, AcknowledgeUnknown(d) PROVE FALSE
  BY <1>1, <1>6 DEF AcknowledgeUnknown, NoOutcome
<1>7. ASSUME NEW d \in Devices, FlowStep(d) PROVE FALSE
  BY <1>1, <1>2, <1>3, <1>7 DEF FlowStep, StaleReadDropped, WaitEnds
<1>8. ASSUME CloseDevice \/ RefreshState \/ ServeState
             \/ \E d \in Devices : OpenDevice(d)
      PROVE  FALSE
  BY <1>1, <1>8 DEF CloseDevice, RefreshState, ServeState, OpenDevice
<1>9. ASSUME NEW d \in Devices, NEW o \in Ops,
             NEW kind \in {"readable", "writeonly", "action"}, Submit(d, o, kind)
      PROVE  FALSE
  BY <1>1, <1>9 DEF Submit
<1>10. ASSUME NEW o \in Ops, Proceeds(o) \/ \E n \in 1 .. MaxParts : ApiClientSends(o, n)
       PROVE  FALSE
  BY <1>1, <1>10 DEF Proceeds, ApiClientSends, page
<1> QED BY <1>1, <1>4, <1>5, <1>6, <1>7, <1>8, <1>9, <1>10 DEF Next, ReadStep, vars, page

(* A write is shown as confirmed only by a read of the open dialog it was  *)
(* made in, for any number of devices, dialogs and reads.                  *)
THEOREM WritesAreConfirmedInTheirDialog == Spec => ConfirmedInItsDialog
<1>1. ASSUME PageInv, [Next]_vars
      PROVE  [\A d \in Devices :
                outcome[d].status = "unknown" /\ outcome'[d].status = "success"
                  => dialog = d /\ flow[d].shown /\ read = "fresh"]_vars
  BY <1>1, ConfirmedStep
<1> QED BY <1>1, PageIsSound, PTL DEF Spec, ConfirmedInItsDialog

=============================================================================

---------------------------- MODULE NativeHostProofs ----------------------------
(***************************************************************************)
(* Theorems about the native host with all its threads.                    *)
(*                                                                         *)
(* TypeCorrect and FlowImplemented hold for every value of the constants.  *)
(* The second is a step refinement: FlowCalls goes through the host's      *)
(* actions and names the call each makes on the permit window.             *)
(*                                                                         *)
(* RecoveryInvariant needs three facts that no single thread establishes.  *)
(* The capture thread schedules nothing but a recovery update until one of *)
(* the current epoch has entered the bulk queue (CaptureInv); all that is  *)
(* queued, batched or written is of the epoch being served, because a      *)
(* viewer connects to a host that holds nothing of another (ConnectInv,    *)
(* BulkInv); and while the viewer has got nothing, its recovery update     *)
(* leads the batch or the channel (LeadInv).  The last one is what makes   *)
(* the invariant inductive: the writer hands out what leads.               *)
(***************************************************************************)
EXTENDS NativeHost, SequenceTheorems, TLAPS

\* The places at which cap.plan is an update of this iteration: a sequence was allocated for
\* it, and its refusal or its emission is still to come.
Carrying == {"drop", "admit", "fence", "prelude", "raw", "cancel", "again", "abandon", "begin",
             "video", "mixed", "rejected"}

\* What TypeOK says of cap, named.
CapRec == [at : Places, back : {"pump", "encode"}, ep : Epoch, was_connected : BOOLEAN,
           waiting : BOOLEAN, suppress : BOOLEAN, invalid : BOOLEAN, last : 0..MaxSeq,
           plans : Seq(Plan), plan : Plan]

\* The capture thread discards only while plans are left, and every update it holds has a real
\* sequence (0 stands for none).
CapTyped ==
  /\ cap \in CapRec
  /\ Len(cap.plans) <= MAX_PENDING_LOGICAL_FRAMES
  /\ cap.at = "discard" => cap.plans # <<>>
  /\ cap.at \in Carrying => cap.plan.seq \in Sequence
  /\ \A i \in 1..Len(cap.plans) : cap.plans[i].seq \in Sequence

QueuesTyped ==
  /\ videoQ \in Seq(BulkMsg) /\ Len(videoQ) <= QUEUE_DEPTH
  /\ sparseQ \in Seq(RectMsg) /\ Len(sparseQ) <= SPARSE_QUEUE_DEPTH
  /\ gates \in [Sequence -> {"none", "pending", "yes", "no"}]

\* What TypeOK says of the two writers, named.
SenderRec == [at : {"poll", "join", "accept", "publish", "header", "recv", "handle"},
              client : Epoch, batch : Seq(BulkMsg)]
SparseRec == [at : {"poll", "accept", "recv"}, seen : Epoch, client : 0..Viewers, epoch : Epoch]

ThreadsTyped ==
  /\ connected \in BOOLEAN /\ sparse_connected \in BOOLEAN /\ session_epoch \in Epoch
  /\ sender \in SenderRec
  /\ sparse \in SparseRec
  /\ ends \subseteq Epoch

WorldTyped ==
  /\ live \subseteq Epoch
  /\ viewers \in [Viewer -> {"away", "waiting", "header", "open", "closed"}]
  /\ backlog \in Seq(Viewer) /\ sparseBacklog \in Seq(Viewer)
  /\ who \in [Epoch -> 0..Viewers]

HistoryTyped ==
  /\ recovered \subseteq Epoch
  /\ got \in [Epoch -> Seq(BulkMsg)]
  /\ gotSparse \subseteq Viewer \X RectMsg
  /\ work \in Work

\* The inductive form of TypeOK: what the threads hold is typed, and in addition cap.plan and
\* cap.plans hold allocated sequences where the code uses them as indices.
TInv ==
  /\ Flow!TypeOK
  /\ CapTyped
  /\ QueuesTyped
  /\ ThreadsTyped
  /\ WorldTyped
  /\ HistoryTyped

\* The strengthening says what TypeOK says.
LEMMA TInvTypes == TInv => TypeOK
  BY DEF TInv, TypeOK, CapTyped, CapRec, QueuesTyped, ThreadsTyped, SenderRec, SparseRec,
         WorldTyped, HistoryTyped

\* What a leg of an update can be.
LegNames == {"video", "raw", "fence", "prelude"}

\* The history variable plan names an epoch and legs for each sequence.
PlanTyped == plan \in [Sequence -> [ep : Epoch, legs : SUBSET LegNames]]

\* An update of the epoch being served; anything but a recovery update was
\* scheduled after the recovery update of that epoch entered the bulk queue.
Based(p) ==
  /\ p.ep = session_epoch /\ p.seq <= frame_seq
  /\ plan[p.seq].ep = p.ep
  /\ p.route # "Recovery" => p.ep \in recovered

\* Recovery as the capture thread sees it: all it carries or holds is of the epoch being
\* served, nothing but a recovery update is carried before that epoch has one in the bulk
\* queue, and without a connect edge it still waits for one.
CaptureInv ==
  /\ cap.at = "acquire" => cap.ep = session_epoch
  /\ cap.at \in Carrying => Based(cap.plan)
  /\ cap.at \in {"admit", "fence", "prelude", "raw", "again", "mixed"} =>
       cap.plan.route # "Recovery"
  /\ \A i \in 1..Len(cap.plans) : Based(cap.plans[i])
  /\ ~cap.waiting => session_epoch \in recovered
  /\ ~cap.was_connected => cap.waiting /\ cap.at \in {"top", "discard"}

\* Nothing of an earlier viewer is left in the capture thread or the queues.
Quiet ==
  /\ ~connected /\ ~cap.was_connected /\ cap.at = "top" /\ cap.plans = <<>>
  /\ videoQ = <<>> /\ sparseQ = <<>>

\* One viewer after another: a connection that waits in the kernel, or is being accepted, finds
\* nothing left of an earlier one; the epoch a client is served under is the one published;
\* none is newer than the window's.
ConnectInv ==
  /\ backlog # <<>> => Quiet /\ sender.client = 0 /\ Len(backlog) = 1
  /\ sender.at \in {"publish", "header"} => Quiet /\ sender.client # 0
  /\ sender.at \in {"accept", "publish", "header"} => sender.batch = <<>>
  /\ sender.client # 0 /\ sender.at # "publish" => session_epoch = sender.client
  /\ session_epoch <= epoch /\ sender.client <= epoch

\* A bulk message of the epoch being served; a recovery update has one leg, hence no gate.
Message(m) ==
  /\ m.seq \in 1..frame_seq
  /\ plan[m.seq].ep = session_epoch
  /\ m.kind = "Recovery" => ~m.gated

\* Every bulk message queued, batched or written is of the epoch of its reader, and what a
\* viewer got starts with a recovery update.
BulkInv ==
  /\ \A i \in 1..Len(videoQ) : videoQ[i].type # "line" => Message(videoQ[i])
  /\ \A i \in 1..Len(sender.batch) : sender.batch[i].type # "line" /\ Message(sender.batch[i])
  /\ \A e \in Epoch : \A i \in 1..Len(got[e]) :
       got[e][i].seq \in 1..frame_seq /\ plan[got[e][i].seq].ep = e
  /\ \A e \in Epoch : got[e] # <<>> => e <= epoch /\ got[e][1].kind = "Recovery"
  /\ \A e \in recovered : e <= epoch

\* The recovery update leads what the viewer being served has yet to receive.
RecoveryLeads ==
  IF sender.batch # <<>> THEN sender.batch[1].kind = "Recovery"
  ELSE /\ \A j \in 1..Len(videoQ) :
            (videoQ[j].type # "line" /\ \A k \in 1..j - 1 : videoQ[k].type = "line")
              => videoQ[j].kind = "Recovery"
       /\ sender.client \in recovered => \E j \in 1..Len(videoQ) : videoQ[j].type # "line"

\* As long as the viewer being served has got nothing, what comes next is its recovery update.
LeadInv ==
  sender.client # 0 /\ sender.client \in live /\ got[sender.client] = <<>> => RecoveryLeads

\* Overlays in the sparse queue are of an epoch whose recovery update was queued.
SparseInv ==
  \A i \in 1..Len(sparseQ) : sparseQ[i].seq <= frame_seq /\ plan[sparseQ[i].seq].ep \in recovered

\* The inductive form of RecoveryInv.
RInv ==
  /\ PlanTyped
  /\ CaptureInv
  /\ ConnectInv
  /\ BulkInv
  /\ LeadInv
  /\ SparseInv

\* The steps of the permit window keep its types (as VisualFlowProofs shows of VisualFlow
\* itself; an instance has to show it under its own names).
LEMMA FlowTypeStep == Flow!TypeOK /\ [Flow!Next]_flow => Flow!TypeOK'
<1> SUFFICES ASSUME Flow!TypeOK, [Flow!Next]_flow PROVE Flow!TypeOK'
  OBVIOUS
<1> USE HostAssumption DEF Flow!TypeOK, Flow!Epoch, Flow!Sequence, Flow!Token, Flow!Permit
<1>0. ASSUME NEW e, Flow!Disconnect(e)
      PROVE  /\ epoch' \in Flow!Epoch
             /\ DOMAIN entries' \subseteq Flow!Sequence
             /\ entries' \in [DOMAIN entries' -> Flow!Permit]
             /\ acked' \subseteq Flow!Sequence
  <2>1. CASE e = epoch
    BY <1>0, <2>1 DEF Flow!Disconnect, Flow!Reset
  <2>2. CASE e # epoch
    BY <1>0, <2>2 DEF Flow!Disconnect, Flow!flowVars
  <2> QED
    BY <2>1, <2>2
<1>1. CASE Flow!AcceptViewer
  BY <1>1 DEF Flow!AcceptViewer, Flow!Reset
<1>2. ASSUME NEW e \in Flow!Epoch, Flow!RetireViewer(e) PROVE Flow!TypeOK'
  BY <1>0, <1>2 DEF Flow!RetireViewer
<1>3. ASSUME NEW e \in Flow!Epoch, Flow!ReserveFrame(e) PROVE Flow!TypeOK'
  BY <1>3 DEF Flow!ReserveFrame, Flow!Reserve, Flow!Bind, Flow!CanReserve
<1>4. ASSUME NEW e \in Flow!Epoch, Flow!ReserveAgain(e) PROVE Flow!TypeOK'
  BY <1>4 DEF Flow!ReserveAgain, Flow!Reserve, Flow!Bind, Flow!CanReserve
<1>5. ASSUME NEW t \in Flow!Token, Flow!AdmitFrame(t) PROVE Flow!TypeOK'
  BY <1>5 DEF Flow!AdmitFrame, Flow!Admit, Flow!Bind, Flow!CanAdmit
<1>6. ASSUME NEW t \in Flow!Token, Flow!CancelFrame(t) PROVE Flow!TypeOK'
  BY <1>6 DEF Flow!CancelFrame, Flow!Cancel, Flow!Without, Flow!CanCancel
<1>7. ASSUME NEW e \in Flow!Epoch, NEW s \in Flow!Sequence, Flow!FeedbackAck(e, s)
      PROVE  Flow!TypeOK'
  <2>1. CASE Flow!Ack(e, s) /\ released' = released \cup {<<e, s>>} /\ UNCHANGED readers
    BY <1>7, <2>1 DEF Flow!FeedbackAck, Flow!Ack, Flow!Without, Flow!CanAck, Flow!Remember
  <2>2. CASE ~Flow!CanAck(e, s) /\ Flow!Disconnect(e)
    BY <1>0, <1>7, <2>2 DEF Flow!FeedbackAck, Flow!Ack
  <2> QED
    BY <1>7, <2>1, <2>2 DEF Flow!FeedbackAck
<1>8. ASSUME NEW e \in Flow!Epoch, Flow!FeedbackEnd(e) PROVE Flow!TypeOK'
  BY <1>0, <1>8 DEF Flow!FeedbackEnd
<1>9. CASE Flow!SkipFrame
  BY <1>9 DEF Flow!SkipFrame, Flow!flowVars
<1>10. CASE UNCHANGED flow
  BY <1>10 DEF flow
<1> QED
  BY <1>1, <1>2, <1>3, <1>4, <1>5, <1>6, <1>7, <1>8, <1>9, <1>10
     DEF Flow!Next, Flow!Capture, Flow!Feedback

\* Every step of the host thread by thread: what it does to the window is one of the calls
\* VisualFlow allows, or nothing.
LEMMA FlowCalls ==
  ASSUME Flow!TypeOK
  PROVE  /\ UNCHANGED flow => [Flow!Next]_flow
         /\ Flow!AcceptViewer => [Flow!Next]_flow
         /\ Flow!SkipFrame => [Flow!Next]_flow
         /\ \A e : Flow!RetireViewer(e) => [Flow!Next]_flow
         /\ \A e \in Epoch : (Flow!ReserveFrame(e) \/ Flow!ReserveAgain(e)) => [Flow!Next]_flow
         /\ \A t : Flow!AdmitFrame(t) => [Flow!Next]_flow
         /\ \A p : DropReservation(p) => [Flow!Next]_flow
         /\ \A p \in Plan : Flow!CancelFrame(Token(p)) => [Flow!Next]_flow
         /\ \A e \in Epoch : Flow!FeedbackEnd(e) => [Flow!Next]_flow
         /\ \A e \in Epoch, s \in Sequence : Flow!FeedbackAck(e, s) => [Flow!Next]_flow
<1>0. Epoch = Flow!Epoch /\ Sequence = Flow!Sequence
  BY DEF Epoch, Sequence, Flow!Epoch, Flow!Sequence
<1>1. ASSUME NEW e, Flow!RetireViewer(e) PROVE Flow!Next
  <2>1. e \in Flow!Epoch
    BY <1>1, HostAssumption DEF Flow!RetireViewer, Flow!TypeOK, Flow!Epoch
  <2> QED
    BY <1>1, <2>1 DEF Flow!Next
<1>2. ASSUME NEW t, Flow!AdmitFrame(t) PROVE Flow!Next
  <2>1. t \in Flow!Token
    BY <1>2 DEF Flow!AdmitFrame, Flow!TypeOK
  <2> QED
    BY <1>2, <2>1 DEF Flow!Next, Flow!Capture
<1>3. ASSUME NEW p \in Plan, Flow!CancelFrame(Token(p)) PROVE Flow!Next
  <2>1. Token(p) \in Flow!Token
    <3>1. CASE Token(p) \in tokens
      BY <3>1 DEF Flow!TypeOK
    <3>2. CASE Flow!CanCancel(Token(p).epoch, Token(p).seq)
      <4>1. p.ep = epoch /\ p.seq \in DOMAIN entries
        BY <3>2 DEF Flow!CanCancel, Token
      <4> QED
        BY <4>1 DEF Flow!TypeOK, Flow!Token, Token
    <3> QED
      BY <1>3, <3>1, <3>2 DEF Flow!CancelFrame
  <2> QED
    BY <1>3, <2>1 DEF Flow!Next, Flow!Capture
<1>4. ASSUME NEW p, DropReservation(p) PROVE [Flow!Next]_flow
  <2>1. CASE Armed(p) /\ Flow!CancelFrame(Token(p))
    <3>1. Token(p) \in Flow!Token
      BY <2>1 DEF Armed, Flow!TypeOK
    <3> QED
      BY <2>1, <3>1 DEF Flow!Next, Flow!Capture
  <2> QED
    BY <1>4, <2>1 DEF DropReservation
<1> QED
  BY <1>0, <1>1, <1>2, <1>3, <1>4 DEF Flow!Next, Flow!Capture, Flow!Feedback

\* A step of the host is a step of the window or leaves it alone.
LEMMA FlowStep == TInv /\ [Next]_vars => [Flow!Next]_flow
<1> SUFFICES ASSUME TInv, [Next]_vars PROVE [Flow!Next]_flow
  OBVIOUS
<1>0. /\ Flow!TypeOK
      /\ cap.ep \in Epoch
      /\ cap.plan \in Plan
      /\ cap.plans \in Seq(Plan)
      /\ work \in Work
  BY DEF TInv, CapTyped, CapRec, HistoryTyped
<1>1. ASSUME Capture PROVE [Flow!Next]_flow
  <2>1. CASE CaptureTop \/ CaptureWindow \/ CaptureFence \/ CapturePrelude \/ CaptureRaw
             \/ EmitDone \/ Withhold \/ CaptureVideo \/ CaptureMixed
    BY <2>1, <1>0, FlowCalls DEF CaptureTop, CaptureWindow, CaptureFence, CapturePrelude, CaptureRaw,
       EmitDone, Withhold, CaptureVideo, CaptureMixed
  <2>2. CASE CaptureDiscard \/ CaptureDrop \/ CaptureBegin \/ EmitSuppressed
    BY <2>2, <1>0, FlowCalls DEF CaptureDiscard, CaptureDrop, CaptureBegin, EmitSuppressed
  <2>3. CASE CaptureBaseline \/ CaptureAbandon
    BY <2>3, <1>0, FlowCalls DEF CaptureBaseline, CaptureAbandon, Abandon
  <2>4. CASE CaptureNothing
    BY <2>4, <1>0, FlowCalls DEF CaptureNothing
  <2>5. CASE CaptureAdmit \/ EmitAdmitted
    BY <2>5, <1>0, FlowCalls DEF CaptureAdmit, EmitAdmitted
  <2>6. CASE CaptureCancel \/ CaptureRejected
    BY <2>6, <1>0, FlowCalls DEF CaptureCancel, CaptureRejected
  <2>7. CASE CaptureAgain
    BY <2>7, <1>0, FlowCalls DEF CaptureAgain
  <2>8. ASSUME NEW route, NEW rem, CaptureFrame(route, rem) PROVE [Flow!Next]_flow
    BY <2>8, <1>0, FlowCalls DEF CaptureFrame
  <2> QED
    BY <1>1, <2>1, <2>2, <2>3, <2>4, <2>5, <2>6, <2>7, <2>8 DEF Capture
<1>2. ASSUME CaptureTimesOut PROVE [Flow!Next]_flow
  BY <1>0, <1>2, FlowCalls DEF CaptureTimesOut, Abandon
<1>3. ASSUME SenderLap \/ SenderLineFails PROVE [Flow!Next]_flow
  BY <1>0, <1>3, FlowCalls DEF SenderLap, SenderLineFails, SenderPoll, SenderJoin, SenderAccept,
     SenderPublish, SenderHeader, SenderReceive, SenderHandle, DropClient
<1>4. ASSUME SparseStep \/ ViewerStep PROVE [Flow!Next]_flow
  BY <1>0, <1>4, FlowCalls DEF SparseStep, SparsePoll, SparseAccept, SparseReceive, ViewerStep
<1>5. ASSUME NEW e \in Epoch, FeedbackEnd(e) \/ \E s \in Sequence : FeedbackAck(e, s)
      PROVE  [Flow!Next]_flow
  BY <1>0, <1>5, FlowCalls DEF FeedbackEnd, FeedbackAck
<1>6. CASE UNCHANGED vars
  BY <1>0, <1>6, FlowCalls DEF vars
<1> QED
  BY <1>1, <1>2, <1>3, <1>4, <1>5, <1>6 DEF Next

\* What is left of a queue when its head is taken.
LEMMA TailOf ==
  ASSUME NEW S, NEW q \in Seq(S), q # <<>>
  PROVE  /\ Tail(q) \in Seq(S)
         /\ Len(Tail(q)) = Len(q) - 1
         /\ Len(q) \in Nat \ {0}
         /\ \A i \in 1..Len(Tail(q)) : Tail(q)[i] = q[i + 1] /\ i + 1 \in 1..Len(q)
         /\ Head(q) = q[1] /\ Head(q) \in S
         /\ Len(q) # 1 => Tail(q) # <<>>
<1>1. Len(q) \in Nat \ {0}
  OBVIOUS
<1>2. Tail(q) \in Seq(S) /\ Len(Tail(q)) = Len(q) - 1
  OBVIOUS
<1>3. \A i \in 1..Len(Tail(q)) : Tail(q)[i] = q[i + 1] /\ i + 1 \in 1..Len(q)
  BY <1>1, <1>2
<1>4. Head(q) = q[1] /\ Head(q) \in S
  BY <1>1
<1>5. Len(q) # 1 => Tail(q) # <<>>
  <2>1. Len(q) # 1 => Len(Tail(q)) # 0
    BY <1>1, <1>2
  <2> QED
    BY <2>1
<1> QED
  BY <1>1, <1>2, <1>3, <1>4, <1>5

\* What a queue is after an enqueue.
LEMMA AppendOf ==
  ASSUME NEW S, NEW q \in Seq(S), NEW x \in S
  PROVE  /\ Append(q, x) \in Seq(S)
         /\ Len(Append(q, x)) = Len(q) + 1
         /\ \A i \in 1..Len(q) : Append(q, x)[i] = q[i]
         /\ Append(q, x)[Len(q) + 1] = x
         /\ Append(q, x) # <<>>
  OBVIOUS

\* The places by name, for proofs that need not look at all of them.
LEMMA PlaceNames ==
  /\ "top" \in Places /\ "discard" \in Places /\ "pump" \in Places /\ "baseline" \in Places
  /\ "window" \in Places /\ "acquire" \in Places /\ "drop" \in Places /\ "admit" \in Places
  /\ "fence" \in Places /\ "prelude" \in Places /\ "raw" \in Places /\ "cancel" \in Places
  /\ "again" \in Places /\ "abandon" \in Places /\ "begin" \in Places /\ "encode" \in Places
  /\ "video" \in Places /\ "mixed" \in Places /\ "rejected" \in Places /\ "exited" \in Places
  BY DEF Places

\* The bounds as numbers, for proofs about single fields.
LEMMA Bounds ==
  /\ 0 \in Epoch /\ 0 \in 0..MaxSeq
  /\ MAX_PENDING_LOGICAL_FRAMES \in Nat \ {0}
  /\ QUEUE_DEPTH \in Nat \ {0} /\ SPARSE_QUEUE_DEPTH \in Nat \ {0}
  /\ MaxSeq \in Nat /\ MaxEpoch \in Nat /\ Viewers \in Nat
  BY HostAssumption DEF Epoch

\* The update of an iteration that has none yet is well formed.
LEMMA UnplannedTyped == Unplanned \in Plan
  BY HostAssumption DEF Plan, Epoch, AnyRoute, AnyRemainder, Unplanned

\* The next iteration starts with the locals that outlive one.
LEMMA TopTyped ==
  ASSUME CapTyped
  PROVE  Top \in CapRec /\ Top.plans = cap.plans /\ Top.at = "top" /\ Top.plan = Unplanned
  BY UnplannedTyped, Bounds, PlaceNames DEF CapRec, Top, CapTyped

\* The host starts typed.
LEMMA InitTyped == Init => TInv
<1> SUFFICES ASSUME Init PROVE TInv
  OBVIOUS
<1> USE DEF Init
<1>1. Flow!TypeOK
  BY HostAssumption DEF Flow!Init, Flow!TypeOK, Flow!Epoch, Flow!Sequence
<1>2. CapTyped
  <2>1. cap \in CapRec
    BY Bounds, PlaceNames, UnplannedTyped DEF CapRec
  <2> QED
    BY <2>1, Bounds DEF CapTyped, Carrying
<1>3. QueuesTyped
  BY Bounds DEF QueuesTyped
<1>4. ThreadsTyped
  BY Bounds DEF ThreadsTyped, SenderRec, SparseRec
<1>5. WorldTyped
  BY Bounds DEF WorldTyped
<1>6. HistoryTyped
  BY DEF HistoryTyped
<1> QED
  BY <1>1, <1>2, <1>3, <1>4, <1>5, <1>6 DEF TInv

\* The capture thread keeps its locals typed: one case per action, under it one per outcome.
LEMMA CaptureTyped == TInv /\ Capture => CapTyped'
<1> SUFFICES ASSUME TInv, Capture PROVE CapTyped'
  OBVIOUS
<1>0. CapTyped /\ cap \in CapRec /\ session_epoch \in Epoch /\ work \in Work
  BY DEF TInv, ThreadsTyped, HistoryTyped, CapTyped
<1>a. /\ Top \in CapRec /\ Top.plans = cap.plans /\ Top.at = "top" /\ Top.plan = Unplanned
      /\ cap.plans \in Seq(Plan) /\ cap.plan \in Plan
  BY <1>0, TopTyped DEF CapRec
<1>b. ASSUME cap.plans # <<>>
      PROVE  /\ Tail(cap.plans) \in Seq(Plan)
             /\ Len(Tail(cap.plans)) <= MAX_PENDING_LOGICAL_FRAMES
             /\ Len(Tail(cap.plans)) = Len(cap.plans) - 1
             /\ Len(cap.plans) # 1 => Tail(cap.plans) # <<>>
             /\ \A i \in 1..Len(Tail(cap.plans)) : Tail(cap.plans)[i].seq \in Sequence
             /\ Head(cap.plans) \in Plan /\ Head(cap.plans).seq \in Sequence
             /\ Head(cap.plans) = cap.plans[1] /\ 1 \in 1..Len(cap.plans)
  <2>1. /\ Tail(cap.plans) \in Seq(Plan)
        /\ Len(Tail(cap.plans)) = Len(cap.plans) - 1
        /\ Len(cap.plans) \in Nat \ {0}
        /\ \A i \in 1..Len(Tail(cap.plans)) :
             Tail(cap.plans)[i] = cap.plans[i + 1] /\ i + 1 \in 1..Len(cap.plans)
        /\ Head(cap.plans) = cap.plans[1] /\ Head(cap.plans) \in Plan
        /\ Len(cap.plans) # 1 => Tail(cap.plans) # <<>>
    BY <1>a, <1>b, TailOf
  <2> QED
    BY <2>1, <1>0, Bounds DEF CapTyped
<1> USE <1>0, <1>a, Bounds, PlaceNames DEF CapTyped, CapRec
<1>1. CASE CaptureTop
  <2>1. cap' \in CapRec
    BY <1>1 DEF CaptureTop, AfterPump
  <2>2. /\ cap'.plans = cap.plans
        /\ \/ cap'.at \in {"top", "pump", "baseline", "window"}
           \/ cap'.at = "discard" /\ cap.plans # <<>>
    BY <1>1 DEF CaptureTop, AfterPump
  <2> QED
    BY <2>1, <2>2 DEF Carrying
<1>2. CASE CaptureDiscard
  <2>0. cap.plans # <<>>
    BY <1>2 DEF CaptureDiscard
  <2>1. cap' \in CapRec
    BY <1>2, <1>b, <2>0 DEF CaptureDiscard
  <2>2. /\ cap'.plans = Tail(cap.plans)
        /\ \/ cap'.at = "top"
           \/ cap'.at = "discard" /\ Tail(cap.plans) # <<>>
    BY <1>2, <1>b, <2>0 DEF CaptureDiscard
  <2> QED
    BY <1>b, <2>0, <2>1, <2>2 DEF Carrying
<1>3. CASE CaptureBaseline
  <2>1. cap' \in CapRec
    <3>1. \/ cap' = [cap EXCEPT !.at = "top", !.invalid = FALSE]
          \/ cap' = [cap EXCEPT !.at = "window", !.invalid = FALSE, !.last = 0, !.suppress = TRUE]
      BY <1>3 DEF CaptureBaseline
    <3> QED
      BY <3>1
  <2>2. cap'.plans = cap.plans /\ cap'.at \in {"top", "window"}
    BY <1>3 DEF CaptureBaseline
  <2> QED
    BY <2>1, <2>2 DEF Carrying
<1>4. CASE CaptureWindow
  <2>1. cap' \in CapRec
    BY <1>4 DEF CaptureWindow
  <2>2. cap'.plans = cap.plans /\ cap'.at \in {"top", "acquire"}
    BY <1>4 DEF CaptureWindow
  <2> QED
    BY <2>1, <2>2 DEF Carrying
<1>5. CASE CaptureNothing
  <2>1. cap' \in CapRec
    <3>1. \/ cap' = Top
          \/ cap' = [Top EXCEPT !.suppress = TRUE]
          \/ \E at \in {"top", "discard"} :
               cap' = [Top EXCEPT !.at = at, !.waiting = TRUE, !.last = 0, !.suppress = TRUE]
      BY <1>5 DEF CaptureNothing, GoTop
    <3>2. ASSUME NEW at \in {"top", "discard"},
                 cap' = [Top EXCEPT !.at = at, !.waiting = TRUE, !.last = 0, !.suppress = TRUE]
          PROVE  cap' \in CapRec
      BY <3>2
    <3>3. CASE cap' = [Top EXCEPT !.suppress = TRUE]
      BY <3>3
    <3> QED
      BY <3>1, <3>2, <3>3
  <2>2. /\ cap'.plans = cap.plans
        /\ \/ cap'.at = "top"
           \/ cap'.at = "discard" /\ cap.plans # <<>>
    BY <1>5 DEF CaptureNothing, GoTop
  <2> QED
    BY <2>1, <2>2 DEF Carrying
<1>6. CASE CaptureDrop \/ CaptureAbandon
  <2>1. cap' = Top
    BY <1>6 DEF CaptureDrop, CaptureAbandon, GoTop
  <2> QED
    BY <2>1 DEF Carrying
<1>7. CASE CaptureAdmit \/ CaptureFence
  <2>1. cap' \in CapRec
    <3>1. \/ cap' = Top
          \/ \E at \in {"fence", "raw", "prelude", "cancel"} : cap' = [cap EXCEPT !.at = at]
      BY <1>7 DEF CaptureAdmit, CaptureFence, GoTop, Goto
    <3> QED
      BY <3>1
  <2>2. /\ cap'.plans = cap.plans
        /\ \/ cap'.at = "top"
           \/ cap'.at \in {"fence", "raw", "prelude", "cancel"} /\ cap'.plan = cap.plan
    BY <1>7 DEF CaptureAdmit, CaptureFence, GoTop, Goto
  <2>3. cap.plan.seq \in Sequence
    BY <1>7 DEF CaptureAdmit, CaptureFence, Carrying
  <2> QED
    BY <2>1, <2>2, <2>3 DEF Carrying
<1>8. ASSUME NEW route \in work.routes, NEW rem \in work.remainders \cup {"None"},
             CaptureFrame(route, rem)
      PROVE CapTyped'
  <2> DEFINE p == [seq |-> frame_seq + 1, ep |-> cap.ep, route |-> route, rem |-> rem,
                   lost |-> FALSE]
  <2>1. frame_seq + 1 \in Sequence /\ frame_seq + 1 \in 0..MaxSeq
    BY <1>8 DEF CaptureFrame, Flow!ReserveFrame, TInv, Flow!TypeOK, Flow!Epoch, Flow!Sequence, Sequence
  <2>2. route \in AnyRoute /\ rem \in AnyRemainder
    BY HostAssumption DEF AnyRoute, AnyRemainder
  <2>3. p \in Plan /\ p.seq \in Sequence
    BY <2>1, <2>2 DEF Plan
  <2> HIDE DEF p
  <2>4. cap' \in CapRec
    BY <1>8, <2>3 DEF CaptureFrame, p
  <2>5. cap'.plans = cap.plans /\ cap'.plan = p /\ cap'.at \in {"drop", "admit", "begin"}
    BY <1>8 DEF CaptureFrame, p
  <2> QED
    BY <2>3, <2>4, <2>5 DEF Carrying
<1>9. CASE CapturePrelude \/ CaptureRaw
  <2>0. cap.plan.seq \in Sequence /\ cap.plan.seq \in 0..MaxSeq
    BY <1>9 DEF CapturePrelude, CaptureRaw, Carrying, Plan
  <2>1. cap' \in CapRec
    <3>1. \/ \E n \in 0..MaxSeq : cap' = [Top EXCEPT !.last = n]
          \/ cap' = [cap EXCEPT !.at = "raw", !.last = cap.plan.seq]
          \/ \E at \in {"begin", "cancel"} : cap' = [cap EXCEPT !.at = at]
      <4>1. cap.plan.rem \in AnyRemainder /\ Top.last = cap.last
        BY DEF Plan, Top
      <4> QED
        BY <1>9, <2>0, <4>1 DEF CapturePrelude, CaptureRaw, Goto, AnyRemainder
    <3>2. ASSUME NEW n \in 0..MaxSeq, cap' = [Top EXCEPT !.last = n] PROVE cap' \in CapRec
      BY <3>2
    <3>3. CASE cap' = [cap EXCEPT !.at = "raw", !.last = cap.plan.seq]
      BY <2>0, <3>3
    <3>4. ASSUME NEW at \in {"begin", "cancel"}, cap' = [cap EXCEPT !.at = at]
          PROVE  cap' \in CapRec
      BY <3>4
    <3> QED
      BY <3>1, <3>2, <3>3, <3>4
  <2>2. /\ cap'.plans = cap.plans
        /\ \/ cap'.at = "top"
           \/ cap'.at \in {"raw", "begin", "cancel"} /\ cap'.plan = cap.plan
    BY <1>9 DEF CapturePrelude, CaptureRaw, Goto, Plan, AnyRemainder
  <2> QED
    BY <2>0, <2>1, <2>2 DEF Carrying
<1>10. CASE CaptureCancel
  <2>0. cap.plan.seq \in Sequence
    BY <1>10 DEF CaptureCancel, Carrying
  <2>1. cap' \in CapRec
    BY <1>10 DEF CaptureCancel
  <2>2. /\ cap'.plans = cap.plans
        /\ \/ cap'.at = "top"
           \/ cap'.at \in {"abandon", "again"} /\ cap'.plan = cap.plan
    BY <1>10 DEF CaptureCancel
  <2> QED
    BY <2>0, <2>1, <2>2 DEF Carrying
<1>11. CASE CaptureAgain
  <2>0. cap.plan.seq \in Sequence
    BY <1>11 DEF CaptureAgain, Carrying
  <2> DEFINE p == [cap.plan EXCEPT !.route = "Video", !.rem = "None"]
  <2>1. p \in Plan /\ p.seq = cap.plan.seq
    BY DEF Plan, AnyRoute, AnyRemainder
  <2>2. \/ cap' = Top
        \/ cap' = [cap EXCEPT !.at = "begin", !.plan = p]
    BY <1>11 DEF CaptureAgain, GoTop
  <2> HIDE DEF p
  <2>3. cap' \in CapRec
    BY <2>1, <2>2
  <2>4. /\ cap'.plans = cap.plans
        /\ \/ cap'.at = "top"
           \/ cap'.at = "begin" /\ cap'.plan = p
    BY <2>2
  <2> QED
    BY <2>0, <2>1, <2>3, <2>4 DEF Carrying
<1>12. CASE CaptureBegin
  <2>0. cap.plan.seq \in Sequence /\ cap.plan.seq \in 0..MaxSeq
    BY <1>12 DEF CaptureBegin, Carrying, Plan
  <2> DEFINE rest == IF Len(cap.plans) >= MAX_PENDING_LOGICAL_FRAMES THEN Tail(cap.plans)
                     ELSE cap.plans
  <2>1. /\ rest \in Seq(Plan)
        /\ Len(rest) + 1 <= MAX_PENDING_LOGICAL_FRAMES
        /\ \A i \in 1..Len(rest) : rest[i].seq \in Sequence
    BY <1>b
  <2>2. cap'.plans = Append(rest, cap.plan) /\ cap'.at = "encode"
    BY <1>12 DEF CaptureBegin
  <2>3. cap'.waiting \in BOOLEAN /\ cap'.suppress \in BOOLEAN
    BY <1>12 DEF CaptureBegin
  <2> HIDE DEF rest
  <2>4. Append(rest, cap.plan) \in Seq(Plan)
    BY <2>1, AppendOf
  <2>5. cap' = [cap EXCEPT !.at = "encode", !.last = cap.plan.seq,
                           !.plans = Append(rest, cap.plan), !.waiting = cap'.waiting,
                           !.suppress = cap'.suppress]
    BY <1>12, <2>2 DEF CaptureBegin, rest
  <2>6. cap' \in CapRec
    BY <2>0, <2>3, <2>4, <2>5
  <2>7. /\ Len(cap'.plans) = Len(rest) + 1
        /\ \A i \in 1..Len(rest) : cap'.plans[i] = rest[i]
        /\ cap'.plans[Len(rest) + 1] = cap.plan
    BY <2>1, <2>2, AppendOf
  <2>8. \A i \in 1..Len(cap'.plans) : cap'.plans[i].seq \in Sequence
    <3>1. Len(rest) \in Nat
      BY <2>1
    <3> QED
      BY <2>0, <2>1, <2>7, <3>1
  <2> QED
    BY <2>1, <2>2, <2>6, <2>7, <2>8 DEF Carrying
<1>13. CASE EmitDone
  <2>1. cap' \in CapRec
    BY <1>13 DEF EmitDone, AfterPump
  <2>2. cap'.plans = cap.plans /\ cap'.at \in {"top", "baseline", "window"}
    BY <1>13 DEF EmitDone, AfterPump
  <2> QED
    BY <2>1, <2>2 DEF Carrying
<1>14. CASE Withhold
  <2>0. cap.plans # <<>> /\ cap.at \in {"pump", "encode"}
    BY <1>14 DEF Withhold, Complete, Emitting
  <2> DEFINE p == [cap.plans[1] EXCEPT !.lost = TRUE]
             q == [cap.plans EXCEPT ![1] = p]
  <2>1. p \in Plan /\ p.seq \in Sequence
    BY <1>b, <2>0 DEF Plan
  <2>2. cap' = [cap EXCEPT !.plans = q, !.invalid = TRUE]
    BY <1>14 DEF Withhold
  <2> HIDE DEF p
  <2>3. /\ q \in Seq(Plan) /\ Len(q) = Len(cap.plans)
        /\ \A i \in 1..Len(q) : q[i] = IF i = 1 THEN p ELSE cap.plans[i]
    BY <2>1, <1>b, <2>0
  <2> HIDE DEF q
  <2>4. cap' \in CapRec
    BY <2>2, <2>3
  <2>5. cap'.plans = q /\ cap'.at = cap.at
    BY <2>2
  <2>6. \A i \in 1..Len(q) : q[i].seq \in Sequence
    BY <2>1, <2>3
  <2> QED
    BY <2>0, <2>3, <2>4, <2>5, <2>6 DEF Carrying
<1>15. CASE EmitSuppressed
  <2>0. cap.plans # <<>>
    BY <1>15 DEF EmitSuppressed, Complete
  <2>1. cap' \in CapRec
    BY <1>15, <1>b, <2>0 DEF EmitSuppressed, Goto
  <2>2. \/ cap'.plans = cap.plans /\ cap'.at = "exited"
        \/ cap'.plans = Tail(cap.plans) /\ cap'.at \in {"pump", "encode"}
    BY <1>15 DEF EmitSuppressed, Complete, Emitting, Goto
  <2> QED
    BY <1>b, <2>0, <2>1, <2>2 DEF Carrying
<1>16. CASE EmitAdmitted
  <2>0. cap.plans # <<>> /\ cap.at \in {"pump", "encode"}
    BY <1>16 DEF EmitAdmitted, Complete, Emitting
  <2>1. cap' \in CapRec
    BY <1>16, <1>b, <2>0 DEF EmitAdmitted
  <2>2. /\ cap'.plans = Tail(cap.plans)
        /\ \/ cap'.at \in {"pump", "encode"}
           \/ cap'.at = "video" /\ cap'.plan = Head(cap.plans)
    BY <1>16, <2>0 DEF EmitAdmitted
  <2> QED
    BY <1>b, <2>0, <2>1, <2>2 DEF Carrying
<1>17. CASE CaptureVideo \/ CaptureMixed \/ CaptureRejected
  <2>0. cap.plan.seq \in Sequence
    BY <1>17 DEF CaptureVideo, CaptureMixed, CaptureRejected, Carrying
  <2>1. cap' \in CapRec
    <3>0. cap.back \in Places
      OBVIOUS
    <3>1. \E at \in {"mixed", "rejected", "exited", cap.back} :
            \/ cap' = [cap EXCEPT !.at = at]
            \/ \E w \in BOOLEAN : cap' = [cap EXCEPT !.at = at, !.waiting = w]
            \/ cap' = [cap EXCEPT !.at = at, !.waiting = TRUE, !.invalid = TRUE]
      BY <1>17 DEF CaptureVideo, CaptureMixed, CaptureRejected, Goto
    <3>2. ASSUME NEW at \in Places, NEW w \in BOOLEAN,
                 cap' = [cap EXCEPT !.at = at, !.waiting = w]
          PROVE  cap' \in CapRec
      BY <3>2
    <3>3. ASSUME NEW at \in Places,
                 cap' = [cap EXCEPT !.at = at, !.waiting = TRUE, !.invalid = TRUE]
          PROVE  cap' \in CapRec
      BY <3>3
    <3>4. ASSUME NEW at \in Places, cap' = [cap EXCEPT !.at = at] PROVE  cap' \in CapRec
      BY <3>4
    <3>5. {"mixed", "rejected", "exited", cap.back} \subseteq Places
      BY <3>0
    <3> HIDE DEF CapRec
    <3> QED
      BY <3>1, <3>2, <3>3, <3>4, <3>5
  <2>2. /\ cap'.plans = cap.plans
        /\ \/ cap'.at \in {"pump", "encode", "exited"}
           \/ cap'.at \in {"mixed", "rejected"} /\ cap'.plan = cap.plan
    BY <1>17 DEF CaptureVideo, CaptureMixed, CaptureRejected, Goto
  <2> QED
    BY <2>0, <2>1, <2>2 DEF Carrying
<1> QED
  BY <1>1, <1>2, <1>3, <1>4, <1>5, <1>6, <1>7, <1>8, <1>9, <1>10, <1>11, <1>12, <1>13, <1>14,
     <1>15, <1>16, <1>17 DEF Capture

\* A bounded queue stays typed and bounded when something is put in that fits.
LEMMA Enqueued ==
  ASSUME NEW S, NEW q \in Seq(S), NEW x \in S, NEW depth \in Nat, Len(q) < depth
  PROVE  Append(q, x) \in Seq(S) /\ Len(Append(q, x)) <= depth
<1>1. Append(q, x) \in Seq(S) /\ Len(Append(q, x)) = Len(q) + 1 /\ Len(q) \in Nat
  OBVIOUS
<1> QED
  BY <1>1

\* Messages built from a scheduled update are well formed.
LEMMA MessagesTyped ==
  ASSUME NEW p \in Plan, NEW g \in BOOLEAN
  PROVE  /\ Bulk("fence", p, g) \in BulkMsg /\ Bulk("video", p, g) \in BulkMsg
         /\ Line \in BulkMsg
         /\ p.seq \in Sequence => /\ SparseMsg("raw", p, g) \in RectMsg
                                  /\ SparseMsg("prelude", p, g) \in RectMsg
  BY Bounds DEF Bulk, SparseMsg, BulkMsg, RectMsg, Plan, Line, AnyRoute

\* The capture thread keeps the queues typed and within their depth.
LEMMA CaptureQueuesTyped == TInv /\ Capture => QueuesTyped'
<1> SUFFICES ASSUME TInv, Capture PROVE QueuesTyped'
  OBVIOUS
<1>0. /\ QueuesTyped /\ cap.plan \in Plan
      /\ cap.at \in Carrying => cap.plan.seq \in Sequence
  BY DEF TInv, CapTyped, CapRec
<1>1. CASE UNCHANGED queues
  BY <1>0, <1>1 DEF queues, QueuesTyped
<1>2. CASE CaptureFence
  <2>1. Bulk("fence", cap.plan, TRUE) \in BulkMsg
    BY <1>0, MessagesTyped
  <2>2. \/ videoQ' = videoQ
        \/ Len(videoQ) < QUEUE_DEPTH /\ videoQ' = Append(videoQ, Bulk("fence", cap.plan, TRUE))
    BY <1>2 DEF CaptureFence
  <2>3. videoQ' \in Seq(BulkMsg) /\ Len(videoQ') <= QUEUE_DEPTH
    BY <1>0, <2>1, <2>2, Enqueued, Bounds DEF QueuesTyped
  <2>4. gates' \in [Sequence -> {"none", "pending", "yes", "no"}]
    BY <1>0, <1>2 DEF CaptureFence, QueuesTyped
  <2> QED
    BY <1>0, <1>2, <2>3, <2>4 DEF CaptureFence, QueuesTyped
<1>3. CASE CapturePrelude
  <2>1. SparseMsg("prelude", cap.plan, TRUE) \in RectMsg
    BY <1>0, <1>3, MessagesTyped DEF CapturePrelude, Carrying
  <2>2. \/ sparseQ' = sparseQ
        \/ Len(sparseQ) < SPARSE_QUEUE_DEPTH /\ sparseQ' = Append(sparseQ, SparseMsg("prelude", cap.plan, TRUE))
    BY <1>3 DEF CapturePrelude
  <2>3. sparseQ' \in Seq(RectMsg) /\ Len(sparseQ') <= SPARSE_QUEUE_DEPTH
    BY <1>0, <2>1, <2>2, Enqueued, Bounds DEF QueuesTyped
  <2>4. gates' \in [Sequence -> {"none", "pending", "yes", "no"}]
    BY <1>0, <1>3 DEF CapturePrelude, QueuesTyped
  <2> QED
    BY <1>0, <1>3, <2>3, <2>4 DEF CapturePrelude, QueuesTyped
<1>4. CASE CaptureRaw
  <2>1. SparseMsg("raw", cap.plan, FALSE) \in RectMsg
    BY <1>0, <1>4, MessagesTyped DEF CaptureRaw, Carrying
  <2>2. \/ sparseQ' = sparseQ
        \/ Len(sparseQ) < SPARSE_QUEUE_DEPTH /\ sparseQ' = Append(sparseQ, SparseMsg("raw", cap.plan, FALSE))
    BY <1>4 DEF CaptureRaw
  <2>3. sparseQ' \in Seq(RectMsg) /\ Len(sparseQ') <= SPARSE_QUEUE_DEPTH
    BY <1>0, <2>1, <2>2, Enqueued, Bounds DEF QueuesTyped
  <2>4. gates' \in [Sequence -> {"none", "pending", "yes", "no"}]
    BY <1>0, <1>4 DEF CaptureRaw, QueuesTyped
  <2> QED
    BY <1>0, <1>4, <2>3, <2>4 DEF CaptureRaw, QueuesTyped
<1>5. CASE CaptureVideo
  <2>1. Bulk("video", cap.plan, cap.plan.route = "Mixed") \in BulkMsg
    BY <1>0, MessagesTyped
  <2>2. \/ videoQ' = videoQ
        \/ Len(videoQ) < QUEUE_DEPTH /\ videoQ' = Append(videoQ, Bulk("video", cap.plan, cap.plan.route = "Mixed"))
    BY <1>5 DEF CaptureVideo
  <2>3. videoQ' \in Seq(BulkMsg) /\ Len(videoQ') <= QUEUE_DEPTH
    <3> DEFINE m == Bulk("video", cap.plan, cap.plan.route = "Mixed")
    <3> HIDE DEF m
    <3>1. \/ videoQ' = videoQ
          \/ Len(videoQ) < QUEUE_DEPTH /\ videoQ' = Append(videoQ, m)
      BY <2>2 DEF m
    <3>2. m \in BulkMsg
      BY <2>1 DEF m
    <3> QED
      BY <1>0, <3>1, <3>2, Enqueued, Bounds DEF QueuesTyped
  <2>4. gates' \in [Sequence -> {"none", "pending", "yes", "no"}]
    BY <1>0, <1>5 DEF CaptureVideo, QueuesTyped
  <2> QED
    BY <1>0, <1>5, <2>3, <2>4 DEF CaptureVideo, QueuesTyped
<1>6. CASE CaptureMixed
  <2>1. SparseMsg("raw", cap.plan, TRUE) \in RectMsg
    BY <1>0, <1>6, MessagesTyped DEF CaptureMixed, Carrying
  <2>2. \/ sparseQ' = sparseQ
        \/ Len(sparseQ) < SPARSE_QUEUE_DEPTH /\ sparseQ' = Append(sparseQ, SparseMsg("raw", cap.plan, TRUE))
    BY <1>6 DEF CaptureMixed
  <2>3. sparseQ' \in Seq(RectMsg) /\ Len(sparseQ') <= SPARSE_QUEUE_DEPTH
    BY <1>0, <2>1, <2>2, Enqueued, Bounds DEF QueuesTyped
  <2>4. gates' \in [Sequence -> {"none", "pending", "yes", "no"}]
    BY <1>0, <1>6 DEF CaptureMixed, QueuesTyped
  <2> QED
    BY <1>0, <1>6, <2>3, <2>4 DEF CaptureMixed, QueuesTyped
<1> QED
  BY <1>1, <1>2, <1>3, <1>4, <1>5, <1>6 DEF Capture, CaptureTop, CaptureDiscard, CaptureBaseline,
     CaptureWindow, CaptureNothing, CaptureDrop, CaptureAdmit, CaptureFrame, CaptureCancel,
     CaptureAgain, CaptureAbandon, CaptureBegin, EmitDone, Withhold, EmitSuppressed, EmitAdmitted,
     CaptureRejected

\* What the capture thread never touches.
LEMMA CaptureFrames ==
  Capture => UNCHANGED <<flags, sender, sparse, ends, world, got, gotSparse, work>>
  BY DEF Capture, CaptureTop, CaptureDiscard, CaptureBaseline,
     CaptureWindow, CaptureNothing, CaptureDrop, CaptureAdmit, CaptureFrame, CaptureCancel,
     CaptureAgain, CaptureAbandon, CaptureBegin, EmitDone, Withhold, EmitSuppressed, EmitAdmitted,
     CaptureRejected,
     CaptureFence, CapturePrelude, CaptureRaw, CaptureVideo, CaptureMixed, history, Abandon

\* The capture thread closes viewer sockets, it opens none.
LEMMA CaptureLive == Capture => live' \subseteq live
  BY DEF Capture, CaptureTop, CaptureDiscard, CaptureBaseline,
     CaptureWindow, CaptureNothing, CaptureDrop, CaptureAdmit, CaptureFrame, CaptureCancel,
     CaptureAgain, CaptureAbandon, CaptureBegin, EmitDone, Withhold, EmitSuppressed, EmitAdmitted,
     CaptureRejected,
     CaptureFence, CapturePrelude, CaptureRaw, CaptureVideo, CaptureMixed, history, Abandon

\* An epoch counts as recovered when its recovery update enters the bulk queue, by no other
\* step.
LEMMA CaptureRecovered ==
  Capture => \/ UNCHANGED recovered
             \/ /\ CaptureVideo /\ cap.plan.route = "Recovery"
                /\ recovered' = recovered \cup {cap.plan.ep}
  BY DEF Capture, CaptureTop, CaptureDiscard, CaptureBaseline,
     CaptureWindow, CaptureNothing, CaptureDrop, CaptureAdmit, CaptureFrame, CaptureCancel,
     CaptureAgain, CaptureAbandon, CaptureBegin, EmitDone, Withhold, EmitSuppressed, EmitAdmitted,
     CaptureRejected,
     CaptureFence, CapturePrelude, CaptureRaw, CaptureVideo, CaptureMixed, history

\* Every step of the host keeps it typed: the capture thread by the lemmas above, then the
\* writers, readers and viewers one by one.
LEMMA TypeStep == TInv /\ [Next]_vars => TInv'
<1> SUFFICES ASSUME TInv, [Next]_vars PROVE TInv'
  OBVIOUS
<1>0. Flow!TypeOK'
  BY FlowStep, FlowTypeStep DEF TInv
<1>a. /\ Flow!TypeOK /\ CapTyped /\ QueuesTyped /\ ThreadsTyped /\ WorldTyped /\ HistoryTyped
  BY DEF TInv
<1>b. epoch \in Epoch /\ epoch' \in Epoch
  BY <1>0, <1>a DEF Flow!TypeOK, Flow!Epoch, Epoch
<1>1. ASSUME Capture PROVE TInv'
  <2>1. CapTyped' /\ QueuesTyped'
    BY <1>1, CaptureTyped, CaptureQueuesTyped
  <2>2. ThreadsTyped'
    BY <1>1, <1>a, CaptureFrames DEF ThreadsTyped, flags
  <2>3. WorldTyped'
    BY <1>1, <1>a, CaptureFrames, CaptureLive DEF WorldTyped, world
  <2>4. recovered' \subseteq Epoch
    BY <1>1, <1>a, CaptureRecovered DEF HistoryTyped, CapTyped, CapRec, Plan
  <2>5. HistoryTyped'
    BY <1>1, <1>a, <2>4, CaptureFrames DEF HistoryTyped
  <2> QED
    BY <1>0, <2>1, <2>2, <2>3, <2>5 DEF TInv
<1>2. ASSUME CaptureTimesOut PROVE TInv'
  <2>1. CapTyped'
    BY <1>2, <1>a, TopTyped DEF CaptureTimesOut, GoTop, CapTyped, Carrying
  <2>2. QueuesTyped' /\ ThreadsTyped' /\ WorldTyped' /\ HistoryTyped'
    BY <1>2, <1>a DEF CaptureTimesOut, Abandon, QueuesTyped, ThreadsTyped, WorldTyped, HistoryTyped,
       queues, flags, world, history
  <2> QED
    BY <1>0, <2>1, <2>2 DEF TInv
<1>3. ASSUME NEW rest \in Seq(BulkMsg), DropClient(rest)
      PROVE  sender' \in SenderRec /\ live' \subseteq Epoch
  BY <1>3, <1>a DEF DropClient, ThreadsTyped, WorldTyped, SenderRec
<1>4. ASSUME SenderPoll \/ SenderLineFails PROVE TInv'
  <2>1. sender' \in SenderRec /\ live' \subseteq Epoch
    BY <1>4, <1>3, <1>a DEF SenderPoll, SenderLineFails, SenderAt, Idle, ThreadsTyped, WorldTyped,
       SenderRec
  <2>2. ends' \subseteq Epoch /\ UNCHANGED <<flags, cap, queues, sparse, world, history>>
    BY <1>4, <1>a DEF SenderPoll, SenderLineFails, ThreadsTyped
  <2> QED
    BY <1>0, <1>a, <2>1, <2>2 DEF TInv, CapTyped, QueuesTyped, ThreadsTyped, WorldTyped,
       HistoryTyped, flags, queues, world, history
<1>5. ASSUME SenderJoin PROVE TInv'
  <2>1. sender' \in SenderRec
    BY <1>5, <1>a, Bounds DEF SenderJoin, ThreadsTyped, SenderRec
  <2> QED
    BY <1>0, <1>a, <1>5, <2>1 DEF SenderJoin, TInv, CapTyped, QueuesTyped, ThreadsTyped, WorldTyped,
       HistoryTyped, flags, queues, world, history
<1>6. ASSUME SenderAccept PROVE TInv'
  <2>1. CASE backlog # <<>>
    <3>1. /\ Head(backlog) \in Viewer /\ Tail(backlog) \in Seq(Viewer)
          /\ epoch + 1 \in Epoch
      BY <1>6, <1>a, <1>b, <2>1, TailOf
         DEF SenderAccept, WorldTyped, Flow!AcceptViewer, Flow!Reset, Epoch
    <3>2. /\ sender' = [sender EXCEPT !.at = "publish", !.client = epoch + 1]
          /\ backlog' = Tail(backlog)
          /\ who' = [who EXCEPT ![epoch + 1] = Head(backlog)]
          /\ live' \subseteq live \cup {epoch + 1}
      BY <1>6, <2>1 DEF SenderAccept
    <3>3. sender' \in SenderRec
      BY <3>1, <3>2, <1>a DEF ThreadsTyped, SenderRec
    <3>4. WorldTyped'
      BY <1>6, <3>1, <3>2, <1>a, Bounds DEF SenderAccept, WorldTyped, Viewer
    <3> QED
      BY <1>0, <1>a, <1>6, <3>3, <3>4 DEF SenderAccept, TInv, CapTyped, QueuesTyped, ThreadsTyped,
         HistoryTyped, flags, queues, history
  <2>2. CASE backlog = <<>>
    <3>1. sender' \in SenderRec
      BY <1>6, <1>a, <2>2 DEF SenderAccept, SenderAt, ThreadsTyped, SenderRec
    <3> QED
      BY <1>0, <1>a, <1>6, <2>2, <3>1 DEF SenderAccept, TInv, CapTyped, QueuesTyped, ThreadsTyped,
         WorldTyped, HistoryTyped, flags, queues, history
  <2> QED
    BY <2>1, <2>2
<1>7. ASSUME SenderPublish PROVE TInv'
  <2>1. sender' \in SenderRec /\ session_epoch' \in Epoch
    BY <1>7, <1>a DEF SenderPublish, SenderAt, ThreadsTyped, SenderRec
  <2> QED
    BY <1>0, <1>a, <1>7, <2>1 DEF SenderPublish, TInv, CapTyped, QueuesTyped, ThreadsTyped,
       WorldTyped, HistoryTyped, queues, world, history
<1>8. ASSUME SenderHeader PROVE TInv'
  <2>1. sender' \in SenderRec
    BY <1>8, <1>a DEF SenderHeader, SenderAt, ThreadsTyped, SenderRec
  <2>2. viewers' \in [Viewer -> {"away", "waiting", "header", "open", "closed"}]
    BY <1>8, <1>a DEF SenderHeader, WorldTyped
  <2> QED
    BY <1>0, <1>a, <1>8, <2>1, <2>2 DEF SenderHeader, TInv, CapTyped, QueuesTyped, ThreadsTyped,
       WorldTyped, HistoryTyped, queues, history
<1>9. ASSUME SenderReceive PROVE TInv'
  <2>1. /\ videoQ # <<>> /\ videoQ \in Seq(BulkMsg) /\ Len(videoQ) <= QUEUE_DEPTH
        /\ sender \in SenderRec
    BY <1>9, <1>a DEF SenderReceive, QueuesTyped, ThreadsTyped
  <2>2. /\ Tail(videoQ) \in Seq(BulkMsg) /\ Len(Tail(videoQ)) <= QUEUE_DEPTH
        /\ Head(videoQ) \in BulkMsg
    BY <2>1, TailOf, Bounds
  <2>3. sender' \in SenderRec
    BY <1>9, <2>1, <2>2, AppendOf DEF SenderReceive, SenderRec
  <2> QED
    BY <1>0, <1>a, <1>9, <2>2, <2>3 DEF SenderReceive, TInv, CapTyped, QueuesTyped, ThreadsTyped,
       WorldTyped, HistoryTyped, flags, world, history
<1>10. ASSUME SenderHandle PROVE TInv'
  <2> DEFINE m == Head(sender.batch)
             rest == Tail(sender.batch)
  <2>1. sender \in SenderRec /\ sender.batch # <<>> /\ sender.batch \in Seq(BulkMsg)
        /\ sender.client \in Epoch
    BY <1>10, <1>a DEF SenderHandle, ThreadsTyped, SenderRec
  <2>2. m \in BulkMsg /\ rest \in Seq(BulkMsg)
    BY <2>1, TailOf
  <2>3. \/ /\ sender' = [sender EXCEPT !.batch = rest,
                                       !.at = IF rest = <<>> THEN "poll" ELSE "handle"]
           /\ UNCHANGED live
        \/ DropClient(rest)
    BY <1>10 DEF SenderHandle
  <2>4. \/ UNCHANGED got
        \/ got' = [got EXCEPT ![sender.client] = Append(@, m)]
    BY <1>10 DEF SenderHandle
  <2> HIDE DEF m, rest
  <2>5. sender' \in SenderRec /\ live' \subseteq Epoch
    BY <1>3, <1>a, <2>1, <2>2, <2>3 DEF SenderRec, WorldTyped
  <2>6. got' \in [Epoch -> Seq(BulkMsg)]
    <3>1. got[sender.client] \in Seq(BulkMsg)
      BY <1>a, <2>1 DEF HistoryTyped
    <3>2. Append(got[sender.client], m) \in Seq(BulkMsg)
      BY <2>2, <3>1, AppendOf
    <3> QED
      BY <1>a, <2>1, <2>4, <3>2 DEF HistoryTyped
  <2> QED
    BY <1>0, <1>a, <1>10, <2>5, <2>6 DEF SenderHandle, TInv, CapTyped, QueuesTyped, ThreadsTyped,
       WorldTyped, HistoryTyped, flags, queues, world
<1>11. ASSUME SparsePoll PROVE TInv'
  <2>1. sparse' \in SparseRec
    <3>1. \/ \E at \in {"recv", "accept"} :
               sparse' = [at |-> at, seen |-> session_epoch, client |-> 0, epoch |-> 0]
          \/ sparse' = [sparse EXCEPT !.at = "recv"]
      BY <1>11 DEF SparsePoll
    <3> QED
      BY <3>1, <1>a, Bounds DEF ThreadsTyped, SparseRec
  <2>2. sparse_connected' \in BOOLEAN
    BY <1>11, <1>a DEF SparsePoll, ThreadsTyped
  <2> QED
    BY <1>0, <1>a, <1>11, <2>1, <2>2 DEF SparsePoll, TInv, CapTyped, QueuesTyped, ThreadsTyped,
       WorldTyped, HistoryTyped, queues, world, history
<1>12. ASSUME SparseAccept PROVE TInv'
  <2>1. CASE sparseBacklog # <<>>
    <3>1. Head(sparseBacklog) \in 0..Viewers /\ Tail(sparseBacklog) \in Seq(Viewer)
      BY <1>a, <2>1, TailOf, Bounds DEF WorldTyped, Viewer
    <3>2. /\ sparse' = [at |-> "recv", seen |-> 0, client |-> Head(sparseBacklog),
                        epoch |-> sparse.seen]
          /\ sparseBacklog' = Tail(sparseBacklog)
          /\ sparse_connected' = TRUE
      BY <1>12, <2>1 DEF SparseAccept
    <3>3. sparse' \in SparseRec
      BY <1>a, <3>1, <3>2, Bounds DEF ThreadsTyped, SparseRec
    <3> QED
      BY <1>0, <1>a, <1>12, <3>1, <3>2, <3>3 DEF SparseAccept, TInv, CapTyped, QueuesTyped,
         ThreadsTyped, WorldTyped, HistoryTyped, queues, history
  <2>2. CASE sparseBacklog = <<>>
    <3>1. sparse' \in SparseRec
      BY <1>a, <1>12, <2>2, Bounds DEF SparseAccept, ThreadsTyped, SparseRec
    <3> QED
      BY <1>0, <1>a, <1>12, <2>2, <3>1 DEF SparseAccept, TInv, CapTyped, QueuesTyped,
         ThreadsTyped, WorldTyped, HistoryTyped, queues, history
  <2> QED
    BY <2>1, <2>2
<1>13. ASSUME SparseReceive PROVE TInv'
  <2>1. /\ sparseQ # <<>> /\ sparseQ \in Seq(RectMsg) /\ Len(sparseQ) <= SPARSE_QUEUE_DEPTH
        /\ sparse \in SparseRec /\ videoQ \in Seq(BulkMsg) /\ Line \in BulkMsg
    BY <1>13, <1>a, MessagesTyped, UnplannedTyped DEF SparseReceive, QueuesTyped, ThreadsTyped
  <2>2. /\ Tail(sparseQ) \in Seq(RectMsg) /\ Len(Tail(sparseQ)) <= SPARSE_QUEUE_DEPTH
        /\ Head(sparseQ) \in RectMsg
    BY <2>1, TailOf, Bounds
  <2>3. videoQ' \in Seq(BulkMsg) /\ Len(videoQ') <= QUEUE_DEPTH
    <3>1. \/ UNCHANGED videoQ
          \/ Len(videoQ) < QUEUE_DEPTH /\ videoQ' = Append(videoQ, Line)
      BY <1>13 DEF SparseReceive
    <3> QED
      BY <1>a, <2>1, <3>1, AppendOf, Bounds DEF QueuesTyped
  <2>4. sparse' \in SparseRec /\ sparse_connected' \in BOOLEAN
    <3>1. /\ \/ sparse' = [at |-> "poll", seen |-> 0, client |-> 0, epoch |-> 0]
             \/ sparse' = [sparse EXCEPT !.at = "poll"]
          /\ sparse_connected' \in {FALSE, sparse_connected}
      BY <1>13 DEF SparseReceive
    <3>2. sparse' \in SparseRec
      BY <3>1, <2>1, Bounds DEF SparseRec
    <3> QED
      BY <3>1, <3>2, <1>a DEF ThreadsTyped
  <2>5. gotSparse' \subseteq Viewer \X RectMsg
    <3>1. sparse.client # 0 => sparse.client \in Viewer
      BY <2>1, Bounds DEF SparseRec, Viewer
    <3>2. \/ UNCHANGED gotSparse
          \/ /\ sparse.client # 0
             /\ gotSparse' = gotSparse \cup {<<sparse.client, Head(sparseQ)>>}
      BY <1>13 DEF SparseReceive
    <3> QED
      BY <1>a, <2>2, <3>1, <3>2 DEF HistoryTyped
  <2>6. /\ sparseQ' = Tail(sparseQ)
        /\ UNCHANGED <<connected, session_epoch, cap, gates, sender, ends, world, live, got,
                       recovered, work>>
    BY <1>13 DEF SparseReceive
  <2> QED
    BY <1>0, <1>a, <2>2, <2>3, <2>4, <2>5, <2>6 DEF TInv, CapTyped, QueuesTyped, ThreadsTyped,
       WorldTyped, HistoryTyped, world
<1>14. ASSUME NEW e \in Epoch, FeedbackEnd(e) \/ \E s \in Sequence : FeedbackAck(e, s)
       PROVE  TInv'
  <2>1. ends' \subseteq Epoch /\ UNCHANGED <<flags, cap, queues, sender, sparse, world, live, history>>
    BY <1>14, <1>a DEF FeedbackEnd, FeedbackAck, ThreadsTyped
  <2> QED
    BY <1>0, <1>a, <2>1 DEF TInv, CapTyped, QueuesTyped, ThreadsTyped, WorldTyped, HistoryTyped,
       flags, queues, world, history
<1>15. ASSUME ViewerStep PROVE TInv'
  <2>1. PICK v \in Viewer : ViewerConnects(v) \/ ViewerOpensSparse(v) \/ ViewerCloses(v)
    BY <1>15 DEF ViewerStep
  <2>a. /\ \E x \in {"waiting", "open", "closed"} : viewers' = [viewers EXCEPT ![v] = x]
        /\ backlog' \in {backlog, Append(backlog, v)}
        /\ sparseBacklog' \in {sparseBacklog, Append(sparseBacklog, v)}
        /\ live' \subseteq live
    BY <2>1 DEF ViewerConnects, ViewerOpensSparse, ViewerCloses
  <2>b. Append(backlog, v) \in Seq(Viewer) /\ Append(sparseBacklog, v) \in Seq(Viewer)
    BY <1>a, AppendOf DEF WorldTyped
  <2>2. /\ viewers' \in [Viewer -> {"away", "waiting", "header", "open", "closed"}]
        /\ backlog' \in Seq(Viewer) /\ sparseBacklog' \in Seq(Viewer)
        /\ live' \subseteq Epoch
    BY <1>a, <2>a, <2>b DEF WorldTyped
  <2> QED
    BY <1>0, <1>a, <1>15, <2>2 DEF ViewerStep, TInv, CapTyped, QueuesTyped, ThreadsTyped, WorldTyped,
       HistoryTyped, flags, queues, history
<1>16. CASE UNCHANGED vars
  BY <1>0, <1>a, <1>16 DEF vars, TInv, CapTyped, QueuesTyped, ThreadsTyped, WorldTyped, HistoryTyped,
     flags, queues, world, history
<1> QED
  BY <1>1, <1>2, <1>4, <1>5, <1>6, <1>7, <1>8, <1>9, <1>10, <1>11, <1>12, <1>13, <1>14, <1>15, <1>16
     DEF Next, SenderLap, SparseStep

\* Type correctness of the host with all its threads and queues, for every value of the
\* constants: the bounded channels never hold more than their depth, no local of a thread is
\* used before it holds a real sequence.
THEOREM TypeCorrect == Spec => []TInv
<1> QED
  BY InitTyped, TypeStep, PTL DEF Spec

\* The host implements VisualFlow: whatever its threads do in whatever order, the permit window
\* sees only calls VisualFlow allows its callers. The theorems about VisualFlow speak of this
\* host through this one.
THEOREM FlowImplemented == Spec => FlowSpec
<1>1. Init => Flow!Init
  BY DEF Init
<1>2. TInv /\ [Next]_vars => [flow' # flow => Flow!Next]_flow
  BY FlowStep
<1> QED
  BY <1>1, <1>2, TypeCorrect, PTL DEF Spec, FlowSpec

\* Neither the window's epoch nor the frame sequence ever runs backwards.
LEMMA FlowAges == TInv /\ [Next]_vars => epoch <= epoch' /\ frame_seq <= frame_seq'
<1> SUFFICES ASSUME TInv, [Next]_vars PROVE epoch <= epoch' /\ frame_seq <= frame_seq'
  OBVIOUS
<1>1. [Flow!Next]_flow
  BY FlowStep
<1>2. epoch \in Int /\ frame_seq \in Int
  BY Bounds DEF TInv, Flow!TypeOK, Flow!Epoch
<1>3. ASSUME NEW e, Flow!Disconnect(e) PROVE epoch <= epoch'
  BY <1>2, <1>3 DEF Flow!Disconnect, Flow!Reset, Flow!flowVars
<1>4. CASE Flow!AcceptViewer
  BY <1>2, <1>4 DEF Flow!AcceptViewer, Flow!Reset
<1>5. ASSUME NEW e, Flow!RetireViewer(e) \/ Flow!FeedbackEnd(e)
      PROVE  epoch <= epoch' /\ frame_seq <= frame_seq'
  BY <1>2, <1>3, <1>5 DEF Flow!RetireViewer, Flow!FeedbackEnd
<1>6. CASE Flow!SkipFrame
  BY <1>2, <1>6 DEF Flow!flowVars, Flow!SkipFrame
<1>8. ASSUME NEW e, Flow!ReserveFrame(e) \/ Flow!ReserveAgain(e)
      PROVE  epoch <= epoch' /\ frame_seq <= frame_seq'
  BY <1>2, <1>8 DEF Flow!ReserveFrame, Flow!ReserveAgain, Flow!Reserve
<1>9. ASSUME NEW t, Flow!AdmitFrame(t) \/ Flow!CancelFrame(t)
      PROVE  epoch <= epoch' /\ frame_seq <= frame_seq'
  BY <1>2, <1>9 DEF Flow!AdmitFrame, Flow!Admit, Flow!CancelFrame, Flow!Cancel
<1>7. ASSUME NEW e, NEW s, Flow!FeedbackAck(e, s)
      PROVE  epoch <= epoch' /\ frame_seq <= frame_seq'
  BY <1>2, <1>3, <1>7 DEF Flow!FeedbackAck, Flow!Ack
<1> QED
  BY <1>1, <1>2, <1>4, <1>5, <1>6, <1>7, <1>8, <1>9 DEF flow, Flow!Next, Flow!Capture, Flow!Feedback

\* Only scheduling a frame, or scheduling it again after a refused move, writes plan.
LEMMA PlanSteps ==
  [Next]_vars => \/ UNCHANGED plan
                 \/ \E route \in work.routes, rem \in work.remainders \cup {"None"} :
                      CaptureFrame(route, rem)
                 \/ CaptureAgain
<1>1. Capture => \/ UNCHANGED plan
                 \/ \E route \in work.routes, rem \in work.remainders \cup {"None"} :
                      CaptureFrame(route, rem)
                 \/ CaptureAgain
  BY DEF Capture, CaptureTop, CaptureDiscard, CaptureBaseline,
     CaptureWindow, CaptureNothing, CaptureDrop, CaptureAdmit, CaptureFrame, CaptureCancel,
     CaptureAgain, CaptureAbandon, CaptureBegin, EmitDone, Withhold, EmitSuppressed, EmitAdmitted,
     CaptureRejected, CaptureFence, CapturePrelude, CaptureRaw, CaptureVideo, CaptureMixed, history
<1>2. SenderLap \/ SenderLineFails \/ SparseStep \/ CaptureTimesOut => UNCHANGED plan
  BY DEF SenderLap, SenderLineFails, SenderPoll, SenderJoin, SenderAccept, SenderPublish, SenderHeader,
     SenderReceive, SenderHandle, SparseStep, SparsePoll, SparseAccept, SparseReceive,
     CaptureTimesOut, history
<1> QED
  BY <1>1, <1>2 DEF Next, FeedbackEnd, FeedbackAck, ViewerStep, history, vars

\* Only a recovery update entering the bulk queue writes recovered.
LEMMA RecoveredSteps ==
  [Next]_vars => \/ UNCHANGED recovered
                 \/ /\ CaptureVideo /\ cap.plan.route = "Recovery"
                    /\ recovered' = recovered \cup {cap.plan.ep}
<1>1. SenderLap \/ SenderLineFails \/ SparseStep \/ CaptureTimesOut => UNCHANGED recovered
  BY DEF SenderLap, SenderLineFails, SenderPoll, SenderJoin, SenderAccept, SenderPublish, SenderHeader,
     SenderReceive, SenderHandle, SparseStep, SparsePoll, SparseAccept, SparseReceive,
     CaptureTimesOut, history
<1> QED
  BY <1>1, CaptureRecovered DEF Next, FeedbackEnd, FeedbackAck, ViewerStep, history, vars

\* What was scheduled for an epoch stays scheduled for it; a recovered epoch stays recovered.
LEMMA Ages ==
  TInv /\ PlanTyped /\ [Next]_vars =>
    /\ epoch <= epoch' /\ frame_seq <= frame_seq'
    /\ recovered \subseteq recovered'
    /\ \A s \in Sequence : s <= frame_seq => plan'[s].ep = plan[s].ep
    /\ PlanTyped'
<1> SUFFICES ASSUME TInv, PlanTyped, [Next]_vars
             PROVE  /\ recovered \subseteq recovered'
                    /\ \A s \in Sequence : s <= frame_seq => plan'[s].ep = plan[s].ep
                    /\ PlanTyped'
  BY FlowAges
<1>0. /\ frame_seq \in Int /\ cap.ep \in Epoch
      /\ cap.at \in Carrying => cap.plan.seq \in Sequence
  BY DEF TInv, CapTyped, CapRec, Flow!TypeOK
<1>1. recovered \subseteq recovered'
  BY RecoveredSteps
<1>2. CASE UNCHANGED plan
  BY <1>1, <1>2 DEF PlanTyped
<1>3. ASSUME NEW route \in work.routes, NEW rem \in work.remainders \cup {"None"},
             CaptureFrame(route, rem)
      PROVE  (\A s \in Sequence : s <= frame_seq => plan'[s].ep = plan[s].ep) /\ PlanTyped'
  <2>1. plan' = [plan EXCEPT ![frame_seq + 1] = [ep |-> cap.ep, legs |-> LegsOf(route, rem)]]
    BY <1>3 DEF CaptureFrame
  <2>2. route \in AnyRoute /\ rem \in AnyRemainder
    BY HostAssumption DEF TInv, HistoryTyped, AnyRoute, AnyRemainder
  <2>3. LegsOf(route, rem) \in SUBSET LegNames
    BY <2>2 DEF LegsOf, LegNames, AnyRoute, AnyRemainder
  <2> DEFINE x == [ep |-> cap.ep, legs |-> LegsOf(route, rem)]
  <2>4. x \in [ep : Epoch, legs : SUBSET LegNames]
    BY <1>0, <2>3
  <2>5. plan' = [plan EXCEPT ![frame_seq + 1] = x]
    BY <2>1
  <2> HIDE DEF x
  <2>6. PlanTyped'
    BY <2>4, <2>5 DEF PlanTyped
  <2>7. ASSUME NEW s \in Sequence, s <= frame_seq PROVE plan'[s].ep = plan[s].ep
    <3>1. s # frame_seq + 1
      BY <1>0, <2>7, Bounds DEF Sequence
    <3> QED
      BY <2>5, <3>1 DEF PlanTyped
  <2> QED
    BY <2>6, <2>7
<1>4. CASE CaptureAgain
  <2>1. \/ UNCHANGED plan
        \/ plan' = [plan EXCEPT ![cap.plan.seq].legs = {"video"}]
    BY <1>4 DEF CaptureAgain
  <2>2. cap.plan.seq \in Sequence
    BY <1>0, <1>4 DEF CaptureAgain, Carrying
  <2>3. {"video"} \in SUBSET LegNames
    BY DEF LegNames
  <2>4. CASE plan' = [plan EXCEPT ![cap.plan.seq].legs = {"video"}]
    <3> DEFINE x == [plan[cap.plan.seq] EXCEPT !.legs = {"video"}]
    <3>1. plan' = [plan EXCEPT ![cap.plan.seq] = x]
      BY <2>4
    <3>2. x \in [ep : Epoch, legs : SUBSET LegNames] /\ x.ep = plan[cap.plan.seq].ep
      BY <2>2, <2>3 DEF PlanTyped
    <3> HIDE DEF x
    <3> QED
      BY <1>1, <2>2, <3>1, <3>2 DEF PlanTyped
  <2> QED
    BY <1>2, <2>1, <2>4
<1> QED
  BY <1>1, <1>2, <1>3, <1>4, PlanSteps

\* The capture thread keeps CaptureInv: one case per action.
LEMMA CaptureStep == TInv /\ RInv /\ Capture => CaptureInv'
<1> SUFFICES ASSUME TInv, RInv, Capture PROVE CaptureInv'
  OBVIOUS
<1>0. /\ CapTyped /\ cap \in CapRec /\ cap.plans \in Seq(Plan) /\ cap.plan \in Plan
      /\ session_epoch' = session_epoch
      /\ CaptureInv /\ PlanTyped
      /\ cap.at \in Carrying => cap.plan.seq \in Sequence
      /\ \A i \in 1..Len(cap.plans) : cap.plans[i].seq \in Sequence /\ cap.plans[i] \in Plan
  BY CaptureFrames DEF TInv, RInv, CapTyped, CapRec, flags
<1>1. /\ epoch <= epoch' /\ frame_seq <= frame_seq'
      /\ recovered \subseteq recovered'
      /\ \A s \in Sequence : s <= frame_seq => plan'[s].ep = plan[s].ep
  BY <1>0, Ages DEF Next
<1> DEFINE StillBased(p) == /\ p.ep = session_epoch' /\ p.seq <= frame_seq'
                            /\ plan'[p.seq].ep = p.ep
                            /\ p.route # "Recovery" => p.ep \in recovered'
<1>2. ASSUME NEW p \in Plan, p.seq \in Sequence, Based(p) PROVE StillBased(p)
  <2>1. frame_seq \in Int /\ frame_seq' \in Int /\ p.seq \in Int
    BY FlowStep, FlowTypeStep, Bounds DEF TInv, Flow!TypeOK, Next, Plan
  <2> QED
    BY <1>0, <1>1, <1>2, <2>1 DEF Based
<1>3. \A i \in 1..Len(cap.plans) : Based(cap.plans[i]) /\ cap.plans[i].seq \in Sequence
  BY <1>0 DEF CaptureInv
<1>t. /\ Top \in CapRec /\ Top.plans = cap.plans /\ Top.at = "top" /\ Top.waiting = cap.waiting
      /\ Top.was_connected = cap.was_connected
  BY <1>0, TopTyped DEF Top, CapRec
<1> HIDE DEF StillBased
<1>p. \A i \in 1..Len(cap.plans) : StillBased(cap.plans[i])
  BY <1>0, <1>2, <1>3
<1>b. ASSUME cap.plans # <<>>
      PROVE  /\ StillBased(Head(cap.plans)) /\ Head(cap.plans).seq \in Sequence
             /\ \A i \in 1..Len(Tail(cap.plans)) : StillBased(Tail(cap.plans)[i])
             /\ Based(Head(cap.plans))
  <2>1. /\ Head(cap.plans) = cap.plans[1] /\ Len(cap.plans) \in Nat \ {0}
        /\ \A i \in 1..Len(Tail(cap.plans)) :
             Tail(cap.plans)[i] = cap.plans[i + 1] /\ i + 1 \in 1..Len(cap.plans)
    BY <1>0, <1>b, TailOf
  <2> QED
    BY <1>0, <1>3, <1>p, <2>1
<1>c. cap.at \in Carrying => Based(cap.plan) /\ StillBased(cap.plan)
  BY <1>0, <1>2 DEF CaptureInv
<1> DEFINE Goal ==
        /\ cap'.at = "acquire" => cap'.ep = session_epoch
        /\ cap'.at \in Carrying => StillBased(cap'.plan)
        /\ cap'.at \in {"admit", "fence", "prelude", "raw", "again", "mixed"} =>
             cap'.plan.route # "Recovery"
        /\ \A i \in 1..Len(cap'.plans) : StillBased(cap'.plans[i])
        /\ ~cap'.waiting => session_epoch \in recovered'
        /\ ~cap'.was_connected => cap'.waiting /\ cap'.at \in {"top", "discard"}
<1>d. SUFFICES Goal
  BY <1>0 DEF CaptureInv, Based, StillBased
<1>e. /\ ~cap.waiting => session_epoch \in recovered'
      /\ ~cap.was_connected => cap.waiting /\ cap.at \in {"top", "discard"}
      /\ cap.at = "acquire" => cap.ep = session_epoch
  BY <1>0, <1>1 DEF CaptureInv
<1> USE DEF CapRec
<1>4. CASE CaptureTop
  BY <1>4, <1>0, <1>e, <1>p DEF CaptureTop, AfterPump, Carrying
<1>5. CASE CaptureDiscard
  BY <1>5, <1>0, <1>e, <1>b DEF CaptureDiscard, Carrying
<1>6. CASE CaptureBaseline
  BY <1>6, <1>0, <1>e, <1>p DEF CaptureBaseline, Carrying
<1>7. CASE CaptureWindow
  BY <1>7, <1>0, <1>e, <1>p, <1>t DEF CaptureWindow, Carrying
<1>8. CASE CaptureNothing
  <2>1. cap.was_connected
    BY <1>8, <1>e DEF CaptureNothing
  <2>2. \/ cap' = Top
        \/ cap' = [Top EXCEPT !.suppress = TRUE]
        \/ \E at \in {"top", "discard"} :
             cap' = [Top EXCEPT !.at = at, !.waiting = TRUE, !.last = 0, !.suppress = TRUE]
    BY <1>8 DEF CaptureNothing, GoTop
  <2>3. /\ cap'.plans = cap.plans /\ cap'.at \in {"top", "discard"}
        /\ cap'.was_connected = cap.was_connected
        /\ ~cap'.waiting => ~cap.waiting
    BY <2>2, <1>t
  <2> QED
    BY <2>1, <2>3, <1>e, <1>p DEF Carrying
<1>9. CASE CaptureDrop \/ CaptureAbandon
  BY <1>9, <1>0, <1>e, <1>p, <1>t DEF CaptureDrop, CaptureAbandon, GoTop, Carrying
<1>10. CASE CaptureAdmit \/ CaptureFence
  BY <1>10, <1>0, <1>e, <1>p, <1>t, <1>c DEF CaptureAdmit, CaptureFence, GoTop, Goto, Carrying, CaptureInv
<1>11. ASSUME NEW route \in work.routes, NEW rem \in work.remainders \cup {"None"},
              CaptureFrame(route, rem)
       PROVE  Goal
  <2> DEFINE p == [seq |-> frame_seq + 1, ep |-> cap.ep, route |-> route, rem |-> rem,
                   lost |-> FALSE]
  <2>1. /\ cap.at = "acquire" /\ MayRoute(route, frame_seq + 1)
        /\ frame_seq' = frame_seq + 1 /\ frame_seq + 1 \in Sequence
        /\ plan' = [plan EXCEPT ![frame_seq + 1] = [ep |-> cap.ep, legs |-> LegsOf(route, rem)]]
    <3>1. frame_seq \in Nat /\ frame_seq < MaxSeq
      BY <1>11 DEF CaptureFrame, Flow!ReserveFrame, TInv, Flow!TypeOK
    <3>2. frame_seq + 1 \in Sequence
      BY <3>1, Bounds DEF Sequence
    <3> QED
      BY <1>11, <3>2 DEF CaptureFrame, Flow!ReserveFrame
  <2>2. plan'[frame_seq + 1].ep = cap.ep
    BY <1>0, <2>1 DEF PlanTyped
  <2>3. route # "Recovery" => ~cap.waiting
    BY <2>1 DEF MayRoute, MayMove
  <2>4. frame_seq \in Int
    BY DEF TInv, Flow!TypeOK
  <2>5. StillBased(p)
    <3>1. /\ p.ep = cap.ep /\ p.seq = frame_seq + 1 /\ p.route = route
      OBVIOUS
    <3> HIDE DEF p
    <3> QED
      BY <1>0, <1>e, <2>1, <2>2, <2>3, <2>4, <3>1 DEF StillBased
  <2> HIDE DEF p
  <2>6. /\ cap'.plans = cap.plans /\ cap'.plan = p
        /\ cap'.at \in {"drop", "admit", "begin"}
        /\ cap'.waiting = cap.waiting /\ cap'.was_connected = cap.was_connected
    BY <1>11, <1>0 DEF CaptureFrame, p
  <2>7. cap'.at = "admit" => p.route # "Recovery"
    BY <1>11, <1>0 DEF CaptureFrame, p
  <2> QED
    BY <1>e, <1>p, <2>1, <2>5, <2>6, <2>7 DEF Carrying
<1>12. CASE CapturePrelude
  <2>1. \/ cap'.at = "top"
        \/ cap'.at \in {"raw", "begin", "cancel"} /\ cap'.plan = cap.plan
    BY <1>12, <1>0, <1>t DEF CapturePrelude, Goto, Plan, AnyRemainder
  <2>2. /\ cap'.plans = cap.plans /\ cap'.waiting = cap.waiting
        /\ cap'.was_connected = cap.was_connected
    BY <1>12, <1>0, <1>t DEF CapturePrelude, Goto, Plan, AnyRemainder
  <2>3. cap.at = "prelude"
    BY <1>12 DEF CapturePrelude
  <2> QED
    BY <1>0, <1>e, <1>p, <1>c, <2>1, <2>2, <2>3 DEF Carrying, CaptureInv
<1>13. CASE CaptureRaw
  BY <1>13, <1>0, <1>e, <1>p, <1>t, <1>c DEF CaptureRaw, Goto, Carrying, CaptureInv
<1>14. CASE CaptureCancel
  BY <1>14, <1>0, <1>e, <1>p, <1>t, <1>c DEF CaptureCancel, Carrying, CaptureInv
<1>15. CASE CaptureAgain
  <2> DEFINE p == [cap.plan EXCEPT !.route = "Video", !.rem = "None"]
  <2>1. cap.at = "again"
    BY <1>15 DEF CaptureAgain
  <2>2. StillBased(p) /\ p.route # "Recovery"
    BY <1>0, <1>c, <2>1 DEF StillBased, CaptureInv, Carrying, Plan
  <2>3. \/ cap' = Top
        \/ cap' = [cap EXCEPT !.at = "begin", !.plan = p]
    BY <1>15 DEF CaptureAgain, GoTop
  <2> HIDE DEF p
  <2>4. /\ cap'.plans = cap.plans /\ cap'.waiting = cap.waiting
        /\ cap'.was_connected = cap.was_connected
        /\ cap'.at # "top" => cap'.at = "begin" /\ cap'.plan = p
    <3>1. CASE cap' = Top
      BY <1>t, <3>1
    <3>2. CASE cap' = [cap EXCEPT !.at = "begin", !.plan = p]
      BY <1>0, <3>2
    <3> QED
      BY <2>3, <3>1, <3>2
  <2> QED
    BY <1>e, <1>p, <2>1, <2>2, <2>4 DEF Carrying
<1>16. CASE CaptureBegin
  <2> DEFINE rest == IF Len(cap.plans) >= MAX_PENDING_LOGICAL_FRAMES THEN Tail(cap.plans)
                     ELSE cap.plans
  <2>1. rest \in Seq(Plan) /\ \A i \in 1..Len(rest) : StillBased(rest[i])
    <3>1. Len(cap.plans) >= MAX_PENDING_LOGICAL_FRAMES => cap.plans # <<>>
      BY <1>0, Bounds
    <3> QED
      BY <1>0, <1>b, <1>p, <3>1, TailOf
  <2>2. /\ cap.at = "begin" /\ cap'.at = "encode" /\ cap'.plans = Append(rest, cap.plan)
        /\ cap'.was_connected = cap.was_connected
        /\ ~cap'.waiting => ~cap.waiting
    BY <1>16, <1>0 DEF CaptureBegin
  <2> HIDE DEF rest
  <2>3. /\ Len(cap'.plans) = Len(rest) + 1 /\ Len(rest) \in Nat
        /\ \A i \in 1..Len(rest) : cap'.plans[i] = rest[i]
        /\ cap'.plans[Len(rest) + 1] = cap.plan
    BY <1>0, <2>1, <2>2, AppendOf
  <2>4. StillBased(cap.plan)
    BY <1>c, <2>2 DEF Carrying
  <2>5. \A i \in 1..Len(cap'.plans) : StillBased(cap'.plans[i])
    BY <2>1, <2>3, <2>4
  <2> QED
    BY <1>e, <2>2, <2>5 DEF Carrying
<1>17. CASE EmitDone
  <2>1. cap.at \in {"pump", "encode"} /\ cap.was_connected
    BY <1>17, <1>e DEF EmitDone, Emitting
  <2>2. cap' = Top \/ \E at \in {"baseline", "window"} : cap' = [cap EXCEPT !.at = at]
    BY <1>17 DEF EmitDone, AfterPump
  <2>3. /\ cap'.plans = cap.plans /\ cap'.at \in {"top", "baseline", "window"}
        /\ cap'.waiting = cap.waiting /\ cap'.was_connected = cap.was_connected
    BY <1>0, <1>t, <2>2
  <2> QED
    BY <1>e, <1>p, <2>1, <2>3 DEF Carrying
<1>18. CASE Withhold
  <2> DEFINE p == [cap.plans[1] EXCEPT !.lost = TRUE]
             q == [cap.plans EXCEPT ![1] = p]
  <2>1. cap.plans # <<>> /\ cap.at \in {"pump", "encode"}
    BY <1>18 DEF Withhold, Complete, Emitting
  <2>2. cap' = [cap EXCEPT !.plans = q, !.invalid = TRUE]
    BY <1>18 DEF Withhold
  <2>3. StillBased(cap.plans[1]) /\ cap.plans[1] \in Plan
    BY <1>0, <1>p, <2>1
  <2>4. StillBased(p)
    BY <2>3 DEF StillBased, Plan
  <2> HIDE DEF p
  <2>5. Len(q) = Len(cap.plans) /\ \A i \in 1..Len(q) : q[i] = IF i = 1 THEN p ELSE cap.plans[i]
    BY <1>0
  <2> HIDE DEF q
  <2>6. /\ cap'.plans = q /\ cap'.at = cap.at /\ cap'.waiting = cap.waiting
        /\ cap'.was_connected = cap.was_connected
    BY <1>0, <2>2
  <2> QED
    BY <1>e, <1>p, <2>1, <2>4, <2>5, <2>6 DEF Carrying
<1>19. CASE EmitSuppressed
  BY <1>19, <1>0, <1>e, <1>p, <1>b DEF EmitSuppressed, Complete, Emitting, Carrying, Goto
<1>20. CASE EmitAdmitted
  BY <1>20, <1>0, <1>e, <1>p, <1>b DEF EmitAdmitted, Complete, Emitting, Carrying
<1>21. CASE CaptureVideo
  BY <1>21, <1>0, <1>e, <1>p, <1>c DEF CaptureVideo, Carrying, Goto, Based
<1>22. CASE CaptureMixed \/ CaptureRejected
  BY <1>22, <1>0, <1>e, <1>p, <1>c DEF CaptureMixed, CaptureRejected, Carrying, Goto
<1> QED
  BY <1>4, <1>5, <1>6, <1>7, <1>8, <1>9, <1>10, <1>11, <1>12, <1>13, <1>14,
     <1>15, <1>16, <1>17, <1>18, <1>19, <1>20, <1>21, <1>22 DEF Capture

\* What was true of a message stays true of it as the host goes on.
LEMMA Kept ==
  ASSUME TInv, RInv, [Next]_vars
  PROVE  /\ session_epoch' = session_epoch =>
              \A m \in BulkMsg : Message(m) =>
                m.seq \in 1..frame_seq' /\ plan'[m.seq].ep = session_epoch'
         /\ \A m \in BulkMsg, e \in Epoch : m.seq \in 1..frame_seq /\ plan[m.seq].ep = e =>
              m.seq \in 1..frame_seq' /\ plan'[m.seq].ep = e
         /\ \A m \in RectMsg : m.seq <= frame_seq /\ plan[m.seq].ep \in recovered =>
              m.seq <= frame_seq' /\ plan'[m.seq].ep \in recovered'
<1>1. /\ frame_seq \in 0..MaxSeq /\ frame_seq' \in 0..MaxSeq
  BY FlowStep, FlowTypeStep DEF TInv, Flow!TypeOK
<1>2. /\ frame_seq <= frame_seq' /\ recovered \subseteq recovered'
      /\ \A s \in Sequence : s <= frame_seq => plan'[s].ep = plan[s].ep
  BY Ages DEF RInv
<1>3. \A n : n \in 1..frame_seq => n \in Sequence /\ n <= frame_seq /\ n \in 1..frame_seq'
  BY <1>1, <1>2, Bounds DEF Sequence
<1>4. \A m \in RectMsg : m.seq \in Sequence /\ m.seq \in Int
  BY Bounds DEF RectMsg, Sequence
<1> QED
  BY <1>1, <1>2, <1>3, <1>4 DEF Message

\* While a viewer is being accepted the capture thread has nothing to do but look at connected.
LEMMA CaptureConnect == TInv /\ RInv /\ Capture => ConnectInv'
<1> SUFFICES ASSUME TInv, RInv, Capture PROVE ConnectInv'
  OBVIOUS
<1>1. UNCHANGED <<connected, session_epoch, sender, backlog>>
  BY CaptureFrames DEF flags, world
<1>2. session_epoch <= epoch' /\ sender.client <= epoch'
  <2>1. epoch \in Int /\ epoch' \in Int /\ session_epoch \in Int /\ sender.client \in Int
    <3>1. epoch \in Epoch /\ epoch' \in Epoch
      BY FlowStep, FlowTypeStep DEF TInv, Flow!TypeOK, Flow!Epoch, Epoch, Next
    <3>2. session_epoch \in Epoch /\ sender.client \in Epoch
      BY DEF TInv, ThreadsTyped, SenderRec
    <3> QED
      BY <3>1, <3>2, Bounds DEF Epoch
  <2>2. epoch <= epoch'
    BY FlowAges DEF Next
  <2> QED
    BY <2>1, <2>2 DEF RInv, ConnectInv
<1>3. ASSUME Quiet PROVE Quiet'
  <2>1. CaptureTop
    BY <1>3 DEF Quiet, Capture, CaptureTop, CaptureDiscard, CaptureBaseline,
     CaptureWindow, CaptureNothing, CaptureDrop, CaptureAdmit, CaptureFrame, CaptureCancel,
     CaptureAgain, CaptureAbandon, CaptureBegin, EmitDone, Withhold, EmitSuppressed, EmitAdmitted,
     CaptureRejected, CaptureFence, CapturePrelude, CaptureRaw, CaptureVideo, CaptureMixed, Complete,
     Emitting
  <2>2. cap \in CapRec
    BY DEF TInv, CapTyped
  <2>3. cap'.at = "top" /\ cap'.plans = cap.plans /\ ~cap'.was_connected
    BY <1>3, <2>1, <2>2 DEF CaptureTop, Quiet, CapRec
  <2> QED
    BY <1>1, <1>3, <2>1, <2>3 DEF Quiet, CaptureTop, queues
<1> QED
  BY <1>1, <1>2, <1>3 DEF RInv, ConnectInv

\* The bulk message an update enters the queue with.
LEMMA CaptureSends ==
  ASSUME TInv, RInv, Capture
  PROVE  \/ UNCHANGED <<videoQ, recovered>>
         \/ \E m \in BulkMsg :
              /\ videoQ' = Append(videoQ, m) /\ m.type # "line"
              /\ m.seq \in 1..frame_seq /\ m.seq \in Sequence
              /\ plan[m.seq].ep = session_epoch
              /\ m.kind = "Recovery" => ~m.gated
              /\ \/ m.kind # "Recovery" /\ session_epoch \in recovered /\ UNCHANGED recovered
                 \/ m.kind = "Recovery" /\ recovered' = recovered \cup {session_epoch}
<1>1. CASE CaptureFence
  <2> DEFINE m == Bulk("fence", cap.plan, TRUE)
  <2>1. /\ Based(cap.plan) /\ cap.plan.route # "Recovery"
        /\ cap.plan.seq \in Sequence /\ cap.plan \in Plan
    BY <1>1 DEF CaptureFence, RInv, CaptureInv, Carrying, TInv, CapTyped, CapRec
  <2>2. m \in BulkMsg
    BY <2>1, MessagesTyped
  <2>3. m.type # "line" /\ m.seq = cap.plan.seq /\ m.kind = cap.plan.route
    BY DEF Bulk
  <2>4. m.seq \in 1..frame_seq
    <3>1. cap.plan.seq <= frame_seq /\ frame_seq \in 0..MaxSeq
      BY <2>1 DEF Based, TInv, Flow!TypeOK
    <3>2. cap.plan.seq \in 1..frame_seq
      BY <2>1, <3>1, Bounds DEF Sequence
    <3> QED
      BY <2>3, <3>2
  <2>5. UNCHANGED recovered /\ (videoQ' = Append(videoQ, m) \/ UNCHANGED videoQ)
    BY <1>1 DEF CaptureFence, history
  <2> HIDE DEF m
  <2> QED
    BY <2>1, <2>2, <2>3, <2>4, <2>5 DEF Based
<1>2. CASE CaptureVideo
  <2> DEFINE mixed == cap.plan.route = "Mixed"
             m == Bulk("video", cap.plan, mixed)
  <2>1. Based(cap.plan) /\ cap.plan.seq \in Sequence /\ cap.plan \in Plan
    BY <1>2 DEF CaptureVideo, RInv, CaptureInv, Carrying, TInv, CapTyped, CapRec
  <2>2. m \in BulkMsg
    BY <2>1, MessagesTyped
  <2>3. /\ m.type # "line" /\ m.seq = cap.plan.seq /\ m.kind = cap.plan.route
        /\ m.gated = (cap.plan.route = "Mixed")
    BY DEF Bulk
  <2>4. m.seq \in 1..frame_seq
    <3>1. cap.plan.seq <= frame_seq /\ frame_seq \in 0..MaxSeq
      BY <2>1 DEF Based, TInv, Flow!TypeOK
    <3>2. cap.plan.seq \in 1..frame_seq
      BY <2>1, <3>1, Bounds DEF Sequence
    <3> QED
      BY <2>3, <3>2
  <2>5. \/ UNCHANGED <<videoQ, recovered>>
        \/ /\ videoQ' = Append(videoQ, m)
           /\ recovered' = IF cap.plan.route = "Recovery" THEN recovered \cup {cap.plan.ep}
                           ELSE recovered
    BY <1>2 DEF CaptureVideo
  <2> HIDE DEF m, mixed
  <2> QED
    BY <2>1, <2>2, <2>3, <2>4, <2>5 DEF Based
<1>3. CASE ~CaptureFence /\ ~CaptureVideo
  BY <1>3 DEF Capture, CaptureTop, CaptureDiscard, CaptureBaseline,
     CaptureWindow, CaptureNothing, CaptureDrop, CaptureAdmit, CaptureFrame, CaptureCancel,
     CaptureAgain, CaptureAbandon, CaptureBegin, EmitDone, Withhold, EmitSuppressed, EmitAdmitted,
     CaptureRejected, CapturePrelude, CaptureRaw, CaptureMixed, history, queues
<1> QED
  BY <1>1, <1>2, <1>3

\* What the capture thread queues keeps the recovery update in the lead: the first message
\* queued for a viewer is its recovery update, because anything else needs the epoch recovered.
LEMMA CaptureBulk == TInv /\ RInv /\ Capture => BulkInv' /\ LeadInv'
<1> SUFFICES ASSUME TInv, RInv, Capture PROVE BulkInv' /\ LeadInv'
  OBVIOUS
<1>0. /\ UNCHANGED <<session_epoch, sender, got>> /\ live' \subseteq live
      /\ videoQ \in Seq(BulkMsg) /\ sender.batch \in Seq(BulkMsg)
      /\ got \in [Epoch -> Seq(BulkMsg)]
      /\ session_epoch \in Epoch
  BY CaptureFrames, CaptureLive DEF flags, TInv, QueuesTyped, ThreadsTyped, SenderRec, HistoryTyped
<1>a. epoch \in Int /\ epoch' \in Int /\ epoch <= epoch' /\ \A e \in Epoch : e \in Int
  BY FlowStep, FlowTypeStep, FlowAges, Bounds DEF TInv, Flow!TypeOK, Flow!Epoch, Next, Epoch
<1>b. /\ \A m \in BulkMsg : Message(m) =>
           m.seq \in 1..frame_seq' /\ plan'[m.seq].ep = session_epoch'
      /\ \A m \in BulkMsg, e \in Epoch : m.seq \in 1..frame_seq /\ plan[m.seq].ep = e =>
           m.seq \in 1..frame_seq' /\ plan'[m.seq].ep = e
  BY <1>0, Kept DEF Next
<1>c. \/ UNCHANGED <<videoQ, recovered>>
      \/ \E m \in BulkMsg :
           /\ videoQ' = Append(videoQ, m) /\ m.type # "line"
           /\ m.seq \in 1..frame_seq /\ m.seq \in Sequence
           /\ plan[m.seq].ep = session_epoch
           /\ m.kind = "Recovery" => ~m.gated
           /\ \/ m.kind # "Recovery" /\ session_epoch \in recovered /\ UNCHANGED recovered
              \/ m.kind = "Recovery" /\ recovered' = recovered \cup {session_epoch}
  BY CaptureSends
<1>1. \A i \in 1..Len(videoQ') : videoQ'[i].type # "line" =>
        /\ videoQ'[i].seq \in 1..frame_seq' /\ plan'[videoQ'[i].seq].ep = session_epoch'
        /\ videoQ'[i].kind = "Recovery" => ~videoQ'[i].gated
  <2>1. \A i \in 1..Len(videoQ) : videoQ[i] \in BulkMsg /\ (videoQ[i].type # "line" => Message(videoQ[i]))
    BY <1>0 DEF RInv, BulkInv
  <2>2. CASE UNCHANGED videoQ
    BY <1>b, <2>1, <2>2 DEF Message
  <2>3. ASSUME NEW m \in BulkMsg, videoQ' = Append(videoQ, m), Message(m)
        PROVE  \A i \in 1..Len(videoQ') : videoQ'[i].type # "line" =>
                 /\ videoQ'[i].seq \in 1..frame_seq' /\ plan'[videoQ'[i].seq].ep = session_epoch'
                 /\ videoQ'[i].kind = "Recovery" => ~videoQ'[i].gated
    <3>1. /\ Len(videoQ') = Len(videoQ) + 1 /\ Len(videoQ) \in Nat
          /\ \A i \in 1..Len(videoQ) : videoQ'[i] = videoQ[i]
          /\ videoQ'[Len(videoQ) + 1] = m
      BY <1>0, <2>3, AppendOf
    <3>2. \A i \in 1..Len(videoQ') : videoQ'[i] \in BulkMsg
                                       /\ (videoQ'[i].type # "line" => Message(videoQ'[i]))
      BY <2>1, <2>3, <3>1
    <3> QED
      BY <1>b, <3>2 DEF Message
  <2> QED
    BY <1>c, <2>2, <2>3 DEF Message
<1>2. \A i \in 1..Len(sender.batch) :
        /\ sender.batch[i].type # "line"
        /\ sender.batch[i].seq \in 1..frame_seq' /\ plan'[sender.batch[i].seq].ep = session_epoch'
        /\ sender.batch[i].kind = "Recovery" => ~sender.batch[i].gated
  <2>1. \A i \in 1..Len(sender.batch) :
          /\ sender.batch[i] \in BulkMsg
          /\ sender.batch[i].type # "line" /\ Message(sender.batch[i])
    BY <1>0 DEF RInv, BulkInv
  <2> QED
    BY <1>b, <2>1 DEF Message
<1>3. \A e \in Epoch : \A i \in 1..Len(got[e]) :
        got[e][i].seq \in 1..frame_seq' /\ plan'[got[e][i].seq].ep = e
  <2>1. \A e \in Epoch : \A i \in 1..Len(got[e]) :
          got[e][i] \in BulkMsg /\ got[e][i].seq \in 1..frame_seq /\ plan[got[e][i].seq].ep = e
    BY <1>0 DEF RInv, BulkInv
  <2> QED
    BY <1>b, <2>1
<1>4. \A e \in recovered' : e <= epoch'
  <2>1. recovered' \subseteq recovered \cup {session_epoch}
    BY <1>c
  <2>2. session_epoch <= epoch /\ \A e \in recovered : e <= epoch /\ e \in Epoch
    BY DEF RInv, ConnectInv, BulkInv, TInv, HistoryTyped
  <2> QED
    BY <1>0, <1>a, <2>1, <2>2
<1>5. \A e \in Epoch : got[e] # <<>> => e <= epoch' /\ got[e][1].kind = "Recovery"
  BY <1>a DEF RInv, BulkInv
<1>6. BulkInv'
  BY <1>0, <1>1, <1>2, <1>3, <1>4, <1>5 DEF BulkInv, Message
<1>7. LeadInv'
  <2> SUFFICES ASSUME sender.client # 0, sender.client \in live, got[sender.client] = <<>>
               PROVE  RecoveryLeads'
    BY <1>0 DEF LeadInv
  <2>1. RecoveryLeads
    BY DEF RInv, LeadInv
  <2>2. CASE sender.batch # <<>>
    BY <1>0, <2>1, <2>2 DEF RecoveryLeads
  <2>3. CASE sender.batch = <<>> /\ UNCHANGED <<videoQ, recovered>>
    BY <1>0, <2>1, <2>3 DEF RecoveryLeads
  <2>4. ASSUME sender.batch = <<>>, NEW m \in BulkMsg,
               videoQ' = Append(videoQ, m), m.type # "line",
               m.kind # "Recovery" => session_epoch \in recovered
        PROVE  RecoveryLeads'
    <3>1. /\ Len(videoQ') = Len(videoQ) + 1 /\ Len(videoQ) \in Nat
          /\ \A i \in 1..Len(videoQ) : videoQ'[i] = videoQ[i]
          /\ videoQ'[Len(videoQ) + 1] = m
      BY <1>0, <2>4, AppendOf
    <3>2. sender.client = session_epoch
      <4>1. cap.at # "top" \/ videoQ' = videoQ
        BY DEF Capture, CaptureTop, CaptureDiscard, CaptureBaseline,
         CaptureWindow, CaptureNothing, CaptureDrop, CaptureAdmit, CaptureFrame, CaptureCancel,
         CaptureAgain, CaptureAbandon, CaptureBegin, EmitDone, Withhold, EmitSuppressed, EmitAdmitted,
         CaptureRejected, CaptureFence, CapturePrelude, CaptureRaw, CaptureVideo, CaptureMixed,
         Complete, Emitting, queues
      <4>2. videoQ' # videoQ
        BY <3>1
      <4> QED
        BY <4>1, <4>2 DEF RInv, ConnectInv, Quiet
    <3>3. ASSUME NEW j \in 1..Len(videoQ'), videoQ'[j].type # "line",
                 \A k \in 1..j - 1 : videoQ'[k].type = "line"
          PROVE  videoQ'[j].kind = "Recovery"
      <4>1. CASE j \in 1..Len(videoQ)
        <5>1. videoQ[j].type # "line" /\ \A k \in 1..j - 1 : videoQ[k].type = "line"
          BY <3>1, <3>3, <4>1
        <5> QED
          BY <2>1, <2>4, <3>1, <4>1, <5>1 DEF RecoveryLeads
      <4>2. CASE j = Len(videoQ) + 1
        <5>1. \A k \in 1..Len(videoQ) : videoQ[k].type = "line"
          BY <3>1, <3>3, <4>2
        <5>2. sender.client \notin recovered
          BY <2>1, <2>4, <5>1 DEF RecoveryLeads
        <5> QED
          BY <2>4, <3>1, <3>2, <4>2, <5>2
      <4> QED
        BY <3>1, <4>1, <4>2
    <3>4. \E j \in 1..Len(videoQ') : videoQ'[j].type # "line"
      BY <2>4, <3>1
    <3> QED
      BY <1>0, <2>4, <3>3, <3>4 DEF RecoveryLeads
  <2> QED
    BY <1>c, <2>2, <2>3, <2>4
<1> QED
  BY <1>6, <1>7

\* The capture thread queues an overlay only after the recovery update of its epoch.
LEMMA CaptureSparse == TInv /\ RInv /\ Capture => SparseInv'
<1> SUFFICES ASSUME TInv, RInv, Capture PROVE SparseInv'
  OBVIOUS
<1> DEFINE Fine(m) == m.seq <= frame_seq' /\ plan'[m.seq].ep \in recovered'
<1>0. /\ sparseQ \in Seq(RectMsg)
      /\ \A i \in 1..Len(sparseQ) : sparseQ[i] \in RectMsg /\ Fine(sparseQ[i])
  <2>1. \A m \in RectMsg : m.seq <= frame_seq /\ plan[m.seq].ep \in recovered => Fine(m)
    BY Kept DEF Next
  <2> QED
    BY <2>1 DEF TInv, QueuesTyped, RInv, SparseInv
<1>1. CASE UNCHANGED sparseQ
  BY <1>0, <1>1 DEF SparseInv
<1>2. ASSUME NEW m \in RectMsg, sparseQ' = Append(sparseQ, m), m.seq = cap.plan.seq,
             cap.at \in {"prelude", "raw", "mixed"}
      PROVE  SparseInv'
  <2>1. /\ cap.plan.ep \in recovered /\ m.seq <= frame_seq /\ plan[m.seq].ep = cap.plan.ep
    BY <1>2 DEF RInv, CaptureInv, Carrying, Based
  <2>2. Fine(m)
    BY <2>1, Kept DEF Next
  <2>3. /\ Len(sparseQ') = Len(sparseQ) + 1 /\ Len(sparseQ) \in Nat
        /\ \A i \in 1..Len(sparseQ) : sparseQ'[i] = sparseQ[i]
        /\ sparseQ'[Len(sparseQ) + 1] = m
    BY <1>0, <1>2, AppendOf
  <2> QED
    BY <1>0, <2>2, <2>3 DEF SparseInv
<1>3. CASE CapturePrelude \/ CaptureRaw \/ CaptureMixed
  <2>1. \/ UNCHANGED sparseQ
        \/ \E type \in {"prelude", "raw"}, g \in BOOLEAN :
             sparseQ' = Append(sparseQ, SparseMsg(type, cap.plan, g))
    BY <1>3 DEF CapturePrelude, CaptureRaw, CaptureMixed
  <2>2. cap.at \in {"prelude", "raw", "mixed"}
    BY <1>3 DEF CapturePrelude, CaptureRaw, CaptureMixed
  <2>3. \A type \in {"prelude", "raw"}, g \in BOOLEAN :
          SparseMsg(type, cap.plan, g) \in RectMsg /\ SparseMsg(type, cap.plan, g).seq = cap.plan.seq
    BY <2>2, MessagesTyped DEF TInv, CapTyped, CapRec, Carrying, SparseMsg
  <2> QED
    BY <1>1, <1>2, <2>1, <2>2, <2>3
<1>4. CASE ~CapturePrelude /\ ~CaptureRaw /\ ~CaptureMixed
  BY <1>1, <1>4 DEF Capture, CaptureTop, CaptureDiscard, CaptureBaseline,
     CaptureWindow, CaptureNothing, CaptureDrop, CaptureAdmit, CaptureFrame, CaptureCancel,
     CaptureAgain, CaptureAbandon, CaptureBegin, EmitDone, Withhold, EmitSuppressed, EmitAdmitted,
     CaptureRejected, CaptureFence, CaptureVideo, queues
<1> QED
  BY <1>3, <1>4

\* Steps of other threads keep CaptureInv, and so does the start of an iteration.
LEMMA CaptureKept ==
  ASSUME TInv, RInv, [Next]_vars, UNCHANGED session_epoch, cap' = cap \/ cap' = Top
  PROVE  CaptureInv'
<1> DEFINE StillBased(p) == /\ p.ep = session_epoch' /\ p.seq <= frame_seq'
                            /\ plan'[p.seq].ep = p.ep
                            /\ p.route # "Recovery" => p.ep \in recovered'
<1>0. /\ CapTyped /\ cap \in CapRec /\ cap.plans \in Seq(Plan) /\ cap.plan \in Plan
      /\ CaptureInv
      /\ cap.at \in Carrying => cap.plan.seq \in Sequence
      /\ \A i \in 1..Len(cap.plans) : cap.plans[i].seq \in Sequence /\ cap.plans[i] \in Plan
  BY DEF TInv, RInv, CapTyped, CapRec
<1>1. /\ frame_seq <= frame_seq' /\ recovered \subseteq recovered'
      /\ \A s \in Sequence : s <= frame_seq => plan'[s].ep = plan[s].ep
  BY Ages DEF RInv
<1>2. ASSUME NEW p \in Plan, p.seq \in Sequence, Based(p) PROVE StillBased(p)
  <2>1. frame_seq \in Int /\ frame_seq' \in Int /\ p.seq \in Int
    BY FlowStep, FlowTypeStep, Bounds DEF TInv, Flow!TypeOK, Plan
  <2> QED
    BY <1>1, <1>2, <2>1 DEF Based
<1>3. \A i \in 1..Len(cap.plans) : StillBased(cap.plans[i])
  BY <1>0, <1>2 DEF CaptureInv
<1>4. cap.at \in Carrying => StillBased(cap.plan)
  BY <1>0, <1>2 DEF CaptureInv
<1>5. ~cap.waiting => session_epoch' \in recovered'
  BY <1>0, <1>1 DEF CaptureInv
<1>6. CASE cap' = cap
  BY <1>0, <1>3, <1>4, <1>5, <1>6 DEF CaptureInv, Based
<1>7. CASE cap' = Top
  <2>1. /\ Top.plans = cap.plans /\ Top.at = "top" /\ Top.waiting = cap.waiting
        /\ Top.was_connected = cap.was_connected
    BY <1>0, TopTyped DEF Top, CapRec
  <2> QED
    BY <1>0, <1>3, <1>5, <1>7, <2>1 DEF CaptureInv, Based, Carrying
<1> QED
  BY <1>6, <1>7

\* Steps that move no bulk message keep BulkInv.
LEMMA BulkKept ==
  ASSUME TInv, RInv, [Next]_vars, UNCHANGED <<session_epoch, videoQ, got, recovered>>,
         sender'.batch = sender.batch
  PROVE  BulkInv'
<1>0. /\ videoQ \in Seq(BulkMsg) /\ sender.batch \in Seq(BulkMsg)
      /\ got \in [Epoch -> Seq(BulkMsg)] /\ recovered \subseteq Epoch /\ BulkInv
  BY DEF TInv, QueuesTyped, ThreadsTyped, SenderRec, HistoryTyped, RInv
<1>a. epoch \in Int /\ epoch' \in Int /\ epoch <= epoch' /\ \A e \in Epoch : e \in Int
  BY FlowStep, FlowTypeStep, FlowAges, Bounds DEF TInv, Flow!TypeOK, Flow!Epoch, Epoch
<1>b. /\ \A m \in BulkMsg : Message(m) =>
           m.seq \in 1..frame_seq' /\ plan'[m.seq].ep = session_epoch'
      /\ \A m \in BulkMsg, e \in Epoch : m.seq \in 1..frame_seq /\ plan[m.seq].ep = e =>
           m.seq \in 1..frame_seq' /\ plan'[m.seq].ep = e
  BY <1>0, Kept
<1>1. \A i \in 1..Len(videoQ) : videoQ[i] \in BulkMsg /\ (videoQ[i].type # "line" => Message(videoQ[i]))
  BY <1>0 DEF BulkInv
<1>2. \A i \in 1..Len(sender.batch) :
        /\ sender.batch[i] \in BulkMsg
        /\ sender.batch[i].type # "line" /\ Message(sender.batch[i])
  BY <1>0 DEF BulkInv
<1>3. \A e \in Epoch : \A i \in 1..Len(got[e]) :
        got[e][i] \in BulkMsg /\ got[e][i].seq \in 1..frame_seq /\ plan[got[e][i].seq].ep = e
  BY <1>0 DEF BulkInv
<1>4. \A i \in 1..Len(videoQ) : videoQ[i].type # "line" =>
        /\ videoQ[i].seq \in 1..frame_seq' /\ plan'[videoQ[i].seq].ep = session_epoch'
        /\ videoQ[i].kind = "Recovery" => ~videoQ[i].gated
  BY <1>b, <1>1 DEF Message
<1>5. \A i \in 1..Len(sender.batch) :
        /\ sender.batch[i].type # "line"
        /\ sender.batch[i].seq \in 1..frame_seq' /\ plan'[sender.batch[i].seq].ep = session_epoch'
        /\ sender.batch[i].kind = "Recovery" => ~sender.batch[i].gated
  BY <1>b, <1>2 DEF Message
<1>6. \A e \in Epoch : \A i \in 1..Len(got[e]) :
        got[e][i].seq \in 1..frame_seq' /\ plan'[got[e][i].seq].ep = e
  BY <1>b, <1>3
<1>7. \A e \in Epoch : got[e] # <<>> => e <= epoch' /\ got[e][1].kind = "Recovery"
  BY <1>0, <1>a DEF BulkInv
<1>8. \A e \in recovered : e <= epoch'
  BY <1>0, <1>a DEF BulkInv
<1> QED
  BY <1>4, <1>5, <1>6, <1>7, <1>8 DEF BulkInv, Message

\* Steps that move no bulk message and serve no new viewer keep LeadInv.
LEMMA LeadKept ==
  ASSUME LeadInv, UNCHANGED <<videoQ, got, recovered>>, sender'.batch = sender.batch,
         live' \subseteq live,
         sender'.client = sender.client \/ sender'.client = 0 \/ sender'.client \notin live'
  PROVE  LeadInv'
  BY DEF LeadInv, RecoveryLeads

\* Steps that leave the sparse queue alone keep SparseInv.
LEMMA SparseKept == ASSUME TInv, RInv, [Next]_vars, UNCHANGED sparseQ PROVE SparseInv'
<1>1. \A i \in 1..Len(sparseQ) : sparseQ[i] \in RectMsg
  BY DEF TInv, QueuesTyped
<1> QED
  BY <1>1, Kept DEF RInv, SparseInv

\* The epochs the sender has served or published are no newer than the window's.
LEMMA EpochsKept ==
  ASSUME TInv, RInv, [Next]_vars
  PROVE  /\ session_epoch <= epoch' /\ sender.client <= epoch'
         /\ epoch \in Int /\ epoch' \in Int /\ epoch <= epoch'
<1>1. epoch \in Int /\ epoch' \in Int /\ session_epoch \in Int /\ sender.client \in Int
  <2>1. epoch \in Epoch /\ epoch' \in Epoch
    BY FlowStep, FlowTypeStep DEF TInv, Flow!TypeOK, Flow!Epoch, Epoch
  <2>2. session_epoch \in Epoch /\ sender.client \in Epoch
    BY DEF TInv, ThreadsTyped, SenderRec
  <2> QED
    BY <2>1, <2>2, Bounds DEF Epoch
<1>2. epoch <= epoch'
  BY FlowAges
<1> QED
  BY <1>1, <1>2 DEF RInv, ConnectInv

\* Steps that touch neither queues, histories nor the published epoch.
LEMMA LightStep ==
  ASSUME TInv, RInv, [Next]_vars,
         UNCHANGED <<session_epoch, videoQ, sparseQ, got, recovered>>,
         sender'.batch = sender.batch, cap' = cap \/ cap' = Top, live' \subseteq live,
         sender'.client = sender.client \/ sender'.client = 0 \/ sender'.client \notin live',
         ConnectInv'
  PROVE  RInv'
<1>1. LeadInv' /\ BulkInv' /\ CaptureInv' /\ SparseInv' /\ PlanTyped'
  BY LeadKept, BulkKept, CaptureKept, SparseKept, Ages DEF RInv
<1> QED
  BY <1>1 DEF RInv

\* The sender's poll, a failed line, the join of the reader and the header keep RInv.
LEMMA SenderStep ==
  ASSUME TInv, RInv, [Next]_vars, SenderPoll \/ SenderLineFails \/ SenderJoin \/ SenderHeader
  PROVE  RInv'
<1>0. sender \in SenderRec /\ ConnectInv
  BY DEF TInv, ThreadsTyped, RInv
<1>1. CASE SenderPoll \/ SenderLineFails
  <2>1. \/ /\ sender' = [sender EXCEPT !.at = "join", !.batch = <<>>]
           /\ live' = live \ {sender.client}
        \/ /\ \E at \in {"accept", "recv"} : sender' = [sender EXCEPT !.at = at]
           /\ UNCHANGED live
    BY <1>1 DEF SenderPoll, SenderLineFails, DropClient, SenderAt, Idle
  <2>2. /\ sender.at \in {"poll", "recv"} /\ sender.batch = <<>>
        /\ UNCHANGED <<flags, cap, queues, world, history>>
    BY <1>1 DEF SenderPoll, SenderLineFails
  <2>3. /\ sender'.client = sender.client /\ sender'.batch = <<>>
        /\ sender'.at \in {"join", "accept", "recv"} /\ live' \subseteq live
    BY <1>0, <2>1, <2>2 DEF SenderRec
  <2>4. ConnectInv'
    BY <1>0, <2>2, <2>3, EpochsKept DEF ConnectInv, Quiet, flags, queues, world
  <2> QED
    BY <2>2, <2>3, <2>4, LightStep DEF flags, queues, history
<1>2. CASE SenderJoin
  <2>1. /\ sender' = [sender EXCEPT !.at = IF sender.batch = <<>> THEN "accept" ELSE "handle",
                                    !.client = 0]
        /\ ~connected' /\ UNCHANGED <<session_epoch, cap, queues, world, live, history>>
    BY <1>2 DEF SenderJoin
  <2>2. /\ sender'.client = 0 /\ sender'.batch = sender.batch
        /\ sender'.at \in {"accept", "handle"}
        /\ sender'.at = "accept" => sender.batch = <<>>
    BY <1>0, <2>1 DEF SenderRec
  <2>3. 0 <= epoch'
    BY FlowStep, FlowTypeStep, Bounds DEF TInv, Flow!TypeOK, Flow!Epoch
  <2>4. ConnectInv'
    BY <1>0, <2>1, <2>2, <2>3, EpochsKept DEF ConnectInv, Quiet, queues, world
  <2> QED
    BY <2>1, <2>2, <2>4, LightStep DEF queues, history
<1>3. CASE SenderHeader
  <2>1. /\ sender' = [sender EXCEPT !.at = "recv"] /\ sender.at = "header"
        /\ UNCHANGED <<session_epoch, cap, queues, backlog, live, history>>
    BY <1>3 DEF SenderHeader, SenderAt
  <2>2. /\ sender'.client = sender.client /\ sender'.batch = sender.batch
        /\ sender'.at = "recv"
    BY <1>0, <2>1 DEF SenderRec
  <2>3. backlog = <<>> /\ sender.client # 0 /\ session_epoch = sender.client
    BY <1>0, <2>1 DEF ConnectInv
  <2>4. ConnectInv'
    BY <2>1, <2>2, <2>3, EpochsKept DEF ConnectInv
  <2> QED
    BY <2>1, <2>2, <2>4, LightStep DEF queues, history
<1> QED
  BY <1>1, <1>2, <1>3

\* A viewer is accepted by a host that holds nothing of another, so its epoch has no message
\* anywhere.
LEMMA AcceptStep == ASSUME TInv, RInv, [Next]_vars, SenderAccept PROVE RInv'
<1>0. sender \in SenderRec /\ ConnectInv /\ sender.at = "accept" /\ sender.batch = <<>>
  BY DEF TInv, ThreadsTyped, RInv, ConnectInv, SenderAccept
<1>1. CASE backlog = <<>>
  <2>1. /\ sender' = [sender EXCEPT !.at = "recv"]
        /\ UNCHANGED <<flags, cap, queues, backlog, live, history>>
    BY <1>1 DEF SenderAccept, SenderAt
  <2>2. /\ sender'.client = sender.client /\ sender'.batch = sender.batch
        /\ sender'.at = "recv"
    BY <1>0, <2>1 DEF SenderRec
  <2>3. ConnectInv'
    BY <1>0, <1>1, <2>1, <2>2, EpochsKept DEF ConnectInv, flags
  <2> QED
    BY <2>1, <2>2, <2>3, LightStep DEF flags, queues, history
<1>2. CASE backlog # <<>>
  <2>1. Quiet /\ sender.client = 0 /\ Len(backlog) = 1
    BY <1>0, <1>2 DEF ConnectInv
  <2>2. /\ sender' = [sender EXCEPT !.at = "publish", !.client = epoch + 1]
        /\ epoch' = epoch + 1 /\ backlog' = Tail(backlog)
        /\ live' \subseteq live \cup {epoch + 1}
        /\ UNCHANGED <<flags, cap, queues, history>>
    BY <1>2 DEF SenderAccept, Flow!AcceptViewer, Flow!Reset
  <2>3. /\ sender'.client = epoch + 1 /\ sender'.batch = <<>> /\ sender'.at = "publish"
    BY <1>0, <2>2 DEF SenderRec
  <2>4. backlog' = <<>>
    BY <2>1, <2>2 DEF TInv, WorldTyped
  <2>5. epoch \in Nat /\ epoch + 1 \in Epoch
    BY <2>2, FlowStep, FlowTypeStep, Bounds DEF TInv, Flow!TypeOK, Flow!Epoch, Epoch
  <2>6. ConnectInv'
    BY <2>1, <2>2, <2>3, <2>4, <2>5, EpochsKept DEF ConnectInv, Quiet, flags, queues
  <2>7. CaptureInv' /\ BulkInv' /\ SparseInv' /\ PlanTyped'
    BY <1>0, <2>2, <2>3, BulkKept, CaptureKept, SparseKept, Ages DEF RInv, flags, queues, history
  <2>8. LeadInv'
    <3>1. epoch + 1 \notin recovered
      BY <2>5 DEF RInv, BulkInv
    <3>2. videoQ' = <<>> /\ recovered' = recovered
      BY <2>1, <2>2 DEF Quiet, queues, history
    <3> QED
      BY <2>3, <3>1, <3>2 DEF LeadInv, RecoveryLeads
  <2> QED
    BY <2>6, <2>7, <2>8 DEF RInv
<1> QED
  BY <1>1, <1>2

\* The published epoch changes while nothing of the old one is left.
LEMMA PublishStep == ASSUME TInv, RInv, [Next]_vars, SenderPublish PROVE RInv'
<1>0. /\ sender \in SenderRec /\ ConnectInv /\ sender.at = "publish" /\ Quiet
      /\ sender.client # 0 /\ sender.batch = <<>> /\ backlog = <<>>
  BY DEF TInv, ThreadsTyped, RInv, ConnectInv, SenderPublish
<1>1. /\ session_epoch' = sender.client
      /\ sender' = [sender EXCEPT !.at = "header"]
      /\ UNCHANGED <<flow, connected, cap, queues, world, live, history>>
  BY DEF SenderPublish, SenderAt
<1>2. sender'.client = sender.client /\ sender'.batch = <<>> /\ sender'.at = "header"
  BY <1>0, <1>1 DEF SenderRec
<1>3. ConnectInv'
  BY <1>0, <1>1, <1>2, EpochsKept DEF ConnectInv, Quiet, world, queues
<1>4. cap.at = "top" /\ cap.plans = <<>> /\ cap.waiting /\ ~cap.was_connected
  BY <1>0 DEF Quiet, RInv, CaptureInv
<1>5. CaptureInv'
  BY <1>1, <1>4 DEF CaptureInv, Carrying
<1>6. BulkInv'
  <2>1. videoQ' = <<>> /\ sender'.batch = <<>>
    BY <1>0, <1>1, <1>2 DEF Quiet, queues
  <2> QED
    BY <1>1, <2>1 DEF RInv, BulkInv, flow, history
<1>7. LeadInv' /\ SparseInv' /\ PlanTyped'
  BY <1>0, <1>1, <1>2, LeadKept, SparseKept, Ages DEF RInv, queues, history
<1> QED
  BY <1>3, <1>5, <1>6, <1>7 DEF RInv

\* Draining moves the head of the channel to the end of the batch; what leads still leads.
LEMMA ReceiveStep == ASSUME TInv, RInv, [Next]_vars, SenderReceive PROVE RInv'
<1>0. /\ sender \in SenderRec /\ sender.batch \in Seq(BulkMsg)
      /\ videoQ \in Seq(BulkMsg) /\ videoQ # <<>> /\ sender.at = "recv"
      /\ got \in [Epoch -> Seq(BulkMsg)]
      /\ ConnectInv /\ BulkInv /\ LeadInv
  BY DEF TInv, ThreadsTyped, SenderRec, QueuesTyped, HistoryTyped, RInv, SenderReceive
<1>1. /\ videoQ' = Tail(videoQ)
      /\ UNCHANGED <<flow, flags, cap, sparseQ, world, live, history>>
  BY DEF SenderReceive
<1>2. /\ Len(videoQ) \in Nat \ {0} /\ Len(Tail(videoQ)) = Len(videoQ) - 1
      /\ \A i \in 1..Len(Tail(videoQ)) : Tail(videoQ)[i] = videoQ[i + 1] /\ i + 1 \in 1..Len(videoQ)
      /\ Head(videoQ) = videoQ[1] /\ Head(videoQ) \in BulkMsg /\ 1 \in 1..Len(videoQ)
  BY <1>0, TailOf
<1>3. \/ Head(videoQ).type = "line" /\ sender' = sender
      \/ /\ Head(videoQ).type # "line"
         /\ sender' = [sender EXCEPT !.batch = Append(sender.batch, Head(videoQ))]
  BY DEF SenderReceive
<1>4. sender'.at = "recv" /\ sender'.client = sender.client
  BY <1>0, <1>3 DEF SenderRec
<1>5. ConnectInv'
  BY <1>0, <1>1, <1>4, EpochsKept DEF ConnectInv, Quiet, flags, world
<1>6. CaptureInv' /\ SparseInv' /\ PlanTyped'
  BY <1>1, CaptureKept, SparseKept, Ages DEF RInv, flags
<1>7. /\ Len(Append(sender.batch, Head(videoQ))) = Len(sender.batch) + 1
      /\ Len(sender.batch) \in Nat
      /\ \A i \in 1..Len(sender.batch) : Append(sender.batch, Head(videoQ))[i] = sender.batch[i]
      /\ Append(sender.batch, Head(videoQ))[Len(sender.batch) + 1] = Head(videoQ)
      /\ Append(sender.batch, Head(videoQ)) # <<>>
  BY <1>0, <1>2, AppendOf
<1>8. \A i \in 1..Len(sender'.batch) : sender'.batch[i].type # "line" /\ Message(sender'.batch[i])
  <2>1. CASE sender' = sender
    BY <1>0, <2>1 DEF BulkInv
  <2>2. CASE /\ Head(videoQ).type # "line"
             /\ sender' = [sender EXCEPT !.batch = Append(sender.batch, Head(videoQ))]
    <3>1. sender'.batch = Append(sender.batch, Head(videoQ))
      BY <1>0, <2>2 DEF SenderRec
    <3>2. Message(Head(videoQ))
      BY <1>0, <1>2, <2>2 DEF BulkInv
    <3> QED
      BY <1>0, <1>7, <2>2, <3>1, <3>2 DEF BulkInv
  <2> QED
    BY <1>3, <2>1, <2>2
<1>9. \A i \in 1..Len(videoQ') : videoQ'[i].type # "line" => Message(videoQ'[i])
  BY <1>0, <1>1, <1>2 DEF BulkInv
<1>10. BulkInv'
  BY <1>0, <1>1, <1>8, <1>9 DEF BulkInv, Message, flow, flags, history
<1>11. LeadInv'
  <2> SUFFICES ASSUME sender.client # 0, sender.client \in live, got[sender.client] = <<>>
               PROVE  RecoveryLeads'
    BY <1>1, <1>4 DEF LeadInv, history
  <2>1. RecoveryLeads
    BY <1>0 DEF LeadInv
  <2>2. CASE Head(videoQ).type = "line" /\ sender' = sender
    <3>1. CASE sender.batch # <<>>
      BY <2>1, <2>2, <3>1 DEF RecoveryLeads
    <3>2. CASE sender.batch = <<>>
      <4>1. ASSUME NEW j \in 1..Len(videoQ'), videoQ'[j].type # "line",
                   \A k \in 1..j - 1 : videoQ'[k].type = "line"
            PROVE  videoQ'[j].kind = "Recovery"
        <5>1. j + 1 \in 1..Len(videoQ) /\ videoQ[j + 1] = videoQ'[j]
          BY <1>1, <1>2
        <5>2. ASSUME NEW k \in 1..j PROVE videoQ[k].type = "line"
          <6>1. CASE k = 1
            BY <1>2, <2>2, <6>1
          <6>2. CASE k # 1
            <7>1. k - 1 \in 1..j - 1 /\ k - 1 \in 1..Len(videoQ') /\ (k - 1) + 1 = k
              BY <6>2, <1>1, <1>2
            <7> QED
              BY <4>1, <7>1, <1>1, <1>2
          <6> QED
            BY <6>1, <6>2
        <5>3. (j + 1) - 1 = j
          OBVIOUS
        <5> QED
          BY <2>1, <3>2, <4>1, <5>1, <5>2, <5>3 DEF RecoveryLeads
      <4>2. ASSUME sender.client \in recovered
            PROVE  \E j \in 1..Len(videoQ') : videoQ'[j].type # "line"
        <5>1. PICK j \in 1..Len(videoQ) : videoQ[j].type # "line"
          BY <2>1, <3>2, <4>2 DEF RecoveryLeads
        <5>2. j # 1
          BY <1>2, <2>2, <5>1
        <5>3. j - 1 \in 1..Len(videoQ') /\ videoQ'[j - 1] = videoQ[j]
          BY <1>1, <1>2, <5>2
        <5> QED
          BY <5>1, <5>3
      <4> QED
        BY <1>1, <2>2, <3>2, <4>1, <4>2 DEF RecoveryLeads, history
    <3> QED
      BY <3>1, <3>2
  <2>3. CASE /\ Head(videoQ).type # "line"
             /\ sender' = [sender EXCEPT !.batch = Append(sender.batch, Head(videoQ))]
    <3>1. sender'.batch = Append(sender.batch, Head(videoQ))
      BY <1>0, <2>3 DEF SenderRec
    <3>2. sender'.batch[1].kind = "Recovery"
      <4>1. CASE sender.batch # <<>>
        <5>1. 1 \in 1..Len(sender.batch)
          BY <1>0, <4>1
        <5> QED
          BY <1>7, <2>1, <3>1, <4>1, <5>1 DEF RecoveryLeads
      <4>2. CASE sender.batch = <<>>
        <5>1. videoQ[1].kind = "Recovery"
          BY <1>2, <2>1, <2>3, <4>2 DEF RecoveryLeads
        <5> QED
          BY <1>2, <1>7, <3>1, <4>2, <5>1
      <4> QED
        BY <4>1, <4>2
    <3> QED
      BY <1>7, <3>1, <3>2 DEF RecoveryLeads
  <2> QED
    BY <1>3, <2>2, <2>3
<1> QED
  BY <1>5, <1>6, <1>10, <1>11 DEF RInv

\* The writer: what a viewer gets first is what led, and a recovery update is never withheld by
\* a gate.
LEMMA HandleStep == ASSUME TInv, RInv, [Next]_vars, SenderHandle PROVE RInv'
<1> DEFINE m == Head(sender.batch)
           rest == Tail(sender.batch)
           c == sender.client
           writes == c # 0 /\ Passes(m)
<1>0. /\ sender \in SenderRec /\ sender.batch \in Seq(BulkMsg) /\ sender.batch # <<>>
      /\ sender.at \in {"recv", "handle"} /\ c \in Epoch
      /\ got \in [Epoch -> Seq(BulkMsg)] /\ videoQ \in Seq(BulkMsg)
      /\ ConnectInv /\ BulkInv /\ LeadInv
  BY DEF TInv, ThreadsTyped, SenderRec, QueuesTyped, HistoryTyped, RInv, SenderHandle
<1>1. UNCHANGED <<flags, cap, queues, sparse, ends, world, plan, recovered>>
  BY DEF SenderHandle
<1>2. \/ /\ sender' = [sender EXCEPT !.batch = rest, !.at = IF rest = <<>> THEN "poll" ELSE "handle"]
         /\ got' = IF writes /\ c \in live THEN [got EXCEPT ![c] = Append(got[c], m)] ELSE got
         /\ UNCHANGED <<flow, live>>
      \/ /\ sender' = [sender EXCEPT !.at = "join", !.batch = rest]
         /\ live' = live \ {c} /\ got' = got
  BY DEF SenderHandle, DropClient
<1>3. /\ rest \in Seq(BulkMsg) /\ m = sender.batch[1] /\ m \in BulkMsg
      /\ \A i \in 1..Len(rest) : rest[i] = sender.batch[i + 1] /\ i + 1 \in 1..Len(sender.batch)
      /\ 1 \in 1..Len(sender.batch)
  BY <1>0, TailOf
<1>4. m.type # "line" /\ Message(m)
  BY <1>0, <1>3 DEF BulkInv
<1>5. /\ sender'.client = c /\ sender'.batch = rest /\ sender'.at \in {"poll", "handle", "join"}
      /\ live' \subseteq live
  BY <1>0, <1>2 DEF SenderRec
<1>6. c # 0 => session_epoch = c
  BY <1>0 DEF ConnectInv
<1>7. /\ m.seq \in 1..frame_seq /\ plan[m.seq].ep = session_epoch
      /\ m.kind = "Recovery" => Passes(m)
  BY <1>4 DEF Message, Passes
<1>8. c # 0 /\ c \in live /\ got[c] = <<>> => m.kind = "Recovery"
  BY <1>0, <1>3 DEF LeadInv, RecoveryLeads
<1>9. \/ got' = got /\ ~(writes /\ c \in live') 
      \/ /\ got' = [got EXCEPT ![c] = Append(got[c], m)] /\ writes /\ c \in live
         /\ UNCHANGED <<flow, live>>
  BY <1>2
<1>10. ConnectInv'
  BY <1>0, <1>1, <1>5, EpochsKept DEF ConnectInv, Quiet, flags, queues, world
<1>11. CaptureInv' /\ SparseInv' /\ PlanTyped'
  BY <1>1, CaptureKept, SparseKept, Ages DEF RInv, flags, queues
<1>12. BulkInv'
  <2>1. /\ \A x \in BulkMsg : Message(x) =>
             x.seq \in 1..frame_seq' /\ plan'[x.seq].ep = session_epoch'
        /\ \A x \in BulkMsg, e \in Epoch : x.seq \in 1..frame_seq /\ plan[x.seq].ep = e =>
             x.seq \in 1..frame_seq' /\ plan'[x.seq].ep = e
    BY <1>1, Kept DEF flags
  <2>2. \A i \in 1..Len(videoQ) : videoQ[i].type # "line" =>
          /\ videoQ[i].seq \in 1..frame_seq' /\ plan'[videoQ[i].seq].ep = session_epoch'
          /\ videoQ[i].kind = "Recovery" => ~videoQ[i].gated
    <3>1. \A i \in 1..Len(videoQ) : videoQ[i] \in BulkMsg /\ (videoQ[i].type # "line" => Message(videoQ[i]))
      BY <1>0 DEF BulkInv
    <3> QED
      BY <2>1, <3>1 DEF Message
  <2>3. \A i \in 1..Len(rest) :
          /\ rest[i].type # "line"
          /\ rest[i].seq \in 1..frame_seq' /\ plan'[rest[i].seq].ep = session_epoch'
          /\ rest[i].kind = "Recovery" => ~rest[i].gated
    <3>1. \A i \in 1..Len(rest) : rest[i] \in BulkMsg /\ rest[i].type # "line" /\ Message(rest[i])
      BY <1>0, <1>3 DEF BulkInv
    <3> QED
      BY <2>1, <3>1 DEF Message
  <2>4. \A e \in recovered : e <= epoch'
    <3>1. epoch \in Int /\ epoch' \in Int /\ epoch <= epoch' /\ \A e \in Epoch : e \in Int
      BY EpochsKept, Bounds DEF Epoch
    <3>2. recovered \subseteq Epoch
      BY DEF TInv, HistoryTyped
    <3> QED
      BY <1>0, <3>1, <3>2 DEF BulkInv
  <2>5. ASSUME NEW e \in Epoch
        PROVE  /\ \A i \in 1..Len(got'[e]) :
                    got'[e][i].seq \in 1..frame_seq' /\ plan'[got'[e][i].seq].ep = e
               /\ got'[e] # <<>> => e <= epoch' /\ got'[e][1].kind = "Recovery"
    <3>0. got[e] \in Seq(BulkMsg)
      BY <1>0
    <3>1. CASE got'[e] = got[e]
      <4>1. \A i \in 1..Len(got[e]) :
              got[e][i] \in BulkMsg /\ got[e][i].seq \in 1..frame_seq /\ plan[got[e][i].seq].ep = e
        BY <1>0, <3>0 DEF BulkInv
      <4>2. got[e] # <<>> => e <= epoch' /\ got[e][1].kind = "Recovery"
        <5>1. epoch \in Int /\ epoch' \in Int /\ epoch <= epoch' /\ e \in Int
          BY EpochsKept, Bounds DEF Epoch
        <5> QED
          BY <1>0, <5>1 DEF BulkInv
      <4> QED
        BY <2>1, <3>1, <4>1, <4>2
    <3>2. CASE got'[e] # got[e]
      <4>1. e = c /\ c # 0 /\ c \in live /\ got'[e] = Append(got[e], m)
        BY <1>0, <1>9, <3>2
      <4>2. /\ Len(got'[e]) = Len(got[e]) + 1 /\ Len(got[e]) \in Nat
            /\ \A i \in 1..Len(got[e]) : got'[e][i] = got[e][i]
            /\ got'[e][Len(got[e]) + 1] = m
        BY <3>0, <1>3, <4>1, AppendOf
      <4>3. \A i \in 1..Len(got[e]) :
              got'[e][i].seq \in 1..frame_seq' /\ plan'[got'[e][i].seq].ep = e
        <5>1. \A i \in 1..Len(got[e]) :
                got[e][i] \in BulkMsg /\ got[e][i].seq \in 1..frame_seq /\ plan[got[e][i].seq].ep = e
          BY <1>0, <3>0 DEF BulkInv
        <5>2. \A i \in 1..Len(got[e]) :
                got[e][i].seq \in 1..frame_seq' /\ plan'[got[e][i].seq].ep = e
          BY <2>1, <5>1
        <5> QED
          BY <4>2, <5>2
      <4>4. m.seq \in 1..frame_seq' /\ plan'[m.seq].ep = e
        BY <1>3, <1>6, <1>7, <2>1, <4>1
      <4>5. e <= epoch'
        BY EpochsKept, <4>1
      <4>6. got'[e][1].kind = "Recovery"
        <5>1. CASE got[e] = <<>>
          <6>1. got'[e][1] = m
            BY <4>2, <5>1
          <6> QED
            BY <1>8, <4>1, <5>1, <6>1
        <5>2. CASE got[e] # <<>>
          <6>1. 1 \in 1..Len(got[e])
            BY <3>0, <5>2
          <6> QED
            BY <1>0, <4>2, <5>2, <6>1 DEF BulkInv
        <5> QED
          BY <5>1, <5>2
      <4>7. \A i \in 1..Len(got'[e]) : i \in 1..Len(got[e]) \/ i = Len(got[e]) + 1
        BY <4>2
      <4> QED
        BY <4>2, <4>3, <4>4, <4>5, <4>6, <4>7
    <3> QED
      BY <3>1, <3>2
  <2>6. UNCHANGED <<videoQ, recovered>> /\ sender'.batch = rest
    BY <1>1, <1>5 DEF queues
  <2> HIDE DEF rest, m
  <2> QED
    BY <2>2, <2>3, <2>4, <2>5, <2>6 DEF BulkInv, Message
<1>13. LeadInv'
  <2> SUFFICES ASSUME c # 0, c \in live', got'[c] = <<>> PROVE FALSE
    BY <1>5 DEF LeadInv
  <2>1. got[c] = <<>> /\ got' = got
    <3>1. CASE got' = got
      BY <3>1
    <3>2. CASE got' = [got EXCEPT ![c] = Append(got[c], m)]
      <4>1. got'[c] = Append(got[c], m) /\ got[c] \in Seq(BulkMsg)
        BY <1>0, <3>2
      <4>2. Append(got[c], m) # <<>>
        BY <1>3, <4>1, AppendOf
      <4> QED
        BY <4>1, <4>2
    <3> QED
      BY <1>9, <3>1, <3>2
  <2>2. m.kind = "Recovery"
    BY <1>5, <1>8, <2>1
  <2>3. writes
    BY <1>7, <2>2
  <2>4. got'[c] = Append(got[c], m)
    BY <1>0, <1>9, <2>3
  <2>5. Append(got[c], m) # <<>>
    <3>1. got[c] \in Seq(BulkMsg)
      BY <1>0
    <3> QED
      BY <1>3, <3>1, AppendOf
  <2> QED
    BY <2>4, <2>5
<1> QED
  BY <1>10, <1>11, <1>12, <1>13 DEF RInv

\* A statistics line is a bulk message.
LEMMA LineTyped == Line \in BulkMsg /\ Line.type = "line"
  BY Bounds DEF Line, BulkMsg, AnyRoute

\* The sparse writer takes an overlay and may add a statistics line to the bulk channel, which
\* leads nothing.
LEMMA SparseReceiveStep == ASSUME TInv, RInv, [Next]_vars, SparseReceive PROVE RInv'
<1>0. /\ sparseQ \in Seq(RectMsg) /\ sparseQ # <<>> /\ videoQ \in Seq(BulkMsg)
      /\ ConnectInv /\ BulkInv /\ LeadInv /\ SparseInv
  BY DEF TInv, QueuesTyped, RInv, SparseReceive
<1>1. /\ sparseQ' = Tail(sparseQ)
      /\ UNCHANGED <<flow, connected, session_epoch, cap, sender, world, live, plan, got, recovered>>
      /\ videoQ' = videoQ \/ videoQ' = Append(videoQ, Line)
  BY DEF SparseReceive
<1>2. /\ Len(Append(videoQ, Line)) = Len(videoQ) + 1 /\ Len(videoQ) \in Nat
      /\ \A i \in 1..Len(videoQ) : Append(videoQ, Line)[i] = videoQ[i]
      /\ Append(videoQ, Line)[Len(videoQ) + 1] = Line
  BY <1>0, LineTyped, AppendOf
<1>3. /\ \A i \in 1..Len(videoQ) : videoQ'[i] = videoQ[i] /\ i \in 1..Len(videoQ')
      /\ \A i \in 1..Len(videoQ') : i \in 1..Len(videoQ) \/ videoQ'[i].type = "line"
  BY <1>1, <1>2, LineTyped
<1>4. ConnectInv'
  BY <1>0, <1>1, EpochsKept DEF ConnectInv, Quiet, world
<1>5. CaptureInv' /\ PlanTyped'
  BY <1>1, CaptureKept, Ages DEF RInv
<1>6. BulkInv'
  <2>1. \A i \in 1..Len(videoQ') : videoQ'[i].type # "line" => Message(videoQ'[i])
    BY <1>0, <1>3 DEF BulkInv
  <2> QED
    BY <1>0, <1>1, <2>1 DEF BulkInv, Message, flow
<1>7. LeadInv'
  <2> SUFFICES ASSUME RecoveryLeads PROVE RecoveryLeads'
    BY <1>0, <1>1 DEF LeadInv
  <2>1. ASSUME sender.batch = <<>>, NEW j \in 1..Len(videoQ'), videoQ'[j].type # "line",
               \A k \in 1..j - 1 : videoQ'[k].type = "line"
        PROVE  videoQ'[j].kind = "Recovery"
    <3>1. j \in 1..Len(videoQ) /\ videoQ'[j] = videoQ[j]
      BY <1>3, <2>1
    <3>2. \A k \in 1..j - 1 : videoQ[k].type = "line"
      <4>1. \A k \in 1..j - 1 : k \in 1..Len(videoQ)
        BY <1>2, <3>1
      <4> QED
        BY <1>3, <2>1, <4>1
    <3> QED
      BY <2>1, <3>1, <3>2 DEF RecoveryLeads
  <2>2. sender.batch = <<>> /\ sender.client \in recovered =>
          \E j \in 1..Len(videoQ') : videoQ'[j].type # "line"
    BY <1>3 DEF RecoveryLeads
  <2> QED
    BY <1>1, <2>1, <2>2 DEF RecoveryLeads
<1>8. SparseInv'
  BY <1>0, <1>1, TailOf DEF SparseInv, flow
<1> QED
  BY <1>4, <1>5, <1>6, <1>7, <1>8 DEF RInv

\* The sparse writer keeps RInv.
LEMMA SparseStepKeeps == ASSUME TInv, RInv, [Next]_vars, SparseStep PROVE RInv'
<1>1. CASE SparsePoll \/ SparseAccept
  <2>1. UNCHANGED <<flow, connected, session_epoch, cap, queues, sender, backlog, live, history>>
    BY <1>1 DEF SparsePoll, SparseAccept, world
  <2>2. ConnectInv'
    BY <2>1, EpochsKept DEF RInv, ConnectInv, Quiet, queues
  <2> QED
    BY <2>1, <2>2, LightStep DEF queues, history
<1> QED
  BY <1>1, SparseReceiveStep DEF SparseStep

\* The feedback readers keep RInv.
LEMMA FeedbackStep ==
  ASSUME TInv, RInv, [Next]_vars,
         \E e \in Epoch : FeedbackEnd(e) \/ \E s \in Sequence : FeedbackAck(e, s)
  PROVE  RInv'
<1>1. UNCHANGED <<flags, cap, queues, sender, world, live, history>>
  BY DEF FeedbackEnd, FeedbackAck
<1>2. ConnectInv'
  BY <1>1, EpochsKept DEF RInv, ConnectInv, Quiet, flags, queues, world
<1> QED
  BY <1>1, <1>2, LightStep DEF flags, queues, history

\* Giving up a viewer that stopped acknowledging keeps RInv.
LEMMA TimesOutStep == ASSUME TInv, RInv, [Next]_vars, CaptureTimesOut PROVE RInv'
<1>1. /\ cap.at = "window" /\ cap' = Top /\ live' \subseteq live
      /\ UNCHANGED <<flags, queues, sender, world, history>>
  BY DEF CaptureTimesOut, GoTop, Abandon
<1>2. ~Quiet
  BY <1>1 DEF Quiet
<1>3. ConnectInv'
  BY <1>1, <1>2, EpochsKept DEF RInv, ConnectInv, flags, world
<1> QED
  BY <1>1, <1>3, LightStep DEF flags, queues, history

\* A viewer that connects only to a settled host finds it quiet.
LEMMA ViewerStepKeeps ==
  ASSUME TInv, RInv, [Next]_vars, ViewerStep, EagerReconnect = FALSE PROVE RInv'
<1>1. UNCHANGED <<flow, flags, cap, queues, sender, history>>
  BY DEF ViewerStep
<1>2. ConnectInv /\ backlog \in Seq(Viewer)
  BY DEF RInv, TInv, WorldTyped
<1>3. PICK v \in Viewer : ViewerConnects(v) \/ ViewerOpensSparse(v) \/ ViewerCloses(v)
  BY DEF ViewerStep
<1>4. live' \subseteq live
  BY <1>3 DEF ViewerConnects, ViewerOpensSparse, ViewerCloses
<1>5. ConnectInv'
  <2>1. CASE ViewerConnects(v)
    <3>1. Quiet /\ sender.client = 0 /\ backlog' = Append(<<>>, v)
      BY <2>1 DEF ViewerConnects, Settled, Quiet
    <3>2. Len(backlog') = 1 /\ backlog' # <<>>
      BY <3>1
    <3> QED
      BY <1>1, <1>2, <3>1, <3>2, EpochsKept DEF ConnectInv, Quiet, flags, queues
  <2>2. CASE UNCHANGED backlog
    BY <1>1, <1>2, <2>2, EpochsKept DEF ConnectInv, Quiet, flags, queues
  <2> QED
    BY <1>3, <2>1, <2>2 DEF ViewerOpensSparse, ViewerCloses
<1> QED
  BY <1>1, <1>4, <1>5, LightStep DEF flags, queues, history

\* The host starts with nothing scheduled, queued or written.
LEMMA InitRecovery == Init => RInv
<1> SUFFICES ASSUME Init PROVE RInv
  OBVIOUS
<1>1. PlanTyped
  BY Bounds DEF Init, PlanTyped
<1>2. CaptureInv
  BY DEF Init, CaptureInv, Carrying
<1>3. ConnectInv
  BY DEF Init, Flow!Init, ConnectInv
<1>4. BulkInv
  BY DEF Init, BulkInv
<1>5. LeadInv /\ SparseInv
  BY DEF Init, LeadInv, SparseInv
<1> QED
  BY <1>1, <1>2, <1>3, <1>4, <1>5 DEF RInv

\* Every step keeps RInv, as long as viewers wait for the host to settle.
LEMMA RecoveryStep == EagerReconnect = FALSE => (TInv /\ RInv /\ [Next]_vars => RInv')
<1> SUFFICES ASSUME EagerReconnect = FALSE, TInv, RInv, [Next]_vars PROVE RInv'
  OBVIOUS
<1>1. CASE Capture
  BY <1>1, CaptureStep, CaptureConnect, CaptureBulk, CaptureSparse, Ages DEF RInv
<1>2. CASE UNCHANGED vars
  <2>1. ConnectInv'
    BY <1>2, EpochsKept
       DEF RInv, ConnectInv, Quiet, vars, flow, flags, queues, world, history
  <2> QED
    BY <1>2, <2>1, LightStep DEF vars, flow, flags, queues, world, history
<1>3. CASE SenderLap \/ SenderLineFails
  BY <1>3, SenderStep, AcceptStep, PublishStep, ReceiveStep, HandleStep DEF SenderLap
<1> QED
  BY <1>1, <1>2, <1>3, TimesOutStep, SparseStepKeeps, FeedbackStep, ViewerStepKeeps DEF Next

\* RInv says what RecoveryInv says: what a viewer got is all its own, so its first update is
\* the first message written to it.
LEMMA RecoveryMeans == TInv /\ RInv => RecoveryInv
<1> SUFFICES ASSUME TInv, RInv PROVE FirstIsRecovery /\ RawNeedsRecovery
  BY TInvTypes DEF RecoveryInv
<1>1. got \in [Epoch -> Seq(BulkMsg)] /\ sparseQ \in Seq(RectMsg)
  BY DEF TInv, HistoryTyped, QueuesTyped
<1>2. ASSUME NEW e \in Epoch, NEW i \in Own(e), \A j \in Own(e) : i <= j
      PROVE  got[e][i].kind = "Recovery"
  <2>1. got[e] \in Seq(BulkMsg) /\ i \in 1..Len(got[e]) /\ got[e] # <<>>
    BY <1>1, <1>2 DEF Own
  <2>2. 1 \in 1..Len(got[e])
    BY <2>1
  <2>3. 1 \in Own(e)
    BY <2>1, <2>2 DEF Own, RInv, BulkInv
  <2>4. i = 1
    BY <1>2, <2>1, <2>3
  <2> QED
    BY <2>1, <2>4 DEF RInv, BulkInv
<1>3. RawNeedsRecovery
  BY <1>1 DEF RInv, SparseInv, RawNeedsRecovery
<1> QED
  BY <1>2, <1>3 DEF FirstIsRecovery

\* A viewer's stream starts with its recovery frame on both lanes, for any queue depths,
\* windows, viewers and updates, whatever is refused, evicted, withheld or suppressed and
\* wherever a write fails. The hypothesis is needed: with EagerReconnect a viewer may be
\* replaced within one lap of the sender, the capture thread then misses the connect edge and
\* the new viewer starts on predicted video.
THEOREM RecoveryInvariant == EagerReconnect = FALSE => (Spec => []RecoveryInv)
<1> SUFFICES ASSUME EagerReconnect = FALSE PROVE Spec => []RecoveryInv
  OBVIOUS
<1>1. Init => TInv /\ RInv
  BY InitTyped, InitRecovery
<1>2. TInv /\ RInv /\ [Next]_vars => (TInv /\ RInv)'
  BY TypeStep, RecoveryStep
<1>3. TInv /\ RInv => RecoveryInv
  BY RecoveryMeans
<1> QED
  BY <1>1, <1>2, <1>3, PTL DEF Spec

-----------------------------------------------------------------------------
(***************************************************************************)
(* The order of the bulk lane.                                             *)
(*                                                                         *)
(* The bulk queue, the writer's batch and what was written to the viewer   *)
(* being served are one lane: messages move along it, and none leaves it   *)
(* but those whose gate was shut (LaneSets).  It is sorted from end to end *)
(* (LaneInv), because the assembler holds plans in the order of their      *)
(* sequences (PlansInv) and nothing on the lane is newer than what the     *)
(* encoder still holds (CeilingInv): a move, which overtakes the encoder,  *)
(* is only scheduled while it is empty (RouteInv).                         *)
(*                                                                         *)
(* A move names the update before it.  The capture thread believes that    *)
(* update sent when it was scheduled; LastInv says when the belief is      *)
(* justified: the update is on the lane for good, or still in the encoder, *)
(* or the thread already knows that it was lost.  Every fence therefore    *)
(* has its baseline on the lane (FenceInv), and since the lane is sorted   *)
(* the writer hands the baseline out first.                                *)
(*                                                                         *)
(* GateInv says that a gate is written while it is not open, so that a     *)
(* pair is whole; PermitInv that an admitted permit has a message on the   *)
(* lane or an update in the capture thread's hands that will put one there *)
(* or give the permit back.                                                *)
(***************************************************************************)

\* An update whose sequence is the newest: nothing has been allocated since.
Fresh == {"drop", "admit", "fence", "prelude", "raw", "cancel", "again", "abandon", "begin"}
\* An update that has come out of the encoder; newer ones may be held by the assembler.
Emitted == {"video", "mixed", "rejected"}

\* The elements of a sequence.
Elems(q) == {q[i] : i \in 1..Len(q)}

\* The pixel messages queued, batched, and written for the viewer being served.
Queued == {m \in Elems(videoQ) : m.type # "line"}
Batched == Elems(sender.batch)
Written == Elems(got[sender.client])
OnLane == Queued \cup Batched \cup Written

\* An update with a leg on the bulk lane.
Bulky(s) == plan[s].legs \cap {"video", "fence"} # {}
\* A message the writer will not discard, as far as its gate is decided; one it will surely write.
Intact(m) == m.gated => gates[m.seq] \in {"pending", "yes"}
Certain(m) == m.gated => gates[m.seq] = "yes"
Shipped(s) == \E m \in OnLane : m.seq = s /\ Intact(m)
Carried(s) == \E m \in OnLane : m.seq = s /\ Certain(m)
Held(s) == \E i \in 1..Len(cap.plans) : cap.plans[i].seq = s

\* Pixel messages of a queue in the order of their sequences.
Sorted(q) ==
  \A i, j \in 1..Len(q) :
    (i < j /\ q[i].type # "line" /\ q[j].type # "line") => q[i].seq <= q[j].seq

\* Only the viewer being served has an open socket, until its reader is being joined.
ServeInv ==
  /\ live \subseteq {sender.client} /\ 0 \notin live
  /\ sender.at = "join" => live = {}
  /\ sender.at = "accept" => sender.client = 0

\* The assembler holds plans in order; what is carried is newer than all it holds until it
\* enters the encoder, and older than all that is left when it comes out.
PlansInv ==
  /\ \A i \in 1..Len(cap.plans) : cap.plans[i].seq <= frame_seq
  /\ \A i, j \in 1..Len(cap.plans) : i < j => cap.plans[i].seq < cap.plans[j].seq
  /\ cap.at \in Fresh =>
       /\ cap.plan.seq = frame_seq /\ cap.plan.ep = cap.ep
       /\ \A i \in 1..Len(cap.plans) : cap.plans[i].seq < cap.plan.seq
  /\ cap.at \in Emitted => \A i \in 1..Len(cap.plans) : cap.plan.seq < cap.plans[i].seq

\* A move is fenced while the encoder is empty, video is admitted when it comes out of it; what
\* is carried was scheduled with its legs; a baseline is only named while none was withheld.
RouteInv ==
  /\ cap.at = "admit" => cap.plan.route \in {"Raw", "Diff", "Move"}
  /\ cap.at = "raw" =>
       \/ cap.plan.route \in {"Raw", "Diff"}
       \/ cap.plan.route = "Move" /\ cap.last = cap.plan.seq
  /\ cap.at \in {"fence", "prelude"} => cap.plans = <<>> /\ cap.plan.route = "Move"
  /\ cap.at = "admit" /\ cap.plan.route = "Move" => cap.plans = <<>>
  /\ cap.at = "mixed" => cap.plan.route = "Mixed"
  /\ cap.at \in Fresh => plan[cap.plan.seq].legs = LegsOf(cap.plan.route, cap.plan.rem)
  /\ cap.at \in {"window", "acquire"} \cup Fresh => ~cap.invalid
  /\ cap.at = "again" => cap.last # cap.plan.seq
  /\ cap.at = "discard" \/ ~cap.was_connected => cap.last = 0
  /\ cap.last <= frame_seq

\* Nothing on the lane of a viewer is newer than what the encoder holds or gives out.
CeilingInv == sender.client \in live =>
  /\ \A m \in OnLane : \A i \in 1..Len(cap.plans) : m.seq <= cap.plans[i].seq
  /\ cap.at \in Emitted => \A m \in OnLane : m.seq <= cap.plan.seq

\* The bulk lane of a viewer is in order from end to end.
LaneOrder ==
  /\ Sorted(videoQ) /\ Sorted(sender.batch)
  /\ \A m \in Batched, n \in Queued : m.seq <= n.seq
  /\ \A m \in Written, n \in Queued \cup Batched : m.seq <= n.seq
LaneInv ==
  /\ sender.client \in live => LaneOrder
  /\ BulkInOrder

\* A gate is opened or shut once, by the thread that made it.
GateInv ==
  /\ \A s \in Sequence : s > frame_seq => gates[s] = "none"
  /\ cap.at \in {"admit", "fence"} /\ cap.plan.route = "Move" => gates[cap.plan.seq] = "none"
  /\ cap.at \in {"prelude", "mixed"} => gates[cap.plan.seq] = "pending"
  /\ cap.at \in {"begin", "video"} /\ cap.plan.route = "Mixed" => gates[cap.plan.seq] = "none"
  /\ \A i \in 1..Len(cap.plans) : cap.plans[i].route = "Mixed" => gates[cap.plans[i].seq] = "none"
  /\ NoHalfPair

\* An admitted permit with a bulk leg has a message on the lane, or the capture thread has yet
\* to queue or cancel it.
PermitInv ==
  /\ \A s \in DOMAIN entries : plan[s].ep = epoch
  /\ cap.at # "exited" /\ epoch \in live =>
       \A s \in DOMAIN entries :
         (entries[s] = "Admitted" /\ Bulky(s)) =>
           \/ Shipped(s)
           \/ cap.at \in {"fence", "cancel", "video", "rejected"} /\ cap.plan.seq = s

\* The update a move would build on is on the lane for good, or still to come out of the
\* encoder, or known to be lost.
LastInv == sender.client \in live =>
  /\ (cap.last > 0 /\ Bulky(cap.last)) =>
       \/ Carried(cap.last) \/ Held(cap.last)
       \/ cap.at \in Emitted /\ cap.plan.seq = cap.last
       \/ cap.at = "exited" \/ cap.invalid \/ session_epoch # epoch
  /\ cap.at \in {"prelude", "mixed"} => \E m \in OnLane : m.seq = cap.plan.seq
  /\ cap.at \in {"admit", "fence"} /\ cap.plan.route = "Move" =>
       cap.plan.seq > 1 /\ (Bulky(cap.plan.seq - 1) => Carried(cap.plan.seq - 1))

\* Every fence on the lane of a viewer follows its baseline.
FenceInv ==
  /\ sender.client \in live =>
       \A m \in OnLane : m.type = "fence" =>
         m.seq > 1 /\ (Bulky(m.seq - 1) => Carried(m.seq - 1))
  /\ \A e \in Epoch : \A m \in Elems(got[e]) : m.type = "fence" =>
       m.seq > 1 /\ (Bulky(m.seq - 1) => \E n \in Elems(got[e]) : n.seq = m.seq - 1)

\* The inductive form of OrderInv.
OInv ==
  /\ ServeInv
  /\ PlansInv
  /\ RouteInv
  /\ CeilingInv
  /\ LaneInv
  /\ GateInv
  /\ PermitInv
  /\ LastInv
  /\ FenceInv

-----------------------------------------------------------------------------
\* The elements of a sequence are those of the type its elements have.
LEMMA ElemsOf ==
  ASSUME NEW S, NEW q \in Seq(S)
  PROVE  Elems(q) \subseteq S /\ (q = <<>> => Elems(q) = {})
  BY DEF Elems

\* Taking the head leaves the other elements.
LEMMA ElemsTail ==
  ASSUME NEW S, NEW q \in Seq(S), q # <<>>
  PROVE  /\ Elems(q) = {Head(q)} \cup Elems(Tail(q))
         /\ Elems(Tail(q)) \subseteq Elems(q) /\ Head(q) \in Elems(q)
<1>1. /\ Len(q) \in Nat \ {0} /\ Len(Tail(q)) = Len(q) - 1
      /\ \A i \in 1..Len(Tail(q)) : Tail(q)[i] = q[i + 1] /\ i + 1 \in 1..Len(q)
      /\ Head(q) = q[1] /\ 1 \in 1..Len(q)
  BY TailOf
<1>2. Head(q) \in Elems(q) /\ Elems(Tail(q)) \subseteq Elems(q)
  BY <1>1 DEF Elems
<1>3. ASSUME NEW x \in Elems(q), x # Head(q) PROVE x \in Elems(Tail(q))
  <2>1. PICK i \in 1..Len(q) : q[i] = x
    BY DEF Elems
  <2>2. i - 1 \in 1..Len(Tail(q)) /\ (i - 1) + 1 = i
    BY <1>1, <1>3, <2>1
  <2>3. Tail(q)[i - 1] = x
    BY <1>1, <2>1, <2>2
  <2> QED
    BY <2>2, <2>3 DEF Elems
<1> QED
  BY <1>2, <1>3

\* Appending adds the new element and no other.
LEMMA ElemsAppend ==
  ASSUME NEW S, NEW q \in Seq(S), NEW x \in S
  PROVE  Elems(Append(q, x)) = Elems(q) \cup {x}
<1> DEFINE r == Append(q, x)
<1>1. /\ Len(r) = Len(q) + 1 /\ Len(q) \in Nat
      /\ \A i \in 1..Len(q) : r[i] = q[i]
      /\ r[Len(q) + 1] = x
  BY AppendOf
<1> HIDE DEF r
<1>2. Elems(q) \subseteq Elems(r) /\ x \in Elems(r)
  BY <1>1 DEF Elems
<1>3. Elems(r) \subseteq Elems(q) \cup {x}
  BY <1>1 DEF Elems
<1> QED
  BY <1>2, <1>3 DEF r

\* A sorted queue stays sorted when its head is taken, and the head was its least.
LEMMA SortedTail ==
  ASSUME NEW q \in Seq(BulkMsg), q # <<>>, Sorted(q)
  PROVE  /\ Sorted(Tail(q))
         /\ Head(q).type # "line" =>
              \A m \in Elems(Tail(q)) : m.type # "line" => Head(q).seq <= m.seq
<1>1. /\ Len(q) \in Nat \ {0} /\ Len(Tail(q)) = Len(q) - 1
      /\ \A i \in 1..Len(Tail(q)) : Tail(q)[i] = q[i + 1] /\ i + 1 \in 1..Len(q)
      /\ Head(q) = q[1] /\ 1 \in 1..Len(q)
  BY TailOf
<1>2. Sorted(Tail(q))
  <2> SUFFICES ASSUME NEW i \in 1..Len(Tail(q)), NEW j \in 1..Len(Tail(q)), i < j,
                      Tail(q)[i].type # "line", Tail(q)[j].type # "line"
               PROVE  Tail(q)[i].seq <= Tail(q)[j].seq
    BY DEF Sorted
  <2>1. i + 1 < j + 1
    OBVIOUS
  <2> QED
    BY <1>1, <2>1 DEF Sorted
<1>3. ASSUME Head(q).type # "line", NEW m \in Elems(Tail(q)), m.type # "line"
      PROVE  Head(q).seq <= m.seq
  <2>1. PICK i \in 1..Len(Tail(q)) : Tail(q)[i] = m
    BY DEF Elems
  <2>2. 1 < i + 1
    OBVIOUS
  <2> QED
    BY <1>1, <1>3, <2>1, <2>2 DEF Sorted
<1> QED
  BY <1>2, <1>3

\* A sorted queue stays sorted when something is appended that is no older than it, or a line.
LEMMA SortedAppend ==
  ASSUME NEW q \in Seq(BulkMsg), NEW x \in BulkMsg, Sorted(q),
         x.type # "line" => \A m \in Elems(q) : m.type # "line" => m.seq <= x.seq
  PROVE  Sorted(Append(q, x))
<1> DEFINE r == Append(q, x)
<1>1. /\ Len(r) = Len(q) + 1 /\ Len(q) \in Nat
      /\ \A i \in 1..Len(q) : r[i] = q[i]
      /\ r[Len(q) + 1] = x
  BY AppendOf
<1> HIDE DEF r
<1>2. ASSUME NEW i \in 1..Len(r), NEW j \in 1..Len(r), i < j, r[i].type # "line",
             r[j].type # "line"
      PROVE  r[i].seq <= r[j].seq
  <2>1. i \in 1..Len(q)
    BY <1>1, <1>2
  <2>2. CASE j \in 1..Len(q)
    BY <1>1, <1>2, <2>1, <2>2 DEF Sorted
  <2>3. CASE j = Len(q) + 1
    <3>1. r[i] \in Elems(q)
      BY <1>1, <2>1 DEF Elems
    <3> QED
      BY <1>1, <1>2, <2>3, <3>1
  <2> QED
    BY <1>1, <2>2, <2>3
<1> QED
  BY <1>2 DEF r, Sorted

\* Every step of a thread other than the sender leaves sender alone and opens no socket.
LEMMA OthersServe ==
  Capture \/ CaptureTimesOut \/ SparseStep \/ ViewerStep
    \/ (\E e \in Epoch : FeedbackEnd(e) \/ \E s \in Sequence : FeedbackAck(e, s))
    \/ UNCHANGED vars
    => sender' = sender /\ live' \subseteq live
  BY CaptureFrames, CaptureLive DEF CaptureTimesOut, Abandon, SparseStep, SparsePoll, SparseAccept,
     SparseReceive, ViewerStep, ViewerConnects, ViewerOpensSparse, ViewerCloses, FeedbackEnd,
     FeedbackAck, world, vars

\* ServeInv is inductive.
LEMMA ServeStep == TInv /\ ServeInv /\ [Next]_vars => ServeInv'
<1> SUFFICES ASSUME TInv, ServeInv, [Next]_vars PROVE ServeInv'
  OBVIOUS
<1>0. sender \in SenderRec
  BY DEF TInv, ThreadsTyped
<1>1. CASE sender' = sender /\ live' \subseteq live
  BY <1>1 DEF ServeInv
<1>2. CASE SenderPoll \/ SenderLineFails
  <2>1. \/ /\ sender' = [sender EXCEPT !.at = "join", !.batch = <<>>]
           /\ live' = live \ {sender.client}
        \/ /\ sender' = [sender EXCEPT !.at = Idle]
           /\ UNCHANGED live
    BY <1>2 DEF SenderPoll, SenderLineFails, DropClient, SenderAt
  <2> QED
    BY <1>0, <2>1 DEF ServeInv, Idle, SenderRec
<1>3. CASE SenderJoin
  BY <1>0, <1>3 DEF SenderJoin, ServeInv, SenderRec
<1>4. CASE SenderAccept
  <2>1. live = {} /\ sender.client = 0
    BY <1>4 DEF SenderAccept, ServeInv
  <2>2. CASE backlog = <<>>
    BY <1>0, <1>4, <2>1, <2>2 DEF SenderAccept, SenderAt, ServeInv, SenderRec
  <2>3. CASE backlog # <<>>
    <3>1. /\ sender' = [sender EXCEPT !.at = "publish", !.client = epoch + 1]
          /\ live' \subseteq live \cup {epoch + 1}
      BY <1>4, <2>3 DEF SenderAccept
    <3>2. epoch + 1 # 0
      BY DEF TInv, Flow!TypeOK, Flow!Epoch
    <3> QED
      BY <1>0, <2>1, <3>1, <3>2 DEF ServeInv, SenderRec
  <2> QED
    BY <2>2, <2>3
<1>5. CASE SenderPublish \/ SenderHeader
  BY <1>0, <1>5 DEF SenderPublish, SenderHeader, SenderAt, ServeInv, SenderRec
<1>6. CASE SenderReceive
  <2>1. /\ \/ sender' = sender
           \/ sender' = [sender EXCEPT !.batch = Append(sender.batch, Head(videoQ))]
        /\ UNCHANGED live
    BY <1>6 DEF SenderReceive
  <2> QED
    BY <1>0, <2>1 DEF ServeInv, SenderRec
<1>7. CASE SenderHandle
  <2>1. \/ /\ \E at \in {"poll", "handle"} :
                sender' = [sender EXCEPT !.batch = Tail(sender.batch), !.at = at]
           /\ UNCHANGED live
        \/ /\ sender' = [sender EXCEPT !.at = "join", !.batch = Tail(sender.batch)]
           /\ live' = live \ {sender.client}
    BY <1>7 DEF SenderHandle, DropClient
  <2> QED
    BY <1>0, <2>1 DEF ServeInv, SenderRec
<1> QED
  BY <1>1, <1>2, <1>3, <1>4, <1>5, <1>6, <1>7, OthersServe DEF Next, SenderLap

-----------------------------------------------------------------------------
\* A step of the capture thread that keeps what outlives an iteration, and one that also keeps
\* the update it carries.
Steady ==
  /\ cap'.plans = cap.plans /\ cap'.last = cap.last /\ cap'.invalid = cap.invalid
  /\ cap'.was_connected = cap.was_connected
Carries == Steady /\ cap'.plan = cap.plan /\ cap'.ep = cap.ep

\* The next iteration keeps what outlives one.
LEMMA TopSteady == ASSUME TInv, cap' = Top PROVE Steady /\ cap'.at = "top"
<1>1. cap \in CapRec
  BY DEF TInv, CapTyped
<1> QED
  BY <1>1 DEF Top, Steady, CapRec

\* The places and the locals each action of the capture thread leaves behind: between frames.
LEMMA FieldsBetween ==
  ASSUME TInv
  PROVE  /\ CaptureTop =>
              /\ cap.at = "top" /\ cap'.plans = cap.plans /\ cap'.invalid = cap.invalid
              /\ cap'.at \in {"top", "discard", "pump", "baseline", "window"}
              /\ cap'.at = "window" => ~cap.invalid
              /\ cap'.last \in {cap.last, 0}
              /\ cap'.at = "discard" \/ ~cap'.was_connected => cap'.last = 0
         /\ CaptureDiscard =>
              /\ cap.at = "discard" /\ cap'.plans = Tail(cap.plans) /\ cap.plans # <<>>
              /\ cap'.at \in {"top", "discard"} /\ cap'.last = cap.last
              /\ cap'.invalid = cap.invalid
         /\ CaptureBaseline =>
              /\ cap.at = "baseline" /\ cap'.plans = cap.plans /\ ~cap'.invalid
              /\ cap'.at \in {"top", "window"} /\ cap'.was_connected = cap.was_connected
              /\ cap'.last \in {cap.last, 0}
              /\ cap'.at = "window" => cap'.last = 0
         /\ CaptureWindow =>
              /\ cap.at = "window" /\ Steady
              /\ cap'.at \in {"top", "acquire"}
         /\ CaptureTimesOut => cap.at = "window" /\ Steady /\ cap'.at = "top"
         /\ CaptureNothing =>
              /\ cap.at = "acquire" /\ cap'.plans = cap.plans /\ cap'.invalid = cap.invalid
              /\ cap'.at \in {"top", "discard"} /\ cap'.last \in {cap.last, 0}
              /\ cap'.was_connected = cap.was_connected
              /\ cap'.at = "discard" => cap'.last = 0
         /\ CaptureDrop => cap.at = "drop" /\ Steady /\ cap'.at = "top"
         /\ CaptureAbandon => cap.at = "abandon" /\ Steady /\ cap'.at = "top"
<1>0. cap \in CapRec /\ (cap.at = "discard" => cap.plans # <<>>)
  BY DEF TInv, CapTyped
<1>1. CaptureDrop \/ CaptureAbandon \/ CaptureTimesOut => cap' = Top
  BY DEF CaptureDrop, CaptureAbandon, CaptureTimesOut, GoTop
<1>2. CaptureWindow => cap' = Top \/ cap' = [cap EXCEPT !.at = "acquire", !.ep = session_epoch]
  BY DEF CaptureWindow
<1>3. CaptureNothing =>
        \/ cap' = Top
        \/ cap' = [Top EXCEPT !.suppress = TRUE]
        \/ \E at \in {"top", "discard"} :
             cap' = [Top EXCEPT !.at = at, !.waiting = TRUE, !.last = 0, !.suppress = TRUE]
  BY DEF CaptureNothing, GoTop
<1>4. CaptureTop =>
        /\ cap.at = "top" /\ cap'.plans = cap.plans /\ cap'.invalid = cap.invalid
        /\ cap'.at \in {"top", "discard", "pump", "baseline", "window"}
        /\ cap'.at = "window" => ~cap.invalid
        /\ cap'.last \in {cap.last, 0}
        /\ cap'.at = "discard" \/ ~cap'.was_connected => cap'.last = 0
  BY <1>0 DEF CaptureTop, AfterPump, CapRec
<1>5. CaptureDiscard =>
        /\ cap.at = "discard" /\ cap'.plans = Tail(cap.plans) /\ cap.plans # <<>>
        /\ cap'.at \in {"top", "discard"} /\ cap'.last = cap.last
        /\ cap'.invalid = cap.invalid
  BY <1>0 DEF CaptureDiscard, CapRec
<1>6. CaptureBaseline =>
        /\ cap.at = "baseline" /\ cap'.plans = cap.plans /\ ~cap'.invalid
        /\ cap'.at \in {"top", "window"} /\ cap'.was_connected = cap.was_connected
        /\ cap'.last \in {cap.last, 0}
        /\ cap'.at = "window" => cap'.last = 0
  BY <1>0 DEF CaptureBaseline, CapRec
<1>7. CaptureWindow => cap.at = "window" /\ Steady /\ cap'.at \in {"top", "acquire"}
  <2>1. CASE cap' = Top
    BY <2>1, TopSteady DEF CaptureWindow
  <2>2. CASE cap' = [cap EXCEPT !.at = "acquire", !.ep = session_epoch]
    BY <1>0, <2>2 DEF CaptureWindow, Steady, CapRec
  <2> QED
    BY <1>2, <2>1, <2>2
<1>8. CaptureNothing =>
        /\ cap.at = "acquire" /\ cap'.plans = cap.plans /\ cap'.invalid = cap.invalid
        /\ cap'.at \in {"top", "discard"} /\ cap'.last \in {cap.last, 0}
        /\ cap'.was_connected = cap.was_connected
        /\ cap'.at = "discard" => cap'.last = 0
  <2>1. /\ Top \in CapRec /\ Top.plans = cap.plans /\ Top.at = "top" /\ Top.last = cap.last
        /\ Top.invalid = cap.invalid /\ Top.was_connected = cap.was_connected
    BY <1>0, TopTyped DEF Top, CapRec, TInv
  <2> QED
    BY <1>3, <2>1 DEF CaptureNothing, CapRec
<1> QED
  BY <1>1, <1>4, <1>5, <1>6, <1>7, <1>8, TopSteady
     DEF CaptureDrop, CaptureAbandon, CaptureTimesOut

\* The same for the actions that schedule a frame.
LEMMA FieldsSchedule ==
  ASSUME TInv
  PROVE  /\ \A route, rem : CaptureFrame(route, rem) =>
              /\ cap.at = "acquire" /\ Steady
              /\ cap'.at \in {"drop", "admit", "begin"}
              /\ cap'.at = "admit" <=> route \in {"Raw", "Diff", "Move"}
              /\ cap'.plan = [seq |-> frame_seq + 1, ep |-> cap.ep, route |-> route,
                              rem |-> rem, lost |-> FALSE]
              /\ cap'.ep = cap.ep
         /\ CaptureAdmit =>
              /\ cap.at = "admit" /\ Steady
              /\ \/ cap'.at = "top"
                 \/ Carries /\ cap'.at = IF cap.plan.route = "Move" THEN "fence" ELSE "raw"
         /\ CaptureFence => cap.at = "fence" /\ Carries /\ cap'.at \in {"prelude", "cancel"}
         /\ CapturePrelude =>
              /\ cap.at = "prelude" /\ cap'.plans = cap.plans /\ cap'.invalid = cap.invalid
              /\ cap'.was_connected = cap.was_connected
              /\ \/ cap'.at = "top" /\ cap'.last = cap.plan.seq
                 \/ /\ cap'.at = "raw" /\ cap'.last = cap.plan.seq /\ cap'.plan = cap.plan
                    /\ cap'.ep = cap.ep
                 \/ Carries /\ cap'.at \in {"begin", "cancel"}
         /\ CaptureRaw =>
              /\ cap.at = "raw" /\ cap'.plans = cap.plans /\ cap'.invalid = cap.invalid
              /\ cap'.was_connected = cap.was_connected
              /\ \/ cap'.at = "top" /\ cap'.last \in {cap.last, cap.plan.seq}
                 \/ Carries /\ cap'.at = "cancel"
         /\ CaptureCancel =>
              /\ cap.at = "cancel" /\ cap'.plans = cap.plans /\ cap'.invalid = cap.invalid
              /\ cap'.was_connected = cap.was_connected
              /\ \/ cap'.at = "top" /\ cap'.last \in {cap.last, 0}
                 \/ Carries /\ cap'.at = "abandon"
                 \/ Carries /\ cap'.at = "again" /\ cap.last # cap.plan.seq
         /\ CaptureAgain =>
              /\ cap.at = "again" /\ Steady
              /\ \/ cap'.at = "top"
                 \/ /\ cap'.at = "begin" /\ cap'.ep = cap.ep
                    /\ cap'.plan = [cap.plan EXCEPT !.route = "Video", !.rem = "None"]
<1>0. cap \in CapRec /\ cap.plan \in Plan
  BY DEF TInv, CapTyped, CapRec
<1>t. /\ Top \in CapRec /\ Top.plans = cap.plans /\ Top.at = "top" /\ Top.last = cap.last
      /\ Top.invalid = cap.invalid /\ Top.was_connected = cap.was_connected
  BY <1>0, TopTyped DEF Top, CapRec, TInv
<1>1. ASSUME NEW route, NEW rem, CaptureFrame(route, rem)
      PROVE  /\ cap.at = "acquire" /\ Steady
             /\ cap'.at \in {"drop", "admit", "begin"}
             /\ cap'.at = "admit" <=> route \in {"Raw", "Diff", "Move"}
             /\ cap'.plan = [seq |-> frame_seq + 1, ep |-> cap.ep, route |-> route,
                             rem |-> rem, lost |-> FALSE]
             /\ cap'.ep = cap.ep
  <2> DEFINE p == [seq |-> frame_seq + 1, ep |-> cap.ep, route |-> route, rem |-> rem,
                   lost |-> FALSE]
  <2>1. \E at \in {"drop", "admit", "begin"} :
          /\ cap' = [cap EXCEPT !.suppress = FALSE, !.plan = p, !.at = at]
          /\ at = "admit" <=> route \in {"Raw", "Diff", "Move"}
    BY <1>1 DEF CaptureFrame
  <2>2. cap.at = "acquire"
    BY <1>1 DEF CaptureFrame
  <2> HIDE DEF p
  <2>3. /\ Steady /\ cap'.plan = p /\ cap'.ep = cap.ep
        /\ cap'.at \in {"drop", "admit", "begin"}
        /\ cap'.at = "admit" <=> route \in {"Raw", "Diff", "Move"}
    BY <1>0, <2>1 DEF Steady, CapRec
  <2> QED
    BY <2>2, <2>3 DEF p
<1>2. CaptureAdmit =>
        /\ cap.at = "admit" /\ Steady
        /\ \/ cap'.at = "top"
           \/ Carries /\ cap'.at = IF cap.plan.route = "Move" THEN "fence" ELSE "raw"
  BY <1>0, TopSteady DEF CaptureAdmit, GoTop, Goto, Steady, Carries, CapRec
<1>3. CaptureFence => cap.at = "fence" /\ Carries /\ cap'.at \in {"prelude", "cancel"}
  BY <1>0 DEF CaptureFence, Goto, Steady, Carries, CapRec
<1>4. CapturePrelude =>
        /\ cap.at = "prelude" /\ cap'.plans = cap.plans /\ cap'.invalid = cap.invalid
        /\ cap'.was_connected = cap.was_connected
        /\ \/ cap'.at = "top" /\ cap'.last = cap.plan.seq
           \/ /\ cap'.at = "raw" /\ cap'.last = cap.plan.seq /\ cap'.plan = cap.plan
              /\ cap'.ep = cap.ep
           \/ Carries /\ cap'.at \in {"begin", "cancel"}
  BY <1>0, <1>t DEF CapturePrelude, Goto, Steady, Carries, CapRec, Plan, AnyRemainder
<1>5. CaptureRaw =>
        /\ cap.at = "raw" /\ cap'.plans = cap.plans /\ cap'.invalid = cap.invalid
        /\ cap'.was_connected = cap.was_connected
        /\ \/ cap'.at = "top" /\ cap'.last \in {cap.last, cap.plan.seq}
           \/ Carries /\ cap'.at = "cancel"
  BY <1>0, <1>t DEF CaptureRaw, Goto, Steady, Carries, CapRec
<1>6. CaptureCancel =>
        /\ cap.at = "cancel" /\ cap'.plans = cap.plans /\ cap'.invalid = cap.invalid
        /\ cap'.was_connected = cap.was_connected
        /\ \/ cap'.at = "top" /\ cap'.last \in {cap.last, 0}
           \/ Carries /\ cap'.at = "abandon"
           \/ Carries /\ cap'.at = "again" /\ cap.last # cap.plan.seq
  BY <1>0, <1>t DEF CaptureCancel, Steady, Carries, CapRec
<1>7. CaptureAgain =>
        /\ cap.at = "again" /\ Steady
        /\ \/ cap'.at = "top"
           \/ /\ cap'.at = "begin" /\ cap'.ep = cap.ep
              /\ cap'.plan = [cap.plan EXCEPT !.route = "Video", !.rem = "None"]
  <2> DEFINE p == [cap.plan EXCEPT !.route = "Video", !.rem = "None"]
  <2>1. CaptureAgain => \/ cap' = Top
                        \/ cap' = [cap EXCEPT !.at = "begin", !.plan = p]
    BY DEF CaptureAgain, GoTop
  <2>2. CaptureAgain => cap.at = "again"
    BY DEF CaptureAgain
  <2> HIDE DEF p
  <2>3. CASE cap' = Top
    BY <2>2, <2>3, TopSteady
  <2>4. CASE cap' = [cap EXCEPT !.at = "begin", !.plan = p]
    <3>1. /\ Steady /\ cap'.at = "begin" /\ cap'.ep = cap.ep /\ cap'.plan = p
      BY <1>0, <2>4 DEF Steady, CapRec
    <3> QED
      BY <2>2, <3>1 DEF p
  <2> QED
    BY <2>1, <2>3, <2>4
<1> QED
  BY <1>1, <1>2, <1>3, <1>4, <1>5, <1>6, <1>7

\* The same for the assembler and the encoder.
LEMMA FieldsEncode ==
  ASSUME TInv
  PROVE  /\ CaptureBegin =>
              /\ cap.at = "begin" /\ cap'.at = "encode" /\ cap'.last = cap.plan.seq
              /\ cap'.invalid = cap.invalid /\ cap'.was_connected = cap.was_connected
              /\ \/ cap'.plans = Append(cap.plans, cap.plan)
                 \/ cap.plans # <<>> /\ cap'.plans = Append(Tail(cap.plans), cap.plan)
         /\ EmitDone =>
              /\ cap.at \in {"pump", "encode"} /\ Steady
              /\ cap'.at \in {"top", "baseline", "window"}
              /\ cap'.at = "window" => ~cap.invalid
         /\ Withhold =>
              /\ cap.at \in {"pump", "encode"} /\ cap'.at = cap.at /\ cap.plans # <<>>
              /\ cap'.last = cap.last /\ cap'.invalid
              /\ cap'.was_connected = cap.was_connected
              /\ Len(cap'.plans) = Len(cap.plans)
              /\ \A i \in 1..Len(cap.plans) : /\ cap'.plans[i].seq = cap.plans[i].seq
                                              /\ cap'.plans[i].route = cap.plans[i].route
         /\ EmitSuppressed =>
              /\ cap.at \in {"pump", "encode"} /\ cap.plans # <<>>
              /\ \/ Steady /\ cap'.at = "exited"
                 \/ /\ cap'.at = cap.at /\ cap'.plans = Tail(cap.plans) /\ cap'.invalid
                    /\ cap'.last = cap.last /\ cap'.was_connected = cap.was_connected
         /\ EmitAdmitted =>
              /\ cap.at \in {"pump", "encode"} /\ cap.plans # <<>>
              /\ cap'.plans = Tail(cap.plans) /\ cap'.invalid = cap.invalid
              /\ cap'.last = cap.last /\ cap'.was_connected = cap.was_connected
              /\ \/ cap'.at = cap.at /\ Head(cap.plans).ep # epoch
                 \/ cap'.at = "video" /\ cap'.plan = Head(cap.plans)
         /\ CaptureVideo =>
              /\ cap.at = "video" /\ Carries
              /\ \/ cap'.at = "mixed" /\ cap.plan.route = "Mixed"
                 \/ cap'.at \in {"pump", "encode"} /\ cap.plan.route # "Mixed"
                 \/ cap'.at = "rejected"
         /\ CaptureMixed =>
              /\ cap.at = "mixed" /\ Carries
              /\ cap'.at \in {"pump", "encode", "rejected"}
         /\ CaptureRejected =>
              /\ cap.at = "rejected" /\ cap'.plans = cap.plans /\ cap'.last = cap.last
              /\ cap'.was_connected = cap.was_connected
              /\ \/ cap'.at = "exited"
                 \/ cap'.at \in {"pump", "encode"} /\ cap'.invalid
<1>0. cap \in CapRec /\ cap.plan \in Plan /\ cap.plans \in Seq(Plan)
  BY DEF TInv, CapTyped, CapRec
<1>1. CaptureBegin =>
        /\ cap.at = "begin" /\ cap'.at = "encode" /\ cap'.last = cap.plan.seq
        /\ cap'.invalid = cap.invalid /\ cap'.was_connected = cap.was_connected
        /\ \/ cap'.plans = Append(cap.plans, cap.plan)
           \/ cap.plans # <<>> /\ cap'.plans = Append(Tail(cap.plans), cap.plan)
  <2>1. Len(cap.plans) >= MAX_PENDING_LOGICAL_FRAMES => cap.plans # <<>>
    BY <1>0, Bounds
  <2> QED
    BY <1>0, <2>1 DEF CaptureBegin, CapRec
<1>2. EmitDone =>
        /\ cap.at \in {"pump", "encode"} /\ Steady
        /\ cap'.at \in {"top", "baseline", "window"}
        /\ cap'.at = "window" => ~cap.invalid
  BY <1>0, TopSteady DEF EmitDone, Emitting, AfterPump, Steady, CapRec
<1>3. Withhold =>
        /\ cap.at \in {"pump", "encode"} /\ cap'.at = cap.at /\ cap.plans # <<>>
        /\ cap'.last = cap.last /\ cap'.invalid
        /\ cap'.was_connected = cap.was_connected
        /\ Len(cap'.plans) = Len(cap.plans)
        /\ \A i \in 1..Len(cap.plans) : /\ cap'.plans[i].seq = cap.plans[i].seq
                                        /\ cap'.plans[i].route = cap.plans[i].route
  <2> SUFFICES ASSUME Withhold
               PROVE  /\ cap'.at = cap.at /\ cap'.last = cap.last /\ cap'.invalid
                      /\ cap'.was_connected = cap.was_connected
                      /\ Len(cap'.plans) = Len(cap.plans)
                      /\ \A i \in 1..Len(cap.plans) :
                           /\ cap'.plans[i].seq = cap.plans[i].seq
                           /\ cap'.plans[i].route = cap.plans[i].route
    BY DEF Withhold, Complete, Emitting
  <2> DEFINE p == [cap.plans[1] EXCEPT !.lost = TRUE]
             q == [cap.plans EXCEPT ![1] = p]
  <2>1. cap.plans # <<>>
    BY DEF Withhold, Complete
  <2>2. cap' = [cap EXCEPT !.plans = q, !.invalid = TRUE]
    BY DEF Withhold
  <2>3. cap.plans[1] \in Plan
    BY <1>0, <2>1
  <2>4. p.seq = cap.plans[1].seq /\ p.route = cap.plans[1].route
    BY <2>3 DEF Plan
  <2> HIDE DEF p
  <2>5. Len(q) = Len(cap.plans) /\ \A i \in 1..Len(q) : q[i] = IF i = 1 THEN p ELSE cap.plans[i]
    BY <1>0
  <2> HIDE DEF q
  <2>6. /\ cap'.plans = q /\ cap'.at = cap.at /\ cap'.last = cap.last /\ cap'.invalid
        /\ cap'.was_connected = cap.was_connected
    BY <1>0, <2>2 DEF CapRec
  <2>7. ASSUME NEW i \in 1..Len(cap.plans)
        PROVE  q[i].seq = cap.plans[i].seq /\ q[i].route = cap.plans[i].route
    BY <2>4, <2>5
  <2> QED
    BY <2>5, <2>6, <2>7
<1>4. EmitSuppressed =>
        /\ cap.at \in {"pump", "encode"} /\ cap.plans # <<>>
        /\ \/ Steady /\ cap'.at = "exited"
           \/ /\ cap'.at = cap.at /\ cap'.plans = Tail(cap.plans) /\ cap'.invalid
              /\ cap'.last = cap.last /\ cap'.was_connected = cap.was_connected
  BY <1>0 DEF EmitSuppressed, Complete, Emitting, Goto, Steady, CapRec
<1>5. EmitAdmitted =>
        /\ cap.at \in {"pump", "encode"} /\ cap.plans # <<>>
        /\ cap'.plans = Tail(cap.plans) /\ cap'.invalid = cap.invalid
        /\ cap'.last = cap.last /\ cap'.was_connected = cap.was_connected
        /\ \/ cap'.at = cap.at /\ Head(cap.plans).ep # epoch
           \/ cap'.at = "video" /\ cap'.plan = Head(cap.plans)
  BY <1>0 DEF EmitAdmitted, Complete, Emitting, CapRec
<1>6. CaptureVideo =>
        /\ cap.at = "video" /\ Carries
        /\ \/ cap'.at = "mixed" /\ cap.plan.route = "Mixed"
           \/ cap'.at \in {"pump", "encode"} /\ cap.plan.route # "Mixed"
           \/ cap'.at = "rejected"
  BY <1>0 DEF CaptureVideo, Goto, Steady, Carries, CapRec
<1>7. CaptureMixed =>
        /\ cap.at = "mixed" /\ Carries
        /\ cap'.at \in {"pump", "encode", "rejected"}
  BY <1>0 DEF CaptureMixed, Goto, Steady, Carries, CapRec
<1>8. CaptureRejected =>
        /\ cap.at = "rejected" /\ cap'.plans = cap.plans /\ cap'.last = cap.last
        /\ cap'.was_connected = cap.was_connected
        /\ \/ cap'.at = "exited"
           \/ cap'.at \in {"pump", "encode"} /\ cap'.invalid
  BY <1>0 DEF CaptureRejected, CapRec
<1> QED
  BY <1>1, <1>2, <1>3, <1>4, <1>5, <1>6, <1>7, <1>8

-----------------------------------------------------------------------------
\* The capture thread allocates a sequence when it acquires, at no other place.
LEMMA FrameSteps ==
  Capture => \/ UNCHANGED frame_seq
             \/ CaptureNothing
             \/ \E route \in work.routes, rem \in work.remainders \cup {"None"} :
                  CaptureFrame(route, rem)
  BY DEF Capture, CaptureTop, CaptureDiscard, CaptureBaseline,
     CaptureWindow, CaptureDrop, CaptureAdmit, CaptureCancel,
     CaptureAgain, CaptureAbandon, CaptureBegin, EmitDone, Withhold, EmitSuppressed, EmitAdmitted,
     CaptureRejected, CaptureFence, CapturePrelude, CaptureRaw, CaptureVideo, CaptureMixed,
     DropReservation, Abandon, flow, Flow!CancelFrame, Flow!AdmitFrame, Flow!RetireViewer,
     Flow!ReserveAgain

\* What a scheduled frame gets: the next sequence, a tentative permit of the current epoch, and
\* its legs.
LEMMA Scheduled ==
  ASSUME TInv, PlanTyped, NEW route, NEW rem, CaptureFrame(route, rem)
  PROVE  /\ frame_seq' = frame_seq + 1 /\ frame_seq + 1 \in Sequence
         /\ frame_seq \in Nat
         /\ cap.ep = epoch /\ epoch' = epoch
         /\ plan' = [plan EXCEPT ![frame_seq + 1] = [ep |-> cap.ep, legs |-> LegsOf(route, rem)]]
         /\ plan'[frame_seq + 1] = [ep |-> cap.ep, legs |-> LegsOf(route, rem)]
         /\ MayRoute(route, frame_seq + 1)
<1>1. frame_seq \in Nat /\ frame_seq < MaxSeq
  BY DEF CaptureFrame, Flow!ReserveFrame, TInv, Flow!TypeOK
<1>2. frame_seq + 1 \in Sequence
  BY <1>1, Bounds DEF Sequence
<1>3. /\ frame_seq' = frame_seq + 1
      /\ cap.ep = epoch /\ epoch' = epoch
  BY DEF CaptureFrame, Flow!ReserveFrame, Flow!Reserve, Flow!CanReserve
<1>4. /\ plan' = [plan EXCEPT ![frame_seq + 1] = [ep |-> cap.ep, legs |-> LegsOf(route, rem)]]
      /\ MayRoute(route, frame_seq + 1)
  BY DEF CaptureFrame
<1>5. plan'[frame_seq + 1] = [ep |-> cap.ep, legs |-> LegsOf(route, rem)]
  BY <1>2, <1>4 DEF PlanTyped
<1> QED
  BY <1>1, <1>2, <1>3, <1>4, <1>5

\* Threads other than the capture thread leave its locals, its sequence and its gates alone.
LEMMA OthersCapture ==
  [Next]_vars => \/ Capture
                 \/ CaptureTimesOut
                 \/ UNCHANGED <<cap, frame_seq, plan, gates>>
  BY DEF Next, SenderLap, SenderLineFails, SenderPoll, SenderJoin, SenderAccept, SenderPublish,
     SenderHeader, SenderReceive, SenderHandle, DropClient, SparseStep, SparsePoll, SparseAccept,
     SparseReceive, ViewerStep, FeedbackEnd, FeedbackAck, history, queues, vars, flow,
     Flow!RetireViewer, Flow!AcceptViewer, Flow!FeedbackEnd, Flow!FeedbackAck

\* PlansInv is inductive.
LEMMA PlansStep == TInv /\ RInv /\ PlansInv /\ [Next]_vars => PlansInv'
<1> SUFFICES ASSUME TInv, RInv, PlansInv, [Next]_vars PROVE PlansInv'
  OBVIOUS
<1>0. /\ cap.plans \in Seq(Plan) /\ cap.plan \in Plan /\ Len(cap.plans) \in Nat
      /\ frame_seq \in 0..MaxSeq /\ frame_seq' \in 0..MaxSeq /\ frame_seq <= frame_seq'
      /\ PlanTyped
  BY FlowAges, FlowStep, FlowTypeStep DEF TInv, CapTyped, CapRec, Flow!TypeOK, RInv
<1>1. /\ \A i \in 1..Len(cap.plans) : cap.plans[i].seq \in Int /\ cap.plans[i].seq <= frame_seq'
      /\ cap.plan.seq \in Int
  <2>1. \A p \in Plan : p.seq \in Int
    BY Bounds DEF Plan
  <2>2. frame_seq \in Int /\ frame_seq' \in Int
    BY <1>0, Bounds
  <2> QED
    BY <1>0, <2>1, <2>2 DEF PlansInv
<1>2. ASSUME cap.plans # <<>>
      PROVE  /\ Len(Tail(cap.plans)) = Len(cap.plans) - 1 /\ Tail(cap.plans) \in Seq(Plan)
             /\ \A i \in 1..Len(Tail(cap.plans)) :
                  Tail(cap.plans)[i] = cap.plans[i + 1] /\ i + 1 \in 1..Len(cap.plans)
             /\ Head(cap.plans) = cap.plans[1] /\ 1 \in 1..Len(cap.plans)
  BY <1>0, <1>2, TailOf
<1>3. CASE cap'.plans = cap.plans /\ cap'.at \notin Fresh \cup Emitted
  BY <1>1, <1>3 DEF PlansInv
<1>4. CASE /\ cap.plans # <<>> /\ cap'.plans = Tail(cap.plans)
           /\ cap'.at \notin Fresh
           /\ cap'.at \in Emitted => cap'.plan = Head(cap.plans)
  <2>1. \A i \in 1..Len(cap'.plans) : cap'.plans[i].seq <= frame_seq'
    BY <1>1, <1>2, <1>4
  <2>2. \A i, j \in 1..Len(cap'.plans) : i < j => cap'.plans[i].seq < cap'.plans[j].seq
    BY <1>2, <1>4 DEF PlansInv
  <2>3. \A i \in 1..Len(cap'.plans) : Head(cap.plans).seq < cap'.plans[i].seq
    BY <1>2, <1>4 DEF PlansInv
  <2> QED
    BY <1>4, <2>1, <2>2, <2>3 DEF PlansInv
<1>5. CASE /\ cap.at \in Fresh /\ cap'.at \in Fresh /\ cap'.plans = cap.plans
           /\ cap'.plan.seq = cap.plan.seq /\ cap'.plan.ep = cap.plan.ep /\ cap'.ep = cap.ep
           /\ frame_seq' = frame_seq
  <2>1. cap'.at \notin Emitted
    BY <1>5 DEF Fresh, Emitted
  <2> QED
    BY <1>5, <2>1 DEF PlansInv
<1>6. CASE /\ cap.at \in Emitted /\ cap'.at \in Emitted /\ cap'.plans = cap.plans
           /\ cap'.plan = cap.plan
  <2>1. cap'.at \notin Fresh
    BY <1>6 DEF Fresh, Emitted
  <2> QED
    BY <1>1, <1>6, <2>1 DEF PlansInv
<1>7. CASE UNCHANGED <<cap, frame_seq, plan, gates>>
  BY <1>7 DEF PlansInv
<1>8. CASE CaptureTimesOut
  BY <1>3, <1>8, FieldsBetween DEF Steady, Fresh, Emitted
<1>9. CASE CaptureTop \/ CaptureBaseline \/ CaptureWindow \/ CaptureNothing \/ CaptureDrop
           \/ CaptureAbandon
  BY <1>3, <1>9, FieldsBetween DEF Steady, Fresh, Emitted
<1>10. CASE CaptureDiscard
  BY <1>4, <1>10, FieldsBetween DEF Fresh, Emitted
<1>11. ASSUME NEW route, NEW rem, CaptureFrame(route, rem) PROVE PlansInv'
  <2>1. /\ cap'.plans = cap.plans /\ cap'.plan.seq = frame_seq' /\ cap'.plan.ep = cap'.ep
        /\ cap'.at \in {"drop", "admit", "begin"} /\ frame_seq < frame_seq'
    <3>1. /\ Steady /\ cap'.at \in {"drop", "admit", "begin"}
          /\ cap'.plan = [seq |-> frame_seq + 1, ep |-> cap.ep, route |-> route,
                          rem |-> rem, lost |-> FALSE]
          /\ cap'.ep = cap.ep
      BY <1>11, FieldsSchedule
    <3>2. frame_seq' = frame_seq + 1 /\ frame_seq \in Nat
      BY <1>0, <1>11, Scheduled
    <3>3. cap'.plan.seq = frame_seq + 1 /\ cap'.plan.ep = cap.ep
      BY <3>1
    <3> QED
      BY <3>1, <3>2, <3>3 DEF Steady
  <2>2. \A i \in 1..Len(cap.plans) : cap.plans[i].seq < cap'.plan.seq
    BY <1>0, <1>1, <2>1 DEF PlansInv
  <2> QED
    BY <1>1, <2>1, <2>2 DEF PlansInv, Emitted
<1>12. CASE CaptureAdmit \/ CaptureFence \/ CapturePrelude \/ CaptureRaw \/ CaptureCancel
  <2>1. frame_seq' = frame_seq
    BY <1>12 DEF CaptureAdmit, CaptureFence, CapturePrelude, CaptureRaw, CaptureCancel,
       Flow!AdmitFrame, Flow!CancelFrame, flow
  <2>2. \/ cap'.at = "top" /\ cap'.plans = cap.plans
        \/ /\ cap.at \in Fresh /\ cap'.at \in Fresh /\ cap'.plans = cap.plans
           /\ cap'.plan.seq = cap.plan.seq /\ cap'.plan.ep = cap.plan.ep /\ cap'.ep = cap.ep
    BY <1>12, FieldsSchedule DEF Steady, Carries, Fresh
  <2> QED
    BY <1>3, <1>5, <2>1, <2>2 DEF Fresh, Emitted
<1>13. CASE CaptureAgain
  <2>1. frame_seq' = frame_seq
    BY <1>13 DEF CaptureAgain, Flow!ReserveAgain, flow
  <2>2. \/ cap'.at = "top" /\ cap'.plans = cap.plans
        \/ /\ cap.at \in Fresh /\ cap'.at \in Fresh /\ cap'.plans = cap.plans
           /\ cap'.plan.seq = cap.plan.seq /\ cap'.plan.ep = cap.plan.ep /\ cap'.ep = cap.ep
    BY <1>0, <1>13, FieldsSchedule DEF Steady, Fresh, Plan
  <2> QED
    BY <1>3, <1>5, <2>1, <2>2 DEF Fresh, Emitted
<1>14. CASE CaptureBegin
  <2>1. /\ cap.at = "begin" /\ cap'.at = "encode"
        /\ \/ cap'.plans = Append(cap.plans, cap.plan)
           \/ cap.plans # <<>> /\ cap'.plans = Append(Tail(cap.plans), cap.plan)
    BY <1>14, FieldsEncode
  <2>2. /\ cap.plan.seq = frame_seq
        /\ \A i \in 1..Len(cap.plans) : cap.plans[i].seq < cap.plan.seq
    BY <2>1 DEF PlansInv, Fresh
  <2>3. PICK rest \in Seq(Plan) :
          /\ cap'.plans = Append(rest, cap.plan)
          /\ \/ rest = cap.plans
             \/ cap.plans # <<>> /\ rest = Tail(cap.plans)
    BY <1>0, <1>2, <2>1
  <2>4. /\ \A i \in 1..Len(rest) : rest[i].seq \in Int /\ rest[i].seq < cap.plan.seq
        /\ \A i, j \in 1..Len(rest) : i < j => rest[i].seq < rest[j].seq
    <3>1. CASE rest = cap.plans
      BY <1>1, <2>2, <3>1 DEF PlansInv
    <3>2. CASE cap.plans # <<>> /\ rest = Tail(cap.plans)
      BY <1>1, <1>2, <2>2, <3>2 DEF PlansInv
    <3> QED
      BY <2>3, <3>1, <3>2
  <2>5. /\ Len(cap'.plans) = Len(rest) + 1 /\ Len(rest) \in Nat
        /\ \A i \in 1..Len(rest) : cap'.plans[i] = rest[i]
        /\ cap'.plans[Len(rest) + 1] = cap.plan
    BY <1>0, <2>3, AppendOf
  <2>6. \A i \in 1..Len(cap'.plans) : cap'.plans[i].seq <= frame_seq'
    BY <1>0, <1>1, <2>2, <2>4, <2>5
  <2>7. \A i, j \in 1..Len(cap'.plans) : i < j => cap'.plans[i].seq < cap'.plans[j].seq
    BY <2>4, <2>5
  <2> QED
    BY <2>1, <2>6, <2>7 DEF PlansInv, Fresh, Emitted
<1>15. CASE EmitDone
  BY <1>3, <1>15, FieldsEncode DEF Steady, Fresh, Emitted
<1>16. CASE Withhold
  <2>1. /\ cap'.at \in {"pump", "encode"} /\ Len(cap'.plans) = Len(cap.plans)
        /\ \A i \in 1..Len(cap.plans) : cap'.plans[i].seq = cap.plans[i].seq
    BY <1>16, FieldsEncode
  <2> QED
    BY <1>1, <2>1 DEF PlansInv, Fresh, Emitted
<1>17. CASE EmitSuppressed
  BY <1>3, <1>4, <1>17, FieldsEncode DEF Steady, Fresh, Emitted
<1>18. CASE EmitAdmitted
  BY <1>4, <1>18, FieldsEncode DEF Fresh, Emitted
<1>19. CASE CaptureVideo \/ CaptureMixed \/ CaptureRejected
  BY <1>3, <1>6, <1>19, FieldsEncode DEF Steady, Carries, Fresh, Emitted
<1> QED
  BY <1>7, <1>8, <1>9, <1>10, <1>11, <1>12, <1>13, <1>14, <1>15, <1>16, <1>17, <1>18, <1>19,
     OthersCapture DEF Capture

-----------------------------------------------------------------------------
\* RouteInv is inductive.
LEMMA RouteStep == TInv /\ RInv /\ PlansInv /\ RouteInv /\ [Next]_vars => RouteInv'
<1> SUFFICES ASSUME TInv, RInv, PlansInv, RouteInv, [Next]_vars PROVE RouteInv'
  OBVIOUS
<1>0. /\ cap.plans \in Seq(Plan) /\ cap.plan \in Plan /\ Len(cap.plans) \in Nat
      /\ frame_seq \in 0..MaxSeq /\ frame_seq' \in 0..MaxSeq /\ frame_seq <= frame_seq'
      /\ cap.last \in 0..MaxSeq
      /\ PlanTyped
      /\ ~cap.was_connected => cap.at \in {"top", "discard"}
      /\ cap.at \in Fresh => cap.plan.seq = frame_seq
  BY FlowAges, FlowStep, FlowTypeStep
     DEF TInv, CapTyped, CapRec, Flow!TypeOK, RInv, CaptureInv, PlansInv
<1>1. cap.last <= frame_seq' /\ 0 <= frame_seq' /\ frame_seq <= frame_seq'
  BY <1>0 DEF RouteInv
<1> DEFINE Plain(at) == at \notin Fresh \cup {"window", "acquire", "mixed", "discard"}
<1>2. ASSUME Plain(cap'.at),
             cap'.last \in {cap.last, 0} \/ (cap'.last = frame_seq /\ cap.was_connected),
             cap'.was_connected = cap.was_connected \/ cap'.last = 0,
             cap.at # "top" \/ cap'.last = 0 \/ cap'.was_connected
      PROVE  RouteInv'
  <2>1. cap'.last <= frame_seq'
    BY <1>1, <1>2
  <2>2. ~cap'.was_connected => cap'.last = 0
    BY <1>0, <1>2 DEF RouteInv
  <2> QED
    BY <1>2, <2>1, <2>2 DEF RouteInv, Fresh
<1>3. CASE UNCHANGED <<cap, frame_seq, plan, gates>>
  BY <1>3 DEF RouteInv
<1>4. CASE CaptureTimesOut \/ CaptureDrop \/ CaptureAbandon
  BY <1>2, <1>4, FieldsBetween DEF Steady, Fresh
<1>5. CASE CaptureTop
  <2>1. /\ cap'.at \in {"top", "discard", "pump", "baseline", "window"}
        /\ cap'.at = "window" => ~cap'.invalid
        /\ cap'.last \in {cap.last, 0}
        /\ cap'.at = "discard" \/ ~cap'.was_connected => cap'.last = 0
    BY <1>5, FieldsBetween
  <2>2. cap'.last <= frame_seq'
    BY <1>1, <2>1
  <2> QED
    BY <2>1, <2>2 DEF RouteInv, Fresh
<1>6. CASE CaptureDiscard
  <2>1. cap.at = "discard" /\ cap'.at \in {"top", "discard"} /\ cap'.last = cap.last
    BY <1>6, FieldsBetween
  <2> QED
    BY <1>1, <2>1 DEF RouteInv, Fresh
<1>7. CASE CaptureBaseline
  <2>1. /\ cap.at = "baseline" /\ ~cap'.invalid /\ cap'.at \in {"top", "window"}
        /\ cap'.was_connected = cap.was_connected /\ cap'.last \in {cap.last, 0}
    BY <1>7, FieldsBetween
  <2> QED
    BY <1>0, <1>1, <2>1 DEF RouteInv, Fresh
<1>8. CASE CaptureWindow
  <2>1. cap.at = "window" /\ Steady /\ cap'.at \in {"top", "acquire"}
    BY <1>8, FieldsBetween
  <2> QED
    BY <1>0, <1>1, <2>1 DEF RouteInv, Fresh, Steady
<1>9. CASE CaptureNothing
  <2>1. /\ cap.at = "acquire" /\ cap'.invalid = cap.invalid
        /\ cap'.at \in {"top", "discard"} /\ cap'.last \in {cap.last, 0}
        /\ cap'.was_connected = cap.was_connected
        /\ cap'.at = "discard" => cap'.last = 0
    BY <1>9, FieldsBetween
  <2> QED
    BY <1>0, <1>1, <2>1 DEF RouteInv, Fresh
<1>10. ASSUME NEW route, NEW rem, CaptureFrame(route, rem) PROVE RouteInv'
  <2>1. /\ cap.at = "acquire" /\ Steady /\ cap'.at \in {"drop", "admit", "begin"}
        /\ cap'.plan = [seq |-> frame_seq + 1, ep |-> cap.ep, route |-> route,
                        rem |-> rem, lost |-> FALSE]
    BY <1>10, FieldsSchedule
  <2>2. cap'.plan.seq = frame_seq + 1 /\ cap'.plan.route = route /\ cap'.plan.rem = rem
    BY <2>1
  <2>3. /\ plan'[frame_seq + 1] = [ep |-> cap.ep, legs |-> LegsOf(route, rem)]
        /\ MayRoute(route, frame_seq + 1)
    BY <1>0, <1>10, Scheduled
  <2>4. plan'[cap'.plan.seq].legs = LegsOf(cap'.plan.route, cap'.plan.rem)
    <3>1. plan'[frame_seq + 1].legs = LegsOf(route, rem)
      BY <2>3
    <3> QED
      BY <2>2, <3>1
  <2>5. cap'.plan.route = "Move" => cap'.plans = <<>>
    BY <2>1, <2>2, <2>3 DEF MayRoute, MayMove, Steady
  <2>6. ~cap'.invalid /\ cap'.last <= frame_seq' /\ cap'.was_connected
    BY <1>0, <1>1, <2>1 DEF RouteInv, Steady
  <2>7. cap'.at = "admit" => cap'.plan.route \in {"Raw", "Diff", "Move"}
    BY <1>10, <2>2, FieldsSchedule
  <2> QED
    BY <2>1, <2>4, <2>5, <2>6, <2>7 DEF RouteInv
<1>11. CASE CaptureAdmit \/ CaptureFence \/ CapturePrelude \/ CaptureRaw \/ CaptureCancel
  <2>1. plan' = plan
    BY <1>11 DEF CaptureAdmit, CaptureFence, CapturePrelude, CaptureRaw, CaptureCancel, history
  <2>2. /\ cap.at \in Fresh /\ ~cap.invalid /\ cap.was_connected
        /\ plan[cap.plan.seq].legs = LegsOf(cap.plan.route, cap.plan.rem)
    BY <1>0, <1>11 DEF RouteInv, Fresh, CaptureAdmit, CaptureFence, CapturePrelude, CaptureRaw,
       CaptureCancel
  <2>3. CASE cap'.at = "top"
    <3>1. /\ cap'.last \in {cap.last, 0, frame_seq}
          /\ cap'.was_connected = cap.was_connected
      BY <1>0, <1>11, <2>2, <2>3, FieldsSchedule DEF Steady, Carries
    <3> QED
      BY <1>2, <2>2, <2>3, <3>1 DEF Fresh
  <2>4. CASE cap'.at # "top"
    <3>1. /\ cap'.plans = cap.plans /\ cap'.invalid = cap.invalid /\ cap'.plan = cap.plan
          /\ cap'.was_connected = cap.was_connected
          /\ cap'.last \in {cap.last, frame_seq}
          /\ cap'.at \in Fresh
      BY <1>0, <1>11, <2>2, <2>4, FieldsSchedule DEF Steady, Carries, Fresh
    <3>2. plan'[cap'.plan.seq].legs = LegsOf(cap'.plan.route, cap'.plan.rem)
      BY <2>1, <2>2, <3>1 DEF LegsOf
    <3>3. cap'.last <= frame_seq'
      BY <1>0, <1>1, <3>1
    <3>4. cap'.at \in {"fence", "prelude"} => cap'.plans = <<>> /\ cap'.plan.route = "Move"
      BY <1>11, <3>1, FieldsSchedule DEF RouteInv, Carries
    <3>5. cap'.at # "admit" /\ cap'.at # "acquire" /\ cap'.at # "window" /\ cap'.at # "mixed"
      BY <1>11, FieldsSchedule
    <3>6. cap'.at = "again" => cap'.last # cap'.plan.seq
      BY <1>11, FieldsSchedule DEF Carries, Steady
    <3>7. cap'.at # "discard" /\ cap'.was_connected /\ ~cap'.invalid
      BY <2>2, <3>1 DEF Fresh
    <3>8. cap'.at = "raw" => \/ cap'.plan.route \in {"Raw", "Diff"}
                             \/ cap'.plan.route = "Move" /\ cap'.last = cap'.plan.seq
      <4>1. CaptureFence \/ CaptureRaw \/ CaptureCancel => cap'.at # "raw"
        BY <2>4, FieldsSchedule
      <4>2. CaptureAdmit /\ cap'.at = "raw" => cap.plan.route \in {"Raw", "Diff"}
        BY FieldsSchedule DEF RouteInv
      <4>3. CapturePrelude /\ cap'.at = "raw" =>
              cap.plan.route = "Move" /\ cap'.last = cap.plan.seq
        BY FieldsSchedule DEF RouteInv
      <4> QED
        BY <1>11, <3>1, <4>1, <4>2, <4>3
    <3> QED
      BY <3>2, <3>3, <3>4, <3>5, <3>6, <3>7, <3>8 DEF RouteInv
  <2> QED
    BY <2>3, <2>4
<1>12. CASE CaptureAgain
  <2>1. /\ cap.at = "again" /\ Steady /\ cap.was_connected /\ ~cap.invalid
    BY <1>0, <1>12, FieldsSchedule DEF RouteInv, Fresh
  <2>2. CASE cap'.at = "top"
    BY <1>2, <2>1, <2>2 DEF Steady, Fresh
  <2>3. CASE cap'.at # "top"
    <3>1. /\ cap'.at = "begin"
          /\ cap'.plan = [cap.plan EXCEPT !.route = "Video", !.rem = "None"]
      BY <1>12, <2>3, FieldsSchedule
    <3>2. cap'.plan.seq = cap.plan.seq /\ cap'.plan.route = "Video" /\ cap'.plan.rem = "None"
      BY <1>0, <3>1 DEF Plan
    <3>3. plan' = [plan EXCEPT ![cap.plan.seq].legs = {"video"}]
      <4>1. ~Stale
        BY <1>12, <2>3, TopSteady DEF CaptureAgain, GoTop
      <4> QED
        BY <1>12, <4>1 DEF CaptureAgain
    <3>4. cap.plan.seq \in Sequence
      BY <2>1 DEF TInv, CapTyped, Carrying
    <3>5. plan'[cap.plan.seq].legs = {"video"}
      BY <1>0, <3>3, <3>4 DEF PlanTyped
    <3>6. LegsOf("Video", "None") = {"video"}
      BY DEF LegsOf
    <3>7. plan'[cap'.plan.seq].legs = LegsOf(cap'.plan.route, cap'.plan.rem)
      BY <3>2, <3>5, <3>6 DEF LegsOf
    <3> QED
      BY <1>1, <2>1, <3>1, <3>7 DEF RouteInv, Steady, Fresh
  <2> QED
    BY <2>2, <2>3
<1>13. CASE CaptureBegin
  <2>1. /\ cap.at = "begin" /\ cap'.at = "encode" /\ cap'.last = cap.plan.seq
        /\ cap'.was_connected = cap.was_connected
    BY <1>13, FieldsEncode
  <2>2. cap.plan.seq = frame_seq /\ cap.was_connected
    BY <1>0, <2>1 DEF Fresh
  <2>3. Plain(cap'.at)
    BY <2>1 DEF Fresh
  <2> QED
    BY <1>2, <2>1, <2>2, <2>3
<1>14. CASE EmitDone
  <2>1. /\ cap.at \in {"pump", "encode"} /\ Steady
        /\ cap'.at \in {"top", "baseline", "window"}
        /\ cap'.at = "window" => ~cap.invalid
    BY <1>14, FieldsEncode
  <2> QED
    BY <1>0, <1>1, <2>1 DEF RouteInv, Fresh, Steady
<1>15. CASE Withhold \/ EmitSuppressed \/ EmitAdmitted
  <2>1. /\ cap.at \in {"pump", "encode"} /\ cap'.last = cap.last
        /\ cap'.was_connected = cap.was_connected
        /\ cap'.at \in {"pump", "encode", "exited", "video"}
    BY <1>15, FieldsEncode DEF Steady
  <2> QED
    BY <1>2, <2>1 DEF Fresh
<1>16. CASE CaptureVideo
  <2>1. /\ cap.at = "video" /\ Carries
        /\ cap'.at = "mixed" => cap.plan.route = "Mixed"
        /\ cap'.at \in {"mixed", "pump", "encode", "rejected"}
    BY <1>16, FieldsEncode
  <2> QED
    BY <1>0, <1>1, <2>1 DEF RouteInv, Fresh, Carries, Steady
<1>17. CASE CaptureMixed \/ CaptureRejected
  <2>1. /\ cap.at \in {"mixed", "rejected"} /\ cap'.last = cap.last
        /\ cap'.was_connected = cap.was_connected
        /\ cap'.at \in {"pump", "encode", "exited", "rejected"}
    BY <1>17, FieldsEncode DEF Steady, Carries
  <2> QED
    BY <1>2, <2>1 DEF Fresh
<1> QED
  BY <1>3, <1>4, <1>5, <1>6, <1>7, <1>8, <1>9, <1>10, <1>11, <1>12, <1>13, <1>14, <1>15, <1>16,
     <1>17, OthersCapture DEF Capture

-----------------------------------------------------------------------------
\* Who writes a gate.
LEMMA GateSteps ==
  [Next]_vars => \/ UNCHANGED gates
                 \/ CaptureFence \/ CapturePrelude \/ CaptureVideo \/ CaptureMixed
  BY OthersCapture DEF Capture, CaptureTimesOut, CaptureTop, CaptureDiscard, CaptureBaseline,
     CaptureWindow, CaptureNothing, CaptureDrop, CaptureAdmit, CaptureFrame, CaptureRaw,
     CaptureCancel, CaptureAgain, CaptureAbandon, CaptureBegin, EmitDone, Withhold, EmitSuppressed,
     EmitAdmitted, CaptureRejected, queues

\* What each of them makes of it, if anything.
LEMMA GateWrites ==
  ASSUME TInv
  PROVE  /\ CaptureFence =>
              \/ cap'.at = "cancel" /\ gates' = gates
              \/ cap'.at = "prelude" /\ gates' = [gates EXCEPT ![cap.plan.seq] = "pending"]
         /\ CapturePrelude =>
              \/ cap'.at = "cancel" /\ gates' = [gates EXCEPT ![cap.plan.seq] = "no"]
              \/ /\ cap'.at \in {"top", "raw", "begin"}
                 /\ gates' = [gates EXCEPT ![cap.plan.seq] = "yes"]
         /\ CaptureVideo =>
              \/ cap'.at # "mixed" /\ gates' = gates
              \/ cap'.at = "mixed" /\ gates' = [gates EXCEPT ![cap.plan.seq] = "pending"]
         /\ CaptureMixed =>
              \E g \in {"yes", "no"} : gates' = [gates EXCEPT ![cap.plan.seq] = g]
<1>0. cap \in CapRec /\ cap.plan \in Plan
  BY DEF TInv, CapTyped, CapRec
<1>t. Top \in CapRec /\ Top.at = "top"
  BY <1>0, TopTyped DEF TInv
<1>1. CaptureFence =>
        \/ cap'.at = "cancel" /\ gates' = gates
        \/ cap'.at = "prelude" /\ gates' = [gates EXCEPT ![cap.plan.seq] = "pending"]
  BY <1>0 DEF CaptureFence, Goto, CapRec
<1>2. CapturePrelude =>
        \/ cap'.at = "cancel" /\ gates' = [gates EXCEPT ![cap.plan.seq] = "no"]
        \/ /\ cap'.at \in {"top", "raw", "begin"}
           /\ gates' = [gates EXCEPT ![cap.plan.seq] = "yes"]
  BY <1>0, <1>t DEF CapturePrelude, Goto, CapRec, Plan, AnyRemainder
<1>3. CaptureVideo =>
        \/ cap'.at # "mixed" /\ gates' = gates
        \/ cap'.at = "mixed" /\ gates' = [gates EXCEPT ![cap.plan.seq] = "pending"]
  <2>1. cap.back \in {"pump", "encode"}
    BY <1>0 DEF CapRec
  <2> QED
    BY <1>0, <2>1 DEF CaptureVideo, Goto, CapRec
<1>4. CaptureMixed => \E g \in {"yes", "no"} : gates' = [gates EXCEPT ![cap.plan.seq] = g]
  BY DEF CaptureMixed
<1> QED
  BY <1>1, <1>2, <1>3, <1>4

\* A gate that is written was not open, so nothing behind it has been written to a viewer.
LEMMA PairsKept ==
  ASSUME TInv, NoHalfPair, UNCHANGED <<got, gotSparse>>, NEW c \in Sequence, gates[c] # "yes",
         NEW g, gates' = [gates EXCEPT ![c] = g]
  PROVE  NoHalfPair'
<1>1. gates \in [Sequence -> {"none", "pending", "yes", "no"}]
  BY DEF TInv, QueuesTyped
<1>2. ASSUME NEW s, gates[s] = "yes" PROVE gates'[s] = "yes"
  <2>1. s # c
    BY <1>2
  <2>2. CASE s \in Sequence
    BY <1>1, <1>2, <2>1, <2>2
  <2>3. CASE s \notin Sequence
    BY <1>1, <1>2, <2>1, <2>3
  <2> QED
    BY <2>2, <2>3
<1> QED
  BY <1>2 DEF NoHalfPair

\* Writers hand a gated message out when its gate is open.
LEMMA PairsWritten ==
  ASSUME TInv, NoHalfPair, SenderHandle \/ SparseReceive
  PROVE  NoHalfPair'
<1>1. gates' = gates
  BY DEF SenderHandle, SparseReceive, queues
<1>2. CASE SenderHandle
  <2>0. got \in [Epoch -> Seq(BulkMsg)] /\ sender.batch \in Seq(BulkMsg) /\ sender.client \in Epoch
    BY DEF TInv, HistoryTyped, ThreadsTyped, SenderRec
  <2>1. gotSparse' = gotSparse
    BY <1>2 DEF SenderHandle
  <2>2. \/ got' = got
        \/ /\ Passes(Head(sender.batch)) /\ sender.batch # <<>>
           /\ got' = [got EXCEPT ![sender.client] = Append(got[sender.client], Head(sender.batch))]
    BY <1>2 DEF SenderHandle
  <2>3. CASE got' = got
    BY <1>1, <2>1, <2>3 DEF NoHalfPair
  <2>4. CASE /\ Passes(Head(sender.batch)) /\ sender.batch # <<>>
             /\ got' = [got EXCEPT ![sender.client] = Append(got[sender.client], Head(sender.batch))]
    <3> DEFINE m == Head(sender.batch)
               c == sender.client
    <3>1. m \in BulkMsg
      BY <2>0, <2>4, TailOf
    <3>2. m.gated => gates[m.seq] = "yes"
      BY <2>4 DEF Passes
    <3> HIDE DEF m, c
    <3>3. got' = [got EXCEPT ![c] = Append(got[c], m)] /\ c \in Epoch
      BY <2>0, <2>4 DEF m, c
    <3>4. ASSUME NEW e \in Epoch, NEW i \in 1..Len(got'[e]), got'[e][i].gated
          PROVE  gates[got'[e][i].seq] = "yes"
      <4>1. CASE e # c
        <5>1. got'[e] = got[e]
          BY <2>0, <3>3, <4>1
        <5> QED
          BY <2>0, <3>4, <5>1 DEF NoHalfPair
      <4>2. CASE e = c
        <5>1. got'[e] = Append(got[e], m) /\ got[e] \in Seq(BulkMsg)
          BY <2>0, <3>3, <4>2
        <5>2. /\ Len(got'[e]) = Len(got[e]) + 1 /\ Len(got[e]) \in Nat
              /\ \A j \in 1..Len(got[e]) : got'[e][j] = got[e][j]
              /\ got'[e][Len(got[e]) + 1] = m
          BY <3>1, <5>1, AppendOf
        <5>3. CASE i = Len(got[e]) + 1
          BY <3>2, <3>4, <5>2, <5>3
        <5>4. CASE i \in 1..Len(got[e])
          BY <3>4, <5>1, <5>2, <5>4 DEF NoHalfPair
        <5> QED
          BY <5>2, <5>3, <5>4
      <4> QED
        BY <4>1, <4>2
    <3>5. got' \in [Epoch -> Seq(BulkMsg)]
      <4>1. Append(got[c], m) \in Seq(BulkMsg)
        BY <2>0, <3>1, <3>3
      <4> QED
        BY <2>0, <3>3, <4>1
    <3>6. \A e \in Epoch : DOMAIN got'[e] = 1..Len(got'[e])
      BY <3>5
    <3> QED
      BY <1>1, <2>1, <3>4, <3>6 DEF NoHalfPair
  <2> QED
    BY <2>2, <2>3, <2>4
<1>3. CASE SparseReceive
  <2>1. got' = got
    BY <1>3 DEF SparseReceive
  <2>2. \/ gotSparse' = gotSparse
        \/ /\ Passes(Head(sparseQ))
           /\ gotSparse' = gotSparse \cup {<<sparse.client, Head(sparseQ)>>}
    BY <1>3 DEF SparseReceive
  <2>3. \A d \in gotSparse' : d[2].gated => gates[d[2].seq] = "yes"
    BY <2>2 DEF NoHalfPair, Passes
  <2> QED
    BY <1>1, <2>1, <2>3 DEF NoHalfPair
<1> QED
  BY <1>2, <1>3

\* Nobody else writes to a viewer.
LEMMA WriteSteps ==
  [Next]_vars => UNCHANGED <<got, gotSparse>> \/ SenderHandle \/ SparseReceive
  BY CaptureFrames DEF Next, CaptureTimesOut, SenderLap, SenderLineFails, SenderPoll, SenderJoin,
     SenderAccept, SenderPublish, SenderHeader, SenderReceive, SparseStep, SparsePoll,
     SparseAccept, ViewerStep, FeedbackEnd, FeedbackAck, history, vars

-----------------------------------------------------------------------------
\* GateInv is inductive.
LEMMA GateStep == TInv /\ RInv /\ PlansInv /\ RouteInv /\ GateInv /\ [Next]_vars => GateInv'
<1> SUFFICES ASSUME TInv, RInv, PlansInv, RouteInv, GateInv, [Next]_vars PROVE GateInv'
  OBVIOUS
<1>0. /\ cap.plans \in Seq(Plan) /\ cap.plan \in Plan /\ Len(cap.plans) \in Nat
      /\ frame_seq \in 0..MaxSeq /\ frame_seq' \in 0..MaxSeq /\ frame_seq <= frame_seq'
      /\ gates \in [Sequence -> {"none", "pending", "yes", "no"}]
      /\ PlanTyped
      /\ cap.at \in Carrying => cap.plan.seq \in Sequence /\ cap.plan.seq <= frame_seq
      /\ cap.at \in Fresh => cap.plan.seq = frame_seq
      /\ \A s \in Sequence : s \in Int
  BY FlowAges, FlowStep, FlowTypeStep, Bounds
     DEF TInv, CapTyped, CapRec, Flow!TypeOK, RInv, CaptureInv, PlansInv, QueuesTyped, Based,
         Sequence
<1>p. ASSUME cap.plans # <<>>
      PROVE  /\ Len(Tail(cap.plans)) = Len(cap.plans) - 1 /\ Tail(cap.plans) \in Seq(Plan)
             /\ \A i \in 1..Len(Tail(cap.plans)) :
                  Tail(cap.plans)[i] = cap.plans[i + 1] /\ i + 1 \in 1..Len(cap.plans)
             /\ Head(cap.plans) = cap.plans[1] /\ 1 \in 1..Len(cap.plans)
  BY <1>0, <1>p, TailOf
\* What holds of the gates whatever the step writes.
<1>1. \A s \in Sequence : s > frame_seq' => gates'[s] = "none"
  <2>1. ASSUME NEW s \in Sequence, s > frame_seq' PROVE s > frame_seq /\ gates[s] = "none"
    BY <1>0, <2>1 DEF GateInv
  <2>2. CASE UNCHANGED gates
    BY <2>1, <2>2
  <2>3. CASE \E g : gates' = [gates EXCEPT ![cap.plan.seq] = g] /\ cap.at \in Carrying
    BY <1>0, <2>1, <2>3
  <2> QED
    BY <2>2, <2>3, GateSteps, GateWrites, FieldsSchedule, FieldsEncode DEF Carrying
<1>2. NoHalfPair'
  <2>1. CASE UNCHANGED gates /\ UNCHANGED <<got, gotSparse>>
    BY <2>1 DEF GateInv, NoHalfPair
  <2>2. CASE SenderHandle \/ SparseReceive
    BY <2>2, PairsWritten DEF GateInv
  <2>3. CASE CaptureFence \/ CapturePrelude \/ CaptureVideo \/ CaptureMixed
    <3>1. UNCHANGED <<got, gotSparse>>
      BY <2>3, CaptureFrames DEF Capture
    <3>2. \/ UNCHANGED gates
          \/ /\ gates[cap.plan.seq] # "yes"
             /\ \E g : gates' = [gates EXCEPT ![cap.plan.seq] = g]
      BY <2>3, GateWrites, FieldsSchedule, FieldsEncode DEF GateInv, RouteInv
    <3>3. cap.plan.seq \in Sequence
      BY <1>0, <2>3, FieldsSchedule, FieldsEncode DEF Carrying
    <3> QED
      BY <2>1, <3>1, <3>2, <3>3, PairsKept DEF GateInv
  <2> QED
    BY <2>1, <2>2, <2>3, WriteSteps, GateSteps
<1> DEFINE GatePlaces == {"admit", "fence", "prelude", "mixed", "begin", "video"}
           Plans == \A i \in 1..Len(cap'.plans) :
                      cap'.plans[i].route = "Mixed" => gates'[cap'.plans[i].seq] = "none"
           CarriedGate ==
             /\ cap'.at \in {"admit", "fence"} /\ cap'.plan.route = "Move" =>
                  gates'[cap'.plan.seq] = "none"
             /\ cap'.at \in {"prelude", "mixed"} => gates'[cap'.plan.seq] = "pending"
             /\ cap'.at \in {"begin", "video"} /\ cap'.plan.route = "Mixed" =>
                  gates'[cap'.plan.seq] = "none"
<1> SUFFICES Plans /\ CarriedGate
  BY <1>1, <1>2 DEF GateInv
<1>3. CASE UNCHANGED <<cap, frame_seq, plan, gates>>
  BY <1>3 DEF GateInv
<1>4. ASSUME UNCHANGED gates, cap'.plans = cap.plans PROVE Plans
  BY <1>4 DEF GateInv
<1>5. ASSUME UNCHANGED gates, cap'.plans = Tail(cap.plans), cap.plans # <<>> PROVE Plans
  BY <1>5, <1>p DEF GateInv
<1>6. CASE CaptureTimesOut \/ CaptureTop \/ CaptureBaseline \/ CaptureWindow \/ CaptureNothing
           \/ CaptureDrop \/ CaptureAbandon \/ CaptureRaw \/ CaptureCancel \/ EmitDone
           \/ CaptureRejected
  <2>1. cap'.plans = cap.plans /\ cap'.at \notin GatePlaces
    BY <1>6, FieldsBetween, FieldsSchedule, FieldsEncode DEF Steady, Carries
  <2>2. UNCHANGED gates
    BY <1>6 DEF CaptureTimesOut, CaptureTop, CaptureBaseline, CaptureWindow, CaptureNothing,
       CaptureDrop, CaptureAbandon, CaptureRaw, CaptureCancel, EmitDone, CaptureRejected, queues
  <2> QED
    BY <1>4, <2>1, <2>2
<1>7. CASE CaptureDiscard \/ EmitSuppressed
  <2>1. /\ cap'.plans = cap.plans \/ (cap.plans # <<>> /\ cap'.plans = Tail(cap.plans))
        /\ cap'.at \notin GatePlaces
    BY <1>7, FieldsBetween, FieldsEncode DEF Steady
  <2>2. UNCHANGED gates
    BY <1>7 DEF CaptureDiscard, EmitSuppressed, queues
  <2> QED
    BY <1>4, <1>5, <2>1, <2>2
<1>8. ASSUME NEW route, NEW rem, CaptureFrame(route, rem) PROVE Plans /\ CarriedGate
  <2>1. /\ Steady /\ cap'.at \in {"drop", "admit", "begin"}
        /\ cap'.plan = [seq |-> frame_seq + 1, ep |-> cap.ep, route |-> route,
                        rem |-> rem, lost |-> FALSE]
    BY <1>8, FieldsSchedule
  <2>2. cap'.plan.seq = frame_seq + 1
    BY <2>1
  <2>3. frame_seq + 1 \in Sequence /\ frame_seq + 1 > frame_seq
    <3>1. frame_seq + 1 \in Sequence /\ frame_seq \in Nat
      BY <1>0, <1>8, Scheduled
    <3> QED
      BY <3>1
  <2>4. gates[frame_seq + 1] = "none"
    BY <2>3 DEF GateInv
  <2>5. UNCHANGED gates
    BY <1>8 DEF CaptureFrame, queues
  <2> QED
    BY <1>4, <2>1, <2>2, <2>4, <2>5 DEF Steady
<1>9. CASE CaptureAdmit
  <2>1. UNCHANGED gates
    BY <1>9 DEF CaptureAdmit, queues
  <2> QED
    BY <1>4, <1>9, <2>1, FieldsSchedule DEF GateInv, Steady, Carries
<1>10. CASE CaptureFence
  <2>1. cap'.plan = cap.plan /\ cap'.plans = <<>> /\ cap.plan.seq \in Sequence
    BY <1>0, <1>10, FieldsSchedule DEF Steady, Carries, RouteInv, Carrying
  <2>2. Plans
    BY <2>1
  <2>3. \/ cap'.at = "cancel"
        \/ cap'.at = "prelude" /\ gates' = [gates EXCEPT ![cap.plan.seq] = "pending"]
    BY <1>10, GateWrites
  <2> QED
    BY <1>0, <2>1, <2>2, <2>3
<1>11. CASE CapturePrelude
  <2>1. cap.plan.route = "Move" /\ cap'.plans = <<>>
    BY <1>11, FieldsSchedule DEF RouteInv
  <2>2. Plans
    BY <2>1
  <2>3. \/ cap'.at \in {"top", "raw", "cancel"}
        \/ cap'.at = "begin" /\ cap'.plan = cap.plan
    BY <1>11, FieldsSchedule DEF Carries
  <2> QED
    BY <2>1, <2>2, <2>3
<1>12. CASE CaptureAgain
  <2>1. UNCHANGED gates
    BY <1>12 DEF CaptureAgain, queues
  <2>2. \/ cap'.at = "top"
        \/ cap'.at = "begin" /\ cap'.plan = [cap.plan EXCEPT !.route = "Video", !.rem = "None"]
    BY <1>12, FieldsSchedule
  <2>3. cap'.at = "begin" => cap'.plan.route = "Video"
    BY <1>0, <2>2 DEF Plan
  <2> QED
    BY <1>4, <1>12, <2>1, <2>2, <2>3, FieldsSchedule DEF Steady
<1>13. CASE CaptureBegin
  <2>1. UNCHANGED gates
    BY <1>13 DEF CaptureBegin, queues
  <2>2. /\ cap.at = "begin" /\ cap'.at = "encode"
        /\ \/ cap'.plans = Append(cap.plans, cap.plan)
           \/ cap.plans # <<>> /\ cap'.plans = Append(Tail(cap.plans), cap.plan)
    BY <1>13, FieldsEncode
  <2>3. PICK rest \in Seq(Plan) :
          /\ cap'.plans = Append(rest, cap.plan)
          /\ \/ rest = cap.plans
             \/ cap.plans # <<>> /\ rest = Tail(cap.plans)
    BY <1>0, <1>p, <2>2
  <2>4. \A i \in 1..Len(rest) : rest[i].route = "Mixed" => gates[rest[i].seq] = "none"
    <3>1. CASE rest = cap.plans
      BY <3>1 DEF GateInv
    <3>2. CASE cap.plans # <<>> /\ rest = Tail(cap.plans)
      BY <1>p, <3>2 DEF GateInv
    <3> QED
      BY <2>3, <3>1, <3>2
  <2>5. cap.plan.route = "Mixed" => gates[cap.plan.seq] = "none"
    BY <2>2 DEF GateInv
  <2>6. /\ Len(cap'.plans) = Len(rest) + 1 /\ Len(rest) \in Nat
        /\ \A i \in 1..Len(rest) : cap'.plans[i] = rest[i]
        /\ cap'.plans[Len(rest) + 1] = cap.plan
    BY <1>0, <2>3, AppendOf
  <2>7. Plans
    BY <2>1, <2>4, <2>5, <2>6
  <2> QED
    BY <2>2, <2>7
<1>14. CASE Withhold
  <2>1. UNCHANGED gates
    BY <1>14 DEF Withhold, queues
  <2>2. /\ cap'.at \in {"pump", "encode"} /\ Len(cap'.plans) = Len(cap.plans)
        /\ \A i \in 1..Len(cap.plans) : /\ cap'.plans[i].seq = cap.plans[i].seq
                                        /\ cap'.plans[i].route = cap.plans[i].route
    BY <1>14, FieldsEncode
  <2> QED
    BY <2>1, <2>2 DEF GateInv
<1>15. CASE EmitAdmitted
  <2>1. UNCHANGED gates
    BY <1>15 DEF EmitAdmitted, queues
  <2>2. /\ cap.plans # <<>> /\ cap'.plans = Tail(cap.plans) /\ cap.at \in {"pump", "encode"}
        /\ \/ cap'.at = cap.at
           \/ cap'.at = "video" /\ cap'.plan = Head(cap.plans)
    BY <1>15, FieldsEncode
  <2>3. Head(cap.plans).route = "Mixed" => gates[Head(cap.plans).seq] = "none"
    BY <1>p, <2>2 DEF GateInv
  <2> QED
    BY <1>5, <2>1, <2>2, <2>3
<1>16. CASE CaptureVideo \/ CaptureMixed
  <2>1. /\ cap.at \in Emitted /\ cap.at \in Carrying /\ Carries
        /\ cap'.at \in {"mixed", "pump", "encode", "rejected"}
        /\ cap'.at = "mixed" => CaptureVideo
    BY <1>16, FieldsEncode DEF Emitted, Carrying
  <2>2. \A i \in 1..Len(cap.plans) : cap.plans[i].seq # cap.plan.seq
    <3>1. \A i \in 1..Len(cap.plans) : cap.plan.seq < cap.plans[i].seq
      BY <2>1 DEF PlansInv
    <3>2. \A p \in Plan : p.seq \in Int
      BY Bounds DEF Plan
    <3> QED
      BY <1>0, <3>1, <3>2
  <2>3. \/ UNCHANGED gates /\ cap'.at # "mixed"
        \/ \E g : /\ gates' = [gates EXCEPT ![cap.plan.seq] = g]
                  /\ cap'.at = "mixed" => g = "pending"
    BY <1>16, <2>1, GateWrites, FieldsEncode
  <2>4. cap'.plans = cap.plans /\ cap'.plan = cap.plan
    BY <2>1 DEF Carries, Steady
  <2>5. \A i \in 1..Len(cap.plans) : cap.plans[i].seq \in Sequence
    BY DEF TInv, CapTyped
  <2>6. Plans
    BY <1>0, <2>2, <2>3, <2>4, <2>5 DEF GateInv
  <2>7. cap'.at = "mixed" => gates'[cap.plan.seq] = "pending"
    BY <1>0, <2>1, <2>3
  <2> QED
    BY <2>1, <2>4, <2>6, <2>7
<1> QED
  BY <1>3, <1>6, <1>7, <1>8, <1>9, <1>10, <1>11, <1>12, <1>13, <1>14, <1>15, <1>16,
     OthersCapture DEF Capture

-----------------------------------------------------------------------------
\* The ways the bulk lane of a viewer that is still there can move, event by event.
Rests == UNCHANGED <<videoQ, got>> /\ sender'.batch = sender.batch
Fills(m) ==
  /\ videoQ' = Append(videoQ, m) /\ got' = got /\ sender'.batch = sender.batch
Drains ==
  /\ videoQ # <<>> /\ videoQ' = Tail(videoQ) /\ got' = got
  /\ sender'.batch = IF Head(videoQ).type = "line" THEN sender.batch
                     ELSE Append(sender.batch, Head(videoQ))
Writes ==
  /\ sender.batch # <<>> /\ sender'.batch = Tail(sender.batch) /\ videoQ' = videoQ
  /\ Passes(Head(sender.batch))
  /\ got' = [got EXCEPT ![sender.client] = Append(got[sender.client], Head(sender.batch))]
Discards ==
  /\ sender.batch # <<>> /\ sender'.batch = Tail(sender.batch) /\ UNCHANGED <<videoQ, got>>
  /\ ~Passes(Head(sender.batch)) /\ ~Undecided(Head(sender.batch))

\* The bulk message a step of the capture thread queues.
Queues(m) ==
  /\ m \in BulkMsg /\ m.type # "line" /\ m.seq = cap.plan.seq
  /\ \/ CaptureFence /\ cap'.at = "prelude" /\ m.type = "fence" /\ m.gated
     \/ /\ CaptureVideo /\ cap'.at # "rejected" /\ m.type = "video"
        /\ m.gated <=> cap'.at = "mixed"

\* What the capture thread does to the lane.
LEMMA CaptureLane ==
  ASSUME TInv, Capture
  PROVE  /\ UNCHANGED <<got, sender>>
         /\ \/ UNCHANGED videoQ
            \/ \E m \in BulkMsg : Queues(m) /\ videoQ' = Append(videoQ, m)
<1>0. UNCHANGED <<got, sender>> /\ cap.plan \in Plan /\ cap \in CapRec
  BY CaptureFrames DEF TInv, CapTyped, CapRec
<1>1. CASE CaptureFence
  <2> DEFINE m == Bulk("fence", cap.plan, TRUE)
  <2>1. m \in BulkMsg /\ m.type = "fence" /\ m.seq = cap.plan.seq /\ m.gated
    BY <1>0, MessagesTyped DEF Bulk
  <2>2. UNCHANGED videoQ \/ (videoQ' = Append(videoQ, m) /\ cap'.at = "prelude")
    BY <1>0, <1>1 DEF CaptureFence, Goto, CapRec
  <2> HIDE DEF m
  <2> QED
    BY <1>0, <1>1, <2>1, <2>2 DEF Queues
<1>2. CASE CaptureVideo
  <2> DEFINE mixed == cap.plan.route = "Mixed"
             m == Bulk("video", cap.plan, mixed)
  <2>1. m \in BulkMsg /\ m.type = "video" /\ m.seq = cap.plan.seq /\ (m.gated <=> mixed)
    BY <1>0, MessagesTyped DEF Bulk
  <2>2. UNCHANGED videoQ \/ (videoQ' = Append(videoQ, m) /\ Len(videoQ) < QUEUE_DEPTH)
    BY <1>2 DEF CaptureVideo
  <2>3. Len(videoQ) < QUEUE_DEPTH => cap'.at # "rejected" /\ (mixed <=> cap'.at = "mixed")
    <3>1. cap.back \in {"pump", "encode"}
      BY <1>0 DEF CapRec
    <3> QED
      BY <1>0, <1>2, <3>1 DEF CaptureVideo, CapRec
  <2> HIDE DEF m, mixed
  <2> QED
    BY <1>0, <1>2, <2>1, <2>2, <2>3 DEF Queues
<1>3. CASE ~CaptureFence /\ ~CaptureVideo
  BY <1>0, <1>3 DEF Capture, CaptureTop, CaptureDiscard, CaptureBaseline,
     CaptureWindow, CaptureNothing, CaptureDrop, CaptureAdmit, CaptureFrame, CaptureCancel,
     CaptureAgain, CaptureAbandon, CaptureBegin, EmitDone, Withhold, EmitSuppressed, EmitAdmitted,
     CaptureRejected, CapturePrelude, CaptureRaw, CaptureMixed, queues
<1> QED
  BY <1>1, <1>2, <1>3

\* Every step as seen from the lane of the viewer that is being served after it.
LEMMA LaneEvents ==
  ASSUME TInv, RInv, ServeInv, [Next]_vars
  PROVE  \/ sender'.client \notin live' /\ got' = got
         \/ /\ SenderAccept /\ Quiet
            /\ got' = got /\ videoQ' = <<>> /\ sender'.batch = <<>> /\ got[sender'.client] = <<>>
            /\ sender'.client \in Epoch
         \/ /\ sender.client \in live /\ sender'.client = sender.client
            /\ \/ Rests
               \/ SparseReceive /\ Fills(Line)
               \/ \E m \in BulkMsg : Queues(m) /\ Fills(m)
               \/ SenderReceive /\ Drains
               \/ SenderHandle /\ Writes
               \/ SenderHandle /\ Discards
<1>0. /\ sender \in SenderRec /\ sender.client \in Epoch /\ got \in [Epoch -> Seq(BulkMsg)]
      /\ sender.batch \in Seq(BulkMsg)
  BY DEF TInv, ThreadsTyped, SenderRec, HistoryTyped
<1>1. CASE Capture
  <2>1. sender' = sender /\ live' \subseteq live
    BY <1>1, OthersServe
  <2> QED
    BY <1>1, <2>1, CaptureLane DEF Rests, Fills
<1>2. CASE CaptureTimesOut \/ ViewerStep \/ UNCHANGED vars \/ SparsePoll \/ SparseAccept
           \/ (\E e \in Epoch : FeedbackEnd(e) \/ \E s \in Sequence : FeedbackAck(e, s))
  <2>1. sender' = sender /\ live' \subseteq live
    BY <1>2, OthersServe DEF SparseStep
  <2>2. UNCHANGED <<videoQ, got>>
    BY <1>2 DEF CaptureTimesOut, ViewerStep, vars, SparsePoll, SparseAccept, FeedbackEnd,
       FeedbackAck, queues, history
  <2> QED
    BY <2>1, <2>2 DEF Rests
<1>3. CASE SparseReceive
  <2>1. UNCHANGED <<sender, live, got>> /\ (UNCHANGED videoQ \/ videoQ' = Append(videoQ, Line))
    BY <1>3 DEF SparseReceive
  <2> QED
    BY <1>3, <2>1 DEF Rests, Fills
<1>4. CASE SenderPoll \/ SenderLineFails
  <2>1. \/ /\ sender' = [sender EXCEPT !.at = "join", !.batch = <<>>]
           /\ live' = live \ {sender.client}
        \/ /\ sender' = [sender EXCEPT !.at = Idle]
           /\ UNCHANGED live
    BY <1>4 DEF SenderPoll, SenderLineFails, DropClient, SenderAt
  <2>2. sender.batch = <<>> /\ UNCHANGED <<videoQ, got>>
    BY <1>4 DEF SenderPoll, SenderLineFails, queues, history
  <2>3. sender'.client = sender.client /\ sender'.batch = sender.batch
    BY <1>0, <2>1, <2>2 DEF SenderRec
  <2> QED
    BY <2>1, <2>2, <2>3 DEF Rests
<1>5. CASE SenderJoin
  <2>1. live' = {} /\ got' = got
    BY <1>5 DEF SenderJoin, ServeInv, history
  <2> QED
    BY <2>1
<1>6. CASE SenderAccept
  <2>1. sender.batch = <<>> /\ sender.client = 0 /\ live = {}
    BY <1>6 DEF SenderAccept, RInv, ConnectInv, ServeInv
  <2>2. UNCHANGED <<videoQ, got>>
    BY <1>6 DEF SenderAccept, queues, history
  <2>3. CASE backlog = <<>>
    BY <1>6, <2>1, <2>2, <2>3 DEF SenderAccept
  <2>4. CASE backlog # <<>>
    <3>1. /\ sender' = [sender EXCEPT !.at = "publish", !.client = epoch + 1]
          /\ epoch < MaxEpoch
      BY <1>6, <2>4 DEF SenderAccept, Flow!AcceptViewer, Flow!Reset
    <3>2. Quiet
      BY <2>4 DEF RInv, ConnectInv
    <3>3. sender'.client = epoch + 1 /\ sender'.batch = <<>>
      BY <1>0, <2>1, <3>1 DEF SenderRec
    <3>4. epoch \in Nat /\ epoch + 1 \in Epoch
      BY <3>1, Bounds DEF TInv, Flow!TypeOK, Flow!Epoch, Epoch
    <3>5. got[epoch + 1] = <<>>
      <4>1. ~(epoch + 1 <= epoch)
        BY <3>4
      <4> QED
        BY <3>4, <4>1 DEF RInv, BulkInv
    <3> QED
      BY <1>6, <2>2, <3>2, <3>3, <3>4, <3>5 DEF Quiet
  <2> QED
    BY <2>3, <2>4
<1>7. CASE SenderPublish \/ SenderHeader
  <2>1. /\ sender'.client = sender.client /\ sender'.batch = sender.batch
        /\ UNCHANGED <<videoQ, got, live>>
    BY <1>0, <1>7 DEF SenderPublish, SenderHeader, SenderAt, SenderRec, queues, history
  <2> QED
    BY <2>1 DEF Rests
<1>8. CASE SenderReceive
  <2>1. /\ sender' = IF Head(videoQ).type = "line" THEN sender
                     ELSE [sender EXCEPT !.batch = Append(sender.batch, Head(videoQ))]
        /\ videoQ # <<>> /\ videoQ' = Tail(videoQ) /\ UNCHANGED <<got, live>>
    BY <1>8 DEF SenderReceive, history
  <2>2. /\ sender'.client = sender.client
        /\ sender'.batch = IF Head(videoQ).type = "line" THEN sender.batch
                           ELSE Append(sender.batch, Head(videoQ))
    BY <1>0, <2>1 DEF SenderRec
  <2> QED
    BY <1>8, <2>1, <2>2 DEF Drains
<1>9. CASE SenderHandle
  <2> DEFINE m == Head(sender.batch)
             c == sender.client
  <2>1. /\ sender.batch # <<>> /\ ~Undecided(m) /\ UNCHANGED videoQ
        /\ \/ /\ \E at \in {"poll", "handle"} :
                   sender' = [sender EXCEPT !.batch = Tail(sender.batch), !.at = at]
              /\ got' = IF (c # 0 /\ Passes(m)) /\ c \in live
                        THEN [got EXCEPT ![c] = Append(got[c], m)] ELSE got
              /\ UNCHANGED live
           \/ /\ sender' = [sender EXCEPT !.at = "join", !.batch = Tail(sender.batch)]
              /\ live' = live \ {c} /\ got' = got
    BY <1>9 DEF SenderHandle, DropClient, queues
  <2>2. sender'.client = c /\ sender'.batch = Tail(sender.batch)
    BY <1>0, <2>1 DEF SenderRec
  <2>3. c \in live => c # 0
    BY DEF ServeInv
  <2> HIDE DEF m, c
  <2>4. CASE live' = live \ {c} /\ got' = got
    BY <2>2, <2>4
  <2>5. CASE /\ got' = IF (c # 0 /\ Passes(m)) /\ c \in live
                       THEN [got EXCEPT ![c] = Append(got[c], m)] ELSE got
             /\ UNCHANGED live
    <3>1. CASE c \notin live
      BY <2>2, <2>5, <3>1
    <3>2. CASE c \in live /\ Passes(m)
      BY <1>9, <2>1, <2>2, <2>3, <2>5, <3>2 DEF Writes, m, c
    <3>3. CASE c \in live /\ ~Passes(m)
      BY <1>9, <2>1, <2>2, <2>3, <2>5, <3>3 DEF Discards, m, c
    <3> QED
      BY <3>1, <3>2, <3>3
  <2> QED
    BY <2>1, <2>4, <2>5
<1> QED
  BY <1>1, <1>2, <1>3, <1>4, <1>5, <1>6, <1>7, <1>8, <1>9 DEF Next, SenderLap, SparseStep

\* The parts of the lane hold typed messages; the batch and what was written hold no lines.
LEMMA LaneTyped ==
  ASSUME TInv, RInv
  PROVE  /\ videoQ \in Seq(BulkMsg) /\ sender.batch \in Seq(BulkMsg)
         /\ got \in [Epoch -> Seq(BulkMsg)] /\ sender.client \in Epoch
         /\ Queued \subseteq BulkMsg /\ Batched \subseteq BulkMsg /\ Written \subseteq BulkMsg
         /\ \A m \in Batched : m.type # "line"
         /\ \A m \in OnLane : m.seq \in Sequence /\ m.seq \in Int /\ m.seq <= frame_seq
<1>1. /\ videoQ \in Seq(BulkMsg) /\ sender.batch \in Seq(BulkMsg)
      /\ got \in [Epoch -> Seq(BulkMsg)] /\ sender.client \in Epoch
      /\ frame_seq \in 0..MaxSeq
  BY DEF TInv, ThreadsTyped, SenderRec, HistoryTyped, QueuesTyped, Flow!TypeOK
<1>2. Queued \subseteq BulkMsg /\ Batched \subseteq BulkMsg /\ Written \subseteq BulkMsg
  BY <1>1, ElemsOf DEF Queued, Batched, Written
<1>3. \A m \in Batched : m.type # "line" /\ m.seq \in 1..frame_seq
  <2>1. \A i \in 1..Len(sender.batch) :
           sender.batch[i].type # "line" /\ sender.batch[i].seq \in 1..frame_seq
    BY DEF RInv, BulkInv, Message
  <2> QED
    BY <2>1 DEF Batched, Elems
<1>4. \A m \in Queued : m.seq \in 1..frame_seq
  <2>1. \A i \in 1..Len(videoQ) : videoQ[i].type # "line" => videoQ[i].seq \in 1..frame_seq
    BY DEF RInv, BulkInv, Message
  <2> QED
    BY <2>1 DEF Queued, Elems
<1>5. \A m \in Written : m.seq \in 1..frame_seq
  <2>1. \A e \in Epoch : \A i \in 1..Len(got[e]) : got[e][i].seq \in 1..frame_seq
    BY DEF RInv, BulkInv
  <2> QED
    BY <1>1, <2>1 DEF Written, Elems
<1>6. \A n \in 1..frame_seq : n \in Sequence /\ n \in Int /\ n <= frame_seq
  BY <1>1, Bounds DEF Sequence
<1> QED
  BY <1>1, <1>2, <1>3, <1>4, <1>5, <1>6 DEF OnLane

\* The lane as a set: a viewer that is accepted starts with an empty one; otherwise messages
\* move along it, and none leaves it but those behind a gate that is shut.
LEMMA LaneSets ==
  ASSUME TInv, RInv, ServeInv, [Next]_vars, sender'.client \in live'
  PROVE  \/ SenderAccept /\ Quiet /\ OnLane' = {}
         \/ /\ sender.client \in live /\ sender'.client = sender.client
            /\ \A m \in OnLane : Passes(m) \/ Undecided(m) => m \in OnLane'
            /\ \/ OnLane' \subseteq OnLane
               \/ \E m \in BulkMsg : Queues(m) /\ OnLane' = OnLane \cup {m}
<1>0. /\ videoQ \in Seq(BulkMsg) /\ sender.batch \in Seq(BulkMsg)
      /\ got \in [Epoch -> Seq(BulkMsg)] /\ sender.client \in Epoch
      /\ \A m \in Batched : m.type # "line"
  BY LaneTyped
<1> DEFINE c == sender.client
<1>1. CASE /\ SenderAccept /\ Quiet
           /\ got' = got /\ videoQ' = <<>> /\ sender'.batch = <<>>
           /\ got[sender'.client] = <<>>
  <2>1. Elems(<<>>) = {}
    BY DEF Elems
  <2> QED
    BY <1>1, <2>1 DEF OnLane, Queued, Batched, Written
<1> SUFFICES ASSUME c \in live, sender'.client = c,
                    \/ Rests
                    \/ Fills(Line)
                    \/ \E m \in BulkMsg : Queues(m) /\ Fills(m)
                    \/ Drains \/ Writes \/ Discards
             PROVE  /\ \A m \in OnLane : Passes(m) \/ Undecided(m) => m \in OnLane'
                    /\ \/ OnLane' \subseteq OnLane
                       \/ \E m \in BulkMsg : Queues(m) /\ OnLane' = OnLane \cup {m}
  BY <1>1, LaneEvents
<1> DEFINE Q == {m \in Elems(videoQ') : m.type # "line"}
           B == Elems(sender'.batch)
           W == Elems(got'[c])
<1>2. OnLane' = Q \cup B \cup W
  BY DEF OnLane, Queued, Batched, Written
<1> HIDE DEF Q, B, W
<1>3. CASE Rests
  <2>1. Q = Queued /\ B = Batched /\ W = Written
    BY <1>3 DEF Rests, Q, B, W, Queued, Batched, Written
  <2> QED
    BY <1>2, <2>1 DEF OnLane
<1>4. CASE Fills(Line)
  <2>1. Elems(videoQ') = Elems(videoQ) \cup {Line}
    BY <1>0, <1>4, LineTyped, ElemsAppend DEF Fills
  <2>2. Q = Queued /\ B = Batched /\ W = Written
    BY <1>4, <2>1, LineTyped DEF Fills, Q, B, W, Queued, Batched, Written
  <2> QED
    BY <1>2, <2>2 DEF OnLane
<1>5. ASSUME NEW m \in BulkMsg, Queues(m), Fills(m)
      PROVE  OnLane' = OnLane \cup {m}
  <2>1. Elems(videoQ') = Elems(videoQ) \cup {m}
    BY <1>0, <1>5, ElemsAppend DEF Fills
  <2>2. Q = Queued \cup {m} /\ B = Batched /\ W = Written
    BY <1>5, <2>1 DEF Fills, Q, B, W, Queued, Batched, Written, Queues
  <2> QED
    BY <1>2, <2>2 DEF OnLane
<1>6. CASE Drains
  <2> DEFINE h == Head(videoQ)
  <2>1. Elems(videoQ) = {h} \cup Elems(videoQ') /\ h \in BulkMsg
    BY <1>0, <1>6, ElemsTail, TailOf DEF Drains
  <2> HIDE DEF h
  <2>2. W = Written
    BY <1>6 DEF Drains, W, Written
  <2>3. CASE h.type = "line"
    <3>1. Q = Queued /\ B = Batched
      BY <1>6, <2>1, <2>3 DEF Drains, Q, B, Queued, Batched, h
    <3> QED
      BY <1>2, <2>2, <3>1 DEF OnLane
  <2>4. CASE h.type # "line"
    <3>1. B = Batched \cup {h}
      <4>1. sender'.batch = Append(sender.batch, h)
        BY <1>6, <2>4 DEF Drains, h
      <4> QED
        BY <1>0, <2>1, <4>1, ElemsAppend DEF B, Batched
    <3>2. Queued = Q \cup {h}
      BY <2>1, <2>4 DEF Q, Queued
    <3> QED
      BY <1>2, <2>2, <3>1, <3>2 DEF OnLane
  <2> QED
    BY <2>3, <2>4
<1>7. CASE Writes \/ Discards
  <2> DEFINE h == Head(sender.batch)
  <2>1. Elems(sender.batch) = {h} \cup B /\ h \in BulkMsg
    BY <1>0, <1>7, ElemsTail, TailOf DEF Writes, Discards, B
  <2>2. Q = Queued
    BY <1>7 DEF Writes, Discards, Q, Queued
  <2> HIDE DEF h
  <2>3. CASE Writes
    <3>1. got'[c] = Append(got[c], h)
      BY <1>0, <2>3 DEF Writes, h
    <3>2. W = Written \cup {h}
      BY <1>0, <2>1, <3>1, ElemsAppend DEF W, Written
    <3> QED
      BY <1>2, <2>1, <2>2, <3>2 DEF OnLane, Batched
  <2>4. CASE Discards
    <3>1. W = Written /\ ~Passes(h) /\ ~Undecided(h)
      BY <2>4 DEF Discards, W, Written, h
    <3> QED
      BY <1>2, <2>1, <2>2, <3>1 DEF OnLane, Batched
  <2> QED
    BY <1>7, <2>3, <2>4
<1> QED
  BY <1>3, <1>4, <1>5, <1>6, <1>7

\* What is queued is at least as new as all that is on the lane.
LEMMA NewestQueued ==
  ASSUME TInv, RInv, PlansInv, CeilingInv, sender.client \in live, NEW m, Queues(m)
  PROVE  \A n \in OnLane : n.seq <= m.seq
<1>1. CASE CaptureFence
  <2>1. cap.plan.seq = frame_seq
    BY <1>1 DEF CaptureFence, PlansInv, Fresh
  <2> QED
    BY <2>1, LaneTyped DEF Queues
<1>2. CASE CaptureVideo
  BY <1>2 DEF CaptureVideo, CeilingInv, Emitted, Queues
<1> QED
  BY <1>1, <1>2 DEF Queues

-----------------------------------------------------------------------------
\* What a viewer got stays in order when something is written that is no older than it.
LEMMA InOrderAppend ==
  ASSUME TInv, BulkInOrder, NEW c \in Epoch, NEW h \in BulkMsg,
         got' = [got EXCEPT ![c] = Append(got[c], h)],
         \A m \in Elems(got[c]) : m.seq <= h.seq
  PROVE  BulkInOrder'
<1>0. got \in [Epoch -> Seq(BulkMsg)] /\ got[c] \in Seq(BulkMsg)
  BY DEF TInv, HistoryTyped
<1> DEFINE r == Append(got[c], h)
<1>1. /\ Len(r) = Len(got[c]) + 1 /\ Len(got[c]) \in Nat
      /\ \A i \in 1..Len(got[c]) : r[i] = got[c][i]
      /\ r[Len(got[c]) + 1] = h /\ r \in Seq(BulkMsg)
  BY <1>0, AppendOf
<1>2. got' = [got EXCEPT ![c] = r]
  OBVIOUS
<1> HIDE DEF r
<1>3. ASSUME NEW i \in 1..Len(r), NEW j \in 1..Len(r), i < j PROVE r[i].seq <= r[j].seq
  <2>1. i \in 1..Len(got[c])
    BY <1>1, <1>3
  <2>2. CASE j \in 1..Len(got[c])
    <3>1. DOMAIN got[c] = 1..Len(got[c])
      BY <1>0
    <3>2. got[c][i].seq <= got[c][j].seq
      BY <1>3, <2>1, <2>2, <3>1 DEF BulkInOrder
    <3> QED
      BY <1>1, <2>1, <2>2, <3>2
  <2>3. CASE j = Len(got[c]) + 1
    <3>1. got[c][i] \in Elems(got[c])
      BY <2>1 DEF Elems
    <3> QED
      BY <1>1, <2>1, <2>3, <3>1
  <2> QED
    BY <1>1, <2>2, <2>3
<1>4. ASSUME NEW e \in Epoch, NEW i \in DOMAIN got'[e], NEW j \in DOMAIN got'[e], i < j
      PROVE  got'[e][i].seq <= got'[e][j].seq
  <2>1. CASE e = c
    <3>1. got'[e] = r /\ DOMAIN r = 1..Len(r)
      BY <1>0, <1>1, <1>2, <2>1
    <3> QED
      BY <1>3, <1>4, <3>1
  <2>2. CASE e # c
    <3>1. got'[e] = got[e]
      BY <1>0, <1>2, <2>2
    <3> QED
      BY <1>4, <3>1 DEF BulkInOrder
  <2> QED
    BY <2>1, <2>2
<1> QED
  BY <1>4 DEF BulkInOrder

\* LaneInv is inductive.
LEMMA LaneStep ==
  TInv /\ RInv /\ ServeInv /\ PlansInv /\ CeilingInv /\ LaneInv /\ [Next]_vars => LaneInv'
<1> SUFFICES ASSUME TInv, RInv, ServeInv, PlansInv, CeilingInv, LaneInv, [Next]_vars
             PROVE  LaneInv'
  OBVIOUS
<1>0. /\ videoQ \in Seq(BulkMsg) /\ sender.batch \in Seq(BulkMsg)
      /\ got \in [Epoch -> Seq(BulkMsg)] /\ sender.client \in Epoch
      /\ \A m \in Batched : m.type # "line"
      /\ \A m \in OnLane : m.seq \in Int
  BY LaneTyped
<1> DEFINE c == sender.client
           Q == {m \in Elems(videoQ') : m.type # "line"}
           B == Elems(sender'.batch)
           W == Elems(got'[sender'.client])
           Order == /\ Sorted(videoQ') /\ Sorted(sender'.batch)
                    /\ \A m \in B, n \in Q : m.seq <= n.seq
                    /\ \A m \in W, n \in Q \cup B : m.seq <= n.seq
<1>1. (LaneInv)' <=> (sender'.client \in live' => Order) /\ BulkInOrder'
  BY DEF LaneInv, LaneOrder, Queued, Batched, Written, Sorted, Elems
<1>2. ASSUME got' = got PROVE BulkInOrder'
  BY <1>2 DEF LaneInv, BulkInOrder
<1>3. CASE sender'.client \notin live' /\ got' = got
  BY <1>1, <1>2, <1>3
<1>4. CASE /\ SenderAccept /\ Quiet
           /\ got' = got /\ videoQ' = <<>> /\ sender'.batch = <<>>
           /\ got[sender'.client] = <<>>
  <2>1. Elems(<<>>) = {} /\ Sorted(<<>>)
    BY DEF Elems, Sorted
  <2>2. Q = {} /\ B = {} /\ W = {} /\ Sorted(videoQ') /\ Sorted(sender'.batch)
    BY <1>4, <2>1
  <2> HIDE DEF Q, B, W
  <2> QED
    BY <1>1, <1>2, <1>4, <2>2
<1> SUFFICES ASSUME c \in live, sender'.client = c,
                    \/ Rests
                    \/ Fills(Line)
                    \/ \E m \in BulkMsg : Queues(m) /\ Fills(m)
                    \/ Drains \/ Writes \/ Discards
             PROVE  Order /\ BulkInOrder'
  BY <1>1, <1>3, <1>4, LaneEvents
<1>5. /\ Sorted(videoQ) /\ Sorted(sender.batch)
      /\ \A m \in Batched, n \in Queued : m.seq <= n.seq
      /\ \A m \in Written, n \in Queued \cup Batched : m.seq <= n.seq
  BY DEF LaneInv, LaneOrder
<1> HIDE DEF Q, B, W
<1>6. CASE Rests
  <2>1. Q = Queued /\ B = Batched /\ W = Written
    BY <1>6 DEF Rests, Q, B, W, Queued, Batched, Written
  <2> QED
    BY <1>2, <1>5, <1>6, <2>1 DEF Rests
<1>7. CASE Fills(Line)
  <2>1. Elems(videoQ') = Elems(videoQ) \cup {Line}
    BY <1>0, <1>7, LineTyped, ElemsAppend DEF Fills
  <2>2. Q = Queued /\ B = Batched /\ W = Written
    BY <1>7, <2>1, LineTyped DEF Fills, Q, B, W, Queued, Batched, Written
  <2>3. Sorted(videoQ')
    BY <1>0, <1>5, <1>7, LineTyped, SortedAppend DEF Fills
  <2> QED
    BY <1>2, <1>5, <1>7, <2>2, <2>3 DEF Fills
<1>8. ASSUME NEW m \in BulkMsg, Queues(m), Fills(m)
      PROVE  Order /\ BulkInOrder'
  <2>1. Elems(videoQ') = Elems(videoQ) \cup {m}
    BY <1>0, <1>8, ElemsAppend DEF Fills
  <2>2. Q = Queued \cup {m} /\ B = Batched /\ W = Written
    BY <1>8, <2>1 DEF Fills, Q, B, W, Queued, Batched, Written, Queues
  <2>3. \A n \in OnLane : n.seq <= m.seq
    BY <1>8, NewestQueued
  <2>4. Sorted(videoQ')
    <3>1. \A n \in Elems(videoQ) : n.type # "line" => n.seq <= m.seq
      BY <2>3 DEF OnLane, Queued
    <3> QED
      BY <1>0, <1>5, <1>8, <3>1, SortedAppend DEF Fills
  <2> QED
    BY <1>2, <1>5, <1>8, <2>2, <2>3, <2>4 DEF Fills, OnLane
<1>9. CASE Drains
  <2> DEFINE h == Head(videoQ)
  <2>1. Elems(videoQ) = {h} \cup Elems(videoQ') /\ h \in BulkMsg
    BY <1>0, <1>9, ElemsTail, TailOf DEF Drains
  <2>2. /\ Sorted(videoQ')
        /\ h.type # "line" => \A m \in Elems(videoQ') : m.type # "line" => h.seq <= m.seq
    BY <1>0, <1>5, <1>9, SortedTail DEF Drains
  <2> HIDE DEF h
  <2>3. W = Written /\ got' = got
    BY <1>9 DEF Drains, W, Written
  <2>4. CASE h.type = "line"
    <3>1. Q = Queued /\ B = Batched /\ sender'.batch = sender.batch
      BY <1>9, <2>1, <2>4 DEF Drains, Q, B, Queued, Batched, h
    <3> QED
      BY <1>2, <1>5, <2>2, <2>3, <3>1
  <2>5. CASE h.type # "line"
    <3>1. sender'.batch = Append(sender.batch, h)
      BY <1>9, <2>5 DEF Drains, h
    <3>2. B = Batched \cup {h}
      BY <1>0, <2>1, <3>1, ElemsAppend DEF B, Batched
    <3>3. Queued = Q \cup {h} /\ \A m \in Q : h.seq <= m.seq
      BY <2>1, <2>2, <2>5 DEF Q, Queued
    <3>4. Sorted(sender'.batch)
      <4>1. \A m \in Elems(sender.batch) : m.seq <= h.seq
        BY <1>5, <3>3 DEF Batched
      <4> QED
        BY <1>0, <1>5, <2>1, <3>1, <4>1, SortedAppend
    <3> QED
      BY <1>2, <1>5, <2>2, <2>3, <3>2, <3>3, <3>4
  <2> QED
    BY <2>4, <2>5
<1>10. CASE Writes \/ Discards
  <2> DEFINE h == Head(sender.batch)
  <2>1. Elems(sender.batch) = {h} \cup B /\ h \in BulkMsg
    BY <1>0, <1>10, ElemsTail, TailOf DEF Writes, Discards, B
  <2>2. /\ Sorted(sender'.batch)
        /\ h.type # "line" => \A m \in B : m.type # "line" => h.seq <= m.seq
    BY <1>0, <1>5, <1>10, SortedTail DEF Writes, Discards, B
  <2>3. Q = Queued /\ videoQ' = videoQ
    BY <1>10 DEF Writes, Discards, Q, Queued
  <2> HIDE DEF h
  <2>4. Batched = {h} \cup B
    BY <2>1 DEF Batched
  <2>5. \A m \in B : h.seq <= m.seq
    BY <1>0, <2>2, <2>4
  <2>6. CASE Writes
    <3>1. got' = [got EXCEPT ![c] = Append(got[c], h)]
      BY <2>6 DEF Writes, h
    <3>2. got'[c] = Append(got[c], h)
      BY <1>0, <3>1
    <3>3. W = Written \cup {h}
      BY <1>0, <2>1, <3>2, ElemsAppend DEF W, Written
    <3>4. BulkInOrder'
      <4>1. \A m \in Elems(got[c]) : m.seq <= h.seq
        BY <1>5, <2>4 DEF Written
      <4> QED
        BY <1>0, <2>1, <3>1, <4>1, InOrderAppend DEF LaneInv
    <3> QED
      BY <1>5, <2>2, <2>3, <2>4, <2>5, <3>3, <3>4
  <2>7. CASE Discards
    <3>1. W = Written /\ got' = got
      BY <2>7 DEF Discards, W, Written
    <3> QED
      BY <1>2, <1>5, <2>2, <2>3, <2>4, <2>5, <3>1
  <2> QED
    BY <1>10, <2>6, <2>7
<1> QED
  BY <1>6, <1>7, <1>8, <1>9, <1>10

-----------------------------------------------------------------------------
\* What was on the lane is no newer than what the encoder holds after a step.
LEMMA CeilingKept ==
  ASSUME TInv, RInv, PlansInv, CeilingInv, sender.client \in live, [Next]_vars, NEW m \in OnLane
  PROVE  /\ \A i \in 1..Len(cap'.plans) : m.seq <= cap'.plans[i].seq
         /\ cap'.at \in Emitted => m.seq <= cap'.plan.seq
<1>0. /\ cap.plans \in Seq(Plan) /\ cap.plan \in Plan /\ Len(cap.plans) \in Nat
      /\ m.seq \in Int /\ m.seq <= frame_seq
      /\ cap.at = "begin" => cap.plan.seq = frame_seq
  BY LaneTyped DEF TInv, CapTyped, CapRec, PlansInv, Fresh
<1>1. /\ \A i \in 1..Len(cap.plans) : m.seq <= cap.plans[i].seq
      /\ cap.at \in Emitted => m.seq <= cap.plan.seq
  BY DEF CeilingInv
<1>2. ASSUME cap.plans # <<>>
      PROVE  /\ Len(Tail(cap.plans)) = Len(cap.plans) - 1 /\ Tail(cap.plans) \in Seq(Plan)
             /\ \A i \in 1..Len(Tail(cap.plans)) :
                  Tail(cap.plans)[i] = cap.plans[i + 1] /\ i + 1 \in 1..Len(cap.plans)
             /\ Head(cap.plans) = cap.plans[1] /\ 1 \in 1..Len(cap.plans)
  BY <1>0, <1>2, TailOf
<1>3. CASE cap'.plans = cap.plans /\ cap'.at \notin Emitted
  BY <1>1, <1>3
<1>4. CASE /\ cap.plans # <<>> /\ cap'.plans = Tail(cap.plans)
           /\ cap'.at \in Emitted => cap'.plan = Head(cap.plans)
  BY <1>1, <1>2, <1>4
<1>5. CASE UNCHANGED <<cap, frame_seq, plan, gates>>
  BY <1>1, <1>5
<1>6. CASE CaptureTimesOut \/ CaptureTop \/ CaptureBaseline \/ CaptureWindow \/ CaptureNothing
           \/ CaptureDrop \/ CaptureAbandon \/ CaptureDiscard
  BY <1>3, <1>4, <1>6, FieldsBetween DEF Steady, Emitted
<1>7. CASE CaptureAdmit \/ CaptureFence \/ CapturePrelude \/ CaptureRaw \/ CaptureCancel
           \/ CaptureAgain
  BY <1>3, <1>7, FieldsSchedule DEF Steady, Carries, Emitted
<1>8. ASSUME NEW route, NEW rem, CaptureFrame(route, rem)
      PROVE  cap'.plans = cap.plans /\ cap'.at \notin Emitted
  BY <1>8, FieldsSchedule DEF Steady, Emitted
<1>9. CASE CaptureBegin
  <2>1. /\ cap.at = "begin" /\ cap'.at = "encode"
        /\ \/ cap'.plans = Append(cap.plans, cap.plan)
           \/ cap.plans # <<>> /\ cap'.plans = Append(Tail(cap.plans), cap.plan)
    BY <1>9, FieldsEncode
  <2>2. PICK rest \in Seq(Plan) :
          /\ cap'.plans = Append(rest, cap.plan)
          /\ \/ rest = cap.plans
             \/ cap.plans # <<>> /\ rest = Tail(cap.plans)
    BY <1>0, <1>2, <2>1
  <2>3. \A i \in 1..Len(rest) : m.seq <= rest[i].seq
    <3>1. CASE rest = cap.plans
      BY <1>1, <3>1
    <3>2. CASE cap.plans # <<>> /\ rest = Tail(cap.plans)
      BY <1>1, <1>2, <3>2
    <3> QED
      BY <2>2, <3>1, <3>2
  <2>4. /\ Len(cap'.plans) = Len(rest) + 1 /\ Len(rest) \in Nat
        /\ \A i \in 1..Len(rest) : cap'.plans[i] = rest[i]
        /\ cap'.plans[Len(rest) + 1] = cap.plan
    BY <1>0, <2>2, AppendOf
  <2>5. m.seq <= cap.plan.seq
    BY <1>0, <2>1
  <2>6. ASSUME NEW i \in 1..Len(cap'.plans) PROVE m.seq <= cap'.plans[i].seq
    <3>1. i \in 1..Len(rest) \/ i = Len(rest) + 1
      BY <2>4
    <3> QED
      BY <2>3, <2>4, <2>5, <3>1
  <2> QED
    BY <2>1, <2>6 DEF Emitted
<1>10. CASE Withhold
  <2>1. /\ cap'.at \in {"pump", "encode"} /\ Len(cap'.plans) = Len(cap.plans)
        /\ \A i \in 1..Len(cap.plans) : cap'.plans[i].seq = cap.plans[i].seq
    BY <1>10, FieldsEncode
  <2> QED
    BY <1>1, <2>1 DEF Emitted
<1>11. CASE EmitDone \/ EmitSuppressed \/ EmitAdmitted
  BY <1>3, <1>4, <1>11, FieldsEncode DEF Steady, Emitted
<1>12. CASE CaptureVideo \/ CaptureMixed \/ CaptureRejected
  BY <1>1, <1>3, <1>12, FieldsEncode DEF Steady, Carries, Emitted
<1> QED
  BY <1>3, <1>5, <1>6, <1>7, <1>8, <1>9, <1>10, <1>11, <1>12, OthersCapture DEF Capture

\* So is what the step queues.
LEMMA CeilingQueued ==
  ASSUME TInv, RInv, PlansInv, RouteInv, NEW m, Queues(m)
  PROVE  /\ \A i \in 1..Len(cap'.plans) : m.seq <= cap'.plans[i].seq
         /\ cap'.at \in Emitted => m.seq <= cap'.plan.seq
<1>0. cap.plans \in Seq(Plan) /\ cap.plan \in Plan /\ \A p \in Plan : p.seq \in Int
  BY Bounds DEF TInv, CapTyped, CapRec, Plan
<1>1. CASE CaptureFence /\ cap'.at = "prelude"
  <2>1. cap'.plans = <<>>
    BY <1>1, FieldsSchedule DEF RouteInv, Carries, Steady
  <2> QED
    BY <1>1, <2>1 DEF Emitted
<1>2. CASE CaptureVideo
  <2>1. /\ cap'.plans = cap.plans /\ cap'.plan = cap.plan /\ cap.at = "video"
        /\ m.seq = cap.plan.seq
    BY <1>2, FieldsEncode DEF Carries, Steady, Queues
  <2>2. \A i \in 1..Len(cap.plans) : cap.plan.seq < cap.plans[i].seq
    BY <2>1 DEF PlansInv, Emitted
  <2> QED
    BY <1>0, <2>1, <2>2
<1> QED
  BY <1>1, <1>2 DEF Queues

\* CeilingInv is inductive.
LEMMA CeilingStep ==
  TInv /\ RInv /\ ServeInv /\ PlansInv /\ RouteInv /\ CeilingInv /\ [Next]_vars => CeilingInv'
<1> SUFFICES ASSUME TInv, RInv, ServeInv, PlansInv, RouteInv, CeilingInv, [Next]_vars,
                    sender'.client \in live'
             PROVE  \A m \in OnLane' :
                      /\ \A i \in 1..Len(cap'.plans) : m.seq <= cap'.plans[i].seq
                      /\ cap'.at \in Emitted => m.seq <= cap'.plan.seq
  BY DEF CeilingInv
<1>1. \/ OnLane' = {}
      \/ /\ sender.client \in live
         /\ \A m \in OnLane' : m \in OnLane \/ Queues(m)
  BY LaneSets
<1> QED
  BY <1>1, CeilingKept, CeilingQueued

-----------------------------------------------------------------------------
\* What a step can do to the table of permits: nothing but drop some, start a new table, add a
\* tentative permit, or admit one.
Fewer ==
  /\ epoch' = epoch /\ DOMAIN entries' \subseteq DOMAIN entries
  /\ \A s \in DOMAIN entries' : entries'[s] = entries[s]
Renewed == DOMAIN entries' = {}
Gains(s) ==
  /\ epoch' = epoch /\ s \notin DOMAIN entries /\ DOMAIN entries' = DOMAIN entries \cup {s}
  /\ \A t \in DOMAIN entries' : entries'[t] = IF t = s THEN "Tentative" ELSE entries[t]
Admits(t) ==
  /\ epoch' = epoch /\ DOMAIN entries' = DOMAIN entries
  /\ \A s \in DOMAIN entries : entries'[s] # entries[s] => s = t.seq /\ t.epoch = epoch

\* The calls on the window, as steps of the table.
LEMMA TableCalls ==
  ASSUME Flow!TypeOK
  PROVE  /\ UNCHANGED flow => Fewer
         /\ Flow!AcceptViewer => Renewed
         /\ Flow!SkipFrame => Fewer
         /\ \A e : Flow!RetireViewer(e) \/ Flow!FeedbackEnd(e) => Fewer \/ Renewed
         /\ \A e, s : Flow!FeedbackAck(e, s) => Fewer \/ Renewed
         /\ \A t : Flow!CancelFrame(t) => Fewer
         /\ \A p : DropReservation(p) => Fewer
         /\ \A t : Flow!AdmitFrame(t) => Admits(t)
         /\ \A e : Flow!ReserveFrame(e) => Gains(frame_seq + 1)
         /\ \A e : Flow!ReserveAgain(e) => Gains(frame_seq)
<1>1. UNCHANGED flow => Fewer
  BY DEF flow, Fewer
<1>2. Flow!AcceptViewer => Renewed
  BY DEF Flow!AcceptViewer, Flow!Reset, Renewed
<1>3. Flow!SkipFrame => Fewer
  BY DEF Flow!SkipFrame, Flow!flowVars, Fewer
<1>4. ASSUME NEW e, Flow!Disconnect(e) PROVE Fewer \/ Renewed
  BY <1>4 DEF Flow!Disconnect, Flow!Reset, Flow!flowVars, Fewer, Renewed
<1>5. ASSUME NEW s, entries' = Flow!Without(s), epoch' = epoch PROVE Fewer
  BY <1>5 DEF Flow!Without, Fewer
<1>6. ASSUME NEW e, NEW s, Flow!FeedbackAck(e, s) PROVE Fewer \/ Renewed
  BY <1>4, <1>5, <1>6 DEF Flow!FeedbackAck, Flow!Ack
<1>7. ASSUME NEW t, Flow!CancelFrame(t) PROVE Fewer
  <2>1. epoch' = epoch /\ (entries' = entries \/ entries' = Flow!Without(t.seq))
    BY <1>7 DEF Flow!CancelFrame, Flow!Cancel
  <2> QED
    BY <1>5, <2>1 DEF Fewer
<1>8. ASSUME NEW t, Flow!AdmitFrame(t) PROVE Admits(t)
  <2>1. /\ epoch' = epoch
        /\ \/ entries' = entries
           \/ Flow!CanAdmit(t.epoch, t.seq) /\ entries' = Flow!Bind(t.seq, "Admitted")
    BY <1>8 DEF Flow!AdmitFrame, Flow!Admit
  <2>2. CASE entries' = entries
    BY <2>1, <2>2 DEF Admits
  <2>3. CASE Flow!CanAdmit(t.epoch, t.seq) /\ entries' = Flow!Bind(t.seq, "Admitted")
    <3>1. t.epoch = epoch /\ t.seq \in DOMAIN entries
      BY <2>3 DEF Flow!CanAdmit
    <3>2. /\ DOMAIN entries' = DOMAIN entries
          /\ \A s \in DOMAIN entries : s # t.seq => entries'[s] = entries[s]
      BY <2>3, <3>1 DEF Flow!Bind
    <3> QED
      BY <2>1, <3>1, <3>2 DEF Admits
  <2> QED
    BY <2>1, <2>2, <2>3
<1>9. ASSUME NEW e, NEW s, Flow!Reserve(e, s) PROVE Gains(s)
  BY <1>9 DEF Flow!Reserve, Flow!CanReserve, Flow!Bind, Gains
<1> QED
  BY <1>1, <1>2, <1>3, <1>4, <1>6, <1>7, <1>8, <1>9
     DEF Flow!RetireViewer, Flow!FeedbackEnd, DropReservation, Flow!ReserveFrame,
         Flow!ReserveAgain

\* Every step as seen from the table of permits.
LEMMA TableSteps ==
  ASSUME TInv, PlansInv, [Next]_vars
  PROVE  \/ Renewed
         \/ Fewer /\ UNCHANGED plan
         \/ CaptureAdmit /\ Admits(Token(cap.plan))
         \/ EmitAdmitted /\ Admits(Token(Head(cap.plans)))
         \/ CaptureAgain /\ Gains(cap.plan.seq)
         \/ \E route, rem : CaptureFrame(route, rem) /\ Gains(frame_seq + 1)
<1>0. Flow!TypeOK
  BY DEF TInv
<1> USE <1>0, TableCalls
<1>1. CASE CaptureTop \/ CaptureWindow \/ CaptureFence \/ CapturePrelude \/ CaptureRaw
           \/ EmitDone \/ Withhold \/ CaptureVideo \/ CaptureMixed
  BY <1>1 DEF CaptureTop, CaptureWindow, CaptureFence, CapturePrelude, CaptureRaw,
     EmitDone, Withhold, CaptureVideo, CaptureMixed, history
<1>2. CASE CaptureDiscard \/ CaptureDrop \/ CaptureBegin \/ EmitSuppressed
  BY <1>2 DEF CaptureDiscard, CaptureDrop, CaptureBegin, EmitSuppressed, history
<1>3. CASE CaptureBaseline \/ CaptureAbandon \/ CaptureTimesOut
  BY <1>3 DEF CaptureBaseline, CaptureAbandon, CaptureTimesOut, Abandon, history
<1>4. CASE CaptureNothing
  BY <1>4 DEF CaptureNothing, history
<1>5. CASE CaptureAdmit
  BY <1>5 DEF CaptureAdmit
<1>6. CASE EmitAdmitted
  BY <1>6 DEF EmitAdmitted, history
<1>7. CASE CaptureCancel \/ CaptureRejected
  BY <1>7 DEF CaptureCancel, CaptureRejected, history
<1>8. CASE CaptureAgain
  <2>1. cap.plan.seq = frame_seq
    BY <1>8 DEF CaptureAgain, PlansInv, Fresh
  <2> QED
    BY <1>8, <2>1 DEF CaptureAgain
<1>9. ASSUME NEW route, NEW rem, CaptureFrame(route, rem) PROVE Gains(frame_seq + 1)
  BY <1>9 DEF CaptureFrame
<1>10. CASE SenderLap \/ SenderLineFails
  BY <1>10 DEF SenderLap, SenderLineFails, SenderPoll, SenderJoin, SenderAccept,
     SenderPublish, SenderHeader, SenderReceive, SenderHandle, DropClient, history
<1>11. CASE SparseStep \/ ViewerStep \/ UNCHANGED vars
  BY <1>11 DEF SparseStep, SparsePoll, SparseAccept, SparseReceive, ViewerStep, vars, history
<1>12. ASSUME NEW e \in Epoch, FeedbackEnd(e) \/ \E s \in Sequence : FeedbackAck(e, s)
       PROVE  (Fewer /\ UNCHANGED plan) \/ Renewed
  BY <1>12 DEF FeedbackEnd, FeedbackAck, history
<1> QED
  BY <1>1, <1>2, <1>3, <1>4, <1>5, <1>6, <1>7, <1>8, <1>9, <1>10, <1>11, <1>12 DEF Next, Capture

-----------------------------------------------------------------------------
\* A fence, and a video leg, that its queue accepts is on the lane.
LEMMA QueuedLands ==
  ASSUME TInv
  PROVE  /\ CaptureFence /\ cap'.at = "prelude" =>
              \E m \in OnLane' : m.seq = cap.plan.seq /\ m.type = "fence" /\ m.gated
         /\ CaptureVideo /\ cap'.at # "rejected" =>
              \E m \in OnLane' : /\ m.seq = cap.plan.seq /\ m.type = "video"
                                 /\ m.gated <=> cap'.at = "mixed"
<1>0. /\ cap.plan \in Plan /\ cap \in CapRec /\ videoQ \in Seq(BulkMsg)
      /\ cap.back \in {"pump", "encode"}
  BY DEF TInv, CapTyped, CapRec, QueuesTyped
<1>1. ASSUME NEW m \in BulkMsg, m.type # "line", videoQ' = Append(videoQ, m)
      PROVE  m \in OnLane'
  <2>1. m \in Elems(videoQ')
    BY <1>0, <1>1, ElemsAppend
  <2> QED
    BY <1>1, <2>1 DEF OnLane, Queued
<1>2. ASSUME CaptureFence, cap'.at = "prelude"
      PROVE  \E m \in OnLane' : m.seq = cap.plan.seq /\ m.type = "fence" /\ m.gated
  <2> DEFINE m == Bulk("fence", cap.plan, TRUE)
  <2>1. m \in BulkMsg /\ m.type = "fence" /\ m.seq = cap.plan.seq /\ m.gated
    BY <1>0, MessagesTyped DEF Bulk
  <2>2. videoQ' = Append(videoQ, m)
    BY <1>0, <1>2 DEF CaptureFence, Goto, CapRec
  <2> HIDE DEF m
  <2> QED
    BY <1>1, <2>1, <2>2
<1>3. ASSUME CaptureVideo, cap'.at # "rejected"
      PROVE  \E m \in OnLane' : /\ m.seq = cap.plan.seq /\ m.type = "video"
                                /\ m.gated <=> cap'.at = "mixed"
  <2> DEFINE mixed == cap.plan.route = "Mixed"
             m == Bulk("video", cap.plan, mixed)
  <2>1. m \in BulkMsg /\ m.type = "video" /\ m.seq = cap.plan.seq /\ (m.gated <=> mixed)
    BY <1>0, MessagesTyped DEF Bulk
  <2>2. Len(videoQ) < QUEUE_DEPTH
    BY <1>0, <1>3 DEF CaptureVideo, Goto, CapRec
  <2>3. videoQ' = Append(videoQ, m)
    BY <1>3, <2>2 DEF CaptureVideo
  <2>4. mixed <=> cap'.at = "mixed"
    BY <1>0, <1>3, <2>2 DEF CaptureVideo, CapRec
  <2> HIDE DEF m, mixed
  <2> QED
    BY <1>1, <2>1, <2>3, <2>4
<1> QED
  BY <1>2, <1>3

\* What the writer may not discard stays on the lane of a viewer that stays.
LEMMA StaysOnLane ==
  ASSUME TInv, RInv, ServeInv, [Next]_vars, sender.client \in live, sender'.client \in live',
         NEW m \in OnLane, Passes(m) \/ Undecided(m)
  PROVE  m \in OnLane'
<1>1. ~SenderAccept
  BY DEF SenderAccept, ServeInv
<1> QED
  BY <1>1, LaneSets

\* A gate is shut by the thread that holds the update.
LEMMA GateShuts ==
  ASSUME TInv, [Next]_vars, NEW s \in Sequence, gates[s] \in {"pending", "yes"}
  PROVE  \/ gates'[s] \in {"pending", "yes"}
         \/ cap'.at \in {"cancel", "rejected"} /\ cap'.plan.seq = s
<1>0. cap \in CapRec /\ gates \in [Sequence -> {"none", "pending", "yes", "no"}]
  BY DEF TInv, CapTyped, QueuesTyped
<1>1. CASE CaptureFence \/ CaptureVideo
  BY <1>0, <1>1, GateWrites
<1>2. CASE CapturePrelude
  BY <1>0, <1>2, GateWrites, FieldsSchedule DEF Carries
<1>3. CASE CaptureMixed
  <2>1. cap'.plan = cap.plan
    BY <1>3, FieldsEncode DEF Carries
  <2>2. \/ gates' = [gates EXCEPT ![cap.plan.seq] = "yes"]
        \/ gates' = [gates EXCEPT ![cap.plan.seq] = "no"] /\ cap'.at = "rejected"
    BY <1>0, <1>3 DEF CaptureMixed, Goto, CapRec
  <2> QED
    BY <1>0, <2>1, <2>2
<1> QED
  BY <1>1, <1>2, <1>3, GateSteps

\* An open gate stays open.
LEMMA GateStays ==
  ASSUME TInv, RouteInv, GateInv, [Next]_vars, NEW s \in Sequence, gates[s] = "yes"
  PROVE  gates'[s] = "yes"
<1>0. gates \in [Sequence -> {"none", "pending", "yes", "no"}]
  BY DEF TInv, QueuesTyped
<1>1. CASE CaptureFence \/ CapturePrelude \/ CaptureVideo \/ CaptureMixed
  <2>1. \/ UNCHANGED gates
        \/ /\ gates[cap.plan.seq] # "yes"
           /\ \E g : gates' = [gates EXCEPT ![cap.plan.seq] = g]
    BY <1>1, GateWrites, FieldsSchedule, FieldsEncode DEF GateInv, RouteInv
  <2> QED
    BY <1>0, <2>1
<1> QED
  BY <1>1, GateSteps

\* A message that is on its way stays on its way, or its refusal is being handled.
LEMMA ShippedKept ==
  ASSUME TInv, RInv, ServeInv, [Next]_vars, sender.client \in live, sender'.client \in live',
         NEW s, Shipped(s)
  PROVE  Shipped(s)' \/ (cap'.at \in {"cancel", "rejected"} /\ cap'.plan.seq = s)
<1>1. PICK m \in OnLane : m.seq = s /\ Intact(m)
  BY DEF Shipped
<1>2. s \in Sequence
  BY <1>1, LaneTyped
<1>3. m \in OnLane'
  BY <1>1, StaysOnLane DEF Intact, Passes, Undecided
<1>4. \/ (Intact(m))'
      \/ cap'.at \in {"cancel", "rejected"} /\ cap'.plan.seq = s
  BY <1>1, <1>2, GateShuts DEF Intact
<1> QED
  BY <1>1, <1>3, <1>4 DEF Shipped

\* A message the writer will surely write stays one.
LEMMA CarriedKept ==
  ASSUME TInv, RInv, ServeInv, RouteInv, GateInv, [Next]_vars, sender.client \in live,
         sender'.client \in live', NEW s, Carried(s)
  PROVE  Carried(s)'
<1>1. PICK m \in OnLane : m.seq = s /\ Certain(m)
  BY DEF Carried
<1>2. s \in Sequence
  BY <1>1, LaneTyped
<1>3. m \in OnLane'
  BY <1>1, StaysOnLane DEF Certain, Passes
<1>4. (Certain(m))'
  BY <1>1, <1>2, GateStays DEF Certain
<1> QED
  BY <1>1, <1>3, <1>4 DEF Carried

-----------------------------------------------------------------------------
\* Who moves the capture thread from each of the places at which it holds an admitted permit.
LEMMA HandSteps ==
  ASSUME TInv, [Next]_vars
  PROVE  /\ cap.at = "exited" => cap' = cap
         /\ cap.at = "fence" => cap' = cap \/ CaptureFence
         /\ cap.at = "cancel" => cap' = cap \/ CaptureCancel
         /\ cap.at = "video" => cap' = cap \/ CaptureVideo
         /\ cap.at = "rejected" => cap' = cap \/ CaptureRejected
<1>1. \A route, rem : CaptureFrame(route, rem) => cap.at = "acquire"
  BY FieldsSchedule
<1>2. CaptureTop \/ CaptureBaseline \/ CaptureWindow \/ CaptureTimesOut \/ CaptureNothing
        \/ CaptureDrop \/ CaptureAbandon \/ CaptureDiscard
      => cap.at \notin {"exited", "fence", "cancel", "video", "rejected"}
  BY FieldsBetween
<1>3. CaptureAdmit \/ CapturePrelude \/ CaptureRaw \/ CaptureAgain \/ CaptureBegin \/ EmitDone
        \/ Withhold \/ EmitSuppressed \/ EmitAdmitted \/ CaptureMixed
      => cap.at \notin {"exited", "fence", "cancel", "video", "rejected"}
  BY FieldsSchedule, FieldsEncode
<1>4. /\ CaptureFence => cap.at = "fence"
      /\ CaptureCancel => cap.at = "cancel"
      /\ CaptureVideo => cap.at = "video"
      /\ CaptureRejected => cap.at = "rejected"
  BY FieldsSchedule, FieldsEncode
<1> QED
  BY <1>1, <1>2, <1>3, <1>4, OthersCapture DEF Capture

\* The update the capture thread holds an admitted permit for.
Hand(s) == cap.at \in {"fence", "cancel", "video", "rejected"} /\ cap.plan.seq = s

\* The capture thread queues what it holds an admitted permit for, or gives the permit back.
LEMMA HandKept ==
  ASSUME TInv, RInv, PlansInv, [Next]_vars, cap'.at # "exited",
         NEW s, Hand(s), s \in DOMAIN entries', plan[s].ep = epoch
  PROVE  Shipped(s)' \/ Hand(s)'
<1>0. /\ cap.plan \in Plan /\ cap \in CapRec /\ cap.plan.seq = s /\ s \in Sequence
      /\ cap.plan.ep = epoch
      /\ gates \in [Sequence -> {"none", "pending", "yes", "no"}]
      /\ cap.back \in {"pump", "encode"}
  BY DEF TInv, CapTyped, CapRec, RInv, CaptureInv, Based, Hand, Carrying, QueuesTyped
<1>1. CASE cap' = cap
  BY <1>1 DEF Hand
<1>2. CASE CaptureFence
  <2>1. cap'.plan = cap.plan /\ cap'.at \in {"prelude", "cancel"}
    BY <1>2, FieldsSchedule DEF Carries
  <2>2. CASE cap'.at = "prelude"
    <3>1. PICK m \in OnLane' : m.seq = s
      BY <1>0, <1>2, <2>2, QueuedLands
    <3>2. gates'[s] = "pending"
      BY <1>0, <1>2, <2>2, GateWrites
    <3> QED
      BY <3>1, <3>2 DEF Shipped, Intact
  <2> QED
    BY <1>0, <2>1, <2>2 DEF Hand
<1>3. CASE CaptureVideo
  <2>1. cap'.plan = cap.plan
    BY <1>3, FieldsEncode DEF Carries
  <2>2. CASE cap'.at # "rejected"
    <3>1. PICK m \in OnLane' : m.seq = s /\ (m.gated <=> cap'.at = "mixed")
      BY <1>0, <1>3, <2>2, QueuedLands
    <3>2. cap'.at = "mixed" => gates'[s] = "pending"
      BY <1>0, <1>3, GateWrites
    <3> QED
      BY <3>1, <3>2 DEF Shipped, Intact
  <2> QED
    BY <1>0, <2>1, <2>2 DEF Hand
<1>4. CASE CaptureCancel
  <2>1. cap.plan.ep = cap.ep
    BY <1>4 DEF CaptureCancel, PlansInv, Fresh
  <2>2. Flow!CancelFrame(Token(cap.plan))
    BY <1>0, <1>4, <2>1 DEF CaptureCancel, Stale
  <2> QED
    BY <1>0, <2>2 DEF Flow!CancelFrame, Flow!Cancel, Flow!CanCancel, Flow!Without, Token
<1>5. CASE CaptureRejected
  <2>1. Flow!CancelFrame(Token(cap.plan))
    BY <1>0, <1>5 DEF CaptureRejected
  <2> QED
    BY <1>0, <2>1 DEF Flow!CancelFrame, Flow!Cancel, Flow!CanCancel, Flow!Without, Token
<1> QED
  BY <1>1, <1>2, <1>3, <1>4, <1>5, HandSteps DEF Hand

\* Scheduling touches the plan of the update that gains a permit.
LEMMA PlanOf ==
  ASSUME TInv, RInv, PlansInv, NEW s \in DOMAIN entries'
  PROVE  /\ CaptureAgain /\ Gains(cap.plan.seq) =>
              /\ s # cap.plan.seq => plan'[s] = plan[s]
              /\ s = cap.plan.seq => plan'[s].ep = epoch
         /\ \A route, rem : CaptureFrame(route, rem) /\ Gains(frame_seq + 1) =>
              /\ s # frame_seq + 1 => plan'[s] = plan[s]
              /\ s = frame_seq + 1 => plan'[s].ep = epoch
<1>0. PlanTyped /\ Flow!TypeOK
  BY DEF TInv, RInv
<1>1. ASSUME CaptureAgain, Gains(cap.plan.seq)
      PROVE  /\ s # cap.plan.seq => plan'[s] = plan[s]
             /\ s = cap.plan.seq => plan'[s].ep = epoch
  <2>1. /\ cap.plan.seq \in Sequence /\ plan[cap.plan.seq].ep = cap.plan.ep
        /\ cap.plan.ep = cap.ep
    BY <1>1 DEF CaptureAgain, TInv, CapTyped, RInv, CaptureInv, Based, Carrying, PlansInv, Fresh
  <2>2. /\ ~Stale
        /\ plan' = [plan EXCEPT ![cap.plan.seq].legs = {"video"}]
    <3>1. CASE Stale
      <4>1. UNCHANGED flow
        BY <1>1, <3>1 DEF CaptureAgain
      <4> QED
        BY <1>1, <4>1 DEF flow, Gains
    <3> QED
      BY <1>1, <3>1 DEF CaptureAgain
  <2>3. plan'[cap.plan.seq].ep = plan[cap.plan.seq].ep
    BY <1>0, <2>1, <2>2 DEF PlanTyped
  <2>4. s # cap.plan.seq => plan'[s] = plan[s]
    <3>1. CASE s \in Sequence
      BY <1>0, <2>2, <3>1 DEF PlanTyped
    <3>2. DOMAIN entries \subseteq Sequence
      BY <1>0 DEF Flow!TypeOK, Flow!Sequence, Sequence
    <3> QED
      BY <1>1, <2>1, <3>1, <3>2 DEF Gains
  <2> QED
    BY <2>1, <2>2, <2>3, <2>4 DEF Stale
<1>2. ASSUME NEW route, NEW rem, CaptureFrame(route, rem), Gains(frame_seq + 1)
      PROVE  /\ s # frame_seq + 1 => plan'[s] = plan[s]
             /\ s = frame_seq + 1 => plan'[s].ep = epoch
  <2>1. /\ frame_seq + 1 \in Sequence /\ cap.ep = epoch
        /\ plan' = [plan EXCEPT ![frame_seq + 1] = [ep |-> cap.ep, legs |-> LegsOf(route, rem)]]
        /\ plan'[frame_seq + 1] = [ep |-> cap.ep, legs |-> LegsOf(route, rem)]
    BY <1>0, <1>2, Scheduled
  <2>2. plan'[frame_seq + 1].ep = epoch
    BY <2>1
  <2>3. DOMAIN entries \subseteq Sequence
    BY <1>0 DEF Flow!TypeOK, Flow!Sequence, Sequence
  <2>4. s \in Sequence
    BY <1>2, <2>1, <2>3 DEF Gains
  <2>5. s # frame_seq + 1 => plan'[s] = plan[s]
    <3> DEFINE x == [ep |-> cap.ep, legs |-> LegsOf(route, rem)]
    <3>1. plan' = [plan EXCEPT ![frame_seq + 1] = x]
      BY <2>1
    <3> HIDE DEF x
    <3> QED
      BY <1>0, <2>4, <3>1 DEF PlanTyped
  <2> QED
    BY <2>2, <2>5
<1> QED
  BY <1>1, <1>2

\* PermitInv is inductive.
LEMMA PermitStep ==
  TInv /\ RInv /\ ServeInv /\ PlansInv /\ RouteInv /\ PermitInv /\ [Next]_vars => PermitInv'
<1> SUFFICES ASSUME TInv, RInv, ServeInv, PlansInv, RouteInv, PermitInv, [Next]_vars
             PROVE  PermitInv'
  OBVIOUS
<1>0. /\ cap.plan \in Plan /\ cap \in CapRec /\ cap.plans \in Seq(Plan)
  BY DEF TInv, CapTyped, CapRec
<1>1. CASE Renewed
  BY <1>1 DEF Renewed, PermitInv
<1> SUFFICES ASSUME ~Renewed PROVE PermitInv'
  BY <1>1
<1>2. /\ epoch' = epoch
      /\ \A s \in DOMAIN entries' : plan'[s].ep = epoch'
  <2>1. CASE Fewer /\ UNCHANGED plan
    BY <2>1 DEF Fewer, PermitInv
  <2>2. CASE CaptureAdmit /\ Admits(Token(cap.plan))
    BY <2>2 DEF CaptureAdmit, Admits, PermitInv, history
  <2>3. CASE EmitAdmitted /\ Admits(Token(Head(cap.plans)))
    BY <2>3 DEF EmitAdmitted, Admits, PermitInv, history
  <2>4. CASE CaptureAgain /\ Gains(cap.plan.seq)
    BY <2>4, PlanOf DEF Gains, PermitInv
  <2>5. ASSUME NEW route, NEW rem, CaptureFrame(route, rem), Gains(frame_seq + 1)
        PROVE  epoch' = epoch /\ \A s \in DOMAIN entries' : plan'[s].ep = epoch'
    BY <2>5, PlanOf DEF Gains, PermitInv
  <2> QED
    BY <2>1, <2>2, <2>3, <2>4, <2>5, TableSteps
<1> SUFFICES ASSUME cap'.at # "exited", epoch' \in live', NEW s \in DOMAIN entries',
                    entries'[s] = "Admitted", Bulky(s)'
             PROVE  Shipped(s)' \/ Hand(s)'
  BY <1>2 DEF PermitInv, Hand
<1>3. /\ epoch \in live /\ sender.client \in live /\ sender'.client \in live'
  <2>1. live' \subseteq live \cup {epoch + 1}
    BY OthersServe DEF Next, SenderLap, SenderLineFails, SenderPoll, SenderJoin, SenderAccept,
       SenderPublish, SenderHeader, SenderReceive, SenderHandle, DropClient
  <2>2. epoch # epoch + 1
    BY DEF TInv, Flow!TypeOK, Flow!Epoch
  <2>3. epoch \in live
    BY <1>2, <2>1, <2>2
  <2>4. ServeInv'
    BY ServeStep
  <2> QED
    BY <2>3, <2>4 DEF ServeInv
<1>4. cap.at # "exited"
  BY HandSteps
<1>5. ASSUME s \in DOMAIN entries, entries[s] = "Admitted", plan'[s] = plan[s]
      PROVE  Shipped(s)' \/ Hand(s)'
  <2>1. Bulky(s)
    BY <1>5 DEF Bulky
  <2>2. Shipped(s) \/ Hand(s)
    BY <1>3, <1>4, <1>5, <2>1 DEF PermitInv, Hand
  <2>3. plan[s].ep = epoch
    BY <1>5 DEF PermitInv
  <2>4. CASE Shipped(s)
    BY <1>3, <2>4, ShippedKept DEF Hand
  <2>5. CASE Hand(s)
    BY <2>3, <2>5, HandKept
  <2> QED
    BY <2>2, <2>4, <2>5
<1>6. CASE Fewer /\ UNCHANGED plan
  BY <1>5, <1>6 DEF Fewer
<1>7. CASE CaptureAdmit /\ Admits(Token(cap.plan))
  <2>1. s \in DOMAIN entries /\ plan' = plan /\ cap.at = "admit"
    BY <1>7 DEF Admits, CaptureAdmit, history
  <2>2. CASE entries[s] = "Admitted"
    BY <1>5, <2>1, <2>2
  <2>3. CASE entries[s] # "Admitted"
    <3>1. s = cap.plan.seq /\ cap.plan.ep = epoch
      BY <1>7, <2>1, <2>3 DEF Admits, Token
    <3>2. /\ cap.plan.ep = cap.ep
          /\ plan[s].legs = LegsOf(cap.plan.route, cap.plan.rem)
          /\ cap.plan.route \in {"Raw", "Diff", "Move"}
      BY <2>1, <3>1 DEF PlansInv, RouteInv, Fresh
    <3>3. cap.plan.route = "Move"
      BY <2>1, <3>2 DEF Bulky, LegsOf
    <3>4. ~Stale
      BY <3>1, <3>2 DEF Stale
    <3>5. cap' = [cap EXCEPT !.at = "fence"]
      BY <1>7, <3>3, <3>4 DEF CaptureAdmit, Goto
    <3> QED
      BY <1>0, <3>1, <3>5 DEF Hand, CapRec
  <2> QED
    BY <2>2, <2>3
<1>8. CASE EmitAdmitted /\ Admits(Token(Head(cap.plans)))
  <2>1. s \in DOMAIN entries /\ plan' = plan
    BY <1>8 DEF Admits, EmitAdmitted, history
  <2>2. CASE entries[s] = "Admitted"
    BY <1>5, <2>1, <2>2
  <2>3. CASE entries[s] # "Admitted"
    <3>1. s = Head(cap.plans).seq /\ Head(cap.plans).ep = epoch
      BY <1>8, <2>1, <2>3 DEF Admits, Token
    <3>2. cap'.at = "video" /\ cap'.plan = Head(cap.plans)
      BY <1>8, <3>1, FieldsEncode
    <3> QED
      BY <3>1, <3>2 DEF Hand
  <2> QED
    BY <2>2, <2>3
<1>9. CASE CaptureAgain /\ Gains(cap.plan.seq)
  BY <1>5, <1>9, PlanOf DEF Gains
<1>10. ASSUME NEW route, NEW rem, CaptureFrame(route, rem), Gains(frame_seq + 1)
       PROVE  Shipped(s)' \/ Hand(s)'
  BY <1>5, <1>10, PlanOf DEF Gains
<1> QED
  BY <1>6, <1>7, <1>8, <1>9, <1>10, TableSteps

-----------------------------------------------------------------------------
\* A window that has moved on from the published epoch stays ahead of it until the next viewer
\* is published.
LEMMA RetiredStays ==
  ASSUME TInv, RInv, [Next]_vars, ~SenderPublish, session_epoch # epoch
  PROVE  session_epoch' # epoch'
<1>1. session_epoch' = session_epoch
  BY CaptureFrames DEF Next, CaptureTimesOut, SenderLap, SenderLineFails, SenderPoll, SenderJoin,
     SenderAccept, SenderHeader, SenderReceive, SenderHandle, SparseStep, SparsePoll,
     SparseAccept, SparseReceive, ViewerStep, FeedbackEnd, FeedbackAck, flags, vars
<1>2. session_epoch <= epoch /\ epoch <= epoch' /\ session_epoch \in Int /\ epoch \in Int
  BY FlowAges, Bounds
     DEF RInv, ConnectInv, TInv, ThreadsTyped, Flow!TypeOK, Flow!Epoch, Epoch
<1>3. epoch' \in Int
  BY FlowStep, FlowTypeStep, Bounds DEF TInv, Flow!TypeOK, Flow!Epoch
<1> QED
  BY <1>1, <1>2, <1>3

\* What was scheduled keeps its legs, but for a refused move that is scheduled again.
LEMMA LegsKept ==
  ASSUME TInv, RInv, [Next]_vars, NEW s \in Sequence, s <= frame_seq,
         ~(CaptureAgain /\ s = cap.plan.seq)
  PROVE  plan'[s] = plan[s]
<1>0. PlanTyped /\ frame_seq \in Int /\ s \in Int
  BY Bounds DEF TInv, Flow!TypeOK, RInv, Sequence
<1>1. CASE CaptureAgain
  <2>1. UNCHANGED plan \/ plan' = [plan EXCEPT ![cap.plan.seq].legs = {"video"}]
    BY <1>1 DEF CaptureAgain
  <2> QED
    BY <1>0, <1>1, <2>1 DEF PlanTyped
<1>2. ASSUME NEW route, NEW rem, CaptureFrame(route, rem) PROVE plan'[s] = plan[s]
  <2> DEFINE x == [ep |-> cap.ep, legs |-> LegsOf(route, rem)]
  <2>1. plan' = [plan EXCEPT ![frame_seq + 1] = x]
    BY <1>2 DEF CaptureFrame
  <2> HIDE DEF x
  <2>2. s # frame_seq + 1
    BY <1>0
  <2> QED
    BY <1>0, <2>1, <2>2 DEF PlanTyped
<1> QED
  BY <1>1, <1>2, PlanSteps

\* Why the update a move would build on need not have reached the lane for good yet.
Pending(s) ==
  \/ Held(s)
  \/ cap.at \in Emitted /\ cap.plan.seq = s
  \/ cap.at = "exited" \/ cap.invalid \/ session_epoch # epoch

\* Whoever holds it hands it on, or knows that it is lost.
LEMMA PendingKept ==
  ASSUME TInv, RInv, ServeInv, PlansInv, RouteInv, GateInv, LastInv, [Next]_vars,
         ~SenderPublish,         sender.client \in live, sender'.client \in live',
         NEW s, s > 0, cap.last = s, cap'.last = s, Pending(s)
  PROVE  Pending(s)' \/ Carried(s)'
<1>0. /\ cap.plans \in Seq(Plan) /\ cap.plan \in Plan /\ Len(cap.plans) \in Nat
      /\ gates \in [Sequence -> {"none", "pending", "yes", "no"}]
      /\ cap \in CapRec
  BY DEF TInv, CapTyped, CapRec, QueuesTyped
<1>1. ASSUME session_epoch' # epoch' PROVE Pending(s)'
  BY <1>1 DEF Pending
<1>2. CASE session_epoch # epoch
  BY <1>1, <1>2, RetiredStays
<1>3. CASE cap'.at = "exited" \/ cap'.invalid
  BY <1>3 DEF Pending
<1>4. CASE cap.at = "exited"
  BY <1>3, <1>4, HandSteps
<1>5. CASE cap' = cap
  BY <1>2, <1>5 DEF Pending, Held
<1>6. ASSUME cap'.invalid = cap.invalid, cap'.plans = cap.plans,
             cap.at \notin Emitted
      PROVE  Pending(s)' \/ Carried(s)'
  BY <1>2, <1>4, <1>6 DEF Pending, Held
<1>7. CASE CaptureTimesOut \/ CaptureTop \/ CaptureWindow \/ CaptureNothing
           \/ CaptureDrop \/ CaptureAbandon
  BY <1>6, <1>7, FieldsBetween DEF Steady, Emitted
<1>8. CASE CaptureDiscard
  BY <1>8, FieldsBetween DEF RouteInv
<1>9. CASE CaptureBaseline
  <2>1. Abandon(session_epoch)
    <3>2. CASE \E t \in DOMAIN entries : entries[t] = "Admitted"
      BY <1>9, <3>2 DEF CaptureBaseline
    <3>3. CASE ~ \E t \in DOMAIN entries : entries[t] = "Admitted"
      <4>1. cap'.last = 0
        BY <1>0, <1>9, <3>3 DEF CaptureBaseline, CapRec
      <4> QED
        BY <4>1
    <3> QED
      BY <3>2, <3>3
  <2>2. session_epoch' = session_epoch
    BY <1>9 DEF CaptureBaseline, flags
  <2>3. CASE session_epoch = epoch
    <3>1. epoch' = epoch + 1 /\ epoch \in Int
      BY <2>1, <2>3, Bounds DEF Abandon, Flow!RetireViewer, Flow!Disconnect, Flow!Reset, TInv,
         Flow!TypeOK, Flow!Epoch
    <3> QED
      BY <1>1, <2>2, <2>3, <3>1
  <2> QED
    BY <1>2, <2>3
<1>10. CASE CaptureAdmit \/ CaptureFence \/ CapturePrelude \/ CaptureRaw \/ CaptureCancel
            \/ CaptureAgain
  BY <1>6, <1>10, FieldsSchedule DEF Steady, Carries, Emitted
<1>11. ASSUME NEW route, NEW rem, CaptureFrame(route, rem)
       PROVE  Pending(s)' \/ Carried(s)'
  BY <1>6, <1>11, FieldsSchedule DEF Steady, Emitted
<1>12. CASE CaptureBegin
  <2>1. /\ cap.plan.seq = s
        /\ \/ cap'.plans = Append(cap.plans, cap.plan)
           \/ cap.plans # <<>> /\ cap'.plans = Append(Tail(cap.plans), cap.plan)
    BY <1>12, FieldsEncode
  <2>2. PICK rest \in Seq(Plan) : cap'.plans = Append(rest, cap.plan)
    BY <1>0, <2>1, TailOf
  <2>3. /\ Len(cap'.plans) = Len(rest) + 1 /\ Len(rest) \in Nat
        /\ cap'.plans[Len(rest) + 1] = cap.plan
    BY <1>0, <2>2, AppendOf
  <2>4. Len(rest) + 1 \in 1..Len(cap'.plans)
    BY <2>3
  <2> QED
    BY <2>1, <2>3, <2>4 DEF Pending, Held
<1>13. CASE EmitDone
  BY <1>6, <1>13, FieldsEncode DEF Steady, Emitted
<1>14. CASE Withhold \/ EmitSuppressed
  BY <1>3, <1>14, FieldsEncode
<1>15. CASE EmitAdmitted
  <2>1. /\ cap.plans # <<>> /\ cap'.plans = Tail(cap.plans) /\ cap.at \notin Emitted
        /\ cap'.invalid = cap.invalid
        /\ \/ Head(cap.plans).ep # epoch
           \/ cap'.at = "video" /\ cap'.plan = Head(cap.plans)
    BY <1>15, FieldsEncode DEF Emitted
  <2>2. /\ Len(Tail(cap.plans)) = Len(cap.plans) - 1 /\ Len(cap.plans) \in Nat
        /\ \A i \in 1..Len(Tail(cap.plans)) : Tail(cap.plans)[i] = cap.plans[i + 1]
        /\ Head(cap.plans) = cap.plans[1] /\ 1 \in 1..Len(cap.plans)
    BY <1>0, <2>1, TailOf
  <2>3. CASE Head(cap.plans).ep # epoch
    <3>1. Based(Head(cap.plans))
      BY <2>2 DEF RInv, CaptureInv
    <3> QED
      BY <1>2, <2>3, <3>1 DEF Based
  <2>4. CASE cap'.at = "video" /\ cap'.plan = Head(cap.plans)
    <3>1. CASE Held(s)
      <4>1. PICK i \in 1..Len(cap.plans) : cap.plans[i].seq = s
        BY <3>1 DEF Held
      <4>2. CASE i = 1
        BY <2>2, <2>4, <4>1, <4>2 DEF Pending, Emitted
      <4>3. CASE i # 1
        <5>1. i - 1 \in 1..Len(Tail(cap.plans)) /\ (i - 1) + 1 = i
          BY <2>2, <4>3
        <5>2. cap'.plans[i - 1].seq = s
          BY <2>1, <2>2, <4>1, <5>1
        <5> QED
          BY <2>1, <5>1, <5>2 DEF Pending, Held
      <4> QED
        BY <4>2, <4>3
    <3> QED
      BY <1>2, <1>3, <1>4, <2>1, <3>1 DEF Pending
  <2> QED
    BY <2>1, <2>3, <2>4
<1>16. CASE CaptureVideo
  <2>1. cap.at = "video" /\ cap'.plan = cap.plan /\ cap'.plans = cap.plans
        /\ cap'.invalid = cap.invalid
    BY <1>16, FieldsEncode DEF Carries, Steady
  <2>2. CASE Held(s)
    BY <2>1, <2>2 DEF Pending, Held
  <2>3. CASE cap.plan.seq = s
    <3>1. CASE cap'.at \in {"mixed", "rejected"}
      BY <2>1, <2>3, <3>1 DEF Pending, Emitted
    <3>2. CASE cap'.at \notin {"mixed", "rejected"}
      <4>1. PICK m \in OnLane' : m.seq = s /\ ~m.gated
        BY <1>16, <2>3, <3>2, QueuedLands
      <4> QED
        BY <4>1 DEF Carried, Certain
    <3> QED
      BY <3>1, <3>2
  <2> QED
    BY <1>2, <1>3, <1>4, <2>1, <2>2, <2>3 DEF Pending
<1>17. CASE CaptureMixed
  <2>1. cap.at = "mixed" /\ cap'.plan = cap.plan /\ cap'.plans = cap.plans
        /\ cap'.invalid = cap.invalid
    BY <1>17, FieldsEncode DEF Carries, Steady
  <2>2. CASE Held(s)
    BY <2>1, <2>2 DEF Pending, Held
  <2>3. CASE cap.plan.seq = s
    <3>1. CASE cap'.at = "rejected"
      BY <2>1, <2>3, <3>1 DEF Pending, Emitted
    <3>2. CASE cap'.at # "rejected"
      <4>1. gates' = [gates EXCEPT ![s] = "yes"]
        BY <1>0, <1>17, <2>3, <3>2 DEF CaptureMixed, Goto, CapRec
      <4>2. PICK m \in OnLane : m.seq = s
        BY <2>1, <2>3 DEF LastInv
      <4>3. s \in Sequence
        BY <4>2, LaneTyped
      <4>4. gates'[s] = "yes"
        BY <1>0, <4>1, <4>3
      <4>5. Passes(m) \/ Undecided(m)
        BY <2>1, <2>3, <4>2, <4>3 DEF Passes, Undecided, GateInv
      <4>6. m \in OnLane'
        BY <4>5, StaysOnLane
      <4>7. (Certain(m))'
        BY <4>2, <4>4 DEF Certain
      <4> QED
        BY <4>2, <4>6, <4>7 DEF Carried
    <3> QED
      BY <3>1, <3>2
  <2> QED
    BY <1>2, <1>3, <1>4, <2>1, <2>2, <2>3 DEF Pending
<1>18. CASE CaptureRejected
  BY <1>3, <1>18, FieldsEncode
<1> QED
  BY <1>5, <1>7, <1>8, <1>9, <1>10, <1>11, <1>12, <1>13, <1>14, <1>15, <1>16, <1>17, <1>18,
     OthersCapture DEF Capture

\* The update a move would build on, after a step.
LEMMA BaselineStep ==
  ASSUME TInv, RInv, ServeInv, PlansInv, RouteInv, GateInv, LastInv, [Next]_vars,
         ~SenderPublish, sender.client \in live, sender'.client \in live',
         NEW s, s > 0, cap'.last = s, Bulky(s)'
  PROVE  Pending(s)' \/ Carried(s)'
<1>0. /\ cap.plans \in Seq(Plan) /\ cap.plan \in Plan /\ cap \in CapRec
      /\ gates \in [Sequence -> {"none", "pending", "yes", "no"}]
      /\ cap.last \in 0..MaxSeq /\ cap.last <= frame_seq
  BY DEF TInv, CapTyped, CapRec, QueuesTyped, RouteInv
<1>1. CASE cap.last = s
  <2>1. s \in Sequence /\ s <= frame_seq
    BY <1>0, <1>1, Bounds DEF Sequence
  <2>2. ~(CaptureAgain /\ s = cap.plan.seq)
    BY <1>1 DEF CaptureAgain, RouteInv
  <2>3. plan'[s] = plan[s]
    BY <2>1, <2>2, LegsKept
  <2>4. Bulky(s)
    BY <2>3 DEF Bulky
  <2>5. Carried(s) \/ Pending(s)
    BY <1>1, <2>4 DEF LastInv, Pending
  <2> QED
    BY <1>1, <2>5, CarriedKept, PendingKept
<1>2. CASE CapturePrelude /\ cap'.last = cap.plan.seq /\ cap'.at \in {"top", "raw"}
  <2>1. gates' = [gates EXCEPT ![s] = "yes"] /\ cap.at = "prelude"
    BY <1>2, GateWrites, FieldsSchedule
  <2>2. PICK m \in OnLane : m.seq = s
    BY <1>2, <2>1 DEF LastInv
  <2>3. s \in Sequence
    BY <2>2, LaneTyped
  <2>4. gates'[s] = "yes" /\ gates[s] = "pending"
    BY <1>0, <1>2, <2>1, <2>3 DEF GateInv
  <2>5. m \in OnLane'
    BY <2>2, <2>4, StaysOnLane DEF Passes, Undecided
  <2>6. (Certain(m))'
    BY <2>2, <2>4 DEF Certain
  <2> QED
    BY <2>2, <2>5, <2>6 DEF Carried
<1>3. CASE CaptureRaw /\ cap'.last = cap.plan.seq /\ cap.last # s
  <2>1. cap.at = "raw" /\ plan' = plan
    BY <1>3 DEF CaptureRaw, history
  <2>2. cap.plan.route \in {"Raw", "Diff"} /\ plan[s].legs = LegsOf(cap.plan.route, cap.plan.rem)
    BY <1>3, <2>1 DEF RouteInv, Fresh
  <2> QED
    BY <2>1, <2>2 DEF Bulky, LegsOf
<1>4. CASE CaptureBegin
  <2>1. /\ cap.plan.seq = s
        /\ \/ cap'.plans = Append(cap.plans, cap.plan)
           \/ cap.plans # <<>> /\ cap'.plans = Append(Tail(cap.plans), cap.plan)
    BY <1>4, FieldsEncode
  <2>2. PICK rest \in Seq(Plan) : cap'.plans = Append(rest, cap.plan)
    BY <1>0, <2>1, TailOf
  <2>3. /\ Len(cap'.plans) = Len(rest) + 1 /\ Len(rest) \in Nat
        /\ cap'.plans[Len(rest) + 1] = cap.plan
    BY <1>0, <2>2, AppendOf
  <2>4. Len(rest) + 1 \in 1..Len(cap'.plans)
    BY <2>3
  <2> QED
    BY <2>1, <2>3, <2>4 DEF Pending, Held
<1>5. ASSUME NEW route, NEW rem, CaptureFrame(route, rem) PROVE cap.last = s
  BY <1>5, FieldsSchedule DEF Steady
<1>6. ASSUME cap'.last \in {cap.last, 0} PROVE cap.last = s
  BY <1>6
<1>7. CaptureTimesOut \/ CaptureTop \/ CaptureBaseline \/ CaptureWindow \/ CaptureNothing
        \/ CaptureDrop \/ CaptureAbandon \/ CaptureDiscard
      => cap'.last \in {cap.last, 0}
  BY FieldsBetween DEF Steady
<1>8. /\ CaptureAdmit \/ CaptureFence \/ CaptureCancel \/ CaptureAgain
           => cap'.last \in {cap.last, 0}
      /\ CapturePrelude =>
           \/ cap'.last = cap.last
           \/ cap'.last = cap.plan.seq /\ cap'.at \in {"top", "raw"}
      /\ CaptureRaw => cap'.last \in {cap.last, cap.plan.seq}
  BY FieldsSchedule DEF Steady, Carries
<1>9. EmitDone \/ Withhold \/ EmitSuppressed \/ EmitAdmitted \/ CaptureVideo \/ CaptureMixed
        \/ CaptureRejected
      => cap'.last = cap.last
  BY FieldsEncode DEF Steady, Carries
<1> QED
  BY <1>1, <1>2, <1>3, <1>4, <1>5, <1>6, <1>7, <1>8, <1>9, OthersCapture DEF Capture

\* A half that waits for the other is on the lane, and the baseline of a move is on it for good.
LEMMA HalvesStep ==
  ASSUME TInv, RInv, ServeInv, PlansInv, RouteInv, GateInv, LastInv, [Next]_vars,
         sender.client \in live, sender'.client \in live'
  PROVE  /\ cap'.at \in {"prelude", "mixed"} => \E m \in OnLane' : m.seq = cap'.plan.seq
         /\ cap'.at \in {"admit", "fence"} /\ cap'.plan.route = "Move" =>
              cap'.plan.seq > 1 /\ ((Bulky(cap.plan.seq - 1))' => (Carried(cap.plan.seq - 1))')
<1>0. /\ cap.plan \in Plan /\ cap \in CapRec /\ cap.plan.seq \in Int
      /\ cap.at \in Carrying => cap.plan.seq \in Sequence /\ cap.plan.seq <= frame_seq
      /\ PlanTyped
  BY Bounds DEF TInv, CapTyped, CapRec, Plan, RInv, CaptureInv, Based
<1>1. ASSUME cap'.at \in {"prelude", "mixed"} PROVE \E m \in OnLane' : m.seq = cap'.plan.seq
  <2>1. CASE cap' = cap
    <3>1. PICK m \in OnLane : m.seq = cap.plan.seq
      BY <1>1, <2>1 DEF LastInv
    <3>2. Passes(m) \/ Undecided(m)
      BY <1>1, <2>1, <3>1 DEF GateInv, Passes, Undecided
    <3> QED
      BY <2>1, <3>1, <3>2, StaysOnLane
  <2>2. CASE CaptureFence \/ CaptureVideo
    <3>1. cap'.plan = cap.plan
      BY <2>2, FieldsSchedule, FieldsEncode DEF Carries
    <3>2. \/ CaptureFence /\ cap'.at = "prelude"
          \/ CaptureVideo /\ cap'.at # "rejected"
      BY <1>1, <2>2, FieldsSchedule
    <3> QED
      BY <3>1, <3>2, QueuedLands
  <2>3. ASSUME NEW route, NEW rem, CaptureFrame(route, rem)
        PROVE  FALSE
    BY <1>1, <2>3, FieldsSchedule
  <2>4. CaptureTimesOut \/ CaptureTop \/ CaptureBaseline \/ CaptureWindow \/ CaptureNothing
          \/ CaptureDrop \/ CaptureAbandon \/ CaptureDiscard => FALSE
    BY <1>1, FieldsBetween
  <2>5. CaptureAdmit \/ CapturePrelude \/ CaptureRaw \/ CaptureCancel \/ CaptureAgain => FALSE
    BY <1>1, FieldsSchedule
  <2>6. CaptureBegin \/ EmitDone \/ Withhold \/ EmitSuppressed \/ EmitAdmitted \/ CaptureMixed
          \/ CaptureRejected => FALSE
    BY <1>1, FieldsEncode
  <2> QED
    BY <2>1, <2>2, <2>3, <2>4, <2>5, <2>6, OthersCapture DEF Capture
<1>2. ASSUME cap'.at \in {"admit", "fence"}, cap'.plan.route = "Move",
             cap'.plan = cap.plan, cap.at \in {"admit", "fence"}, plan' = plan
      PROVE  cap'.plan.seq > 1 /\ ((Bulky(cap.plan.seq - 1))' => (Carried(cap.plan.seq - 1))')
  <2>1. PICK n : n = cap.plan.seq - 1
    OBVIOUS
  <2>2. cap.plan.seq > 1 /\ (Bulky(n) => Carried(n))
    BY <1>2, <2>1 DEF LastInv
  <2>3. (cap.plan.seq - 1)' = n
    BY <1>2, <2>1
  <2>4. Bulky(n)' => Bulky(n)
    BY <1>2 DEF Bulky
  <2>5. Bulky(n)' => Carried(n)'
    BY <2>2, <2>4, CarriedKept
  <2> QED
    BY <1>2, <2>2, <2>3, <2>5
<1>3. ASSUME NEW route, NEW rem, CaptureFrame(route, rem), cap'.at = "admit",
             cap'.plan.route = "Move"
      PROVE  cap'.plan.seq > 1 /\ ((Bulky(cap.plan.seq - 1))' => (Carried(cap.plan.seq - 1))')
  <2>1. /\ cap'.plan = [seq |-> frame_seq + 1, ep |-> cap.ep, route |-> route,
                        rem |-> rem, lost |-> FALSE]
        /\ cap.at = "acquire"
    BY <1>3, FieldsSchedule
  <2>2. cap'.plan.seq = frame_seq + 1 /\ route = "Move"
    BY <1>3, <2>1
  <2>3. /\ MayRoute(route, frame_seq + 1) /\ cap.ep = epoch /\ frame_seq \in Nat
        /\ frame_seq + 1 \in Sequence
    BY <1>0, <1>3, Scheduled
  <2>4. cap.plans = <<>> /\ cap.last = (frame_seq + 1) - 1 /\ cap.last > 0
    BY <2>2, <2>3 DEF MayRoute, MayMove
  <2>5. cap.last = frame_seq /\ frame_seq > 0 /\ frame_seq + 1 > 1
    BY <2>3, <2>4
  <2>6. ~cap.invalid /\ session_epoch = epoch
    BY <2>1, <2>3 DEF RouteInv, RInv, CaptureInv
  <2>7. ~Pending(frame_seq)
    BY <2>1, <2>4, <2>6 DEF Pending, Held, Emitted
  <2>8. Bulky(frame_seq) => Carried(frame_seq)
    BY <2>5, <2>7 DEF LastInv, Pending
  <2>9. PICK n : n = frame_seq
    OBVIOUS
  <2>10. (cap.plan.seq - 1)' = n /\ n \in Sequence /\ n <= frame_seq
    <3>1. (frame_seq + 1) - 1 = frame_seq
      BY <2>3
    <3>2. (cap.plan.seq - 1)' = (frame_seq + 1) - 1
      BY <2>2
    <3>3. frame_seq \in Sequence
      BY <2>3, <2>5, Bounds DEF Sequence
    <3> QED
      BY <2>3, <2>9, <3>1, <3>2, <3>3
  <2>11. plan'[n] = plan[n]
    <3>1. ~CaptureAgain
      BY <2>1 DEF CaptureAgain
    <3> QED
      BY <2>10, <3>1, LegsKept
  <2>12. Bulky(n)' => Carried(n)'
    <3>1. Bulky(n)' => Bulky(n)
      BY <2>11 DEF Bulky
    <3> QED
      BY <2>8, <2>9, <3>1, CarriedKept
  <2> QED
    BY <2>2, <2>5, <2>10, <2>12
<1>4. ASSUME cap'.at \in {"admit", "fence"}, cap'.plan.route = "Move"
      PROVE  cap'.plan.seq > 1 /\ ((Bulky(cap.plan.seq - 1))' => (Carried(cap.plan.seq - 1))')
  <2>1. CASE cap' = cap /\ UNCHANGED plan
    BY <1>2, <1>4, <2>1
  <2>2. CASE CaptureAdmit
    <3>1. cap.at = "admit" /\ cap'.plan = cap.plan
      BY <1>4, <2>2, FieldsSchedule DEF Carries
    <3>2. plan' = plan
      BY <2>2 DEF CaptureAdmit, history
    <3> QED
      BY <1>2, <1>4, <3>1, <3>2
  <2>3. ASSUME NEW route, NEW rem, CaptureFrame(route, rem)
        PROVE  cap'.plan.seq > 1 /\ ((Bulky(cap.plan.seq - 1))' => (Carried(cap.plan.seq - 1))')
    <3>1. cap'.at = "admit"
      BY <1>4, <2>3, FieldsSchedule
    <3> QED
      BY <1>3, <1>4, <2>3, <3>1
  <2>4. CaptureTimesOut \/ CaptureTop \/ CaptureBaseline \/ CaptureWindow \/ CaptureNothing
          \/ CaptureDrop \/ CaptureAbandon \/ CaptureDiscard => FALSE
    BY <1>4, FieldsBetween
  <2>5. CaptureFence \/ CapturePrelude \/ CaptureRaw \/ CaptureCancel \/ CaptureAgain => FALSE
    BY <1>4, FieldsSchedule
  <2>6. CaptureBegin \/ EmitDone \/ Withhold \/ EmitSuppressed \/ EmitAdmitted \/ CaptureMixed
          \/ CaptureVideo \/ CaptureRejected => FALSE
    BY <1>4, FieldsEncode
  <2> QED
    BY <2>1, <2>2, <2>3, <2>4, <2>5, <2>6, OthersCapture DEF Capture
<1> QED
  BY <1>1, <1>4

\* LastInv is inductive.
LEMMA LastStep ==
  TInv /\ RInv /\ ServeInv /\ PlansInv /\ RouteInv /\ GateInv /\ LastInv /\ [Next]_vars
    => LastInv'
<1> SUFFICES ASSUME TInv, RInv, ServeInv, PlansInv, RouteInv, GateInv, LastInv, [Next]_vars,
                    sender'.client \in live'
             PROVE  /\ (cap.last > 0 /\ Bulky(cap.last))' =>
                         (Carried(cap.last))' \/ (Pending(cap.last))'
                    /\ cap'.at \in {"prelude", "mixed"} => \E m \in OnLane' : m.seq = cap'.plan.seq
                    /\ cap'.at \in {"admit", "fence"} /\ cap'.plan.route = "Move" =>
                         /\ cap'.plan.seq > 1
                         /\ (Bulky(cap.plan.seq - 1))' => (Carried(cap.plan.seq - 1))'
  BY DEF LastInv, Pending
<1>1. CASE cap.at = "top" /\ ~cap.was_connected /\ cap' = cap
  <2>1. cap'.last = 0 /\ cap'.at = "top"
    BY <1>1 DEF RouteInv
  <2> QED
    BY <2>1
<1>2. CASE SenderAccept /\ Quiet
  BY <1>1, <1>2 DEF Quiet, SenderAccept
<1>3. CASE SenderPublish
  <2>1. Quiet
    BY <1>3 DEF SenderPublish, RInv, ConnectInv
  <2> QED
    BY <1>1, <1>3, <2>1 DEF Quiet, SenderPublish
<1>4. CASE sender.client \in live /\ ~SenderPublish
  <2>1. PICK s : s = cap'.last
    OBVIOUS
  <2>2. s > 0 /\ Bulky(s)' => Pending(s)' \/ Carried(s)'
    BY <1>4, <2>1, BaselineStep
  <2>3. (cap.last > 0 /\ Bulky(cap.last))' => (Carried(cap.last))' \/ (Pending(cap.last))'
    BY <2>1, <2>2
  <2> QED
    BY <1>4, <2>3, HalvesStep
<1> QED
  BY <1>2, <1>3, <1>4, LaneSets

-----------------------------------------------------------------------------
\* What was scheduled before the newest update keeps its legs.
LEMMA OlderKept ==
  ASSUME TInv, RInv, PlansInv, [Next]_vars, NEW n \in Sequence, n < frame_seq
  PROVE  Bulky(n)' <=> Bulky(n)
<1>1. n \in Int /\ frame_seq \in Int
  BY Bounds DEF Sequence, TInv, Flow!TypeOK
<1>2. ~(CaptureAgain /\ n = cap.plan.seq)
  BY <1>1 DEF CaptureAgain, PlansInv, Fresh
<1>3. plan'[n] = plan[n]
  BY <1>1, <1>2, LegsKept
<1> QED
  BY <1>3 DEF Bulky

\* Fences on the lane follow their baselines.
LEMMA LaneFences ==
  ASSUME TInv, RInv, ServeInv, PlansInv, RouteInv, GateInv, LastInv, FenceInv, [Next]_vars,
         sender'.client \in live', NEW m \in OnLane', m.type = "fence"
  PROVE  m.seq > 1 /\ (Bulky(m.seq - 1)' => Carried(m.seq - 1)')
<1>1. /\ sender.client \in live
      /\ m \in OnLane \/ Queues(m)
  BY LaneSets
<1>2. CASE m \in OnLane
  <2>1. m.seq > 1 /\ (Bulky(m.seq - 1) => Carried(m.seq - 1)) /\ m.seq \in Sequence
        /\ m.seq \in Int /\ m.seq <= frame_seq
    BY <1>1, <1>2, LaneTyped DEF FenceInv
  <2>2. PICK n : n = m.seq - 1
    OBVIOUS
  <2>3. n \in Sequence /\ n < frame_seq
    BY <2>1, <2>2, Bounds DEF Sequence, TInv, Flow!TypeOK
  <2>4. Bulky(n)' => Carried(n)'
    BY <1>1, <2>1, <2>2, <2>3, OlderKept, CarriedKept
  <2> QED
    BY <2>1, <2>2, <2>4
<1>3. CASE Queues(m)
  <2>1. /\ CaptureFence /\ cap.at = "fence" /\ cap.plan.route = "Move" /\ m.seq = cap.plan.seq
        /\ plan' = plan
    BY <1>3 DEF Queues, CaptureFence, CaptureVideo, RouteInv, history
  <2>2. PICK n : n = m.seq - 1
    OBVIOUS
  <2>3. m.seq > 1 /\ (Bulky(n) => Carried(n))
    BY <1>1, <2>1, <2>2 DEF LastInv
  <2>4. Bulky(n)' => Bulky(n)
    BY <2>1 DEF Bulky
  <2>5. Bulky(n)' => Carried(n)'
    BY <1>1, <2>3, <2>4, CarriedKept
  <2> QED
    BY <2>2, <2>3, <2>5
<1> QED
  BY <1>1, <1>2, <1>3

\* A fence the writer hands out finds its baseline handed out already.
LEMMA FenceWritten ==
  ASSUME TInv, RInv, LaneInv, FenceInv, sender.client \in live, sender.batch # <<>>,
         Head(sender.batch).type = "fence"
  PROVE  /\ Head(sender.batch).seq > 1
         /\ Bulky(Head(sender.batch).seq - 1) =>
              \E n \in Written : n.seq = Head(sender.batch).seq - 1
<1> DEFINE h == Head(sender.batch)
<1>1. sender.batch \in Seq(BulkMsg) /\ \A m \in OnLane : m.seq \in Int
  BY LaneTyped
<1>2. Elems(sender.batch) = {h} \cup Elems(Tail(sender.batch))
  BY <1>1, ElemsTail
<1>3. h \in Batched /\ h \in OnLane /\ Batched = {h} \cup Elems(Tail(sender.batch))
  BY <1>2 DEF Batched, OnLane
<1>4. h.seq > 1 /\ (Bulky(h.seq - 1) => Carried(h.seq - 1))
  BY <1>3 DEF FenceInv
<1>5. \A m \in Elems(Tail(sender.batch)) : m.type # "line" => h.seq <= m.seq
  BY <1>1, SortedTail DEF LaneInv, LaneOrder
<1>6. ASSUME Bulky(h.seq - 1) PROVE \E n \in Written : n.seq = h.seq - 1
  <2>1. PICK k \in OnLane : k.seq = h.seq - 1
    BY <1>4, <1>6 DEF Carried
  <2>2. ~(h.seq <= k.seq) /\ k # h
    BY <1>1, <1>3, <2>1
  <2>3. k \notin Queued
    BY <1>3, <2>2 DEF LaneInv, LaneOrder
  <2>4. k \notin Batched
    <3>1. \A m \in Batched : m.type # "line"
      BY LaneTyped
    <3> QED
      BY <1>3, <1>5, <2>2, <3>1
  <2> QED
    BY <2>1, <2>3, <2>4 DEF OnLane
<1> QED
  BY <1>4, <1>6

\* FenceInv is inductive.
LEMMA FenceStep ==
  TInv /\ RInv /\ ServeInv /\ PlansInv /\ RouteInv /\ LaneInv /\ GateInv /\ LastInv /\ FenceInv
    /\ [Next]_vars => FenceInv'
<1> SUFFICES ASSUME TInv, RInv, ServeInv, PlansInv, RouteInv, LaneInv, GateInv, LastInv,
                    FenceInv, [Next]_vars
             PROVE  FenceInv'
  OBVIOUS
<1>0. /\ got \in [Epoch -> Seq(BulkMsg)] /\ sender.client \in Epoch
      /\ sender.batch \in Seq(BulkMsg) /\ frame_seq \in Int
  BY LaneTyped DEF TInv, Flow!TypeOK
<1>1. ASSUME sender'.client \in live', NEW m \in OnLane', m.type = "fence"
      PROVE  m.seq > 1 /\ ((Bulky(m.seq - 1))' => (Carried(m.seq - 1))')
  BY <1>1, LaneFences
<1>2. ASSUME NEW e \in Epoch, NEW m \in Elems(got[e]), m.type = "fence"
      PROVE  m.seq > 1 /\ (Bulky(m.seq - 1)' => \E n \in Elems(got[e]) : n.seq = m.seq - 1)
  <2>1. m.seq > 1 /\ (Bulky(m.seq - 1) => \E n \in Elems(got[e]) : n.seq = m.seq - 1)
    BY <1>2 DEF FenceInv
  <2>2. m.seq \in 1..frame_seq
    BY <1>2 DEF Elems, RInv, BulkInv
  <2>3. m.seq - 1 \in Sequence /\ m.seq - 1 < frame_seq
    BY <1>0, <2>1, <2>2, Bounds DEF Sequence, TInv, Flow!TypeOK
  <2>4. Bulky(m.seq - 1)' <=> Bulky(m.seq - 1)
    BY <2>3, OlderKept
  <2> QED
    BY <2>1, <2>4
<1> DEFINE Follows == \A e \in Epoch : \A m \in Elems(got'[e]) : m.type = "fence" =>
             m.seq > 1 /\ (Bulky(m.seq - 1)' => \E n \in Elems(got'[e]) : n.seq = m.seq - 1)
<1>3. ASSUME got' = got PROVE Follows
  BY <1>2, <1>3
<1>4. ASSUME Writes, sender.client \in live PROVE Follows
  <2>1. PICK h, c : h = Head(sender.batch) /\ c = sender.client
    OBVIOUS
  <2>2. /\ sender.batch # <<>> /\ got' = [got EXCEPT ![c] = Append(got[c], h)]
        /\ h \in BulkMsg /\ c \in Epoch
    BY <1>0, <1>4, <2>1, TailOf DEF Writes
  <2>3. h.type = "fence" =>
          h.seq > 1 /\ (Bulky(h.seq - 1) => \E n \in Elems(got[c]) : n.seq = h.seq - 1)
    BY <1>4, <2>1, <2>2, FenceWritten DEF Written
  <2>4. h.seq \in Sequence /\ h.seq \in Int /\ h.seq <= frame_seq
    <3>1. h \in OnLane
      BY <1>0, <2>1, <2>2, ElemsTail DEF OnLane, Batched
    <3> QED
      BY <3>1, LaneTyped
  <2>5. h.type = "fence" =>
          h.seq > 1 /\ (Bulky(h.seq - 1)' => \E n \in Elems(got[c]) : n.seq = h.seq - 1)
    <3> SUFFICES ASSUME h.type = "fence", Bulky(h.seq - 1)'
                 PROVE  \E n \in Elems(got[c]) : n.seq = h.seq - 1
      BY <2>3
    <3>1. h.seq - 1 \in Sequence /\ h.seq - 1 < frame_seq
      BY <1>0, <2>3, <2>4, Bounds DEF Sequence, TInv, Flow!TypeOK
    <3>2. Bulky(h.seq - 1)
      BY <3>1, OlderKept
    <3> QED
      BY <2>3, <3>2
  <2>6. ASSUME NEW e \in Epoch, NEW m \in Elems(got'[e]), m.type = "fence"
        PROVE  m.seq > 1 /\ (Bulky(m.seq - 1)' => \E n \in Elems(got'[e]) : n.seq = m.seq - 1)
    <3>1. CASE e # c
      <4>1. got'[e] = got[e]
        BY <1>0, <2>2, <3>1
      <4> QED
        BY <1>2, <2>6, <4>1
    <3>2. CASE e = c
      <4>1. got'[e] = Append(got[c], h)
        BY <1>0, <2>2, <3>2
      <4>2. Elems(got'[e]) = Elems(got[c]) \cup {h}
        <5>1. got[c] \in Seq(BulkMsg) /\ h \in BulkMsg
          BY <1>0, <2>2
        <5>2. Elems(Append(got[c], h)) = Elems(got[c]) \cup {h}
          BY <5>1, ElemsAppend
        <5> QED
          BY <4>1, <5>2
      <4> QED
        BY <1>2, <2>2, <2>5, <2>6, <4>2
    <3> QED
      BY <3>1, <3>2
  <2> QED
    BY <2>6
<1>5. Follows
  BY <1>3, <1>4, LaneEvents DEF Rests, Fills, Drains, Discards
<1> QED
  BY <1>1, <1>5 DEF FenceInv

-----------------------------------------------------------------------------
\* The host starts with nothing queued, scheduled or written, and serves nobody.
LEMMA InitOrder == Init => OInv
<1> SUFFICES ASSUME Init PROVE OInv
  OBVIOUS
<1>1. /\ cap.at = "top" /\ cap.plans = <<>> /\ cap.last = 0 /\ frame_seq = 0
      /\ live = {} /\ sender.at = "recv" /\ sender.client = 0
      /\ gates = [s \in Sequence |-> "none"]
      /\ got = [e \in Epoch |-> <<>>] /\ gotSparse = {} /\ DOMAIN entries = {}
  BY DEF Init, Flow!Init
<1>2. \A e \in Epoch : DOMAIN got[e] = {} /\ Elems(got[e]) = {}
  BY <1>1 DEF Elems
<1>3. ServeInv /\ CeilingInv
  BY <1>1 DEF ServeInv, CeilingInv
<1>4. PlansInv
  BY <1>1 DEF PlansInv, Fresh, Emitted
<1>5. RouteInv
  BY <1>1 DEF RouteInv, Fresh
<1>6. LaneInv
  BY <1>1, <1>2 DEF LaneInv, BulkInOrder
<1>7. GateInv
  BY <1>1, <1>2 DEF GateInv, NoHalfPair
<1>8. PermitInv /\ LastInv
  BY <1>1 DEF PermitInv, LastInv
<1>9. FenceInv
  BY <1>1, <1>2 DEF FenceInv
<1> QED
  BY <1>3, <1>4, <1>5, <1>6, <1>7, <1>8, <1>9 DEF OInv

\* Every step keeps the order of the bulk lane.
LEMMA OrderStep == TInv /\ RInv /\ OInv /\ [Next]_vars => OInv'
  BY ServeStep, PlansStep, RouteStep, CeilingStep, LaneStep, GateStep, PermitStep, LastStep,
     FenceStep DEF OInv

\* The strengthening implies what the runs check.
LEMMA OrderMeans == TInv /\ RInv /\ OInv => OrderInv
<1> SUFFICES ASSUME TInv, RInv, OInv PROVE OrderInv
  OBVIOUS
<1>0. /\ got \in [Epoch -> Seq(BulkMsg)] /\ \A e \in Epoch : DOMAIN got[e] = 1..Len(got[e])
      /\ videoQ \in Seq(BulkMsg) /\ sender.batch \in Seq(BulkMsg) /\ frame_seq \in Int
  BY LaneTyped DEF TInv, Flow!TypeOK
<1>1. BulkInOrder /\ NoHalfPair
  BY DEF OInv, LaneInv, GateInv
<1>2. BaselineSent
  <2> SUFFICES ASSUME NEW e \in Epoch, NEW i \in Own(e), got[e][i].type = "fence",
                      plan[got[e][i].seq - 1].legs \cap {"video", "fence"} # {}
               PROVE  \E j \in Own(e) : j < i /\ got[e][j].seq = got[e][i].seq - 1
    BY DEF BaselineSent
  <2>1. i \in 1..Len(got[e]) /\ got[e][i] \in Elems(got[e])
    BY <1>0 DEF Own, Elems
  <2>2. PICK n \in Elems(got[e]) : n.seq = got[e][i].seq - 1
    BY <2>1 DEF OInv, FenceInv, Bulky
  <2>3. PICK j \in 1..Len(got[e]) : got[e][j] = n
    BY DEF Elems
  <2>4. got[e][j].seq \in 1..frame_seq /\ plan[got[e][j].seq].ep = e
        /\ got[e][i].seq \in 1..frame_seq
    BY <2>1, <2>3 DEF RInv, BulkInv
  <2>5. j \in Own(e)
    BY <1>0, <2>3, <2>4 DEF Own
  <2>6. ~(got[e][i].seq <= got[e][j].seq)
    BY <1>0, <2>2, <2>3, <2>4
  <2>7. ~(i < j)
    BY <1>0, <1>1, <2>1, <2>3, <2>6 DEF BulkInOrder
  <2>8. i # j
    <3>1. \A x \in 1..frame_seq : x <= x
      BY <1>0
    <3> QED
      BY <2>4, <2>6, <3>1
  <2>9. j < i
    BY <2>1, <2>3, <2>7, <2>8
  <2> QED
    BY <2>2, <2>3, <2>5, <2>9
<1>3. AdmittedIsInFlight
  <2> SUFFICES ASSUME cap.at # "exited", epoch \in live, NEW s \in DOMAIN entries,
                      entries[s] = "Admitted", Bulky(s)
               PROVE  InFlight(s)
    BY DEF AdmittedIsInFlight, Bulky
  <2>1. epoch = sender.client
    BY DEF OInv, ServeInv
  <2>2. \/ \E m \in OnLane : m.seq = s
        \/ cap.at \in {"fence", "cancel", "video", "rejected"} /\ cap.plan.seq = s
    BY DEF OInv, PermitInv, Shipped
  <2>3. ASSUME NEW m \in OnLane, m.seq = s PROVE InFlight(s)
    <3>1. \/ m \in Elems(videoQ) \/ m \in Elems(sender.batch) \/ m \in Elems(got[epoch])
      BY <2>1 DEF OnLane, Queued, Batched, Written
    <3>2. DOMAIN videoQ = 1..Len(videoQ) /\ DOMAIN sender.batch = 1..Len(sender.batch)
          /\ DOMAIN got[epoch] = 1..Len(got[epoch])
      <4>1. epoch \in Epoch
        BY DEF TInv, Flow!TypeOK, Flow!Epoch, Epoch
      <4> QED
        BY <1>0, <4>1
    <3> QED
      BY <2>3, <3>1, <3>2 DEF InFlight, Elems
  <2> QED
    BY <2>2, <2>3 DEF InFlight
<1> QED
  BY <1>1, <1>2, <1>3 DEF OrderInv

\* A viewer's bulk lane never runs backwards, a move's fence follows the update it names, a pair
\* arrives whole or not at all, and every admitted permit belongs to an update on its way: while
\* viewers are served one after another, whatever the queues refuse, the encoder withholds or
\* the writers drop.
THEOREM OrderInvariant == EagerReconnect = FALSE => (Spec => []OrderInv)
<1> SUFFICES ASSUME EagerReconnect = FALSE PROVE Spec => []OrderInv
  OBVIOUS
<1>1. Init => TInv /\ RInv /\ OInv
  BY InitTyped, InitRecovery, InitOrder
<1>2. (TInv /\ RInv /\ OInv) /\ [Next]_vars => (TInv /\ RInv /\ OInv)'
  BY TypeStep, RecoveryStep, OrderStep
<1>3. TInv /\ RInv /\ OInv => OrderInv
  BY OrderMeans
<1> QED
  BY <1>1, <1>2, <1>3, PTL DEF Spec
=============================================================================

------------------------------ MODULE NativeHost ------------------------------
(***************************************************************************)
(* The visual half of the native host (tools/latency-spike/server/src/win: *)
(* pipeline.rs, send.rs): one capture thread, one writer thread per lane,  *)
(* one feedback reader per viewer, over the shared VisualFlow window.      *)
(*                                                                         *)
(* The threads meet in two bounded queues, in the window, in the           *)
(* connected, sparse_connected and session_epoch atomics and in the        *)
(* per-update admission gate; every step below is one access to one of     *)
(* them.  Viewers connect, acknowledge and close as the client does, one   *)
(* after another.  The encoder returns an update whenever it likes, with   *)
(* or without a keyframe, or withholds it; the frame source delivers       *)
(* frames, idles or is rebuilt.                                            *)
(***************************************************************************)
EXTENDS Integers, Sequences, FiniteSets

CONSTANTS
  MAX_OUTSTANDING, ACK_HISTORY_LIMIT, MaxEpoch, MaxSeq,  \* those of VisualFlow
  Viewers,                     \* bound: viewers that ever connect, numbered
  Work,                        \* bound: viewers, updates, routes and remainders of one behaviour
  QUEUE_DEPTH,                 \* bulk queue
  SPARSE_QUEUE_DEPTH,          \* sparse queue
  DRAIN_BATCH,                 \* messages a lap may take after the first
  MAX_PENDING_LOGICAL_FRAMES,  \* plans the assembler holds
  EagerReconnect  \* TRUE: a viewer may connect while the host still serves another

ASSUME HostAssumption ==
  /\ MAX_OUTSTANDING \in Nat \ {0} /\ ACK_HISTORY_LIMIT \in Nat \ {0}
  /\ MaxEpoch \in Nat /\ MaxSeq \in Nat
  /\ Viewers \in Nat
  /\ QUEUE_DEPTH \in Nat \ {0} /\ SPARSE_QUEUE_DEPTH \in Nat \ {0}
  /\ DRAIN_BATCH \in Nat /\ MAX_PENDING_LOGICAL_FRAMES \in Nat \ {0}
  /\ \A w \in Work :
       /\ w.viewers \in 0..Viewers /\ w.updates \in 0..MaxSeq
       /\ w.routes \subseteq {"Nothing", "Recovery", "Video", "Mixed", "Raw", "Diff", "Move"}
       /\ w.remainders \subseteq {"Raw", "Video"}
       /\ w.faults \in BOOLEAN  \* writes fail
  /\ EagerReconnect \in BOOLEAN

VARIABLES
  epoch, entries, acked, tokens, frame_seq, readers, released,  \* VisualFlow
  connected, sparse_connected, session_epoch,                   \* atomics
  cap,      \* capture_loop: where it is and its locals
  videoQ,   \* the bulk channel
  sparseQ,  \* the sparse channel
  gates,    \* AdmissionGate of an update sent over both lanes
  sender,   \* Sender: where it is, accepted epoch, payloads of its batch
  sparse,   \* SparseSender: where it is, epoch loaded, client and its epoch
  ends,     \* FeedbackEnd messages not yet read
  viewers,  \* what each viewer is doing
  backlog, sparseBacklog,  \* connections the kernel holds for the two listeners
  who,      \* the viewer an epoch was begun for
  live,     \* epochs whose bulk socket is still open on both sides
  plan,     \* history: the epoch and the legs each update was scheduled with
  got, gotSparse,  \* history: pixel messages written per epoch and per viewer
  recovered,       \* history: epochs whose recovery update entered the bulk queue
  work             \* bound: the member of Work this behaviour stays within

Flow == INSTANCE VisualFlow

flow == <<epoch, entries, acked, tokens, frame_seq, readers, released>>
flags == <<connected, sparse_connected, session_epoch>>
queues == <<videoQ, sparseQ, gates>>
world == <<viewers, backlog, sparseBacklog, who>>
history == <<plan, got, gotSparse, recovered, work>>
vars == <<flow, flags, cap, queues, sender, sparse, ends, world, live, history>>

Epoch == 0..MaxEpoch
Sequence == 1..MaxSeq
Viewer == 1..Viewers
AnyRoute == {"Nothing", "Recovery", "Video", "Mixed", "Raw", "Diff", "Move"}
AnyRemainder == {"None", "Raw", "Video"}
Unplanned == [seq |-> 0, ep |-> 0, route |-> "Nothing", rem |-> "None", lost |-> FALSE]

Init ==
  /\ Flow!Init
  /\ connected = FALSE /\ sparse_connected = FALSE /\ session_epoch = 0
  /\ cap = [at |-> "top", back |-> "pump", ep |-> 0, was_connected |-> FALSE,
            waiting |-> TRUE, suppress |-> FALSE, invalid |-> FALSE, last |-> 0,
            plans |-> <<>>, plan |-> Unplanned]
  /\ videoQ = <<>> /\ sparseQ = <<>> /\ gates = [s \in Sequence |-> "none"]
  /\ sender = [at |-> "recv", client |-> 0, batch |-> <<>>]
  /\ sparse = [at |-> "poll", seen |-> 0, client |-> 0, epoch |-> 0]
  /\ ends = {}
  /\ viewers = [v \in Viewer |-> "away"]
  /\ backlog = <<>> /\ sparseBacklog = <<>>
  /\ who = [e \in Epoch |-> 0] /\ live = {}
  /\ plan = [s \in Sequence |-> [ep |-> 0, legs |-> {}]]
  /\ got = [e \in Epoch |-> <<>>] /\ gotSparse = {} /\ recovered = {}
  /\ work \in Work

-----------------------------------------------------------------------------
(* capture_loop.  Locals: was_connected (ViewerBootstrap), waiting         *)
(* (Recovery), suppress (suppress_rects_once), invalid                     *)
(* (baseline_invalidated), last (last_scheduled_seq, 0 for None), plans    *)
(* (PlannedAssembler) and plan, the update being scheduled or emitted.     *)

Token(p) == [epoch |-> p.ep, seq |-> p.seq]
Armed(p) == Token(p) \in tokens
DropReservation(p) == IF Armed(p) THEN Flow!CancelFrame(Token(p)) ELSE UNCHANGED flow
Full == Cardinality(DOMAIN entries) >= MAX_OUTSTANDING
Stale == cap.ep # epoch
Goto(where) == cap' = [cap EXCEPT !.at = where]
\* The next iteration starts without the locals of this one.
Top == [cap EXCEPT !.at = "top", !.back = "pump", !.ep = 0, !.plan = Unplanned]
GoTop == cap' = Top

LegsOf(route, rem) ==
  CASE route \in {"Recovery", "Video"} -> {"video"}
    [] route = "Mixed" -> {"video", "raw"}
    [] route \in {"Raw", "Diff"} -> {"raw"}
    [] route = "Move" -> {"fence", "prelude"} \cup
         (CASE rem = "None" -> {} [] rem = "Raw" -> {"raw"} [] rem = "Video" -> {"video"})
    [] route = "Nothing" -> {}

\* viewer_socket.shutdown and visual_flow.disconnect of the capture thread's epoch.
Abandon(e) == live' = live \ {e} /\ Flow!RetireViewer(e)

AfterPump == IF cap.invalid THEN "baseline" ELSE "window"

\* Nobody watching: forget the viewer.  Otherwise look for the connect edge.
CaptureTop ==
  /\ cap.at = "top"
  /\ cap' = IF connected
            THEN [cap EXCEPT !.at = IF cap.plans = <<>> THEN AfterPump ELSE "pump", !.was_connected = TRUE,
                             !.last = IF cap.was_connected THEN @ ELSE 0]
            ELSE [cap EXCEPT !.at = IF cap.plans = <<>> THEN "top" ELSE "discard",
                             !.was_connected = FALSE, !.waiting = TRUE, !.last = 0]
  /\ UNCHANGED <<flow, flags, queues, sender, sparse, ends, world, live, history>>

\* discard_through drops the plans and with each its reservation.
CaptureDiscard ==
  /\ cap.at = "discard"
  /\ cap' = [cap EXCEPT !.plans = Tail(@), !.at = IF Len(cap.plans) = 1 THEN "top" ELSE @]
  /\ DropReservation(Head(cap.plans))
  /\ UNCHANGED <<flags, queues, sender, sparse, ends, world, live, history>>

\* An update was withheld after acquire: with admitted work the viewer must go,
\* otherwise the next frame is full.
CaptureBaseline ==
  /\ cap.at = "baseline"
  /\ IF \E s \in DOMAIN entries : entries[s] = "Admitted"
     THEN /\ cap' = [cap EXCEPT !.at = "top", !.invalid = FALSE]
          /\ Abandon(session_epoch)
     ELSE /\ cap' = [cap EXCEPT !.at = "window", !.invalid = FALSE, !.last = 0,
                                !.suppress = TRUE]
          /\ UNCHANGED <<flow, live>>
  /\ UNCHANGED <<flags, queues, sender, sparse, ends, world, history>>

\* Capture only for the current epoch and only with a free permit.
CaptureWindow ==
  /\ cap.at = "window"
  /\ cap' = IF session_epoch # epoch \/ Full THEN Top
            ELSE [cap EXCEPT !.at = "acquire", !.ep = session_epoch]
  /\ UNCHANGED <<flow, flags, queues, sender, sparse, ends, world, live, history>>

\* Mutant: a full window is waited out for ever.
BugCaptureTimesOut == FALSE /\ UNCHANGED vars

\* The oldest permit made no progress for CLIENT_APPLY_TIMEOUT.
CaptureTimesOut ==
  /\ cap.at = "window" /\ session_epoch = epoch /\ Full
  /\ GoTop
  /\ Abandon(session_epoch)
  /\ UNCHANGED <<flags, queues, sender, sparse, ends, world, history>>

-----------------------------------------------------------------------------
(* Acquire, reserve and route one frame.                                   *)

MayMove(s) ==
  /\ ~cap.waiting /\ sparse_connected /\ ~cap.suppress
  /\ cap.plans = <<>> /\ cap.last = s - 1 /\ cap.last > 0

\* Mutant: overlays do not wait for the recovery update.
BugMayRoute(route, s) ==
  CASE route = "Recovery" -> cap.waiting
    [] route = "Video" -> ~cap.waiting
    [] route = "Move" -> MayMove(s)
    [] route = "Nothing" -> ~cap.waiting /\ ~cap.suppress
    [] OTHER -> ~cap.suppress /\ sparse_connected

\* select_routing_plan, the move conditions and the diff conditions.
MayRoute(route, s) ==
  CASE route = "Recovery" -> cap.waiting
    [] route = "Video" -> ~cap.waiting
    [] route = "Move" -> MayMove(s)
    [] route = "Nothing" -> ~cap.waiting /\ ~cap.suppress
    [] OTHER -> ~cap.waiting /\ ~cap.suppress /\ sparse_connected

CaptureFrame(route, rem) ==
  /\ cap.at = "acquire" /\ frame_seq < work.updates
  /\ route # "Move" => rem = "None"
  /\ MayRoute(route, frame_seq + 1)
  /\ Flow!ReserveFrame(cap.ep)
  /\ cap' = [cap EXCEPT
       !.suppress = FALSE,
       !.plan = [seq |-> frame_seq + 1, ep |-> cap.ep, route |-> route, rem |-> rem,
                 lost |-> FALSE],
       !.at = CASE route = "Nothing" -> "drop"
                [] route \in {"Raw", "Diff", "Move"} -> "admit"
                [] OTHER -> "begin"]
  /\ plan' = [plan EXCEPT ![frame_seq + 1] = [ep |-> cap.ep, legs |-> LegsOf(route, rem)]]
  /\ UNCHANGED <<flags, queues, sender, sparse, ends, world, live, got, gotSparse, recovered, work>>

\* Nothing to capture; a rebuilt source; no codec surface free; a retired epoch.
CaptureNothing ==
  /\ cap.at = "acquire"
  /\ \/ GoTop /\ UNCHANGED flow
     \/ /\ cap' = [Top EXCEPT !.at = IF cap.plans = <<>> THEN "top" ELSE "discard",
                              !.waiting = TRUE, !.last = 0, !.suppress = TRUE]
        /\ UNCHANGED flow
     \/ cap' = [Top EXCEPT !.suppress = TRUE] /\ Flow!SkipFrame
     \/ Stale /\ GoTop /\ Flow!SkipFrame
  /\ UNCHANGED <<flags, queues, sender, sparse, ends, world, live, history>>

CaptureDrop ==
  /\ cap.at = "drop"
  /\ DropReservation(cap.plan)
  /\ GoTop
  /\ UNCHANGED <<flags, queues, sender, sparse, ends, world, live, history>>

\* admit_current: an update about to enter a queue; a stale reservation is dropped.
CaptureAdmit ==
  /\ cap.at = "admit"
  /\ Flow!AdmitFrame(Token(cap.plan))
  /\ IF Stale THEN GoTop ELSE Goto(IF cap.plan.route = "Move" THEN "fence" ELSE "raw")
  /\ UNCHANGED <<flags, queues, sender, sparse, ends, world, live, history>>

-----------------------------------------------------------------------------
(* Bounded queues and gates.                                               *)

Bulk(type, p, gated) == [type |-> type, seq |-> p.seq, kind |-> p.route, gated |-> gated]
SparseMsg(type, p, gated) == [type |-> type, seq |-> p.seq, gated |-> gated]

\* admit_move: the fence first ...
CaptureFence ==
  /\ cap.at = "fence"
  /\ IF Len(videoQ) < QUEUE_DEPTH
     THEN /\ videoQ' = Append(videoQ, Bulk("fence", cap.plan, TRUE))
          /\ gates' = [gates EXCEPT ![cap.plan.seq] = "pending"]
          /\ Goto("prelude")
     ELSE Goto("cancel") /\ UNCHANGED <<videoQ, gates>>
  /\ UNCHANGED <<flow, flags, sparseQ, sender, sparse, ends, world, live, history>>

\* ... then the prelude, whose fate decides both.
CapturePrelude ==
  /\ cap.at = "prelude"
  /\ IF Len(sparseQ) < SPARSE_QUEUE_DEPTH
     THEN /\ sparseQ' = Append(sparseQ, SparseMsg("prelude", cap.plan, TRUE))
          /\ gates' = [gates EXCEPT ![cap.plan.seq] = "yes"]
          /\ cap' = CASE cap.plan.rem = "None" -> [Top EXCEPT !.last = cap.plan.seq]
                      [] cap.plan.rem = "Raw" -> [cap EXCEPT !.at = "raw", !.last = cap.plan.seq]
                      [] cap.plan.rem = "Video" -> [cap EXCEPT !.at = "begin"]
     ELSE /\ gates' = [gates EXCEPT ![cap.plan.seq] = "no"]
          /\ Goto("cancel")
          /\ UNCHANGED sparseQ
  /\ UNCHANGED <<flow, flags, videoQ, sender, sparse, ends, world, live, history>>

\* admit_rects: all-raw update, measured diff, or raw remainder of a move.
CaptureRaw ==
  /\ cap.at = "raw"
  /\ IF sparse_connected /\ Len(sparseQ) < SPARSE_QUEUE_DEPTH
     THEN /\ sparseQ' = Append(sparseQ, SparseMsg("raw", cap.plan, FALSE))
          /\ cap' = [Top EXCEPT !.last = IF cap.plan.route = "Diff" THEN @ ELSE cap.plan.seq]
     ELSE Goto("cancel") /\ UNCHANGED sparseQ
  /\ UNCHANGED <<flow, flags, videoQ, gates, sender, sparse, ends, world, live, history>>

\* A queue refused the update.  A refused pair is retried as full video, a raw
\* update enters recovery, a raw remainder after its prelude costs the viewer.
CaptureCancel ==
  /\ cap.at = "cancel"
  /\ LET remainder == cap.plan.route = "Move" /\ cap.last = cap.plan.seq
     IN /\ IF Stale THEN UNCHANGED flow ELSE Flow!CancelFrame(Token(cap.plan))
        /\ cap' = CASE remainder -> [cap EXCEPT !.at = "abandon"]
                    [] ~remainder /\ Stale -> Top
                    [] ~remainder /\ ~Stale /\ cap.plan.route = "Move" ->
                         [cap EXCEPT !.at = "again"]
                    [] OTHER -> [Top EXCEPT !.waiting = TRUE, !.suppress = TRUE, !.last = 0]
  /\ UNCHANGED <<flags, queues, sender, sparse, ends, world, live, history>>

CaptureAgain ==
  /\ cap.at = "again"
  /\ IF Stale
     THEN GoTop /\ UNCHANGED <<flow, plan>>
     ELSE /\ Flow!ReserveAgain(cap.ep)
          /\ cap' = [cap EXCEPT !.at = "begin", !.plan.route = "Video", !.plan.rem = "None"]
          /\ plan' = [plan EXCEPT ![cap.plan.seq].legs = {"video"}]
  /\ UNCHANGED <<flags, queues, sender, sparse, ends, world, live, got, gotSparse, recovered, work>>

CaptureAbandon ==
  /\ cap.at = "abandon"
  /\ GoTop
  /\ Abandon(cap.ep)
  /\ UNCHANGED <<flags, queues, sender, sparse, ends, world, history>>

-----------------------------------------------------------------------------
(* The assembler and the encoder.                                          *)

\* begin(): an overfull assembler evicts its oldest plan and enters recovery.
CaptureBegin ==
  /\ cap.at = "begin"
  /\ LET evict == Len(cap.plans) >= MAX_PENDING_LOGICAL_FRAMES
     IN /\ IF evict THEN DropReservation(Head(cap.plans)) ELSE UNCHANGED flow
        /\ cap' = [cap EXCEPT
             !.at = "encode", !.last = cap.plan.seq,
             !.plans = Append(IF evict THEN Tail(@) ELSE @, cap.plan),
             !.waiting = @ \/ evict, !.suppress = @ \/ evict]
  /\ UNCHANGED <<flags, queues, sender, sparse, ends, world, live, history>>

Emitting == cap.at \in {"pump", "encode"}
Complete == Emitting /\ cap.plans # <<>> /\ ~Head(cap.plans).lost

EmitDone ==
  /\ Emitting
  /\ cap' = IF cap.at = "encode" THEN Top
            ELSE [cap EXCEPT !.at = AfterPump]
  /\ UNCHANGED <<flow, flags, queues, sender, sparse, ends, world, live, history>>

\* emit_au refuses an access unit it cannot complete with parameter sets.
Withhold ==
  /\ Complete
  /\ cap' = [cap EXCEPT !.plans[1].lost = TRUE, !.invalid = TRUE]
  /\ UNCHANGED <<flow, flags, queues, sender, sparse, ends, world, live, history>>

\* Recovery.prepare: only a recovery update made of keyframes ends the wait.
EmitSuppressed ==
  /\ Complete /\ cap.waiting
  /\ IF Head(cap.plans).route = "Move"
     THEN Goto("exited") /\ UNCHANGED flow
     ELSE /\ cap' = [cap EXCEPT !.plans = Tail(@), !.invalid = TRUE]
          /\ DropReservation(Head(cap.plans))
  /\ UNCHANGED <<flags, queues, sender, sparse, ends, world, live, history>>

EmitAdmitted ==
  /\ Complete
  /\ LET p == Head(cap.plans)
     IN /\ ~cap.waiting \/ p.route = "Recovery"
        /\ IF Armed(p) THEN Flow!AdmitFrame(Token(p)) ELSE UNCHANGED flow
        /\ cap' = IF Armed(p) /\ p.ep # epoch
                  THEN [cap EXCEPT !.plans = Tail(@)]
                  ELSE [cap EXCEPT !.plans = Tail(@), !.plan = p, !.back = cap.at,
                                   !.at = "video"]
  /\ UNCHANGED <<flags, queues, sender, sparse, ends, world, live, history>>

\* admit_video_and_raw: the video first ...
CaptureVideo ==
  /\ cap.at = "video"
  /\ LET mixed == cap.plan.route = "Mixed"
         recovery == cap.plan.route = "Recovery"
     IN IF Len(videoQ) < QUEUE_DEPTH
        THEN /\ videoQ' = Append(videoQ, Bulk("video", cap.plan, mixed))
             /\ gates' = IF mixed THEN [gates EXCEPT ![cap.plan.seq] = "pending"] ELSE gates
             /\ cap' = [cap EXCEPT !.at = IF mixed THEN "mixed" ELSE cap.back,
                                   !.waiting = @ /\ ~recovery]
             /\ recovered' = IF recovery THEN recovered \cup {cap.plan.ep} ELSE recovered
        ELSE Goto("rejected") /\ UNCHANGED <<videoQ, gates, recovered>>
  /\ UNCHANGED <<flow, flags, sparseQ, sender, sparse, ends, world, live, plan, got, gotSparse,
                 work>>

\* ... then its raw leg, whose fate decides both.
CaptureMixed ==
  /\ cap.at = "mixed"
  /\ IF Len(sparseQ) < SPARSE_QUEUE_DEPTH
     THEN /\ sparseQ' = Append(sparseQ, SparseMsg("raw", cap.plan, TRUE))
          /\ gates' = [gates EXCEPT ![cap.plan.seq] = "yes"]
          /\ Goto(cap.back)
     ELSE /\ gates' = [gates EXCEPT ![cap.plan.seq] = "no"]
          /\ Goto("rejected")
          /\ UNCHANGED sparseQ
  /\ UNCHANGED <<flow, flags, videoQ, sender, sparse, ends, world, live, history>>

CaptureRejected ==
  /\ cap.at = "rejected"
  /\ IF cap.plan.ep # epoch THEN UNCHANGED flow ELSE Flow!CancelFrame(Token(cap.plan))
  /\ cap' = IF cap.plan.route = "Move" THEN [cap EXCEPT !.at = "exited"]
            ELSE [cap EXCEPT !.at = cap.back, !.waiting = TRUE, !.invalid = TRUE]
  /\ UNCHANGED <<flags, queues, sender, sparse, ends, world, live, history>>

Capture ==
  \/ CaptureTop \/ CaptureDiscard \/ CaptureBaseline \/ CaptureWindow
  \/ CaptureNothing \/ CaptureDrop \/ CaptureAdmit
  \/ \E route \in work.routes, rem \in work.remainders \cup {"None"} : CaptureFrame(route, rem)
  \/ CaptureFence \/ CapturePrelude \/ CaptureRaw
  \/ CaptureCancel \/ CaptureAgain \/ CaptureAbandon
  \/ CaptureBegin \/ EmitDone \/ Withhold \/ EmitSuppressed \/ EmitAdmitted
  \/ CaptureVideo \/ CaptureMixed \/ CaptureRejected

-----------------------------------------------------------------------------
(* Sender: one lap polls the feedback readers, accepts, then drains the    *)
(* bulk channel into a batch and handles it.                               *)

\* drop_client's first half: shut the socket, retire the epoch.
DropClient(rest) ==
  /\ sender' = [sender EXCEPT !.at = "join", !.batch = rest]
  /\ live' = live \ {sender.client}
  /\ Flow!RetireViewer(sender.client)

Idle == IF sender.client = 0 THEN "accept" ELSE "recv"
SenderAt(where) == sender' = [sender EXCEPT !.at = where]

\* Mutant: the sender notices only its own failed writes.
BugSenderPoll ==
  /\ sender.at \in {"poll", "recv"} /\ sender.batch = <<>>
  /\ ends' = {}
  /\ SenderAt(Idle) /\ UNCHANGED <<flow, live>>
  /\ UNCHANGED <<flags, cap, queues, sparse, world, history>>

\* poll_feedback: the reader ended, or somebody else retired the epoch.
SenderPoll ==
  /\ sender.at \in {"poll", "recv"} /\ sender.batch = <<>>
  /\ ends' = {}
  /\ IF sender.client # 0 /\ (sender.client \in ends \/ epoch # sender.client)
     THEN DropClient(<<>>)
     ELSE /\ SenderAt(Idle)
          /\ UNCHANGED <<flow, live>>
  /\ UNCHANGED <<flags, cap, queues, sparse, world, history>>

\* A cursor or statistics message cannot be written.
SenderLineFails ==
  /\ work.faults
  /\ sender.at \in {"poll", "recv"} /\ sender.batch = <<>> /\ sender.client # 0
  /\ DropClient(<<>>)
  /\ UNCHANGED <<flags, cap, queues, sparse, ends, world, history>>

\* drop_client's second half, once the reader thread has been joined.
SenderJoin ==
  /\ sender.at = "join" /\ sender.client \notin readers
  /\ connected' = FALSE /\ sparse_connected' = FALSE
  /\ sender' = [sender EXCEPT !.at = IF sender.batch = <<>> THEN "accept" ELSE "handle",
                              !.client = 0]
  /\ UNCHANGED <<flow, session_epoch, cap, queues, sparse, ends, world, live, history>>

\* poll_accept: begin the epoch and its reader ...
SenderAccept ==
  /\ sender.at = "accept"
  /\ IF backlog # <<>>
     THEN LET v == Head(backlog)
          IN /\ Flow!AcceptViewer
             /\ backlog' = Tail(backlog)
             /\ who' = [who EXCEPT ![epoch + 1] = v]
             /\ live' = IF viewers[v] = "closed" THEN live ELSE live \cup {epoch + 1}
             /\ sender' = [sender EXCEPT !.at = "publish", !.client = epoch + 1]
     ELSE SenderAt("recv") /\ UNCHANGED <<flow, backlog, who, live>>
  /\ UNCHANGED <<flags, cap, queues, sparse, ends, viewers, sparseBacklog, history>>

\* ... publish the epoch ...
SenderPublish ==
  /\ sender.at = "publish"
  /\ session_epoch' = sender.client
  /\ SenderAt("header")
  /\ UNCHANGED <<flow, connected, sparse_connected, cap, queues, sparse, ends, world, live,
                 history>>

\* ... raise the flags and send the header, which lets the viewer go on.
SenderHeader ==
  /\ sender.at = "header"
  /\ sparse_connected' = FALSE /\ connected' = TRUE
  /\ viewers' = [viewers EXCEPT ![who[sender.client]] = IF @ = "waiting" THEN "header" ELSE @]
  /\ SenderAt("recv")
  /\ UNCHANGED <<flow, session_epoch, cap, queues, sparse, ends, backlog, sparseBacklog, who,
                 live, history>>

\* Drain the channel: how much of it the batch gets depends on timing.
\* Statistics lines move behind the payloads.
SenderReceive ==
  /\ sender.at = "recv" /\ Len(sender.batch) <= DRAIN_BATCH
  /\ videoQ # <<>>
  /\ videoQ' = Tail(videoQ)
  /\ sender' = IF Head(videoQ).type = "line" THEN sender
               ELSE [sender EXCEPT !.batch = Append(@, Head(videoQ))]
  /\ UNCHANGED <<flow, flags, cap, sparseQ, gates, sparse, ends, world, live, history>>

\* Mutant: the writer does not ask the gate.
BugPasses(m) == TRUE
Undecided(m) == m.gated /\ gates[m.seq] = "pending"
Passes(m) == m.gated => gates[m.seq] = "yes"

\* handle: wait for the gate, then write or discard; a failed write drops the viewer.
SenderHandle ==
  /\ sender.at \in {"recv", "handle"} /\ sender.batch # <<>>
  /\ ~Undecided(Head(sender.batch))
  /\ LET m == Head(sender.batch)
         rest == Tail(sender.batch)
         writes == sender.client # 0 /\ Passes(m)
     IN \/ /\ sender' = [sender EXCEPT !.batch = rest,
                                       !.at = IF rest = <<>> THEN "poll" ELSE "handle"]
           /\ got' = IF writes /\ sender.client \in live
                     THEN [got EXCEPT ![sender.client] = Append(@, m)] ELSE got
           /\ UNCHANGED <<flow, live>>
        \/ /\ writes /\ work.faults
           /\ DropClient(rest)
           /\ UNCHANGED got
  /\ UNCHANGED <<flags, cap, queues, sparse, ends, world, plan, gotSparse, recovered, work>>

SenderLap ==
  \/ SenderPoll \/ SenderJoin \/ SenderAccept \/ SenderPublish \/ SenderHeader
  \/ SenderReceive \/ SenderHandle

-----------------------------------------------------------------------------
(* SparseSender: one lap loads the epoch, accepts, then writes one update. *)

SparsePoll ==
  /\ sparse.at \in {"poll", "recv"}
  /\ LET drop == sparse.client # 0 /\ sparse.epoch # session_epoch
         free == sparse.client = 0 \/ drop
     IN /\ sparse' = IF free THEN [at |-> IF session_epoch = 0 THEN "recv" ELSE "accept",
                                   seen |-> session_epoch, client |-> 0, epoch |-> 0]
                     ELSE [sparse EXCEPT !.at = "recv"]
        /\ sparse_connected' = IF drop THEN FALSE ELSE sparse_connected
  /\ UNCHANGED <<flow, connected, session_epoch, cap, queues, sender, ends, world, live, history>>

SparseAccept ==
  /\ sparse.at = "accept"
  /\ IF sparseBacklog # <<>>
     THEN /\ sparse' = [at |-> "recv", seen |-> 0, client |-> Head(sparseBacklog),
                        epoch |-> sparse.seen]
          /\ sparseBacklog' = Tail(sparseBacklog)
          /\ sparse_connected' = TRUE
     ELSE /\ sparse' = [sparse EXCEPT !.at = "recv", !.seen = 0]
          /\ UNCHANGED <<sparseBacklog, sparse_connected>>
  /\ UNCHANGED <<flow, connected, session_epoch, cap, queues, sender, ends, viewers, backlog,
                 who, live, history>>

Line == [type |-> "line", seq |-> 0, kind |-> "Nothing", gated |-> FALSE]

\* write: discard, fail, or deliver and offer a statistics line to the bulk channel.
SparseReceive ==
  /\ sparse.at = "recv" /\ sparseQ # <<>> /\ ~Undecided(Head(sparseQ))
  /\ sparseQ' = Tail(sparseQ)
  /\ \/ /\ ~Passes(Head(sparseQ))
        /\ sparse' = [sparse EXCEPT !.at = "poll"]
        /\ UNCHANGED <<videoQ, sparse_connected, gotSparse>>
     \/ /\ Passes(Head(sparseQ)) /\ (work.faults \/ sparse.client = 0)
        /\ sparse' = [at |-> "poll", seen |-> 0, client |-> 0, epoch |-> 0]
        /\ sparse_connected' = FALSE
        /\ UNCHANGED <<videoQ, gotSparse>>
     \/ /\ Passes(Head(sparseQ)) /\ sparse.client # 0
        /\ sparse' = [sparse EXCEPT !.at = "poll"]
        /\ gotSparse' = gotSparse \cup {<<sparse.client, Head(sparseQ)>>}
        /\ videoQ' = IF Len(videoQ) < QUEUE_DEPTH THEN Append(videoQ, Line) ELSE videoQ
        /\ UNCHANGED sparse_connected
  /\ UNCHANGED <<flow, connected, session_epoch, cap, gates, sender, ends, world, live, plan, got,
                 recovered, work>>

SparseStep == SparsePoll \/ SparseAccept \/ SparseReceive

-----------------------------------------------------------------------------
(* Feedback readers and viewers.                                           *)

Received(e, s) ==
  {got[e][i].type : i \in {j \in DOMAIN got[e] : got[e][j].seq = s}}
    \cup {d[2].type : d \in {x \in gotSparse : x[1] = who[e] /\ x[2].seq = s}}

\* A viewer acknowledges, once, an update all of whose legs it holds.
FeedbackAck(e, s) ==
  /\ plan[s].legs # {} /\ plan[s].legs \subseteq Received(e, s)
  /\ <<e, s>> \notin released
  /\ Flow!FeedbackAck(e, s)
  /\ ends' = IF e \in readers' THEN ends ELSE ends \cup {e}
  /\ UNCHANGED <<flags, cap, queues, sender, sparse, world, live, history>>

\* Mutant: the reader leaves without retiring its epoch.
BugFeedbackEnd(e) ==
  /\ e \in readers /\ e \notin live
  /\ readers' = readers \ {e}
  /\ UNCHANGED <<epoch, entries, acked, tokens, frame_seq, released>>
  /\ ends' = ends \cup {e}
  /\ UNCHANGED <<flags, cap, queues, sender, sparse, world, live, history>>

FeedbackEnd(e) ==
  /\ e \notin live
  /\ Flow!FeedbackEnd(e)
  /\ ends' = ends \cup {e}
  /\ UNCHANGED <<flags, cap, queues, sender, sparse, world, live, history>>

\* The host remembers nothing of an earlier viewer.
Settled ==
  /\ ~connected /\ ~cap.was_connected /\ cap.at = "top" /\ cap.plans = <<>>
  /\ videoQ = <<>> /\ sparseQ = <<>> /\ backlog = <<>> /\ sparseBacklog = <<>>
  /\ sender.client = 0 /\ \A v \in Viewer : viewers[v] \in {"away", "closed"}

ViewerConnects(v) ==
  /\ viewers[v] = "away" /\ (v > 1 => viewers[v - 1] # "away") /\ v <= work.viewers
  /\ EagerReconnect \/ Settled
  /\ viewers' = [viewers EXCEPT ![v] = "waiting"]
  /\ backlog' = Append(backlog, v)
  /\ UNCHANGED <<sparseBacklog, live>>

\* probe.rs opens the sparse channel once it has read the header.
ViewerOpensSparse(v) ==
  /\ viewers[v] = "header"
  /\ viewers' = [viewers EXCEPT ![v] = "open"]
  /\ sparseBacklog' = Append(sparseBacklog, v)
  /\ UNCHANGED <<backlog, live>>

ViewerCloses(v) ==
  /\ viewers[v] \in {"waiting", "header", "open"}
  /\ viewers' = [viewers EXCEPT ![v] = "closed"]
  /\ live' = {e \in live : who[e] # v}
  /\ UNCHANGED <<backlog, sparseBacklog>>

ViewerStep ==
  /\ \E v \in Viewer : ViewerConnects(v) \/ ViewerOpensSparse(v) \/ ViewerCloses(v)
  /\ UNCHANGED <<flow, flags, cap, queues, sender, sparse, ends, who, history>>

Next ==
  \/ Capture
  \/ CaptureTimesOut
  \/ SenderLap \/ SenderLineFails
  \/ SparseStep
  \/ \E e \in Epoch : FeedbackEnd(e) \/ \E s \in Sequence : FeedbackAck(e, s)
  \/ ViewerStep

Spec == Init /\ [][Next]_vars

(* Host threads run whenever they can, but no write has to fail; a reader  *)
(* whose socket is shut returns; a window that is found full again and     *)
(* again has been full for CLIENT_APPLY_TIMEOUT at some lap.  Viewers owe  *)
(* nothing.                                                                *)
FairSpec ==
  /\ Spec
  /\ WF_vars(Capture)
  /\ SF_vars(CaptureTimesOut)
  /\ WF_vars(SenderLap)
  /\ WF_vars(SparseStep)
  /\ \A e \in Epoch : WF_vars(FeedbackEnd(e))

-----------------------------------------------------------------------------
Places == {"top", "discard", "pump", "baseline", "window", "acquire", "drop", "admit", "fence",
           "prelude", "raw", "cancel", "again", "abandon", "begin", "encode", "video", "mixed",
           "rejected", "exited"}
Plan == [seq : 0..MaxSeq, ep : Epoch, route : AnyRoute, rem : AnyRemainder, lost : BOOLEAN]
BulkMsg == [type : {"line", "video", "fence"}, seq : 0..MaxSeq, kind : AnyRoute, gated : BOOLEAN]
RectMsg == [type : {"raw", "prelude"}, seq : Sequence, gated : BOOLEAN]

TypeOK ==
  /\ Flow!TypeOK
  /\ connected \in BOOLEAN /\ sparse_connected \in BOOLEAN /\ session_epoch \in Epoch
  /\ cap \in [at : Places, back : {"pump", "encode"}, ep : Epoch, was_connected : BOOLEAN,
              waiting : BOOLEAN, suppress : BOOLEAN, invalid : BOOLEAN, last : 0..MaxSeq,
              plans : Seq(Plan), plan : Plan]
  /\ Len(cap.plans) <= MAX_PENDING_LOGICAL_FRAMES
  /\ videoQ \in Seq(BulkMsg) /\ Len(videoQ) <= QUEUE_DEPTH
  /\ sparseQ \in Seq(RectMsg) /\ Len(sparseQ) <= SPARSE_QUEUE_DEPTH
  /\ gates \in [Sequence -> {"none", "pending", "yes", "no"}]
  /\ sender \in [at : {"poll", "join", "accept", "publish", "header", "recv", "handle"},
                 client : Epoch, batch : Seq(BulkMsg)]
  /\ sparse \in [at : {"poll", "accept", "recv"}, seen : Epoch, client : 0..Viewers,
                 epoch : Epoch]
  /\ ends \subseteq Epoch /\ live \subseteq Epoch /\ recovered \subseteq Epoch
  /\ viewers \in [Viewer -> {"away", "waiting", "header", "open", "closed"}]
  /\ backlog \in Seq(Viewer) /\ sparseBacklog \in Seq(Viewer)
  /\ who \in [Epoch -> 0..Viewers]
  /\ got \in [Epoch -> Seq(BulkMsg)]
  /\ gotSparse \subseteq Viewer \X RectMsg

(* What the host asks of the shared window is what VisualFlow allows its   *)
(* callers: the theorems about VisualFlow hold of this host.  This is      *)
(* Flow!Spec, with the cheap question whether the window changed first.    *)
FlowSpec == Flow!Init /\ [][flow' # flow => Flow!Next]_flow

\* Positions of the bulk lane of an epoch that carry updates of that epoch.
Own(e) == {i \in DOMAIN got[e] : plan[got[e][i].seq].ep = e}

(* The first update of its own a viewer's bulk lane carries is a full      *)
(* recovery frame: a viewer starts mid-GOP and has no reference for less.  *)
FirstIsRecovery ==
  \A e \in Epoch : \A i \in Own(e) : (\A j \in Own(e) : i <= j) => got[e][i].kind = "Recovery"

(* One of two legs reaches a viewer only if both were accepted by their    *)
(* queues, although a writer may hold the first leg before the capture     *)
(* thread has offered the second.                                          *)
NoHalfPair ==
  /\ \A e \in Epoch : \A i \in DOMAIN got[e] :
       got[e][i].gated => gates[got[e][i].seq] = "yes"
  /\ \A d \in gotSparse : d[2].gated => gates[d[2].seq] = "yes"

(* The bulk lane never runs backwards: a move fence does not overtake an   *)
(* update the encoder still holds.                                         *)
BulkInOrder ==
  \A e \in Epoch : \A i, j \in DOMAIN got[e] : i < j => got[e][i].seq <= got[e][j].seq

(* A move names the update before it as its baseline; when that update     *)
(* has a bulk leg the lane carried it before the fence, whatever was       *)
(* withheld, refused, suppressed or evicted in between.                    *)
BaselineSent ==
  \A e \in Epoch : \A i \in Own(e) :
    LET base == got[e][i].seq - 1
    IN (got[e][i].type = "fence" /\ plan[base].legs \cap {"video", "fence"} # {})
         => \E j \in Own(e) : j < i /\ got[e][j].seq = base

(* No overlay is queued for a viewer whose recovery frame is not: raw      *)
(* pixels and moves build on a canvas the recovery update establishes.     *)
RawNeedsRecovery ==
  \A i \in DOMAIN sparseQ : plan[sparseQ[i].seq].ep \in recovered

(* A viewer's stream starts with its recovery frame, on both lanes.        *)
RecoveryInv ==
  /\ TypeOK
  /\ FirstIsRecovery
  /\ RawNeedsRecovery

InFlight(s) ==
  \/ cap.plan.seq = s /\ cap.at \notin {"top", "exited"}
  \/ \E i \in DOMAIN cap.plans : cap.plans[i].seq = s
  \/ \E i \in DOMAIN videoQ : videoQ[i].seq = s
  \/ \E i \in DOMAIN sender.batch : sender.batch[i].seq = s
  \/ \E i \in DOMAIN got[epoch] : got[epoch][i].seq = s

(* An admitted permit with a bulk leg is on its way to a viewer that is    *)
(* still there, or waits for that viewer's ACK: no refused, suppressed or  *)
(* cancelled update keeps a permit nobody will ever give back.             *)
AdmittedIsInFlight ==
  cap.at # "exited" /\ epoch \in live =>
    \A s \in DOMAIN entries :
      (entries[s] = "Admitted" /\ plan[s].legs \cap {"video", "fence"} # {}) => InFlight(s)

(* What the client's fence check relies on: the order of the bulk lane,    *)
(* the baseline of every move, whole pairs, and no permit lost with the    *)
(* update it was taken for.                                                *)
OrderInv ==
  /\ BulkInOrder
  /\ BaselineSent
  /\ NoHalfPair
  /\ AdmittedIsInFlight

(* A viewer that stops acknowledging does not stall the host for ever: a   *)
(* full window frees a permit or the viewer is retired.                    *)
FullWindowClears ==
  \A e \in Epoch : (epoch = e /\ Full) ~> (epoch # e \/ ~Full \/ cap.at = "exited")

(* The sender lets go of every viewer whose socket is gone, so that the    *)
(* next one can be accepted.                                               *)
ViewerForgotten ==
  \A e \in Epoch \ {0} :
    (sender.client = e /\ e \notin live) ~> (sender.client # e \/ cap.at = "exited")

=============================================================================

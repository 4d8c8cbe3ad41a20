---------------------------- MODULE NativeVisual ----------------------------
(***************************************************************************)
(* The visual half of the native client (src/native/session.rs): a bulk    *)
(* reader and a sparse reader apply one host's logical updates to a shared *)
(* canvas and acknowledge each of them once.                               *)
(*                                                                         *)
(* The bulk lane carries recovery and regional video and move fences, the  *)
(* sparse lane raw rectangles and move preludes; each lane is FIFO, and    *)
(* nothing orders one lane against the other.  Between two lock sections   *)
(* of a handler the other reader may run.  The host is the most general    *)
(* one that keeps to its own rules: at most MAX_OUTSTANDING unacknowledged *)
(* updates, and a move only on the preceding sequence.                     *)
(***************************************************************************)
EXTENDS Integers, Sequences, FiniteSets

CONSTANTS
  Blocks,                   \* the cells of the negotiated codec grid
  MaxSeq,                   \* bound: logical updates the host schedules
  MAX_OUTSTANDING,          \* the host's permits
  FRAME_ACK_QUEUE_CAPACITY  \* bounded feedback queue

ASSUME VisualAssumption ==
  /\ IsFiniteSet(Blocks) /\ Blocks # {}
  /\ MaxSeq \in Nat
  /\ MAX_OUTSTANDING \in Nat \ {0}
  /\ FRAME_ACK_QUEUE_CAPACITY \in Nat /\ FRAME_ACK_QUEUE_CAPACITY >= MAX_OUTSTANDING

VARIABLES
  orderly,   \* constant: the host starts with a recovery frame and holds a move back
             \* until nothing is unacknowledged, a woken bulk reader runs before the
             \* next prelude registers, and nothing fails to decode or times out
  desktop,   \* history: the host's frames; desktop[s][b] names the content of b
  updates,   \* history: the blocks update s draws by video, as rectangles and by copy
  bulk,      \* messages on the bulk lane
  sparse,    \* messages on the sparse lane
  unacked,   \* sequences holding a permit at the host
  video,     \* the bulk reader: where it is, its message, the move cover it ends
  raw,       \* the sparse reader, likewise
  hasBase,   \* NativeSink.has_base
  baseReady, \* BaseReady.ready
  move,      \* MoveRendezvous.state
  pending,   \* LogicalCompletion: sequence -> parts still to come
  failed,    \* LogicalCompletion.failed
  fences,    \* BlockFences.seqs
  canvas,    \* content shown per block
  shown,     \* history: the sequence whose content a block shows
  ackQueue,  \* sequences waiting for the ACK writer
  sent,      \* history: sequences ever put into ackQueue
  stop,      \* the session's stop flag
  failure    \* the reason of the terminal failure that claimed the stop flag

hostVars == <<orderly, desktop, updates, unacked>>
laneVars == <<bulk, sparse>>
syncVars == <<hasBase, baseReady, move>>
doneVars == <<pending, failed>>
pixelVars == <<fences, canvas, shown>>
ackVars == <<ackQueue, sent>>
endVars == <<stop, failure>>
vars == <<hostVars, laneVars, video, raw, syncVars, doneVars, pixelVars, ackVars, endVars>>

Parts == {"RAW", "VIDEO"}
Remainder == {"None", "Raw", "Video"}
Last == Len(desktop)
NoMsg == [type |-> "none"]
At(where, m, ends) == [at |-> where, msg |-> m, ends |-> ends]
Reading == At("read", NoMsg, {})
Idle == [state |-> "Idle"]
FailedMove == [state |-> "Failed"]
None(b) == <<0, b>>

\* A host update's pixels: fresh content in every block it changes.
Fresh(s, cover, old) == [b \in Blocks |-> IF b \in cover THEN <<s, b>> ELSE old[b]]

Before == IF Last = 0 THEN [b \in Blocks |-> None(b)] ELSE desktop[Last]

Init ==
  /\ orderly \in BOOLEAN
  /\ desktop = <<>> /\ updates = <<>> /\ unacked = {}
  /\ bulk = <<>> /\ sparse = <<>>
  /\ video = Reading /\ raw = Reading
  /\ hasBase = FALSE /\ baseReady = FALSE /\ move = Idle
  /\ pending = [s \in {} |-> Parts] /\ failed = {}
  /\ fences = [b \in Blocks |-> 0]
  /\ canvas = [b \in Blocks |-> None(b)]
  /\ shown = [b \in Blocks |-> 0]
  /\ ackQueue = <<>> /\ sent = {}
  /\ stop = FALSE /\ failure = "none"

-----------------------------------------------------------------------------
(* The host, reduced to the order in which it may schedule updates.        *)

Drawn(videoCover, rawCover, copy) == [video |-> videoCover, raw |-> rawCover, copy |-> copy]
Touched(s) == updates[s].video \cup updates[s].raw \cup updates[s].copy

Schedule(frame, update) ==
  /\ Last < MaxSeq
  /\ Cardinality(unacked) < MAX_OUTSTANDING
  /\ desktop' = Append(desktop, frame)
  /\ updates' = Append(updates, update)
  /\ unacked' = unacked \cup {Last + 1}
  /\ UNCHANGED <<orderly, video, raw, syncVars, doneVars, pixelVars, ackVars, endVars>>

Video(s, kind, parts, cover) ==
  [type |-> "video", seq |-> s, kind |-> kind, parts |-> parts, cover |-> cover]
Rects(s, parts, cover) == [type |-> "rects", seq |-> s, parts |-> parts, cover |-> cover]

SendRecovery ==
  /\ Schedule(Fresh(Last + 1, Blocks, Before), Drawn(Blocks, {}, {}))
  /\ bulk' = Append(bulk, Video(Last + 1, "Recovery", {"VIDEO"}, Blocks))
  /\ UNCHANGED sparse

\* A regional update: its video part, its raw part, or one of each.
SendUpdate(videoCover, rawCover) ==
  /\ orderly => Last > 0
  /\ videoCover \cap rawCover = {} /\ videoCover \cup rawCover # {}
  /\ Schedule(Fresh(Last + 1, videoCover \cup rawCover, Before),
              Drawn(videoCover, rawCover, {}))
  /\ LET parts == (IF videoCover = {} THEN {} ELSE {"VIDEO"})
                    \cup (IF rawCover = {} THEN {} ELSE {"RAW"})
     IN /\ bulk' = IF videoCover = {} THEN bulk
                   ELSE Append(bulk, Video(Last + 1, "Regional", parts, videoCover))
        /\ sparse' = IF rawCover = {} THEN sparse
                     ELSE Append(sparse, Rects(Last + 1, parts, rawCover))

\* A move of one block on the adjacent baseline, with its remainder.
SendMove(src, dst, remainder, cover) ==
  /\ Last > 0
  /\ orderly => unacked = {}
  /\ src # dst /\ dst \notin cover
  /\ (remainder = "None") <=> (cover = {})
  /\ Schedule([Fresh(Last + 1, cover, Before) EXCEPT ![dst] = Before[src]],
              Drawn(IF remainder = "Video" THEN cover ELSE {},
                    IF remainder = "Raw" THEN cover ELSE {}, {dst}))
  /\ sparse' =
       LET prelude == Append(sparse, [type |-> "prelude", baseline |-> Last, seq |-> Last + 1,
                                      src |-> src, dst |-> dst, remainder |-> remainder])
       IN IF remainder = "Raw" THEN Append(prelude, Rects(Last + 1, {"RAW"}, cover)) ELSE prelude
  /\ bulk' =
       LET fence == Append(bulk, [type |-> "fence", baseline |-> Last, seq |-> Last + 1])
       IN IF remainder = "Video"
          THEN Append(fence, Video(Last + 1, "Regional", {"VIDEO"}, cover)) ELSE fence

Host ==
  \/ SendRecovery
  \/ \E v, r \in SUBSET Blocks : SendUpdate(v, r)
  \/ \E src, dst \in Blocks, rem \in Remainder, c \in SUBSET Blocks : SendMove(src, dst, rem, c)

-----------------------------------------------------------------------------
(* Terminal failure.  A handler that fails has already released its locks; *)
(* the first failing worker then claims the stop flag.                     *)

Ended == At("ended", NoMsg, {})
Failing(reason) == At("failing", [type |-> reason], {})

VideoFails(reason) == video' = Failing(reason)
RawFails(reason) == raw' = Failing(reason)

Claim(reason) ==
  /\ stop' = TRUE
  /\ failure' = IF stop THEN failure ELSE reason

\* finish_video_and_cancel_base, and the sparse worker's finish_video_worker.
WorkerClaims ==
  /\ \/ /\ video.at = "failing"
        /\ Claim(video.msg.type)
        /\ video' = Ended
        /\ UNCHANGED raw
     \/ /\ raw.at = "failing"
        /\ Claim(raw.msg.type)
        /\ raw' = Ended
        /\ UNCHANGED video
  /\ UNCHANGED <<hostVars, laneVars, syncVars, doneVars, pixelVars, ackVars>>

\* enqueue_frame_ack: try_send into the bounded queue, which fails when it is full.
CanAck == Len(ackQueue) < FRAME_ACK_QUEUE_CAPACITY
EnqueueAck(s) ==
  IF CanAck THEN ackQueue' = Append(ackQueue, s) /\ sent' = sent \cup {s}
  ELSE UNCHANGED ackVars

\* What a reader does after a leg that owed an ACK, or owed none.
VideoContinues(owed) ==
  IF owed /\ ~CanAck THEN VideoFails("acknowledgement queue full")
  ELSE video' = Reading
RawContinues(owed) ==
  IF owed /\ ~CanAck THEN RawFails("acknowledgement queue full")
  ELSE raw' = Reading

-----------------------------------------------------------------------------
(* LogicalCompletion.  pending maps a registered sequence to the parts     *)
(* still missing.                                                          *)

Register(s, parts) ==
  pending' = [t \in DOMAIN pending \cup {s} |->
                IF t \in DOMAIN pending THEN pending[t] ELSE parts]

Forget(s) == [t \in DOMAIN pending \ {s} |-> pending[t]]

\* Mutant: the first leg completes the update.
BugCompletesMask(s, part) == part \in pending[s]

\* complete(): the leg that empties the mask forgets the sequence and owes the ACK.
CompletesMask(s, part) == pending[s] = {part}

Complete(s, part) ==
  /\ pending' = IF CompletesMask(s, part) THEN Forget(s)
                ELSE [pending EXCEPT ![s] = @ \ {part}]
  /\ IF CompletesMask(s, part) THEN EnqueueAck(s) ELSE UNCHANGED ackVars

-----------------------------------------------------------------------------
(* MoveRendezvous: what the locked methods decide from the shared state.   *)

Pending == move.state = "Pending"
Owns(s) == Pending /\ move.seq = s

\* completion_coverage(s, remainder) in the three cases that do not block.
NoMove == move = Idle
EndsMove(s, remainder) == Owns(s) /\ move.applied /\ move.remainder = remainder
Mismatch(s, remainder) == ~NoMove /\ ~EndsMove(s, remainder)

(* The canvas, under the fence lock.                                       *)

\* Mutant: no precedence between the lanes.
BugVisible(s, cover) == cover
Visible(s, cover) == {b \in cover : fences[b] < s}

Commit(s, cover) ==
  [b \in Blocks |-> IF b \in cover /\ fences[b] < s THEN s ELSE fences[b]]

\* Select, blit and commit of one pixel update, and of the move it ends; a fully
\* stale update changes nothing.
Paint(s, cover, ends) ==
  LET visible == Visible(s, cover)
  IN /\ canvas' = [b \in Blocks |-> IF b \in visible THEN desktop[s][b] ELSE canvas[b]]
     /\ shown' = [b \in Blocks |-> IF b \in visible THEN s ELSE shown[b]]
     /\ fences' = IF visible = {} THEN fences
                  ELSE Commit(s, cover \cup ends)

-----------------------------------------------------------------------------
(* The sparse reader.                                                      *)

\* pump_sparse takes the next message; on_rects consults the rendezvous and registers.
RectsBegin ==
  /\ raw.at = "read" /\ ~stop
  /\ sparse # <<>> /\ Head(sparse).type = "rects"
  /\ sparse' = Tail(sparse)
  /\ LET m == Head(sparse)
     IN \/ /\ NoMove
           /\ m.seq \notin failed
           /\ Register(m.seq, m.parts)
           /\ raw' = At(IF baseReady THEN "paint" ELSE "base", m, {})
           /\ UNCHANGED move
        \/ /\ NoMove
           /\ m.seq \in failed
           /\ RawFails("update already failed")
           /\ UNCHANGED <<pending, move>>
        \/ /\ EndsMove(m.seq, "Raw")
           /\ raw' = At("paint", m, {move.dst})
           /\ UNCHANGED <<pending, move>>
        \/ /\ Mismatch(m.seq, "Raw")
           /\ move' = FailedMove
           /\ RawFails("pixels do not match the pending move")
           /\ UNCHANGED pending
  /\ UNCHANGED <<hostVars, bulk, hasBase, baseReady, failed, pixelVars, ackVars, video, endVars>>

\* Mutants: content that arrives before the base is dropped, or refused.
BugRectsBaseDrops ==
  /\ raw.at = "base"
  /\ raw' = IF stop THEN Ended ELSE Reading
  /\ UNCHANGED <<hostVars, laneVars, video, syncVars, doneVars, pixelVars, ackVars, endVars>>
BugRectsBaseRefuses ==
  /\ raw.at = "base"
  /\ RawFails("rectangles without recovery")
  /\ UNCHANGED <<hostVars, laneVars, video, syncVars, doneVars, pixelVars, ackVars, endVars>>

\* BaseReady::wait: hold the decoded update until the recovery frame is visible.
RectsBase ==
  /\ raw.at = "base"
  /\ \/ /\ stop
        /\ raw' = Ended
     \/ /\ ~stop /\ baseReady
        /\ raw' = [raw EXCEPT !.at = "paint"]
  /\ UNCHANGED <<hostVars, laneVars, video, syncVars, doneVars, pixelVars, ackVars, endVars>>

RectsPaint ==
  /\ raw.at = "paint"
  /\ Paint(raw.msg.seq, raw.msg.cover, raw.ends)
  /\ raw' = [raw EXCEPT !.at = "finish"]
  /\ UNCHANGED <<hostVars, laneVars, video, syncVars, doneVars, ackVars, endVars>>

\* Complete the raw leg, or the move it ends, and acknowledge.
RectsFinish ==
  /\ raw.at = "finish"
  /\ LET s == raw.msg.seq
     IN \/ /\ raw.ends # {} /\ Owns(s)
           /\ move' = Idle
           /\ EnqueueAck(s)
           /\ RawContinues(TRUE)
           /\ UNCHANGED pending
        \/ /\ raw.ends # {} /\ ~Owns(s)
           /\ move' = FailedMove
           /\ RawFails("move rendezvous failed")
           /\ UNCHANGED <<pending, ackVars>>
        \/ /\ raw.ends = {} /\ s \in failed
           /\ RawFails("update already failed")
           /\ UNCHANGED <<move, pending, ackVars>>
        \/ /\ raw.ends = {} /\ s \notin failed
           /\ Complete(s, "RAW")
           /\ RawContinues(CompletesMask(s, "RAW"))
           /\ UNCHANGED move
  /\ UNCHANGED <<hostVars, laneVars, hasBase, baseReady, failed, pixelVars, video, endVars>>

\* on_move_prelude: no base is an error here, not a wait; then register_and_wait.
Prelude ==
  /\ raw.at = "read" /\ ~stop
  /\ sparse # <<>> /\ Head(sparse).type = "prelude"
  /\ orderly => video.at # "waitRaw"
  /\ sparse' = Tail(sparse)
  /\ LET m == Head(sparse)
     IN \/ /\ ~baseReady
           /\ RawFails("prelude without recovery")
           /\ UNCHANGED move
        \/ /\ baseReady /\ move # Idle
           /\ move' = FailedMove
           /\ RawFails("overlapping moves")
        \/ /\ baseReady /\ move = Idle
           /\ move' = [state |-> "Pending", seq |-> m.seq, baseline |-> m.baseline,
                       src |-> m.src, dst |-> m.dst, remainder |-> m.remainder,
                       applied |-> FALSE]
           /\ raw' = At("waitMove", m, {})
  /\ UNCHANGED <<hostVars, bulk, hasBase, baseReady, doneVars, pixelVars, ackVars, video, endVars>>

\* register_and_wait returns once the move is complete, or applied with a raw remainder.
PreludeReturns ==
  /\ raw.at = "waitMove"
  /\ \/ /\ NoMove \/ (Owns(raw.msg.seq) /\ move.applied /\ raw.msg.remainder = "Raw")
        /\ raw' = Reading
     \/ /\ move = FailedMove
        /\ RawFails("move rendezvous failed")
  /\ UNCHANGED <<hostVars, laneVars, syncVars, doneVars, pixelVars, ackVars, video, endVars>>

\* The loop top sees the stop flag.
RawStops ==
  /\ raw.at = "read" /\ stop
  /\ raw' = Ended
  /\ UNCHANGED <<hostVars, laneVars, video, syncVars, doneVars, pixelVars, ackVars, endVars>>

SparseReader ==
  RectsBegin \/ RectsBase \/ RectsPaint \/ RectsFinish \/ Prelude \/ PreludeReturns \/ RawStops

-----------------------------------------------------------------------------
(* The bulk reader.  It checks the stop flag only between batches of       *)
(* messages, so it may still take a message after another worker failed.   *)

VideoBegin ==
  /\ video.at = "read"
  /\ bulk # <<>> /\ Head(bulk).type = "video"
  /\ bulk' = Tail(bulk)
  /\ LET m == Head(bulk)
     IN \/ /\ m.kind = "Regional" /\ ~hasBase
           /\ VideoFails("update without recovery")
           /\ UNCHANGED <<pending, move>>
        \/ /\ m.kind = "Recovery" \/ hasBase
           /\ \/ /\ NoMove
                 /\ Register(m.seq, m.parts)
                 /\ video' = At("paint", m, {})
                 /\ UNCHANGED move
              \/ /\ EndsMove(m.seq, "Video")
                 /\ video' = At("paint", m, {move.dst})
                 /\ UNCHANGED <<pending, move>>
              \/ /\ Mismatch(m.seq, "Video")
                 /\ move' = FailedMove
                 /\ VideoFails("pixels do not match the pending move")
                 /\ UNCHANGED pending
  /\ UNCHANGED <<hostVars, sparse, hasBase, baseReady, failed, pixelVars, ackVars, raw, endVars>>

\* A tile that does not decode fails the update, or the move it ends.
VideoDecodeFails ==
  /\ ~orderly
  /\ video.at = "paint"
  /\ IF video.ends # {}
     THEN move' = FailedMove /\ UNCHANGED doneVars
     ELSE /\ pending' = Forget(video.msg.seq)
          /\ failed' = failed \cup {video.msg.seq}
          /\ UNCHANGED move
  /\ VideoFails("decode")
  /\ UNCHANGED <<hostVars, laneVars, hasBase, baseReady, pixelVars, ackVars, raw, endVars>>

VideoPaint ==
  /\ video.at = "paint"
  /\ Paint(video.msg.seq, video.msg.cover, video.ends)
  /\ video' = [video EXCEPT !.at = "finish"]
  /\ UNCHANGED <<hostVars, laneVars, raw, syncVars, doneVars, ackVars, endVars>>

\* The base is published before the update completes.
VideoFinish ==
  /\ video.at = "finish"
  /\ hasBase' = TRUE /\ baseReady' = TRUE
  /\ LET s == video.msg.seq
     IN \/ /\ video.ends # {} /\ Owns(s)
           /\ move' = Idle
           /\ EnqueueAck(s)
           /\ VideoContinues(TRUE)
           /\ UNCHANGED pending
        \/ /\ video.ends # {} /\ ~Owns(s)
           /\ move' = FailedMove
           /\ VideoFails("move rendezvous failed")
           /\ UNCHANGED <<pending, ackVars>>
        \/ /\ video.ends = {}
           /\ Complete(s, "VIDEO")
           /\ VideoContinues(CompletesMask(s, "VIDEO"))
           /\ UNCHANGED move
  /\ UNCHANGED <<hostVars, laneVars, failed, pixelVars, raw, endVars>>

\* on_move_fence: wait for the prelude of the same move.
FenceBegin ==
  /\ video.at = "read"
  /\ bulk # <<>> /\ Head(bulk).type = "fence"
  /\ bulk' = Tail(bulk)
  /\ IF hasBase
     THEN video' = At("fence", Head(bulk), {}) /\ UNCHANGED move
     ELSE move' = FailedMove /\ VideoFails("fence without recovery")
  /\ UNCHANGED <<hostVars, sparse, hasBase, baseReady, doneVars, pixelVars, ackVars, raw, endVars>>

FenceMeetsPrelude ==
  /\ video.at = "fence"
  /\ LET matches == Owns(video.msg.seq) /\ move.baseline = video.msg.baseline
     IN \/ /\ matches
           /\ video' = At("apply", move, {})
           /\ UNCHANGED move
        \/ /\ ~NoMove /\ ~matches
           /\ move' = FailedMove
           /\ VideoFails("fence does not match prelude")
  /\ UNCHANGED <<hostVars, laneVars, hasBase, baseReady, doneVars, pixelVars, ackVars, raw, endVars>>

MaxFence == CHOOSE s \in {fences[b] : b \in Blocks} : \A b \in Blocks : fences[b] <= s

\* Copy on the named baseline, from the reader's own copy of the prelude.
FenceApply ==
  /\ video.at = "apply"
  /\ LET m == video.msg
     IN IF MaxFence = m.baseline
        THEN /\ canvas' = [canvas EXCEPT ![m.dst] = canvas[m.src]]
             /\ shown' = [shown EXCEPT ![m.dst] = m.seq]
             /\ fences' = IF m.remainder = "None" THEN Commit(m.seq, {m.dst}) ELSE fences
             /\ video' = [video EXCEPT !.at = "mark"]
             /\ UNCHANGED move
        ELSE /\ move' = FailedMove
             /\ VideoFails("baseline not displayed")
             /\ UNCHANGED pixelVars
  /\ UNCHANGED <<hostVars, laneVars, hasBase, baseReady, doneVars, ackVars, raw, endVars>>

\* Mutant: a move without remainder is applied but never completed.
BugFenceMark ==
  /\ video.at = "mark"
  /\ Owns(video.msg.seq)
  /\ move' = [move EXCEPT !.applied = TRUE]
  /\ video' = IF move.remainder = "Raw" THEN [video EXCEPT !.at = "waitRaw"] ELSE Reading
  /\ UNCHANGED <<ackVars, hostVars, laneVars, hasBase, baseReady, doneVars, pixelVars, raw, endVars>>

\* mark_applied, then complete, return or wait by the declared remainder.
FenceMark ==
  /\ video.at = "mark"
  /\ LET s == video.msg.seq
     IN \/ /\ Owns(s) /\ move.remainder = "None"
           /\ move' = IF CanAck THEN Idle ELSE FailedMove
           /\ EnqueueAck(s)
           /\ VideoContinues(TRUE)
        \/ /\ Owns(s) /\ move.remainder # "None"
           /\ move' = [move EXCEPT !.applied = TRUE]
           /\ video' = IF move.remainder = "Raw" THEN [video EXCEPT !.at = "waitRaw"]
                       ELSE Reading
           /\ UNCHANGED ackVars
        \/ /\ ~Owns(s)
           /\ move' = FailedMove
           /\ VideoFails("move rendezvous failed")
           /\ UNCHANGED ackVars
  /\ UNCHANGED <<hostVars, laneVars, hasBase, baseReady, doneVars, pixelVars, raw, endVars>>

\* wait_complete: the bulk reader waits out the raw remainder.
FenceReturns ==
  /\ video.at = "waitRaw"
  /\ \/ /\ NoMove
        /\ video' = Reading
        /\ UNCHANGED move
     \/ /\ ~NoMove /\ ~Owns(video.msg.seq)
        /\ move' = FailedMove
        /\ VideoFails(IF Pending THEN "move changed while bulk waited"
                      ELSE "move rendezvous failed")
  /\ UNCHANGED <<hostVars, laneVars, hasBase, baseReady, doneVars, pixelVars, ackVars, raw, endVars>>

VideoStops ==
  /\ video.at = "read" /\ stop
  /\ video' = Ended
  /\ UNCHANGED <<hostVars, laneVars, raw, syncVars, doneVars, pixelVars, ackVars, endVars>>

BulkReader ==
  \/ VideoBegin \/ VideoPaint \/ VideoFinish
  \/ FenceBegin \/ FenceMeetsPrelude \/ FenceApply \/ FenceMark \/ FenceReturns
  \/ VideoStops

-----------------------------------------------------------------------------
\* Mutant: the waits have no deadline.
BugWaitTimesOut == FALSE /\ UNCHANGED vars

(* Every rendezvous gives up after five seconds.                           *)
WaitTimesOut ==
  /\ ~orderly
  /\ \/ /\ raw.at = "waitMove" /\ Owns(raw.msg.seq)
        /\ move' = FailedMove
        /\ RawFails("timeout")
        /\ UNCHANGED video
     \/ /\ raw.at = "base" /\ ~baseReady /\ ~stop
        /\ RawFails("timeout")
        /\ UNCHANGED <<move, video>>
     \/ /\ (video.at = "fence" /\ NoMove) \/ (video.at = "waitRaw" /\ Owns(video.msg.seq))
        /\ move' = FailedMove
        /\ VideoFails("timeout")
        /\ UNCHANGED raw
  /\ UNCHANGED <<hostVars, laneVars, hasBase, baseReady, doneVars, pixelVars, ackVars, endVars>>

\* run_ack_writer writes one ACK; the host's feedback reader releases the permit.
AckWriter ==
  /\ ackQueue # <<>> /\ ~stop
  /\ ackQueue' = Tail(ackQueue)
  /\ unacked' = unacked \ {Head(ackQueue)}
  /\ UNCHANGED <<orderly, desktop, updates, laneVars, video, raw, syncVars, doneVars, pixelVars,
                 sent, endVars>>

Next ==
  \/ Host
  \/ SparseReader
  \/ BulkReader
  \/ VideoDecodeFails
  \/ WorkerClaims
  \/ WaitTimesOut
  \/ AckWriter

Spec == Init /\ [][Next]_vars

(* The readers and the ACK writer are threads that run whenever they can,  *)
(* and a rendezvous deadline passes.  Nothing obliges the host to schedule *)
(* or a decoder to fail.                                                   *)
Fairness ==
  /\ WF_vars(SparseReader)
  /\ WF_vars(BulkReader)
  /\ WF_vars(WorkerClaims)
  /\ WF_vars(AckWriter)
  /\ WF_vars(WaitTimesOut)

FairSpec == Spec /\ Fairness

-----------------------------------------------------------------------------
Content == (0..MaxSeq) \X Blocks
Sequence == 1..MaxSeq

TypeOK ==
  /\ desktop \in Seq([Blocks -> Content]) /\ Last <= MaxSeq
  /\ updates \in Seq([video : SUBSET Blocks, raw : SUBSET Blocks, copy : SUBSET Blocks])
  /\ Len(updates) = Last
  /\ unacked \subseteq Sequence
  /\ video.at \in {"read", "paint", "finish", "fence", "apply", "mark", "waitRaw",
                  "failing", "ended"}
  /\ raw.at \in {"read", "base", "paint", "finish", "waitMove", "failing", "ended"}
  /\ {orderly, hasBase, baseReady, stop} \subseteq BOOLEAN
  /\ move.state \in {"Idle", "Pending", "Failed"}
  /\ DOMAIN pending \subseteq Sequence /\ \A s \in DOMAIN pending : pending[s] \subseteq Parts
  /\ failed \subseteq Sequence
  /\ fences \in [Blocks -> 0..MaxSeq]
  /\ canvas \in [Blocks -> Content]
  /\ shown \in [Blocks -> 0..MaxSeq]
  /\ ackQueue \in Seq(Sequence) /\ sent \subseteq Sequence

(* Every block shows what the host's desktop had there at one frame, and   *)
(* one at least as new as its fence claims: no move copies from a          *)
(* half-updated source, and no fence hides pixels that were never drawn,   *)
(* in whatever order the two lanes deliver.                                *)
CanvasIsReal ==
  \A b \in Blocks :
    /\ shown[b] > 0 => canvas[b] = desktop[shown[b]][b]
    /\ fences[b] <= shown[b]

(* A block never goes back to an older frame, although a raw update may    *)
(* overtake the video update scheduled before it.                          *)
NoRollback == [][\A b \in Blocks : shown'[b] >= shown[b]]_shown

(* An update is acknowledged only when every block it changes shows it or  *)
(* something newer: both legs of a mixed update, and a move's remainder as *)
(* well as its copy.                                                       *)
AckMeansShown == \A s \in sent : \A b \in Touched(s) : shown[b] >= s

(* The host refuses an ACK for a sequence it does not hold and drops the   *)
(* viewer: what is queued is owed, once.                                   *)
AcksAreOwed ==
  /\ \A i \in DOMAIN ackQueue : ackQueue[i] \in unacked
  /\ \A i, j \in DOMAIN ackQueue : ackQueue[i] = ackQueue[j] => i = j

(* An update one of whose legs failed is never acknowledged by the other.  *)
FailedNeverAcked == failed \cap sent = {}

(* A full ACK queue ends the session, so the permits must keep it from     *)
(* filling up.                                                             *)
AckQueueSuffices == failure # "acknowledgement queue full"

(* In a well-formed state, what is acknowledged is shown, owed, not failed *)
(* and acknowledged once, and the queue has room for it.                   *)
AcksInv ==
  /\ TypeOK
  /\ AckMeansShown
  /\ AcksAreOwed
  /\ FailedNeverAcked
  /\ AckQueueSuffices

(* When both lanes are drained and nothing failed, no pixel and no ACK is  *)
(* missing: the canvas is the host's desktop.                              *)
Quiescent ==
  /\ ~stop /\ bulk = <<>> /\ sparse = <<>> /\ ackQueue = <<>>
  /\ video.at = "read" /\ raw.at = "read"
QuiescentIsCurrent ==
  Quiescent => unacked = {} /\ pending = [s \in {} |-> Parts]
               /\ (Last > 0 => canvas = desktop[Last])

(* A legal stream never ends the session, provided the host holds its      *)
(* moves back.                                                             *)
LegalStreamSurvives == orderly => failure = "none"

(* Then every scheduled update is acknowledged.                            *)
Acknowledged == orderly => \A s \in Sequence : (s \in unacked) ~> (s \notin unacked)

(* Once a worker fails, both readers leave: neither stays parked in a      *)
(* rendezvous the other abandoned.                                         *)
ReadersLeave == stop ~> (video.at = "ended" /\ raw.at = "ended")
=============================================================================

------------------------- MODULE NativeVisualProofs -------------------------
(***************************************************************************)
(* Theorems about NativeVisual.                                            *)
(*                                                                         *)
(* Two readers work on one canvas in lock sections that interleave, and    *)
(* nothing orders one lane against the other.  The invariant follows every *)
(* leg of every update: it is on its lane, in its reader's hands, or done, *)
(* and what is done is on screen.  A leg may be drawn late, under newer    *)
(* pixels; a move may not, so for it the invariant says what the meeting   *)
(* of the readers establishes: the canvas shows the move's baseline and    *)
(* nothing newer.                                                          *)
(***************************************************************************)
EXTENDS NativeVisual, FiniteSetTheorems, SequenceTheorems, TLAPS

-----------------------------------------------------------------------------
(* Names for what the invariant speaks of.                                 *)

\* The host's frame s; before the first one nothing has content.
Frame(s) == IF s = 0 THEN [b \in Blocks |-> None(b)] ELSE desktop[s]

\* The pixel legs of update s, and what completes it if it is a move.
PartsOf(s) == (IF updates[s].video = {} THEN {} ELSE {"VIDEO"})
                \cup (IF updates[s].raw = {} THEN {} ELSE {"RAW"})
RemOf(s) == IF updates[s].video # {} THEN "Video"
            ELSE IF updates[s].raw # {} THEN "Raw" ELSE "None"

Drawing == [video : SUBSET Blocks, raw : SUBSET Blocks, copy : SUBSET Blocks]
VideoMessage == [type : {"video"}, seq : Nat, kind : {"Recovery", "Regional"},
                 parts : SUBSET Parts, cover : SUBSET Blocks]
FenceMessage == [type : {"fence"}, baseline : Nat, seq : Nat]
RectsMessage == [type : {"rects"}, seq : Nat, parts : SUBSET Parts, cover : SUBSET Blocks]
PreludeMessage == [type : {"prelude"}, baseline : Nat, seq : Nat, src : Blocks, dst : Blocks,
                   remainder : Remainder]
MoveRecord == [state : {"Pending"}, seq : Nat, baseline : Nat, src : Blocks, dst : Blocks,
               remainder : Remainder, applied : BOOLEAN]

\* A message says what the host did in its update.
VideoLeg(m) ==
  /\ m.seq \in 1..Last /\ m.parts = PartsOf(m.seq)
  /\ m.cover = updates[m.seq].video /\ m.cover # {}
RawLeg(m) ==
  /\ m.seq \in 1..Last /\ m.parts = PartsOf(m.seq)
  /\ m.cover = updates[m.seq].raw /\ m.cover # {}
FenceLeg(m) == m.seq \in 1..Last /\ updates[m.seq].copy # {}
MoveLeg(m) ==
  /\ m.seq \in 1..Last /\ m.src \in Blocks /\ m.dst \in Blocks
  /\ updates[m.seq].copy = {m.dst}
  /\ m.remainder = RemOf(m.seq)
  /\ desktop[m.seq][m.dst] = Frame(m.seq - 1)[m.src]

\* Where the readers are.
VideoPixels == video.at \in {"paint", "finish"}
VideoCopies == video.at \in {"fence", "apply", "mark"}
RawPixels == raw.at \in {"base", "paint", "finish"}
VideoDead == video.at \in {"failing", "ended"}
RawDead == raw.at \in {"failing", "ended"}
Alive == ~VideoDead /\ ~RawDead

\* A leg of update s is still on its lane or in its reader's hands.  FenceDue and PreludeDue
\* are over once the two readers have met.
VideoDue(s) ==
  \/ \E i \in 1..Len(bulk) : bulk[i].type = "video" /\ bulk[i].seq = s
  \/ VideoPixels /\ video.msg.seq = s
RawDue(s) ==
  \/ \E i \in 1..Len(sparse) : sparse[i].type = "rects" /\ sparse[i].seq = s
  \/ RawPixels /\ raw.msg.seq = s
CopyDue(s) ==
  \/ \E i \in 1..Len(bulk) : bulk[i].type = "fence" /\ bulk[i].seq = s
  \/ VideoCopies /\ video.msg.seq = s
FenceDue(s) ==
  \/ \E i \in 1..Len(bulk) : bulk[i].type = "fence" /\ bulk[i].seq = s
  \/ video.at = "fence" /\ video.msg.seq = s
PreludeDue(s) ==
  \/ \E i \in 1..Len(sparse) : sparse[i].type = "prelude" /\ sparse[i].seq = s
  \/ raw.at = "waitMove" /\ raw.msg.seq = s

-----------------------------------------------------------------------------
(* The inductive invariant.                                                *)

HostTyped ==
  /\ desktop \in Seq([Blocks -> Content]) /\ Last <= MaxSeq
  /\ updates \in Seq(Drawing) /\ Len(updates) = Last
  /\ orderly \in BOOLEAN /\ hasBase \in BOOLEAN /\ baseReady \in BOOLEAN /\ stop \in BOOLEAN

PixelsTyped ==
  /\ fences \in [Blocks -> 0..MaxSeq]
  /\ canvas \in [Blocks -> Content]
  /\ shown \in [Blocks -> 0..MaxSeq]

\* The host's frames differ only in what its updates draw.
UpdatesReal ==
  /\ \A s \in 1..Last : Touched(s) # {}
  /\ \A s \in 1..Last : updates[s].copy # {} => (updates[s].video = {} \/ updates[s].raw = {})
  /\ \A b \in Blocks : \A s, t \in 0..Last :
       (s <= t /\ (\A u \in 1..Last : s < u /\ u <= t => b \notin Touched(u)))
         => Frame(t)[b] = Frame(s)[b]

\* What is on the lanes, in the readers' hands and in the rendezvous.
LanesTyped ==
  /\ bulk \in Seq(VideoMessage \cup FenceMessage)
  /\ \A i \in 1..Len(bulk) :
       /\ bulk[i].type = "video" => VideoLeg(bulk[i])
       /\ bulk[i].type = "fence" => FenceLeg(bulk[i])
  /\ sparse \in Seq(RectsMessage \cup PreludeMessage)
  /\ \A i \in 1..Len(sparse) :
       /\ sparse[i].type = "rects" => RawLeg(sparse[i])
       /\ sparse[i].type = "prelude" => MoveLeg(sparse[i])

VideoTyped ==
  /\ video = At(video.at, video.msg, video.ends)
  /\ video.at \in {"read", "paint", "finish", "fence", "apply", "mark", "waitRaw",
                   "failing", "ended"}
  /\ VideoPixels => VideoLeg(video.msg) /\ video.ends = updates[video.msg.seq].copy
  /\ video.at = "fence" => FenceLeg(video.msg)
  /\ video.at \in {"apply", "mark"} => MoveLeg(video.msg)

RawTyped ==
  /\ raw = At(raw.at, raw.msg, raw.ends)
  /\ raw.at \in {"read", "base", "paint", "finish", "waitMove", "failing", "ended"}
  /\ RawPixels => RawLeg(raw.msg) /\ raw.ends = updates[raw.msg.seq].copy
  /\ raw.at = "waitMove" => MoveLeg(raw.msg)

MoveTyped ==
  \/ move = Idle
  \/ move = FailedMove
  \/ move \in MoveRecord /\ MoveLeg(move)

\* Each lane carries its messages by sequence, a move's own message before its remainder;
\* what a reader has in hand comes before what is on its lane.
OrderInv ==
  /\ \A i, j \in 1..Len(bulk) : i < j =>
       \/ bulk[i].seq < bulk[j].seq
       \/ bulk[i].seq = bulk[j].seq /\ bulk[i].type = "fence" /\ bulk[j].type = "video"
  /\ \A i, j \in 1..Len(sparse) : i < j =>
       \/ sparse[i].seq < sparse[j].seq
       \/ sparse[i].seq = sparse[j].seq /\ sparse[i].type = "prelude" /\ sparse[j].type = "rects"

VideoOrder ==
  /\ VideoPixels => \A i \in 1..Len(bulk) : video.msg.seq < bulk[i].seq
  /\ VideoCopies => \A i \in 1..Len(bulk) :
       \/ video.msg.seq < bulk[i].seq
       \/ video.msg.seq = bulk[i].seq /\ bulk[i].type = "video"
  /\ video.at = "apply" => \A i \in 1..Len(sparse) : video.msg.seq <= sparse[i].seq

RawOrder ==
  /\ RawPixels => \A i \in 1..Len(sparse) : raw.msg.seq < sparse[i].seq
  /\ raw.at = "waitMove" => \A i \in 1..Len(sparse) :
       \/ raw.msg.seq < sparse[i].seq
       \/ raw.msg.seq = sparse[i].seq /\ sparse[i].type = "rects"
  /\ Pending => \A i \in 1..Len(sparse) :
       \/ move.seq < sparse[i].seq
       \/ move.seq = sparse[i].seq /\ sparse[i].type = "rects"

\* The rendezvous: a move that is not applied has the sparse reader parked, one that is has been
\* copied; the bulk reader applies a move only with the sparse reader parked for it, or gone.
MoveInv ==
  /\ Pending /\ ~move.applied => raw.at = "waitMove" /\ raw.msg.seq = move.seq
  /\ Pending /\ move.applied => ~FenceDue(move.seq) /\ shown[move.dst] >= move.seq
  /\ raw.at = "waitMove" =>
       \/ Owns(raw.msg.seq)
       \/ move = FailedMove
       \/ NoMove /\ RemOf(raw.msg.seq) # "Raw"

Met ==
  video.at \in {"apply", "mark"} =>
    \/ RawDead
    \/ /\ raw.at = "waitMove" /\ raw.msg.seq = video.msg.seq
       /\ move = FailedMove \/ (Owns(video.msg.seq) /\ ~move.applied)

\* A remainder is never taken for an update of its own: its move comes first and stays in the
\* rendezvous until the remainder is there.
Remainders ==
  \A s \in 1..Last : updates[s].copy # {} =>
    /\ VideoDue(s) => CopyDue(s) \/ (Owns(s) /\ move.applied) \/ move = FailedMove \/ VideoDead
    /\ RawDue(s) => PreludeDue(s) \/ (Owns(s) /\ move.applied) \/ move = FailedMove \/ RawDead

CanvasInv ==
  \A b \in Blocks :
    canvas[b] = Frame(shown[b])[b] /\ fences[b] <= shown[b] /\ shown[b] <= Last

\* Until the readers meet for a move nothing newer than its baseline is drawn.
Behind ==
  \A s \in 1..Last : FenceDue(s) /\ PreludeDue(s) => \A b \in Blocks : shown[b] < s

\* A block newer than its fence is the target of a move; all that is yet to be drawn is as new.
Ahead ==
  \A b \in Blocks : shown[b] = fences[b] \/
    \A s \in 1..Last : VideoDue(s) \/ RawDue(s) => shown[b] <= s

\* What a reader has drawn of the message in its hands; and when a move is copied, everything
\* before it is on screen and nothing after it.
VideoShown ==
  /\ VideoPixels => \A b \in video.ends : shown[b] >= video.msg.seq
  /\ video.at = "finish" => \A b \in video.msg.cover : shown[b] >= video.msg.seq
  /\ video.at = "apply" =>
       /\ \A b \in Blocks : shown[b] < video.msg.seq
       /\ \A t \in 1..Last : t < video.msg.seq => \A b \in Touched(t) : shown[b] >= t
  /\ video.at = "mark" => shown[video.msg.dst] >= video.msg.seq

RawShown ==
  /\ RawPixels => \A b \in raw.ends : shown[b] >= raw.msg.seq
  /\ raw.at = "finish" => \A b \in raw.msg.cover : shown[b] >= raw.msg.seq

\* LogicalCompletion: a part that is no longer pending is on screen, one still to come is pending.
Registered ==
  \A s \in DOMAIN pending :
       /\ s \in 1..Last /\ updates[s].copy = {}
       /\ pending[s] # {} /\ pending[s] \subseteq PartsOf(s)
       /\ "VIDEO" \notin pending[s] => \A b \in updates[s].video : shown[b] >= s
       /\ "RAW" \notin pending[s] => \A b \in updates[s].raw : shown[b] >= s
       /\ VideoDue(s) => "VIDEO" \in pending[s]
       /\ RawDue(s) => "RAW" \in pending[s]

\* The update a reader is drawing is registered, unless the other leg failed.
InHand ==
  /\ VideoPixels /\ video.ends = {} => video.msg.seq \in DOMAIN pending
  /\ RawPixels /\ raw.ends = {} => raw.msg.seq \in DOMAIN pending \cup failed

FailedInv ==
  /\ failed # {} => VideoDead
  /\ \A s \in failed : s \in 1..Last /\ updates[s].copy = {} /\ s \notin DOMAIN pending

\* Nothing of an update is left once its ACK is queued.
Unsent ==
  /\ \A s \in sent : ~VideoDue(s) /\ ~RawDue(s) /\ ~CopyDue(s)
                     /\ s \notin DOMAIN pending /\ s \notin failed
  /\ \A i \in 1..Len(sparse) : sparse[i].type = "prelude" => sparse[i].seq \notin sent
  /\ Pending => move.seq \notin sent

\* The ACK queue is what was sent of the permits still held, without repetition.
Queued == {ackQueue[i] : i \in 1..Len(ackQueue)}

AckInv ==
  /\ ackQueue \in Seq(Sequence)
  /\ \A i, j \in 1..Len(ackQueue) : ackQueue[i] = ackQueue[j] => i = j
  /\ unacked \subseteq 1..Last /\ sent \subseteq 1..Last
  /\ (1..Last) \ unacked \subseteq sent
  /\ Queued = sent \cap unacked
  /\ IsFiniteSet(unacked) /\ Cardinality(unacked) <= MAX_OUTSTANDING
  /\ Cardinality(Queued) = Len(ackQueue)

EndInv ==
  /\ failure # "acknowledgement queue full"
  /\ video.at = "failing" => video.msg.type # "acknowledgement queue full"
  /\ raw.at = "failing" => raw.msg.type # "acknowledgement queue full"
  /\ stop => ~Alive

\* While both readers run, every update not yet acknowledged has its missing legs on the way.
Left(s) == IF s \in DOMAIN pending THEN pending[s] ELSE PartsOf(s)

Owed ==
  Alive => \A s \in 1..Last : s \notin sent =>
    /\ "VIDEO" \in Left(s) => VideoDue(s)
    /\ "RAW" \in Left(s) => RawDue(s)
    /\ PartsOf(s) = {} => CopyDue(s)

IInv ==
  /\ HostTyped /\ PixelsTyped /\ UpdatesReal
  /\ LanesTyped /\ VideoTyped /\ RawTyped /\ MoveTyped
  /\ OrderInv /\ VideoOrder /\ RawOrder
  /\ MoveInv /\ Met /\ Remainders
  /\ CanvasInv /\ Behind /\ Ahead /\ VideoShown /\ RawShown
  /\ Registered /\ InHand /\ FailedInv /\ Unsent /\ AckMeansShown
  /\ AckInv /\ EndInv /\ Owed

-----------------------------------------------------------------------------
(* What a step can be.  Most branches of the actions end a reader; to the  *)
(* invariant these are one kind of step for each reader, and one more for  *)
(* a tile that does not decode.                                            *)

Full == "acknowledgement queue full"

\* A lane keeps its messages, or gives its first one away.
Shorter(new, old) == new = old \/ (old # <<>> /\ new = Tail(old))

RawDies ==
  /\ raw' = At(raw'.at, raw'.msg, raw'.ends) /\ raw'.at \in {"failing", "ended"}
  /\ raw'.msg.type # Full /\ failure' # Full
  /\ Shorter(sparse', sparse)
  /\ move' = move \/ move' = FailedMove
  /\ raw.at = "waitMove" => move' = FailedMove
  /\ stop' \in BOOLEAN
  /\ UNCHANGED <<hostVars, bulk, video, hasBase, baseReady, doneVars, pixelVars, ackVars>>

VideoDies ==
  /\ video' = At(video'.at, video'.msg, video'.ends) /\ video'.at \in {"failing", "ended"}
  /\ video'.msg.type # Full /\ failure' # Full
  /\ Shorter(bulk', bulk)
  /\ move' = move \/ move' = FailedMove
  /\ stop' \in BOOLEAN /\ hasBase' \in BOOLEAN /\ baseReady' \in BOOLEAN
  /\ UNCHANGED <<hostVars, sparse, raw, doneVars, pixelVars, ackVars>>

VideoSpoils ==
  /\ video.at = "paint" /\ video.ends = {}
  /\ video' = Failing("decode")
  /\ pending' = Forget(video.msg.seq) /\ failed' = failed \cup {video.msg.seq}
  /\ UNCHANGED <<hostVars, laneVars, raw, syncVars, pixelVars, ackVars, endVars>>

\* The first message of a lane, taken by its reader.
RectsFirst == raw.at = "read" /\ sparse # <<>> /\ sparse[1].type = "rects" /\ sparse' = Tail(sparse)
VideoFirst == video.at = "read" /\ bulk # <<>> /\ bulk[1].type = "video" /\ bulk' = Tail(bulk)

RectsRegister ==
  /\ RectsFirst /\ NoMove /\ sparse[1].seq \notin failed
  /\ Register(sparse[1].seq, sparse[1].parts)
  /\ \E at \in {"base", "paint"} : raw' = At(at, sparse[1], {})
  /\ UNCHANGED <<hostVars, bulk, video, syncVars, failed, pixelVars, ackVars, endVars>>
RectsEnd ==
  /\ RectsFirst /\ Owns(sparse[1].seq) /\ move.applied
  /\ raw' = At("paint", sparse[1], {move.dst})
  /\ UNCHANGED <<hostVars, bulk, video, syncVars, doneVars, pixelVars, ackVars, endVars>>
RectsHeld ==
  /\ raw.at = "base" /\ raw' = At("paint", raw.msg, raw.ends)
  /\ UNCHANGED <<hostVars, laneVars, video, syncVars, doneVars, pixelVars, ackVars, endVars>>
RectsDraw ==
  /\ raw.at = "paint" /\ raw' = At("finish", raw.msg, raw.ends)
  /\ Paint(raw.msg.seq, raw.msg.cover, raw.ends)
  /\ UNCHANGED <<hostVars, laneVars, video, syncVars, doneVars, ackVars, endVars>>
RectsEndMove ==
  /\ raw.at = "finish" /\ raw.ends # {} /\ Owns(raw.msg.seq)
  /\ move' = Idle /\ raw' = Reading
  /\ ackQueue' = Append(ackQueue, raw.msg.seq) /\ sent' = sent \cup {raw.msg.seq}
  /\ UNCHANGED <<hostVars, laneVars, video, hasBase, baseReady, doneVars, pixelVars, endVars>>
RectsComplete ==
  /\ raw.at = "finish" /\ raw.ends = {} /\ raw.msg.seq \notin failed /\ raw' = Reading
  /\ Complete(raw.msg.seq, "RAW")
  /\ UNCHANGED <<hostVars, laneVars, video, syncVars, failed, pixelVars, endVars>>
PreludeRegister ==
  /\ raw.at = "read" /\ sparse # <<>> /\ sparse[1].type = "prelude" /\ sparse' = Tail(sparse)
  /\ NoMove
  /\ move' = [state |-> "Pending", seq |-> sparse[1].seq, baseline |-> sparse[1].baseline,
              src |-> sparse[1].src, dst |-> sparse[1].dst, remainder |-> sparse[1].remainder,
              applied |-> FALSE]
  /\ raw' = At("waitMove", sparse[1], {})
  /\ UNCHANGED <<hostVars, bulk, video, hasBase, baseReady, doneVars, pixelVars, ackVars, endVars>>
RawReturns ==
  /\ raw.at = "waitMove" /\ raw' = Reading
  /\ NoMove \/ (Owns(raw.msg.seq) /\ move.applied)
  /\ UNCHANGED <<hostVars, laneVars, video, syncVars, doneVars, pixelVars, ackVars, endVars>>

VideoRegister ==
  /\ VideoFirst /\ NoMove
  /\ Register(bulk[1].seq, bulk[1].parts)
  /\ video' = At("paint", bulk[1], {})
  /\ UNCHANGED <<hostVars, sparse, raw, syncVars, failed, pixelVars, ackVars, endVars>>
VideoEnd ==
  /\ VideoFirst /\ Owns(bulk[1].seq) /\ move.applied
  /\ video' = At("paint", bulk[1], {move.dst})
  /\ UNCHANGED <<hostVars, sparse, raw, syncVars, doneVars, pixelVars, ackVars, endVars>>
VideoDraw ==
  /\ video.at = "paint" /\ video' = At("finish", video.msg, video.ends)
  /\ Paint(video.msg.seq, video.msg.cover, video.ends)
  /\ UNCHANGED <<hostVars, laneVars, raw, syncVars, doneVars, ackVars, endVars>>
VideoEndMove ==
  /\ video.at = "finish" /\ video.ends # {} /\ Owns(video.msg.seq)
  /\ move' = Idle /\ video' = Reading
  /\ ackQueue' = Append(ackQueue, video.msg.seq) /\ sent' = sent \cup {video.msg.seq}
  /\ hasBase' = TRUE /\ baseReady' = TRUE
  /\ UNCHANGED <<hostVars, laneVars, raw, doneVars, pixelVars, endVars>>
VideoComplete ==
  /\ video.at = "finish" /\ video.ends = {} /\ video' = Reading
  /\ Complete(video.msg.seq, "VIDEO")
  /\ hasBase' = TRUE /\ baseReady' = TRUE
  /\ UNCHANGED <<hostVars, laneVars, raw, move, failed, pixelVars, endVars>>
FenceTaken ==
  /\ video.at = "read" /\ bulk # <<>> /\ bulk[1].type = "fence" /\ bulk' = Tail(bulk)
  /\ video' = At("fence", bulk[1], {})
  /\ UNCHANGED <<hostVars, sparse, raw, syncVars, doneVars, pixelVars, ackVars, endVars>>
FenceMeets ==
  /\ video.at = "fence" /\ Owns(video.msg.seq)
  /\ video' = At("apply", move, {})
  /\ UNCHANGED <<hostVars, laneVars, raw, syncVars, doneVars, pixelVars, ackVars, endVars>>
FenceCopies ==
  /\ video.at = "apply" /\ video' = At("mark", video.msg, video.ends)
  /\ canvas' = [canvas EXCEPT ![video.msg.dst] = canvas[video.msg.src]]
  /\ shown' = [shown EXCEPT ![video.msg.dst] = video.msg.seq]
  /\ fences' = fences \/ fences' = Commit(video.msg.seq, {video.msg.dst})
  /\ UNCHANGED <<hostVars, laneVars, raw, syncVars, doneVars, ackVars, endVars>>
MoveEnds ==
  /\ video.at = "mark" /\ Owns(video.msg.seq) /\ move.remainder = "None"
  /\ move' = Idle /\ video' = Reading
  /\ ackQueue' = Append(ackQueue, video.msg.seq) /\ sent' = sent \cup {video.msg.seq}
  /\ UNCHANGED <<hostVars, laneVars, raw, hasBase, baseReady, doneVars, pixelVars, endVars>>
MoveApplied ==
  /\ video.at = "mark" /\ Owns(video.msg.seq) /\ move.remainder # "None"
  /\ move' = [move EXCEPT !.applied = TRUE]
  /\ video' = Reading \/ video' = At("waitRaw", video.msg, video.ends)
  /\ UNCHANGED <<hostVars, laneVars, raw, hasBase, baseReady, doneVars, pixelVars, ackVars, endVars>>
VideoReturns ==
  /\ video.at = "waitRaw" /\ video' = Reading
  /\ UNCHANGED <<hostVars, laneVars, raw, syncVars, doneVars, pixelVars, ackVars, endVars>>

RawEvent ==
  \/ RectsRegister \/ RectsEnd \/ RectsHeld \/ RectsDraw \/ RectsEndMove \/ RectsComplete
  \/ PreludeRegister \/ RawReturns \/ RawDies
VideoEvent ==
  \/ VideoRegister \/ VideoEnd \/ VideoDraw \/ VideoEndMove \/ VideoComplete
  \/ FenceTaken \/ FenceMeets \/ FenceCopies \/ MoveEnds \/ MoveApplied \/ VideoReturns
  \/ VideoSpoils \/ VideoDies

\* A permit and a place in the queue for every update that is not yet acknowledged.
LEMMA Room ==
  ASSUME AckInv, NEW s \in 1..Last, s \notin sent PROVE CanAck
<1>1. s \in unacked
  BY DEF AckInv
<1>2. Queued \subseteq unacked \ {s}
  BY DEF AckInv
<1>3. IsFiniteSet(unacked \ {s}) /\ Cardinality(unacked \ {s}) = Cardinality(unacked) - 1
  BY <1>1, FS_RemoveElement DEF AckInv
<1>4. Cardinality(Queued) <= Cardinality(unacked \ {s})
  BY <1>2, <1>3, FS_Subset
<1>5. Cardinality(unacked) \in Nat /\ Cardinality(unacked) <= MAX_OUTSTANDING
  BY FS_CardinalityType DEF AckInv
<1>6. Len(ackQueue) = Cardinality(Queued) /\ Len(ackQueue) \in Nat
  BY DEF AckInv
<1>7. MAX_OUTSTANDING \in Nat /\ FRAME_ACK_QUEUE_CAPACITY \in Nat
        /\ FRAME_ACK_QUEUE_CAPACITY >= MAX_OUTSTANDING
  BY VisualAssumption
<1> QED
  BY <1>3, <1>4, <1>5, <1>6, <1>7 DEF CanAck

\* The head of a lane is its first message.
LEMMA FirstOf ==
  ASSUME NEW S, NEW q \in Seq(S), q # <<>>
  PROVE  Head(q) = q[1] /\ 1 \in 1..Len(q)
  OBVIOUS

\* Whatever the sparse reader does, its failure claims included, is one of its events: an
\* acknowledgement always finds room, so the queue being full never ends it.
LEMMA RawSteps ==
  ASSUME IInv, SparseReader \/ (WorkerClaims /\ UNCHANGED video)
  PROVE  RawEvent
<1> USE DEF RawEvent
<1>0. /\ sparse \in Seq(RectsMessage \cup PreludeMessage)
      /\ raw = At(raw.at, raw.msg, raw.ends)
      /\ failure # Full /\ stop \in BOOLEAN /\ hasBase \in BOOLEAN /\ baseReady \in BOOLEAN
      /\ raw.at = "failing" => raw.msg.type # Full
  BY DEF IInv, LanesTyped, RawTyped, EndInv, HostTyped, Full
<1>00. sparse # <<>> => Head(sparse) = sparse[1]
  BY <1>0, FirstOf
<1>k. \A r : r # Full /\ raw' = Failing(r) =>
         /\ raw' = At(raw'.at, raw'.msg, raw'.ends) /\ raw'.at \in {"failing", "ended"}
         /\ raw'.msg.type # Full
  BY DEF Failing, At
<1>e. raw' = Ended =>
         /\ raw' = At(raw'.at, raw'.msg, raw'.ends) /\ raw'.at \in {"failing", "ended"}
         /\ raw'.msg.type # Full
  <2>1. Ended.at = "ended" /\ Ended.ends = {} /\ Ended.msg.type = "none"
    BY DEF Ended, At, NoMsg
  <2>2. Ended = At(Ended.at, Ended.msg, Ended.ends)
    BY DEF Ended, At
  <2>3. "none" # Full
    BY DEF Full
  <2> QED
    BY <2>1, <2>2, <2>3
<1>1. CASE RectsBegin
  <2>1. CASE NoMove /\ Head(sparse).seq \notin failed
    BY <1>1, <2>1, <1>00 DEF RectsBegin, RectsRegister, RectsFirst, NoMove, EndsMove, Mismatch, Owns, Pending, Idle, syncVars
  <2>2. CASE NoMove /\ Head(sparse).seq \in failed
    <3>1. RawFails("update already failed") /\ UNCHANGED <<pending, move>> /\ Shorter(sparse', sparse)
      BY <1>1, <2>2, <1>00 DEF RectsBegin, NoMove, EndsMove, Mismatch, Owns, Pending, Idle, Shorter
    <3> QED
      BY <1>1, <3>1, <1>k, <1>0 DEF RectsBegin, RawDies, RawFails, Full, doneVars, endVars
  <2>3. CASE EndsMove(Head(sparse).seq, "Raw")
    <3>1. Owns(Head(sparse).seq) /\ move.applied /\ ~NoMove
      BY <2>3 DEF EndsMove, NoMove, Idle, Owns, Pending
    <3>2. raw' = At("paint", Head(sparse), {move.dst}) /\ pending' = pending /\ move' = move
      BY <1>1, <2>3, <3>1 DEF RectsBegin, Mismatch
    <3>3. RectsFirst
      BY <1>1, <1>00 DEF RectsBegin, RectsFirst
    <3>4. UNCHANGED <<hostVars, bulk, video, syncVars, doneVars, pixelVars, ackVars, endVars>>
      BY <1>1, <3>2 DEF RectsBegin, syncVars, doneVars
    <3> QED
      BY <3>1, <3>2, <3>3, <3>4, <1>00 DEF RectsEnd, RectsFirst
  <2>4. CASE Mismatch(Head(sparse).seq, "Raw")
    <3>1. RawFails("pixels do not match the pending move") /\ UNCHANGED pending /\ Shorter(sparse', sparse)
            /\ move' = FailedMove
      BY <1>1, <2>4, <1>00 DEF RectsBegin, NoMove, EndsMove, Mismatch, Owns, Pending, Idle, Shorter
    <3> QED
      BY <1>1, <3>1, <1>k, <1>0 DEF RectsBegin, RawDies, RawFails, Full, doneVars, endVars
  <2> QED
    BY <2>1, <2>2, <2>3, <2>4 DEF Mismatch
<1>2. CASE RectsBase
  <2>1. CASE raw' = Ended
    BY <1>2, <2>1, <1>e, <1>0 DEF RectsBase, RawDies, Shorter, laneVars, syncVars, endVars
  <2>2. CASE raw' = [raw EXCEPT !.at = "paint"]
    <3>1. raw' = At("paint", raw.msg, raw.ends)
      BY <2>2, <1>0 DEF At
    <3> QED
      BY <1>2, <3>1 DEF RectsBase, RectsHeld
  <2> QED
    BY <1>2, <2>1, <2>2 DEF RectsBase
<1>3. CASE RectsPaint
  <2>1. raw' = At("finish", raw.msg, raw.ends)
    BY <1>3, <1>0 DEF At, RectsPaint
  <2> QED
    BY <1>3, <2>1 DEF RectsPaint, RectsDraw
<1>4. CASE RectsFinish
  <2>0. raw.msg.seq \in 1..Last /\ raw.msg.seq \notin sent
    BY <1>4 DEF IInv, RectsFinish, RawTyped, Unsent, RawPixels, RawLeg, RawDue
  <2>a. CanAck
    BY <2>0, Room DEF IInv
  <2>1. CASE raw.ends # {} /\ Owns(raw.msg.seq)
    BY <1>4, <2>a, <2>1 DEF RectsFinish, RectsEndMove, EnqueueAck, RawContinues, doneVars
  <2>2. CASE raw.ends # {} /\ ~Owns(raw.msg.seq)
    BY <1>4, <2>2, <1>k, <1>0 DEF RectsFinish, RawDies, RawFails, Full, Shorter, laneVars, doneVars, ackVars, endVars
  <2>3. CASE raw.ends = {} /\ raw.msg.seq \in failed
    BY <1>4, <2>3, <1>k, <1>0 DEF RectsFinish, RawDies, RawFails, Full, Shorter, laneVars, doneVars, ackVars, endVars
  <2>4. CASE raw.ends = {} /\ raw.msg.seq \notin failed
    BY <1>4, <2>a, <2>4 DEF RectsFinish, RectsComplete, RawContinues, syncVars
  <2> QED
    BY <2>1, <2>2, <2>3, <2>4
<1>5. CASE Prelude
  <2>1. CASE ~baseReady
    <3>1. RawFails("prelude without recovery") /\ UNCHANGED move /\ Shorter(sparse', sparse)
      BY <1>5, <2>1 DEF Prelude, Shorter
    <3> QED
      BY <1>5, <3>1, <1>k, <1>0 DEF Prelude, RawDies, RawFails, Full, endVars
  <2>2. CASE baseReady /\ move # Idle
    <3>1. RawFails("overlapping moves") /\ move' = FailedMove /\ Shorter(sparse', sparse)
      BY <1>5, <2>2 DEF Prelude, Shorter
    <3> QED
      BY <1>5, <3>1, <1>k, <1>0 DEF Prelude, RawDies, RawFails, Full, endVars
  <2>3. CASE baseReady /\ move = Idle
    BY <1>5, <2>3, <1>00 DEF Prelude, PreludeRegister, NoMove
  <2> QED
    BY <2>1, <2>2, <2>3, <1>0
<1>6. CASE PreludeReturns
  <2>1. CASE raw' = Reading
    BY <1>6, <2>1 DEF PreludeReturns, RawReturns, RawFails, Failing, Reading, At
  <2>2. CASE RawFails("move rendezvous failed")
    <3>1. move = FailedMove
      BY <1>6, <2>2 DEF PreludeReturns, RawFails, Failing, Reading, At
    <3> QED
      BY <1>6, <2>2, <3>1, <1>k, <1>0 DEF PreludeReturns, RawDies, RawFails, Full, Shorter, laneVars, syncVars, endVars
  <2> QED
    BY <1>6, <2>1, <2>2 DEF PreludeReturns
<1>7. CASE RawStops
  BY <1>7, <1>e, <1>0 DEF RawStops, RawDies, Shorter, laneVars, syncVars, endVars
<1>8. CASE WorkerClaims /\ UNCHANGED video
  <2>1. raw' = Ended /\ Claim(raw.msg.type) /\ raw.at = "failing"
    BY <1>8, <1>0 DEF WorkerClaims, Ended, Failing, At
  <2>2. stop' = TRUE /\ failure' # Full
    BY <2>1, <1>0 DEF Claim
  <2> QED
    BY <1>8, <2>1, <2>2, <1>e, <1>0 DEF WorkerClaims, RawDies, Shorter, laneVars, syncVars
<1> QED
  BY <1>1, <1>2, <1>3, <1>4, <1>5, <1>6, <1>7, <1>8 DEF SparseReader

\* Likewise for the bulk reader.
LEMMA VideoSteps ==
  ASSUME IInv, BulkReader \/ VideoDecodeFails \/ (WorkerClaims /\ UNCHANGED raw)
  PROVE  VideoEvent
<1> USE DEF VideoEvent
<1>0. /\ bulk \in Seq(VideoMessage \cup FenceMessage)
      /\ video = At(video.at, video.msg, video.ends)
      /\ failure # Full /\ stop \in BOOLEAN /\ hasBase \in BOOLEAN /\ baseReady \in BOOLEAN
      /\ video.at = "failing" => video.msg.type # Full
  BY DEF IInv, LanesTyped, VideoTyped, EndInv, HostTyped, Full
<1>00. bulk # <<>> => Head(bulk) = bulk[1]
  BY <1>0, FirstOf
<1>k. \A r : r # Full /\ video' = Failing(r) =>
         /\ video' = At(video'.at, video'.msg, video'.ends) /\ video'.at \in {"failing", "ended"}
         /\ video'.msg.type # Full
  BY DEF Failing, At
<1>e. video' = Ended =>
         /\ video' = At(video'.at, video'.msg, video'.ends) /\ video'.at \in {"failing", "ended"}
         /\ video'.msg.type # Full
  <2>1. Ended.at = "ended" /\ Ended.ends = {} /\ Ended.msg.type = "none"
    BY DEF Ended, At, NoMsg
  <2>2. Ended = At(Ended.at, Ended.msg, Ended.ends)
    BY DEF Ended, At
  <2>3. "none" # Full
    BY DEF Full
  <2> QED
    BY <2>1, <2>2, <2>3
<1>1. CASE VideoBegin
  <2>0. Shorter(bulk', bulk) /\ (bulk # <<>> /\ bulk[1].type = "video" /\ bulk' = Tail(bulk) /\ video.at = "read")
    BY <1>1, <1>00 DEF VideoBegin, Shorter
  <2>1. CASE Head(bulk).kind = "Regional" /\ ~hasBase /\ VideoFails("update without recovery") /\ UNCHANGED <<pending, move>>
    BY <1>1, <2>0, <2>1, <1>k, <1>0 DEF VideoBegin, VideoDies, VideoFails, Full, doneVars, endVars
  <2>2. CASE NoMove /\ Register(Head(bulk).seq, Head(bulk).parts) /\ video' = At("paint", Head(bulk), {}) /\ UNCHANGED move
    BY <1>1, <2>0, <2>2, <1>00 DEF VideoBegin, VideoRegister, VideoFirst, syncVars
  <2>3. CASE EndsMove(Head(bulk).seq, "Video") /\ video' = At("paint", Head(bulk), {move.dst}) /\ UNCHANGED <<pending, move>>
    <3>1. UNCHANGED <<hostVars, sparse, raw, syncVars, doneVars, pixelVars, ackVars, endVars>>
      BY <1>1, <2>3 DEF VideoBegin, syncVars, doneVars
    <3> QED
      BY <2>0, <2>3, <3>1, <1>00 DEF VideoEnd, VideoFirst, EndsMove
  <2>4. CASE move' = FailedMove /\ VideoFails("pixels do not match the pending move") /\ UNCHANGED pending
    BY <1>1, <2>0, <2>4, <1>k, <1>0 DEF VideoBegin, VideoDies, VideoFails, Full, doneVars, endVars
  <2> QED
    BY <1>1, <2>1, <2>2, <2>3, <2>4 DEF VideoBegin
<1>2. CASE VideoDecodeFails
  <2>1. CASE video.ends # {}
    BY <1>2, <2>1, <1>k, <1>0 DEF VideoDecodeFails, VideoDies, VideoFails, Full, Shorter, laneVars, doneVars, endVars
  <2>2. CASE video.ends = {}
    BY <1>2, <2>2 DEF VideoDecodeFails, VideoSpoils, VideoFails, syncVars
  <2> QED
    BY <2>1, <2>2
<1>3. CASE VideoPaint
  <2>1. video' = At("finish", video.msg, video.ends)
    BY <1>3, <1>0 DEF At, VideoPaint
  <2> QED
    BY <1>3, <2>1 DEF VideoPaint, VideoDraw
<1>4. CASE VideoFinish
  <2>0. video.msg.seq \in 1..Last /\ video.msg.seq \notin sent
    BY <1>4 DEF IInv, VideoFinish, VideoTyped, Unsent, VideoPixels, VideoLeg, VideoDue
  <2>a. CanAck
    BY <2>0, Room DEF IInv
  <2>1. CASE video.ends # {} /\ Owns(video.msg.seq)
    BY <1>4, <2>a, <2>1 DEF VideoFinish, VideoEndMove, EnqueueAck, VideoContinues, doneVars
  <2>2. CASE video.ends # {} /\ ~Owns(video.msg.seq)
    <3>1. move' = FailedMove /\ VideoFails("move rendezvous failed") /\ UNCHANGED <<pending, ackVars>>
      BY <1>4, <2>2 DEF VideoFinish
    <3> QED
      BY <1>4, <3>1, <1>k, <1>0 DEF VideoFinish, VideoDies, VideoFails, Full, Shorter, laneVars, doneVars, ackVars, endVars
  <2>4. CASE video.ends = {}
    BY <1>4, <2>a, <2>4 DEF VideoFinish, VideoComplete, VideoContinues
  <2> QED
    BY <2>1, <2>2, <2>4
<1>5. CASE FenceBegin
  <2>1. CASE hasBase
    BY <1>5, <2>1, <1>00 DEF FenceBegin, FenceTaken, syncVars
  <2>2. CASE ~hasBase
    BY <1>5, <2>2, <1>k, <1>0 DEF FenceBegin, VideoDies, VideoFails, Full, Shorter, endVars
  <2> QED
    BY <2>1, <2>2
<1>6. CASE FenceMeetsPrelude
  <2>1. CASE Owns(video.msg.seq) /\ video' = At("apply", move, {}) /\ UNCHANGED move
    BY <1>6, <2>1 DEF FenceMeetsPrelude, FenceMeets, syncVars
  <2>2. CASE move' = FailedMove /\ VideoFails("fence does not match prelude")
    BY <1>6, <2>2, <1>k, <1>0 DEF FenceMeetsPrelude, VideoDies, VideoFails, Full, Shorter, laneVars, endVars
  <2> QED
    BY <1>6, <2>1, <2>2 DEF FenceMeetsPrelude
<1>7. CASE FenceApply
  <2>1. CASE MaxFence = video.msg.baseline
    <3>1. video' = At("mark", video.msg, video.ends)
      BY <1>7, <2>1, <1>0 DEF FenceApply, At
    <3> QED
      BY <1>7, <2>1, <3>1 DEF FenceApply, FenceCopies, syncVars
  <2>2. CASE MaxFence # video.msg.baseline
    BY <1>7, <2>2, <1>k, <1>0 DEF FenceApply, VideoDies, VideoFails, Full, Shorter, laneVars, pixelVars, endVars
  <2> QED
    BY <2>1, <2>2
<1>8. CASE FenceMark
  <2>0. video.msg.seq \in 1..Last /\ video.msg.seq \notin sent
    BY <1>8 DEF IInv, FenceMark, VideoTyped, Unsent, VideoCopies, MoveLeg, CopyDue
  <2>a. CanAck
    BY <2>0, Room DEF IInv
  <2>1. CASE Owns(video.msg.seq) /\ move.remainder = "None"
    BY <1>8, <2>a, <2>1 DEF FenceMark, MoveEnds, EnqueueAck, VideoContinues
  <2>2. CASE Owns(video.msg.seq) /\ move.remainder # "None"
    <3>1. video' = Reading \/ video' = At("waitRaw", video.msg, video.ends)
      BY <1>8, <2>2, <1>0 DEF FenceMark, At
    <3> QED
      BY <1>8, <2>2, <3>1 DEF FenceMark, MoveApplied
  <2>3. CASE ~Owns(video.msg.seq)
    BY <1>8, <2>3, <1>k, <1>0 DEF FenceMark, VideoDies, VideoFails, Full, Shorter, laneVars, ackVars, endVars
  <2> QED
    BY <2>1, <2>2, <2>3
<1>9. CASE FenceReturns
  <2>1. CASE video' = Reading /\ UNCHANGED move
    BY <1>9, <2>1 DEF FenceReturns, VideoReturns, syncVars
  <2>2. CASE move' = FailedMove /\ \E r \in {"move changed while bulk waited", "move rendezvous failed"} : VideoFails(r)
    <3>1. PICK r \in {"move changed while bulk waited", "move rendezvous failed"} : VideoFails(r)
      BY <2>2
    <3>2. r # Full
      BY <3>1 DEF Full
    <3> QED
      BY <1>9, <2>2, <3>1, <3>2, <1>k, <1>0 DEF FenceReturns, VideoDies, VideoFails, Full, Shorter, laneVars, endVars
  <2> QED
    BY <1>9, <2>1, <2>2 DEF FenceReturns
<1>10. CASE VideoStops
  BY <1>10, <1>e, <1>0 DEF VideoStops, VideoDies, Shorter, laneVars, syncVars, endVars
<1>11. CASE WorkerClaims /\ UNCHANGED raw
  <2>1. video' = Ended /\ Claim(video.msg.type) /\ video.at = "failing"
    BY <1>11, <1>0 DEF WorkerClaims, Ended, Failing, At
  <2>2. stop' = TRUE /\ failure' # Full
    BY <2>1, <1>0 DEF Claim
  <2> QED
    BY <1>11, <2>1, <2>2, <1>e, <1>0 DEF WorkerClaims, VideoDies, Shorter, laneVars, syncVars
<1> QED
  BY <1>1, <1>2, <1>3, <1>4, <1>5, <1>6, <1>7, <1>8, <1>9, <1>10, <1>11 DEF BulkReader

\* Every step is the host's, an event of one of the readers, or an acknowledgement.
LEMMA Steps ==
  ASSUME IInv, [Next]_vars
  PROVE  Host \/ RawEvent \/ VideoEvent \/ AckWriter \/ UNCHANGED vars
<1>0. failure # Full /\ stop \in BOOLEAN /\ hasBase \in BOOLEAN /\ baseReady \in BOOLEAN
  BY DEF IInv, EndInv, HostTyped, Full
<1>1. CASE WorkerClaims
  <2>1. CASE UNCHANGED video
    BY <1>1, <2>1, RawSteps
  <2>2. CASE UNCHANGED raw
    BY <1>1, <2>2, VideoSteps
  <2> QED
    BY <1>1, <2>1, <2>2 DEF WorkerClaims
<1>2. CASE WaitTimesOut
  <2>0. "timeout" # Full
    BY DEF Full
  <2>1. CASE RawFails("timeout") /\ (move' = move \/ move' = FailedMove) /\ UNCHANGED video
    <3>1. /\ raw' = At(raw'.at, raw'.msg, raw'.ends) /\ raw'.at \in {"failing", "ended"}
          /\ raw'.msg.type # Full
      BY <2>0, <2>1 DEF RawFails, Failing, At
    <3> QED
      BY <1>2, <2>1, <3>1, <1>0 DEF WaitTimesOut, RawEvent, RawDies, Shorter, laneVars, endVars
  <2>2. CASE VideoFails("timeout") /\ move' = FailedMove /\ UNCHANGED raw
    <3>1. /\ video' = At(video'.at, video'.msg, video'.ends) /\ video'.at \in {"failing", "ended"}
          /\ video'.msg.type # Full
      BY <2>0, <2>2 DEF VideoFails, Failing, At
    <3> QED
      BY <1>2, <2>2, <3>1, <1>0 DEF WaitTimesOut, VideoEvent, VideoDies, Shorter, laneVars, endVars
  <2> QED
    BY <1>2, <2>1, <2>2 DEF WaitTimesOut
<1> QED
  BY <1>1, <1>2, RawSteps, VideoSteps DEF Next

-----------------------------------------------------------------------------
(* Lanes.                                                                  *)

\* What is left of a lane when its first message is taken.
LEMMA TailOf ==
  ASSUME NEW S, NEW q \in Seq(S), q # <<>>
  PROVE  /\ Tail(q) \in Seq(S) /\ Len(Tail(q)) = Len(q) - 1
         /\ 1 \in 1..Len(q)
         /\ \A i \in 1..Len(Tail(q)) : Tail(q)[i] = q[i + 1] /\ i + 1 \in 1..Len(q) /\ 1 < i + 1
  OBVIOUS

\* Every message left on a lane was there before, and in the same order.
LEMMA LeftOf ==
  ASSUME NEW S, NEW old \in Seq(S), NEW new, Shorter(new, old)
  PROVE  /\ new \in Seq(S)
         /\ \A i \in 1..Len(new) : \E k \in 1..Len(old) : new[i] = old[k]
         /\ \A i, j \in 1..Len(new) : i < j =>
              \E k, l \in 1..Len(old) : k < l /\ new[i] = old[k] /\ new[j] = old[l]
<1>1. CASE new = old
  BY <1>1
<1>2. CASE old # <<>> /\ new = Tail(old)
  <2>1. \A i \in 1..Len(new) : new[i] = old[i + 1] /\ i + 1 \in 1..Len(old)
    BY <1>2, TailOf
  <2>2. new \in Seq(S) /\ Len(new) \in Nat
    BY <1>2, TailOf
  <2>3. ASSUME NEW i \in 1..Len(new), NEW j \in 1..Len(new), i < j
        PROVE  \E k, l \in 1..Len(old) : k < l /\ new[i] = old[k] /\ new[j] = old[l]
    <3>1. i + 1 < j + 1
      BY <2>2, <2>3
    <3> QED
      BY <2>1, <3>1
  <2> QED
    BY <2>1, <2>2, <2>3
<1> QED
  BY <1>1, <1>2 DEF Shorter

-----------------------------------------------------------------------------
(* What a step leaves alone keeps its part of the invariant.               *)

Frozen == desktop' = desktop /\ updates' = updates
Lanes == Shorter(bulk', bulk) /\ Shorter(sparse', sparse)

\* The lanes after a step, message by message.
LEMMA LanesAfter ==
  ASSUME LanesTyped, Lanes
  PROVE  /\ bulk' \in Seq(VideoMessage \cup FenceMessage)
         /\ sparse' \in Seq(RectsMessage \cup PreludeMessage)
         /\ \A i \in 1..Len(bulk') : \E k \in 1..Len(bulk) : bulk'[i] = bulk[k]
         /\ \A i \in 1..Len(sparse') : \E k \in 1..Len(sparse) : sparse'[i] = sparse[k]
  BY LeftOf DEF LanesTyped, Lanes

\* A step that schedules nothing keeps what is said of the host.
LEMMA HostKept ==
  ASSUME HostTyped, UpdatesReal, Frozen, orderly' = orderly,
         hasBase' \in BOOLEAN, baseReady' \in BOOLEAN, stop' \in BOOLEAN
  PROVE  HostTyped' /\ UpdatesReal'
<1>1. HostTyped'
  BY DEF HostTyped, Frozen, Last
<1>2. Last' = Last /\ (\A s : Touched(s)' = Touched(s)) /\ (\A s : Frame(s)' = Frame(s))
  BY DEF Frozen, Touched, Frame, Last
<1>3. UpdatesReal'
  BY <1>2 DEF UpdatesReal, Frozen
<1> QED
  BY <1>1, <1>3

\* Lanes that only lose messages stay well formed.
LEMMA LanesKept ==
  ASSUME LanesTyped, Frozen, Lanes PROVE LanesTyped'
<1>1. \A m : (VideoLeg(m) => VideoLeg(m)') /\ (RawLeg(m) => RawLeg(m)')
             /\ (FenceLeg(m) => FenceLeg(m)') /\ (MoveLeg(m) => MoveLeg(m)')
  BY DEF Frozen, VideoLeg, RawLeg, FenceLeg, MoveLeg, PartsOf, RemOf, Frame, Last
<1> QED
  BY <1>1, LanesAfter DEF LanesTyped

\* What the bulk reader holds stays what the host sent.
LEMMA VideoTypedKept ==
  ASSUME VideoTyped, Frozen, video' = video PROVE VideoTyped'
  BY DEF VideoTyped, Frozen, VideoPixels, VideoLeg, FenceLeg, MoveLeg, PartsOf, RemOf, Frame, Last

\* Likewise for the sparse reader.
LEMMA RawTypedKept ==
  ASSUME RawTyped, Frozen, raw' = raw PROVE RawTyped'
  BY DEF RawTyped, Frozen, RawPixels, RawLeg, MoveLeg, PartsOf, RemOf, Frame, Last

\* Likewise for the rendezvous.
LEMMA MoveTypedKept ==
  ASSUME MoveTyped, Frozen, move' = move \/ move' = FailedMove \/ move' = Idle PROVE MoveTyped'
  BY DEF MoveTyped, Frozen, MoveLeg, RemOf, Frame, Last

\* Lanes that only lose messages stay in order.
LEMMA OrderKept ==
  ASSUME LanesTyped, OrderInv, Lanes PROVE OrderInv'
<1>1. ASSUME NEW i \in 1..Len(bulk'), NEW j \in 1..Len(bulk'), i < j
      PROVE  \/ bulk'[i].seq < bulk'[j].seq
             \/ bulk'[i].seq = bulk'[j].seq /\ bulk'[i].type = "fence" /\ bulk'[j].type = "video"
  <2>1. PICK k, l \in 1..Len(bulk) : k < l /\ bulk'[i] = bulk[k] /\ bulk'[j] = bulk[l]
    BY <1>1, LeftOf DEF LanesTyped, Lanes
  <2> QED
    BY <2>1 DEF OrderInv
<1>2. ASSUME NEW i \in 1..Len(sparse'), NEW j \in 1..Len(sparse'), i < j
      PROVE  \/ sparse'[i].seq < sparse'[j].seq
             \/ sparse'[i].seq = sparse'[j].seq /\ sparse'[i].type = "prelude" /\ sparse'[j].type = "rects"
  <2>1. PICK k, l \in 1..Len(sparse) : k < l /\ sparse'[i] = sparse[k] /\ sparse'[j] = sparse[l]
    BY <1>2, LeftOf DEF LanesTyped, Lanes
  <2> QED
    BY <2>1 DEF OrderInv
<1> QED
  BY <1>1, <1>2 DEF OrderInv

\* The readers hold what they held, or less.
VideoHolds ==
  /\ VideoPixels' => VideoPixels /\ video'.msg = video.msg
  /\ VideoCopies' => VideoCopies /\ video'.msg.seq = video.msg.seq
  /\ video'.at = "fence" => video.at = "fence"
RawHolds ==
  /\ RawPixels' => RawPixels /\ raw'.msg = raw.msg
  /\ raw'.at = "waitMove" => raw.at = "waitMove" /\ raw'.msg = raw.msg

\* Or a reader took the first message of its lane.
VideoTakes ==
  /\ bulk # <<>> /\ bulk' = Tail(bulk) /\ video'.msg = bulk[1]
  /\ bulk[1].type = "video" => video'.at = "paint"
  /\ bulk[1].type # "video" => bulk[1].type = "fence" /\ video'.at = "fence"
RawTakes ==
  /\ sparse # <<>> /\ sparse' = Tail(sparse) /\ raw'.msg = sparse[1]
  /\ sparse[1].type = "rects" => raw'.at \in {"base", "paint"}
  /\ sparse[1].type # "rects" => sparse[1].type = "prelude" /\ raw'.at = "waitMove"

\* No leg comes back.
Fewer ==
  \A s : /\ VideoDue(s)' => VideoDue(s)
         /\ RawDue(s)' => RawDue(s)
         /\ CopyDue(s)' => CopyDue(s)
         /\ FenceDue(s)' => FenceDue(s)
         /\ PreludeDue(s)' => PreludeDue(s)

\* The bulk reader makes no leg due that was not.
LEMMA VideoFewer ==
  ASSUME LanesTyped, Shorter(bulk', bulk), VideoHolds \/ VideoTakes
  PROVE  \A s : /\ VideoDue(s)' => VideoDue(s)
                /\ CopyDue(s)' => CopyDue(s)
                /\ FenceDue(s)' => FenceDue(s)
<1>0. bulk # <<>> => 1 \in 1..Len(bulk)
  BY FirstOf DEF LanesTyped
<1>1. /\ \A i \in 1..Len(bulk') : \E k \in 1..Len(bulk) : bulk'[i] = bulk[k]
      /\ bulk # <<>> => 1 \in 1..Len(bulk)
  BY <1>0, LeftOf DEF LanesTyped
<1>2. CASE VideoHolds
  BY <1>1, <1>2 DEF VideoHolds, VideoDue, CopyDue, FenceDue, VideoPixels, VideoCopies
<1>3. CASE VideoTakes
  <2>1. CASE bulk[1].type = "video"
    <3>1. video'.at = "paint" /\ video'.msg = bulk[1] /\ 1 \in 1..Len(bulk)
      BY <1>1, <1>3, <2>1 DEF VideoTakes
    <3> QED
      BY <1>1, <2>1, <3>1 DEF VideoDue, CopyDue, FenceDue, VideoPixels, VideoCopies
  <2>2. CASE bulk[1].type # "video"
    <3>1. video'.at = "fence" /\ video'.msg = bulk[1] /\ 1 \in 1..Len(bulk) /\ bulk[1].type = "fence"
      BY <1>1, <1>3, <2>2 DEF VideoTakes
    <3> QED
      BY <1>1, <3>1 DEF VideoDue, CopyDue, FenceDue, VideoPixels, VideoCopies
  <2> QED
    BY <2>1, <2>2
<1> QED
  BY <1>2, <1>3

\* Nor does the sparse reader.
LEMMA RawFewer ==
  ASSUME LanesTyped, Shorter(sparse', sparse), RawHolds \/ RawTakes
  PROVE  \A s : /\ RawDue(s)' => RawDue(s)
                /\ PreludeDue(s)' => PreludeDue(s)
<1>1. /\ \A i \in 1..Len(sparse') : \E k \in 1..Len(sparse) : sparse'[i] = sparse[k]
      /\ sparse # <<>> => 1 \in 1..Len(sparse)
  BY LeftOf, FirstOf DEF LanesTyped
<1>2. CASE RawHolds
  BY <1>1, <1>2 DEF RawHolds, RawDue, PreludeDue, RawPixels
<1>3. CASE RawTakes
  <2>1. CASE sparse[1].type = "rects"
    <3>1. raw'.at \in {"base", "paint"} /\ raw'.msg = sparse[1] /\ 1 \in 1..Len(sparse)
      BY <1>1, <1>3, <2>1 DEF RawTakes
    <3> QED
      BY <1>1, <2>1, <3>1 DEF RawDue, PreludeDue, RawPixels
  <2>2. CASE sparse[1].type # "rects"
    <3>1. raw'.at = "waitMove" /\ raw'.msg = sparse[1] /\ 1 \in 1..Len(sparse) /\ sparse[1].type = "prelude"
      BY <1>1, <1>3, <2>2 DEF RawTakes
    <3> QED
      BY <1>1, <3>1 DEF RawDue, PreludeDue, RawPixels
  <2> QED
    BY <2>1, <2>2
<1> QED
  BY <1>2, <1>3

\* So no step of the readers does.
LEMMA FewerAfter ==
  ASSUME LanesTyped, Lanes, VideoHolds \/ VideoTakes, RawHolds \/ RawTakes
  PROVE  Fewer
  BY VideoFewer, RawFewer DEF Fewer, Lanes

\* What the bulk reader holds stays ahead of its lane.
LEMMA VideoOrderKept ==
  ASSUME LanesTyped, VideoOrder, Lanes, VideoHolds, video'.at = "apply" => video.at = "apply"
  PROVE  VideoOrder'
<1>1. /\ \A i \in 1..Len(bulk') : \E k \in 1..Len(bulk) : bulk'[i] = bulk[k]
      /\ \A i \in 1..Len(sparse') : \E k \in 1..Len(sparse) : sparse'[i] = sparse[k]
  BY LanesAfter
<1> QED
  BY <1>1 DEF VideoOrder, VideoHolds, VideoPixels, VideoCopies

\* Likewise for the sparse reader and the rendezvous.
LEMMA RawOrderKept ==
  ASSUME LanesTyped, RawOrder, Lanes, RawHolds, Pending' => Pending /\ move'.seq = move.seq
  PROVE  RawOrder'
<1>1. \A i \in 1..Len(sparse') : \E k \in 1..Len(sparse) : sparse'[i] = sparse[k]
  BY LanesAfter
<1> QED
  BY <1>1 DEF RawOrder, RawHolds, RawPixels

\* With nothing drawn and no leg added, Behind stays.
LEMMA BehindKept ==
  ASSUME Behind, Fewer, desktop' = desktop, shown' = shown PROVE Behind'
  BY DEF Behind, Fewer, Last

\* With nothing drawn and no leg added, Ahead stays.
LEMMA AheadKept ==
  ASSUME Ahead, Fewer, desktop' = desktop, shown' = shown, fences' = fences PROVE Ahead'
  BY DEF Ahead, Fewer, Last

\* With nothing drawn, the canvas stays real.
LEMMA CanvasKept ==
  ASSUME CanvasInv, Frozen, canvas' = canvas, shown' = shown, fences' = fences PROVE CanvasInv'
  BY DEF CanvasInv, Frozen, Frame, Last

\* No block goes back.
Grows == \A b \in Blocks : shown'[b] \in Nat /\ shown[b] \in Nat /\ shown'[b] >= shown[b]

\* With nothing drawn, no block goes back.
LEMMA Kept == ASSUME PixelsTyped, shown' = shown PROVE Grows
  BY VisualAssumption DEF Grows, PixelsTyped

\* Further than before, still further than a sequence already passed.
LEMMA Beyond == ASSUME NEW x \in Nat, NEW y \in Nat, NEW s \in Nat, x >= s, y >= x PROVE y >= s
  OBVIOUS

\* A block that shows an update or something newer still does.
LEMMA ShownKept ==
  ASSUME Grows, HostTyped, Frozen
  PROVE  /\ \A s \in 1..Last : \A b \in Touched(s) : b \in Blocks /\ (shown[b] >= s => shown'[b] >= s)
         /\ \A s \in 1..Last : Touched(s)' = Touched(s) /\ updates'[s] = updates[s]
         /\ \A s \in 1..Last : /\ updates[s].video \subseteq Touched(s) /\ updates[s].raw \subseteq Touched(s)
                               /\ updates[s].copy \subseteq Touched(s)
<1>1. ASSUME NEW s \in 1..Last
      PROVE  /\ updates[s].video \subseteq Touched(s) /\ updates[s].raw \subseteq Touched(s)
             /\ updates[s].copy \subseteq Touched(s) /\ Touched(s) \subseteq Blocks
  <2>1. updates[s] \in Drawing
    BY DEF HostTyped, Last
  <2> QED
    BY <2>1 DEF Drawing, Touched
<1>2. ASSUME NEW s \in 1..Last, NEW b \in Blocks, shown[b] >= s PROVE shown'[b] >= s
  <2>1. s \in Nat
    BY DEF HostTyped, Last
  <2> QED
    BY <1>2, <2>1, Beyond DEF Grows
<1> QED
  BY <1>1, <1>2 DEF Frozen, Touched

\* A table that is left alone stays true while no block goes back.
LEMMA RegisteredKept ==
  ASSUME Registered, HostTyped, Fewer, Frozen, Grows, pending' = pending PROVE Registered'
<1>1. ASSUME NEW s \in DOMAIN pending
      PROVE  /\ s \in 1..Last /\ updates[s].copy = {}
             /\ pending[s] # {} /\ pending[s] \subseteq PartsOf(s)
             /\ "VIDEO" \notin pending[s] => \A b \in updates[s].video : shown'[b] >= s
             /\ "RAW" \notin pending[s] => \A b \in updates[s].raw : shown'[b] >= s
             /\ VideoDue(s)' => "VIDEO" \in pending[s]
             /\ RawDue(s)' => "RAW" \in pending[s]
  BY ShownKept DEF Registered, Fewer
<1> QED
  BY <1>1 DEF Registered, Frozen, PartsOf, Last

\* Nothing becomes due of an update whose ACK is queued.
LEMMA UnsentKept ==
  ASSUME Unsent, LanesTyped, Fewer, Lanes, sent' = sent, failed' = failed,
         Pending' => Pending /\ move'.seq = move.seq,
         \A s \in DOMAIN pending' : s \in DOMAIN pending \/ s \notin sent
  PROVE  Unsent'
<1>1. \A i \in 1..Len(sparse') : \E k \in 1..Len(sparse) : sparse'[i] = sparse[k]
  BY LanesAfter
<1> QED
  BY <1>1 DEF Unsent, Fewer

\* An update whose ACK is queued stays on screen.
LEMMA AckMeansKept ==
  ASSUME AckMeansShown, AckInv, HostTyped, Frozen, Grows, sent' = sent PROVE AckMeansShown'
<1>1. sent \subseteq 1..Last
  BY DEF AckInv
<1> QED
  BY <1>1, ShownKept DEF AckMeansShown

\* The ACK queue, left alone.
LEMMA AckKept ==
  ASSUME AckInv, ackQueue' = ackQueue, sent' = sent, unacked' = unacked, desktop' = desktop
  PROVE  AckInv'
  BY DEF AckInv, Queued, Last

\* A reader that ends leaves no full queue behind, and the stop flag still means that one
\* ended.
LEMMA EndKept ==
  ASSUME EndInv, failure' = failure, stop' = stop, VideoDead => VideoDead', RawDead => RawDead',
         video'.at = "failing" => video' = video, raw'.at = "failing" => raw' = raw
  PROVE  EndInv'
  BY DEF EndInv, Alive

\* The rendezvous, left alone or failed.
LEMMA MoveInvKept ==
  ASSUME MoveInv, MoveTyped, HostTyped, Fewer, Grows, Frozen, move' = move \/ move' = FailedMove,
         raw'.at = "waitMove" => raw' = raw,
         Pending' /\ ~move.applied /\ raw.at = "waitMove" => raw' = raw
  PROVE  MoveInv'
<1>1. ASSUME Pending' PROVE move' = move /\ Pending /\ move.seq \in 1..Last /\ move.dst \in Blocks
  BY <1>1 DEF Pending, FailedMove, Idle, MoveTyped, MoveLeg
<1>2. ASSUME Pending', move.applied
      PROVE  shown'[move.dst] >= move.seq /\ \A s : s = move.seq => ~FenceDue(s)'
  <2>1. move.seq \in Nat /\ shown[move.dst] >= move.seq /\ ~FenceDue(move.seq)
    BY <1>1, <1>2 DEF MoveInv, HostTyped, Last
  <2> QED
    BY <1>1, <1>2, <2>1, Beyond DEF Grows, Fewer
<1>3. ASSUME Pending', move'.applied PROVE shown'[move'.dst] >= move'.seq /\ ~FenceDue(move.seq)'
  <2>1. move' = move
    BY <1>1, <1>3
  <2> HIDE DEF FenceDue
  <2>2. shown'[move.dst] >= move.seq /\ \A s : s = move.seq => ~FenceDue(s)'
    BY <1>2, <1>3, <2>1
  <2>3. \A s : s = move' .seq => ~FenceDue(s)'
    BY <2>1, <2>2
  <2> QED
    BY <2>1, <2>2, <2>3 DEF FenceDue
<1>4. ASSUME raw'.at = "waitMove"
      PROVE  Owns(raw.msg.seq)' \/ move' = FailedMove \/ (NoMove' /\ RemOf(raw.msg.seq)' # "Raw")
  <2>1. raw' = raw
    BY <1>4
  <2>2. Owns(raw.msg.seq) \/ move = FailedMove \/ (NoMove /\ RemOf(raw.msg.seq) # "Raw")
    BY <1>4, <2>1 DEF MoveInv
  <2>3. CASE move' = move
    BY <2>1, <2>2, <2>3 DEF Owns, Pending, NoMove, RemOf, Frozen
  <2> QED
    BY <2>3
<1>5. ASSUME Pending', ~move'.applied PROVE raw'.at = "waitMove" /\ raw'.msg.seq = move'.seq
  BY <1>1, <1>5 DEF MoveInv
<1> QED
  BY <1>3, <1>4, <1>5 DEF MoveInv

\* The readers' meeting, when neither moves on.
LEMMA MetKept ==
  ASSUME Met, video'.at \in {"apply", "mark"} => video.at \in {"apply", "mark"} /\ video'.msg = video.msg,
         RawDead => RawDead', raw.at = "waitMove" => raw' = raw \/ RawDead',
         move' = move \/ move' = FailedMove
  PROVE  Met'
  BY DEF Met, Owns, Pending

\* A remainder still has its move ahead of it.
LEMMA RemaindersKept ==
  ASSUME Remainders, Fewer, Frozen, move' = move \/ move' = FailedMove,
         VideoDead => VideoDead', RawDead => RawDead',
         \A s \in 1..Last : /\ CopyDue(s) /\ VideoDue(s)' => CopyDue(s)' \/ VideoDead'
                            /\ PreludeDue(s) /\ RawDue(s)' => PreludeDue(s)' \/ RawDead'
  PROVE  Remainders'
<1>1. \A s : Owns(s) /\ move' = move => Owns(s)'
  BY DEF Owns, Pending
<1> QED
  BY <1>1 DEF Remainders, Fewer, Frozen, Last

\* The update in a reader's hands stays registered.
LEMMA InHandKept ==
  ASSUME InHand, pending' = pending, failed' = failed,
         VideoPixels' => VideoPixels /\ video'.msg = video.msg /\ video'.ends = video.ends,
         RawPixels' => RawPixels /\ raw'.msg = raw.msg /\ raw'.ends = raw.ends
  PROVE  InHand'
  BY DEF InHand

\* The failed updates, left alone.
LEMMA FailedKept ==
  ASSUME FailedInv, failed' = failed, pending' = pending, Frozen, VideoDead => VideoDead'
  PROVE  FailedInv'
  BY DEF FailedInv, Frozen, Last

\* What the bulk reader has drawn stays drawn.
LEMMA VideoShownKept ==
  ASSUME VideoShown, VideoTyped, HostTyped, Frozen, Grows, video' = video,
         video.at = "apply" => shown' = shown
  PROVE  VideoShown'
<1>1. ASSUME VideoPixels
      PROVE  /\ video.msg.seq \in Nat /\ video.msg.cover \subseteq Blocks /\ video.ends \subseteq Blocks
  <2>1. video.msg.seq \in 1..Last /\ video.msg.cover = updates[video.msg.seq].video
          /\ video.ends = updates[video.msg.seq].copy
    BY <1>1 DEF VideoTyped, VideoLeg
  <2>2. updates[video.msg.seq] \in Drawing
    BY <2>1 DEF HostTyped, Last
  <2> QED
    BY <2>1, <2>2 DEF HostTyped, Last, Drawing
<1>2. ASSUME video.at = "mark" PROVE video.msg.seq \in Nat /\ video.msg.dst \in Blocks
  BY <1>2 DEF VideoTyped, MoveLeg, HostTyped, Last
<1>3. ASSUME VideoPixels, NEW b \in video.ends PROVE shown'[b] >= video.msg.seq
  BY <1>1, <1>3, Beyond DEF VideoShown, Grows
<1>4. ASSUME video.at = "finish", NEW b \in video.msg.cover PROVE shown'[b] >= video.msg.seq
  BY <1>1, <1>4, Beyond DEF VideoShown, Grows, VideoPixels
<1>5. ASSUME video.at = "mark" PROVE shown'[video.msg.dst] >= video.msg.seq
  BY <1>2, <1>5, Beyond DEF VideoShown, Grows
<1>6. ASSUME video.at = "apply"
      PROVE  /\ \A b \in Blocks : shown'[b] < video.msg.seq
             /\ \A t \in 1..Last' : t < video.msg.seq => \A b \in Touched(t)' : shown'[b] >= t
  BY <1>6 DEF VideoShown, Frozen, Last, Touched
<1> QED
  BY <1>3, <1>4, <1>5, <1>6 DEF VideoShown, VideoPixels

\* Likewise for the sparse reader.
LEMMA RawShownKept ==
  ASSUME RawShown, RawTyped, HostTyped, Grows,
         RawPixels' => RawPixels /\ raw'.msg = raw.msg /\ raw'.ends = raw.ends,
         raw'.at = "finish" => raw.at = "finish"
  PROVE  RawShown'
<1>1. ASSUME RawPixels
      PROVE  /\ raw.msg.seq \in Nat /\ raw.msg.cover \subseteq Blocks /\ raw.ends \subseteq Blocks
  <2>1. raw.msg.seq \in 1..Last /\ raw.msg.cover = updates[raw.msg.seq].raw
          /\ raw.ends = updates[raw.msg.seq].copy
    BY <1>1 DEF RawTyped, RawLeg
  <2>2. updates[raw.msg.seq] \in Drawing
    BY <2>1 DEF HostTyped, Last
  <2> QED
    BY <2>1, <2>2 DEF HostTyped, Last, Drawing
<1>3. ASSUME RawPixels, NEW b \in raw.ends PROVE shown'[b] >= raw.msg.seq
  BY <1>1, <1>3, Beyond DEF RawShown, Grows
<1>4. ASSUME raw.at = "finish", NEW b \in raw.msg.cover PROVE shown'[b] >= raw.msg.seq
  BY <1>1, <1>4, Beyond DEF RawShown, Grows, RawPixels
<1> QED
  BY <1>3, <1>4 DEF RawShown, RawPixels

\* While both readers run, no missing leg gets lost.
LEMMA OwedKept ==
  ASSUME Owed, Frozen, pending' = pending, sent' = sent, Alive' => Alive,
         Alive' => \A s \in 1..Last : /\ VideoDue(s) => VideoDue(s)'
                                      /\ RawDue(s) => RawDue(s)'
                                      /\ CopyDue(s) => CopyDue(s)' \/ PartsOf(s) # {}
  PROVE  Owed'
  BY DEF Owed, Frozen, Left, PartsOf, Last

-----------------------------------------------------------------------------
(* The sides a step of one reader leaves alone.                            *)

RawOnly ==
  /\ Frozen /\ orderly' = orderly /\ hasBase' = hasBase /\ baseReady' = baseReady /\ stop' \in BOOLEAN
  /\ Lanes /\ bulk' = bulk /\ video' = video /\ unacked' = unacked
  /\ RawHolds \/ RawTakes

VideoOnly ==
  /\ Frozen /\ orderly' = orderly /\ hasBase' \in BOOLEAN /\ baseReady' \in BOOLEAN /\ stop' \in BOOLEAN
  /\ Lanes /\ sparse' = sparse /\ raw' = raw /\ unacked' = unacked
  /\ VideoHolds \/ VideoTakes

\* What a step of the sparse reader leaves alone: the host, the lanes' order and the bulk
\* reader.
LEMMA RawSide ==
  ASSUME IInv, RawOnly
  PROVE  /\ Fewer /\ HostTyped' /\ UpdatesReal' /\ LanesTyped' /\ VideoTyped' /\ OrderInv' /\ VideoOrder'
         /\ \A s : (VideoDue(s) => VideoDue(s)') /\ (CopyDue(s) => CopyDue(s)')
<1>0. VideoHolds
  BY DEF RawOnly, VideoHolds, VideoPixels, VideoCopies
<1>1. Fewer
  BY <1>0, FewerAfter DEF RawOnly, IInv
<1>2. HostTyped' /\ UpdatesReal'
  <2>1. HostTyped /\ UpdatesReal
    BY DEF IInv
  <2>2. Frozen /\ orderly' = orderly /\ hasBase' \in BOOLEAN /\ baseReady' \in BOOLEAN /\ stop' \in BOOLEAN
    BY <2>1 DEF RawOnly, HostTyped
  <2> QED
    BY <2>1, <2>2, HostKept
<1>3. LanesTyped' /\ OrderInv'
  BY LanesKept, OrderKept DEF IInv, RawOnly
<1>4. VideoTyped' /\ VideoOrder'
  BY <1>0, VideoTypedKept, VideoOrderKept DEF IInv, RawOnly
<1>5. \A s : (VideoDue(s) => VideoDue(s)') /\ (CopyDue(s) => CopyDue(s)')
  BY DEF RawOnly, VideoDue, CopyDue, VideoPixels, VideoCopies
<1> QED
  BY <1>1, <1>2, <1>3, <1>4, <1>5

\* What a step of the bulk reader leaves alone, its own place apart.
LEMMA VideoSide ==
  ASSUME IInv, VideoOnly
  PROVE  /\ Fewer /\ HostTyped' /\ UpdatesReal' /\ LanesTyped' /\ RawTyped' /\ OrderInv'
         /\ \A s : (RawDue(s) => RawDue(s)') /\ (PreludeDue(s) => PreludeDue(s)')
<1>0. RawHolds
  BY DEF VideoOnly, RawHolds, RawPixels
<1>1. Fewer
  BY <1>0, FewerAfter DEF VideoOnly, IInv
<1>2. HostTyped' /\ UpdatesReal'
  BY HostKept DEF VideoOnly, IInv
<1>3. LanesTyped' /\ OrderInv'
  BY LanesKept, OrderKept DEF IInv, VideoOnly
<1>4. RawTyped'
  BY RawTypedKept DEF IInv, VideoOnly
<1>5. \A s : (RawDue(s) => RawDue(s)') /\ (PreludeDue(s) => PreludeDue(s)')
  BY DEF VideoOnly, RawDue, PreludeDue, RawPixels
<1> QED
  BY <1>1, <1>2, <1>3, <1>4, <1>5

-----------------------------------------------------------------------------
(* Pixels.                                                                 *)

\* The canvas part of the invariant, when a step draws nothing.
LEMMA PixelsKept ==
  ASSUME IInv, Fewer, Frozen, UNCHANGED pixelVars
  PROVE  PixelsTyped' /\ CanvasInv' /\ Behind' /\ Ahead' /\ Grows
<1>0. shown' = shown /\ canvas' = canvas /\ fences' = fences /\ desktop' = desktop
  BY DEF pixelVars, Frozen
<1>1. PixelsTyped'
  BY <1>0 DEF PixelsTyped, IInv
<1>2. CanvasInv'
  BY <1>0, CanvasKept DEF IInv
<1>3. Behind' /\ Ahead'
  BY <1>0, BehindKept, AheadKept DEF IInv
<1>4. Grows
  BY <1>0, Kept DEF IInv
<1> QED
  BY <1>1, <1>2, <1>3, <1>4

\* What is acknowledged, when a step sends no ACK.
LEMMA AcksKept ==
  ASSUME IInv, Fewer, Lanes, Frozen, Grows, UNCHANGED ackVars, unacked' = unacked, failed' = failed,
         Pending' => Pending /\ move'.seq = move.seq,
         \A s \in DOMAIN pending' : s \in DOMAIN pending \/ s \notin sent
  PROVE  Unsent' /\ AckMeansShown' /\ AckInv'
<1>0. sent' = sent /\ ackQueue' = ackQueue /\ desktop' = desktop
  BY DEF ackVars, Frozen
<1>1. Unsent'
  BY <1>0, UnsentKept DEF IInv
<1>2. AckMeansShown'
  BY <1>0, AckMeansKept DEF IInv
<1>3. AckInv'
  BY <1>0, AckKept DEF IInv
<1> QED
  BY <1>1, <1>2, <1>3

\* A pixel update drawn with the blocks of the move it ends.
LEMMA Painted ==
  ASSUME IInv, Frozen, NEW s \in 1..Last, NEW cover, NEW ends, Paint(s, cover, ends),
         cover \subseteq Blocks, ends \subseteq Blocks,
         \A b \in ends : shown[b] >= s,
         VideoDue(s) \/ RawDue(s)
  PROVE  /\ PixelsTyped' /\ CanvasInv' /\ Grows
         /\ \A b \in cover : shown'[b] >= s
         /\ \A b \in Blocks : shown'[b] = shown[b] \/ shown'[b] = s
         /\ \A b \in Blocks : shown'[b] # fences'[b] => shown'[b] = shown[b] /\ shown[b] # fences[b]
<1>1. /\ shown \in [Blocks -> 0..MaxSeq] /\ fences \in [Blocks -> 0..MaxSeq] /\ canvas \in [Blocks -> Content]
      /\ MaxSeq \in Nat /\ Last \in Nat /\ Last <= MaxSeq /\ s \in Nat /\ s \in 0..MaxSeq /\ s # 0
      /\ desktop[s] \in [Blocks -> Content]
  BY VisualAssumption DEF IInv, PixelsTyped, HostTyped, Last
<1>2. \A b \in Blocks : shown[b] \in Nat /\ fences[b] \in Nat /\ fences[b] <= shown[b] /\ shown[b] <= Last
  BY <1>1 DEF IInv, CanvasInv
<1>3. \A b \in Blocks : shown[b] # fences[b] => shown[b] <= s
  BY DEF IInv, Ahead
<1>4. /\ canvas' = [b \in Blocks |-> IF b \in Visible(s, cover) THEN desktop[s][b] ELSE canvas[b]]
      /\ shown' = [b \in Blocks |-> IF b \in Visible(s, cover) THEN s ELSE shown[b]]
      /\ \A b \in Blocks : fences'[b] = fences[b] \/ (fences'[b] = s /\ fences[b] < s /\ b \in cover \cup ends)
      /\ \A b \in Visible(s, cover) : fences'[b] = s
      /\ fences' \in [Blocks -> 0..MaxSeq]
  <2>1. CASE Visible(s, cover) = {}
    BY <1>1, <2>1 DEF Paint
  <2>2. CASE Visible(s, cover) # {}
    <3>1. fences' = [b \in Blocks |-> IF b \in cover \cup ends /\ fences[b] < s THEN s ELSE fences[b]]
      BY <2>2 DEF Paint, Commit
    <3> QED
      BY <1>1, <3>1 DEF Paint, Visible
  <2> QED
    BY <2>1, <2>2
<1>5. ASSUME NEW b \in Blocks
      PROVE  /\ shown'[b] \in Nat /\ shown'[b] >= shown[b] /\ shown'[b] <= Last
             /\ fences'[b] <= shown'[b]
             /\ canvas'[b] = Frame(shown'[b])[b]
             /\ b \in cover => shown'[b] >= s
             /\ shown'[b] = shown[b] \/ shown'[b] = s
             /\ shown'[b] # fences'[b] => shown'[b] = shown[b] /\ shown[b] # fences[b]
  <2>1. CASE b \in Visible(s, cover)
    <3>1. shown'[b] = s /\ fences'[b] = s /\ canvas'[b] = desktop[s][b] /\ fences[b] < s /\ Frame(s) = desktop[s]
      BY <1>1, <1>4, <2>1 DEF Visible, Frame
    <3>2. shown[b] <= s
      BY <1>2, <1>3, <3>1
    <3> QED
      BY <1>1, <1>2, <3>1, <3>2
  <2>2. CASE b \notin Visible(s, cover)
    <3>1. shown'[b] = shown[b] /\ canvas'[b] = canvas[b]
      BY <1>4, <2>2
    <3>2. b \in cover => shown[b] >= s
      <4>1. b \in cover => fences[b] >= s
        BY <1>1, <1>2, <2>2 DEF Visible
      <4> QED
        BY <1>1, <1>2, <4>1
    <3>3. fences'[b] <= shown[b]
      BY <1>1, <1>2, <1>4, <3>2
    <3>4. shown'[b] # fences'[b] => shown[b] # fences[b]
      BY <1>1, <1>2, <1>4, <3>1, <3>2, <3>3
    <3> QED
      BY <1>2, <3>1, <3>2, <3>3, <3>4 DEF IInv, CanvasInv
  <2> QED
    BY <2>1, <2>2
<1>6. PixelsTyped'
  <2>1. canvas' \in [Blocks -> Content] /\ shown' \in [Blocks -> 0..MaxSeq]
    BY <1>1, <1>4
  <2> QED
    BY <1>4, <2>1 DEF PixelsTyped
<1>7. CanvasInv'
  <2>1. \A t : Frame(t)' = Frame(t)
    BY DEF Frozen, Frame
  <2>2. Last' = Last
    BY DEF Frozen, Last
  <2> QED
    BY <1>5, <2>1, <2>2 DEF CanvasInv
<1>8. Grows
  BY <1>2, <1>5 DEF Grows
<1> QED
  BY <1>5, <1>6, <1>7, <1>8

\* A drawing step commits what it draws, or finds it stale.
LEMMA AheadDrawn ==
  ASSUME IInv, Fewer, Frozen,
         \A b \in Blocks : shown'[b] # fences'[b] => shown'[b] = shown[b] /\ shown[b] # fences[b]
  PROVE  Ahead'
  BY DEF IInv, Ahead, Fewer, Frozen, Last

\* A drawing step draws nothing newer than a move still to come.
LEMMA BehindDrawn ==
  ASSUME IInv, Fewer, Frozen, NEW s \in 1..Last,
         \A b \in Blocks : shown'[b] = shown[b] \/ shown'[b] = s,
         \A t \in 1..Last : FenceDue(t)' /\ PreludeDue(t)' => s < t
  PROVE  Behind'
<1>1. \A t \in 1..Last : FenceDue(t)' /\ PreludeDue(t)' => \A b \in Blocks : shown'[b] < t
  BY DEF IInv, Behind, Fewer
<1> QED
  BY <1>1 DEF Behind, Frozen, Last

-----------------------------------------------------------------------------
(* The sparse reader's steps.                                              *)

\* The sparse reader fails or ends: it only takes a message away, and whoever waits for it is
\* released by the failed rendezvous.
LEMMA RawDiesKeeps == ASSUME IInv, RawDies PROVE IInv'
<1>0. /\ Frozen /\ UNCHANGED <<pixelVars, ackVars>> /\ unacked' = unacked
      /\ pending' = pending /\ failed' = failed /\ video' = video /\ bulk' = bulk
      /\ RawDead' /\ ~RawPixels' /\ raw'.at # "waitMove" /\ shown' = shown /\ sent' = sent
      /\ move' = move \/ move' = FailedMove
  BY DEF RawDies, hostVars, doneVars, pixelVars, ackVars, RawDead, RawPixels, Frozen
<1>1. RawOnly
  BY <1>0 DEF RawDies, RawOnly, Lanes, Shorter, RawHolds, hostVars
<1>2. /\ Fewer /\ HostTyped' /\ UpdatesReal' /\ LanesTyped' /\ VideoTyped' /\ OrderInv' /\ VideoOrder'
      /\ \A s : (VideoDue(s) => VideoDue(s)') /\ (CopyDue(s) => CopyDue(s)')
  BY <1>1, RawSide
<1>3. PixelsTyped' /\ CanvasInv' /\ Behind' /\ Ahead' /\ Grows
  BY <1>0, <1>2, PixelsKept
<1>4. Pending' => Pending /\ move' = move
  BY <1>0 DEF Pending, FailedMove
<1>5. Unsent' /\ AckMeansShown' /\ AckInv'
  BY <1>0, <1>1, <1>2, <1>3, <1>4, AcksKept DEF RawOnly
<1>6. RawTyped'
  BY <1>0 DEF RawDies, RawTyped
<1>7. MoveTyped' /\ RawOrder'
  BY <1>0, <1>1, <1>4, MoveTypedKept, RawOrderKept DEF IInv, RawOnly, RawHolds
<1>8. MoveInv'
  <2>1. Pending' /\ ~move.applied /\ raw.at = "waitMove" => raw' = raw
    BY DEF RawDies, Pending, FailedMove
  <2> QED
    BY <1>0, <1>2, <1>3, <2>1, MoveInvKept DEF IInv
<1>9. Met'
  BY <1>0, MetKept DEF IInv
<1>10. Remainders'
  BY <1>0, <1>2, RemaindersKept DEF IInv, VideoDead
<1>11. VideoShown' /\ RawShown'
  BY <1>0, <1>3, VideoShownKept, RawShownKept DEF IInv, RawPixels
<1>12. Registered'
  BY <1>0, <1>2, <1>3, RegisteredKept DEF IInv
<1>13. InHand' /\ FailedInv'
  BY <1>0, InHandKept, FailedKept DEF IInv, VideoPixels, VideoDead
<1>14. EndInv' /\ Owed'
  BY <1>0 DEF RawDies, EndInv, Full, Alive, Owed, IInv
<1> QED
  BY <1>2, <1>3, <1>5, <1>6, <1>7, <1>8, <1>9, <1>10, <1>11, <1>12, <1>13, <1>14 DEF IInv

\* The base is ready, and the decoded rectangles held back for it go on.
LEMMA RectsHeldKeeps == ASSUME IInv, RectsHeld PROVE IInv'
<1>0. /\ Frozen /\ UNCHANGED <<pixelVars, ackVars>> /\ unacked' = unacked
      /\ pending' = pending /\ failed' = failed /\ video' = video /\ UNCHANGED laneVars
      /\ shown' = shown /\ sent' = sent /\ move' = move /\ failure' = failure /\ stop' = stop
  BY DEF RectsHeld, hostVars, doneVars, pixelVars, ackVars, syncVars, endVars, Frozen
<1>a. /\ raw.at = "base" /\ raw'.at = "paint" /\ raw'.msg = raw.msg /\ raw'.ends = raw.ends
      /\ RawPixels /\ RawPixels'
  BY DEF RectsHeld, At, RawPixels
<1>1. RawOnly
  BY <1>0, <1>a DEF RectsHeld, RawOnly, Lanes, Shorter, RawHolds, hostVars, laneVars, syncVars, endVars, IInv, HostTyped
<1>2. /\ Fewer /\ HostTyped' /\ UpdatesReal' /\ LanesTyped' /\ VideoTyped' /\ OrderInv' /\ VideoOrder'
      /\ \A s : (VideoDue(s) => VideoDue(s)') /\ (CopyDue(s) => CopyDue(s)')
  BY <1>1, RawSide
<1>3. PixelsTyped' /\ CanvasInv' /\ Behind' /\ Ahead' /\ Grows
  BY <1>0, <1>2, PixelsKept
<1>4. Pending' => Pending /\ move' = move
  BY <1>0 DEF Pending
<1>5. Unsent' /\ AckMeansShown' /\ AckInv'
  BY <1>0, <1>1, <1>2, <1>3, <1>4, AcksKept DEF RawOnly
<1>b. RawDead' = RawDead /\ VideoDead' = VideoDead
  BY <1>0, <1>a DEF RawDead, VideoDead
<1>6. RawTyped'
  BY <1>0, <1>a DEF RectsHeld, RawTyped, At, RawPixels, RawLeg, PartsOf, Frozen, Last, IInv
<1>7. MoveTyped' /\ RawOrder'
  BY <1>0, <1>1, <1>4, <1>a, MoveTypedKept, RawOrderKept DEF IInv, RawOnly, RawHolds
<1>8. MoveInv'
  BY <1>0, <1>2, <1>3, <1>a, MoveInvKept DEF IInv
<1>9. Met'
  BY <1>0, <1>a, <1>b, MetKept DEF IInv
<1>c. \A s : (RawDue(s) => RawDue(s)') /\ (PreludeDue(s) => PreludeDue(s)')
  BY <1>0, <1>a DEF RawDue, PreludeDue, laneVars
<1>10. Remainders'
  BY <1>0, <1>2, <1>b, <1>c, RemaindersKept DEF IInv
<1>11. VideoShown' /\ RawShown'
  BY <1>0, <1>3, <1>a, VideoShownKept, RawShownKept DEF IInv
<1>12. Registered'
  BY <1>0, <1>2, <1>3, RegisteredKept DEF IInv
<1>13. InHand' /\ FailedInv'
  BY <1>0, <1>a, <1>b, InHandKept, FailedKept DEF IInv, VideoPixels
<1>14. EndInv'
  BY <1>0, <1>a, <1>b, EndKept DEF IInv
<1>15. Owed'
  BY <1>0, <1>2, <1>b, <1>c, OwedKept DEF IInv, Alive
<1> QED
  BY <1>2, <1>3, <1>5, <1>6, <1>7, <1>8, <1>9, <1>10, <1>11, <1>12, <1>13, <1>14, <1>15 DEF IInv

\* What a due leg says of its update.
LEMMA DueMeans ==
  ASSUME LanesTyped, VideoTyped, RawTyped, NEW s
  PROVE  /\ VideoDue(s) => s \in 1..Last /\ updates[s].video # {}
         /\ RawDue(s) => s \in 1..Last /\ updates[s].raw # {}
         /\ CopyDue(s) => s \in 1..Last /\ updates[s].copy # {}
         /\ PreludeDue(s) => s \in 1..Last /\ updates[s].copy # {}
<1>1. VideoDue(s) => s \in 1..Last /\ updates[s].video # {}
  BY DEF LanesTyped, VideoTyped, VideoDue, VideoPixels, VideoLeg
<1>2. RawDue(s) => s \in 1..Last /\ updates[s].raw # {}
  BY DEF LanesTyped, RawTyped, RawDue, RawPixels, RawLeg
<1>3. CopyDue(s) => s \in 1..Last /\ updates[s].copy # {}
  BY DEF LanesTyped, VideoTyped, CopyDue, VideoCopies, FenceLeg, MoveLeg
<1>4. PreludeDue(s) => s \in 1..Last /\ updates[s].copy # {}
  BY DEF LanesTyped, RawTyped, PreludeDue, MoveLeg
<1> QED
  BY <1>1, <1>2, <1>3, <1>4

\* What was on a lane is there still, or in the hand that took it.
LEMMA StillThere ==
  ASSUME NEW S, NEW q \in Seq(S), q # <<>>
  PROVE  \A k \in 1..Len(q) : k = 1 \/ \E i \in 1..Len(Tail(q)) : Tail(q)[i] = q[k]
<1>1. ASSUME NEW k \in 1..Len(q), k # 1 PROVE \E i \in 1..Len(Tail(q)) : Tail(q)[i] = q[k]
  <2>1. k - 1 \in 1..Len(Tail(q)) /\ k - 1 + 1 = k
    BY <1>1, TailOf
  <2> QED
    BY <2>1, TailOf
<1> QED
  BY <1>1

\* What the sparse reader takes is in its hands, the rest is on the lane.
LEMMA RawTaken ==
  ASSUME LanesTyped, RawTakes, ~RawPixels, raw.at # "waitMove"
  PROVE  /\ Shorter(sparse', sparse)
         /\ \A s : (RawDue(s) => RawDue(s)') /\ (PreludeDue(s) => PreludeDue(s)')
         /\ 1 \in 1..Len(sparse)
         /\ \A i \in 1..Len(sparse') : \E k \in 1..Len(sparse) : 1 < k /\ sparse'[i] = sparse[k]
<1>0. sparse # <<>> /\ sparse' = Tail(sparse) /\ sparse \in Seq(RectsMessage \cup PreludeMessage)
  BY DEF RawTakes, LanesTyped
<1>1. \A k \in 1..Len(sparse) : k = 1 \/ \E i \in 1..Len(sparse') : sparse'[i] = sparse[k]
  BY <1>0, StillThere
<1>2. /\ 1 \in 1..Len(sparse)
      /\ \A i \in 1..Len(sparse') : \E k \in 1..Len(sparse) : 1 < k /\ sparse'[i] = sparse[k]
  BY <1>0, TailOf
<1>3. \A s : RawDue(s) => RawDue(s)'
  BY <1>1 DEF RawTakes, RawDue, RawPixels
<1>4. \A s : PreludeDue(s) => PreludeDue(s)'
  BY <1>1 DEF RawTakes, PreludeDue
<1> QED
  BY <1>0, <1>2, <1>3, <1>4 DEF Shorter

\* Likewise for the bulk reader.
LEMMA VideoTaken ==
  ASSUME LanesTyped, VideoTakes, ~VideoPixels, ~VideoCopies
  PROVE  /\ Shorter(bulk', bulk)
         /\ \A s : (VideoDue(s) => VideoDue(s)') /\ (CopyDue(s) => CopyDue(s)')
         /\ 1 \in 1..Len(bulk)
         /\ \A i \in 1..Len(bulk') : \E k \in 1..Len(bulk) : 1 < k /\ bulk'[i] = bulk[k]
<1>0. bulk # <<>> /\ bulk' = Tail(bulk) /\ bulk \in Seq(VideoMessage \cup FenceMessage)
  BY DEF VideoTakes, LanesTyped
<1>1. \A k \in 1..Len(bulk) : k = 1 \/ \E i \in 1..Len(bulk') : bulk'[i] = bulk[k]
  BY <1>0, StillThere
<1>2. /\ 1 \in 1..Len(bulk)
      /\ \A i \in 1..Len(bulk') : \E k \in 1..Len(bulk) : 1 < k /\ bulk'[i] = bulk[k]
  BY <1>0, TailOf
<1>3. \A s : VideoDue(s) => VideoDue(s)'
  BY <1>1 DEF VideoTakes, VideoDue, VideoPixels
<1>4. \A s : CopyDue(s) => CopyDue(s)'
  BY <1>1 DEF VideoTakes, CopyDue, VideoCopies
<1> QED
  BY <1>0, <1>2, <1>3, <1>4 DEF Shorter

\* Rectangles are drawn where no newer update committed.
LEMMA RectsDrawKeeps == ASSUME IInv, RectsDraw PROVE IInv'
<1>0. /\ Frozen /\ UNCHANGED ackVars /\ unacked' = unacked
      /\ pending' = pending /\ failed' = failed /\ video' = video /\ UNCHANGED laneVars
      /\ sent' = sent /\ move' = move /\ failure' = failure /\ stop' = stop
  BY DEF RectsDraw, hostVars, doneVars, ackVars, syncVars, endVars, Frozen
<1>a. /\ raw.at = "paint" /\ raw'.at = "finish" /\ raw'.msg = raw.msg /\ raw'.ends = raw.ends
      /\ RawPixels /\ RawPixels'
  BY DEF RectsDraw, At, RawPixels
<1>1. RawOnly
  BY <1>0, <1>a DEF RectsDraw, RawOnly, Lanes, Shorter, RawHolds, hostVars, laneVars, syncVars, endVars, IInv, HostTyped
<1>2. /\ Fewer /\ HostTyped' /\ UpdatesReal' /\ LanesTyped' /\ VideoTyped' /\ OrderInv' /\ VideoOrder'
      /\ \A s : (VideoDue(s) => VideoDue(s)') /\ (CopyDue(s) => CopyDue(s)')
  BY <1>1, RawSide
<1>d. /\ raw.msg.seq \in 1..Last /\ raw.msg.cover \subseteq Blocks /\ raw.ends \subseteq Blocks
      /\ RawDue(raw.msg.seq) /\ \A b \in raw.ends : shown[b] >= raw.msg.seq
  <2>1. raw.msg.seq \in 1..Last /\ raw.msg.cover = updates[raw.msg.seq].raw
          /\ raw.ends = updates[raw.msg.seq].copy
    BY <1>a DEF RawTyped, RawLeg, IInv
  <2>2. updates[raw.msg.seq] \in Drawing
    BY <2>1 DEF HostTyped, Last, IInv
  <2> QED
    BY <1>a, <2>1, <2>2 DEF Drawing, RawDue, RawShown, IInv
<1>e. /\ PixelsTyped' /\ CanvasInv' /\ Grows
      /\ \A b \in raw.msg.cover : shown'[b] >= raw.msg.seq
      /\ \A b \in Blocks : shown'[b] = shown[b] \/ shown'[b] = raw.msg.seq
      /\ \A b \in Blocks : shown'[b] # fences'[b] => shown'[b] = shown[b] /\ shown[b] # fences[b]
  BY <1>0, <1>d, Painted DEF RectsDraw
<1>3. Behind' /\ Ahead'
  <2>1. \A t \in 1..Last : FenceDue(t)' /\ PreludeDue(t)' => raw.msg.seq < t
    BY <1>0, <1>a DEF PreludeDue, RawOrder, IInv, laneVars
  <2> QED
    BY <1>0, <1>2, <1>d, <1>e, <2>1, AheadDrawn, BehindDrawn
<1>4. Pending' => Pending /\ move' = move
  BY <1>0 DEF Pending
<1>5. Unsent' /\ AckMeansShown' /\ AckInv'
  BY <1>0, <1>1, <1>2, <1>e, <1>4, AcksKept DEF RawOnly
<1>b. RawDead' = RawDead /\ VideoDead' = VideoDead
  BY <1>0, <1>a DEF RawDead, VideoDead
<1>6. RawTyped'
  BY <1>0, <1>a DEF RectsDraw, RawTyped, At, RawPixels, RawLeg, PartsOf, Frozen, Last, IInv
<1>7. MoveTyped' /\ RawOrder'
  BY <1>0, <1>1, <1>4, <1>a, MoveTypedKept, RawOrderKept DEF IInv, RawOnly, RawHolds
<1>8. MoveInv'
  BY <1>0, <1>2, <1>e, <1>a, MoveInvKept DEF IInv
<1>9. Met'
  BY <1>0, <1>a, <1>b, MetKept DEF IInv
<1>c. \A s : (RawDue(s) => RawDue(s)') /\ (PreludeDue(s) => PreludeDue(s)')
  BY <1>0, <1>a DEF RawDue, PreludeDue, laneVars
<1>10. Remainders'
  BY <1>0, <1>2, <1>b, <1>c, RemaindersKept DEF IInv
<1>11. VideoShown'
  <2>1. video.at # "apply"
    BY <1>a DEF IInv, Met, RawDead
  <2> QED
    BY <1>0, <1>e, <2>1, VideoShownKept DEF IInv
<1>f. RawShown'
  <2>1. \A b \in raw.ends : shown'[b] >= raw.msg.seq
    <3>1. raw.msg.seq \in Nat
      BY <1>d DEF IInv, HostTyped, Last
    <3> QED
      BY <1>d, <1>e, <3>1, Beyond DEF Grows
  <2> QED
    BY <1>a, <1>e, <2>1 DEF RawShown
<1>12. Registered'
  BY <1>0, <1>2, <1>e, RegisteredKept DEF IInv
<1>13. InHand' /\ FailedInv'
  BY <1>0, <1>a, <1>b, InHandKept, FailedKept DEF IInv, VideoPixels
<1>14. EndInv'
  BY <1>0, <1>a, <1>b, EndKept DEF IInv
<1>15. Owed'
  BY <1>0, <1>2, <1>b, <1>c, OwedKept DEF IInv, Alive
<1> QED
  BY <1>2, <1>e, <1>3, <1>5, <1>6, <1>7, <1>8, <1>9, <1>10, <1>11, <1>f, <1>12, <1>13, <1>14, <1>15 DEF IInv

\* The message a reader takes is the lowest of its lane.
LEMMA RawFirst ==
  ASSUME IInv, sparse # <<>>, sparse[1].type = "rects"
  PROVE  /\ RawLeg(sparse[1]) /\ RawDue(sparse[1].seq) /\ sparse[1].seq \notin sent
         /\ \A k \in 1..Len(sparse) : 1 < k => sparse[1].seq < sparse[k].seq
<1>1. 1 \in 1..Len(sparse)
  BY FirstOf DEF IInv, LanesTyped
<1>2. RawLeg(sparse[1]) /\ RawDue(sparse[1].seq)
  BY <1>1 DEF IInv, LanesTyped, RawDue
<1>3. sparse[1].seq \notin sent
  BY <1>2 DEF IInv, Unsent
<1>4. \A k \in 1..Len(sparse) : 1 < k => sparse[1].seq < sparse[k].seq
  BY <1>1 DEF IInv, OrderInv
<1> QED
  BY <1>2, <1>3, <1>4

\* A remainder taken without a move in the rendezvous would have lost its move.
LEMMA RawAlone ==
  ASSUME IInv, sparse # <<>>, sparse[1].type = "rects", raw.at = "read", NoMove
  PROVE  updates[sparse[1].seq].copy = {}
<1>1. SUFFICES ASSUME updates[sparse[1].seq].copy # {} PROVE FALSE
  OBVIOUS
<1>2. RawDue(sparse[1].seq) /\ sparse[1].seq \in 1..Last
  BY RawFirst DEF RawLeg
<1>3. ~Owns(sparse[1].seq) /\ move # FailedMove /\ ~RawDead
  BY DEF Owns, Pending, NoMove, Idle, FailedMove, RawDead
<1>4. PreludeDue(sparse[1].seq)
  BY <1>1, <1>2, <1>3 DEF IInv, Remainders
<1>5. PICK i \in 1..Len(sparse) : sparse[i].type = "prelude" /\ sparse[i].seq = sparse[1].seq
  BY <1>4 DEF PreludeDue
<1>6. 1 < i
  <2>1. Len(sparse) \in Nat /\ i # 1
    BY <1>5 DEF IInv, LanesTyped
  <2> QED
    BY <2>1
<1>7. sparse[1].seq < sparse[i].seq /\ sparse[1].seq \in Nat
  BY <1>6, RawFirst DEF RawLeg, IInv, HostTyped, Last
<1> QED
  BY <1>5, <1>7

\* An update's rectangles are taken and registered: its move, had it one, would be ahead of
\* them.
LEMMA RectsRegisterKeeps == ASSUME IInv, RectsRegister PROVE IInv'
<1> DEFINE s == sparse[1].seq
<1>0. /\ Frozen /\ UNCHANGED <<pixelVars, ackVars>> /\ unacked' = unacked
      /\ failed' = failed /\ video' = video /\ bulk' = bulk
      /\ shown' = shown /\ sent' = sent /\ move' = move /\ failure' = failure /\ stop' = stop
  BY DEF RectsRegister, hostVars, doneVars, pixelVars, ackVars, syncVars, endVars, Frozen
<1>a. /\ raw.at = "read" /\ raw'.at \in {"base", "paint"} /\ raw'.msg = sparse[1] /\ raw'.ends = {}
      /\ raw' = At(raw'.at, raw'.msg, raw'.ends) /\ ~RawPixels /\ RawPixels' /\ NoMove
      /\ sparse # <<>> /\ sparse[1].type = "rects" /\ sparse' = Tail(sparse)
  BY DEF RectsRegister, RectsFirst, At, RawPixels
<1>b. RawTakes
  BY <1>a DEF RawTakes
<1>c. /\ Shorter(sparse', sparse)
      /\ \A t : (RawDue(t) => RawDue(t)') /\ (PreludeDue(t) => PreludeDue(t)')
      /\ \A i \in 1..Len(sparse') : \E k \in 1..Len(sparse) : 1 < k /\ sparse'[i] = sparse[k]
  BY <1>a, <1>b, RawTaken DEF IInv
<1>1. RawOnly
  BY <1>0, <1>b, <1>c DEF RectsRegister, RawOnly, Lanes, Shorter, hostVars, syncVars, IInv, HostTyped
<1>2. /\ Fewer /\ HostTyped' /\ UpdatesReal' /\ LanesTyped' /\ VideoTyped' /\ OrderInv' /\ VideoOrder'
      /\ \A t : (VideoDue(t) => VideoDue(t)') /\ (CopyDue(t) => CopyDue(t)')
  BY <1>1, RawSide
<1>3. PixelsTyped' /\ CanvasInv' /\ Behind' /\ Ahead' /\ Grows
  BY <1>0, <1>2, PixelsKept
<1>d. /\ RawLeg(sparse[1]) /\ RawDue(s) /\ s \notin sent /\ updates[s].copy = {}
      /\ \A k \in 1..Len(sparse) : 1 < k => s < sparse[k].seq
  BY <1>a, RawFirst, RawAlone
<1>e. /\ s \in 1..Last /\ s \notin failed
      /\ "RAW" \in PartsOf(s) /\ PartsOf(s) \subseteq Parts
      /\ VideoDue(s) => "VIDEO" \in PartsOf(s)
      /\ "VIDEO" \notin PartsOf(s) => updates[s].video = {}
  BY <1>d, DueMeans DEF RectsRegister, RawLeg, PartsOf, Parts, IInv
<1>f. /\ DOMAIN pending' = DOMAIN pending \cup {s}
      /\ \A t \in DOMAIN pending : pending'[t] = pending[t]
      /\ s \notin DOMAIN pending => pending'[s] = PartsOf(s)
  BY <1>d DEF RectsRegister, Register, RawLeg
<1>4. Pending' => Pending /\ move' = move
  BY <1>0 DEF Pending
<1>5. Unsent' /\ AckMeansShown' /\ AckInv'
  BY <1>0, <1>1, <1>2, <1>3, <1>4, <1>d, <1>f, AcksKept DEF RawOnly
<1>g. RawDead' = RawDead /\ VideoDead' = VideoDead /\ ~Pending
  BY <1>0, <1>a DEF RawDead, VideoDead, Pending, NoMove, Idle
<1>6. RawTyped'
  BY <1>0, <1>a, <1>d DEF RawTyped, RawPixels, RawLeg, PartsOf, Frozen, Last, IInv
<1>7. MoveTyped' /\ RawOrder'
  <2>1. \A i \in 1..Len(sparse') : s < sparse'[i].seq
    BY <1>c, <1>d
  <2>2. RawOrder'
    BY <1>a, <1>4, <1>g, <2>1 DEF RawOrder
  <2> QED
    BY <1>0, <2>2, MoveTypedKept DEF IInv
<1>8. MoveInv'
  BY <1>0, <1>2, <1>3, <1>a, MoveInvKept DEF IInv
<1>9. Met'
  BY <1>0, <1>a, <1>g, MetKept DEF IInv
<1>10. Remainders'
  BY <1>0, <1>2, <1>c, <1>g, RemaindersKept DEF IInv
<1>11. VideoShown' /\ RawShown'
  BY <1>0, <1>3, <1>a, VideoShownKept DEF IInv, RawShown
<1>12. Registered'
  <2>1. ASSUME NEW t \in DOMAIN pending'
        PROVE  /\ t \in 1..Last /\ updates[t].copy = {}
               /\ pending'[t] # {} /\ pending'[t] \subseteq PartsOf(t)
               /\ "VIDEO" \notin pending'[t] => \A b \in updates[t].video : shown'[b] >= t
               /\ "RAW" \notin pending'[t] => \A b \in updates[t].raw : shown'[b] >= t
               /\ VideoDue(t)' => "VIDEO" \in pending'[t]
               /\ RawDue(t)' => "RAW" \in pending'[t]
    <3>1. CASE t \in DOMAIN pending
      BY <1>0, <1>2, <1>f, <3>1 DEF IInv, Registered, Fewer
    <3>2. CASE t = s /\ t \notin DOMAIN pending
      BY <1>2, <1>d, <1>e, <1>f, <3>2 DEF Fewer
    <3> QED
      BY <1>f, <3>1, <3>2
  <2> QED
    BY <1>0, <2>1 DEF Registered, Frozen, PartsOf, Last
<1>13. InHand' /\ FailedInv'
  <2>1. InHand'
    BY <1>0, <1>a, <1>f DEF IInv, InHand, VideoPixels
  <2>2. FailedInv'
    BY <1>0, <1>e, <1>f, <1>g DEF IInv, FailedInv, Frozen, Last
  <2> QED
    BY <2>1, <2>2
<1>14. EndInv'
  BY <1>0, <1>a, <1>g, EndKept DEF IInv
<1>15. Owed'
  <2>1. \A t \in 1..Last : Left(t)' = Left(t)
    BY <1>0, <1>f DEF Left, PartsOf, Frozen
  <2> QED
    BY <1>0, <1>2, <1>c, <1>g, <2>1 DEF IInv, Owed, Alive, Frozen, Last, PartsOf
<1> QED
  BY <1>2, <1>3, <1>5, <1>6, <1>7, <1>8, <1>9, <1>10, <1>11, <1>12, <1>13, <1>14, <1>15 DEF IInv

\* The raw remainder of the applied move is taken.
LEMMA RectsEndKeeps == ASSUME IInv, RectsEnd PROVE IInv'
<1> DEFINE s == sparse[1].seq
<1>0. /\ Frozen /\ UNCHANGED <<pixelVars, ackVars>> /\ unacked' = unacked
      /\ pending' = pending /\ failed' = failed /\ video' = video /\ bulk' = bulk
      /\ shown' = shown /\ sent' = sent /\ move' = move /\ failure' = failure /\ stop' = stop
  BY DEF RectsEnd, hostVars, doneVars, pixelVars, ackVars, syncVars, endVars, Frozen
<1>a. /\ raw.at = "read" /\ raw'.at = "paint" /\ raw'.msg = sparse[1] /\ raw'.ends = {move.dst}
      /\ raw' = At(raw'.at, raw'.msg, raw'.ends) /\ ~RawPixels /\ RawPixels' /\ Owns(s) /\ move.applied
      /\ sparse # <<>> /\ sparse[1].type = "rects" /\ sparse' = Tail(sparse)
  BY DEF RectsEnd, RectsFirst, At, RawPixels
<1>b. RawTakes
  BY <1>a DEF RawTakes
<1>c. /\ Shorter(sparse', sparse)
      /\ \A t : (RawDue(t) => RawDue(t)') /\ (PreludeDue(t) => PreludeDue(t)')
      /\ \A i \in 1..Len(sparse') : \E k \in 1..Len(sparse) : 1 < k /\ sparse'[i] = sparse[k]
  BY <1>a, <1>b, RawTaken DEF IInv
<1>1. RawOnly
  BY <1>0, <1>b, <1>c DEF RectsEnd, RawOnly, Lanes, Shorter, hostVars, syncVars, IInv, HostTyped
<1>2. /\ Fewer /\ HostTyped' /\ UpdatesReal' /\ LanesTyped' /\ VideoTyped' /\ OrderInv' /\ VideoOrder'
      /\ \A t : (VideoDue(t) => VideoDue(t)') /\ (CopyDue(t) => CopyDue(t)')
  BY <1>1, RawSide
<1>3. PixelsTyped' /\ CanvasInv' /\ Behind' /\ Ahead' /\ Grows
  BY <1>0, <1>2, PixelsKept
<1>d. RawLeg(sparse[1]) /\ \A k \in 1..Len(sparse) : 1 < k => s < sparse[k].seq
  BY <1>a, RawFirst
<1>e. updates[s].copy = {move.dst} /\ shown[move.dst] >= s
  BY <1>a DEF Owns, Pending, Idle, FailedMove, MoveTyped, MoveLeg, MoveInv, IInv
<1>4. Pending' => Pending /\ move' = move
  BY <1>0 DEF Pending
<1>5. Unsent' /\ AckMeansShown' /\ AckInv'
  BY <1>0, <1>1, <1>2, <1>3, <1>4, AcksKept DEF RawOnly
<1>g. RawDead' = RawDead /\ VideoDead' = VideoDead
  BY <1>0, <1>a DEF RawDead, VideoDead
<1>6. RawTyped'
  BY <1>0, <1>a, <1>d, <1>e DEF RawTyped, RawPixels, RawLeg, PartsOf, Frozen, Last, IInv
<1>7. MoveTyped' /\ RawOrder'
  <2>1. \A i \in 1..Len(sparse') : s < sparse'[i].seq
    BY <1>c, <1>d
  <2>2. RawOrder'
    BY <1>a, <1>4, <2>1 DEF RawOrder, Owns
  <2> QED
    BY <1>0, <2>2, MoveTypedKept DEF IInv
<1>8. MoveInv'
  BY <1>0, <1>2, <1>3, <1>a, MoveInvKept DEF IInv
<1>9. Met'
  BY <1>0, <1>a, <1>g, MetKept DEF IInv
<1>10. Remainders'
  BY <1>0, <1>2, <1>c, <1>g, RemaindersKept DEF IInv
<1>11. VideoShown' /\ RawShown'
  BY <1>0, <1>3, <1>a, <1>e, VideoShownKept DEF IInv, RawShown
<1>12. Registered'
  BY <1>0, <1>2, <1>3, RegisteredKept DEF IInv
<1>13. InHand' /\ FailedInv'
  <2>1. InHand'
    BY <1>0, <1>a DEF IInv, InHand, VideoPixels
  <2> QED
    BY <1>0, <1>g, <2>1, FailedKept DEF IInv
<1>14. EndInv'
  BY <1>0, <1>a, <1>g, EndKept DEF IInv
<1>15. Owed'
  BY <1>0, <1>2, <1>c, <1>g, OwedKept DEF IInv, Alive
<1> QED
  BY <1>2, <1>3, <1>5, <1>6, <1>7, <1>8, <1>9, <1>10, <1>11, <1>12, <1>13, <1>14, <1>15 DEF IInv

\* What one more ACK does to the queue.
LEMMA AckSent ==
  ASSUME AckInv, HostTyped, NEW s \in 1..Last, s \notin sent, Frozen,
         ackQueue' = Append(ackQueue, s), sent' = sent \cup {s}, unacked' = unacked
  PROVE  AckInv'
<1>1. /\ ackQueue \in Seq(Sequence) /\ Len(ackQueue) \in Nat /\ s \in Sequence
      /\ Len(ackQueue') = Len(ackQueue) + 1
      /\ ackQueue' \in Seq(Sequence)
      /\ \A i \in 1..Len(ackQueue) : ackQueue'[i] = ackQueue[i] /\ i \in 1..Len(ackQueue')
      /\ ackQueue'[Len(ackQueue) + 1] = s /\ Len(ackQueue) + 1 \in 1..Len(ackQueue')
      /\ \A i \in 1..Len(ackQueue') : i \in 1..Len(ackQueue) \/ i = Len(ackQueue) + 1
  <2>1. ackQueue \in Seq(Sequence) /\ s \in Sequence
    BY VisualAssumption DEF AckInv, HostTyped, Sequence, Last
  <2> QED
    BY <2>1
<1>2. Queued' = Queued \cup {s}
  BY <1>1 DEF Queued
<1>3. s \notin Queued /\ s \in unacked
  BY DEF AckInv
<1>4. \A i, j \in 1..Len(ackQueue') : ackQueue'[i] = ackQueue'[j] => i = j
  <2>1. \A i \in 1..Len(ackQueue) : ackQueue[i] # s
    BY <1>3 DEF Queued
  <2>2. ASSUME NEW i \in 1..Len(ackQueue'), NEW j \in 1..Len(ackQueue'), ackQueue'[i] = ackQueue'[j]
        PROVE  i = j
    <3>1. CASE i \in 1..Len(ackQueue) /\ j \in 1..Len(ackQueue)
      BY <1>1, <2>2, <3>1 DEF AckInv
    <3>2. CASE i \in 1..Len(ackQueue) /\ j = Len(ackQueue) + 1
      BY <1>1, <2>1, <2>2, <3>2
    <3>3. CASE i = Len(ackQueue) + 1 /\ j \in 1..Len(ackQueue)
      BY <1>1, <2>1, <2>2, <3>3
    <3> QED
      BY <1>1, <3>1, <3>2, <3>3
  <2> QED
    BY <2>2
<1>5. Cardinality(Queued') = Len(ackQueue')
  <2>1. IsFiniteSet(Queued)
    BY FS_Subset DEF AckInv
  <2>2. Cardinality(Queued \cup {s}) = Cardinality(Queued) + 1
    BY <1>3, <2>1, FS_AddElement
  <2> QED
    BY <1>1, <1>2, <2>2 DEF AckInv
<1> QED
  BY <1>1, <1>2, <1>3, <1>4, <1>5 DEF AckInv, Frozen, Last

\* What holds once the ACK of s is queued with nothing of s left.
LEMMA Acked ==
  ASSUME IInv, Fewer, Lanes, Frozen, Grows, NEW s \in 1..Last, s \notin sent,
         ackQueue' = Append(ackQueue, s), sent' = sent \cup {s}, unacked' = unacked,
         failed' = failed, DOMAIN pending' \subseteq DOMAIN pending,
         s \notin DOMAIN pending', s \notin failed,
         ~VideoDue(s)', ~RawDue(s)', ~CopyDue(s)',
         \A i \in 1..Len(sparse) : sparse[i].type = "prelude" => sparse[i].seq # s,
         Pending' => Pending /\ move'.seq = move.seq /\ move.seq # s,
         \A b \in Touched(s) : shown'[b] >= s
  PROVE  Unsent' /\ AckMeansShown' /\ AckInv'
<1>1. \A i \in 1..Len(sparse') : \E k \in 1..Len(sparse) : sparse'[i] = sparse[k]
  BY LanesAfter DEF IInv
<1>2. ASSUME NEW t \in sent'
      PROVE  ~VideoDue(t)' /\ ~RawDue(t)' /\ ~CopyDue(t)' /\ t \notin DOMAIN pending' /\ t \notin failed'
  <2>1. CASE t \in sent
    BY <2>1 DEF IInv, Unsent, Fewer
  <2>2. CASE t = s
    BY <2>2
  <2> QED
    BY <2>1, <2>2
<1>3. Unsent'
  BY <1>1, <1>2 DEF IInv, Unsent
<1>4. AckMeansShown'
  <2>1. sent \subseteq 1..Last
    BY DEF IInv, AckInv
  <2>2. \A t \in 1..Last : Touched(t)' = Touched(t)
    BY ShownKept DEF IInv
  <2>3. \A t \in sent : \A b \in Touched(t) : shown'[b] >= t
    BY <2>1, ShownKept DEF IInv, AckMeansShown
  <2> QED
    BY <2>1, <2>2, <2>3 DEF AckMeansShown
<1>5. AckInv'
  BY AckSent DEF IInv
<1> QED
  BY <1>3, <1>4, <1>5

\* A prelude is taken and its move registered.
LEMMA PreludeRegisterKeeps == ASSUME IInv, PreludeRegister PROVE IInv'
<1> DEFINE s == sparse[1].seq
<1>0. /\ Frozen /\ UNCHANGED <<pixelVars, ackVars>> /\ unacked' = unacked
      /\ pending' = pending /\ failed' = failed /\ video' = video /\ bulk' = bulk
      /\ shown' = shown /\ sent' = sent /\ failure' = failure /\ stop' = stop
  BY DEF PreludeRegister, hostVars, doneVars, pixelVars, ackVars, endVars, Frozen
<1>a. /\ raw.at = "read" /\ raw'.at = "waitMove" /\ raw'.msg = sparse[1]
      /\ raw' = At(raw'.at, raw'.msg, raw'.ends) /\ ~RawPixels /\ ~RawPixels' /\ NoMove
      /\ sparse # <<>> /\ sparse[1].type = "prelude" /\ sparse' = Tail(sparse)
  BY DEF PreludeRegister, At, RawPixels
<1>b. RawTakes
  BY <1>a DEF RawTakes
<1>c. /\ Shorter(sparse', sparse)
      /\ \A t : (RawDue(t) => RawDue(t)') /\ (PreludeDue(t) => PreludeDue(t)')
      /\ 1 \in 1..Len(sparse)
      /\ \A i \in 1..Len(sparse') : \E k \in 1..Len(sparse) : 1 < k /\ sparse'[i] = sparse[k]
  BY <1>a, <1>b, RawTaken DEF IInv
<1>1. RawOnly
  BY <1>0, <1>b, <1>c DEF PreludeRegister, RawOnly, Lanes, Shorter, hostVars, IInv, HostTyped
<1>2. /\ Fewer /\ HostTyped' /\ UpdatesReal' /\ LanesTyped' /\ VideoTyped' /\ OrderInv' /\ VideoOrder'
      /\ \A t : (VideoDue(t) => VideoDue(t)') /\ (CopyDue(t) => CopyDue(t)')
  BY <1>1, RawSide
<1>3. PixelsTyped' /\ CanvasInv' /\ Behind' /\ Ahead' /\ Grows
  BY <1>0, <1>2, PixelsKept
<1>d. MoveLeg(sparse[1]) /\ sparse[1] \in PreludeMessage /\ s \notin sent
  <2>1. sparse[1] \in RectsMessage \cup PreludeMessage
    BY <1>c DEF IInv, LanesTyped
  <2>2. sparse[1] \notin RectsMessage
    BY <1>a DEF RectsMessage
  <2> QED
    BY <1>a, <1>c, <2>1, <2>2 DEF IInv, LanesTyped, Unsent
<1>e. /\ move'.seq = s /\ move'.src = sparse[1].src /\ move'.dst = sparse[1].dst
      /\ move'.remainder = sparse[1].remainder /\ move'.applied = FALSE /\ move'.state = "Pending"
      /\ move' \in MoveRecord
  BY <1>d DEF PreludeRegister, PreludeMessage, MoveRecord
<1>f. MoveTyped'
  BY <1>d, <1>e DEF MoveTyped, MoveLeg, RemOf, Frame, Last, PreludeRegister, hostVars
<1>g. ~Pending /\ move # FailedMove /\ ~RawDead /\ ~RawDead' /\ VideoDead' = VideoDead
  BY <1>0, <1>a DEF Pending, NoMove, Idle, FailedMove, RawDead, VideoDead
<1>5. Unsent' /\ AckMeansShown' /\ AckInv'
  <2>1. \A i \in 1..Len(sparse') : \E k \in 1..Len(sparse) : sparse'[i] = sparse[k]
    BY <1>c
  <2>2. Unsent'
    BY <1>0, <1>2, <1>d, <1>e, <2>1 DEF Unsent, Fewer, IInv
  <2>3. sent' = sent /\ ackQueue' = ackQueue /\ desktop' = desktop
    BY <1>0 DEF ackVars, Frozen
  <2> QED
    BY <1>0, <1>3, <2>2, <2>3, AckMeansKept, AckKept DEF IInv
<1>6. RawTyped'
  BY <1>0, <1>a, <1>d DEF RawTyped, RawPixels, MoveLeg, RemOf, Frame, Frozen, Last, IInv
<1>7. RawOrder'
  <2>1. ASSUME NEW i \in 1..Len(sparse')
        PROVE  s < sparse'[i].seq \/ (s = sparse'[i].seq /\ sparse'[i].type = "rects")
    <3>1. PICK k \in 1..Len(sparse) : 1 < k /\ sparse'[i] = sparse[k]
      BY <1>c
    <3> QED
      BY <1>c, <3>1 DEF IInv, OrderInv
  <2> QED
    BY <1>a, <1>e, <2>1 DEF RawOrder
<1>8. MoveInv'
  BY <1>a, <1>e DEF MoveInv, Owns, Pending
<1>h. video.at \notin {"apply", "mark"}
  BY <1>a DEF IInv, Met, RawDead
<1>9. Met'
  BY <1>0, <1>h DEF Met
<1>10. Remainders'
  BY <1>0, <1>2, <1>c, <1>g DEF Remainders, IInv, Frozen, Last, Owns, Fewer
<1>11. VideoShown' /\ RawShown'
  BY <1>0, <1>3, <1>a, VideoShownKept DEF IInv, RawShown
<1>12. Registered'
  BY <1>0, <1>2, <1>3, RegisteredKept DEF IInv
<1>13. InHand' /\ FailedInv'
  BY <1>0, <1>a, <1>g, InHandKept, FailedKept DEF IInv, VideoPixels
<1>14. EndInv'
  BY <1>0, <1>a, <1>g, EndKept DEF IInv
<1>15. Owed'
  BY <1>0, <1>2, <1>c, <1>g, OwedKept DEF IInv, Alive
<1> QED
  BY <1>2, <1>3, <1>5, <1>6, <1>f, <1>7, <1>8, <1>9, <1>10, <1>11, <1>12, <1>13, <1>14, <1>15 DEF IInv

\* The sparse reader returns from the rendezvous.
LEMMA RawReturnsKeeps == ASSUME IInv, RawReturns PROVE IInv'
<1> DEFINE s == raw.msg.seq
<1>0. /\ Frozen /\ UNCHANGED <<pixelVars, ackVars>> /\ unacked' = unacked
      /\ pending' = pending /\ failed' = failed /\ video' = video /\ UNCHANGED laneVars
      /\ shown' = shown /\ sent' = sent /\ move' = move /\ failure' = failure /\ stop' = stop
  BY DEF RawReturns, hostVars, doneVars, pixelVars, ackVars, syncVars, endVars, Frozen
<1>a. /\ raw.at = "waitMove" /\ raw'.at = "read" /\ raw' = At(raw'.at, raw'.msg, raw'.ends)
      /\ ~RawPixels /\ ~RawPixels'
      /\ NoMove \/ (Owns(s) /\ move.applied)
  BY DEF RawReturns, At, RawPixels, Reading
<1>1. RawOnly
  BY <1>0, <1>a DEF RawReturns, RawOnly, Lanes, Shorter, RawHolds, hostVars, laneVars, syncVars, endVars, IInv, HostTyped
<1>2. /\ Fewer /\ HostTyped' /\ UpdatesReal' /\ LanesTyped' /\ VideoTyped' /\ OrderInv' /\ VideoOrder'
      /\ \A t : (VideoDue(t) => VideoDue(t)') /\ (CopyDue(t) => CopyDue(t)')
  BY <1>1, RawSide
<1>3. PixelsTyped' /\ CanvasInv' /\ Behind' /\ Ahead' /\ Grows
  BY <1>0, <1>2, PixelsKept
<1>4. Pending' => Pending /\ move' = move
  BY <1>0 DEF Pending
<1>5. Unsent' /\ AckMeansShown' /\ AckInv'
  BY <1>0, <1>1, <1>2, <1>3, <1>4, AcksKept DEF RawOnly
<1>b. RawDead' = RawDead /\ VideoDead' = VideoDead /\ ~RawDead
  BY <1>0, <1>a DEF RawDead, VideoDead
<1>c. /\ Pending => move.applied
      /\ move # FailedMove
  BY <1>a DEF Pending, NoMove, Owns, Idle, FailedMove
<1>6. RawTyped'
  BY <1>a DEF RawTyped, RawPixels
<1>7. MoveTyped' /\ RawOrder'
  BY <1>0, <1>1, <1>4, <1>a, MoveTypedKept, RawOrderKept DEF IInv, RawOnly, RawHolds
<1>8. MoveInv'
  BY <1>0, <1>2, <1>3, <1>4, <1>a, <1>c, MoveInvKept DEF IInv
<1>d. video.at \notin {"apply", "mark"}
  BY <1>a, <1>b, <1>c DEF IInv, Met, Owns
<1>9. Met'
  BY <1>0, <1>d DEF Met
<1>e. \A t : /\ RawDue(t) => RawDue(t)'
             /\ PreludeDue(t) => PreludeDue(t)' \/ t = s
  BY <1>0, <1>a DEF RawDue, PreludeDue, laneVars, RawPixels
<1>10. Remainders'
  <2>1. ASSUME RawDue(s), updates[s].copy # {} PROVE Owns(s) /\ move.applied
    <3>1. s \in 1..Last /\ updates[s].raw # {}
      BY <2>1, DueMeans DEF IInv
    <3>2. RemOf(s) = "Raw"
      BY <2>1, <3>1 DEF IInv, UpdatesReal, RemOf
    <3> QED
      BY <1>a, <1>c, <3>2 DEF IInv, MoveInv, Owns
  <2>2. \A t : Owns(t) => Owns(t)'
    BY <1>0 DEF Owns, Pending
  <2> QED
    BY <1>0, <1>2, <1>b, <1>e, <2>1, <2>2 DEF Remainders, IInv, Fewer, Frozen, Last
<1>11. VideoShown' /\ RawShown'
  BY <1>0, <1>3, <1>a, VideoShownKept DEF IInv, RawShown
<1>12. Registered'
  BY <1>0, <1>2, <1>3, RegisteredKept DEF IInv
<1>13. InHand' /\ FailedInv'
  BY <1>0, <1>a, <1>b, InHandKept, FailedKept DEF IInv, VideoPixels
<1>14. EndInv'
  BY <1>0, <1>a, <1>b, EndKept DEF IInv
<1>15. Owed'
  BY <1>0, <1>2, <1>b, <1>e, OwedKept DEF IInv, Alive
<1> QED
  BY <1>2, <1>3, <1>5, <1>6, <1>7, <1>8, <1>9, <1>10, <1>11, <1>12, <1>13, <1>14, <1>15 DEF IInv

\* A move is not updated by both legs.
LEMMA OneRemainder ==
  ASSUME IInv, NEW s \in 1..Last, updates[s].copy # {}
  PROVE  /\ s \notin DOMAIN pending /\ s \notin failed
         /\ updates[s].raw # {} => ~VideoDue(s) /\ updates[s].video = {} /\ RemOf(s) = "Raw"
         /\ updates[s].video # {} => ~RawDue(s) /\ updates[s].raw = {} /\ RemOf(s) = "Video"
<1>1. s \notin DOMAIN pending /\ s \notin failed
  BY DEF IInv, Registered, FailedInv
<1>2. updates[s].video = {} \/ updates[s].raw = {}
  BY DEF IInv, UpdatesReal
<1> QED
  BY <1>1, <1>2, DueMeans DEF IInv, RemOf

\* What the sparse reader has drawn is no longer due once it lets go of it.
LEMMA RawGone ==
  ASSUME IInv, RawPixels, raw'.at = "read", sparse' = sparse, NEW s, s = raw.msg.seq
  PROVE  /\ ~RawDue(s)'
         /\ \A t : RawDue(t) /\ t # s => RawDue(t)'
         /\ \A t : PreludeDue(t) => PreludeDue(t)'
         /\ \A i \in 1..Len(sparse) : sparse[i].seq # s
<1>1. \A i \in 1..Len(sparse) : sparse[i].seq # s
  <2>1. s \in Nat
    BY DEF IInv, RawTyped, RawLeg, HostTyped, Last
  <2> QED
    BY <2>1 DEF IInv, RawOrder
<1>2. ~RawDue(s)'
  BY <1>1 DEF RawDue, RawPixels
<1> QED
  BY <1>1, <1>2 DEF RawDue, PreludeDue, RawPixels

\* A raw remainder ends its move, and the ACK is queued.
LEMMA RectsEndMoveKeeps == ASSUME IInv, RectsEndMove PROVE IInv'
<1>s. PICK s : s = raw.msg.seq
  OBVIOUS
<1>0. /\ Frozen /\ UNCHANGED pixelVars /\ unacked' = unacked
      /\ pending' = pending /\ failed' = failed /\ video' = video /\ UNCHANGED laneVars
      /\ shown' = shown /\ failure' = failure /\ stop' = stop /\ sparse' = sparse
      /\ ackQueue' = Append(ackQueue, s) /\ sent' = sent \cup {s} /\ move' = Idle
  BY <1>s DEF RectsEndMove, hostVars, doneVars, pixelVars, laneVars, endVars, Frozen
<1>a. /\ raw.at = "finish" /\ raw'.at = "read" /\ raw' = At(raw'.at, raw'.msg, raw'.ends)
      /\ RawPixels /\ ~RawPixels' /\ raw.ends # {} /\ Owns(s) /\ ~Pending'
  BY <1>s, <1>0 DEF RectsEndMove, At, RawPixels, Reading, Pending, Idle
<1>1. RawOnly
  BY <1>0, <1>a DEF RectsEndMove, RawOnly, Lanes, Shorter, RawHolds, hostVars, laneVars, endVars, IInv, HostTyped
<1>2. /\ Fewer /\ HostTyped' /\ UpdatesReal' /\ LanesTyped' /\ VideoTyped' /\ OrderInv' /\ VideoOrder'
      /\ \A t : (VideoDue(t) => VideoDue(t)') /\ (CopyDue(t) => CopyDue(t)')
  BY <1>1, RawSide
<1>3. PixelsTyped' /\ CanvasInv' /\ Behind' /\ Ahead' /\ Grows
  BY <1>0, <1>2, PixelsKept
<1>b. RawDead' = RawDead /\ VideoDead' = VideoDead /\ ~RawDead
  BY <1>0, <1>a DEF RawDead, VideoDead
<1>c. /\ s \in 1..Last /\ raw.msg.cover = updates[s].raw /\ updates[s].raw # {}
      /\ raw.ends = updates[s].copy /\ updates[s].copy # {}
  BY <1>s, <1>a DEF IInv, RawTyped, RawLeg
<1>d. /\ s \notin DOMAIN pending /\ s \notin failed /\ ~VideoDue(s) /\ updates[s].video = {}
  BY <1>s, <1>c, OneRemainder
<1>e. /\ ~RawDue(s)'
      /\ \A t : RawDue(t) /\ t # s => RawDue(t)'
      /\ \A t : PreludeDue(t) => PreludeDue(t)'
      /\ \A i \in 1..Len(sparse) : sparse[i].seq # s
  BY <1>s, <1>0, <1>a, RawGone
<1>f. move.seq = s /\ Pending /\ move.applied /\ ~FenceDue(s) /\ s \notin sent
  BY <1>s, <1>a DEF Owns, MoveInv, Unsent, IInv
<1>g. video.at \notin {"apply", "mark"}
  BY <1>s, <1>a, <1>b DEF IInv, Met
<1>h. ~CopyDue(s)
  BY <1>s, <1>f, <1>g DEF CopyDue, FenceDue, VideoCopies
<1>5. Unsent' /\ AckMeansShown' /\ AckInv'
  <2>1. \A b \in Touched(s) : shown'[b] >= s
    BY <1>s, <1>0, <1>a, <1>c, <1>d DEF Touched, RawShown, IInv
  <2>2. ~VideoDue(s)' /\ ~CopyDue(s)'
    BY <1>2, <1>d, <1>h DEF Fewer
  <2> QED
    BY <1>0, <1>1, <1>2, <1>3, <1>a, <1>c, <1>d, <1>e, <1>f, <2>1, <2>2, Acked DEF RawOnly
<1>6. RawTyped'
  BY <1>a DEF RawTyped, RawPixels
<1>7. MoveTyped' /\ RawOrder'
  BY <1>0, <1>1, <1>a, MoveTypedKept, RawOrderKept DEF IInv, RawOnly, RawHolds
<1>8. MoveInv'
  BY <1>a DEF MoveInv
<1>9. Met'
  BY <1>0, <1>g DEF Met
<1>10. Remainders'
  <2>1. ASSUME NEW t \in 1..Last, updates[t].copy # {}, VideoDue(t)' PROVE CopyDue(t)' \/ VideoDead'
    <3>1. VideoDue(t) /\ t # s
      BY <1>2, <1>d, <2>1 DEF Fewer
    <3> QED
      BY <1>2, <1>b, <1>f, <2>1, <3>1 DEF IInv, Remainders, Owns, Pending, FailedMove
  <2>2. ASSUME NEW t \in 1..Last, updates[t].copy # {}, RawDue(t)' PROVE PreludeDue(t)'
    <3>1. RawDue(t) /\ t # s
      BY <1>2, <1>e, <2>2 DEF Fewer
    <3> QED
      BY <1>2, <1>b, <1>e, <1>f, <2>2, <3>1 DEF IInv, Remainders, Owns, Pending, FailedMove
  <2> QED
    BY <1>0, <2>1, <2>2 DEF Remainders, Frozen, Last
<1>11. VideoShown' /\ RawShown'
  BY <1>0, <1>3, <1>a, VideoShownKept DEF IInv, RawShown
<1>12. Registered'
  BY <1>s, <1>0, <1>2, <1>3, RegisteredKept DEF IInv
<1>13. InHand' /\ FailedInv'
  BY <1>s, <1>0, <1>a, <1>b, InHandKept, FailedKept DEF IInv, VideoPixels
<1>14. EndInv'
  BY <1>0, <1>a, <1>b, EndKept DEF IInv
<1>15. Owed'
  BY <1>0, <1>2, <1>b, <1>e DEF IInv, Owed, Alive, Frozen, Last, Left, PartsOf
<1> QED
  BY <1>2, <1>3, <1>5, <1>6, <1>7, <1>8, <1>9, <1>10, <1>11, <1>12, <1>13, <1>14, <1>15 DEF IInv

\* The raw leg of an update completes; if it was the last, the ACK is queued.
LEMMA RectsCompleteKeeps == ASSUME IInv, RectsComplete PROVE IInv'
<1>s. PICK s : s = raw.msg.seq
  OBVIOUS
<1>0. /\ Frozen /\ UNCHANGED pixelVars /\ unacked' = unacked
      /\ failed' = failed /\ video' = video /\ UNCHANGED laneVars
      /\ shown' = shown /\ failure' = failure /\ stop' = stop /\ sparse' = sparse /\ move' = move
  BY <1>s DEF RectsComplete, hostVars, syncVars, pixelVars, laneVars, endVars, Frozen
<1>a. /\ raw.at = "finish" /\ raw'.at = "read" /\ raw' = At(raw'.at, raw'.msg, raw'.ends)
      /\ RawPixels /\ ~RawPixels' /\ raw.ends = {} /\ s \notin failed /\ Complete(s, "RAW")
  BY <1>s DEF RectsComplete, At, RawPixels, Reading
<1>1. RawOnly
  BY <1>0, <1>a DEF RectsComplete, RawOnly, Lanes, Shorter, RawHolds, hostVars, syncVars, laneVars, endVars, IInv, HostTyped
<1>2. /\ Fewer /\ HostTyped' /\ UpdatesReal' /\ LanesTyped' /\ VideoTyped' /\ OrderInv' /\ VideoOrder'
      /\ \A t : (VideoDue(t) => VideoDue(t)') /\ (CopyDue(t) => CopyDue(t)')
  BY <1>1, RawSide
<1>3. PixelsTyped' /\ CanvasInv' /\ Behind' /\ Ahead' /\ Grows
  BY <1>0, <1>2, PixelsKept
<1>b. RawDead' = RawDead /\ VideoDead' = VideoDead /\ ~RawDead
  BY <1>0, <1>a DEF RawDead, VideoDead
<1>c. /\ s \in 1..Last /\ raw.msg.cover = updates[s].raw
      /\ updates[s].copy = {} /\ s \in DOMAIN pending /\ RawDue(s) /\ s \notin sent
  BY <1>s, <1>a DEF IInv, RawTyped, RawLeg, InHand, RawDue, Unsent
<1>d. /\ pending[s] \subseteq PartsOf(s) /\ "RAW" \in pending[s] /\ PartsOf(s) \subseteq Parts
      /\ VideoDue(s) => "VIDEO" \in pending[s]
      /\ "VIDEO" \notin pending[s] => \A b \in updates[s].video : shown[b] >= s
      /\ \A b \in updates[s].raw : shown[b] >= s
  BY <1>s, <1>a, <1>c DEF IInv, Registered, RawShown, PartsOf, Parts
<1>e. /\ ~RawDue(s)'
      /\ \A t : RawDue(t) /\ t # s => RawDue(t)'
      /\ \A t : PreludeDue(t) => PreludeDue(t)'
      /\ \A i \in 1..Len(sparse) : sparse[i].seq # s
  BY <1>s, <1>0, <1>a, RawGone
<1>f. ~CopyDue(s)
  BY <1>s, <1>c, DueMeans DEF IInv
<1>4. Pending' => Pending /\ move'.seq = move.seq
  BY <1>0 DEF Pending
<1>g. Pending => move.seq # s
  BY <1>s, <1>c DEF IInv, MoveTyped, MoveLeg, Pending, Idle, FailedMove
<1>h. /\ DOMAIN pending' \subseteq DOMAIN pending
      /\ \A t \in DOMAIN pending : t # s => t \in DOMAIN pending' /\ pending'[t] = pending[t]
      /\ s \in DOMAIN pending' => pending'[s] = pending[s] \ {"RAW"} /\ pending[s] # {"RAW"}
      /\ s \notin DOMAIN pending' => pending[s] = {"RAW"}
  BY <1>s, <1>a, <1>c DEF Complete, CompletesMask, Forget
<1>i. s \in DOMAIN pending' => sent' = sent
  BY <1>s, <1>a, <1>h DEF Complete, CompletesMask, ackVars
<1>5. Unsent' /\ AckMeansShown' /\ AckInv' /\ sent \subseteq sent' /\ (s \in sent' \/ s \in DOMAIN pending')
  <2>1. CASE pending[s] = {"RAW"}
    <3>1. CanAck
      BY <1>c, Room DEF IInv
    <3>2. ackQueue' = Append(ackQueue, s) /\ sent' = sent \cup {s}
      BY <1>a, <2>1, <3>1 DEF Complete, CompletesMask, EnqueueAck
    <3>3. s \notin DOMAIN pending'
      BY <1>h, <2>1
    <3>4. \A b \in Touched(s) : shown'[b] >= s
      BY <1>0, <1>c, <1>d, <2>1 DEF Touched
    <3>5. ~VideoDue(s)' /\ ~CopyDue(s)'
      BY <1>2, <1>d, <1>f, <2>1 DEF Fewer
    <3> QED
      BY <1>0, <1>1, <1>2, <1>3, <1>4, <1>a, <1>c, <1>e, <1>g, <1>h, <3>2, <3>3, <3>4, <3>5, Acked DEF RawOnly
  <2>2. CASE pending[s] # {"RAW"}
    <3>1. UNCHANGED ackVars
      BY <1>a, <2>2 DEF Complete, CompletesMask
    <3> QED
      BY <1>0, <1>1, <1>2, <1>3, <1>4, <1>h, <2>2, <3>1, AcksKept DEF RawOnly, ackVars
  <2> QED
    BY <2>1, <2>2
<1>6. RawTyped'
  BY <1>a DEF RawTyped, RawPixels
<1>7. MoveTyped' /\ RawOrder'
  BY <1>0, <1>1, <1>4, <1>a, MoveTypedKept, RawOrderKept DEF IInv, RawOnly, RawHolds
<1>8. MoveInv'
  BY <1>0, <1>2, <1>3, <1>a, MoveInvKept DEF IInv
<1>9. Met'
  BY <1>0, <1>a, <1>b, MetKept DEF IInv
<1>10. Remainders'
  BY <1>s, <1>0, <1>2, <1>b, <1>e, RemaindersKept DEF IInv
<1>11. VideoShown' /\ RawShown'
  BY <1>0, <1>3, <1>a, VideoShownKept DEF IInv, RawShown
<1>12. Registered'
  <2>1. ASSUME NEW t \in DOMAIN pending'
        PROVE  /\ t \in 1..Last /\ updates[t].copy = {}
               /\ pending'[t] # {} /\ pending'[t] \subseteq PartsOf(t)
               /\ "VIDEO" \notin pending'[t] => \A b \in updates[t].video : shown'[b] >= t
               /\ "RAW" \notin pending'[t] => \A b \in updates[t].raw : shown'[b] >= t
               /\ VideoDue(t)' => "VIDEO" \in pending'[t]
               /\ RawDue(t)' => "RAW" \in pending'[t]
    <3>1. CASE t # s
      BY <1>0, <1>2, <1>h, <3>1 DEF IInv, Registered, Fewer
    <3>2. CASE t = s
      BY <1>0, <1>2, <1>c, <1>d, <1>e, <1>h, <3>2 DEF Fewer
    <3> QED
      BY <3>1, <3>2
  <2> QED
    BY <1>0, <2>1 DEF Registered, Frozen, PartsOf, Last
<1>13. InHand' /\ FailedInv'
  <2>1. ASSUME VideoPixels, video.ends = {} PROVE video.msg.seq \in DOMAIN pending'
    <3>1. video.msg.seq \in DOMAIN pending /\ VideoDue(video.msg.seq)
      BY <2>1 DEF IInv, InHand, VideoDue
    <3> QED
      BY <1>d, <1>h, <3>1
  <2>2. InHand'
    BY <1>0, <1>a, <2>1 DEF InHand, VideoPixels
  <2>3. FailedInv'
    BY <1>0, <1>b, <1>h DEF IInv, FailedInv, Frozen, Last
  <2> QED
    BY <2>2, <2>3
<1>14. EndInv'
  BY <1>0, <1>a, <1>b, EndKept DEF IInv
<1>15. Owed'
  <2>1. ASSUME NEW t \in 1..Last, t \notin sent'
        PROVE  t \notin sent /\ IF t = s THEN Left(t)' = Left(t) \ {"RAW"} ELSE Left(t)' = Left(t)
    <3>1. CASE t = s
      BY <1>5, <1>c, <1>h, <2>1, <3>1 DEF Left
    <3>2. CASE t # s
      BY <1>0, <1>5, <1>h, <2>1, <3>2 DEF Left, PartsOf, Frozen
    <3> QED
      BY <3>1, <3>2
  <2>2. ASSUME Alive', NEW t \in 1..Last, t \notin sent'
        PROVE  /\ "VIDEO" \in Left(t)' => VideoDue(t)'
               /\ "RAW" \in Left(t)' => RawDue(t)'
               /\ PartsOf(t) = {} => CopyDue(t)'
    <3>1. Alive /\ t \notin sent
      BY <1>b, <2>1, <2>2 DEF Alive
    <3>2. /\ "VIDEO" \in Left(t) => VideoDue(t)
          /\ "RAW" \in Left(t) => RawDue(t)
          /\ PartsOf(t) = {} => CopyDue(t)
      BY <3>1 DEF IInv, Owed
    <3> QED
      BY <1>2, <1>e, <2>1, <2>2, <3>2
  <2> QED
    BY <1>0, <2>2 DEF Owed, Frozen, PartsOf, Last
<1> QED
  BY <1>2, <1>3, <1>5, <1>6, <1>7, <1>8, <1>9, <1>10, <1>11, <1>12, <1>13, <1>14, <1>15 DEF IInv

-----------------------------------------------------------------------------
(* The bulk reader's steps.                                                *)

\* A video message that is first on the bulk lane is due, and comes before the others.
LEMMA BulkFirst ==
  ASSUME IInv, bulk # <<>>, bulk[1].type = "video"
  PROVE  /\ VideoLeg(bulk[1]) /\ VideoDue(bulk[1].seq) /\ bulk[1].seq \notin sent
         /\ \A k \in 1..Len(bulk) : 1 < k => bulk[1].seq < bulk[k].seq
<1>1. 1 \in 1..Len(bulk)
  BY FirstOf DEF IInv, LanesTyped
<1>2. VideoLeg(bulk[1]) /\ VideoDue(bulk[1].seq)
  BY <1>1 DEF IInv, LanesTyped, VideoDue
<1>3. bulk[1].seq \notin sent
  BY <1>2 DEF IInv, Unsent
<1>4. \A k \in 1..Len(bulk) : 1 < k => bulk[1].seq < bulk[k].seq
  BY <1>1 DEF IInv, OrderInv
<1> QED
  BY <1>2, <1>3, <1>4

\* A video message that finds no move in the rendezvous is not the remainder of one.
LEMMA VideoAlone ==
  ASSUME IInv, bulk # <<>>, bulk[1].type = "video", video.at = "read", NoMove
  PROVE  updates[bulk[1].seq].copy = {}
<1>1. SUFFICES ASSUME updates[bulk[1].seq].copy # {} PROVE FALSE
  OBVIOUS
<1>2. VideoDue(bulk[1].seq) /\ bulk[1].seq \in 1..Last
  BY BulkFirst DEF VideoLeg
<1>3. ~Owns(bulk[1].seq) /\ move # FailedMove /\ ~VideoDead
  BY DEF Owns, Pending, NoMove, Idle, FailedMove, VideoDead
<1>4. CopyDue(bulk[1].seq)
  BY <1>1, <1>2, <1>3 DEF IInv, Remainders
<1>5. PICK i \in 1..Len(bulk) : bulk[i].type = "fence" /\ bulk[i].seq = bulk[1].seq
  BY <1>4 DEF CopyDue, VideoCopies
<1>6. 1 < i
  <2>1. Len(bulk) \in Nat /\ i # 1
    BY <1>5 DEF IInv, LanesTyped
  <2> QED
    BY <2>1
<1>7. bulk[1].seq < bulk[i].seq /\ bulk[1].seq \in Nat
  BY <1>6, BulkFirst DEF VideoLeg, IInv, HostTyped, Last
<1> QED
  BY <1>5, <1>7

\* A video update is taken and registered.
LEMMA VideoRegisterKeeps == ASSUME IInv, VideoRegister PROVE IInv'
<1>s. PICK s : s = bulk[1].seq
  OBVIOUS
<1>0. /\ Frozen /\ UNCHANGED <<pixelVars, ackVars>> /\ unacked' = unacked
      /\ failed' = failed /\ raw' = raw /\ sparse' = sparse
      /\ shown' = shown /\ sent' = sent /\ move' = move /\ failure' = failure /\ stop' = stop
  BY DEF VideoRegister, hostVars, doneVars, pixelVars, ackVars, syncVars, endVars, Frozen
<1>a. /\ video.at = "read" /\ video'.at = "paint" /\ video'.msg = bulk[1] /\ video'.ends = {}
      /\ video' = At(video'.at, video'.msg, video'.ends) /\ ~VideoPixels /\ ~VideoCopies
      /\ VideoPixels' /\ ~VideoCopies' /\ NoMove
      /\ bulk # <<>> /\ bulk[1].type = "video" /\ bulk' = Tail(bulk)
  BY DEF VideoRegister, VideoFirst, At, VideoPixels, VideoCopies
<1>b. VideoTakes
  BY <1>a DEF VideoTakes
<1>c. /\ Shorter(bulk', bulk)
      /\ \A t : (VideoDue(t) => VideoDue(t)') /\ (CopyDue(t) => CopyDue(t)')
      /\ \A i \in 1..Len(bulk') : \E k \in 1..Len(bulk) : 1 < k /\ bulk'[i] = bulk[k]
  BY <1>a, <1>b, VideoTaken DEF IInv
<1>1. VideoOnly
  BY <1>0, <1>b, <1>c DEF VideoRegister, VideoOnly, Lanes, Shorter, hostVars, syncVars, IInv, HostTyped
<1>2. /\ Fewer /\ HostTyped' /\ UpdatesReal' /\ LanesTyped' /\ RawTyped' /\ OrderInv'
      /\ \A t : (RawDue(t) => RawDue(t)') /\ (PreludeDue(t) => PreludeDue(t)')
  BY <1>1, VideoSide
<1>3. PixelsTyped' /\ CanvasInv' /\ Behind' /\ Ahead' /\ Grows
  BY <1>0, <1>2, PixelsKept
<1>d. /\ VideoLeg(bulk[1]) /\ VideoDue(s) /\ s \notin sent /\ updates[s].copy = {}
      /\ \A k \in 1..Len(bulk) : 1 < k => s < bulk[k].seq
  BY <1>s, <1>a, BulkFirst, VideoAlone
<1>g. RawDead' = RawDead /\ ~VideoDead' /\ ~VideoDead /\ ~Pending
  BY <1>0, <1>a DEF RawDead, VideoDead, Pending, NoMove, Idle
<1>e. /\ s \in 1..Last /\ s \notin failed
      /\ "VIDEO" \in PartsOf(s) /\ PartsOf(s) \subseteq Parts
      /\ RawDue(s) => "RAW" \in PartsOf(s)
      /\ "RAW" \notin PartsOf(s) => updates[s].raw = {}
  BY <1>s, <1>d, <1>g, DueMeans DEF VideoLeg, PartsOf, Parts, IInv, FailedInv
<1>f. /\ DOMAIN pending' = DOMAIN pending \cup {s}
      /\ \A t \in DOMAIN pending : pending'[t] = pending[t]
      /\ s \notin DOMAIN pending => pending'[s] = PartsOf(s)
  BY <1>s, <1>d DEF VideoRegister, Register, VideoLeg
<1>4. Pending' => Pending /\ move' = move
  BY <1>0 DEF Pending
<1>5. Unsent' /\ AckMeansShown' /\ AckInv'
  BY <1>0, <1>1, <1>2, <1>3, <1>4, <1>d, <1>f, AcksKept DEF VideoOnly
<1>6. VideoTyped'
  BY <1>s, <1>0, <1>a, <1>d DEF VideoTyped, VideoPixels, VideoLeg, PartsOf, Frozen, Last
<1>7. MoveTyped' /\ RawOrder' /\ VideoOrder'
  <2>1. \A i \in 1..Len(bulk') : s < bulk'[i].seq
    BY <1>c, <1>d
  <2>2. VideoOrder'
    BY <1>s, <1>a, <2>1 DEF VideoOrder
  <2>3. RawOrder'
    BY <1>0, <1>1, <1>4, RawOrderKept DEF IInv, VideoOnly, RawHolds, RawPixels
  <2> QED
    BY <1>0, <2>2, <2>3, MoveTypedKept DEF IInv
<1>8. MoveInv'
  BY <1>0, <1>2, <1>3, MoveInvKept DEF IInv
<1>9. Met'
  BY <1>a DEF Met
<1>10. Remainders'
  BY <1>0, <1>2, <1>c, <1>g, RemaindersKept DEF IInv
<1>11. VideoShown' /\ RawShown'
  BY <1>0, <1>3, <1>a, RawShownKept DEF IInv, VideoShown, RawPixels
<1>12. Registered'
  <2>1. ASSUME NEW t \in DOMAIN pending'
        PROVE  /\ t \in 1..Last /\ updates[t].copy = {}
               /\ pending'[t] # {} /\ pending'[t] \subseteq PartsOf(t)
               /\ "VIDEO" \notin pending'[t] => \A b \in updates[t].video : shown'[b] >= t
               /\ "RAW" \notin pending'[t] => \A b \in updates[t].raw : shown'[b] >= t
               /\ VideoDue(t)' => "VIDEO" \in pending'[t]
               /\ RawDue(t)' => "RAW" \in pending'[t]
    <3>1. CASE t \in DOMAIN pending
      BY <1>0, <1>2, <1>f, <3>1 DEF IInv, Registered, Fewer
    <3>2. CASE t = s /\ t \notin DOMAIN pending
      BY <1>2, <1>d, <1>e, <1>f, <3>2 DEF Fewer
    <3> QED
      BY <1>f, <3>1, <3>2
  <2> QED
    BY <1>0, <2>1 DEF Registered, Frozen, PartsOf, Last
<1>13. InHand' /\ FailedInv'
  <2>1. InHand'
    BY <1>s, <1>0, <1>a, <1>f DEF IInv, InHand, RawPixels
  <2>2. FailedInv'
    BY <1>0, <1>g DEF IInv, FailedInv
  <2> QED
    BY <2>1, <2>2
<1>14. EndInv'
  BY <1>0, <1>a, <1>g, EndKept DEF IInv
<1>15. Owed'
  <2>1. \A t \in 1..Last : Left(t)' = Left(t)
    BY <1>0, <1>f DEF Left, PartsOf, Frozen
  <2> QED
    BY <1>0, <1>2, <1>c, <1>g, <2>1 DEF IInv, Owed, Alive, Frozen, Last, PartsOf
<1> QED
  BY <1>2, <1>3, <1>5, <1>6, <1>7, <1>8, <1>9, <1>10, <1>11, <1>12, <1>13, <1>14, <1>15 DEF IInv

\* The video remainder of the applied move is taken.
LEMMA VideoEndKeeps == ASSUME IInv, VideoEnd PROVE IInv'
<1>s. PICK s : s = bulk[1].seq
  OBVIOUS
<1>0. /\ Frozen /\ UNCHANGED <<pixelVars, ackVars>> /\ unacked' = unacked
      /\ pending' = pending /\ failed' = failed /\ raw' = raw /\ sparse' = sparse
      /\ shown' = shown /\ sent' = sent /\ move' = move /\ failure' = failure /\ stop' = stop
  BY DEF VideoEnd, hostVars, doneVars, pixelVars, ackVars, syncVars, endVars, Frozen
<1>a. /\ video.at = "read" /\ video'.at = "paint" /\ video'.msg = bulk[1] /\ video'.ends = {move.dst}
      /\ video' = At(video'.at, video'.msg, video'.ends) /\ ~VideoPixels /\ ~VideoCopies
      /\ VideoPixels' /\ ~VideoCopies' /\ Owns(s) /\ move.applied
      /\ bulk # <<>> /\ bulk[1].type = "video" /\ bulk' = Tail(bulk)
  BY <1>s DEF VideoEnd, VideoFirst, At, VideoPixels, VideoCopies
<1>b. VideoTakes
  BY <1>a DEF VideoTakes
<1>c. /\ Shorter(bulk', bulk)
      /\ \A t : (VideoDue(t) => VideoDue(t)') /\ (CopyDue(t) => CopyDue(t)')
      /\ \A i \in 1..Len(bulk') : \E k \in 1..Len(bulk) : 1 < k /\ bulk'[i] = bulk[k]
  BY <1>a, <1>b, VideoTaken DEF IInv
<1>1. VideoOnly
  BY <1>0, <1>b, <1>c DEF VideoEnd, VideoOnly, Lanes, Shorter, hostVars, syncVars, IInv, HostTyped
<1>2. /\ Fewer /\ HostTyped' /\ UpdatesReal' /\ LanesTyped' /\ RawTyped' /\ OrderInv'
      /\ \A t : (RawDue(t) => RawDue(t)') /\ (PreludeDue(t) => PreludeDue(t)')
  BY <1>1, VideoSide
<1>3. PixelsTyped' /\ CanvasInv' /\ Behind' /\ Ahead' /\ Grows
  BY <1>0, <1>2, PixelsKept
<1>d. VideoLeg(bulk[1]) /\ \A k \in 1..Len(bulk) : 1 < k => s < bulk[k].seq
  BY <1>s, <1>a, BulkFirst
<1>e. updates[s].copy = {move.dst} /\ shown[move.dst] >= s
  BY <1>a DEF Owns, Pending, Idle, FailedMove, MoveTyped, MoveLeg, MoveInv, IInv
<1>g. RawDead' = RawDead /\ VideoDead' = VideoDead
  BY <1>0, <1>a DEF RawDead, VideoDead
<1>4. Pending' => Pending /\ move' = move
  BY <1>0 DEF Pending
<1>5. Unsent' /\ AckMeansShown' /\ AckInv'
  BY <1>0, <1>1, <1>2, <1>3, <1>4, AcksKept DEF VideoOnly
<1>6. VideoTyped'
  BY <1>s, <1>0, <1>a, <1>d, <1>e DEF VideoTyped, VideoPixels, VideoLeg, PartsOf, Frozen, Last
<1>7. MoveTyped' /\ RawOrder' /\ VideoOrder'
  <2>1. \A i \in 1..Len(bulk') : s < bulk'[i].seq
    BY <1>c, <1>d
  <2>2. VideoOrder'
    BY <1>s, <1>a, <2>1 DEF VideoOrder
  <2>3. RawOrder'
    BY <1>0, <1>1, <1>4, RawOrderKept DEF IInv, VideoOnly, RawHolds, RawPixels
  <2> QED
    BY <1>0, <2>2, <2>3, MoveTypedKept DEF IInv
<1>8. MoveInv'
  BY <1>0, <1>2, <1>3, MoveInvKept DEF IInv
<1>9. Met'
  BY <1>a DEF Met
<1>10. Remainders'
  BY <1>0, <1>2, <1>c, <1>g, RemaindersKept DEF IInv
<1>11. VideoShown' /\ RawShown'
  BY <1>s, <1>0, <1>3, <1>a, <1>e, RawShownKept DEF IInv, VideoShown, RawPixels
<1>12. Registered'
  BY <1>0, <1>2, <1>3, RegisteredKept DEF IInv
<1>13. InHand' /\ FailedInv'
  <2>1. InHand'
    BY <1>0, <1>a DEF IInv, InHand, RawPixels
  <2> QED
    BY <1>0, <1>g, <2>1, FailedKept DEF IInv
<1>14. EndInv'
  BY <1>0, <1>a, <1>g, EndKept DEF IInv
<1>15. Owed'
  BY <1>0, <1>2, <1>c, <1>g, OwedKept DEF IInv, Alive
<1> QED
  BY <1>2, <1>3, <1>5, <1>6, <1>7, <1>8, <1>9, <1>10, <1>11, <1>12, <1>13, <1>14, <1>15 DEF IInv

\* Video is drawn where no newer update committed.
LEMMA VideoDrawKeeps == ASSUME IInv, VideoDraw PROVE IInv'
<1>s. PICK s : s = video.msg.seq
  OBVIOUS
<1>0. /\ Frozen /\ UNCHANGED ackVars /\ unacked' = unacked
      /\ pending' = pending /\ failed' = failed /\ raw' = raw /\ UNCHANGED laneVars
      /\ sent' = sent /\ move' = move /\ failure' = failure /\ stop' = stop
  BY DEF VideoDraw, hostVars, doneVars, ackVars, syncVars, endVars, Frozen
<1>a. /\ video.at = "paint" /\ video'.at = "finish" /\ video'.msg = video.msg /\ video'.ends = video.ends
      /\ VideoPixels /\ VideoPixels' /\ ~VideoCopies' /\ video' = At(video'.at, video'.msg, video'.ends)
  BY DEF VideoDraw, At, VideoPixels, VideoCopies
<1>1. VideoOnly
  BY <1>0, <1>a DEF VideoDraw, VideoOnly, Lanes, Shorter, VideoHolds, hostVars, laneVars, syncVars, endVars, IInv, HostTyped
<1>2. /\ Fewer /\ HostTyped' /\ UpdatesReal' /\ LanesTyped' /\ RawTyped' /\ OrderInv'
      /\ \A t : (RawDue(t) => RawDue(t)') /\ (PreludeDue(t) => PreludeDue(t)')
  BY <1>1, VideoSide
<1>d. /\ s \in 1..Last /\ video.msg.cover \subseteq Blocks /\ video.ends \subseteq Blocks
      /\ VideoDue(s) /\ \A b \in video.ends : shown[b] >= s
  <2>1. s \in 1..Last /\ video.msg.cover = updates[s].video /\ video.ends = updates[s].copy
    BY <1>s, <1>a DEF VideoTyped, VideoLeg, IInv
  <2>2. updates[s] \in Drawing
    BY <2>1 DEF HostTyped, Last, IInv
  <2> QED
    BY <1>s, <1>a, <2>1, <2>2 DEF Drawing, VideoDue, VideoShown, IInv
<1>e. /\ PixelsTyped' /\ CanvasInv' /\ Grows
      /\ \A b \in video.msg.cover : shown'[b] >= s
      /\ \A b \in Blocks : shown'[b] = shown[b] \/ shown'[b] = s
      /\ \A b \in Blocks : shown'[b] # fences'[b] => shown'[b] = shown[b] /\ shown[b] # fences[b]
  BY <1>s, <1>0, <1>d, Painted DEF VideoDraw
<1>3. Behind' /\ Ahead'
  <2>1. \A t \in 1..Last : FenceDue(t)' /\ PreludeDue(t)' => s < t
    BY <1>s, <1>0, <1>a DEF FenceDue, VideoOrder, IInv, laneVars
  <2> QED
    BY <1>0, <1>2, <1>d, <1>e, <2>1, AheadDrawn, BehindDrawn
<1>4. Pending' => Pending /\ move' = move
  BY <1>0 DEF Pending
<1>5. Unsent' /\ AckMeansShown' /\ AckInv'
  BY <1>0, <1>1, <1>2, <1>e, <1>4, AcksKept DEF VideoOnly
<1>b. RawDead' = RawDead /\ VideoDead' = VideoDead
  BY <1>0, <1>a DEF RawDead, VideoDead
<1>6. VideoTyped'
  BY <1>0, <1>a DEF VideoTyped, VideoPixels, VideoLeg, PartsOf, Frozen, Last, IInv
<1>7. MoveTyped' /\ RawOrder' /\ VideoOrder'
  <2>1. VideoOrder'
    BY <1>0, <1>1, <1>a, VideoOrderKept DEF IInv, VideoOnly, VideoHolds
  <2>2. RawOrder'
    BY <1>0, <1>1, <1>4, RawOrderKept DEF IInv, VideoOnly, RawHolds, RawPixels
  <2> QED
    BY <1>0, <2>1, <2>2, MoveTypedKept DEF IInv
<1>8. MoveInv'
  BY <1>0, <1>2, <1>e, MoveInvKept DEF IInv
<1>9. Met'
  BY <1>a DEF Met
<1>c. \A t : (VideoDue(t) => VideoDue(t)') /\ (CopyDue(t) => CopyDue(t)')
  BY <1>0, <1>a DEF VideoDue, CopyDue, VideoPixels, VideoCopies, laneVars
<1>10. Remainders'
  BY <1>0, <1>2, <1>b, <1>c, RemaindersKept DEF IInv
<1>11. VideoShown' /\ RawShown'
  <2>1. \A b \in video.ends : shown'[b] >= s
    <3>1. s \in Nat
      BY <1>d DEF IInv, HostTyped, Last
    <3> QED
      BY <1>d, <1>e, <3>1, Beyond DEF Grows
  <2>2. VideoShown'
    BY <1>s, <1>a, <1>e, <2>1 DEF VideoShown
  <2>3. RawShown'
    BY <1>0, <1>e, RawShownKept DEF IInv, RawPixels
  <2> QED
    BY <2>2, <2>3
<1>12. Registered'
  BY <1>0, <1>2, <1>e, RegisteredKept DEF IInv
<1>13. InHand' /\ FailedInv'
  BY <1>0, <1>a, <1>b, InHandKept, FailedKept DEF IInv, RawPixels
<1>14. EndInv'
  BY <1>0, <1>a, <1>b, EndKept DEF IInv
<1>15. Owed'
  BY <1>0, <1>2, <1>b, <1>c, OwedKept DEF IInv, Alive
<1> QED
  BY <1>2, <1>e, <1>3, <1>5, <1>6, <1>7, <1>8, <1>9, <1>10, <1>11, <1>12, <1>13, <1>14, <1>15 DEF IInv

\* What the bulk reader has drawn is no longer due once it lets go of it.
LEMMA VideoGone ==
  ASSUME IInv, VideoPixels, video'.at = "read", bulk' = bulk, NEW s, s = video.msg.seq
  PROVE  /\ ~VideoDue(s)' /\ ~CopyDue(s)'
         /\ \A t : VideoDue(t) /\ t # s => VideoDue(t)'
         /\ \A t : CopyDue(t) => CopyDue(t)'
<1>1. \A i \in 1..Len(bulk) : bulk[i].seq # s
  <2>1. s \in Nat
    BY DEF IInv, VideoTyped, VideoLeg, HostTyped, Last
  <2> QED
    BY <2>1 DEF IInv, VideoOrder
<1>2. ~VideoDue(s)' /\ ~CopyDue(s)'
  BY <1>1 DEF VideoDue, CopyDue, VideoPixels, VideoCopies
<1> QED
  BY <1>2 DEF VideoDue, CopyDue, VideoPixels, VideoCopies

\* A video remainder ends its move, and the ACK is queued.
LEMMA VideoEndMoveKeeps == ASSUME IInv, VideoEndMove PROVE IInv'
<1>s. PICK s : s = video.msg.seq
  OBVIOUS
<1>0. /\ Frozen /\ UNCHANGED pixelVars /\ unacked' = unacked
      /\ pending' = pending /\ failed' = failed /\ raw' = raw /\ UNCHANGED laneVars
      /\ shown' = shown /\ failure' = failure /\ stop' = stop /\ sparse' = sparse /\ bulk' = bulk
      /\ ackQueue' = Append(ackQueue, s) /\ sent' = sent \cup {s} /\ move' = Idle
  BY <1>s DEF VideoEndMove, hostVars, doneVars, pixelVars, laneVars, endVars, Frozen
<1>a. /\ video.at = "finish" /\ video'.at = "read" /\ video' = At(video'.at, video'.msg, video'.ends)
      /\ VideoPixels /\ ~VideoPixels' /\ ~VideoCopies' /\ video.ends # {} /\ Owns(s) /\ ~Pending' /\ NoMove'
  BY <1>s, <1>0 DEF VideoEndMove, At, VideoPixels, VideoCopies, Reading, Pending, Idle, NoMove
<1>1. VideoOnly
  BY <1>0, <1>a DEF VideoEndMove, VideoOnly, Lanes, Shorter, VideoHolds, hostVars, laneVars, endVars, IInv, HostTyped
<1>2. /\ Fewer /\ HostTyped' /\ UpdatesReal' /\ LanesTyped' /\ RawTyped' /\ OrderInv'
      /\ \A t : (RawDue(t) => RawDue(t)') /\ (PreludeDue(t) => PreludeDue(t)')
  BY <1>1, VideoSide
<1>3. PixelsTyped' /\ CanvasInv' /\ Behind' /\ Ahead' /\ Grows
  BY <1>0, <1>2, PixelsKept
<1>b. RawDead' = RawDead /\ VideoDead' = VideoDead /\ ~VideoDead
  BY <1>0, <1>a DEF RawDead, VideoDead
<1>c. /\ s \in 1..Last /\ video.msg.cover = updates[s].video /\ updates[s].video # {}
      /\ video.ends = updates[s].copy /\ updates[s].copy # {}
  BY <1>s, <1>a DEF IInv, VideoTyped, VideoLeg
<1>d. /\ s \notin DOMAIN pending /\ s \notin failed /\ ~RawDue(s) /\ updates[s].raw = {}
      /\ RemOf(s) = "Video"
  BY <1>c, OneRemainder
<1>e. /\ ~VideoDue(s)' /\ ~CopyDue(s)'
      /\ \A t : VideoDue(t) /\ t # s => VideoDue(t)'
      /\ \A t : CopyDue(t) => CopyDue(t)'
  BY <1>s, <1>0, <1>a, VideoGone
<1>f. move.seq = s /\ Pending /\ s \notin sent /\ move # FailedMove
  BY <1>a DEF Owns, Pending, FailedMove, Unsent, IInv
<1>g. \A i \in 1..Len(sparse) : sparse[i].type = "prelude" => sparse[i].seq # s
  <2>1. s \in Nat
    BY <1>c DEF IInv, HostTyped, Last
  <2> QED
    BY <1>f, <2>1 DEF IInv, RawOrder
<1>5. Unsent' /\ AckMeansShown' /\ AckInv'
  <2>1. \A b \in Touched(s) : shown'[b] >= s
    BY <1>s, <1>0, <1>a, <1>c, <1>d DEF Touched, VideoShown, IInv
  <2>2. ~RawDue(s)'
    BY <1>2, <1>d DEF Fewer
  <2> QED
    BY <1>0, <1>1, <1>2, <1>3, <1>a, <1>c, <1>d, <1>e, <1>f, <1>g, <2>1, <2>2, Acked DEF VideoOnly
<1>6. VideoTyped'
  BY <1>a DEF VideoTyped
<1>7. MoveTyped' /\ RawOrder' /\ VideoOrder'
  <2>1. VideoOrder'
    BY <1>a DEF VideoOrder
  <2>2. RawOrder'
    BY <1>0, <1>1, <1>a, RawOrderKept DEF IInv, VideoOnly, RawHolds, RawPixels
  <2> QED
    BY <1>0, <2>1, <2>2, MoveTypedKept DEF IInv
<1>8. MoveInv'
  <2>1. ASSUME raw.at = "waitMove" PROVE raw.msg.seq = s
    BY <1>f, <2>1 DEF IInv, MoveInv, Owns, NoMove, Pending, Idle
  <2>2. RemOf(s)' = RemOf(s)
    BY <1>0 DEF Frozen, RemOf
  <2>3. raw'.at = "waitMove" => RemOf(raw.msg.seq)' # "Raw"
    BY <1>0, <1>d, <2>1, <2>2
  <2> QED
    BY <1>0, <1>a, <2>3 DEF MoveInv
<1>9. Met'
  BY <1>a DEF Met
<1>10. Remainders'
  <2>1. ASSUME NEW t \in 1..Last, updates[t].copy # {}, VideoDue(t)' PROVE CopyDue(t)'
    <3>1. VideoDue(t) /\ t # s
      BY <1>2, <1>e, <2>1 DEF Fewer
    <3> QED
      BY <1>b, <1>e, <1>f, <2>1, <3>1 DEF IInv, Remainders, Owns
  <2>2. ASSUME NEW t \in 1..Last, updates[t].copy # {}, RawDue(t)' PROVE PreludeDue(t)' \/ RawDead'
    <3>1. RawDue(t) /\ t # s
      BY <1>2, <1>d, <2>2 DEF Fewer
    <3> QED
      BY <1>2, <1>b, <1>f, <2>2, <3>1 DEF IInv, Remainders, Owns
  <2> QED
    BY <1>0, <2>1, <2>2 DEF Remainders, Frozen, Last
<1>11. VideoShown' /\ RawShown'
  BY <1>0, <1>3, <1>a, RawShownKept DEF IInv, VideoShown, RawPixels
<1>12. Registered'
  BY <1>0, <1>2, <1>3, RegisteredKept DEF IInv
<1>13. InHand' /\ FailedInv'
  BY <1>0, <1>a, <1>b, InHandKept, FailedKept DEF IInv, RawPixels
<1>14. EndInv'
  BY <1>0, <1>a, <1>b, EndKept DEF IInv
<1>15. Owed'
  BY <1>0, <1>2, <1>b, <1>e DEF IInv, Owed, Alive, Frozen, Last, Left, PartsOf
<1> QED
  BY <1>2, <1>3, <1>5, <1>6, <1>7, <1>8, <1>9, <1>10, <1>11, <1>12, <1>13, <1>14, <1>15 DEF IInv

\* The video leg of an update completes; if it was the last, the ACK is queued.
LEMMA VideoCompleteKeeps == ASSUME IInv, VideoComplete PROVE IInv'
<1>s. PICK s : s = video.msg.seq
  OBVIOUS
<1>0. /\ Frozen /\ UNCHANGED pixelVars /\ unacked' = unacked
      /\ failed' = failed /\ raw' = raw /\ UNCHANGED laneVars
      /\ shown' = shown /\ failure' = failure /\ stop' = stop /\ sparse' = sparse /\ bulk' = bulk
      /\ move' = move
  BY DEF VideoComplete, hostVars, syncVars, pixelVars, laneVars, endVars, Frozen
<1>a. /\ video.at = "finish" /\ video'.at = "read" /\ video' = At(video'.at, video'.msg, video'.ends)
      /\ VideoPixels /\ ~VideoPixels' /\ ~VideoCopies' /\ video.ends = {} /\ Complete(s, "VIDEO")
  BY <1>s DEF VideoComplete, At, VideoPixels, VideoCopies, Reading
<1>1. VideoOnly
  BY <1>0, <1>a DEF VideoComplete, VideoOnly, Lanes, Shorter, VideoHolds, hostVars, syncVars, laneVars, endVars, IInv, HostTyped
<1>2. /\ Fewer /\ HostTyped' /\ UpdatesReal' /\ LanesTyped' /\ RawTyped' /\ OrderInv'
      /\ \A t : (RawDue(t) => RawDue(t)') /\ (PreludeDue(t) => PreludeDue(t)')
  BY <1>1, VideoSide
<1>3. PixelsTyped' /\ CanvasInv' /\ Behind' /\ Ahead' /\ Grows
  BY <1>0, <1>2, PixelsKept
<1>b. RawDead' = RawDead /\ VideoDead' = VideoDead /\ ~VideoDead
  BY <1>0, <1>a DEF RawDead, VideoDead
<1>c. /\ s \in 1..Last /\ video.msg.cover = updates[s].video /\ s \notin failed
      /\ updates[s].copy = {} /\ s \in DOMAIN pending /\ VideoDue(s) /\ s \notin sent
  BY <1>s, <1>a, <1>b DEF IInv, VideoTyped, VideoLeg, InHand, VideoDue, Unsent, FailedInv
<1>d. /\ pending[s] \subseteq PartsOf(s) /\ "VIDEO" \in pending[s] /\ PartsOf(s) \subseteq Parts
      /\ RawDue(s) => "RAW" \in pending[s]
      /\ "RAW" \notin pending[s] => \A b \in updates[s].raw : shown[b] >= s
      /\ \A b \in updates[s].video : shown[b] >= s
  BY <1>s, <1>a, <1>c DEF IInv, Registered, VideoShown, PartsOf, Parts
<1>e. /\ ~VideoDue(s)' /\ ~CopyDue(s)'
      /\ \A t : VideoDue(t) /\ t # s => VideoDue(t)'
      /\ \A t : CopyDue(t) => CopyDue(t)'
  BY <1>s, <1>0, <1>a, VideoGone
<1>f. ~PreludeDue(s)
  BY <1>c, DueMeans DEF IInv
<1>4. Pending' => Pending /\ move'.seq = move.seq
  BY <1>0 DEF Pending
<1>g. Pending => move.seq # s
  BY <1>c DEF IInv, MoveTyped, MoveLeg, Pending, Idle, FailedMove
<1>h. /\ DOMAIN pending' \subseteq DOMAIN pending
      /\ \A t \in DOMAIN pending : t # s => t \in DOMAIN pending' /\ pending'[t] = pending[t]
      /\ s \in DOMAIN pending' => pending'[s] = pending[s] \ {"VIDEO"} /\ pending[s] # {"VIDEO"}
      /\ s \notin DOMAIN pending' => pending[s] = {"VIDEO"}
  BY <1>a, <1>c DEF Complete, CompletesMask, Forget
<1>5. Unsent' /\ AckMeansShown' /\ AckInv' /\ sent \subseteq sent' /\ (s \in sent' \/ s \in DOMAIN pending')
  <2>1. CASE pending[s] = {"VIDEO"}
    <3>1. CanAck
      BY <1>c, Room DEF IInv
    <3>2. ackQueue' = Append(ackQueue, s) /\ sent' = sent \cup {s}
      BY <1>a, <2>1, <3>1 DEF Complete, CompletesMask, EnqueueAck
    <3>3. s \notin DOMAIN pending'
      BY <1>h, <2>1
    <3>4. \A b \in Touched(s) : shown'[b] >= s
      BY <1>0, <1>c, <1>d, <2>1 DEF Touched
    <3>5. ~RawDue(s)'
      BY <1>2, <1>d, <2>1 DEF Fewer
    <3>6. \A i \in 1..Len(sparse) : sparse[i].type = "prelude" => sparse[i].seq # s
      BY <1>f DEF PreludeDue
    <3> QED
      BY <1>0, <1>1, <1>2, <1>3, <1>4, <1>a, <1>c, <1>e, <1>g, <1>h, <3>2, <3>3, <3>4, <3>5, <3>6, Acked DEF VideoOnly
  <2>2. CASE pending[s] # {"VIDEO"}
    <3>1. UNCHANGED ackVars
      BY <1>a, <2>2 DEF Complete, CompletesMask
    <3> QED
      BY <1>0, <1>1, <1>2, <1>3, <1>4, <1>h, <2>2, <3>1, AcksKept DEF VideoOnly, ackVars
  <2> QED
    BY <2>1, <2>2
<1>6. VideoTyped'
  BY <1>a DEF VideoTyped
<1>7. MoveTyped' /\ RawOrder' /\ VideoOrder'
  <2>1. VideoOrder'
    BY <1>a DEF VideoOrder
  <2>2. RawOrder'
    BY <1>0, <1>1, <1>4, RawOrderKept DEF IInv, VideoOnly, RawHolds, RawPixels
  <2> QED
    BY <1>0, <2>1, <2>2, MoveTypedKept DEF IInv
<1>8. MoveInv'
  BY <1>0, <1>2, <1>3, MoveInvKept DEF IInv
<1>9. Met'
  BY <1>a DEF Met
<1>10. Remainders'
  BY <1>0, <1>2, <1>b, <1>e, RemaindersKept DEF IInv
<1>11. VideoShown' /\ RawShown'
  BY <1>0, <1>3, <1>a, RawShownKept DEF IInv, VideoShown, RawPixels
<1>12. Registered'
  <2>1. ASSUME NEW t \in DOMAIN pending'
        PROVE  /\ t \in 1..Last /\ updates[t].copy = {}
               /\ pending'[t] # {} /\ pending'[t] \subseteq PartsOf(t)
               /\ "VIDEO" \notin pending'[t] => \A b \in updates[t].video : shown'[b] >= t
               /\ "RAW" \notin pending'[t] => \A b \in updates[t].raw : shown'[b] >= t
               /\ VideoDue(t)' => "VIDEO" \in pending'[t]
               /\ RawDue(t)' => "RAW" \in pending'[t]
    <3>1. CASE t # s
      BY <1>0, <1>2, <1>h, <3>1 DEF IInv, Registered, Fewer
    <3>2. CASE t = s
      BY <1>0, <1>2, <1>c, <1>d, <1>e, <1>h, <3>2 DEF Fewer
    <3> QED
      BY <3>1, <3>2
  <2> QED
    BY <1>0, <2>1 DEF Registered, Frozen, PartsOf, Last
<1>13. InHand' /\ FailedInv'
  <2>1. ASSUME RawPixels, raw.ends = {} PROVE raw.msg.seq \in DOMAIN pending' \cup failed
    <3>1. raw.msg.seq \in DOMAIN pending \cup failed /\ RawDue(raw.msg.seq)
      BY <2>1 DEF IInv, InHand, RawDue
    <3> QED
      BY <1>d, <1>h, <3>1
  <2>2. InHand'
    BY <1>0, <1>a, <2>1 DEF InHand, RawPixels
  <2>3. FailedInv'
    BY <1>0, <1>b, <1>h DEF IInv, FailedInv, Frozen, Last
  <2> QED
    BY <2>2, <2>3
<1>14. EndInv'
  BY <1>0, <1>a, <1>b, EndKept DEF IInv
<1>15. Owed'
  <2>1. ASSUME NEW t \in 1..Last, t \notin sent'
        PROVE  t \notin sent /\ IF t = s THEN Left(t)' = Left(t) \ {"VIDEO"} ELSE Left(t)' = Left(t)
    <3>1. CASE t = s
      BY <1>5, <1>c, <1>h, <2>1, <3>1 DEF Left
    <3>2. CASE t # s
      BY <1>0, <1>5, <1>h, <2>1, <3>2 DEF Left, PartsOf, Frozen
    <3> QED
      BY <3>1, <3>2
  <2>2. ASSUME Alive', NEW t \in 1..Last, t \notin sent'
        PROVE  /\ "VIDEO" \in Left(t)' => VideoDue(t)'
               /\ "RAW" \in Left(t)' => RawDue(t)'
               /\ PartsOf(t) = {} => CopyDue(t)'
    <3>1. Alive /\ t \notin sent
      BY <1>b, <2>1, <2>2 DEF Alive
    <3>2. /\ "VIDEO" \in Left(t) => VideoDue(t)
          /\ "RAW" \in Left(t) => RawDue(t)
          /\ PartsOf(t) = {} => CopyDue(t)
      BY <3>1 DEF IInv, Owed
    <3> QED
      BY <1>2, <1>e, <2>1, <2>2, <3>2
  <2> QED
    BY <1>0, <2>2 DEF Owed, Frozen, PartsOf, Last
<1> QED
  BY <1>2, <1>3, <1>5, <1>6, <1>7, <1>8, <1>9, <1>10, <1>11, <1>12, <1>13, <1>14, <1>15 DEF IInv

\* The bulk reader has waited out the raw remainder.
LEMMA VideoReturnsKeeps == ASSUME IInv, VideoReturns PROVE IInv'
<1>0. /\ Frozen /\ UNCHANGED <<pixelVars, ackVars>> /\ unacked' = unacked
      /\ pending' = pending /\ failed' = failed /\ raw' = raw /\ UNCHANGED laneVars
      /\ shown' = shown /\ sent' = sent /\ move' = move /\ failure' = failure /\ stop' = stop
  BY DEF VideoReturns, hostVars, doneVars, pixelVars, ackVars, syncVars, endVars, Frozen
<1>a. /\ video.at = "waitRaw" /\ video'.at = "read" /\ video' = At(video'.at, video'.msg, video'.ends)
      /\ ~VideoPixels /\ ~VideoPixels' /\ ~VideoCopies /\ ~VideoCopies'
  BY DEF VideoReturns, At, Reading, VideoPixels, VideoCopies
<1>1. VideoOnly
  BY <1>0, <1>a DEF VideoReturns, VideoOnly, Lanes, Shorter, VideoHolds, hostVars, laneVars, syncVars, endVars, IInv, HostTyped
<1>2. /\ Fewer /\ HostTyped' /\ UpdatesReal' /\ LanesTyped' /\ RawTyped' /\ OrderInv'
      /\ \A t : (RawDue(t) => RawDue(t)') /\ (PreludeDue(t) => PreludeDue(t)')
  BY <1>1, VideoSide
<1>3. PixelsTyped' /\ CanvasInv' /\ Behind' /\ Ahead' /\ Grows
  BY <1>0, <1>2, PixelsKept
<1>4. Pending' => Pending /\ move' = move
  BY <1>0 DEF Pending
<1>5. Unsent' /\ AckMeansShown' /\ AckInv'
  BY <1>0, <1>1, <1>2, <1>3, <1>4, AcksKept DEF VideoOnly
<1>b. RawDead' = RawDead /\ VideoDead' = VideoDead
  BY <1>0, <1>a DEF RawDead, VideoDead
<1>c. \A t : (VideoDue(t) => VideoDue(t)') /\ (CopyDue(t) => CopyDue(t)')
  BY <1>0, <1>a DEF VideoDue, CopyDue, laneVars
<1>6. VideoTyped'
  BY <1>a DEF VideoTyped
<1>7. MoveTyped' /\ RawOrder' /\ VideoOrder'
  <2>1. VideoOrder'
    BY <1>a DEF VideoOrder
  <2>2. RawOrder'
    BY <1>0, <1>1, <1>4, RawOrderKept DEF IInv, VideoOnly, RawHolds, RawPixels
  <2> QED
    BY <1>0, <2>1, <2>2, MoveTypedKept DEF IInv
<1>8. MoveInv'
  BY <1>0, <1>2, <1>3, MoveInvKept DEF IInv
<1>9. Met'
  BY <1>a DEF Met
<1>10. Remainders'
  BY <1>0, <1>2, <1>b, <1>c, RemaindersKept DEF IInv
<1>11. VideoShown' /\ RawShown'
  BY <1>0, <1>3, <1>a, RawShownKept DEF IInv, VideoShown, RawPixels
<1>12. Registered'
  BY <1>0, <1>2, <1>3, RegisteredKept DEF IInv
<1>13. InHand' /\ FailedInv'
  BY <1>0, <1>a, <1>b, InHandKept, FailedKept DEF IInv, RawPixels
<1>14. EndInv'
  BY <1>0, <1>a, <1>b, EndKept DEF IInv
<1>15. Owed'
  BY <1>0, <1>2, <1>b, <1>c, OwedKept DEF IInv, Alive
<1> QED
  BY <1>2, <1>3, <1>5, <1>6, <1>7, <1>8, <1>9, <1>10, <1>11, <1>12, <1>13, <1>14, <1>15 DEF IInv

\* The bulk reader fails or ends.
LEMMA VideoDiesKeeps == ASSUME IInv, VideoDies PROVE IInv'
<1>0. /\ Frozen /\ UNCHANGED <<pixelVars, ackVars>> /\ unacked' = unacked
      /\ pending' = pending /\ failed' = failed /\ raw' = raw /\ sparse' = sparse
      /\ VideoDead' /\ ~VideoPixels' /\ ~VideoCopies' /\ shown' = shown /\ sent' = sent
      /\ move' = move \/ move' = FailedMove
  BY DEF VideoDies, hostVars, doneVars, pixelVars, ackVars, VideoDead, VideoPixels, VideoCopies, Frozen
<1>a. video' = At(video'.at, video'.msg, video'.ends) /\ video'.at \in {"failing", "ended"}
  BY DEF VideoDies
<1>1. VideoOnly
  BY <1>0, <1>a DEF VideoDies, VideoOnly, Lanes, Shorter, VideoHolds, hostVars
<1>2. /\ Fewer /\ HostTyped' /\ UpdatesReal' /\ LanesTyped' /\ RawTyped' /\ OrderInv'
      /\ \A t : (RawDue(t) => RawDue(t)') /\ (PreludeDue(t) => PreludeDue(t)')
  BY <1>1, VideoSide
<1>3. PixelsTyped' /\ CanvasInv' /\ Behind' /\ Ahead' /\ Grows
  BY <1>0, <1>2, PixelsKept
<1>4. Pending' => Pending /\ move' = move
  BY <1>0 DEF Pending, FailedMove
<1>5. Unsent' /\ AckMeansShown' /\ AckInv'
  BY <1>0, <1>1, <1>2, <1>3, <1>4, AcksKept DEF VideoOnly
<1>b. RawDead' = RawDead
  BY <1>0 DEF RawDead
<1>6. VideoTyped'
  BY <1>a DEF VideoTyped, VideoPixels
<1>7. MoveTyped' /\ RawOrder' /\ VideoOrder'
  <2>1. VideoOrder'
    BY <1>0, <1>a DEF VideoOrder
  <2>2. RawOrder'
    BY <1>0, <1>1, <1>4, RawOrderKept DEF IInv, VideoOnly, RawHolds, RawPixels
  <2> QED
    BY <1>0, <2>1, <2>2, MoveTypedKept DEF IInv
<1>8. MoveInv'
  BY <1>0, <1>2, <1>3, MoveInvKept DEF IInv
<1>9. Met'
  BY <1>a DEF Met
<1>10. Remainders'
  BY <1>0, <1>2, <1>b, RemaindersKept DEF IInv
<1>11. VideoShown' /\ RawShown'
  BY <1>0, <1>3, <1>a, RawShownKept DEF IInv, VideoShown, RawPixels
<1>12. Registered'
  BY <1>0, <1>2, <1>3, RegisteredKept DEF IInv
<1>13. InHand' /\ FailedInv'
  BY <1>0, InHandKept, FailedKept DEF IInv, RawPixels
<1>14. EndInv' /\ Owed'
  BY <1>0 DEF VideoDies, EndInv, Full, Alive, Owed, IInv
<1> QED
  BY <1>2, <1>3, <1>5, <1>6, <1>7, <1>8, <1>9, <1>10, <1>11, <1>12, <1>13, <1>14 DEF IInv

\* A tile does not decode: the update is forgotten and its other leg refused.
LEMMA VideoSpoilsKeeps == ASSUME IInv, VideoSpoils PROVE IInv'
<1>s. PICK s : s = video.msg.seq
  OBVIOUS
<1>0. /\ Frozen /\ UNCHANGED <<pixelVars, ackVars>> /\ unacked' = unacked
      /\ raw' = raw /\ sparse' = sparse /\ move' = move /\ bulk' = bulk
      /\ shown' = shown /\ sent' = sent /\ failure' = failure /\ stop' = stop
      /\ pending' = Forget(s) /\ failed' = failed \cup {s}
  BY <1>s DEF VideoSpoils, hostVars, laneVars, syncVars, endVars, pixelVars, ackVars, Frozen
<1>a. /\ video' = At(video'.at, video'.msg, video'.ends) /\ video'.at = "failing"
      /\ video'.msg.type = "decode" /\ VideoDead' /\ ~VideoPixels' /\ ~VideoCopies'
      /\ video.at = "paint" /\ VideoPixels /\ video.ends = {} /\ ~VideoDead
  BY DEF VideoSpoils, Failing, At, VideoDead, VideoPixels, VideoCopies
<1>1. VideoOnly
  BY <1>0, <1>a DEF VideoSpoils, VideoOnly, Lanes, Shorter, VideoHolds, hostVars, syncVars, IInv, HostTyped
<1>2. /\ Fewer /\ HostTyped' /\ UpdatesReal' /\ LanesTyped' /\ RawTyped' /\ OrderInv'
      /\ \A t : (RawDue(t) => RawDue(t)') /\ (PreludeDue(t) => PreludeDue(t)')
  BY <1>1, VideoSide
<1>3. PixelsTyped' /\ CanvasInv' /\ Behind' /\ Ahead' /\ Grows
  BY <1>0, <1>2, PixelsKept
<1>4. Pending' => Pending /\ move' = move
  BY <1>0 DEF Pending
<1>c. s \in 1..Last /\ updates[s].copy = {} /\ s \in DOMAIN pending /\ s \notin sent /\ failed = {}
  BY <1>s, <1>a DEF IInv, VideoTyped, VideoLeg, InHand, VideoDue, Unsent, FailedInv
<1>d. /\ DOMAIN pending' = DOMAIN pending \ {s}
      /\ \A t \in DOMAIN pending' : pending'[t] = pending[t]
  BY <1>0 DEF Forget
<1>5. Unsent' /\ AckMeansShown' /\ AckInv'
  <2>1. \A i \in 1..Len(sparse') : \E k \in 1..Len(sparse) : sparse'[i] = sparse[k]
    BY <1>0
  <2>2. Unsent'
    BY <1>0, <1>2, <1>4, <1>c, <1>d DEF Unsent, Fewer, IInv
  <2>3. ackQueue' = ackQueue /\ desktop' = desktop
    BY <1>0 DEF ackVars, Frozen
  <2> QED
    BY <1>0, <1>3, <2>2, <2>3, AckMeansKept, AckKept DEF IInv
<1>b. RawDead' = RawDead
  BY <1>0 DEF RawDead
<1>6. VideoTyped'
  BY <1>a DEF VideoTyped, VideoPixels
<1>7. MoveTyped' /\ RawOrder' /\ VideoOrder'
  <2>1. VideoOrder'
    BY <1>a DEF VideoOrder
  <2>2. RawOrder'
    BY <1>0, <1>1, <1>4, RawOrderKept DEF IInv, VideoOnly, RawHolds, RawPixels
  <2> QED
    BY <1>0, <2>1, <2>2, MoveTypedKept DEF IInv
<1>8. MoveInv'
  BY <1>0, <1>2, <1>3, MoveInvKept DEF IInv
<1>9. Met'
  BY <1>a DEF Met
<1>10. Remainders'
  BY <1>0, <1>2, <1>a, <1>b, RemaindersKept DEF IInv
<1>11. VideoShown' /\ RawShown'
  BY <1>0, <1>3, <1>a, RawShownKept DEF IInv, VideoShown, RawPixels
<1>12. Registered'
  <2>1. ASSUME NEW t \in DOMAIN pending'
        PROVE  /\ t \in 1..Last /\ updates[t].copy = {}
               /\ pending'[t] # {} /\ pending'[t] \subseteq PartsOf(t)
               /\ "VIDEO" \notin pending'[t] => \A b \in updates[t].video : shown'[b] >= t
               /\ "RAW" \notin pending'[t] => \A b \in updates[t].raw : shown'[b] >= t
               /\ VideoDue(t)' => "VIDEO" \in pending'[t]
               /\ RawDue(t)' => "RAW" \in pending'[t]
    BY <1>0, <1>2, <1>d DEF IInv, Registered, Fewer
  <2> QED
    BY <1>0, <2>1 DEF Registered, Frozen, PartsOf, Last
<1>13. InHand' /\ FailedInv'
  <2>1. InHand'
    BY <1>0, <1>a, <1>d DEF IInv, InHand, RawPixels
  <2>2. FailedInv'
    BY <1>0, <1>a, <1>c, <1>d DEF FailedInv, Frozen, Last
  <2> QED
    BY <2>1, <2>2
<1>14. EndInv' /\ Owed'
  <2>1. "decode" # "acknowledgement queue full"
    OBVIOUS
  <2> QED
    BY <1>0, <1>a, <2>1 DEF EndInv, Alive, Owed, IInv
<1> QED
  BY <1>2, <1>3, <1>5, <1>6, <1>7, <1>8, <1>9, <1>10, <1>11, <1>12, <1>13, <1>14 DEF IInv

\* A fence is taken.
LEMMA FenceTakenKeeps == ASSUME IInv, FenceTaken PROVE IInv'
<1>s. PICK s : s = bulk[1].seq
  OBVIOUS
<1>0. /\ Frozen /\ UNCHANGED <<pixelVars, ackVars>> /\ unacked' = unacked
      /\ pending' = pending /\ failed' = failed /\ raw' = raw /\ sparse' = sparse
      /\ shown' = shown /\ sent' = sent /\ move' = move /\ failure' = failure /\ stop' = stop
  BY DEF FenceTaken, hostVars, doneVars, pixelVars, ackVars, syncVars, endVars, Frozen
<1>a. /\ video.at = "read" /\ video'.at = "fence" /\ video'.msg = bulk[1]
      /\ video' = At(video'.at, video'.msg, video'.ends) /\ ~VideoPixels /\ ~VideoCopies
      /\ ~VideoPixels' /\ VideoCopies'
      /\ bulk # <<>> /\ bulk[1].type = "fence" /\ bulk' = Tail(bulk)
  BY DEF FenceTaken, At, VideoPixels, VideoCopies
<1>b. VideoTakes
  BY <1>a DEF VideoTakes
<1>c. /\ Shorter(bulk', bulk) /\ 1 \in 1..Len(bulk)
      /\ \A t : (VideoDue(t) => VideoDue(t)') /\ (CopyDue(t) => CopyDue(t)')
      /\ \A i \in 1..Len(bulk') : \E k \in 1..Len(bulk) : 1 < k /\ bulk'[i] = bulk[k]
  BY <1>a, <1>b, VideoTaken DEF IInv
<1>1. VideoOnly
  BY <1>0, <1>b, <1>c DEF FenceTaken, VideoOnly, Lanes, Shorter, hostVars, syncVars, IInv, HostTyped
<1>2. /\ Fewer /\ HostTyped' /\ UpdatesReal' /\ LanesTyped' /\ RawTyped' /\ OrderInv'
      /\ \A t : (RawDue(t) => RawDue(t)') /\ (PreludeDue(t) => PreludeDue(t)')
  BY <1>1, VideoSide
<1>3. PixelsTyped' /\ CanvasInv' /\ Behind' /\ Ahead' /\ Grows
  BY <1>0, <1>2, PixelsKept
<1>d. FenceLeg(bulk[1])
  BY <1>a, <1>c DEF IInv, LanesTyped
<1>g. RawDead' = RawDead /\ VideoDead' = VideoDead
  BY <1>0, <1>a DEF RawDead, VideoDead
<1>4. Pending' => Pending /\ move' = move
  BY <1>0 DEF Pending
<1>5. Unsent' /\ AckMeansShown' /\ AckInv'
  BY <1>0, <1>1, <1>2, <1>3, <1>4, AcksKept DEF VideoOnly
<1>6. VideoTyped'
  BY <1>0, <1>a, <1>d DEF VideoTyped, FenceLeg, Frozen, Last
<1>7. MoveTyped' /\ RawOrder' /\ VideoOrder'
  <2>1. ASSUME NEW i \in 1..Len(bulk')
        PROVE  s < bulk'[i].seq \/ (s = bulk'[i].seq /\ bulk'[i].type = "video")
    <3>1. PICK k \in 1..Len(bulk) : 1 < k /\ bulk'[i] = bulk[k]
      BY <1>c
    <3> QED
      BY <1>s, <1>c, <3>1 DEF IInv, OrderInv
  <2>2. VideoOrder'
    BY <1>s, <1>a, <2>1 DEF VideoOrder
  <2>3. RawOrder'
    BY <1>0, <1>1, <1>4, RawOrderKept DEF IInv, VideoOnly, RawHolds, RawPixels
  <2> QED
    BY <1>0, <2>2, <2>3, MoveTypedKept DEF IInv
<1>8. MoveInv'
  BY <1>0, <1>2, <1>3, MoveInvKept DEF IInv
<1>9. Met'
  BY <1>a DEF Met
<1>10. Remainders'
  BY <1>0, <1>2, <1>c, <1>g, RemaindersKept DEF IInv
<1>11. VideoShown' /\ RawShown'
  BY <1>0, <1>3, <1>a, RawShownKept DEF IInv, VideoShown, RawPixels
<1>12. Registered'
  BY <1>0, <1>2, <1>3, RegisteredKept DEF IInv
<1>13. InHand' /\ FailedInv'
  BY <1>0, <1>a, <1>g, InHandKept, FailedKept DEF IInv, RawPixels
<1>14. EndInv'
  BY <1>0, <1>a, <1>g, EndKept DEF IInv
<1>15. Owed'
  BY <1>0, <1>2, <1>c, <1>g, OwedKept DEF IInv, Alive
<1> QED
  BY <1>2, <1>3, <1>5, <1>6, <1>7, <1>8, <1>9, <1>10, <1>11, <1>12, <1>13, <1>14, <1>15 DEF IInv

\* When both readers are at the move s, every update before it has been acknowledged.
LEMMA BeforeSent ==
  ASSUME IInv, video.at = "fence", raw.at = "waitMove",
         NEW s \in 1..Last, video.msg.seq = s, raw.msg.seq = s, NEW t \in 1..Last, t < s
  PROVE  t \in sent
<1>0. s \in Nat /\ t \in Nat /\ Alive /\ VideoCopies /\ ~VideoPixels /\ ~RawPixels
  BY DEF IInv, HostTyped, Last, Alive, VideoDead, RawDead, VideoCopies, VideoPixels, RawPixels
<1>1. /\ \A i \in 1..Len(bulk) : bulk[i].seq # t
      /\ \A i \in 1..Len(sparse) : sparse[i].seq # t
  <2>1. \A i \in 1..Len(bulk) : s < bulk[i].seq \/ s = bulk[i].seq
    BY <1>0 DEF IInv, VideoOrder
  <2>2. \A i \in 1..Len(sparse) : s < sparse[i].seq \/ s = sparse[i].seq
    BY DEF IInv, RawOrder
  <2> QED
    BY <1>0, <2>1, <2>2
<1>2. ~VideoDue(t) /\ ~RawDue(t) /\ ~CopyDue(t)
  BY <1>0, <1>1 DEF VideoDue, RawDue, CopyDue
<1>3. (Left(t) # {} /\ Left(t) \subseteq Parts) \/ PartsOf(t) = {}
  BY DEF Left, IInv, Registered, PartsOf, Parts
<1> QED
  BY <1>0, <1>2, <1>3 DEF IInv, Owed, Parts

\* The fence meets its prelude: everything before the move is on screen, nothing after it is.
LEMMA FenceMeetsKeeps == ASSUME IInv, FenceMeets PROVE IInv'
<1>s. PICK s : s = video.msg.seq
  OBVIOUS
<1>0. /\ Frozen /\ UNCHANGED <<pixelVars, ackVars>> /\ unacked' = unacked
      /\ pending' = pending /\ failed' = failed /\ raw' = raw /\ sparse' = sparse /\ bulk' = bulk
      /\ shown' = shown /\ sent' = sent /\ move' = move /\ failure' = failure /\ stop' = stop
  BY DEF FenceMeets, hostVars, laneVars, doneVars, pixelVars, ackVars, syncVars, endVars, Frozen
<1>a. /\ video.at = "fence" /\ video'.at = "apply" /\ video'.msg = move
      /\ video' = At(video'.at, video'.msg, video'.ends) /\ ~VideoPixels /\ VideoCopies
      /\ ~VideoPixels' /\ VideoCopies' /\ Owns(s)
  BY <1>s DEF FenceMeets, At, VideoPixels, VideoCopies
<1>b. move.seq = s /\ Pending /\ MoveLeg(move) /\ s \in 1..Last
  BY <1>a DEF Owns, Pending, Idle, FailedMove, MoveTyped, MoveLeg, IInv
<1>1. VideoOnly
  BY <1>s, <1>0, <1>a, <1>b DEF FenceMeets, VideoOnly, Lanes, Shorter, VideoHolds, hostVars, syncVars, IInv, HostTyped
<1>2. /\ Fewer /\ HostTyped' /\ UpdatesReal' /\ LanesTyped' /\ RawTyped' /\ OrderInv'
      /\ \A t : (RawDue(t) => RawDue(t)') /\ (PreludeDue(t) => PreludeDue(t)')
  BY <1>1, VideoSide
<1>3. PixelsTyped' /\ CanvasInv' /\ Behind' /\ Ahead' /\ Grows
  BY <1>0, <1>2, PixelsKept
<1>c. FenceDue(s) /\ ~move.applied /\ raw.at = "waitMove" /\ raw.msg.seq = s
  <2>1. FenceDue(s)
    BY <1>s, <1>a DEF FenceDue
  <2> QED
    BY <1>b, <2>1 DEF IInv, MoveInv
<1>d. \A b \in Blocks : shown[b] < s
  BY <1>b, <1>c DEF PreludeDue, IInv, Behind
<1>e. \A t \in 1..Last : t < s => \A b \in Touched(t) : shown[b] >= t
  BY <1>s, <1>a, <1>b, <1>c, BeforeSent DEF IInv, AckMeansShown
<1>g. RawDead' = RawDead /\ VideoDead' = VideoDead
  BY <1>0, <1>a DEF RawDead, VideoDead
<1>h. \A t : (VideoDue(t) => VideoDue(t)') /\ (CopyDue(t) => CopyDue(t)')
  BY <1>s, <1>0, <1>a, <1>b DEF VideoDue, CopyDue, VideoPixels, VideoCopies
<1>4. Pending' => Pending /\ move' = move
  BY <1>0 DEF Pending
<1>5. Unsent' /\ AckMeansShown' /\ AckInv'
  BY <1>0, <1>1, <1>2, <1>3, <1>4, AcksKept DEF VideoOnly
<1>6. VideoTyped'
  BY <1>0, <1>a, <1>b DEF VideoTyped, MoveLeg, RemOf, Frame, Frozen, Last
<1>7. MoveTyped' /\ RawOrder' /\ VideoOrder'
  <2>1. \A i \in 1..Len(bulk') : s < bulk'[i].seq \/ (s = bulk'[i].seq /\ bulk'[i].type = "video")
    BY <1>s, <1>0, <1>a DEF IInv, VideoOrder
  <2>2. \A i \in 1..Len(sparse') : s <= sparse'[i].seq
    <3>1. s \in Nat
      BY <1>b DEF IInv, HostTyped, Last
    <3>2. \A i \in 1..Len(sparse) : sparse[i].seq \in Nat
      BY DEF IInv, LanesTyped, RectsMessage, PreludeMessage
    <3> QED
      BY <1>0, <1>b, <3>1, <3>2 DEF IInv, RawOrder
  <2>3. VideoOrder'
    BY <1>a, <1>b, <2>1, <2>2 DEF VideoOrder
  <2>4. RawOrder'
    BY <1>0, <1>1, <1>4, RawOrderKept DEF IInv, VideoOnly, RawHolds, RawPixels
  <2> QED
    BY <1>0, <2>3, <2>4, MoveTypedKept DEF IInv
<1>8. MoveInv'
  BY <1>0, <1>2, <1>3, MoveInvKept DEF IInv
<1>9. Met'
  BY <1>0, <1>a, <1>b, <1>c DEF Met, Owns, Pending
<1>10. Remainders'
  BY <1>0, <1>2, <1>g, <1>h, RemaindersKept DEF IInv
<1>11. VideoShown' /\ RawShown'
  <2>1. \A t \in 1..Last' : t < s => \A b \in Touched(t)' : shown'[b] >= t
    BY <1>0, <1>e DEF Frozen, Last, Touched
  <2> QED
    BY <1>0, <1>3, <1>a, <1>b, <1>d, <2>1, RawShownKept DEF IInv, VideoShown, RawPixels
<1>12. Registered'
  BY <1>0, <1>2, <1>3, RegisteredKept DEF IInv
<1>13. InHand' /\ FailedInv'
  BY <1>0, <1>a, <1>g, InHandKept, FailedKept DEF IInv, RawPixels
<1>14. EndInv'
  BY <1>0, <1>a, <1>g, EndKept DEF IInv
<1>15. Owed'
  BY <1>0, <1>2, <1>h, <1>g, OwedKept DEF IInv, Alive
<1> QED
  BY <1>2, <1>3, <1>5, <1>6, <1>7, <1>8, <1>9, <1>10, <1>11, <1>12, <1>13, <1>14, <1>15 DEF IInv

\* What the move copies is what the host's frame s has there: nothing drew on its source since.
LEMMA SourceCurrent ==
  ASSUME IInv, video.at = "apply", NEW s \in 1..Last, s = video.msg.seq
  PROVE  canvas[video.msg.src] = Frame(s)[video.msg.dst]
<1> DEFINE a == video.msg.src
<1>1. /\ a \in Blocks /\ video.msg.dst \in Blocks /\ s \in Nat /\ s # 0 /\ Last \in Nat /\ s <= Last
      /\ desktop[s][video.msg.dst] = Frame(s - 1)[a]
  BY DEF IInv, VideoTyped, MoveLeg, HostTyped, Last
<1>2. /\ shown[a] < s /\ shown[a] <= Last /\ canvas[a] = Frame(shown[a])[a] /\ shown[a] \in Nat
  BY <1>1, VisualAssumption DEF IInv, VideoShown, CanvasInv, PixelsTyped
<1>3. \A u \in 1..Last : shown[a] < u /\ u <= s - 1 => a \notin Touched(u)
  <2>1. ASSUME NEW u \in 1..Last, shown[a] < u, u <= s - 1 PROVE a \notin Touched(u)
    <3>1. u < s /\ ~(shown[a] >= u)
      BY <1>1, <1>2, <2>1
    <3> QED
      BY <3>1 DEF IInv, VideoShown
  <2> QED
    BY <2>1
<1>4. shown[a] \in 0..Last /\ s - 1 \in 0..Last /\ shown[a] <= s - 1
  BY <1>1, <1>2
<1>5. Frame(s - 1)[a] = Frame(shown[a])[a]
  BY <1>1, <1>3, <1>4 DEF IInv, UpdatesReal
<1> QED
  BY <1>1, <1>2, <1>5 DEF Frame

\* The move is copied, from a source that shows the baseline.
LEMMA FenceCopiesKeeps == ASSUME IInv, FenceCopies PROVE IInv'
<1>s. PICK s : s = video.msg.seq
  OBVIOUS
<1>x. PICK x : x = video.msg.dst
  OBVIOUS
<1>0. /\ Frozen /\ UNCHANGED ackVars /\ unacked' = unacked
      /\ pending' = pending /\ failed' = failed /\ raw' = raw /\ sparse' = sparse /\ bulk' = bulk
      /\ sent' = sent /\ move' = move /\ failure' = failure /\ stop' = stop
      /\ canvas' = [canvas EXCEPT ![x] = canvas[video.msg.src]]
      /\ shown' = [shown EXCEPT ![x] = s]
      /\ fences' = fences \/ fences' = Commit(s, {x})
  BY <1>s, <1>x DEF FenceCopies, hostVars, laneVars, doneVars, ackVars, syncVars, endVars, Frozen
<1>a. /\ video.at = "apply" /\ video'.at = "mark" /\ video'.msg = video.msg
      /\ video' = At(video'.at, video'.msg, video'.ends) /\ ~VideoPixels /\ VideoCopies
      /\ ~VideoPixels' /\ VideoCopies'
  BY DEF FenceCopies, At, VideoPixels, VideoCopies
<1>b. MoveLeg(video.msg) /\ s \in 1..Last /\ x \in Blocks /\ s \in Nat /\ video.msg.src \in Blocks
  BY <1>s, <1>x, <1>a DEF IInv, VideoTyped, MoveLeg, HostTyped, Last
<1>1. VideoOnly
  BY <1>s, <1>0, <1>a, <1>b DEF FenceCopies, VideoOnly, Lanes, Shorter, VideoHolds, hostVars, syncVars, IInv, HostTyped
<1>2. /\ Fewer /\ HostTyped' /\ UpdatesReal' /\ LanesTyped' /\ RawTyped' /\ OrderInv'
      /\ \A t : (RawDue(t) => RawDue(t)') /\ (PreludeDue(t) => PreludeDue(t)')
  BY <1>1, VideoSide
<1>c. /\ \A b \in Blocks : shown[b] < s /\ shown[b] \in Nat /\ fences[b] \in Nat /\ fences[b] <= shown[b]
      /\ shown \in [Blocks -> 0..MaxSeq] /\ fences \in [Blocks -> 0..MaxSeq]
      /\ canvas \in [Blocks -> Content] /\ s \in 0..MaxSeq /\ s <= Last
  BY <1>s, <1>a, <1>b, VisualAssumption DEF IInv, VideoShown, CanvasInv, PixelsTyped, HostTyped, Last
<1>d. /\ \A b \in Blocks : b # x => shown'[b] = shown[b] /\ canvas'[b] = canvas[b] /\ fences'[b] = fences[b]
      /\ shown'[x] = s /\ canvas'[x] = canvas[video.msg.src]
      /\ fences'[x] = fences[x] \/ fences'[x] = s
      /\ fences' \in [Blocks -> 0..MaxSeq]
  <2>1. CASE fences' = fences
    BY <1>0, <1>b, <1>c, <2>1
  <2>2. CASE fences' = Commit(s, {x})
    <3>1. fences' = [b \in Blocks |-> IF b = x /\ fences[b] < s THEN s ELSE fences[b]]
      BY <2>2 DEF Commit
    <3> QED
      BY <1>0, <1>b, <1>c, <3>1
  <2> QED
    BY <1>0, <2>1, <2>2
<1>e. Grows
  BY <1>b, <1>c, <1>d DEF Grows
<1>f. PixelsTyped'
  BY <1>0, <1>b, <1>c, <1>d DEF PixelsTyped
<1>g. CanvasInv'
  <2>1. ASSUME NEW b \in Blocks
        PROVE  canvas'[b] = Frame(shown'[b])[b] /\ fences'[b] <= shown'[b] /\ shown'[b] <= Last
    <3>1. CASE b = x
      <4>1. canvas'[b] = Frame(s)[b]
        BY <1>s, <1>x, <1>a, <1>b, <1>d, <3>1, SourceCurrent
      <4> QED
        BY <1>b, <1>c, <1>d, <3>1, <4>1
    <3>2. CASE b # x
      BY <1>d, <3>2 DEF IInv, CanvasInv
    <3> QED
      BY <3>1, <3>2
  <2>2. \A t : Frame(t)' = Frame(t)
    BY <1>0 DEF Frozen, Frame
  <2>3. Last' = Last
    BY <1>0 DEF Frozen, Last
  <2> QED
    BY <2>1, <2>2, <2>3 DEF CanvasInv
<1>h. raw.at \notin {"base", "paint", "finish"} /\ ~RawPixels
  BY <1>a DEF IInv, Met, RawDead, RawPixels
<1>i. /\ \A i \in 1..Len(bulk) : s < bulk[i].seq \/ (s = bulk[i].seq /\ bulk[i].type = "video")
      /\ \A i \in 1..Len(sparse) : s <= sparse[i].seq
  BY <1>s, <1>a DEF IInv, VideoOrder
<1>3. Behind' /\ Ahead'
  <2>1. \A t \in 1..Last : FenceDue(t)' => s < t
    BY <1>0, <1>a, <1>i DEF FenceDue
  <2>2. \A b \in Blocks : shown'[b] = shown[b] \/ shown'[b] = s
    BY <1>d
  <2>3. Behind'
    BY <1>0, <1>2, <1>b, <2>1, <2>2, BehindDrawn
  <2>4. \A t \in 1..Last : VideoDue(t)' \/ RawDue(t)' => s <= t
    <3>1. \A t \in 1..Last : VideoDue(t)' => s <= t
      BY <1>0, <1>a, <1>b, <1>i DEF VideoDue
    <3>2. \A t \in 1..Last : RawDue(t)' => s <= t
      BY <1>0, <1>h, <1>i DEF RawDue, RawPixels
    <3> QED
      BY <3>1, <3>2
  <2>5. ASSUME NEW b \in Blocks
        PROVE  shown'[b] = fences'[b] \/ \A t \in 1..Last : VideoDue(t)' \/ RawDue(t)' => shown'[b] <= t
    <3>1. CASE b = x
      BY <1>d, <2>4, <3>1
    <3>2. CASE b # x
      BY <1>2, <1>d, <3>2 DEF IInv, Ahead, Fewer
    <3> QED
      BY <3>1, <3>2
  <2>6. Ahead'
    BY <1>0, <2>5 DEF Ahead, Frozen, Last
  <2> QED
    BY <2>3, <2>6
<1>j. RawDead' = RawDead /\ VideoDead' = VideoDead
  BY <1>0, <1>a DEF RawDead, VideoDead
<1>k. \A t : (VideoDue(t) => VideoDue(t)') /\ (CopyDue(t) => CopyDue(t)')
  BY <1>0, <1>a DEF VideoDue, CopyDue, VideoPixels, VideoCopies
<1>4. Pending' => Pending /\ move' = move
  BY <1>0 DEF Pending
<1>5. Unsent' /\ AckMeansShown' /\ AckInv'
  BY <1>0, <1>1, <1>2, <1>e, <1>4, AcksKept DEF VideoOnly
<1>6. VideoTyped'
  BY <1>0, <1>a, <1>b DEF VideoTyped, MoveLeg, RemOf, Frame, Frozen, Last
<1>7. MoveTyped' /\ RawOrder' /\ VideoOrder'
  <2>1. VideoOrder'
    BY <1>0, <1>1, <1>a, VideoOrderKept DEF IInv, VideoOnly, VideoHolds
  <2>2. RawOrder'
    BY <1>0, <1>1, <1>4, RawOrderKept DEF IInv, VideoOnly, RawHolds, RawPixels
  <2> QED
    BY <1>0, <2>1, <2>2, MoveTypedKept DEF IInv
<1>8. MoveInv'
  BY <1>0, <1>2, <1>e, MoveInvKept DEF IInv
<1>9. Met'
  BY <1>0, <1>a, <1>j, MetKept DEF IInv
<1>10. Remainders'
  BY <1>0, <1>2, <1>j, <1>k, RemaindersKept DEF IInv
<1>11. VideoShown' /\ RawShown'
  <2>1. VideoShown'
    BY <1>s, <1>x, <1>a, <1>b, <1>d DEF VideoShown
  <2>2. RawShown'
    BY <1>0, <1>e, RawShownKept DEF IInv, RawPixels
  <2> QED
    BY <2>1, <2>2
<1>12. Registered'
  BY <1>0, <1>2, <1>e, RegisteredKept DEF IInv
<1>13. InHand' /\ FailedInv'
  BY <1>0, <1>a, <1>j, InHandKept, FailedKept DEF IInv, RawPixels
<1>14. EndInv'
  BY <1>0, <1>a, <1>j, EndKept DEF IInv
<1>15. Owed'
  BY <1>0, <1>2, <1>k, <1>j, OwedKept DEF IInv, Alive
<1> QED
  BY <1>2, <1>f, <1>g, <1>3, <1>5, <1>6, <1>7, <1>8, <1>9, <1>10, <1>11, <1>12, <1>13, <1>14, <1>15 DEF IInv

\* A move without remainder is complete, and its ACK queued.
LEMMA MoveEndsKeeps == ASSUME IInv, MoveEnds PROVE IInv'
<1>s. PICK s : s = video.msg.seq
  OBVIOUS
<1>0. /\ Frozen /\ UNCHANGED pixelVars /\ unacked' = unacked
      /\ pending' = pending /\ failed' = failed /\ raw' = raw /\ UNCHANGED laneVars
      /\ shown' = shown /\ failure' = failure /\ stop' = stop /\ sparse' = sparse /\ bulk' = bulk
      /\ ackQueue' = Append(ackQueue, s) /\ sent' = sent \cup {s} /\ move' = Idle
  BY <1>s DEF MoveEnds, hostVars, doneVars, pixelVars, laneVars, endVars, Frozen
<1>a. /\ video.at = "mark" /\ video'.at = "read" /\ video' = At(video'.at, video'.msg, video'.ends)
      /\ ~VideoPixels /\ ~VideoPixels' /\ VideoCopies /\ ~VideoCopies'
      /\ Owns(s) /\ move.remainder = "None" /\ ~Pending' /\ NoMove'
  BY <1>s, <1>0 DEF MoveEnds, At, VideoPixels, VideoCopies, Reading, Pending, Idle, NoMove
<1>1. VideoOnly
  BY <1>0, <1>a DEF MoveEnds, VideoOnly, Lanes, Shorter, VideoHolds, hostVars, laneVars, endVars, IInv, HostTyped
<1>2. /\ Fewer /\ HostTyped' /\ UpdatesReal' /\ LanesTyped' /\ RawTyped' /\ OrderInv'
      /\ \A t : (RawDue(t) => RawDue(t)') /\ (PreludeDue(t) => PreludeDue(t)')
  BY <1>1, VideoSide
<1>3. PixelsTyped' /\ CanvasInv' /\ Behind' /\ Ahead' /\ Grows
  BY <1>0, <1>2, PixelsKept
<1>b. RawDead' = RawDead /\ VideoDead' = VideoDead /\ ~VideoDead
  BY <1>0, <1>a DEF RawDead, VideoDead
<1>c. /\ s \in 1..Last /\ RemOf(s) = "None" /\ updates[s].copy # {}
      /\ updates[s].copy = {video.msg.dst}
  BY <1>s, <1>a DEF Owns, Pending, Idle, FailedMove, MoveTyped, VideoTyped, MoveLeg, IInv
<1>d. /\ s \notin DOMAIN pending /\ s \notin failed /\ updates[s].raw = {} /\ updates[s].video = {}
      /\ ~RawDue(s) /\ ~VideoDue(s)
  <2>1. updates[s].raw = {} /\ updates[s].video = {}
    BY <1>c DEF RemOf
  <2> QED
    BY <1>c, <2>1, OneRemainder, DueMeans DEF IInv
<1>n. s \in Nat
  BY <1>c DEF IInv, HostTyped, Last
<1>e. /\ ~CopyDue(s)'
      /\ \A t : VideoDue(t) => VideoDue(t)'
      /\ \A t : CopyDue(t) /\ t # s => CopyDue(t)'
  <2>1. \A i \in 1..Len(bulk) : bulk[i].type = "fence" => bulk[i].seq # s
    BY <1>s, <1>a, <1>n DEF IInv, VideoOrder
  <2>2. ~CopyDue(s)'
    BY <1>0, <1>a, <2>1 DEF CopyDue
  <2> QED
    BY <1>s, <1>0, <1>a, <2>2 DEF VideoDue, CopyDue
<1>f. move.seq = s /\ Pending /\ s \notin sent /\ move # FailedMove
  BY <1>a DEF Owns, Pending, FailedMove, Unsent, IInv
<1>g. \A i \in 1..Len(sparse) : sparse[i].type = "prelude" => sparse[i].seq # s
  BY <1>f, <1>n DEF IInv, RawOrder
<1>5. Unsent' /\ AckMeansShown' /\ AckInv'
  <2>1. \A b \in Touched(s) : shown'[b] >= s
    BY <1>s, <1>0, <1>a, <1>c, <1>d DEF Touched, VideoShown, IInv
  <2>2. ~RawDue(s)' /\ ~VideoDue(s)'
    BY <1>2, <1>d DEF Fewer
  <2> QED
    BY <1>0, <1>1, <1>2, <1>3, <1>a, <1>c, <1>d, <1>e, <1>f, <1>g, <2>1, <2>2, Acked DEF VideoOnly
<1>6. VideoTyped'
  BY <1>a DEF VideoTyped
<1>7. MoveTyped' /\ RawOrder' /\ VideoOrder'
  <2>1. VideoOrder'
    BY <1>a DEF VideoOrder
  <2>2. RawOrder'
    BY <1>0, <1>1, <1>a, RawOrderKept DEF IInv, VideoOnly, RawHolds, RawPixels
  <2> QED
    BY <1>0, <2>1, <2>2, MoveTypedKept DEF IInv
<1>8. MoveInv'
  <2>1. ASSUME raw.at = "waitMove" PROVE raw.msg.seq = s
    BY <1>f, <2>1 DEF IInv, MoveInv, Owns, NoMove, Pending, Idle
  <2>2. RemOf(s)' = RemOf(s)
    BY <1>0 DEF Frozen, RemOf
  <2>3. raw'.at = "waitMove" => RemOf(raw.msg.seq)' # "Raw"
    BY <1>0, <1>c, <2>1, <2>2
  <2> QED
    BY <1>0, <1>a, <2>3 DEF MoveInv
<1>9. Met'
  BY <1>a DEF Met
<1>10. Remainders'
  <2>1. ASSUME NEW t \in 1..Last, updates[t].copy # {}, VideoDue(t)' PROVE CopyDue(t)'
    <3>1. VideoDue(t) /\ t # s
      BY <1>2, <1>d, <2>1 DEF Fewer
    <3> QED
      BY <1>b, <1>e, <1>f, <2>1, <3>1 DEF IInv, Remainders, Owns
  <2>2. ASSUME NEW t \in 1..Last, updates[t].copy # {}, RawDue(t)' PROVE PreludeDue(t)' \/ RawDead'
    <3>1. RawDue(t) /\ t # s
      BY <1>2, <1>d, <2>2 DEF Fewer
    <3> QED
      BY <1>2, <1>b, <1>f, <2>2, <3>1 DEF IInv, Remainders, Owns
  <2> QED
    BY <1>0, <2>1, <2>2 DEF Remainders, Frozen, Last
<1>11. VideoShown' /\ RawShown'
  BY <1>0, <1>3, <1>a, RawShownKept DEF IInv, VideoShown, RawPixels
<1>12. Registered'
  BY <1>0, <1>2, <1>3, RegisteredKept DEF IInv
<1>13. InHand' /\ FailedInv'
  BY <1>0, <1>a, <1>b, InHandKept, FailedKept DEF IInv, RawPixels
<1>14. EndInv'
  BY <1>0, <1>a, <1>b, EndKept DEF IInv
<1>15. Owed'
  BY <1>0, <1>2, <1>b, <1>e DEF IInv, Owed, Alive, Frozen, Last, Left, PartsOf
<1> QED
  BY <1>2, <1>3, <1>5, <1>6, <1>7, <1>8, <1>9, <1>10, <1>11, <1>12, <1>13, <1>14, <1>15 DEF IInv

\* A move waits for its remainder.
LEMMA MoveAppliedKeeps == ASSUME IInv, MoveApplied PROVE IInv'
<1>s. PICK s : s = video.msg.seq
  OBVIOUS
<1>0. /\ Frozen /\ UNCHANGED <<pixelVars, ackVars>> /\ unacked' = unacked
      /\ pending' = pending /\ failed' = failed /\ raw' = raw /\ UNCHANGED laneVars
      /\ shown' = shown /\ failure' = failure /\ stop' = stop /\ sparse' = sparse /\ bulk' = bulk
      /\ sent' = sent /\ move' = [move EXCEPT !.applied = TRUE]
  BY <1>s DEF MoveApplied, hostVars, doneVars, pixelVars, ackVars, laneVars, endVars, Frozen
<1>a. /\ video.at = "mark" /\ video'.at \in {"read", "waitRaw"} /\ video' = At(video'.at, video'.msg, video'.ends)
      /\ ~VideoPixels /\ ~VideoPixels' /\ VideoCopies /\ ~VideoCopies'
      /\ Owns(s) /\ move.remainder # "None"
  BY <1>s DEF MoveApplied, At, VideoPixels, VideoCopies, Reading
<1>1. VideoOnly
  BY <1>0, <1>a DEF MoveApplied, VideoOnly, Lanes, Shorter, VideoHolds, hostVars, laneVars, endVars, IInv, HostTyped
<1>2. /\ Fewer /\ HostTyped' /\ UpdatesReal' /\ LanesTyped' /\ RawTyped' /\ OrderInv'
      /\ \A t : (RawDue(t) => RawDue(t)') /\ (PreludeDue(t) => PreludeDue(t)')
  BY <1>1, VideoSide
<1>3. PixelsTyped' /\ CanvasInv' /\ Behind' /\ Ahead' /\ Grows
  BY <1>0, <1>2, PixelsKept
<1>b. RawDead' = RawDead /\ VideoDead' = VideoDead /\ ~VideoDead
  BY <1>0, <1>a DEF RawDead, VideoDead
<1>c. /\ s \in 1..Last /\ MoveLeg(move) /\ move \in MoveRecord /\ move.seq = s /\ Pending /\ move # FailedMove
      /\ updates[s].copy = {video.msg.dst} /\ updates[s].copy = {move.dst}
  BY <1>s, <1>a DEF Owns, Pending, Idle, FailedMove, MoveTyped, VideoTyped, MoveLeg, IInv
<1>d. /\ move'.state = "Pending" /\ move'.seq = s /\ move'.applied = TRUE /\ move'.dst = move.dst
      /\ move'.src = move.src /\ move'.remainder = move.remainder /\ move' \in MoveRecord
  BY <1>0, <1>c DEF MoveRecord
<1>f. PartsOf(s) # {}
  BY <1>a, <1>c DEF MoveLeg, RemOf, PartsOf
<1>n. s \in Nat
  BY <1>c DEF IInv, HostTyped, Last
<1>g. \A i \in 1..Len(bulk) : bulk[i].type = "fence" => bulk[i].seq # s
  BY <1>s, <1>a, <1>n DEF IInv, VideoOrder
<1>e. /\ \A t : VideoDue(t) => VideoDue(t)'
      /\ \A t : CopyDue(t) /\ t # s => CopyDue(t)'
      /\ ~FenceDue(s)'
  <2>1. ~FenceDue(s)'
    BY <1>0, <1>a, <1>g DEF FenceDue
  <2> QED
    BY <1>s, <1>0, <1>a, <2>1 DEF VideoDue, CopyDue
<1>4. Pending' => Pending /\ move'.seq = move.seq
  BY <1>c, <1>d
<1>5. Unsent' /\ AckMeansShown' /\ AckInv'
  BY <1>0, <1>1, <1>2, <1>3, <1>4, AcksKept DEF VideoOnly
<1>6. VideoTyped'
  BY <1>a DEF VideoTyped, VideoPixels
<1>7. MoveTyped' /\ RawOrder' /\ VideoOrder'
  <2>1. VideoOrder'
    BY <1>a DEF VideoOrder
  <2>2. RawOrder'
    BY <1>0, <1>1, <1>4, RawOrderKept DEF IInv, VideoOnly, RawHolds, RawPixels
  <2>3. MoveTyped'
    BY <1>0, <1>c, <1>d DEF MoveTyped, MoveLeg, RemOf, Frame, Frozen, Last
  <2> QED
    BY <2>1, <2>2, <2>3
<1>8. MoveInv'
  <2>1. shown'[move'.dst] >= move'.seq
    BY <1>s, <1>0, <1>a, <1>c, <1>d DEF IInv, VideoShown
  <2>2. \A t : t = move'.seq => ~FenceDue(t)'
    BY <1>d, <1>e
  <2>3. raw'.at = "waitMove" => Owns(raw.msg.seq)'
    BY <1>0, <1>c, <1>d DEF IInv, MoveInv, Owns, NoMove, Pending, Idle
  <2>4. move'.applied = TRUE
    BY <1>d
  <2> HIDE DEF FenceDue
  <2>5. Pending' /\ move'.applied => ~FenceDue(move.seq)'
    BY <2>2 DEF FenceDue
  <2> QED
    BY <1>0, <2>1, <2>3, <2>4, <2>5 DEF MoveInv
<1>9. Met'
  BY <1>a DEF Met
<1>10. Remainders'
  <2>1. ASSUME NEW t \in 1..Last, updates[t].copy # {}, VideoDue(t)'
        PROVE  CopyDue(t)' \/ (Owns(t)' /\ move'.applied)
    <3>1. VideoDue(t)
      BY <1>2, <2>1 DEF Fewer
    <3> QED
      BY <1>b, <1>c, <1>d, <1>e, <2>1, <3>1 DEF IInv, Remainders, Owns, Pending
  <2>2. ASSUME NEW t \in 1..Last, updates[t].copy # {}, RawDue(t)'
        PROVE  PreludeDue(t)' \/ (Owns(t)' /\ move'.applied) \/ RawDead'
    <3>1. RawDue(t)
      BY <1>2, <2>2 DEF Fewer
    <3> QED
      BY <1>2, <1>b, <1>c, <1>d, <2>2, <3>1 DEF IInv, Remainders, Owns, Pending
  <2> QED
    BY <1>0, <2>1, <2>2 DEF Remainders, Frozen, Last
<1>11. VideoShown' /\ RawShown'
  BY <1>0, <1>3, <1>a, RawShownKept DEF IInv, VideoShown, RawPixels
<1>12. Registered'
  BY <1>0, <1>2, <1>3, RegisteredKept DEF IInv
<1>13. InHand' /\ FailedInv'
  BY <1>0, <1>a, <1>b, InHandKept, FailedKept DEF IInv, RawPixels
<1>14. EndInv'
  BY <1>0, <1>a, <1>b, EndKept DEF IInv
<1>15. Owed'
  BY <1>0, <1>2, <1>b, <1>e, <1>f, OwedKept DEF IInv, Alive
<1> QED
  BY <1>2, <1>3, <1>5, <1>6, <1>7, <1>8, <1>9, <1>10, <1>11, <1>12, <1>13, <1>14, <1>15 DEF IInv

\* Every event of the bulk reader keeps the invariant.
LEMMA VideoEventKeeps == ASSUME IInv, VideoEvent PROVE IInv'
  BY VideoRegisterKeeps, VideoEndKeeps, VideoDrawKeeps, VideoEndMoveKeeps, VideoCompleteKeeps,
     FenceTakenKeeps, FenceMeetsKeeps, FenceCopiesKeeps, MoveEndsKeeps, MoveAppliedKeeps,
     VideoReturnsKeeps, VideoSpoilsKeeps, VideoDiesKeeps DEF VideoEvent

\* Every event of the sparse reader keeps the invariant.
LEMMA RawEventKeeps == ASSUME IInv, RawEvent PROVE IInv'
  BY RectsRegisterKeeps, RectsEndKeeps, RectsHeldKeeps, RectsDrawKeeps, RectsEndMoveKeeps,
     RectsCompleteKeeps, PreludeRegisterKeeps, RawReturnsKeeps, RawDiesKeeps DEF RawEvent

-----------------------------------------------------------------------------
(* The ACK writer, and steps that leave the visual state alone.            *)

\* A step that only moves acknowledgements keeps the invariant if it keeps the queue.
LEMMA QuietKeeps ==
  ASSUME IInv, Frozen, sent' = sent, AckInv',
         UNCHANGED <<orderly, laneVars, video, raw, syncVars, doneVars, pixelVars, endVars>>
  PROVE  IInv'
<1>0. /\ UNCHANGED <<orderly, bulk, sparse, video, raw, hasBase, baseReady, move, pending, failed>>
      /\ UNCHANGED <<fences, canvas, shown, stop, failure>>
  BY DEF laneVars, syncVars, doneVars, pixelVars, endVars
<1>1. Lanes /\ VideoHolds /\ RawHolds
  BY <1>0 DEF Lanes, Shorter, VideoHolds, RawHolds, VideoPixels, VideoCopies, RawPixels
<1>2. Fewer
  BY <1>1, FewerAfter DEF IInv
<1>3. HostTyped' /\ UpdatesReal'
  BY <1>0, HostKept DEF IInv, HostTyped
<1>4. LanesTyped' /\ VideoTyped' /\ RawTyped' /\ MoveTyped'
  BY <1>0, <1>1, LanesKept, VideoTypedKept, RawTypedKept, MoveTypedKept DEF IInv
<1>5. OrderInv' /\ VideoOrder' /\ RawOrder'
  BY <1>0, <1>1, OrderKept, VideoOrderKept, RawOrderKept DEF IInv, Pending
<1>6. PixelsTyped' /\ CanvasInv' /\ Behind' /\ Ahead' /\ Grows
  BY <1>2, PixelsKept
<1>7. MoveInv' /\ Met'
  BY <1>0, <1>2, <1>6, MoveInvKept, MetKept DEF IInv, RawDead
<1>8. VideoDead' = VideoDead /\ RawDead' = RawDead
  BY <1>0 DEF VideoDead, RawDead
<1>9. \A s : /\ VideoDue(s)' = VideoDue(s) /\ RawDue(s)' = RawDue(s)
             /\ CopyDue(s)' = CopyDue(s) /\ PreludeDue(s)' = PreludeDue(s)
  BY <1>0 DEF VideoDue, RawDue, CopyDue, PreludeDue, VideoPixels, VideoCopies, RawPixels
<1>10. Remainders'
  BY <1>0, <1>2, <1>8, <1>9, RemaindersKept DEF IInv
<1>11. VideoShown' /\ RawShown'
  BY <1>0, <1>6, VideoShownKept, RawShownKept DEF IInv, RawPixels
<1>12. Registered'
  BY <1>0, <1>2, <1>6, RegisteredKept DEF IInv
<1>13. InHand' /\ FailedInv'
  BY <1>0, <1>8, InHandKept, FailedKept DEF IInv, RawPixels, VideoPixels
<1>14. Unsent' /\ AckMeansShown'
  BY <1>0, <1>1, <1>2, <1>6, UnsentKept, AckMeansKept DEF IInv, Pending
<1>15. EndInv'
  BY <1>0, <1>8, EndKept DEF IInv
<1>16. Owed'
  BY <1>0, <1>8, <1>9, OwedKept DEF IInv, Alive
<1> QED
  BY <1>3, <1>4, <1>5, <1>6, <1>7, <1>10, <1>11, <1>12, <1>13, <1>14, <1>15, <1>16 DEF IInv

\* Stuttering keeps the invariant.
LEMMA StutterKeeps == ASSUME IInv, UNCHANGED vars PROVE IInv'
<1>1. Frozen /\ sent' = sent /\ ackQueue' = ackQueue /\ unacked' = unacked /\ desktop' = desktop
  BY DEF vars, hostVars, ackVars, Frozen
<1>2. AckInv'
  BY <1>1, AckKept DEF IInv
<1> QED
  BY <1>1, <1>2, QuietKeeps DEF vars, hostVars

\* An ACK is written: it leaves the queue and releases its permit.
LEMMA AckWriterKeeps == ASSUME IInv, AckWriter PROVE IInv'
<1>h. PICK h : h = ackQueue[1]
  OBVIOUS
<1>0. ackQueue \in Seq(Sequence) /\ ackQueue # <<>>
  BY DEF AckWriter, IInv, AckInv
<1>1. /\ Tail(ackQueue) \in Seq(Sequence) /\ Len(Tail(ackQueue)) = Len(ackQueue) - 1 /\ Len(ackQueue) \in Nat
      /\ 1 \in 1..Len(ackQueue) /\ Head(ackQueue) = h
      /\ \A i \in 1..Len(Tail(ackQueue)) :
           Tail(ackQueue)[i] = ackQueue[i + 1] /\ i + 1 \in 1..Len(ackQueue) /\ 1 < i + 1
      /\ \A k \in 1..Len(ackQueue) : k = 1 \/ \E i \in 1..Len(Tail(ackQueue)) : Tail(ackQueue)[i] = ackQueue[k]
  BY <1>h, <1>0, TailOf, StillThere, FirstOf
<1>2. ackQueue' = Tail(ackQueue) /\ unacked' = unacked \ {h} /\ sent' = sent /\ desktop' = desktop
  BY <1>1 DEF AckWriter
<1>3. h \in sent /\ h \in unacked /\ h \in Queued
  <2>1. h \in Queued
    BY <1>h, <1>1 DEF Queued
  <2> QED
    BY <2>1 DEF IInv, AckInv
<1>4. Queued' = Queued \ {h}
  <2>1. ASSUME NEW i \in 1..Len(ackQueue') PROVE ackQueue'[i] \in Queued /\ ackQueue'[i] # h
    <3>1. ackQueue'[i] = ackQueue[i + 1] /\ i + 1 \in 1..Len(ackQueue) /\ i + 1 # 1
      BY <1>1, <1>2, <2>1
    <3> QED
      BY <1>h, <1>1, <3>1 DEF Queued, IInv, AckInv
  <2>2. ASSUME NEW k \in 1..Len(ackQueue), ackQueue[k] # h
        PROVE  \E i \in 1..Len(ackQueue') : ackQueue'[i] = ackQueue[k]
    BY <1>h, <1>1, <1>2, <2>2
  <2> QED
    BY <2>1, <2>2 DEF Queued
<1>5. \A i, j \in 1..Len(ackQueue') : ackQueue'[i] = ackQueue'[j] => i = j
  <2>1. ASSUME NEW i \in 1..Len(ackQueue'), NEW j \in 1..Len(ackQueue'), ackQueue'[i] = ackQueue'[j]
        PROVE  i = j
    <3>1. ackQueue[i + 1] = ackQueue[j + 1] /\ i + 1 \in 1..Len(ackQueue) /\ j + 1 \in 1..Len(ackQueue)
      BY <1>1, <1>2, <2>1
    <3>2. i + 1 = j + 1
      BY <3>1 DEF IInv, AckInv
    <3> QED
      BY <1>1, <1>2, <3>2
  <2> QED
    BY <2>1
<1>6. /\ IsFiniteSet(unacked') /\ Cardinality(unacked') <= MAX_OUTSTANDING
      /\ Cardinality(Queued') = Len(ackQueue')
  <2>1. IsFiniteSet(unacked) /\ IsFiniteSet(Queued) /\ Cardinality(unacked) \in Nat /\ MAX_OUTSTANDING \in Nat
    BY FS_Subset, FS_CardinalityType, VisualAssumption DEF IInv, AckInv
  <2>2. /\ IsFiniteSet(unacked \ {h}) /\ Cardinality(unacked \ {h}) = Cardinality(unacked) - 1
        /\ Cardinality(Queued \ {h}) = Cardinality(Queued) - 1
    BY <1>3, <2>1, FS_RemoveElement
  <2> QED
    BY <1>1, <1>2, <1>4, <2>1, <2>2 DEF IInv, AckInv
<1>7. /\ ackQueue' \in Seq(Sequence) /\ unacked' \subseteq 1..Last /\ sent' \subseteq 1..Last
      /\ (1..Last) \ unacked' \subseteq sent' /\ Queued' = sent' \cap unacked'
  BY <1>1, <1>2, <1>3, <1>4 DEF IInv, AckInv
<1>8. AckInv'
  BY <1>2, <1>5, <1>6, <1>7 DEF AckInv, Last
<1>9. Frozen
  BY DEF AckWriter, Frozen
<1> QED
  BY <1>2, <1>8, <1>9, QuietKeeps DEF AckWriter

-----------------------------------------------------------------------------
(* The host schedules an update: frame is the desktop it leads to, d what  *)
(* it draws.                                                               *)

PartsIn(d) == (IF d.video = {} THEN {} ELSE {"VIDEO"}) \cup (IF d.raw = {} THEN {} ELSE {"RAW"})
RemIn(d) == IF d.video # {} THEN "Video" ELSE IF d.raw # {} THEN "Raw" ELSE "None"
DrawnIn(d) == d.video \cup d.raw \cup d.copy

\* The frame differs from the one before only in what is drawn, and a move has one remainder.
RealUpdate(frame, d) ==
  /\ DrawnIn(d) # {}
  /\ d.copy # {} => (d.video = {} \/ d.raw = {})
  /\ \A b \in Blocks : b \notin DrawnIn(d) => frame[b] = Before[b]

\* The messages an update adds to its lanes.
NewBulk(m, d) ==
  /\ m.seq = Last + 1
  /\ m.type = "video" => m.parts = PartsIn(d) /\ m.cover = d.video /\ d.video # {}
  /\ m.type = "fence" => d.copy # {}
NewSparse(m, frame, d) ==
  /\ m.seq = Last + 1
  /\ m.type = "rects" => m.parts = PartsIn(d) /\ m.cover = d.raw /\ d.raw # {}
  /\ m.type = "prelude" => /\ m.src \in Blocks /\ m.dst \in Blocks /\ d.copy = {m.dst}
                           /\ m.remainder = RemIn(d) /\ frame[m.dst] = Before[m.src]

BulkGrown(d) ==
  /\ bulk' \in Seq(VideoMessage \cup FenceMessage)
  /\ \A i \in 1..Len(bulk) : i \in 1..Len(bulk') /\ bulk'[i] = bulk[i]
  /\ \A i \in 1..Len(bulk') : i \in 1..Len(bulk) \/ NewBulk(bulk'[i], d)
  /\ \A i, j \in 1..Len(bulk') : i < j /\ i \notin 1..Len(bulk) =>
       bulk'[i].type = "fence" /\ bulk'[j].type = "video" /\ j \notin 1..Len(bulk)
  /\ d.video # {} => \E i \in 1..Len(bulk') : bulk'[i].type = "video" /\ bulk'[i].seq = Last + 1
  /\ d.copy # {} => \E i \in 1..Len(bulk') : bulk'[i].type = "fence" /\ bulk'[i].seq = Last + 1

SparseGrown(frame, d) ==
  /\ sparse' \in Seq(RectsMessage \cup PreludeMessage)
  /\ \A i \in 1..Len(sparse) : i \in 1..Len(sparse') /\ sparse'[i] = sparse[i]
  /\ \A i \in 1..Len(sparse') : i \in 1..Len(sparse) \/ NewSparse(sparse'[i], frame, d)
  /\ \A i, j \in 1..Len(sparse') : i < j /\ i \notin 1..Len(sparse) =>
       sparse'[i].type = "prelude" /\ sparse'[j].type = "rects" /\ j \notin 1..Len(sparse)
  /\ d.raw # {} => \E i \in 1..Len(sparse') : sparse'[i].type = "rects" /\ sparse'[i].seq = Last + 1
  /\ d.copy # {} => \E i \in 1..Len(sparse') : sparse'[i].type = "prelude" /\ sparse'[i].seq = Last + 1

\* A sequence with one more element.
LEMMA AddOne ==
  ASSUME NEW S, NEW q \in Seq(S), NEW m \in S, NEW r, r = Append(q, m)
  PROVE  /\ r \in Seq(S) /\ Len(q) + 1 \in 1..Len(r) /\ r[Len(q) + 1] = m
         /\ \A i \in 1..Len(q) : i \in 1..Len(r) /\ r[i] = q[i]
         /\ \A i \in 1..Len(r) : i \in 1..Len(q) \/ i = Len(q) + 1
         /\ \A i, j \in 1..Len(r) : i < j => i \in 1..Len(q)
  OBVIOUS

\* A sequence with two more elements.
LEMMA AddTwo ==
  ASSUME NEW S, NEW q \in Seq(S), NEW m \in S, NEW n \in S, NEW r, r = Append(Append(q, m), n)
  PROVE  /\ r \in Seq(S) /\ Len(q) + 1 \in 1..Len(r) /\ r[Len(q) + 1] = m
         /\ Len(q) + 2 \in 1..Len(r) /\ r[Len(q) + 2] = n /\ Len(q) + 2 \notin 1..Len(q)
         /\ \A i \in 1..Len(q) : i \in 1..Len(r) /\ r[i] = q[i]
         /\ \A i \in 1..Len(r) : i \in 1..Len(q) \/ i = Len(q) + 1 \/ i = Len(q) + 2
         /\ \A i, j \in 1..Len(r) : i < j /\ i \notin 1..Len(q) => i = Len(q) + 1 /\ j = Len(q) + 2
<1>1. /\ Append(q, m) \in Seq(S) /\ Len(Append(q, m)) = Len(q) + 1 /\ Len(q) \in Nat
      /\ Append(q, m)[Len(q) + 1] = m
      /\ \A i \in 1..Len(q) : Append(q, m)[i] = q[i]
  OBVIOUS
<1>2. /\ r \in Seq(S) /\ Len(r) = Len(q) + 2 /\ r[Len(q) + 2] = n
      /\ \A i \in 1..(Len(q) + 1) : r[i] = Append(q, m)[i]
  BY <1>1
<1> QED
  BY <1>1, <1>2

\* What the bulk lane may gain from an update that draws d.
LEMMA BulkGrows ==
  ASSUME IInv, NEW d \in Drawing, NEW v \in VideoMessage, NEW f \in FenceMessage,
         v.type = "video", v.seq = Last + 1, v.parts = PartsIn(d), v.cover = d.video,
         f.type = "fence", f.seq = Last + 1,
         \/ bulk' = bulk /\ d.video = {} /\ d.copy = {}
         \/ bulk' = Append(bulk, v) /\ d.video # {} /\ d.copy = {}
         \/ bulk' = Append(bulk, f) /\ d.video = {} /\ d.copy # {}
         \/ bulk' = Append(Append(bulk, f), v) /\ d.video # {} /\ d.copy # {}
  PROVE  BulkGrown(d)
<1> DEFINE S == VideoMessage \cup FenceMessage
<1>0. bulk \in Seq(S) /\ v \in S /\ f \in S
  BY DEF IInv, LanesTyped
<1>1. NewBulk(v, d) \/ d.video = {}
  BY DEF NewBulk
<1>2. NewBulk(f, d) \/ d.copy = {}
  BY DEF NewBulk
<1>3. CASE bulk' = bulk /\ d.video = {} /\ d.copy = {}
  <2>1. \A i, j \in 1..Len(bulk) : i < j /\ i \notin 1..Len(bulk) => FALSE
    OBVIOUS
  <2> QED
    BY <1>0, <1>3, <2>1 DEF BulkGrown
<1>4. CASE bulk' = Append(bulk, v) /\ d.video # {} /\ d.copy = {}
  <2> HIDE DEF S
  <2>1. /\ bulk' \in Seq(S) /\ Len(bulk) + 1 \in 1..Len(bulk') /\ bulk'[Len(bulk) + 1] = v
        /\ \A i \in 1..Len(bulk) : i \in 1..Len(bulk') /\ bulk'[i] = bulk[i]
        /\ \A i \in 1..Len(bulk') : i \in 1..Len(bulk) \/ i = Len(bulk) + 1
        /\ \A i, j \in 1..Len(bulk') : i < j => i \in 1..Len(bulk)
    BY <1>0, <1>4, AddOne
  <2> QED
    BY <1>1, <1>4, <2>1 DEF BulkGrown, S
<1>5. CASE bulk' = Append(bulk, f) /\ d.video = {} /\ d.copy # {}
  <2> HIDE DEF S
  <2>1. /\ bulk' \in Seq(S) /\ Len(bulk) + 1 \in 1..Len(bulk') /\ bulk'[Len(bulk) + 1] = f
        /\ \A i \in 1..Len(bulk) : i \in 1..Len(bulk') /\ bulk'[i] = bulk[i]
        /\ \A i \in 1..Len(bulk') : i \in 1..Len(bulk) \/ i = Len(bulk) + 1
        /\ \A i, j \in 1..Len(bulk') : i < j => i \in 1..Len(bulk)
    BY <1>0, <1>5, AddOne
  <2> QED
    BY <1>2, <1>5, <2>1 DEF BulkGrown, S
<1>6. CASE bulk' = Append(Append(bulk, f), v) /\ d.video # {} /\ d.copy # {}
  <2> HIDE DEF S
  <2>1. /\ bulk' \in Seq(S) /\ Len(bulk) + 1 \in 1..Len(bulk') /\ bulk'[Len(bulk) + 1] = f
        /\ Len(bulk) + 2 \in 1..Len(bulk') /\ bulk'[Len(bulk) + 2] = v /\ Len(bulk) + 2 \notin 1..Len(bulk)
        /\ \A i \in 1..Len(bulk) : i \in 1..Len(bulk') /\ bulk'[i] = bulk[i]
        /\ \A i \in 1..Len(bulk') : i \in 1..Len(bulk) \/ i = Len(bulk) + 1 \/ i = Len(bulk) + 2
        /\ \A i, j \in 1..Len(bulk') : i < j /\ i \notin 1..Len(bulk) => i = Len(bulk) + 1 /\ j = Len(bulk) + 2
    BY <1>0, <1>6, AddTwo
  <2> QED
    BY <1>1, <1>2, <1>6, <2>1 DEF BulkGrown, S
<1> QED
  BY <1>3, <1>4, <1>5, <1>6

\* What the sparse lane may gain from it.
LEMMA SparseGrows ==
  ASSUME IInv, NEW frame, NEW d \in Drawing, NEW v \in RectsMessage, NEW f \in PreludeMessage,
         v.type = "rects", v.seq = Last + 1, v.parts = PartsIn(d), v.cover = d.raw,
         f.type = "prelude", f.seq = Last + 1,
         d.copy # {} => d.copy = {f.dst} /\ f.remainder = RemIn(d) /\ frame[f.dst] = Before[f.src],
         \/ sparse' = sparse /\ d.raw = {} /\ d.copy = {}
         \/ sparse' = Append(sparse, v) /\ d.raw # {} /\ d.copy = {}
         \/ sparse' = Append(sparse, f) /\ d.raw = {} /\ d.copy # {}
         \/ sparse' = Append(Append(sparse, f), v) /\ d.raw # {} /\ d.copy # {}
  PROVE  SparseGrown(frame, d)
<1> DEFINE S == RectsMessage \cup PreludeMessage
<1>0. sparse \in Seq(S) /\ v \in S /\ f \in S
  BY DEF IInv, LanesTyped
<1>1. NewSparse(v, frame, d) \/ d.raw = {}
  BY DEF NewSparse
<1>2. NewSparse(f, frame, d) \/ d.copy = {}
  <2>1. f.src \in Blocks /\ f.dst \in Blocks
    BY DEF PreludeMessage
  <2> QED
    BY <2>1 DEF NewSparse
<1>3. CASE sparse' = sparse /\ d.raw = {} /\ d.copy = {}
  <2>1. \A i, j \in 1..Len(sparse) : i < j /\ i \notin 1..Len(sparse) => FALSE
    OBVIOUS
  <2> QED
    BY <1>0, <1>3, <2>1 DEF SparseGrown
<1>4. CASE sparse' = Append(sparse, v) /\ d.raw # {} /\ d.copy = {}
  <2> HIDE DEF S
  <2>1. /\ sparse' \in Seq(S) /\ Len(sparse) + 1 \in 1..Len(sparse') /\ sparse'[Len(sparse) + 1] = v
        /\ \A i \in 1..Len(sparse) : i \in 1..Len(sparse') /\ sparse'[i] = sparse[i]
        /\ \A i \in 1..Len(sparse') : i \in 1..Len(sparse) \/ i = Len(sparse) + 1
        /\ \A i, j \in 1..Len(sparse') : i < j => i \in 1..Len(sparse)
    BY <1>0, <1>4, AddOne
  <2> QED
    BY <1>1, <1>4, <2>1 DEF SparseGrown, S
<1>5. CASE sparse' = Append(sparse, f) /\ d.raw = {} /\ d.copy # {}
  <2> HIDE DEF S
  <2>1. /\ sparse' \in Seq(S) /\ Len(sparse) + 1 \in 1..Len(sparse') /\ sparse'[Len(sparse) + 1] = f
        /\ \A i \in 1..Len(sparse) : i \in 1..Len(sparse') /\ sparse'[i] = sparse[i]
        /\ \A i \in 1..Len(sparse') : i \in 1..Len(sparse) \/ i = Len(sparse) + 1
        /\ \A i, j \in 1..Len(sparse') : i < j => i \in 1..Len(sparse)
    BY <1>0, <1>5, AddOne
  <2> QED
    BY <1>2, <1>5, <2>1 DEF SparseGrown, S
<1>6. CASE sparse' = Append(Append(sparse, f), v) /\ d.raw # {} /\ d.copy # {}
  <2> HIDE DEF S
  <2>1. /\ sparse' \in Seq(S) /\ Len(sparse) + 1 \in 1..Len(sparse') /\ sparse'[Len(sparse) + 1] = f
        /\ Len(sparse) + 2 \in 1..Len(sparse') /\ sparse'[Len(sparse) + 2] = v /\ Len(sparse) + 2 \notin 1..Len(sparse)
        /\ \A i \in 1..Len(sparse) : i \in 1..Len(sparse') /\ sparse'[i] = sparse[i]
        /\ \A i \in 1..Len(sparse') : i \in 1..Len(sparse) \/ i = Len(sparse) + 1 \/ i = Len(sparse) + 2
        /\ \A i, j \in 1..Len(sparse') : i < j /\ i \notin 1..Len(sparse) => i = Len(sparse) + 1 /\ j = Len(sparse) + 2
    BY <1>0, <1>6, AddTwo
  <2> QED
    BY <1>1, <1>2, <1>6, <2>1 DEF SparseGrown, S
<1> QED
  BY <1>3, <1>4, <1>5, <1>6

\* The host's latest frame.
LEMMA BeforeTyped ==
  ASSUME IInv
  PROVE  /\ Before \in [Blocks -> Content] /\ Before = Frame(Last) /\ Last \in Nat
         /\ Last < MaxSeq => Last + 1 \in 0..MaxSeq
         /\ \A cover \in SUBSET Blocks : Last < MaxSeq =>
              /\ Fresh(Last + 1, cover, Before) \in [Blocks -> Content]
              /\ \A b \in Blocks : b \notin cover => Fresh(Last + 1, cover, Before)[b] = Before[b]
<1>0. Last \in Nat /\ MaxSeq \in Nat /\ desktop \in Seq([Blocks -> Content])
  BY VisualAssumption DEF IInv, HostTyped, Last
<1>1. Before \in [Blocks -> Content] /\ Before = Frame(Last)
  <2>1. CASE Last = 0
    BY <1>0, <2>1 DEF Before, Frame, None, Content
  <2>2. CASE Last # 0
    <3>1. Last \in 1..Len(desktop)
      BY <1>0, <2>2 DEF Last
    <3> QED
      BY <1>0, <2>2, <3>1 DEF Before, Frame
  <2> QED
    BY <2>1, <2>2
<1>2. ASSUME Last < MaxSeq PROVE Last + 1 \in 0..MaxSeq
  BY <1>0, <1>2
<1>3. ASSUME NEW cover \in SUBSET Blocks, Last < MaxSeq
      PROVE  /\ Fresh(Last + 1, cover, Before) \in [Blocks -> Content]
             /\ \A b \in Blocks : b \notin cover => Fresh(Last + 1, cover, Before)[b] = Before[b]
  BY <1>1, <1>2, <1>3 DEF Fresh, Content
<1> QED
  BY <1>0, <1>1, <1>2, <1>3

Update(frame, d) ==
  /\ frame \in [Blocks -> Content] /\ d \in Drawing
  /\ Schedule(frame, d) /\ RealUpdate(frame, d) /\ BulkGrown(d) /\ SparseGrown(frame, d)

\* A recovery frame is an update.
LEMMA RecoveryUpdates == ASSUME IInv, SendRecovery PROVE \E frame, d : Update(frame, d)
<1> DEFINE frame == Fresh(Last + 1, Blocks, Before)
<1> DEFINE d == Drawn(Blocks, {}, {})
<1>b. PICK b \in Blocks : TRUE
  BY VisualAssumption
<1>0. Schedule(frame, d) /\ Last < MaxSeq /\ Last \in Nat
  BY BeforeTyped DEF SendRecovery, Schedule
<1>1. d \in Drawing /\ d.video = Blocks /\ d.raw = {} /\ d.copy = {}
  BY DEF Drawn, Drawing
<1>2. frame \in [Blocks -> Content]
  BY <1>0, BeforeTyped
<1>3. RealUpdate(frame, d)
  BY <1>b, <1>1 DEF RealUpdate, DrawnIn
<1> HIDE DEF d, frame
<1>4. BulkGrown(d)
  <2>1. PartsIn(d) = {"VIDEO"}
    BY <1>b, <1>1 DEF PartsIn
  <2> DEFINE v == Video(Last + 1, "Recovery", {"VIDEO"}, Blocks)
  <2> DEFINE f == [type |-> "fence", baseline |-> Last, seq |-> Last + 1]
  <2>2. /\ v \in VideoMessage /\ v.type = "video" /\ v.seq = Last + 1 /\ v.parts = PartsIn(d) /\ v.cover = d.video
        /\ f \in FenceMessage /\ f.type = "fence" /\ f.seq = Last + 1
    BY <1>0, <1>1, <2>1 DEF Video, VideoMessage, FenceMessage, Parts
  <2>3. bulk' = Append(bulk, v) /\ d.video # {} /\ d.copy = {}
    BY <1>b, <1>1 DEF SendRecovery
  <2> HIDE DEF v, f
  <2> QED
    BY <1>1, <2>2, <2>3, BulkGrows
<1>5. SparseGrown(frame, d)
  <2> DEFINE v == Rects(Last + 1, PartsIn(d), d.raw)
  <2> DEFINE f == [type |-> "prelude", baseline |-> Last, seq |-> Last + 1, src |-> b, dst |-> b,
                   remainder |-> "None"]
  <2>2. /\ v \in RectsMessage /\ v.type = "rects" /\ v.seq = Last + 1 /\ v.parts = PartsIn(d) /\ v.cover = d.raw
        /\ f \in PreludeMessage /\ f.type = "prelude" /\ f.seq = Last + 1
    BY <1>0, <1>1, <1>b DEF Rects, RectsMessage, PreludeMessage, Parts, PartsIn, Remainder
  <2>3. sparse' = sparse
    BY DEF SendRecovery
  <2> HIDE DEF v, f
  <2> QED
    BY <1>1, <2>2, <2>3, SparseGrows
<1> QED
  BY <1>0, <1>1, <1>2, <1>3, <1>4, <1>5 DEF Update

\* So are regional pixels, in one leg or in two.
LEMMA UpdateUpdates ==
  ASSUME IInv, NEW videoCover \in SUBSET Blocks, NEW rawCover \in SUBSET Blocks,
         SendUpdate(videoCover, rawCover)
  PROVE  \E frame, d : Update(frame, d)
<1> DEFINE frame == Fresh(Last + 1, videoCover \cup rawCover, Before)
<1> DEFINE d == Drawn(videoCover, rawCover, {})
<1>b. PICK b \in Blocks : TRUE
  BY VisualAssumption
<1>0. Schedule(frame, d) /\ Last < MaxSeq /\ Last \in Nat
  BY BeforeTyped DEF SendUpdate, Schedule
<1>1. d \in Drawing /\ d.video = videoCover /\ d.raw = rawCover /\ d.copy = {}
  BY DEF Drawn, Drawing
<1>2. frame \in [Blocks -> Content] /\ \A x \in Blocks : x \notin videoCover \cup rawCover => frame[x] = Before[x]
  BY <1>0, BeforeTyped
<1>3. RealUpdate(frame, d)
  BY <1>1, <1>2 DEF RealUpdate, DrawnIn, SendUpdate
<1> HIDE DEF d, frame
<1>p. PartsIn(d) = (IF videoCover = {} THEN {} ELSE {"VIDEO"}) \cup (IF rawCover = {} THEN {} ELSE {"RAW"})
  BY <1>1 DEF PartsIn
<1>q. PartsIn(d) \subseteq Parts
  BY DEF PartsIn, Parts
<1>4. BulkGrown(d)
  <2> DEFINE v == Video(Last + 1, "Regional", PartsIn(d), videoCover)
  <2> DEFINE f == [type |-> "fence", baseline |-> Last, seq |-> Last + 1]
  <2>2. /\ v \in VideoMessage /\ v.type = "video" /\ v.seq = Last + 1 /\ v.parts = PartsIn(d) /\ v.cover = d.video
        /\ f \in FenceMessage /\ f.type = "fence" /\ f.seq = Last + 1
    BY <1>0, <1>1, <1>q DEF Video, VideoMessage, FenceMessage
  <2>3. bulk' = IF videoCover = {} THEN bulk ELSE Append(bulk, v)
    BY <1>p DEF SendUpdate
  <2> HIDE DEF v, f
  <2> QED
    BY <1>1, <2>2, <2>3, BulkGrows
<1>5. SparseGrown(frame, d)
  <2> DEFINE v == Rects(Last + 1, PartsIn(d), rawCover)
  <2> DEFINE f == [type |-> "prelude", baseline |-> Last, seq |-> Last + 1, src |-> b, dst |-> b,
                   remainder |-> "None"]
  <2>2. /\ v \in RectsMessage /\ v.type = "rects" /\ v.seq = Last + 1 /\ v.parts = PartsIn(d) /\ v.cover = d.raw
        /\ f \in PreludeMessage /\ f.type = "prelude" /\ f.seq = Last + 1
    BY <1>0, <1>1, <1>b, <1>q DEF Rects, RectsMessage, PreludeMessage, Remainder
  <2>3. sparse' = IF rawCover = {} THEN sparse ELSE Append(sparse, v)
    BY <1>p DEF SendUpdate
  <2> HIDE DEF v, f
  <2> QED
    BY <1>1, <2>2, <2>3, SparseGrows
<1> QED
  BY <1>0, <1>1, <1>2, <1>3, <1>4, <1>5 DEF Update

\* So is a move, with or without its remainder.
LEMMA MoveUpdates ==
  ASSUME IInv, NEW src \in Blocks, NEW dst \in Blocks, NEW remainder \in Remainder, NEW cover \in SUBSET Blocks,
         SendMove(src, dst, remainder, cover)
  PROVE  \E frame, d : Update(frame, d)
<1> DEFINE fresh == Fresh(Last + 1, cover, Before)
<1> DEFINE frame == [fresh EXCEPT ![dst] = Before[src]]
<1> DEFINE d == Drawn(IF remainder = "Video" THEN cover ELSE {}, IF remainder = "Raw" THEN cover ELSE {}, {dst})
<1>0. /\ Schedule(frame, d) /\ Last < MaxSeq /\ Last \in Nat
      /\ dst \notin cover
      /\ (remainder = "None") <=> (cover = {})
  BY BeforeTyped DEF SendMove, Schedule
<1>1. /\ d \in Drawing /\ d.video = (IF remainder = "Video" THEN cover ELSE {})
      /\ d.raw = (IF remainder = "Raw" THEN cover ELSE {}) /\ d.copy = {dst}
  BY DEF Drawn, Drawing
<1>c. d.video \cup d.raw = cover
  <2>0. \/ remainder = "Video" \/ remainder = "Raw" \/ (remainder = "None" /\ cover = {})
    BY <1>0 DEF Remainder
  <2> HIDE DEF d, frame, fresh
  <2>1. CASE remainder = "Video"
    BY <1>1, <2>1
  <2>2. CASE remainder = "Raw"
    BY <1>1, <2>2
  <2>3. CASE remainder = "None" /\ cover = {}
    BY <1>1, <2>3
  <2> QED
    BY <2>0, <2>1, <2>2, <2>3
<1>2. /\ frame \in [Blocks -> Content] /\ frame[dst] = Before[src]
      /\ \A x \in Blocks : x \notin cover /\ x # dst => frame[x] = Before[x]
  <2>1. /\ fresh \in [Blocks -> Content]
        /\ \A x \in Blocks : x \notin cover => fresh[x] = Before[x]
        /\ Before \in [Blocks -> Content]
    BY <1>0, BeforeTyped
  <2> HIDE DEF fresh
  <2> QED
    BY <2>1
<1>3. RealUpdate(frame, d)
  <2>1. DrawnIn(d) = cover \cup {dst}
    BY <1>1, <1>c DEF DrawnIn
  <2>2. d.video = {} \/ d.raw = {}
    BY <1>1
  <2> QED
    BY <1>2, <2>1, <2>2 DEF RealUpdate
<1>4. /\ bulk' = LET fence == Append(bulk, [type |-> "fence", baseline |-> Last, seq |-> Last + 1])
                 IN IF remainder = "Video"
                    THEN Append(fence, Video(Last + 1, "Regional", {"VIDEO"}, cover)) ELSE fence
      /\ sparse' = LET prelude == Append(sparse, [type |-> "prelude", baseline |-> Last, seq |-> Last + 1,
                                                  src |-> src, dst |-> dst, remainder |-> remainder])
                   IN IF remainder = "Raw" THEN Append(prelude, Rects(Last + 1, {"RAW"}, cover)) ELSE prelude
  BY DEF SendMove
<1> HIDE DEF d, frame, fresh
<1>p. /\ remainder = "Video" => PartsIn(d) = {"VIDEO"} /\ d.video # {} /\ d.video = cover
      /\ remainder = "Raw" => PartsIn(d) = {"RAW"} /\ d.raw # {} /\ d.raw = cover
      /\ remainder # "Video" => d.video = {}
      /\ remainder # "Raw" => d.raw = {}
      /\ d.copy # {} /\ RemIn(d) = remainder
      /\ PartsIn(d) \subseteq Parts
  BY <1>0, <1>1 DEF PartsIn, Parts, RemIn, Remainder
<1>5. BulkGrown(d)
  <2> DEFINE v == Video(Last + 1, "Regional", PartsIn(d), d.video)
  <2> DEFINE f == [type |-> "fence", baseline |-> Last, seq |-> Last + 1]
  <2>2. /\ v \in VideoMessage /\ v.type = "video" /\ v.seq = Last + 1 /\ v.parts = PartsIn(d) /\ v.cover = d.video
        /\ f \in FenceMessage /\ f.type = "fence" /\ f.seq = Last + 1
    BY <1>0, <1>1, <1>p DEF Video, VideoMessage, FenceMessage, Drawing
  <2>3. bulk' = IF remainder = "Video" THEN Append(Append(bulk, f), v) ELSE Append(bulk, f)
    BY <1>4, <1>p
  <2> HIDE DEF v, f
  <2>4. \/ bulk' = Append(Append(bulk, f), v) /\ d.video # {} /\ d.copy # {}
        \/ bulk' = Append(bulk, f) /\ d.video = {} /\ d.copy # {}
    BY <1>p, <2>3
  <2> QED
    BY <1>1, <2>2, <2>4, BulkGrows
<1>6. SparseGrown(frame, d)
  <2> DEFINE v == Rects(Last + 1, PartsIn(d), d.raw)
  <2> DEFINE f == [type |-> "prelude", baseline |-> Last, seq |-> Last + 1, src |-> src, dst |-> dst,
                   remainder |-> remainder]
  <2>2. /\ v \in RectsMessage /\ v.type = "rects" /\ v.seq = Last + 1 /\ v.parts = PartsIn(d) /\ v.cover = d.raw
        /\ f \in PreludeMessage /\ f.type = "prelude" /\ f.seq = Last + 1
        /\ f.src = src /\ f.dst = dst /\ f.remainder = remainder
    BY <1>0, <1>1, <1>p DEF Rects, RectsMessage, PreludeMessage, Drawing
  <2>3. sparse' = IF remainder = "Raw" THEN Append(Append(sparse, f), v) ELSE Append(sparse, f)
    BY <1>4, <1>p
  <2> HIDE DEF v, f
  <2>4. \/ sparse' = Append(Append(sparse, f), v) /\ d.raw # {} /\ d.copy # {}
        \/ sparse' = Append(sparse, f) /\ d.raw = {} /\ d.copy # {}
    BY <1>p, <2>3
  <2>5. d.copy # {} => d.copy = {f.dst} /\ f.remainder = RemIn(d) /\ frame[f.dst] = Before[f.src]
    BY <1>1, <1>2, <1>p, <2>2
  <2> QED
    BY <1>1, <2>2, <2>4, <2>5, SparseGrows
<1> QED
  BY <1>0, <1>1, <1>2, <1>3, <1>5, <1>6 DEF Update

\* All the host does is schedule an update.
LEMMA HostUpdates == ASSUME IInv, Host PROVE \E frame, d : Update(frame, d)
<1>1. CASE SendRecovery
  BY <1>1, RecoveryUpdates
<1>2. CASE \E v, r \in SUBSET Blocks : SendUpdate(v, r)
  BY <1>2, UpdateUpdates
<1>3. CASE \E src, dst \in Blocks, rem \in Remainder, c \in SUBSET Blocks : SendMove(src, dst, rem, c)
  BY <1>3, MoveUpdates
<1> QED
  BY <1>1, <1>2, <1>3 DEF Host

\* What the host sends now leaves its history alone.
LEMMA HistoryGrows ==
  ASSUME IInv, NEW frame, NEW d, Update(frame, d), NEW u, u = Last + 1
  PROVE  /\ HostTyped' /\ Last \in Nat /\ u \in Nat /\ Last' = u /\ u \in 1..Last' /\ u \notin 1..Last
         /\ \A t \in 1..Last' : t \in 1..Last \/ t = u
         /\ \A t \in 1..Last : t \in 1..Last' /\ t < u /\ updates'[t] = updates[t] /\ desktop'[t] = desktop[t]
         /\ updates'[u] = d /\ desktop'[u] = frame
         /\ \A t \in 0..Last : Frame(t)' = Frame(t)
         /\ Frame(u)' = frame
<1>1. /\ desktop \in Seq([Blocks -> Content]) /\ updates \in Seq(Drawing) /\ Len(updates) = Len(desktop)
      /\ frame \in [Blocks -> Content] /\ d \in Drawing /\ Last < MaxSeq /\ MaxSeq \in Nat
      /\ desktop' = Append(desktop, frame) /\ updates' = Append(updates, d)
      /\ UNCHANGED <<orderly, hasBase, baseReady, stop>>
  BY VisualAssumption DEF Update, Schedule, IInv, HostTyped, Last, syncVars, endVars
<1>2. /\ Last \in Nat /\ Last = Len(desktop) /\ u \in Nat /\ Last' = u /\ u \in 1..Last' /\ u \notin 1..Last
      /\ \A t \in 1..Last' : t \in 1..Last \/ t = u
      /\ \A t \in 1..Last : t \in 1..Last' /\ t < u
      /\ desktop' \in Seq([Blocks -> Content]) /\ updates' \in Seq(Drawing) /\ Len(updates') = Last'
  BY <1>1 DEF Last
<1>3. /\ \A t \in 1..Last : updates'[t] = updates[t] /\ desktop'[t] = desktop[t]
      /\ updates'[u] = d /\ desktop'[u] = frame
  BY <1>1, <1>2 DEF Last
<1>4. HostTyped'
  BY <1>1, <1>2 DEF HostTyped, IInv
<1>5. \A t \in 0..Last : Frame(t)' = Frame(t)
  <2>1. \A t \in 0..Last : t = 0 \/ t \in 1..Last
    BY <1>2
  <2> QED
    BY <1>3, <2>1 DEF Frame
<1>6. Frame(u)' = frame
  BY <1>2, <1>3 DEF Frame
<1> QED
  BY <1>2, <1>3, <1>4, <1>5, <1>6

\* What was on its way means what it meant.
LEMMA LegsKept ==
  ASSUME IInv, NEW frame, NEW d, Update(frame, d)
  PROVE  /\ \A s \in 1..Last : PartsOf(s)' = PartsOf(s) /\ RemOf(s)' = RemOf(s) /\ Touched(s)' = Touched(s)
         /\ \A m : /\ VideoLeg(m) => VideoLeg(m)'
                   /\ RawLeg(m) => RawLeg(m)'
                   /\ FenceLeg(m) => FenceLeg(m)'
                   /\ MoveLeg(m) => MoveLeg(m)'
<1>u. PICK u : u = Last + 1
  OBVIOUS
<1>1. /\ Last \in Nat
      /\ \A t \in 1..Last : t \in 1..Last' /\ updates'[t] = updates[t] /\ desktop'[t] = desktop[t]
      /\ \A t \in 0..Last : Frame(t)' = Frame(t)
  BY <1>u, HistoryGrows
<1>2. \A s \in 1..Last : PartsOf(s)' = PartsOf(s) /\ RemOf(s)' = RemOf(s) /\ Touched(s)' = Touched(s)
  BY <1>1 DEF PartsOf, RemOf, Touched
<1>3. ASSUME NEW m
      PROVE  /\ VideoLeg(m) => VideoLeg(m)'
             /\ RawLeg(m) => RawLeg(m)'
             /\ FenceLeg(m) => FenceLeg(m)'
  BY <1>1, <1>2 DEF VideoLeg, RawLeg, FenceLeg
<1>4. ASSUME NEW m, MoveLeg(m) PROVE MoveLeg(m)'
  <2>1. m.seq \in 1..Last /\ m.seq - 1 \in 0..Last
    BY <1>1, <1>4 DEF MoveLeg
  <2>2. \A t : t = m.seq - 1 => Frame(t)' = Frame(t)
    BY <1>1, <2>1
  <2> QED
    BY <1>1, <1>2, <1>4, <2>1, <2>2 DEF MoveLeg
<1> QED
  BY <1>2, <1>3, <1>4

\* The legs of the update are due, those of earlier ones as before.
LEMMA DuesGrow ==
  ASSUME IInv, NEW frame, NEW d, Update(frame, d), NEW u, u = Last + 1
  PROVE  /\ \A t \in 1..Last : /\ VideoDue(t)' = VideoDue(t) /\ RawDue(t)' = RawDue(t)
                               /\ CopyDue(t)' = CopyDue(t) /\ FenceDue(t)' = FenceDue(t)
                               /\ PreludeDue(t)' = PreludeDue(t)
         /\ d.video # {} => VideoDue(u)'
         /\ d.raw # {} => RawDue(u)'
         /\ d.copy # {} => CopyDue(u)' /\ PreludeDue(u)'
<1>1. /\ video' = video /\ raw' = raw /\ u \notin 1..Last
      /\ BulkGrown(d) /\ SparseGrown(frame, d)
  BY HistoryGrows DEF Update, Schedule
<1>2. /\ \A i \in 1..Len(bulk) : i \in 1..Len(bulk') /\ bulk'[i] = bulk[i]
      /\ \A i \in 1..Len(bulk') : i \in 1..Len(bulk) \/ bulk'[i].seq = u
      /\ \A i \in 1..Len(sparse) : i \in 1..Len(sparse') /\ sparse'[i] = sparse[i]
      /\ \A i \in 1..Len(sparse') : i \in 1..Len(sparse) \/ sparse'[i].seq = u
  BY <1>1 DEF BulkGrown, SparseGrown, NewBulk, NewSparse
<1>3. ASSUME NEW t \in 1..Last
      PROVE  /\ VideoDue(t)' = VideoDue(t) /\ RawDue(t)' = RawDue(t)
             /\ CopyDue(t)' = CopyDue(t) /\ FenceDue(t)' = FenceDue(t)
             /\ PreludeDue(t)' = PreludeDue(t)
  <2>1. VideoDue(t)' <=> VideoDue(t)
    BY <1>1, <1>2 DEF VideoDue, VideoPixels
  <2>2. RawDue(t)' <=> RawDue(t)
    BY <1>1, <1>2 DEF RawDue, RawPixels
  <2>3. CopyDue(t)' <=> CopyDue(t)
    BY <1>1, <1>2 DEF CopyDue, VideoCopies
  <2>4. FenceDue(t)' <=> FenceDue(t)
    BY <1>1, <1>2 DEF FenceDue
  <2>5. PreludeDue(t)' <=> PreludeDue(t)
    BY <1>1, <1>2 DEF PreludeDue
  <2> QED
    BY <2>1, <2>2, <2>3, <2>4, <2>5 DEF VideoDue, RawDue, CopyDue, FenceDue, PreludeDue
<1>4. /\ d.video # {} => VideoDue(u)'
      /\ d.copy # {} => CopyDue(u)'
  BY <1>1 DEF BulkGrown, VideoDue, CopyDue
<1>5. /\ d.raw # {} => RawDue(u)'
      /\ d.copy # {} => PreludeDue(u)'
  BY <1>1 DEF SparseGrown, RawDue, PreludeDue
<1> QED
  BY <1>3, <1>4, <1>5

\* The frames still differ only in what the updates draw.
LEMMA UpdatesStayReal ==
  ASSUME IInv, NEW frame, NEW d, Update(frame, d) PROVE UpdatesReal'
<1>u. PICK u : u = Last + 1
  OBVIOUS
<1>1. /\ Last \in Nat /\ u \in Nat /\ Last' = u /\ u \notin 1..Last
      /\ \A t \in 1..Last' : t \in 1..Last \/ t = u
      /\ \A t \in 1..Last : t \in 1..Last' /\ t < u /\ updates'[t] = updates[t]
      /\ updates'[u] = d /\ u \in 1..Last'
      /\ \A t \in 0..Last : Frame(t)' = Frame(t)
      /\ Frame(u)' = frame
  BY <1>u, HistoryGrows
<1>2. \A t \in 1..Last : Touched(t)' = Touched(t)
  BY LegsKept
<1>3. Touched(u)' = DrawnIn(d) /\ RealUpdate(frame, d)
  BY <1>1 DEF Touched, DrawnIn, Update
<1>4. \A s \in 1..Last' : Touched(s)' # {}
  BY <1>1, <1>2, <1>3 DEF IInv, UpdatesReal, RealUpdate
<1>5. \A s \in 1..Last' : updates'[s].copy # {} => (updates'[s].video = {} \/ updates'[s].raw = {})
  BY <1>1, <1>3 DEF IInv, UpdatesReal, RealUpdate
<1>6. ASSUME NEW b \in Blocks, NEW s \in 0..Last', NEW t \in 0..Last', s <= t,
             \A v \in 1..Last' : s < v /\ v <= t => b \notin Touched(v)'
      PROVE  Frame(t)'[b] = Frame(s)'[b]
  <2>1. CASE t \in 0..Last
    <3>1. s \in 0..Last
      BY <1>1, <1>6, <2>1
    <3>2. \A v \in 1..Last : s < v /\ v <= t => b \notin Touched(v)
      BY <1>1, <1>2, <1>6
    <3>3. Frame(t)[b] = Frame(s)[b]
      BY <1>6, <2>1, <3>1, <3>2 DEF IInv, UpdatesReal
    <3> QED
      BY <1>1, <2>1, <3>1, <3>3
  <2>2. CASE t = u /\ s \in 0..Last
    <3>1. b \notin Touched(u)'
      BY <1>1, <1>6, <2>2
    <3>2. frame[b] = Frame(Last)[b]
      BY <1>3, <3>1, BeforeTyped DEF RealUpdate
    <3>3. \A v \in 1..Last : s < v /\ v <= Last => b \notin Touched(v)
      BY <1>1, <1>2, <1>6, <2>2
    <3>4. Last \in 0..Last /\ s <= Last
      BY <1>1, <2>2
    <3>5. Frame(Last)[b] = Frame(s)[b]
      BY <2>2, <3>3, <3>4 DEF IInv, UpdatesReal
    <3> QED
      BY <1>1, <2>2, <3>2, <3>5
  <2>3. CASE t = u /\ s = u
    BY <2>3
  <2> QED
    BY <1>1, <1>6, <2>1, <2>2, <2>3
<1> QED
  BY <1>4, <1>5, <1>6 DEF UpdatesReal

\* The lanes stay well formed and in order.
LEMMA LanesGrow ==
  ASSUME IInv, NEW frame, NEW d, Update(frame, d) PROVE LanesTyped' /\ OrderInv'
<1>u. PICK u : u = Last + 1
  OBVIOUS
<1>1. /\ BulkGrown(d) /\ SparseGrown(frame, d)
      /\ u \in Nat /\ u \in 1..Last' /\ updates'[u] = d /\ desktop'[u] = frame /\ Last = u - 1
      /\ Last \in 0..Last
      /\ \A t \in 0..Last : Frame(t)' = Frame(t)
      /\ Before = Frame(Last)
      /\ \A t \in 1..Last : t < u
  BY <1>u, HistoryGrows, BeforeTyped DEF Update
<1>2. PartsIn(d) = PartsOf(u)' /\ RemIn(d) = RemOf(u)'
  BY <1>1 DEF PartsIn, RemIn, PartsOf, RemOf
<1>3. \A m : NewBulk(m, d) => m.seq = u /\ (m.type = "video" => VideoLeg(m)') /\ (m.type = "fence" => FenceLeg(m)')
  BY <1>u, <1>1, <1>2 DEF NewBulk, VideoLeg, FenceLeg
<1>4. ASSUME NEW m, NewSparse(m, frame, d)
      PROVE  m.seq = u /\ (m.type = "rects" => RawLeg(m)') /\ (m.type = "prelude" => MoveLeg(m)')
  <2>1. m.seq = u /\ (m.type = "rects" => RawLeg(m)')
    BY <1>u, <1>1, <1>2, <1>4 DEF NewSparse, RawLeg
  <2>2. ASSUME m.type = "prelude" PROVE MoveLeg(m)'
    <3>1. /\ m.src \in Blocks /\ m.dst \in Blocks /\ d.copy = {m.dst} /\ m.remainder = RemIn(d)
          /\ frame[m.dst] = Frame(Last)[m.src] /\ m.seq - 1 = Last
      BY <1>1, <1>4, <2>1, <2>2 DEF NewSparse
    <3>2. \A t : t = m.seq - 1 => Frame(t)' = Frame(Last)
      BY <1>1, <3>1
    <3> QED
      BY <1>1, <1>2, <2>1, <3>1, <3>2 DEF MoveLeg
  <2> QED
    BY <2>1, <2>2
<1>5. /\ \A m : VideoLeg(m) => VideoLeg(m)' /\ m.seq < u
      /\ \A m : FenceLeg(m) => FenceLeg(m)' /\ m.seq < u
      /\ \A m : RawLeg(m) => RawLeg(m)' /\ m.seq < u
      /\ \A m : MoveLeg(m) => MoveLeg(m)' /\ m.seq < u
  BY <1>1, LegsKept DEF VideoLeg, FenceLeg, RawLeg, MoveLeg
<1>6. ASSUME NEW i \in 1..Len(bulk'), NEW m, m = bulk'[i]
      PROVE  /\ m.type = "video" => VideoLeg(m)'
             /\ m.type = "fence" => FenceLeg(m)'
             /\ i \in 1..Len(bulk) => m.seq < u
             /\ i \notin 1..Len(bulk) => m.seq = u
  <2>1. CASE i \in 1..Len(bulk)
    <3>1. m = bulk[i] /\ m \in VideoMessage \cup FenceMessage
      BY <1>1, <1>6, <2>1 DEF BulkGrown, IInv, LanesTyped
    <3>2. m.type = "video" \/ m.type = "fence"
      BY <3>1 DEF VideoMessage, FenceMessage
    <3>3. (m.type = "video" => VideoLeg(m)) /\ (m.type = "fence" => FenceLeg(m))
      BY <2>1, <3>1 DEF IInv, LanesTyped
    <3> QED
      BY <1>5, <2>1, <3>2, <3>3
  <2>2. CASE i \notin 1..Len(bulk)
    <3>1. NewBulk(m, d)
      BY <1>1, <1>6, <2>2 DEF BulkGrown
    <3> QED
      BY <1>3, <2>2, <3>1
  <2> QED
    BY <2>1, <2>2
<1>7. ASSUME NEW i \in 1..Len(sparse'), NEW m, m = sparse'[i]
      PROVE  /\ m.type = "rects" => RawLeg(m)'
             /\ m.type = "prelude" => MoveLeg(m)'
             /\ i \in 1..Len(sparse) => m.seq < u
             /\ i \notin 1..Len(sparse) => m.seq = u
  <2>1. CASE i \in 1..Len(sparse)
    <3>1. m = sparse[i] /\ m \in RectsMessage \cup PreludeMessage
      BY <1>1, <1>7, <2>1 DEF SparseGrown, IInv, LanesTyped
    <3>2. m.type = "rects" \/ m.type = "prelude"
      BY <3>1 DEF RectsMessage, PreludeMessage
    <3>3. (m.type = "rects" => RawLeg(m)) /\ (m.type = "prelude" => MoveLeg(m))
      BY <2>1, <3>1 DEF IInv, LanesTyped
    <3> QED
      BY <1>5, <2>1, <3>2, <3>3
  <2>2. CASE i \notin 1..Len(sparse)
    <3>1. NewSparse(m, frame, d)
      BY <1>1, <1>7, <2>2 DEF SparseGrown
    <3> QED
      BY <1>4, <2>2, <3>1
  <2> QED
    BY <2>1, <2>2
<1>8. LanesTyped'
  <2>1. /\ bulk' \in Seq(VideoMessage \cup FenceMessage)
        /\ sparse' \in Seq(RectsMessage \cup PreludeMessage)
    BY <1>1 DEF BulkGrown, SparseGrown
  <2>2. \A i \in 1..Len(bulk') : /\ bulk'[i].type = "video" => VideoLeg(bulk[i])'
                                 /\ bulk'[i].type = "fence" => FenceLeg(bulk[i])'
    BY <1>6 DEF VideoLeg, FenceLeg
  <2>3. \A i \in 1..Len(sparse') : /\ sparse'[i].type = "rects" => RawLeg(sparse[i])'
                                   /\ sparse'[i].type = "prelude" => MoveLeg(sparse[i])'
    BY <1>7 DEF RawLeg, MoveLeg
  <2> QED
    BY <2>1, <2>2, <2>3 DEF LanesTyped
<1>9. OrderInv'
  <2>1. ASSUME NEW i \in 1..Len(bulk'), NEW j \in 1..Len(bulk'), i < j
        PROVE  \/ bulk'[i].seq < bulk'[j].seq
               \/ bulk'[i].seq = bulk'[j].seq /\ bulk'[i].type = "fence" /\ bulk'[j].type = "video"
    <3>1. CASE i \in 1..Len(bulk) /\ j \in 1..Len(bulk)
      BY <1>1, <2>1, <3>1 DEF BulkGrown, IInv, OrderInv
    <3>2. CASE i \in 1..Len(bulk) /\ j \notin 1..Len(bulk)
      BY <1>6, <3>2
    <3>3. CASE i \notin 1..Len(bulk)
      <4>1. bulk'[i].type = "fence" /\ bulk'[j].type = "video" /\ j \notin 1..Len(bulk)
        BY <1>1, <2>1, <3>3 DEF BulkGrown
      <4> QED
        BY <1>6, <3>3, <4>1
    <3> QED
      BY <3>1, <3>2, <3>3
  <2>2. ASSUME NEW i \in 1..Len(sparse'), NEW j \in 1..Len(sparse'), i < j
        PROVE  \/ sparse'[i].seq < sparse'[j].seq
               \/ sparse'[i].seq = sparse'[j].seq /\ sparse'[i].type = "prelude" /\ sparse'[j].type = "rects"
    <3>1. CASE i \in 1..Len(sparse) /\ j \in 1..Len(sparse)
      BY <1>1, <2>2, <3>1 DEF SparseGrown, IInv, OrderInv
    <3>2. CASE i \in 1..Len(sparse) /\ j \notin 1..Len(sparse)
      BY <1>7, <3>2
    <3>3. CASE i \notin 1..Len(sparse)
      <4>1. sparse'[i].type = "prelude" /\ sparse'[j].type = "rects" /\ j \notin 1..Len(sparse)
        BY <1>1, <2>2, <3>3 DEF SparseGrown
      <4> QED
        BY <1>7, <3>3, <4>1
    <3> QED
      BY <3>1, <3>2, <3>3
  <2> QED
    BY <2>1, <2>2 DEF OrderInv
<1> QED
  BY <1>8, <1>9

\* What is in a reader's hands or in the rendezvous was scheduled before.
LEMMA InHandIsOld ==
  ASSUME IInv
  PROVE  /\ VideoPixels => VideoLeg(video.msg) /\ video.msg.seq \in 1..Last
         /\ video.at = "fence" => FenceLeg(video.msg) /\ video.msg.seq \in 1..Last
         /\ video.at \in {"apply", "mark"} => MoveLeg(video.msg) /\ video.msg.seq \in 1..Last
         /\ VideoCopies => video.msg.seq \in 1..Last
         /\ RawPixels => RawLeg(raw.msg) /\ raw.msg.seq \in 1..Last
         /\ raw.at = "waitMove" => MoveLeg(raw.msg) /\ raw.msg.seq \in 1..Last
         /\ Pending => MoveLeg(move) /\ move.seq \in 1..Last
<1>1. Pending => MoveLeg(move)
  BY DEF IInv, MoveTyped, Pending, Idle, FailedMove
<1> QED
  BY <1>1 DEF IInv, VideoTyped, RawTyped, VideoLeg, FenceLeg, MoveLeg, RawLeg, VideoCopies

\* The readers do not see the update yet.
LEMMA ScheduledReaders ==
  ASSUME IInv, NEW frame, NEW d, Update(frame, d)
  PROVE  /\ PixelsTyped' /\ VideoTyped' /\ RawTyped' /\ MoveTyped'
         /\ Met' /\ InHand' /\ EndInv' /\ RawShown'
<1>u. PICK u : u = Last + 1
  OBVIOUS
<1>1. UNCHANGED <<orderly, video, raw, syncVars, doneVars, pixelVars, ackVars, endVars>>
  BY DEF Update, Schedule
<1>2. \A t \in 1..Last : updates'[t] = updates[t]
  BY <1>u, HistoryGrows
<1>3. PixelsTyped' /\ InHand' /\ EndInv' /\ RawShown'
  BY <1>1 DEF IInv, PixelsTyped, InHand, EndInv, RawShown, pixelVars, doneVars, endVars, ackVars,
              VideoPixels, RawPixels, Alive, VideoDead, RawDead
<1>4. Met'
  BY <1>1 DEF IInv, Met, RawDead, Owns, Pending, syncVars
<1>5. VideoTyped'
  <2>1. PICK m : m = video.msg
    OBVIOUS
  <2>2. /\ VideoPixels => VideoLeg(m)' /\ video.ends = updates'[m.seq].copy
        /\ video.at = "fence" => FenceLeg(m)'
        /\ video.at \in {"apply", "mark"} => MoveLeg(m)'
    BY <1>2, <2>1, InHandIsOld, LegsKept DEF IInv, VideoTyped
  <2>3. video' = video /\ video.msg' = m
    BY <1>1, <2>1
  <2> QED
    BY <2>1, <2>2, <2>3 DEF IInv, VideoTyped, VideoPixels, VideoLeg, FenceLeg, MoveLeg
<1>6. RawTyped'
  <2>1. PICK m : m = raw.msg
    OBVIOUS
  <2>2. /\ RawPixels => RawLeg(m)' /\ raw.ends = updates'[m.seq].copy
        /\ raw.at = "waitMove" => MoveLeg(m)'
    BY <1>2, <2>1, InHandIsOld, LegsKept DEF IInv, RawTyped
  <2>3. raw' = raw /\ raw.msg' = m
    BY <1>1, <2>1
  <2> QED
    BY <2>1, <2>2, <2>3 DEF IInv, RawTyped, RawPixels, RawLeg, MoveLeg
<1>7. MoveTyped'
  <2>1. PICK m : m = move
    OBVIOUS
  <2>2. m = Idle \/ m = FailedMove \/ (m \in MoveRecord /\ MoveLeg(m)')
    BY <2>1, LegsKept DEF IInv, MoveTyped
  <2>3. move' = m
    BY <1>1, <2>1 DEF syncVars
  <2> QED
    BY <2>2, <2>3 DEF MoveTyped, MoveLeg
<1> QED
  BY <1>3, <1>4, <1>5, <1>6, <1>7

\* What they hold comes before it.
LEMMA ScheduledOrder ==
  ASSUME IInv, NEW frame, NEW d, Update(frame, d)
  PROVE  VideoOrder' /\ RawOrder' /\ VideoShown'
<1>u. PICK u : u = Last + 1
  OBVIOUS
<1>1. UNCHANGED <<orderly, video, raw, syncVars, doneVars, pixelVars, ackVars, endVars>>
  BY DEF Update, Schedule
<1>2. \A t \in 1..Last' : t \in 1..Last \/ t = u
  BY <1>u, HistoryGrows
<1>3. \A t \in 1..Last : t < u /\ Touched(t)' = Touched(t)
  BY <1>u, HistoryGrows, LegsKept
<1>4. /\ \A i \in 1..Len(bulk') : (i \in 1..Len(bulk) /\ bulk'[i] = bulk[i]) \/ bulk'[i].seq = u
      /\ \A i \in 1..Len(sparse') : (i \in 1..Len(sparse) /\ sparse'[i] = sparse[i]) \/ sparse'[i].seq = u
  BY <1>u DEF Update, BulkGrown, SparseGrown, NewBulk, NewSparse
<1>5. /\ VideoPixels \/ VideoCopies => video.msg.seq < u
      /\ RawPixels \/ raw.at = "waitMove" => raw.msg.seq < u
      /\ Pending => move.seq < u
  BY <1>3, InHandIsOld
<1>v. video.at = "apply" => VideoCopies
  BY DEF VideoCopies
<1>6. VideoOrder'
  <2>1. VideoPixels => \A i \in 1..Len(bulk') : video.msg.seq < bulk'[i].seq
    BY <1>4, <1>5 DEF IInv, VideoOrder
  <2>2. VideoCopies => \A i \in 1..Len(bulk') :
           \/ video.msg.seq < bulk'[i].seq
           \/ video.msg.seq = bulk'[i].seq /\ bulk'[i].type = "video"
    BY <1>4, <1>5 DEF IInv, VideoOrder
  <2>3. ASSUME video.at = "apply", NEW i \in 1..Len(sparse') PROVE video.msg.seq <= sparse'[i].seq
    <3>1. video.msg.seq < u /\ u \in Nat /\ video.msg.seq \in Nat
      <4>1. video.msg.seq \in 1..Last /\ Last \in Nat
        BY <2>3, InHandIsOld, BeforeTyped
      <4> QED
        BY <1>u, <1>5, <1>v, <2>3, <4>1
    <3>2. CASE i \in 1..Len(sparse) /\ sparse'[i] = sparse[i]
      BY <2>3, <3>2 DEF IInv, VideoOrder
    <3>3. CASE sparse'[i].seq = u
      BY <3>1, <3>3
    <3> QED
      BY <1>4, <3>2, <3>3
  <2> QED
    BY <1>1, <2>1, <2>2, <2>3 DEF VideoOrder, VideoPixels, VideoCopies
<1>7. RawOrder'
  BY <1>1, <1>4, <1>5 DEF IInv, RawOrder, RawPixels, Pending, syncVars
<1>8. VideoShown'
  <2>1. ASSUME video.at = "apply", NEW t \in 1..Last', t < video.msg.seq
        PROVE  \A b \in Touched(t)' : shown[b] >= t
    <3>1. t \in 1..Last
      <4>1. video.msg.seq \in 1..Last /\ Last \in Nat
        BY <2>1, InHandIsOld, BeforeTyped
      <4> QED
        BY <1>u, <1>2, <2>1, <4>1
    <3> QED
      BY <1>3, <2>1, <3>1 DEF IInv, VideoShown
  <2>2. video' = video /\ shown' = shown
    BY <1>1 DEF pixelVars
  <2>3. /\ VideoPixels => \A b \in video.ends : shown[b] >= video.msg.seq
        /\ video.at = "finish" => \A b \in video.msg.cover : shown[b] >= video.msg.seq
        /\ video.at = "apply" => \A b \in Blocks : shown[b] < video.msg.seq
        /\ video.at = "mark" => shown[video.msg.dst] >= video.msg.seq
    BY DEF IInv, VideoShown
  <2> QED
    BY <2>1, <2>2, <2>3 DEF VideoShown, VideoPixels
<1> QED
  BY <1>6, <1>7, <1>8

\* The rendezvous is about an earlier move; the update's own remainder follows its fence and
\* prelude.
LEMMA ScheduledMoves ==
  ASSUME IInv, NEW frame, NEW d, Update(frame, d)
  PROVE  MoveInv' /\ Remainders'
<1>u. PICK u : u = Last + 1
  OBVIOUS
<1>1. UNCHANGED <<orderly, video, raw, syncVars, doneVars, pixelVars, ackVars, endVars>>
  BY DEF Update, Schedule
<1>s. raw' = raw /\ video' = video /\ move' = move /\ shown' = shown
  BY <1>1 DEF syncVars, pixelVars
<1>2. /\ \A t \in 1..Last' : t \in 1..Last \/ t = u
      /\ \A t \in 1..Last : updates'[t] = updates[t]
      /\ updates'[u] = d
  BY <1>u, HistoryGrows
<1>3. \A t \in 1..Last : /\ VideoDue(t)' = VideoDue(t) /\ RawDue(t)' = RawDue(t)
                         /\ CopyDue(t)' = CopyDue(t) /\ FenceDue(t)' = FenceDue(t)
                         /\ PreludeDue(t)' = PreludeDue(t)
                         /\ RemOf(t)' = RemOf(t)
  BY <1>u, DuesGrow, LegsKept
<1>4. MoveInv'
  <2>1. Pending /\ ~move.applied => raw.at = "waitMove" /\ raw.msg.seq = move.seq
    BY DEF IInv, MoveInv
  <2>2. ASSUME Pending, move.applied PROVE ~FenceDue(move.seq)' /\ shown[move.dst] >= move.seq
    <3>1. move.seq \in 1..Last /\ ~FenceDue(move.seq) /\ shown[move.dst] >= move.seq
      BY <2>2, InHandIsOld DEF IInv, MoveInv
    <3>2. \A t : t = move.seq => FenceDue(t)' = FenceDue(t)
      BY <1>3, <3>1
    <3> QED
      BY <1>s, <3>1, <3>2 DEF FenceDue
  <2>3. ASSUME raw.at = "waitMove", NEW t, t = raw.msg.seq
        PROVE  \/ Owns(t)
               \/ move = FailedMove
               \/ NoMove /\ RemOf(t)' # "Raw"
    BY <1>3, <2>3, InHandIsOld DEF IInv, MoveInv
  <2> QED
    BY <1>s, <2>1, <2>2, <2>3 DEF MoveInv, Pending, Owns, NoMove, FenceDue, RemOf
<1>5. ASSUME NEW s \in 1..Last', updates'[s].copy # {}
      PROVE  /\ VideoDue(s)' => CopyDue(s)' \/ (Owns(s)' /\ move'.applied) \/ move' = FailedMove \/ VideoDead'
             /\ RawDue(s)' => PreludeDue(s)' \/ (Owns(s)' /\ move'.applied) \/ move' = FailedMove \/ RawDead'
  <2>1. CASE s \in 1..Last
    <3>1. /\ VideoDue(s) => CopyDue(s) \/ (Owns(s) /\ move.applied) \/ move = FailedMove \/ VideoDead
          /\ RawDue(s) => PreludeDue(s) \/ (Owns(s) /\ move.applied) \/ move = FailedMove \/ RawDead
      BY <1>2, <1>5, <2>1 DEF IInv, Remainders
    <3> QED
      BY <1>s, <1>3, <2>1, <3>1 DEF Owns, Pending, VideoDead, RawDead
  <2>2. CASE s = u
    <3>1. d.copy # {}
      BY <1>2, <1>5, <2>2
    <3> QED
      BY <1>u, <2>2, <3>1, DuesGrow
  <2> QED
    BY <1>2, <2>1, <2>2
<1>6. Remainders'
  BY <1>5 DEF Remainders
<1> QED
  BY <1>4, <1>6

\* Nothing of it is drawn.
LEMMA ScheduledCanvas ==
  ASSUME IInv, NEW frame, NEW d, Update(frame, d)
  PROVE  CanvasInv' /\ Behind' /\ Ahead'
<1>u. PICK u : u = Last + 1
  OBVIOUS
<1>1. UNCHANGED <<orderly, video, raw, syncVars, doneVars, pixelVars, ackVars, endVars>>
  BY DEF Update, Schedule
<1>s. canvas' = canvas /\ shown' = shown /\ fences' = fences
  BY <1>1 DEF pixelVars
<1>2. /\ \A t \in 1..Last' : t \in 1..Last \/ t = u
      /\ \A t \in 0..Last : Frame(t)' = Frame(t)
      /\ Last \in Nat /\ Last' = u /\ u \in Nat
  BY <1>u, HistoryGrows
<1>3. \A t \in 1..Last : /\ VideoDue(t)' = VideoDue(t) /\ RawDue(t)' = RawDue(t)
                         /\ FenceDue(t)' = FenceDue(t) /\ PreludeDue(t)' = PreludeDue(t)
  BY <1>u, DuesGrow
<1>4. \A b \in Blocks : /\ canvas[b] = Frame(shown[b])[b] /\ fences[b] <= shown[b]
                        /\ shown[b] \in 0..Last /\ shown[b] < u /\ shown[b] <= u
  <2>1. \A b \in Blocks : /\ canvas[b] = Frame(shown[b])[b] /\ fences[b] <= shown[b]
                          /\ shown[b] <= Last /\ shown[b] \in 0..MaxSeq
    BY DEF IInv, CanvasInv, PixelsTyped
  <2> QED
    BY <1>u, <1>2, <2>1, VisualAssumption
<1>5. CanvasInv'
  <2>1. ASSUME NEW b \in Blocks, NEW t, t = shown[b] PROVE Frame(t)' = Frame(t)
    BY <1>2, <1>4, <2>1
  <2>2. \A b \in Blocks : \A t : t = shown[b] => canvas[b] = Frame(t)'[b]
    BY <1>4, <2>1
  <2> QED
    BY <1>2, <1>4, <1>s, <2>2 DEF CanvasInv, Frame, Last
<1>6. Behind'
  <2>1. ASSUME NEW t \in 1..Last', FenceDue(t)', PreludeDue(t)' PROVE \A b \in Blocks : shown[b] < t
    BY <1>2, <1>3, <1>4, <2>1 DEF IInv, Behind
  <2> QED
    BY <1>s, <2>1 DEF Behind
<1>7. Ahead'
  <2>1. ASSUME NEW b \in Blocks, shown[b] # fences[b], NEW t \in 1..Last', VideoDue(t)' \/ RawDue(t)'
        PROVE  shown[b] <= t
    BY <1>2, <1>3, <1>4, <2>1 DEF IInv, Ahead
  <2> QED
    BY <1>s, <2>1 DEF Ahead
<1> QED
  BY <1>5, <1>6, <1>7

\* Nothing of it is registered or acknowledged.
LEMMA ScheduledSent ==
  ASSUME IInv, NEW frame, NEW d, Update(frame, d)
  PROVE  Registered' /\ FailedInv' /\ Unsent' /\ AckMeansShown'
<1>u. PICK u : u = Last + 1
  OBVIOUS
<1>1. UNCHANGED <<orderly, video, raw, syncVars, doneVars, pixelVars, ackVars, endVars>>
  BY DEF Update, Schedule
<1>s. /\ shown' = shown /\ video' = video /\ raw' = raw /\ move' = move
      /\ pending' = pending /\ failed' = failed /\ sent' = sent
  BY <1>1 DEF pixelVars, syncVars, doneVars, ackVars
<1>2. /\ \A t \in 1..Last : t \in 1..Last' /\ updates'[t] = updates[t]
      /\ u \notin 1..Last
  BY <1>u, HistoryGrows
<1>3. \A t \in 1..Last : /\ VideoDue(t)' = VideoDue(t) /\ RawDue(t)' = RawDue(t)
                         /\ CopyDue(t)' = CopyDue(t) /\ PartsOf(t)' = PartsOf(t)
                         /\ Touched(t)' = Touched(t)
  BY <1>u, DuesGrow, LegsKept
<1>4. sent \subseteq 1..Last
  BY DEF IInv, AckInv
<1>5. Registered'
  <2>1. ASSUME NEW s \in DOMAIN pending
        PROVE  /\ s \in 1..Last' /\ updates'[s].copy = {}
               /\ pending[s] # {} /\ pending[s] \subseteq PartsOf(s)'
               /\ "VIDEO" \notin pending[s] => \A b \in updates'[s].video : shown[b] >= s
               /\ "RAW" \notin pending[s] => \A b \in updates'[s].raw : shown[b] >= s
               /\ VideoDue(s)' => "VIDEO" \in pending[s]
               /\ RawDue(s)' => "RAW" \in pending[s]
    BY <1>2, <1>3 DEF IInv, Registered
  <2> QED
    BY <1>s, <2>1 DEF Registered
<1>6. FailedInv'
  BY <1>s, <1>2 DEF IInv, FailedInv, VideoDead
<1>7. AckMeansShown'
  BY <1>s, <1>3, <1>4 DEF IInv, AckMeansShown
<1>8. Unsent'
  <2>1. \A t \in sent : /\ ~VideoDue(t)' /\ ~RawDue(t)' /\ ~CopyDue(t)'
                        /\ t \notin DOMAIN pending /\ t \notin failed
    BY <1>3, <1>4 DEF IInv, Unsent
  <2>2. ASSUME NEW i \in 1..Len(sparse'), sparse'[i].type = "prelude" PROVE sparse'[i].seq \notin sent
    <3>1. (i \in 1..Len(sparse) /\ sparse'[i] = sparse[i]) \/ sparse'[i].seq = u
      BY <1>u DEF Update, SparseGrown, NewSparse
    <3> QED
      BY <1>2, <1>4, <2>2, <3>1 DEF IInv, Unsent
  <2>3. Pending => move.seq \notin sent
    BY DEF IInv, Unsent
  <2> QED
    BY <1>s, <2>1, <2>2, <2>3 DEF Unsent, Pending
<1> QED
  BY <1>5, <1>6, <1>7, <1>8

\* It takes a permit, and owes its legs.
LEMMA ScheduledAcks ==
  ASSUME IInv, NEW frame, NEW d, Update(frame, d)
  PROVE  AckInv' /\ Owed'
<1>u. PICK u : u = Last + 1
  OBVIOUS
<1>1. UNCHANGED <<orderly, video, raw, syncVars, doneVars, pixelVars, ackVars, endVars>>
  BY DEF Update, Schedule
<1>s. /\ video' = video /\ raw' = raw /\ pending' = pending /\ sent' = sent /\ ackQueue' = ackQueue
  BY <1>1 DEF doneVars, ackVars
<1>2. /\ \A t \in 1..Last' : t \in 1..Last \/ t = u
      /\ \A t \in 1..Last : t \in 1..Last' /\ updates'[t] = updates[t]
      /\ u \notin 1..Last /\ u \in 1..Last' /\ updates'[u] = d
  BY <1>u, HistoryGrows
<1>3. /\ \A t \in 1..Last : /\ VideoDue(t)' = VideoDue(t) /\ RawDue(t)' = RawDue(t)
                            /\ CopyDue(t)' = CopyDue(t) /\ PartsOf(t)' = PartsOf(t)
      /\ d.video # {} => VideoDue(u)'
      /\ d.raw # {} => RawDue(u)'
      /\ d.copy # {} => CopyDue(u)'
  BY <1>u, DuesGrow, LegsKept
<1>4. /\ sent \subseteq 1..Last /\ unacked \subseteq 1..Last
      /\ (1..Last) \ unacked \subseteq sent
      /\ Queued = sent \cap unacked
      /\ IsFiniteSet(unacked)
      /\ DOMAIN pending \subseteq 1..Last
  BY DEF IInv, AckInv, Registered
<1>5. unacked' = unacked \cup {u} /\ Cardinality(unacked) < MAX_OUTSTANDING
  BY <1>u DEF Update, Schedule
<1>6. AckInv'
  <2>1. IsFiniteSet(unacked') /\ Cardinality(unacked') <= MAX_OUTSTANDING
    <3>1. u \notin unacked
      BY <1>2, <1>4
    <3>2. IsFiniteSet(unacked \cup {u}) /\ Cardinality(unacked \cup {u}) = Cardinality(unacked) + 1
      BY <1>4, <3>1, FS_AddElement
    <3>3. Cardinality(unacked) \in Nat /\ MAX_OUTSTANDING \in Nat
      BY <1>4, FS_CardinalityType, VisualAssumption
    <3> QED
      BY <1>5, <3>2, <3>3
  <2>2. /\ unacked' \subseteq 1..Last' /\ sent' \subseteq 1..Last'
        /\ (1..Last') \ unacked' \subseteq sent'
        /\ sent' \cap unacked' = sent \cap unacked
    BY <1>2, <1>4, <1>5, <1>s
  <2>3. Queued' = Queued
    BY <1>s DEF Queued
  <2>4. /\ ackQueue' \in Seq(Sequence)
        /\ \A i, j \in 1..Len(ackQueue') : ackQueue'[i] = ackQueue'[j] => i = j
        /\ Cardinality(Queued') = Len(ackQueue')
    BY <1>s, <2>3 DEF IInv, AckInv
  <2> QED
    BY <1>4, <2>1, <2>2, <2>3, <2>4 DEF AckInv, Last
<1>7. ASSUME Alive, NEW t \in 1..Last', t \notin sent
      PROVE  /\ "VIDEO" \in Left(t)' => VideoDue(t)'
             /\ "RAW" \in Left(t)' => RawDue(t)'
             /\ PartsOf(t)' = {} => CopyDue(t)'
  <2>1. CASE t \in 1..Last
    <3>1. Left(t)' = Left(t)
      BY <1>s, <1>3, <2>1 DEF Left
    <3> QED
      BY <1>3, <1>7, <2>1, <3>1 DEF IInv, Owed
  <2>2. CASE t = u
    <3>1. Left(t)' = PartsIn(d) /\ PartsOf(t)' = PartsIn(d)
      BY <1>s, <1>2, <1>4, <2>2 DEF Left, PartsOf, PartsIn
    <3>2. DrawnIn(d) # {}
      BY DEF Update, RealUpdate
    <3>3. /\ "VIDEO" \in PartsIn(d) => d.video # {}
          /\ "RAW" \in PartsIn(d) => d.raw # {}
          /\ PartsIn(d) = {} => d.copy # {}
      BY <3>2 DEF PartsIn, DrawnIn
    <3> QED
      BY <1>3, <2>2, <3>1, <3>3
  <2> QED
    BY <1>2, <2>1, <2>2
<1>8. Owed'
  <2>1. Alive' = Alive
    BY <1>s DEF Alive, VideoDead, RawDead
  <2> QED
    BY <1>7, <1>s, <2>1 DEF Owed
<1> QED
  BY <1>6, <1>8

\* Scheduling an update keeps the invariant.
LEMMA HostKeeps == ASSUME IInv, Host PROVE IInv'
<1>1. PICK frame, d : Update(frame, d)
  BY HostUpdates
<1>2. HostTyped'
  <2>1. PICK u : u = Last + 1
    OBVIOUS
  <2> QED
    BY <1>1, <2>1, HistoryGrows
<1>3. /\ PixelsTyped' /\ VideoTyped' /\ RawTyped' /\ MoveTyped'
      /\ Met' /\ InHand' /\ EndInv' /\ RawShown'
  BY <1>1, ScheduledReaders
<1>4. /\ VideoOrder' /\ RawOrder' /\ VideoShown'
      /\ MoveInv' /\ Remainders'
      /\ CanvasInv' /\ Behind' /\ Ahead'
  BY <1>1, ScheduledOrder, ScheduledMoves, ScheduledCanvas
<1>5. /\ UpdatesReal' /\ LanesTyped' /\ OrderInv'
      /\ Registered' /\ FailedInv' /\ Unsent' /\ AckMeansShown'
      /\ AckInv' /\ Owed'
  BY <1>1, UpdatesStayReal, LanesGrow, ScheduledSent, ScheduledAcks
<1> QED
  BY <1>2, <1>3, <1>4, <1>5 DEF IInv

-----------------------------------------------------------------------------
(* The invariant holds in every reachable state.                           *)

\* The invariant holds initially.
LEMMA InitHolds == ASSUME Init PROVE IInv
<1>0. /\ desktop = <<>> /\ updates = <<>> /\ unacked = {} /\ bulk = <<>> /\ sparse = <<>>
      /\ video = Reading /\ raw = Reading /\ move = Idle
      /\ pending = [s \in {} |-> Parts] /\ failed = {} /\ ackQueue = <<>> /\ sent = {}
      /\ fences = [b \in Blocks |-> 0] /\ canvas = [b \in Blocks |-> None(b)]
      /\ shown = [b \in Blocks |-> 0]
      /\ stop = FALSE /\ failure = "none" /\ hasBase = FALSE /\ baseReady = FALSE /\ orderly \in BOOLEAN
  BY DEF Init
<1>1. /\ Last = 0 /\ 1..Last = {} /\ 0..Last = {0} /\ DOMAIN pending = {}
      /\ Len(bulk) = 0 /\ Len(sparse) = 0 /\ Len(ackQueue) = 0 /\ 1..0 = {} /\ MaxSeq \in Nat
  BY <1>0, VisualAssumption DEF Last
<1>2. /\ video.at = "read" /\ video = At("read", NoMsg, {}) /\ video.msg = NoMsg /\ video.ends = {}
      /\ raw.at = "read" /\ raw = At("read", NoMsg, {}) /\ raw.msg = NoMsg /\ raw.ends = {}
      /\ ~Pending /\ ~VideoPixels /\ ~VideoCopies /\ ~RawPixels /\ Alive
  BY <1>0 DEF Reading, At, Pending, Idle, VideoPixels, VideoCopies, RawPixels, Alive, VideoDead, RawDead
<1>3. HostTyped
  <2>1. desktop \in Seq([Blocks -> Content]) /\ updates \in Seq(Drawing) /\ Len(updates) = 0
    BY <1>0
  <2> QED
    <3>1. Last <= MaxSeq /\ Len(updates) = Last
      BY <1>1, <2>1
    <3>2. orderly \in BOOLEAN /\ hasBase \in BOOLEAN /\ baseReady \in BOOLEAN /\ stop \in BOOLEAN
      BY <1>0
    <3> QED
      BY <2>1, <3>1, <3>2 DEF HostTyped
<1>4. PixelsTyped
  BY <1>0, <1>1 DEF PixelsTyped, Content, None
<1>5. UpdatesReal
  BY <1>0, <1>1 DEF UpdatesReal
<1>6. LanesTyped
  BY <1>0, <1>1 DEF LanesTyped
<1>7. VideoTyped /\ RawTyped /\ MoveTyped
  BY <1>0, <1>2 DEF VideoTyped, RawTyped, MoveTyped
<1>8. OrderInv /\ VideoOrder /\ RawOrder
  BY <1>1, <1>2 DEF OrderInv, VideoOrder, RawOrder
<1>9. MoveInv /\ Met /\ Remainders
  BY <1>1, <1>2 DEF MoveInv, Met, Remainders
<1>10. CanvasInv
  BY <1>0, <1>1 DEF CanvasInv, Frame
<1>11. Behind /\ Ahead /\ VideoShown /\ RawShown
  BY <1>1, <1>2 DEF Behind, Ahead, VideoShown, RawShown
<1>12. Registered /\ InHand /\ FailedInv /\ Unsent /\ AckMeansShown
  BY <1>0, <1>1, <1>2 DEF Registered, InHand, FailedInv, Unsent, AckMeansShown
<1>13. AckInv
  <2>1. Queued = {} /\ Cardinality({}) = 0 /\ IsFiniteSet({})
    BY <1>1, FS_EmptySet DEF Queued
  <2>2. ackQueue \in Seq(Sequence)
    BY <1>0, <1>1
  <2>3. Cardinality(unacked) <= MAX_OUTSTANDING
    BY <1>0, <2>1, VisualAssumption
  <2> QED
    BY <1>0, <1>1, <2>1, <2>2, <2>3 DEF AckInv
<1>14. EndInv
  BY <1>0, <1>2 DEF EndInv
<1>15. Owed
  BY <1>1 DEF Owed
<1> QED
  BY <1>3, <1>4, <1>5, <1>6, <1>7, <1>8, <1>9, <1>10, <1>11, <1>12, <1>13, <1>14, <1>15 DEF IInv

\* Every step keeps it.
LEMMA StepKeeps == ASSUME IInv, [Next]_vars PROVE IInv'
  BY Steps, HostKeeps, RawEventKeeps, VideoEventKeeps, AckWriterKeeps, StutterKeeps

\* The inductive invariant holds in every reachable state.
THEOREM Invariance == Spec => []IInv
  BY InitHolds, StepKeeps, PTL DEF Spec

\* The state is well formed.
LEMMA Typed == ASSUME IInv PROVE TypeOK
<1>0. Last \in Nat /\ MaxSeq \in Nat /\ Last <= MaxSeq
  BY VisualAssumption, BeforeTyped DEF IInv, HostTyped
<1>1. 1..Last \subseteq Sequence
  BY <1>0 DEF Sequence
<1>2. \A s : PartsOf(s) \subseteq Parts
  BY DEF PartsOf, Parts
<1>3. move.state \in {"Idle", "Pending", "Failed"}
  BY DEF IInv, MoveTyped, Idle, FailedMove, MoveRecord
<1>4. DOMAIN pending \subseteq Sequence /\ \A s \in DOMAIN pending : pending[s] \subseteq Parts
  BY <1>1, <1>2 DEF IInv, Registered
<1>5. failed \subseteq Sequence /\ unacked \subseteq Sequence /\ sent \subseteq Sequence
  BY <1>1 DEF IInv, FailedInv, AckInv
<1>6. /\ desktop \in Seq([Blocks -> Content]) /\ Last <= MaxSeq
      /\ updates \in Seq([video : SUBSET Blocks, raw : SUBSET Blocks, copy : SUBSET Blocks])
      /\ Len(updates) = Last
      /\ {orderly, hasBase, baseReady, stop} \subseteq BOOLEAN
  BY DEF IInv, HostTyped, Drawing
<1>7. /\ fences \in [Blocks -> 0..MaxSeq] /\ canvas \in [Blocks -> Content]
      /\ shown \in [Blocks -> 0..MaxSeq] /\ ackQueue \in Seq(Sequence)
  BY DEF IInv, PixelsTyped, AckInv
<1>8. /\ video.at \in {"read", "paint", "finish", "fence", "apply", "mark", "waitRaw",
                       "failing", "ended"}
      /\ raw.at \in {"read", "base", "paint", "finish", "waitMove", "failing", "ended"}
  BY DEF IInv, VideoTyped, RawTyped
<1> QED
  BY <1>3, <1>4, <1>5, <1>6, <1>7, <1>8 DEF TypeOK

\* Whatever the order in which the two lanes deliver, every block shows what the host's desktop
\* had there at one frame, one at least as new as its fence claims.
THEOREM CanvasInvariant == Spec => []CanvasIsReal
<1>1. ASSUME IInv PROVE CanvasIsReal
  <2>1. ASSUME NEW b \in Blocks
        PROVE  (shown[b] > 0 => canvas[b] = desktop[shown[b]][b]) /\ fences[b] <= shown[b]
    <3>1. canvas[b] = Frame(shown[b])[b] /\ fences[b] <= shown[b] /\ shown[b] \in 0..MaxSeq
      BY <1>1 DEF IInv, CanvasInv, PixelsTyped
    <3> QED
      BY <3>1, VisualAssumption DEF Frame
  <2> QED
    BY <2>1 DEF CanvasIsReal
<1> QED
  BY <1>1, Invariance, PTL

\* No block ever goes back to an older frame, although a raw update may overtake the video
\* update scheduled before it.
THEOREM NothingRollsBack == Spec => NoRollback
<1>1. ASSUME IInv, [Next]_vars, NEW b \in Blocks PROVE shown'[b] >= shown[b]
  <2>0. /\ shown \in [Blocks -> 0..MaxSeq] /\ fences \in [Blocks -> 0..MaxSeq] /\ MaxSeq \in Nat
        /\ \A s : (VideoDue(s) \/ RawDue(s)) => s \in 1..Last /\ (shown[b] = fences[b] \/ shown[b] <= s)
    BY <1>1, DueMeans, VisualAssumption DEF IInv, PixelsTyped, Ahead
  <2>1. ASSUME NEW s, NEW cover, NEW ends, Paint(s, cover, ends), VideoDue(s) \/ RawDue(s)
        PROVE  shown'[b] >= shown[b]
    <3>1. s \in 1..Last /\ (shown[b] = fences[b] \/ shown[b] <= s)
      BY <2>0, <2>1
    <3>2. shown' = [x \in Blocks |-> IF x \in Visible(s, cover) THEN s ELSE shown[x]]
      BY <2>1 DEF Paint
    <3>3. CASE b \in Visible(s, cover)
      <4>1. shown'[b] = s /\ fences[b] < s
        BY <3>2, <3>3 DEF Visible
      <4> QED
        BY <2>0, <3>1, <4>1, BeforeTyped
    <3>4. CASE b \notin Visible(s, cover)
      BY <2>0, <3>2, <3>4
    <3> QED
      BY <3>3, <3>4
  <2>2. CASE RectsDraw
    BY <2>1, <2>2 DEF RectsDraw, RawDue, RawPixels
  <2>3. CASE VideoDraw
    BY <2>1, <2>3 DEF VideoDraw, VideoDue, VideoPixels
  <2>4. CASE FenceCopies
    <3>1. shown[b] < video.msg.seq
      BY <1>1, <2>4 DEF FenceCopies, IInv, VideoShown
    <3>2. shown' = [shown EXCEPT ![video.msg.dst] = video.msg.seq]
      BY <2>4 DEF FenceCopies
    <3>3. video.msg.seq \in Nat
      BY <1>1, <2>4, InHandIsOld, BeforeTyped DEF FenceCopies
    <3> QED
      BY <2>0, <3>1, <3>2, <3>3
  <2>5. CASE shown' = shown
    BY <2>0, <2>5
  <2>6. CASE Host \/ AckWriter \/ UNCHANGED vars
    <3>1. \A frame, d : Update(frame, d) => shown' = shown
      BY DEF Update, Schedule, pixelVars
    <3>2. shown' = shown
      BY <1>1, <2>6, <3>1, HostUpdates DEF AckWriter, vars, pixelVars
    <3> QED
      BY <2>5, <3>2
  <2>7. CASE RawEvent
    BY <2>2, <2>5, <2>7 DEF RawEvent, RectsRegister, RectsEnd, RectsHeld, RectsEndMove, RectsComplete,
                            PreludeRegister, RawReturns, RawDies, pixelVars
  <2>8. CASE VideoEvent
    BY <2>3, <2>4, <2>5, <2>8 DEF VideoEvent, VideoRegister, VideoEnd, VideoEndMove, VideoComplete,
                            FenceTaken, FenceMeets, MoveEnds, MoveApplied, VideoReturns,
                            VideoSpoils, VideoDies, pixelVars
  <2> QED
    BY <1>1, <2>6, <2>7, <2>8, Steps
<1>2. IInv /\ [Next]_vars => [\A b \in Blocks : shown'[b] >= shown[b]]_shown
  BY <1>1
<1> QED
  BY <1>2, Invariance, PTL DEF Spec, NoRollback

\* What is acknowledged is shown, owed, not failed and acknowledged once, and the ACK queue
\* never fills up: with as many places as permits, enqueue_frame_ack's full branch is dead.
THEOREM AcksInvariant == Spec => []AcksInv
<1>1. ASSUME IInv PROVE AcksInv
  <2>1. TypeOK
    BY <1>1, Typed
  <2>2. AckMeansShown /\ FailedNeverAcked /\ AckQueueSuffices
    BY <1>1 DEF IInv, Unsent, EndInv, FailedNeverAcked, AckQueueSuffices
  <2>3. AcksAreOwed
    <3>1. DOMAIN ackQueue = 1..Len(ackQueue)
      BY <1>1 DEF IInv, AckInv
    <3>2. \A i \in 1..Len(ackQueue) : ackQueue[i] \in unacked
      BY <1>1 DEF IInv, AckInv, Queued
    <3> QED
      BY <1>1, <3>1, <3>2 DEF AcksAreOwed, IInv, AckInv
  <2> QED
    BY <2>1, <2>2, <2>3 DEF AcksInv
<1> QED
  BY <1>1, Invariance, PTL

\* LogicalCompletion's table is a function on the registered sequences.
PendingFun == pending = [s \in DOMAIN pending |-> pending[s]]

\* The table stays a function whatever a step does to it.
LEMMA PendingStays == ASSUME PendingFun, [Next]_vars PROVE PendingFun'
<1>1. ASSUME NEW s, NEW parts, Register(s, parts) PROVE PendingFun'
  BY <1>1 DEF Register, PendingFun
<1>2. ASSUME NEW s, pending' = Forget(s) PROVE PendingFun'
  BY <1>2 DEF Forget, PendingFun
<1>3. ASSUME NEW s, NEW part, Complete(s, part) PROVE PendingFun'
  <2>1. CASE pending' = Forget(s)
    BY <1>2, <2>1
  <2>2. CASE pending' = [pending EXCEPT ![s] = @ \ {part}]
    BY <2>2 DEF PendingFun
  <2> QED
    BY <1>3, <2>1, <2>2 DEF Complete
<1>4. CASE pending' = pending
  BY <1>4 DEF PendingFun
<1>5. ASSUME Next PROVE \/ pending' = pending
                        \/ \E s, parts : Register(s, parts)
                        \/ \E s : pending' = Forget(s)
                        \/ \E s, part : Complete(s, part)
  <2>1. CASE Host
    <3>1. \A frame, d : Schedule(frame, d) => pending' = pending
      BY DEF Schedule, doneVars
    <3>2. SendRecovery => pending' = pending
      BY <3>1 DEF SendRecovery
    <3>3. \A v, r \in SUBSET Blocks : SendUpdate(v, r) => pending' = pending
      BY <3>1 DEF SendUpdate
    <3>4. \A src, dst \in Blocks, rem \in Remainder, c \in SUBSET Blocks :
            SendMove(src, dst, rem, c) => pending' = pending
      BY <3>1 DEF SendMove
    <3> QED
      BY <2>1, <3>2, <3>3, <3>4 DEF Host
  <2>2. CASE SparseReader
    <3>1. CASE RectsBegin
      <4>1. pending' = pending \/ Register(Head(sparse).seq, Head(sparse).parts)
        BY <3>1 DEF RectsBegin
      <4> QED
        BY <4>1
    <3>2. CASE RectsFinish
      BY <3>2 DEF RectsFinish
    <3>3. CASE RectsBase \/ RectsPaint \/ Prelude \/ PreludeReturns \/ RawStops
      BY <3>3 DEF RectsBase, RectsPaint, Prelude, PreludeReturns, RawStops, doneVars
    <3> QED
      BY <2>2, <3>1, <3>2, <3>3 DEF SparseReader
  <2>3. CASE BulkReader
    BY <2>3 DEF BulkReader, VideoBegin, VideoPaint, VideoFinish, FenceBegin, FenceMeetsPrelude,
                FenceApply, FenceMark, FenceReturns, VideoStops, doneVars
  <2>4. CASE VideoDecodeFails \/ WorkerClaims \/ WaitTimesOut \/ AckWriter
    BY <2>4 DEF VideoDecodeFails, WorkerClaims, WaitTimesOut, AckWriter, doneVars
  <2> QED
    BY <1>5, <2>1, <2>2, <2>3, <2>4 DEF Next
<1>6. CASE UNCHANGED vars
  BY <1>4, <1>6 DEF vars, doneVars
<1> QED
  BY <1>1, <1>2, <1>3, <1>4, <1>5, <1>6

\* When both lanes are drained and nothing failed, no ACK is missing and the canvas is the
\* host's desktop.
THEOREM QuiescenceInvariant == Spec => []QuiescentIsCurrent
<1>1. ASSUME IInv, PendingFun, Quiescent
      PROVE  unacked = {} /\ pending = [s \in {} |-> Parts] /\ (Last > 0 => canvas = desktop[Last])
  <2>0. /\ bulk = <<>> /\ sparse = <<>> /\ ackQueue = <<>> /\ video.at = "read" /\ raw.at = "read"
        /\ Len(bulk) = 0 /\ Len(sparse) = 0 /\ Len(ackQueue) = 0 /\ 1..0 = {}
    BY <1>1 DEF Quiescent
  <2>1. Alive /\ \A s : ~VideoDue(s) /\ ~RawDue(s) /\ ~CopyDue(s)
    BY <2>0 DEF Alive, VideoDead, RawDead, VideoDue, RawDue, CopyDue, VideoPixels, VideoCopies, RawPixels
  <2>2. \A s \in 1..Last : s \in sent
    <3> SUFFICES ASSUME NEW s \in 1..Last, s \notin sent PROVE FALSE
      OBVIOUS
    <3>1. "VIDEO" \notin Left(s) /\ "RAW" \notin Left(s) /\ PartsOf(s) # {}
      BY <1>1, <2>1 DEF IInv, Owed
    <3>2. Left(s) \subseteq Parts /\ Left(s) # {}
      BY <1>1, <3>1 DEF IInv, Registered, Left, PartsOf, Parts
    <3> QED
      BY <3>1, <3>2 DEF Parts
  <2>3. unacked = {}
    <3>1. Queued = {} /\ Queued = sent \cap unacked /\ unacked \subseteq 1..Last
      BY <1>1, <2>0 DEF IInv, AckInv, Queued
    <3> QED
      BY <2>2, <3>1
  <2>4. pending = [s \in {} |-> Parts]
    <3>1. DOMAIN pending = {}
      BY <1>1, <2>2 DEF IInv, Registered, Unsent
    <3> QED
      BY <1>1, <3>1 DEF PendingFun
  <2>5. ASSUME Last > 0 PROVE canvas = desktop[Last]
    <3>1. Last \in 1..Last /\ Last \in 0..Last /\ Last \in Nat
      BY <1>1, <2>5, BeforeTyped
    <3>2. canvas \in [Blocks -> Content] /\ desktop[Last] \in [Blocks -> Content]
      BY <1>1, <3>1 DEF IInv, PixelsTyped, HostTyped, Last
    <3>3. ASSUME NEW b \in Blocks PROVE canvas[b] = desktop[Last][b]
      <4>1. canvas[b] = Frame(shown[b])[b] /\ shown[b] \in 0..Last
        BY <1>1, <3>1, VisualAssumption DEF IInv, CanvasInv, PixelsTyped
      <4>2. \A t \in 1..Last : shown[b] < t /\ t <= Last => b \notin Touched(t)
        BY <1>1, <2>2, <3>1, <4>1 DEF IInv, AckMeansShown
      <4>3. Frame(Last)[b] = Frame(shown[b])[b]
        BY <1>1, <3>1, <4>1, <4>2 DEF IInv, UpdatesReal
      <4>4. Frame(Last) = desktop[Last]
        BY <2>5, <3>1 DEF Frame
      <4> QED
        BY <4>1, <4>3, <4>4
    <3> QED
      BY <3>2, <3>3
  <2> QED
    BY <2>3, <2>4, <2>5
<1>2. IInv /\ PendingFun => QuiescentIsCurrent
  BY <1>1 DEF QuiescentIsCurrent
<1>3. Init => PendingFun
  BY DEF Init, PendingFun
<1>4. Spec => []PendingFun
  BY <1>3, PendingStays, PTL DEF Spec
<1> QED
  BY <1>2, <1>4, Invariance, PTL

-----------------------------------------------------------------------------
(* A legal stream: the host starts with a recovery frame and holds a move  *)
(* back until nothing is unacknowledged, a woken bulk reader runs before   *)
(* the next prelude registers, and nothing fails to decode or times out.   *)

Healthy == Alive /\ ~stop /\ failure = "none" /\ failed = {} /\ move # FailedMove

\* Until the base is up the recovery frame that starts the stream is on its way.
BaseInv ==
  /\ hasBase = baseReady
  /\ Last > 0 /\ ~hasBase => VideoDue(1)
  /\ \A i \in 1..Len(bulk) : bulk[i].type = "video" /\ bulk[i].seq = 1 => bulk[i].kind = "Recovery"

\* A move is scheduled when everything before it is acknowledged, on the preceding sequence.
MovesAlone ==
  \A s \in 1..Last : updates[s].copy # {} => s > 1 /\ \A t \in 1..Last : t < s => t \in sent

Baselines ==
  /\ \A i \in 1..Len(bulk) : bulk[i].type = "fence" => bulk[i].baseline = bulk[i].seq - 1
  /\ \A i \in 1..Len(sparse) : sparse[i].type = "prelude" => sparse[i].baseline = sparse[i].seq - 1
  /\ video.at \in {"fence", "apply"} => video.msg.baseline = video.msg.seq - 1
  /\ Pending => move.baseline = move.seq - 1

\* Whoever waits in the rendezvous waits for what the other reader has yet to do.
Meeting ==
  /\ \A i \in 1..Len(sparse) : sparse[i].type = "prelude" => CopyDue(sparse[i].seq)
  /\ Pending /\ ~move.applied => CopyDue(move.seq)
  /\ Pending /\ move.applied => move.remainder # "None"
  /\ Pending /\ move.remainder # "Raw" => raw.at = "waitMove" /\ raw.msg.seq = move.seq
  /\ Pending /\ move.applied /\ move.remainder = "Raw" => video.at = "waitRaw"
  /\ video.at = "waitRaw" => NoMove \/ Owns(video.msg.seq)
  /\ VideoPixels /\ video.ends # {} => Owns(video.msg.seq)
  /\ RawPixels /\ raw.ends # {} => Owns(raw.msg.seq)

\* A committed update leaves its sequence in some fence.
Fenced ==
  /\ video.at = "finish" => \A b \in video.msg.cover : fences[b] >= video.msg.seq
  /\ raw.at = "finish" => \A b \in raw.msg.cover : fences[b] >= raw.msg.seq
  /\ video.at = "mark" /\ video.msg.remainder = "None" => fences[video.msg.dst] >= video.msg.seq
  /\ \A s \in sent : \E b \in Blocks : fences[b] >= s

LegalInv ==
  orderly => Healthy /\ BaseInv /\ MovesAlone /\ Baselines /\ Meeting /\ Fenced

Legal == IInv /\ LegalInv /\ orderly

\* The steps that are left: none of them ends a reader.
LegalRaw ==
  \/ RectsRegister \/ RectsEnd \/ RectsHeld \/ RectsDraw \/ RectsEndMove \/ RectsComplete
  \/ PreludeRegister /\ video.at # "waitRaw"
  \/ RawReturns /\ (NoMove \/ raw.msg.remainder = "Raw")
FenceCommits ==
  FenceCopies /\ (video.msg.remainder = "None" => fences' = Commit(video.msg.seq, {video.msg.dst}))
MoveWaits ==
  MoveApplied /\ video' = IF move.remainder = "Raw" THEN At("waitRaw", video.msg, video.ends) ELSE Reading
LegalVideo ==
  \/ VideoRegister \/ VideoEnd \/ VideoDraw \/ VideoEndMove \/ VideoComplete
  \/ FenceTaken
  \/ FenceMeets /\ move.baseline = video.msg.baseline
  \/ FenceCommits \/ MoveEnds \/ MoveWaits
  \/ VideoReturns /\ NoMove

\* When a move is about, the base is up and nothing before it is outstanding.
LEMMA MoveHasBase ==
  ASSUME Legal, NEW s \in 1..Last, updates[s].copy # {}
  PROVE  /\ hasBase /\ baseReady
         /\ \A t \in 1..Last : t < s => t \in sent
<1>1. s > 1 /\ \A t \in 1..Last : t < s => t \in sent
  BY DEF Legal, LegalInv, MovesAlone
<1>2. 1 \in 1..Last /\ 1 < s /\ Last > 0
  BY <1>1, BeforeTyped DEF Legal
<1>3. ~VideoDue(1)
  BY <1>1, <1>2 DEF Legal, IInv, Unsent
<1> QED
  BY <1>1, <1>2, <1>3 DEF Legal, LegalInv, BaseInv

\* The move in the rendezvous: unacknowledged, and its legs still to come.
LEMMA MoveAbout ==
  ASSUME Legal, ~NoMove, NEW q, q = move.seq
  PROVE  /\ Pending /\ MoveLeg(move) /\ q \in 1..Last /\ q \notin sent /\ updates[q].copy = {move.dst}
         /\ move.remainder = RemOf(q)
         /\ \A t \in 1..Last : t < q => t \in sent
         /\ move.remainder = "Raw" => RawDue(q)
         /\ move.remainder = "Video" => VideoDue(q)
<1>1. Pending /\ MoveLeg(move)
  BY DEF Legal, LegalInv, Healthy, IInv, MoveTyped, NoMove, MoveRecord, Pending
<1>2. q \in 1..Last /\ q \notin sent /\ updates[q].copy = {move.dst} /\ move.remainder = RemOf(q)
  BY <1>1 DEF MoveLeg, Legal, IInv, Unsent
<1>3. \A t \in 1..Last : t < q => t \in sent
  BY <1>2, MoveHasBase
<1>4. Left(q) = PartsOf(q)
  BY <1>2 DEF Legal, IInv, Registered, Left
<1>5. ("VIDEO" \in PartsOf(q) => VideoDue(q)) /\ ("RAW" \in PartsOf(q) => RawDue(q))
  BY <1>2, <1>4 DEF Legal, LegalInv, Healthy, IInv, Owed
<1>6. ("Raw" = RemOf(q) => "RAW" \in PartsOf(q)) /\ ("Video" = RemOf(q) => "VIDEO" \in PartsOf(q))
  BY DEF RemOf, PartsOf
<1> QED
  BY <1>1, <1>2, <1>3, <1>5, <1>6

\* Rectangles that find a move in the rendezvous are its raw remainder.
LEMMA RectsFindTheirMove ==
  ASSUME Legal, raw.at = "read", sparse # <<>>, sparse[1].type = "rects", ~NoMove
  PROVE  EndsMove(sparse[1].seq, "Raw")
<1>q. PICK q : q = move.seq
  OBVIOUS
<1>1. /\ Pending /\ q \in 1..Last /\ q \notin sent
      /\ \A t \in 1..Last : t < q => t \in sent
      /\ move.remainder = "Raw" => RawDue(q)
  BY <1>q, MoveAbout
<1>2. move.applied /\ move.remainder = "Raw"
  BY <1>1 DEF Legal, LegalInv, Meeting, IInv, MoveInv
<1>3. PICK i \in 1..Len(sparse) : sparse[i].type = "rects" /\ sparse[i].seq = q
  BY <1>1, <1>2 DEF RawDue, RawPixels
<1>4. 1 \in 1..Len(sparse) /\ Len(sparse) \in Nat
  BY FirstOf DEF Legal, IInv, LanesTyped
<1>5. RawDue(sparse[1].seq) /\ RawLeg(sparse[1])
  BY <1>4 DEF RawDue, Legal, IInv, LanesTyped
<1>6. sparse[1].seq \in 1..Last /\ sparse[1].seq \notin sent
  BY <1>5 DEF RawLeg, Legal, IInv, Unsent
<1>7. ~(sparse[1].seq < q)
  BY <1>1, <1>6
<1>8. i = 1 \/ 1 < i
  BY <1>4
<1>9. sparse[1].seq = q
  BY <1>3, <1>4, <1>7, <1>8 DEF Legal, IInv, OrderInv
<1> QED
  BY <1>q, <1>1, <1>2, <1>9 DEF EndsMove, Owns

\* Video that finds a move in the rendezvous is its video remainder.
LEMMA VideoFindsItsMove ==
  ASSUME Legal, video.at = "read", bulk # <<>>, bulk[1].type = "video", ~NoMove
  PROVE  EndsMove(bulk[1].seq, "Video")
<1>q. PICK q : q = move.seq
  OBVIOUS
<1>1. /\ Pending /\ q \in 1..Last /\ q \notin sent /\ MoveLeg(move)
      /\ \A t \in 1..Last : t < q => t \in sent
      /\ move.remainder = "Video" => VideoDue(q)
  BY <1>q, MoveAbout
<1>2. /\ VideoLeg(bulk[1]) /\ bulk[1].seq \notin sent
      /\ \A k \in 1..Len(bulk) : 1 < k => bulk[1].seq < bulk[k].seq
      /\ 1 \in 1..Len(bulk) /\ Len(bulk) \in Nat
  BY BulkFirst, FirstOf DEF Legal, IInv, LanesTyped
<1>3. ~(bulk[1].seq < q)
  BY <1>1, <1>2 DEF VideoLeg
<1>4. \A i \in 1..Len(bulk) : bulk[i].seq = q => i = 1
  BY <1>2, <1>3
<1>5. move.applied
  <2>1. ASSUME ~move.applied PROVE FALSE
    <3>1. CopyDue(q)
      BY <1>q, <1>1, <2>1 DEF Legal, LegalInv, Meeting
    <3>2. PICK i \in 1..Len(bulk) : bulk[i].type = "fence" /\ bulk[i].seq = q
      BY <3>1 DEF CopyDue, VideoCopies
    <3> QED
      BY <1>4, <3>2
  <2> QED
    BY <2>1
<1>6. move.remainder = "Video"
  <2>1. move.remainder # "None" /\ move.remainder # "Raw"
    BY <1>1, <1>5 DEF Legal, LegalInv, Meeting
  <2> QED
    BY <1>1, <2>1 DEF MoveLeg, RemOf
<1>7. bulk[1].seq = q
  BY <1>1, <1>4, <1>6 DEF VideoDue, VideoPixels
<1> QED
  BY <1>q, <1>1, <1>5, <1>6, <1>7 DEF EndsMove, Owns

\* A prelude finds the rendezvous empty.
LEMMA PreludeFindsNoMove ==
  ASSUME Legal, sparse # <<>>, sparse[1].type = "prelude"
  PROVE  NoMove /\ hasBase /\ baseReady
<1>1. 1 \in 1..Len(sparse)
  BY FirstOf DEF Legal, IInv, LanesTyped
<1>2. MoveLeg(sparse[1])
  BY <1>1 DEF Legal, IInv, LanesTyped
<1>3. sparse[1].seq \in 1..Last /\ updates[sparse[1].seq].copy # {}
  BY <1>2 DEF MoveLeg
<1>4. hasBase /\ baseReady /\ \A t \in 1..Last : t < sparse[1].seq => t \in sent
  BY <1>3, MoveHasBase
<1>5. ASSUME ~NoMove PROVE FALSE
  <2>1. Pending /\ move.seq \in 1..Last /\ move.seq \notin sent
    BY <1>5, MoveAbout
  <2>2. move.seq < sparse[1].seq
    BY <1>1, <2>1 DEF Legal, IInv, RawOrder
  <2> QED
    BY <1>4, <2>1, <2>2
<1> QED
  BY <1>4, <1>5

\* A fence that meets a move meets its own prelude.
LEMMA FenceFindsItsMove ==
  ASSUME Legal, video.at = "fence", ~NoMove
  PROVE  Owns(video.msg.seq) /\ move.baseline = video.msg.baseline
<1>s. PICK s : s = video.msg.seq
  OBVIOUS
<1>1. s \in 1..Last /\ updates[s].copy # {} /\ CopyDue(s)
  BY <1>s DEF Legal, IInv, VideoTyped, FenceLeg, CopyDue, VideoCopies
<1>2. s \notin sent /\ \A t \in 1..Last : t < s => t \in sent
  BY <1>1, MoveHasBase DEF Legal, IInv, Unsent
<1>3. /\ Pending /\ move.seq \in 1..Last /\ move.seq \notin sent
      /\ \A t \in 1..Last : t < move.seq => t \in sent
  BY MoveAbout
<1>4. s = move.seq
  BY <1>1, <1>2, <1>3, BeforeTyped DEF Legal
<1>5. move.baseline = move.seq - 1 /\ video.msg.baseline = video.msg.seq - 1
  BY <1>3 DEF Legal, LegalInv, Baselines
<1> QED
  BY <1>s, <1>3, <1>4, <1>5 DEF Owns

\* When a move is copied its baseline is the newest sequence committed.
LEMMA BaselineShown ==
  ASSUME Legal, video.at = "apply" PROVE MaxFence = video.msg.baseline
<1>s. PICK s : s = video.msg.seq
  OBVIOUS
<1>0. fences \in [Blocks -> 0..MaxSeq] /\ MaxSeq \in Nat /\ shown \in [Blocks -> 0..MaxSeq] /\ Last \in Nat
  BY VisualAssumption, BeforeTyped DEF Legal, IInv, PixelsTyped
<1>1. s \in 1..Last /\ updates[s].copy # {} /\ video.msg.baseline = s - 1
  BY <1>s DEF Legal, IInv, VideoTyped, MoveLeg, LegalInv, Baselines
<1>2. s > 1 /\ s - 1 \in sent
  <2>1. s > 1 /\ \A t \in 1..Last : t < s => t \in sent
    BY <1>1 DEF Legal, LegalInv, MovesAlone
  <2>2. s - 1 \in 1..Last /\ s - 1 < s
    BY <1>0, <1>1, <2>1
  <2> QED
    BY <2>1, <2>2
<1>3. \A b \in Blocks : fences[b] <= s - 1
  <2>1. \A b \in Blocks : shown[b] < s /\ fences[b] <= shown[b]
    BY <1>s DEF Legal, IInv, VideoShown, CanvasInv
  <2> QED
    BY <1>0, <1>1, <2>1
<1>4. PICK b \in Blocks : fences[b] >= s - 1
  BY <1>2 DEF Legal, LegalInv, Fenced
<1>5. fences[b] = s - 1
  BY <1>0, <1>1, <1>3, <1>4
<1>6. MaxFence \in {fences[x] : x \in Blocks} /\ \A x \in Blocks : fences[x] <= MaxFence
  BY <1>3, <1>5 DEF MaxFence
<1>7. PICK x \in Blocks : MaxFence = fences[x]
  BY <1>6
<1> QED
  BY <1>0, <1>1, <1>3, <1>5, <1>6, <1>7

\* The sparse reader never ends.
LEMMA LegalRawSteps == ASSUME Legal, SparseReader PROVE LegalRaw
<1> USE DEF LegalRaw
<1>0. /\ sparse \in Seq(RectsMessage \cup PreludeMessage)
      /\ raw = At(raw.at, raw.msg, raw.ends)
      /\ ~stop /\ failed = {} /\ move # FailedMove
  BY DEF Legal, IInv, LanesTyped, RawTyped, LegalInv, Healthy
<1>00. sparse # <<>> => Head(sparse) = sparse[1]
  BY <1>0, FirstOf
<1>1. CASE RectsBegin
  <2>1. CASE NoMove
    BY <1>0, <1>1, <2>1, <1>00 DEF RectsBegin, RectsRegister, RectsFirst, NoMove, EndsMove, Mismatch, Owns, Pending, Idle, syncVars
  <2>2. CASE ~NoMove
    <3>1. EndsMove(sparse[1].seq, "Raw")
      BY <1>1, <1>00, <2>2, RectsFindTheirMove DEF RectsBegin
    <3>2. raw' = At("paint", sparse[1], {move.dst}) /\ pending' = pending /\ move' = move
      BY <1>1, <1>00, <2>2, <3>1 DEF RectsBegin, Mismatch
    <3>3. RectsFirst
      BY <1>1, <1>00 DEF RectsBegin, RectsFirst
    <3>4. UNCHANGED <<hostVars, bulk, video, syncVars, doneVars, pixelVars, ackVars, endVars>>
      BY <1>1, <3>2 DEF RectsBegin, syncVars, doneVars
    <3> QED
      BY <3>1, <3>2, <3>3, <3>4 DEF RectsEnd, EndsMove
  <2> QED
    BY <2>1, <2>2
<1>2. CASE RectsBase
  <2>1. raw' = At("paint", raw.msg, raw.ends)
    BY <1>0, <1>2 DEF RectsBase, At
  <2> QED
    BY <1>2, <2>1 DEF RectsBase, RectsHeld
<1>3. CASE RectsPaint
  <2>1. raw' = At("finish", raw.msg, raw.ends)
    BY <1>3, <1>0 DEF At, RectsPaint
  <2> QED
    BY <1>3, <2>1 DEF RectsPaint, RectsDraw
<1>4. CASE RectsFinish
  <2>0. raw.msg.seq \in 1..Last /\ raw.msg.seq \notin sent
    BY <1>4 DEF Legal, IInv, RectsFinish, RawTyped, Unsent, RawPixels, RawLeg, RawDue
  <2>a. CanAck
    BY <2>0, Room DEF Legal, IInv
  <2>1. CASE raw.ends # {}
    <3>1. Owns(raw.msg.seq)
      BY <1>4, <2>1 DEF RectsFinish, Legal, LegalInv, Meeting, RawPixels
    <3> QED
      BY <1>4, <2>a, <2>1, <3>1 DEF RectsFinish, RectsEndMove, EnqueueAck, RawContinues, doneVars
  <2>4. CASE raw.ends = {}
    BY <1>0, <1>4, <2>a, <2>4 DEF RectsFinish, RectsComplete, RawContinues, syncVars
  <2> QED
    BY <2>1, <2>4
<1>5. CASE Prelude
  <2>1. NoMove /\ baseReady
    BY <1>5, <1>00, PreludeFindsNoMove DEF Prelude
  <2>2. video.at # "waitRaw"
    BY <1>5 DEF Prelude, Legal
  <2> QED
    BY <1>5, <2>1, <2>2, <1>00 DEF Prelude, PreludeRegister, NoMove
<1>6. CASE PreludeReturns
  <2>1. raw' = Reading /\ (NoMove \/ (Owns(raw.msg.seq) /\ move.applied /\ raw.msg.remainder = "Raw"))
    BY <1>0, <1>6 DEF PreludeReturns
  <2> QED
    BY <1>6, <2>1 DEF PreludeReturns, RawReturns
<1>7. CASE RawStops
  BY <1>0, <1>7 DEF RawStops
<1> QED
  BY <1>1, <1>2, <1>3, <1>4, <1>5, <1>6, <1>7 DEF SparseReader

\* Nor does the bulk reader.
LEMMA LegalVideoSteps == ASSUME Legal, BulkReader PROVE LegalVideo
<1> USE DEF LegalVideo
<1>0. /\ bulk \in Seq(VideoMessage \cup FenceMessage)
      /\ video = At(video.at, video.msg, video.ends)
      /\ ~stop /\ failed = {} /\ move # FailedMove
  BY DEF Legal, IInv, LanesTyped, VideoTyped, LegalInv, Healthy
<1>00. bulk # <<>> => Head(bulk) = bulk[1] /\ 1 \in 1..Len(bulk)
  BY <1>0, FirstOf
<1>1. CASE VideoBegin
  <2>0. bulk # <<>> /\ bulk[1].type = "video" /\ bulk' = Tail(bulk) /\ video.at = "read"
    BY <1>1, <1>00 DEF VideoBegin
  <2>1. bulk[1].kind = "Regional" => hasBase
    <3>1. ASSUME ~hasBase PROVE bulk[1].kind = "Recovery"
      <4>1. VideoLeg(bulk[1]) /\ \A k \in 1..Len(bulk) : 1 < k => bulk[1].seq < bulk[k].seq
        BY <2>0, BulkFirst DEF Legal
      <4>2. bulk[1].seq \in 1..Last /\ Last > 0 /\ Last \in Nat
        BY <4>1, BeforeTyped DEF VideoLeg, Legal
      <4>3. VideoDue(1)
        BY <3>1, <4>2 DEF Legal, LegalInv, BaseInv
      <4>4. PICK i \in 1..Len(bulk) : bulk[i].type = "video" /\ bulk[i].seq = 1
        BY <2>0, <4>3 DEF VideoDue, VideoPixels
      <4>5. bulk[1].seq = 1
        <5>1. i = 1 \/ 1 < i
          BY <1>0
        <5> QED
          BY <4>1, <4>2, <4>4, <5>1
      <4> QED
        BY <1>00, <2>0, <4>5 DEF Legal, LegalInv, BaseInv
    <3> QED
      BY <3>1
  <2>2. CASE NoMove
    <3>1. ~EndsMove(bulk[1].seq, "Video") /\ ~Mismatch(bulk[1].seq, "Video")
      BY <2>2 DEF NoMove, EndsMove, Mismatch, Owns, Pending, Idle
    <3>2. /\ Register(bulk[1].seq, bulk[1].parts) /\ video' = At("paint", bulk[1], {}) /\ UNCHANGED move
      BY <1>1, <1>00, <2>0, <2>1, <3>1 DEF VideoBegin
    <3> QED
      BY <1>1, <2>0, <2>2, <3>2 DEF VideoBegin, VideoRegister, VideoFirst, syncVars
  <2>3. CASE ~NoMove
    <3>1. EndsMove(bulk[1].seq, "Video") /\ ~Mismatch(bulk[1].seq, "Video")
      BY <2>0, <2>3, VideoFindsItsMove DEF Mismatch
    <3>2. video' = At("paint", bulk[1], {move.dst}) /\ UNCHANGED <<pending, move>>
      BY <1>1, <1>00, <2>0, <2>1, <2>3, <3>1 DEF VideoBegin
    <3>3. UNCHANGED <<hostVars, sparse, raw, syncVars, doneVars, pixelVars, ackVars, endVars>>
      BY <1>1, <3>2 DEF VideoBegin, syncVars, doneVars
    <3> QED
      BY <2>0, <3>1, <3>2, <3>3 DEF VideoEnd, VideoFirst, EndsMove
  <2> QED
    BY <2>2, <2>3
<1>3. CASE VideoPaint
  <2>1. video' = At("finish", video.msg, video.ends)
    BY <1>3, <1>0 DEF At, VideoPaint
  <2> QED
    BY <1>3, <2>1 DEF VideoPaint, VideoDraw
<1>4. CASE VideoFinish
  <2>0. video.msg.seq \in 1..Last /\ video.msg.seq \notin sent
    BY <1>4 DEF Legal, IInv, VideoFinish, VideoTyped, Unsent, VideoPixels, VideoLeg, VideoDue
  <2>a. CanAck
    BY <2>0, Room DEF Legal, IInv
  <2>1. CASE video.ends # {}
    <3>1. Owns(video.msg.seq)
      BY <1>4, <2>1 DEF VideoFinish, Legal, LegalInv, Meeting, VideoPixels
    <3> QED
      BY <1>4, <2>a, <2>1, <3>1 DEF VideoFinish, VideoEndMove, EnqueueAck, VideoContinues, doneVars
  <2>4. CASE video.ends = {}
    BY <1>4, <2>a, <2>4 DEF VideoFinish, VideoComplete, VideoContinues
  <2> QED
    BY <2>1, <2>4
<1>5. CASE FenceBegin
  <2>1. bulk # <<>> /\ bulk[1].type = "fence"
    BY <1>5, <1>00 DEF FenceBegin
  <2>2. FenceLeg(bulk[1])
    BY <1>00, <2>1 DEF Legal, IInv, LanesTyped
  <2>3. hasBase
    BY <2>2, MoveHasBase DEF FenceLeg
  <2> QED
    BY <1>5, <2>3, <1>00 DEF FenceBegin, FenceTaken, syncVars
<1>6. CASE FenceMeetsPrelude
  <2>0. Owns(video.msg.seq) => ~NoMove
    BY DEF Owns, Pending, NoMove, Idle
  <2>1. ~NoMove
    BY <1>6, <2>0 DEF FenceMeetsPrelude
  <2>2. Owns(video.msg.seq) /\ move.baseline = video.msg.baseline
    BY <1>6, <2>1, FenceFindsItsMove DEF FenceMeetsPrelude
  <2>3. video' = At("apply", move, {}) /\ UNCHANGED move
    BY <1>6, <2>2 DEF FenceMeetsPrelude
  <2> QED
    BY <1>6, <2>2, <2>3 DEF FenceMeetsPrelude, FenceMeets, syncVars
<1>7. CASE FenceApply
  <2>1. MaxFence = video.msg.baseline
    BY <1>7, BaselineShown DEF FenceApply
  <2>2. video' = At("mark", video.msg, video.ends)
    BY <1>7, <2>1, <1>0 DEF FenceApply, At
  <2> QED
    BY <1>7, <2>1, <2>2 DEF FenceApply, FenceCommits, FenceCopies, syncVars
<1>8. CASE FenceMark
  <2>0. video.msg.seq \in 1..Last /\ video.msg.seq \notin sent
    BY <1>8 DEF Legal, IInv, FenceMark, VideoTyped, Unsent, VideoCopies, MoveLeg, CopyDue
  <2>a. CanAck
    BY <2>0, Room DEF Legal, IInv
  <2>b. Owns(video.msg.seq)
    BY <1>8, <1>0 DEF FenceMark, Legal, LegalInv, Healthy, Alive, IInv, Met
  <2>1. CASE move.remainder = "None"
    BY <1>8, <2>a, <2>b, <2>1 DEF FenceMark, MoveEnds, EnqueueAck, VideoContinues
  <2>2. CASE move.remainder # "None"
    <3>1. video' = IF move.remainder = "Raw" THEN At("waitRaw", video.msg, video.ends) ELSE Reading
      BY <1>8, <2>b, <2>2, <1>0 DEF FenceMark, At
    <3> QED
      BY <1>8, <2>b, <2>2, <3>1 DEF FenceMark, MoveWaits, MoveApplied
  <2> QED
    BY <2>1, <2>2
<1>9. CASE FenceReturns
  <2>1. NoMove \/ Owns(video.msg.seq)
    BY <1>9 DEF FenceReturns, Legal, LegalInv, Meeting
  <2>2. NoMove /\ video' = Reading /\ UNCHANGED move
    BY <1>9, <2>1 DEF FenceReturns
  <2> QED
    BY <1>9, <2>2 DEF FenceReturns, VideoReturns, syncVars
<1>10. CASE VideoStops
  BY <1>0, <1>10 DEF VideoStops
<1> QED
  BY <1>1, <1>3, <1>4, <1>5, <1>6, <1>7, <1>8, <1>9, <1>10 DEF BulkReader

\* These are all the steps of a legal stream.
LEMMA LegalSteps ==
  ASSUME Legal, [Next]_vars
  PROVE  Host \/ LegalRaw \/ LegalVideo \/ AckWriter \/ UNCHANGED vars
<1>1. ~VideoDecodeFails /\ ~WaitTimesOut
  BY DEF Legal, VideoDecodeFails, WaitTimesOut
<1>2. ~WorkerClaims
  BY DEF Legal, LegalInv, Healthy, Alive, VideoDead, RawDead, WorkerClaims
<1> QED
  BY <1>1, <1>2, LegalRawSteps, LegalVideoSteps DEF Next

\* What a step of the sparse reader leaves alone, and what it never does.
LEMMA LegalRawLeaves ==
  ASSUME Legal, LegalRaw
  PROVE  /\ UNCHANGED <<orderly, desktop, updates, bulk, video, hasBase, baseReady, failed, stop, failure>>
         /\ raw'.at \notin {"failing", "ended"} /\ sent \subseteq sent'
         /\ \A i \in 1..Len(sparse') : \E k \in 1..Len(sparse) : sparse'[i] = sparse[k]
         /\ \/ move' = move \/ move' = Idle
            \/ /\ NoMove /\ sparse # <<>> /\ sparse[1].type = "prelude" /\ 1 \in 1..Len(sparse)
               /\ move' = [state |-> "Pending", seq |-> sparse[1].seq, baseline |-> sparse[1].baseline,
                           src |-> sparse[1].src, dst |-> sparse[1].dst,
                           remainder |-> sparse[1].remainder, applied |-> FALSE]
<1>1. /\ UNCHANGED <<orderly, desktop, updates, bulk, video, hasBase, baseReady, failed, stop, failure>>
      /\ raw'.at \notin {"failing", "ended"} /\ Shorter(sparse', sparse)
  BY DEF LegalRaw, RectsRegister, RectsEnd, RectsHeld, RectsDraw, RectsEndMove, RectsComplete,
         PreludeRegister, RawReturns, RectsFirst, Shorter, hostVars, laneVars, syncVars, doneVars, endVars,
         At, Reading
<1>2. sent \subseteq sent'
  BY DEF LegalRaw, RectsRegister, RectsEnd, RectsHeld, RectsDraw, RectsEndMove, RectsComplete,
         PreludeRegister, RawReturns, ackVars, Complete, EnqueueAck
<1>3. \A i \in 1..Len(sparse') : \E k \in 1..Len(sparse) : sparse'[i] = sparse[k]
  BY <1>1, LeftOf DEF Legal, IInv, LanesTyped
<1>4. PreludeRegister => sparse # <<>> /\ 1 \in 1..Len(sparse)
  BY FirstOf DEF PreludeRegister, Legal, IInv, LanesTyped
<1>5. CASE PreludeRegister
  BY <1>1, <1>2, <1>3, <1>4, <1>5 DEF PreludeRegister
<1>6. CASE ~PreludeRegister
  <2>1. move' = move \/ move' = Idle
    BY <1>6 DEF LegalRaw, RectsRegister, RectsEnd, RectsHeld, RectsDraw, RectsEndMove, RectsComplete,
                RawReturns, syncVars
  <2> QED
    BY <1>1, <1>2, <1>3, <2>1
<1> QED
  BY <1>5, <1>6

\* Likewise for the bulk reader.
LEMMA LegalVideoLeaves ==
  ASSUME Legal, LegalVideo
  PROVE  /\ UNCHANGED <<orderly, desktop, updates, sparse, raw, failed, stop, failure>>
         /\ video'.at \notin {"failing", "ended"} /\ sent \subseteq sent'
         /\ \A i \in 1..Len(bulk') : \E k \in 1..Len(bulk) : bulk'[i] = bulk[k]
         /\ (hasBase' = hasBase /\ baseReady' = baseReady) \/ (hasBase' = TRUE /\ baseReady' = TRUE)
         /\ move' = move \/ move' = Idle \/ (MoveWaits /\ move' = [move EXCEPT !.applied = TRUE])
<1> USE DEF FenceCommits
<1>1. /\ UNCHANGED <<orderly, desktop, updates, sparse, raw, failed, stop, failure>>
      /\ video'.at \notin {"failing", "ended"} /\ Shorter(bulk', bulk)
  BY DEF LegalVideo, VideoRegister, VideoEnd, VideoDraw, VideoEndMove, VideoComplete, FenceTaken,
         FenceMeets, FenceCopies, MoveEnds, MoveWaits, MoveApplied, VideoReturns, VideoFirst,
         Shorter, hostVars, laneVars, syncVars, doneVars, endVars, At, Reading
<1>2. sent \subseteq sent'
  BY DEF LegalVideo, VideoRegister, VideoEnd, VideoDraw, VideoEndMove, VideoComplete, FenceTaken,
         FenceMeets, FenceCopies, MoveEnds, MoveWaits, MoveApplied, VideoReturns,
         ackVars, Complete, EnqueueAck
<1>3. \A i \in 1..Len(bulk') : \E k \in 1..Len(bulk) : bulk'[i] = bulk[k]
  BY <1>1, LeftOf DEF Legal, IInv, LanesTyped
<1>4. /\ (hasBase' = hasBase /\ baseReady' = baseReady) \/ (hasBase' = TRUE /\ baseReady' = TRUE)
      /\ move' = move \/ move' = Idle \/ (MoveWaits /\ move' = [move EXCEPT !.applied = TRUE])
  BY DEF LegalVideo, VideoRegister, VideoEnd, VideoDraw, VideoEndMove, VideoComplete, FenceTaken,
         FenceMeets, FenceCopies, MoveEnds, MoveWaits, MoveApplied, VideoReturns, syncVars
<1> QED
  BY <1>1, <1>2, <1>3, <1>4

\* What the bulk reader takes or holds stays due until it is done with it.
LEMMA LegalDues ==
  ASSUME Legal, LegalVideo
  PROVE  /\ VideoDue(1) /\ ~hasBase' => VideoDue(1)'
         /\ \A s : CopyDue(s) => CopyDue(s)' \/ (Owns(s) /\ (MoveEnds \/ MoveWaits))
<1>1. CASE VideoRegister \/ VideoEnd \/ FenceTaken
  <2>1. VideoTakes /\ ~VideoPixels /\ ~VideoCopies
    BY <1>1 DEF VideoRegister, VideoEnd, FenceTaken, VideoFirst, VideoTakes, At, VideoPixels, VideoCopies
  <2> QED
    BY <2>1, VideoTaken DEF Legal, IInv
<1>2. CASE VideoDraw \/ VideoReturns
  BY <1>2 DEF VideoDraw, VideoReturns, At, Reading, VideoDue, CopyDue, VideoPixels, VideoCopies, laneVars
<1>3. CASE VideoEndMove \/ VideoComplete
  BY <1>3 DEF VideoEndMove, VideoComplete, At, Reading, CopyDue, VideoCopies, laneVars
<1>4. CASE FenceMeets \/ FenceCommits
  BY <1>4 DEF FenceMeets, FenceCommits, FenceCopies, At, VideoDue, CopyDue, VideoPixels, VideoCopies, laneVars, Owns
<1>5. CASE MoveEnds \/ MoveWaits
  BY <1>5 DEF MoveEnds, MoveWaits, MoveApplied, At, Reading, VideoDue, CopyDue, VideoPixels, VideoCopies, laneVars
<1> QED
  BY <1>1, <1>2, <1>3, <1>4, <1>5 DEF LegalVideo

\* Both readers stay, and whatever the stream needs first is still first.
LEMMA LegalPlain ==
  ASSUME Legal, LegalRaw \/ LegalVideo
  PROVE  Healthy' /\ BaseInv' /\ MovesAlone' /\ Baselines'
<1>0. Healthy /\ BaseInv /\ MovesAlone /\ Baselines
  BY DEF Legal, LegalInv
<1>1. Healthy'
  <2>1. CASE LegalRaw
    BY <1>0, <2>1, LegalRawLeaves DEF Healthy, Alive, VideoDead, RawDead, Idle, FailedMove
  <2>2. CASE LegalVideo
    <3>1. move' # FailedMove
      <4>1. MoveWaits => move \in MoveRecord
        BY DEF MoveWaits, MoveApplied, Owns, Pending, Legal, IInv, MoveTyped, Idle, FailedMove
      <4>2. MoveWaits => move'.state = "Pending"
        BY <4>1 DEF MoveWaits, MoveApplied, MoveRecord
      <4> QED
        BY <1>0, <2>2, <4>2, LegalVideoLeaves DEF Healthy, Idle, FailedMove
    <3> QED
      BY <1>0, <2>2, <3>1, LegalVideoLeaves DEF Healthy, Alive, VideoDead, RawDead
  <2> QED
    BY <2>1, <2>2
<1>2. BaseInv'
  <2>1. CASE LegalRaw
    BY <1>0, <2>1, LegalRawLeaves DEF BaseInv, VideoDue, VideoPixels, Last
  <2>2. CASE LegalVideo
    <3>1. /\ \A i \in 1..Len(bulk') : \E k \in 1..Len(bulk) : bulk'[i] = bulk[k]
          /\ (hasBase' = hasBase /\ baseReady' = baseReady) \/ (hasBase' = TRUE /\ baseReady' = TRUE)
          /\ Last' = Last
      BY <2>2, LegalVideoLeaves DEF Last
    <3>2. VideoDue(1) /\ ~hasBase' => VideoDue(1)'
      BY <2>2, LegalDues
    <3>3. hasBase' = baseReady'
      BY <1>0, <3>1 DEF BaseInv
    <3>4. Last' > 0 /\ ~hasBase' => VideoDue(1)'
      BY <1>0, <3>1, <3>2 DEF BaseInv
    <3>5. \A i \in 1..Len(bulk') : bulk'[i].type = "video" /\ bulk'[i].seq = 1 => bulk'[i].kind = "Recovery"
      BY <1>0, <3>1 DEF BaseInv
    <3> QED
      BY <3>3, <3>4, <3>5 DEF BaseInv
  <2> QED
    BY <2>1, <2>2
<1>3. MovesAlone'
  <2>1. updates' = updates /\ Last' = Last /\ sent \subseteq sent'
    BY LegalRawLeaves, LegalVideoLeaves DEF Last
  <2> QED
    BY <1>0, <2>1 DEF MovesAlone
<1>4. Baselines'
  <2>1. CASE LegalRaw
    <3>1. Pending' => move'.baseline = move'.seq - 1
      BY <1>0, <2>1, LegalRawLeaves DEF Baselines, Pending, Idle
    <3> QED
      BY <1>0, <2>1, <3>1, LegalRawLeaves DEF Baselines
  <2>2. CASE LegalVideo
    <3>1. ASSUME Pending' PROVE move'.baseline = move'.seq - 1
      <4>1. Pending
        BY <2>2, <3>1, LegalVideoLeaves DEF Pending, Idle, MoveWaits, MoveApplied, Owns
      <4>2. move \in MoveRecord
        BY <4>1 DEF Legal, IInv, MoveTyped, Pending, Idle, FailedMove
      <4>3. move'.baseline = move.baseline /\ move'.seq = move.seq
        BY <2>2, <3>1, <4>2, LegalVideoLeaves DEF MoveRecord, Pending, Idle
      <4> QED
        BY <1>0, <4>1, <4>3 DEF Baselines
    <3>2. video'.at \in {"fence", "apply"} => video'.msg.baseline = video'.msg.seq - 1
      <4>1. CASE FenceTaken
        <5>1. 1 \in 1..Len(bulk)
          BY <4>1, FirstOf DEF FenceTaken, Legal, IInv, LanesTyped
        <5> QED
          BY <1>0, <4>1, <5>1 DEF FenceTaken, Baselines, At
      <4>2. CASE FenceMeets
        BY <1>0, <4>2 DEF FenceMeets, Baselines, At, Owns
      <4>3. CASE ~FenceTaken /\ ~FenceMeets
        BY <2>2, <4>3 DEF LegalVideo, VideoRegister, VideoEnd, VideoDraw, VideoEndMove, VideoComplete,
              FenceCommits, FenceCopies, MoveEnds, MoveWaits, MoveApplied, VideoReturns, At, Reading
      <4> QED
        BY <4>1, <4>2, <4>3
    <3>3. /\ \A i \in 1..Len(bulk') : bulk'[i].type = "fence" => bulk'[i].baseline = bulk'[i].seq - 1
          /\ \A i \in 1..Len(sparse') : sparse'[i].type = "prelude" => sparse'[i].baseline = sparse'[i].seq - 1
      BY <1>0, <2>2, LegalVideoLeaves DEF Baselines
    <3> QED
      BY <3>1, <3>2, <3>3 DEF Baselines
  <2> QED
    BY <2>1, <2>2
<1> QED
  BY <1>1, <1>2, <1>3, <1>4

\* The two remainders exclude each other: no reader ends the move the other one ends.
LEMMA OneEnder ==
  ASSUME Legal
  PROVE  /\ VideoPixels /\ video.ends # {} /\ Owns(raw.msg.seq) /\ RawPixels => raw.ends = {}
         /\ VideoPixels /\ video.ends # {} => move.remainder = "Video" /\ Owns(video.msg.seq)
         /\ RawPixels /\ raw.ends # {} => move.remainder = "Raw" /\ Owns(raw.msg.seq)
<1>1. ASSUME VideoPixels, video.ends # {} PROVE move.remainder = "Video" /\ Owns(video.msg.seq)
  <2>1. Owns(video.msg.seq)
    BY <1>1 DEF Legal, LegalInv, Meeting
  <2>2. MoveLeg(move) /\ move.seq = video.msg.seq
    BY <2>1, InHandIsOld DEF Owns, Legal
  <2>3. VideoLeg(video.msg)
    BY <1>1, InHandIsOld DEF Legal
  <2> QED
    BY <2>1, <2>2, <2>3 DEF MoveLeg, VideoLeg, RemOf
<1>2. ASSUME RawPixels, raw.ends # {} PROVE move.remainder = "Raw" /\ Owns(raw.msg.seq)
  <2>1. Owns(raw.msg.seq)
    BY <1>2 DEF Legal, LegalInv, Meeting
  <2>2. MoveLeg(move) /\ move.seq = raw.msg.seq
    BY <2>1, InHandIsOld DEF Owns, Legal
  <2>3. RawLeg(raw.msg) /\ raw.ends = updates[raw.msg.seq].copy
    BY <1>2, InHandIsOld DEF Legal, IInv, RawTyped
  <2>4. RemOf(raw.msg.seq) = "Raw"
    BY <1>2, <2>3, OneRemainder DEF RawLeg, Legal
  <2> QED
    BY <2>1, <2>2, <2>4 DEF MoveLeg
<1>3. "Raw" # "Video"
  OBVIOUS
<1> QED
  BY <1>1, <1>2, <1>3

\* After a step of the sparse reader, whoever waits still waits for what is on its way.
LEMMA MeetingRaw == ASSUME Legal, LegalRaw PROVE Meeting'
<1>m. Meeting
  BY DEF Legal, LegalInv
<1>u. /\ UNCHANGED <<bulk, video>>
      /\ \A i \in 1..Len(sparse') : \E k \in 1..Len(sparse) : sparse'[i] = sparse[k]
  BY LegalRawLeaves
<1>c. \A s : CopyDue(s)' = CopyDue(s)
  BY <1>u DEF CopyDue, VideoCopies
<1>1. \A i \in 1..Len(sparse') : sparse'[i].type = "prelude" => CopyDue(sparse'[i].seq)
  BY <1>m, <1>u DEF Meeting
<1>2. CASE PreludeRegister /\ video.at # "waitRaw"
  <2>0. NoMove /\ sparse # <<>> /\ sparse[1].type = "prelude" /\ 1 \in 1..Len(sparse)
    BY <1>2, FirstOf DEF PreludeRegister, Legal, IInv, LanesTyped
  <2>1. CopyDue(sparse[1].seq)
    BY <1>m, <2>0 DEF Meeting
  <2>2. ~Pending
    BY <2>0 DEF NoMove, Pending, Idle
  <2>3. move'.seq = sparse[1].seq /\ ~move'.applied /\ raw'.at = "waitMove" /\ raw'.msg.seq = move'.seq
    BY <1>2 DEF PreludeRegister, At
  <2>4. ~(VideoPixels /\ video.ends # {})
    BY <1>m, <2>2 DEF Meeting, Owns
  <2>5. CopyDue(move.seq)'
    <3>1. PICK q : q = sparse[1].seq
      OBVIOUS
    <3>2. CopyDue(q)'
      BY <1>c, <2>1, <3>1
    <3> QED
      BY <2>3, <3>1, <3>2
  <2>6. video'.at # "waitRaw" /\ ~(VideoPixels' /\ video'.ends # {}) /\ ~RawPixels'
    BY <1>u, <1>2, <2>3, <2>4 DEF VideoPixels, RawPixels
  <2>7. Pending' => ~move'.applied /\ raw'.at = "waitMove" /\ raw'.msg.seq = move'.seq
    BY <2>3
  <2> QED
    BY <1>u, <1>c, <1>1, <2>5, <2>6, <2>7 DEF Meeting
<1>3. CASE RectsEndMove
  <2>1. move' = Idle /\ raw'.at = "read" /\ RawPixels /\ raw.ends # {}
    BY <1>3 DEF RectsEndMove, Reading, At, RawPixels
  <2>2. ~(VideoPixels /\ video.ends # {})
    BY <2>1, OneEnder
  <2> QED
    BY <1>u, <1>c, <1>1, <2>1, <2>2 DEF Meeting, Pending, Owns, NoMove, Idle, VideoPixels, RawPixels
<1>4. CASE RawReturns
  <2>1. move' = move /\ raw'.at = "read" /\ raw.at = "waitMove" /\ (NoMove \/ raw.msg.remainder = "Raw")
    BY <1>4 DEF RawReturns, Reading, At, syncVars, LegalRaw, PreludeRegister, RectsRegister, RectsEnd,
                RectsHeld, RectsDraw, RectsEndMove, RectsComplete, RectsFirst
  <2>2. Pending => move.remainder = "Raw"
    <3>1. ASSUME Pending, move.remainder # "Raw" PROVE FALSE
      <4>1. raw.msg.seq = move.seq /\ raw.msg.remainder = "Raw"
        BY <1>m, <2>1, <3>1 DEF Meeting, Pending, NoMove, Idle
      <4>2. MoveLeg(move) /\ MoveLeg(raw.msg)
        BY <2>1, <3>1, InHandIsOld DEF Legal
      <4> QED
        BY <3>1, <4>1, <4>2 DEF MoveLeg
    <3> QED
      BY <3>1
  <2> QED
    BY <1>m, <1>u, <1>c, <1>1, <2>1, <2>2 DEF Meeting, Pending, Owns, NoMove, VideoPixels, RawPixels
<1>5. CASE RectsRegister \/ RectsEnd \/ RectsHeld \/ RectsDraw \/ RectsComplete
  <2>1. move' = move /\ raw.at # "waitMove"
    BY <1>5 DEF RectsRegister, RectsEnd, RectsHeld, RectsDraw, RectsComplete, RectsFirst, syncVars
  <2>2. ASSUME RawPixels', raw'.ends # {} PROVE Owns(raw'.msg.seq)
    <3>1. CASE RectsRegister \/ RectsComplete
      BY <2>2, <3>1 DEF RectsRegister, RectsComplete, Reading, At, RawPixels
    <3>2. CASE RectsEnd
      BY <3>2 DEF RectsEnd, At
    <3>3. CASE RectsHeld \/ RectsDraw
      <4>1. RawPixels /\ raw'.ends = raw.ends /\ raw'.msg = raw.msg
        BY <3>3 DEF RectsHeld, RectsDraw, RawPixels, At
      <4> QED
        BY <1>m, <2>2, <4>1 DEF Meeting
    <3> QED
      BY <1>5, <3>1, <3>2, <3>3
  <2> QED
    BY <1>m, <1>u, <1>c, <1>1, <2>1, <2>2 DEF Meeting, Pending, Owns, NoMove, VideoPixels
<1> QED
  BY <1>2, <1>3, <1>4, <1>5 DEF LegalRaw

\* Likewise after a step of the bulk reader.
LEMMA MeetingVideo == ASSUME Legal, LegalVideo PROVE Meeting'
<1>m. Meeting
  BY DEF Legal, LegalInv
<1>u. UNCHANGED <<sparse, raw>>
  BY LegalVideoLeaves
<1>c. \A s : CopyDue(s) => CopyDue(s)' \/ (Owns(s) /\ (MoveEnds \/ MoveWaits))
  BY LegalDues
<1>1. ASSUME NEW i \in 1..Len(sparse), sparse[i].type = "prelude" PROVE CopyDue(sparse[i].seq)'
  <2>1. CopyDue(sparse[i].seq)
    BY <1>m, <1>1 DEF Meeting
  <2>2. ASSUME Owns(sparse[i].seq) PROVE FALSE
    <3>1. move.seq < sparse[i].seq /\ move.seq \in Nat
      BY <1>1, <2>2, InHandIsOld, BeforeTyped DEF Owns, Legal, IInv, RawOrder
    <3> QED
      BY <2>2, <3>1 DEF Owns
  <2>3. PICK s : s = sparse[i].seq
    OBVIOUS
  <2>4. CopyDue(s)'
    BY <1>c, <2>1, <2>2, <2>3
  <2> QED
    BY <1>u, <2>3, <2>4
<1>2. CASE VideoEndMove \/ MoveEnds
  <2>1. move' = Idle /\ video'.at = "read"
    BY <1>2 DEF VideoEndMove, MoveEnds, Reading, At
  <2>2. ~(RawPixels /\ raw.ends # {})
    <3>1. CASE VideoEndMove
      BY <3>1, OneEnder DEF VideoEndMove, VideoPixels
    <3>2. CASE MoveEnds
      BY <3>2, OneEnder DEF MoveEnds
    <3> QED
      BY <1>2, <3>1, <3>2
  <2> QED
    BY <1>u, <1>1, <2>1, <2>2 DEF Meeting, Pending, Owns, NoMove, Idle, VideoPixels, RawPixels
<1>3. CASE MoveWaits
  <2>1. /\ move' = [move EXCEPT !.applied = TRUE] /\ Owns(video.msg.seq) /\ move.remainder # "None"
        /\ video' = IF move.remainder = "Raw" THEN At("waitRaw", video.msg, video.ends) ELSE Reading
    BY <1>3 DEF MoveWaits, MoveApplied
  <2>2. move \in MoveRecord
    BY <2>1 DEF Owns, Pending, Legal, IInv, MoveTyped, Idle, FailedMove
  <2>3. /\ Pending /\ move'.state = move.state /\ move'.seq = move.seq /\ move'.remainder = move.remainder
        /\ move'.applied = TRUE /\ move.seq = video.msg.seq
    BY <2>1, <2>2 DEF MoveRecord, Owns
  <2>4. /\ video'.at \in {"waitRaw", "read"}
        /\ move.remainder = "Raw" => video'.at = "waitRaw"
        /\ video'.at = "waitRaw" => video'.msg.seq = video.msg.seq
    BY <2>1 DEF At, Reading
  <2> QED
    BY <1>m, <1>u, <1>1, <2>1, <2>3, <2>4 DEF Meeting, Pending, Owns, NoMove, VideoPixels, RawPixels
<1>4. CASE VideoReturns
  <2>1. move' = move /\ video'.at = "read" /\ NoMove
    BY <1>4 DEF VideoReturns, Reading, At, syncVars, LegalVideo, VideoRegister, VideoEnd, VideoDraw,
                VideoEndMove, VideoComplete, FenceTaken, FenceMeets, FenceCommits, FenceCopies, MoveEnds,
                MoveWaits, MoveApplied, VideoFirst
  <2>2. ~Pending
    BY <2>1 DEF NoMove, Pending, Idle
  <2> QED
    BY <1>m, <1>u, <1>1, <2>1, <2>2 DEF Meeting, Pending, Owns, NoMove, VideoPixels, RawPixels
<1>5. CASE VideoRegister \/ VideoEnd \/ VideoDraw \/ VideoComplete \/ FenceTaken \/ FenceMeets \/ FenceCommits
  <2>1. move' = move /\ video.at # "waitRaw" /\ video'.at # "waitRaw" /\ ~MoveEnds /\ ~MoveWaits
    BY <1>5 DEF VideoRegister, VideoEnd, VideoDraw, VideoComplete, FenceTaken, FenceMeets, FenceCommits,
                FenceCopies, VideoFirst, syncVars, MoveEnds, MoveWaits, MoveApplied, At, Reading
  <2>2. ASSUME VideoPixels', video'.ends # {} PROVE Owns(video'.msg.seq)
    <3>1. CASE VideoRegister \/ VideoComplete \/ FenceTaken \/ FenceMeets \/ FenceCommits
      BY <2>2, <3>1 DEF VideoRegister, VideoComplete, FenceTaken, FenceMeets, FenceCommits, FenceCopies,
                        Reading, At, VideoPixels
    <3>2. CASE VideoEnd
      BY <3>2 DEF VideoEnd, At
    <3>3. CASE VideoDraw
      <4>1. VideoPixels /\ video'.ends = video.ends /\ video'.msg = video.msg
        BY <3>3 DEF VideoDraw, VideoPixels, At
      <4> QED
        BY <1>m, <2>2, <4>1 DEF Meeting
    <3> QED
      BY <1>5, <3>1, <3>2, <3>3
  <2>3. Pending /\ ~move.applied => CopyDue(move.seq)'
    <3>1. PICK s : s = move.seq
      OBVIOUS
    <3>2. Pending /\ ~move.applied => CopyDue(s)'
      BY <1>m, <1>c, <2>1, <3>1 DEF Meeting
    <3> QED
      BY <2>1, <3>1, <3>2
  <2> QED
    BY <1>m, <1>u, <1>1, <2>1, <2>2, <2>3 DEF Meeting, Pending, Owns, NoMove, RawPixels
<1> QED
  BY <1>2, <1>3, <1>4, <1>5 DEF LegalVideo

\* Drawing takes no fence back, and covers what it draws.
LEMMA PaintFences ==
  ASSUME PixelsTyped, NEW s \in Nat, NEW cover, cover \subseteq Blocks, NEW ends, Paint(s, cover, ends)
  PROVE  /\ \A b \in Blocks : fences'[b] >= fences[b]
         /\ \A b \in cover : fences'[b] >= s
<1>0. \A b \in Blocks : fences[b] \in Nat
  BY VisualAssumption DEF PixelsTyped
<1>1. CASE Visible(s, cover) = {}
  BY <1>0, <1>1 DEF Paint, Visible
<1>2. CASE Visible(s, cover) # {}
  BY <1>0, <1>2 DEF Paint, Commit
<1> QED
  BY <1>1, <1>2

\* Updates draw on blocks, and only scheduled updates are acknowledged.
LEMMA CoversTyped ==
  ASSUME IInv
  PROVE  /\ \A s \in 1..Last : s \in Nat /\ updates[s].video \subseteq Blocks /\ updates[s].raw \subseteq Blocks
         /\ sent \subseteq 1..Last
<1>1. /\ updates \in Seq(Drawing) /\ Len(updates) = Last /\ sent \subseteq 1..Last
  BY DEF IInv, HostTyped, AckInv
<1>2. \A s \in 1..Last : s \in Nat /\ updates[s] \in Drawing
  BY <1>1
<1> QED
  BY <1>1, <1>2 DEF Drawing

\* A step of the sparse reader leaves a fence for everything acknowledged.
LEMMA FencedRaw == ASSUME Legal, LegalRaw PROVE Fenced'
<1>f. Fenced
  BY DEF Legal, LegalInv
<1>p. PixelsTyped
  BY DEF Legal, IInv
<1>0. UNCHANGED video /\ PixelsTyped /\ \A b \in Blocks : fences[b] \in Nat
  <2>1. \A b \in Blocks : fences[b] \in Nat
    BY <1>p, VisualAssumption DEF PixelsTyped
  <2> QED
    BY <1>p, <2>1, LegalRawLeaves
<1>v. /\ VideoPixels => video.msg.seq \in Nat /\ video.msg.cover \subseteq Blocks
      /\ video.at = "mark" => video.msg.seq \in Nat /\ video.msg.dst \in Blocks
      /\ RawPixels => raw.msg.seq \in Nat /\ raw.msg.cover \subseteq Blocks /\ raw.msg.cover # {}
      /\ \A s \in sent : s \in Nat
  <2>1. /\ \A s \in 1..Last : s \in Nat /\ updates[s].video \subseteq Blocks /\ updates[s].raw \subseteq Blocks
        /\ sent \subseteq 1..Last
    BY CoversTyped DEF Legal
  <2> QED
    BY <2>1, InHandIsOld DEF Legal, VideoLeg, RawLeg, MoveLeg
<1>1. CASE RectsDraw
  <2>1. RawPixels /\ Paint(raw.msg.seq, raw.msg.cover, raw.ends) /\ sent' = sent
    BY <1>1 DEF RectsDraw, RawPixels, ackVars
  <2>2. /\ \A b \in Blocks : fences'[b] >= fences[b] /\ fences'[b] \in Nat
        /\ \A b \in raw.msg.cover : fences'[b] >= raw.msg.seq
    <3>1. /\ \A b \in Blocks : fences'[b] >= fences[b]
          /\ \A b \in raw.msg.cover : fences'[b] >= raw.msg.seq
      BY <1>0, <1>v, <2>1, PaintFences
    <3>2. PixelsTyped'
      BY <1>1, RectsDrawKeeps DEF Legal, IInv
    <3> QED
      BY <3>1, <3>2, VisualAssumption DEF PixelsTyped
  <2>3. raw'.msg = raw.msg
    BY <1>1 DEF RectsDraw, At
  <2>4. \A b \in Blocks : \A s \in Nat : fences[b] >= s => fences'[b] >= s
    BY <1>0, <2>2
  <2> QED
    BY <1>0, <1>f, <1>v, <2>1, <2>2, <2>3, <2>4 DEF Fenced, VideoPixels
<1>2. CASE RectsEndMove \/ RectsComplete
  <2>1. /\ RawPixels /\ raw.at = "finish" /\ fences' = fences /\ raw'.at = "read"
        /\ \A s \in sent' : s \in sent \/ s = raw.msg.seq
    BY <1>2 DEF RectsEndMove, RectsComplete, Complete, EnqueueAck, pixelVars, ackVars, RawPixels, Reading, At
  <2>2. PICK b \in Blocks : fences[b] >= raw.msg.seq
    BY <1>f, <1>v, <2>1 DEF Fenced
  <2> QED
    BY <1>0, <1>f, <2>1, <2>2 DEF Fenced
<1>3. CASE RectsRegister \/ RectsEnd \/ RectsHeld \/ PreludeRegister \/ RawReturns
  <2>1. fences' = fences /\ sent' = sent /\ raw'.at # "finish"
    BY <1>3 DEF RectsRegister, RectsEnd, RectsHeld, PreludeRegister, RawReturns, pixelVars, ackVars, Reading, At
  <2> QED
    BY <1>0, <1>f, <2>1 DEF Fenced
<1> QED
  BY <1>1, <1>2, <1>3 DEF LegalRaw

\* So does a step of the bulk reader.
LEMMA FencedVideo == ASSUME Legal, LegalVideo PROVE Fenced'
<1>f. Fenced
  BY DEF Legal, LegalInv
<1>p. PixelsTyped
  BY DEF Legal, IInv
<1>0. UNCHANGED raw /\ PixelsTyped /\ \A b \in Blocks : fences[b] \in Nat
  <2>1. \A b \in Blocks : fences[b] \in Nat
    BY <1>p, VisualAssumption DEF PixelsTyped
  <2> QED
    BY <1>p, <2>1, LegalVideoLeaves
<1>v. /\ VideoPixels => video.msg.seq \in Nat /\ video.msg.cover \subseteq Blocks /\ video.msg.cover # {}
      /\ video.at \in {"apply", "mark"} => video.msg.seq \in Nat /\ video.msg.dst \in Blocks
                                          /\ video.msg.remainder = RemOf(video.msg.seq)
      /\ RawPixels => raw.msg.seq \in Nat /\ raw.msg.cover \subseteq Blocks
      /\ \A s \in sent : s \in Nat
  <2>1. /\ \A s \in 1..Last : s \in Nat /\ updates[s].video \subseteq Blocks /\ updates[s].raw \subseteq Blocks
        /\ sent \subseteq 1..Last
    BY CoversTyped DEF Legal
  <2> QED
    BY <2>1, InHandIsOld DEF Legal, VideoLeg, RawLeg, MoveLeg
<1>1. CASE VideoDraw
  <2>1. VideoPixels /\ Paint(video.msg.seq, video.msg.cover, video.ends) /\ sent' = sent
    BY <1>1 DEF VideoDraw, VideoPixels, ackVars
  <2>2. /\ \A b \in Blocks : fences'[b] >= fences[b] /\ fences'[b] \in Nat
        /\ \A b \in video.msg.cover : fences'[b] >= video.msg.seq
    <3>1. /\ \A b \in Blocks : fences'[b] >= fences[b]
          /\ \A b \in video.msg.cover : fences'[b] >= video.msg.seq
      BY <1>0, <1>v, <2>1, PaintFences
    <3>2. PixelsTyped'
      BY <1>1, VideoDrawKeeps DEF Legal, IInv
    <3> QED
      BY <3>1, <3>2, VisualAssumption DEF PixelsTyped
  <2>3. video'.msg = video.msg /\ video'.at = "finish"
    BY <1>1 DEF VideoDraw, At
  <2>4. \A b \in Blocks : \A s \in Nat : fences[b] >= s => fences'[b] >= s
    BY <1>0, <2>2
  <2> QED
    BY <1>0, <1>f, <1>v, <2>1, <2>2, <2>3, <2>4 DEF Fenced, RawPixels
<1>2. CASE VideoEndMove \/ VideoComplete
  <2>1. /\ VideoPixels /\ video.at = "finish" /\ fences' = fences /\ video'.at = "read"
        /\ \A s \in sent' : s \in sent \/ s = video.msg.seq
    BY <1>2 DEF VideoEndMove, VideoComplete, Complete, EnqueueAck, pixelVars, ackVars, VideoPixels, Reading, At
  <2>2. PICK b \in Blocks : fences[b] >= video.msg.seq
    BY <1>f, <1>v, <2>1 DEF Fenced
  <2> QED
    BY <1>0, <1>f, <2>1, <2>2 DEF Fenced
<1>3. CASE FenceCommits
  <2>1. /\ video.at = "apply" /\ video'.at = "mark" /\ video'.msg = video.msg /\ sent' = sent
        /\ fences' = fences \/ fences' = Commit(video.msg.seq, {video.msg.dst})
        /\ video.msg.remainder = "None" => fences' = Commit(video.msg.seq, {video.msg.dst})
    BY <1>3 DEF FenceCommits, FenceCopies, At, ackVars
  <2>2. /\ \A b \in Blocks : fences'[b] >= fences[b] /\ fences'[b] \in Nat
        /\ video.msg.remainder = "None" => fences'[video.msg.dst] >= video.msg.seq
    BY <1>0, <1>v, <2>1 DEF Commit
  <2>3. \A b \in Blocks : \A s \in Nat : fences[b] >= s => fences'[b] >= s
    BY <1>0, <2>2
  <2> QED
    BY <1>0, <1>f, <1>v, <2>1, <2>2, <2>3 DEF Fenced, RawPixels
<1>4. CASE MoveEnds
  <2>1. /\ video.at = "mark" /\ fences' = fences /\ video'.at = "read" /\ sent' = sent \cup {video.msg.seq}
        /\ Owns(video.msg.seq) /\ move.remainder = "None"
    BY <1>4 DEF MoveEnds, pixelVars, Reading, At
  <2>2. video.msg.remainder = "None"
    BY <1>v, <2>1, InHandIsOld DEF Owns, Legal, MoveLeg
  <2>3. video.msg.dst \in Blocks /\ fences[video.msg.dst] >= video.msg.seq
    BY <1>f, <1>v, <2>1, <2>2 DEF Fenced
  <2> QED
    BY <1>0, <1>f, <2>1, <2>3 DEF Fenced
<1>5. CASE VideoRegister \/ VideoEnd \/ FenceTaken \/ FenceMeets \/ MoveWaits \/ VideoReturns
  <2>1. fences' = fences /\ sent' = sent /\ video'.at \notin {"finish", "mark"}
    BY <1>5 DEF VideoRegister, VideoEnd, FenceTaken, FenceMeets, MoveWaits, MoveApplied, VideoReturns,
                pixelVars, ackVars, Reading, At
  <2> QED
    BY <1>0, <1>f, <2>1 DEF Fenced
<1> QED
  BY <1>1, <1>2, <1>3, <1>4, <1>5 DEF LegalVideo

\* What the host of a legal stream schedules: first a recovery frame, and a move only when nothing
\* is unacknowledged, on the preceding sequence.
NewLegal(u) ==
  /\ updates'[u].copy # {} => unacked = {} /\ Last > 0
  /\ Last = 0 => updates'[u].video # {}
  /\ \A i \in 1..Len(bulk') : i \in 1..Len(bulk) \/
       /\ bulk'[i].type = "fence" => bulk'[i].baseline = bulk'[i].seq - 1
       /\ bulk'[i].type = "video" /\ bulk'[i].seq = 1 => bulk'[i].kind = "Recovery"
  /\ \A i \in 1..Len(sparse') : i \in 1..Len(sparse) \/
       (sparse'[i].type = "prelude" => sparse'[i].baseline = sparse'[i].seq - 1)

\* The lanes gain the messages of the update, and the history what it draws.
LEMMA Gains ==
  ASSUME IInv, NEW frame, NEW d \in Drawing, Schedule(frame, d), NEW u, u = Last + 1
  PROVE  /\ updates'[u] = d /\ Last \in Nat /\ u \in Nat
         /\ bulk \in Seq(VideoMessage \cup FenceMessage) /\ sparse \in Seq(RectsMessage \cup PreludeMessage)
<1>1. updates \in Seq(Drawing) /\ Len(updates) = Last /\ updates' = Append(updates, d)
  BY DEF IInv, HostTyped, Schedule
<1>2. updates'[Len(updates) + 1] = d
  BY <1>1
<1> QED
  BY <1>1, <1>2, BeforeTyped DEF IInv, LanesTyped

\* The first message of a legal stream is a recovery frame.
LEMMA RecoveryLegal ==
  ASSUME IInv, SendRecovery, NEW u, u = Last + 1 PROVE NewLegal(u)
<1>b. PICK b \in Blocks : TRUE
  BY VisualAssumption
<1> DEFINE d == Drawn(Blocks, {}, {})
<1>1. d \in Drawing /\ d.video # {} /\ d.copy = {} /\ \E frame : Schedule(frame, d)
  BY <1>b DEF Drawn, Drawing, SendRecovery
<1> HIDE DEF d
<1>2. /\ updates'[u] = d /\ Last \in Nat /\ u \in Nat
      /\ bulk \in Seq(VideoMessage \cup FenceMessage)
  BY <1>1, Gains
<1> DEFINE v == Video(Last + 1, "Recovery", {"VIDEO"}, Blocks)
<1>3. v \in VideoMessage /\ v.type = "video" /\ v.kind = "Recovery"
  BY <1>2 DEF Video, VideoMessage, Parts
<1>4. bulk' = Append(bulk, v) /\ sparse' = sparse
  BY DEF SendRecovery
<1> HIDE DEF v
<1>5. \A i \in 1..Len(bulk') : i \in 1..Len(bulk) \/ bulk'[i] = v
  BY <1>2, <1>3, <1>4, AddOne
<1> QED
  BY <1>1, <1>2, <1>3, <1>4, <1>5 DEF NewLegal

\* A regional update comes after it.
LEMMA UpdateLegal ==
  ASSUME IInv, orderly, NEW videoCover \in SUBSET Blocks, NEW rawCover \in SUBSET Blocks,
         SendUpdate(videoCover, rawCover), NEW u, u = Last + 1
  PROVE  NewLegal(u)
<1> DEFINE d == Drawn(videoCover, rawCover, {})
<1>1. d \in Drawing /\ d.copy = {} /\ \E frame : Schedule(frame, d)
  BY DEF Drawn, Drawing, SendUpdate
<1> HIDE DEF d
<1>2. /\ updates'[u] = d /\ Last \in Nat /\ u \in Nat /\ Last > 0
      /\ bulk \in Seq(VideoMessage \cup FenceMessage) /\ sparse \in Seq(RectsMessage \cup PreludeMessage)
  BY <1>1, Gains DEF SendUpdate
<1> DEFINE parts == (IF videoCover = {} THEN {} ELSE {"VIDEO"}) \cup (IF rawCover = {} THEN {} ELSE {"RAW"})
<1> DEFINE v == Video(Last + 1, "Regional", parts, videoCover)
<1> DEFINE r == Rects(Last + 1, parts, rawCover)
<1>3. v \in VideoMessage /\ v.type = "video" /\ v.seq = u /\ r \in RectsMessage /\ r.type = "rects"
  <2>1. parts \in SUBSET Parts
    BY DEF Parts
  <2> HIDE DEF parts
  <2> QED
    BY <1>2, <2>1 DEF Video, VideoMessage, Rects, RectsMessage
<1>4. bulk' = bulk \/ bulk' = Append(bulk, v)
  BY DEF SendUpdate
<1>5. sparse' = sparse \/ sparse' = Append(sparse, r)
  BY DEF SendUpdate
<1> HIDE DEF v, r
<1>6. \A i \in 1..Len(bulk') : i \in 1..Len(bulk) \/ bulk'[i] = v
  BY <1>2, <1>3, <1>4, AddOne
<1>7. \A i \in 1..Len(sparse') : i \in 1..Len(sparse) \/ sparse'[i] = r
  BY <1>2, <1>3, <1>5, AddOne
<1> QED
  BY <1>1, <1>2, <1>3, <1>6, <1>7 DEF NewLegal

\* A move waits for everything to be acknowledged.
LEMMA MoveLegal ==
  ASSUME IInv, orderly, NEW src \in Blocks, NEW dst \in Blocks, NEW remainder \in Remainder, NEW cover \in SUBSET Blocks,
         SendMove(src, dst, remainder, cover), NEW u, u = Last + 1
  PROVE  NewLegal(u)
<1> DEFINE d == Drawn(IF remainder = "Video" THEN cover ELSE {}, IF remainder = "Raw" THEN cover ELSE {}, {dst})
<1>1. d \in Drawing /\ (\E frame : Schedule(frame, d)) /\ unacked = {} /\ Last > 0
  BY DEF Drawn, Drawing, SendMove
<1> HIDE DEF d
<1>2. /\ updates'[u] = d /\ Last \in Nat /\ u \in Nat /\ u # 1 /\ u - 1 = Last
      /\ bulk \in Seq(VideoMessage \cup FenceMessage) /\ sparse \in Seq(RectsMessage \cup PreludeMessage)
  BY <1>1, Gains
<1> DEFINE v == Video(Last + 1, "Regional", {"VIDEO"}, cover)
<1> DEFINE f == [type |-> "fence", baseline |-> Last, seq |-> Last + 1]
<1> DEFINE p == [type |-> "prelude", baseline |-> Last, seq |-> Last + 1, src |-> src, dst |-> dst,
                 remainder |-> remainder]
<1> DEFINE r == Rects(Last + 1, {"RAW"}, cover)
<1>3. /\ v \in VideoMessage /\ v.type = "video" /\ v.seq = u /\ f \in FenceMessage /\ f.type = "fence"
      /\ f.baseline = f.seq - 1
      /\ r \in RectsMessage /\ r.type = "rects" /\ p \in PreludeMessage /\ p.baseline = p.seq - 1
  BY <1>2 DEF Video, VideoMessage, FenceMessage, Rects, RectsMessage, PreludeMessage, Parts
<1>4. bulk' = Append(bulk, f) \/ bulk' = Append(Append(bulk, f), v)
  BY DEF SendMove
<1>5. sparse' = Append(sparse, p) \/ sparse' = Append(Append(sparse, p), r)
  BY DEF SendMove
<1> HIDE DEF v, f, p, r
<1>6. \A i \in 1..Len(bulk') : i \in 1..Len(bulk) \/ bulk'[i] = f \/ bulk'[i] = v
  <2>1. CASE bulk' = Append(bulk, f)
    BY <1>2, <1>3, <2>1, AddOne
  <2>2. CASE bulk' = Append(Append(bulk, f), v)
    BY <1>2, <1>3, <2>2, AddTwo
  <2> QED
    BY <1>4, <2>1, <2>2
<1>7. \A i \in 1..Len(sparse') : i \in 1..Len(sparse) \/ sparse'[i] = p \/ sparse'[i] = r
  <2>1. CASE sparse' = Append(sparse, p)
    BY <1>2, <1>3, <2>1, AddOne
  <2>2. CASE sparse' = Append(Append(sparse, p), r)
    BY <1>2, <1>3, <2>2, AddTwo
  <2> QED
    BY <1>5, <2>1, <2>2
<1>8. \A i \in 1..Len(bulk') : i \in 1..Len(bulk) \/
        /\ bulk'[i].type = "fence" => bulk'[i].baseline = bulk'[i].seq - 1
        /\ bulk'[i].type = "video" /\ bulk'[i].seq = 1 => bulk'[i].kind = "Recovery"
  BY <1>2, <1>3, <1>6
<1>9. \A i \in 1..Len(sparse') : i \in 1..Len(sparse) \/
        (sparse'[i].type = "prelude" => sparse'[i].baseline = sparse'[i].seq - 1)
  BY <1>3, <1>7
<1>10. Last # 0
  BY <1>1, <1>2
<1> QED
  BY <1>1, <1>8, <1>9, <1>10 DEF NewLegal

\* The host keeps the stream legal.
LEMMA LegalHost == ASSUME Legal, Host PROVE LegalInv'
<1>f. PICK frame, d : Update(frame, d)
  BY HostUpdates DEF Legal
<1>u. PICK u : u = Last + 1
  OBVIOUS
<1>n. NewLegal(u)
  <2>1. CASE SendRecovery
    BY <1>u, <2>1, RecoveryLegal DEF Legal
  <2>2. CASE \E v, r \in SUBSET Blocks : SendUpdate(v, r)
    BY <1>u, <2>2, UpdateLegal DEF Legal
  <2>3. CASE \E src, dst \in Blocks, rem \in Remainder, c \in SUBSET Blocks : SendMove(src, dst, rem, c)
    BY <1>u, <2>3, MoveLegal DEF Legal
  <2> QED
    BY <2>1, <2>2, <2>3 DEF Host
<1>h. /\ Last \in Nat /\ u \in Nat /\ Last' = u /\ u \in 1..Last' /\ u \notin 1..Last
      /\ \A t \in 1..Last' : t \in 1..Last \/ t = u
      /\ \A t \in 1..Last : t \in 1..Last' /\ t < u /\ updates'[t] = updates[t]
      /\ updates'[u] = d
  BY <1>f, <1>u, HistoryGrows DEF Legal
<1>s. /\ UNCHANGED <<orderly, video, raw, move, hasBase, baseReady, failed, fences, sent, stop, failure>>
      /\ BulkGrown(d) /\ SparseGrown(frame, d)
  BY <1>f DEF Update, Schedule, syncVars, doneVars, pixelVars, ackVars, endVars
<1>d. /\ \A t \in 1..Last : VideoDue(t)' = VideoDue(t) /\ CopyDue(t)' = CopyDue(t)
      /\ d.video # {} => VideoDue(u)'
      /\ d.copy # {} => CopyDue(u)'
  BY <1>f, <1>u, DuesGrow DEF Legal
<1>g. /\ \A i \in 1..Len(bulk') : (i \in 1..Len(bulk) /\ bulk'[i] = bulk[i]) \/ i \notin 1..Len(bulk)
      /\ \A i \in 1..Len(sparse') : (i \in 1..Len(sparse) /\ sparse'[i] = sparse[i])
           \/ (i \notin 1..Len(sparse) /\ NewSparse(sparse'[i], frame, d))
  BY <1>s DEF BulkGrown, SparseGrown
<1>l. Healthy /\ BaseInv /\ MovesAlone /\ Baselines /\ Meeting /\ Fenced
  BY DEF Legal, LegalInv
<1>1. Healthy'
  BY <1>l, <1>s DEF Healthy, Alive, VideoDead, RawDead
<1>2. BaseInv'
  <2>1. hasBase' = baseReady'
    BY <1>l, <1>s DEF BaseInv
  <2>2. ~hasBase' => VideoDue(1)'
    <3>1. CASE Last > 0
      <4>1. 1 \in 1..Last
        BY <1>h, <3>1
      <4> QED
        BY <1>d, <1>l, <1>s, <3>1, <4>1 DEF BaseInv
    <3>2. CASE Last = 0
      <4>1. u = 1 /\ d.video # {}
        BY <1>u, <1>n, <1>h, <3>2 DEF NewLegal
      <4> QED
        BY <1>d, <4>1
    <3> QED
      BY <1>h, <3>1, <3>2
  <2>3. \A i \in 1..Len(bulk') : bulk'[i].type = "video" /\ bulk'[i].seq = 1 => bulk'[i].kind = "Recovery"
    BY <1>l, <1>g, <1>n DEF BaseInv, NewLegal
  <2> QED
    BY <2>1, <2>2, <2>3 DEF BaseInv
<1>3. MovesAlone'
  <2>1. ASSUME NEW s \in 1..Last', updates'[s].copy # {}
        PROVE  s > 1 /\ \A t \in 1..Last' : t < s => t \in sent
    <3>1. CASE s \in 1..Last
      <4>1. s > 1 /\ \A t \in 1..Last : t < s => t \in sent
        BY <1>l, <1>h, <2>1, <3>1 DEF MovesAlone
      <4>2. ~(u < s)
        BY <1>h, <3>1
      <4> QED
        BY <1>h, <4>1, <4>2
    <3>2. CASE s = u
      <4>1. unacked = {} /\ Last > 0
        BY <1>n, <2>1, <3>2 DEF NewLegal
      <4>2. \A t \in 1..Last : t \in sent
        BY <4>1 DEF Legal, IInv, AckInv
      <4>3. s > 1 /\ ~(u < u)
        BY <1>u, <1>h, <3>2, <4>1
      <4> QED
        BY <1>h, <3>2, <4>2, <4>3
    <3> QED
      BY <1>h, <3>1, <3>2
  <2> QED
    BY <1>s, <2>1 DEF MovesAlone
<1>4. Baselines'
  <2>1. /\ \A i \in 1..Len(bulk') : bulk'[i].type = "fence" => bulk'[i].baseline = bulk'[i].seq - 1
        /\ \A i \in 1..Len(sparse') : sparse'[i].type = "prelude" => sparse'[i].baseline = sparse'[i].seq - 1
    BY <1>l, <1>g, <1>n DEF Baselines, NewLegal
  <2> QED
    BY <1>l, <1>s, <2>1 DEF Baselines, Pending
<1>5. Meeting'
  <2>1. ASSUME NEW i \in 1..Len(sparse'), sparse'[i].type = "prelude" PROVE CopyDue(sparse[i].seq)'
    <3>q. PICK q : q = sparse'[i].seq
      OBVIOUS
    <3>1. CASE i \in 1..Len(sparse) /\ sparse'[i] = sparse[i]
      <4>1. CopyDue(q) /\ q \in 1..Last
        BY <1>l, <2>1, <3>q, <3>1, DueMeans DEF Meeting, Legal, IInv
      <4> QED
        BY <1>d, <3>q, <4>1
    <3>2. CASE NewSparse(sparse'[i], frame, d)
      <4>1. q = u /\ d.copy # {}
        BY <1>u, <2>1, <3>q, <3>2 DEF NewSparse
      <4>2. CopyDue(q)'
        BY <1>d, <4>1
      <4> QED
        BY <3>q, <4>2
    <3> QED
      BY <1>g, <2>1, <3>1, <3>2
  <2>2. Pending /\ ~move.applied => CopyDue(move.seq)'
    <3>q. PICK q : q = move.seq
      OBVIOUS
    <3>1. Pending /\ ~move.applied => CopyDue(q) /\ q \in 1..Last
      BY <1>l, <3>q, DueMeans DEF Meeting, Legal, IInv
    <3>2. Pending /\ ~move.applied => CopyDue(q)'
      BY <1>d, <3>1
    <3> QED
      BY <1>s, <3>q, <3>2
  <2> QED
    BY <1>l, <1>s, <2>1, <2>2 DEF Meeting, Pending, Owns, NoMove, VideoPixels, RawPixels
<1>6. Fenced'
  BY <1>l, <1>s DEF Fenced
<1> QED
  BY <1>1, <1>2, <1>3, <1>4, <1>5, <1>6 DEF LegalInv

\* What only moves permits leaves the stream as it is.
LEMMA LegalQuiet ==
  ASSUME Legal, AckWriter \/ UNCHANGED vars PROVE LegalInv'
<1>1. UNCHANGED <<orderly, desktop, updates, bulk, sparse, video, raw, hasBase, baseReady, move, failed,
                  fences, sent, stop, failure>>
  BY DEF AckWriter, vars, hostVars, laneVars, syncVars, doneVars, pixelVars, ackVars, endVars
<1>2. Healthy /\ BaseInv /\ MovesAlone /\ Baselines /\ Meeting /\ Fenced
  BY DEF Legal, LegalInv
<1>3. Healthy' /\ Baselines' /\ Fenced'
  BY <1>1, <1>2 DEF Healthy, Alive, VideoDead, RawDead, Baselines, Pending, Fenced
<1>4. BaseInv' /\ MovesAlone'
  BY <1>1, <1>2 DEF BaseInv, MovesAlone, Last, VideoDue, VideoPixels
<1>5. Meeting'
  BY <1>1, <1>2 DEF Meeting, Pending, Owns, NoMove, VideoPixels, RawPixels, CopyDue, VideoCopies
<1> QED
  BY <1>3, <1>4, <1>5 DEF LegalInv

\* An empty stream is legal.
LEMMA LegalHolds == ASSUME Init PROVE LegalInv
<1>1. /\ Last = 0 /\ video.at = "read" /\ raw.at = "read" /\ move = Idle /\ sent = {}
      /\ bulk = <<>> /\ sparse = <<>> /\ ~stop /\ failure = "none" /\ failed = {} /\ hasBase = baseReady
  BY DEF Init, Last, Reading, At
<1>2. ~Pending /\ move # FailedMove
  BY <1>1 DEF Pending, Idle, FailedMove
<1>3. Healthy
  BY <1>1, <1>2 DEF Healthy, Alive, VideoDead, RawDead
<1>4. BaseInv /\ MovesAlone /\ Baselines /\ Fenced
  BY <1>1, <1>2 DEF BaseInv, MovesAlone, Baselines, Fenced
<1>5. Meeting
  BY <1>1, <1>2 DEF Meeting, VideoPixels, RawPixels
<1> QED
  BY <1>3, <1>4, <1>5 DEF LegalInv

\* Whether the stream is legal is settled at the start.
LEMMA OrderlyConstant == ASSUME [Next]_vars PROVE orderly' = orderly
<1>0. \A frame, d : Schedule(frame, d) => orderly' = orderly
  BY DEF Schedule
<1>1. Host => orderly' = orderly
  <2>1. SendRecovery => orderly' = orderly
    BY <1>0 DEF SendRecovery
  <2>2. \A v, r : SendUpdate(v, r) => orderly' = orderly
    BY <1>0 DEF SendUpdate
  <2>3. \A src, dst, rem, c : SendMove(src, dst, rem, c) => orderly' = orderly
    BY <1>0 DEF SendMove
  <2> QED
    BY <2>1, <2>2, <2>3 DEF Host
<1>2. SparseReader => orderly' = orderly
  BY DEF SparseReader, RectsBegin, RectsBase, RectsPaint, RectsFinish, Prelude, PreludeReturns, RawStops, hostVars
<1>3. BulkReader => orderly' = orderly
  BY DEF BulkReader, VideoBegin, VideoPaint, VideoFinish, FenceBegin, FenceMeetsPrelude, FenceApply,
         FenceMark, FenceReturns, VideoStops, hostVars
<1>4. VideoDecodeFails \/ WorkerClaims \/ WaitTimesOut \/ AckWriter \/ UNCHANGED vars => orderly' = orderly
  BY DEF VideoDecodeFails, WorkerClaims, WaitTimesOut, AckWriter, vars, hostVars
<1> QED
  BY <1>1, <1>2, <1>3, <1>4 DEF Next

\* Every step of a legal stream keeps it legal, and alive.
LEMMA LegalKeeps == ASSUME IInv, LegalInv, [Next]_vars PROVE LegalInv'
<1>1. CASE orderly
  <2>0. Legal
    BY <1>1 DEF Legal
  <2>1. ASSUME LegalRaw \/ LegalVideo PROVE LegalInv'
    BY <2>0, <2>1, LegalPlain, MeetingRaw, MeetingVideo, FencedRaw, FencedVideo DEF LegalInv
  <2> QED
    BY <2>0, <2>1, LegalSteps, LegalHost, LegalQuiet
<1>2. CASE ~orderly
  <2>1. orderly' = orderly
    BY OrderlyConstant
  <2> QED
    BY <1>2, <2>1 DEF LegalInv
<1> QED
  BY <1>1, <1>2

\* A legal stream never ends the session, provided the host holds its moves back until
\* everything before them is acknowledged.
THEOREM LegalStream == Spec => []LegalStreamSurvives
<1>1. LegalInv => LegalStreamSurvives
  BY DEF LegalInv, Healthy, LegalStreamSurvives
<1> QED
  BY <1>1, Invariance, LegalHolds, LegalKeeps, PTL DEF Spec
=============================================================================

----------------------------- MODULE NativeSession -----------------------------
(***************************************************************************)
(* How a native session ends: the four workers that native/session.rs      *)
(* spawn() starts around the input path of NativeInput, the two waits they *)
(* share (BaseReady, MoveRendezvous), the stop flag the first failure      *)
(* claims, the window's close event, and NativeHandle::shutdown, which     *)
(* joins them all.                                                         *)
(*                                                                         *)
(* What the updates draw is NativeVisual's subject; here an update is its  *)
(* kind.  The host sends a script of legal updates and a channel may break *)
(* under it.  The ACK queue does not fill (NativeVisual.AckQueueSuffices). *)
(***************************************************************************)
EXTENDS NativeInput

CONSTANT Loads  \* bounds: window events, faults and host updates of a behaviour

Updates == {"frame", "rects", "move", "moveRaw"}

ASSUME LoadsAssumption ==
  \A l \in Loads : l.events \in Nat /\ l.faults \in Nat /\ l.endings \in Nat
                     /\ l.script \in Seq(Updates)

VARIABLES
  script,   \* updates the host has still to send (external)
  unacked,  \* updates sent and not acknowledged
  bulk, sparse,            \* messages on the way
  video, raw,              \* native-net and native-sparse: place and reported end
  ack, ack_queue,          \* native-frame-ack, and the updates queued for it
  base_ready, base_cancelled,
  rendezvous,              \* MoveRendezvous: "Idle", "Pending", "Applied", "Failed"
  remainder,               \* of the pending move
  handle,                  \* NativeHandle: where shutdown is
  result                   \* what shutdown returned

laneVars == <<script, unacked, bulk, sparse>>
workerVars == <<video, raw, ack, ack_queue>>
waitVars == <<base_ready, base_cancelled, rendezvous, remainder>>
handleVars == <<handle, result>>
vars == <<inputVars, laneVars, workerVars, waitVars, handleVars>>

End == {"none", "clean", "failed"}
At(place, end) == [at |-> place, end |-> end]
Finishing(failed) == At("finish", IF failed /\ ~stop THEN "failed" ELSE "clean")

TypeOK ==
  /\ InputTypeOK
  /\ script \in Seq(Updates) /\ unacked \in Nat
  /\ bulk \in Seq({"frame", "fence", "fenceRaw"})
  /\ sparse \in Seq({"rects", "prelude", "preludeRaw"})
  /\ video \in [at : {"top", "read", "fence", "apply", "waitRaw", "finish", "cancel", "shut", "done"},
                end : End]
  /\ raw \in [at : {"top", "read", "base", "waitMove", "finish", "shut", "done"}, end : End]
  /\ ack \in [at : {"run", "done"}, end : End]
  /\ ack_queue \in Nat /\ ack_queue <= unacked
  /\ base_ready \in BOOLEAN /\ base_cancelled \in BOOLEAN
  /\ rendezvous \in {"Idle", "Pending", "Applied", "Failed"} /\ remainder \in {"None", "Raw"}
  /\ handle \in {"running", "cancel", "shut", "join", "done"} /\ result \in End

(* The input path from the window to the host: what is held down is what  *)
(* the window's ledger says, and is known to the host's release; the pump  *)
(* does not sleep on an event.                                             *)
SessionInv ==
  /\ TypeOK
  /\ HostFollowsLedger
  /\ NoKeyForgotten
  /\ NoSleepOnWork

Init ==
  /\ InputInit
  /\ \E l \in Loads : events = l.events /\ faults = l.faults
                       /\ endings = l.endings /\ script = l.script
  /\ unacked = 0 /\ bulk = <<>> /\ sparse = <<>>
  /\ video = At("read", "none") /\ raw = At("read", "none") /\ ack = At("run", "none")
  /\ ack_queue = 0 /\ base_ready = FALSE /\ base_cancelled = FALSE
  /\ rendezvous = "Idle" /\ remainder = "None"
  /\ handle = "running" /\ result = "none"

-----------------------------------------------------------------------------
(* The host, as far as this side can tell.                                 *)

\* The next update; a move waits until nothing is unacknowledged.
HostSends ==
  /\ script # <<>> /\ broken = {} /\ script' = Tail(script) /\ unacked' = unacked + 1
  /\ LET kind == Head(script)
     IN /\ kind \in {"move", "moveRaw"} => unacked = 0
        /\ bulk' = bulk \o (CASE kind = "frame" -> <<"frame">> [] kind = "move" -> <<"fence">>
                              [] kind = "moveRaw" -> <<"fenceRaw">> [] OTHER -> <<>>)
        /\ sparse' = sparse \o (CASE kind = "rects" -> <<"rects">> [] kind = "move" -> <<"prelude">>
                                  [] kind = "moveRaw" -> <<"preludeRaw", "rects">>
                                  [] OTHER -> <<>>)
  /\ UNCHANGED <<inputVars, workerVars, waitVars, handleVars>>

\* A channel ends at the other side, with or without what was under way.
Breaks ==
  /\ endings > 0 /\ endings' = endings - 1
  /\ \E c \in Channels \ broken : broken' = broken \cup {c}
  /\ bulk' \in {bulk, <<>>} /\ sparse' \in {sparse, <<>>}
  /\ UNCHANGED <<windowVars, sharedVars, pump, stop, shut, closes, input_end, hostVars, overtaken,
                 events, faults, script, unacked, workerVars, waitVars, handleVars>>

-----------------------------------------------------------------------------
(* The two readers.  A step of a reader leaves the stop flag, the sockets  *)
(* and the window alone until the reader finishes.                         *)

\* enqueue_frame_ack
CanAck == ack.at # "done"
Acks == ack_queue' = IF CanAck THEN ack_queue + 1 ELSE ack_queue

\* A message is done: on within its batch, or at the top of the loop.
MessageDone == video' \in {At("top", "none")} \cup (IF bulk # <<>> THEN {At("read", "none")} ELSE {})
Aborts == rendezvous' = "Failed"

Eof(lane, c) == Gone(c) /\ (lane = <<>> \/ c \in shut)

VideoTop ==
  /\ video.at = "top" /\ video' = IF stop THEN Finishing(FALSE) ELSE At("read", "none")
  /\ UNCHANGED <<bulk, ack_queue, waitVars>>

VideoEof ==
  /\ video.at = "read" /\ Eof(bulk, "video") /\ video' = Finishing(TRUE)
  /\ UNCHANGED <<bulk, ack_queue, waitVars>>

\* A frame becomes visible, publishes the base (BaseReady::signal) and is acknowledged.
VideoFrame ==
  /\ video.at = "read" /\ bulk # <<>> /\ Head(bulk) = "frame" /\ bulk' = Tail(bulk)
  /\ base_ready' = (base_ready \/ ~base_cancelled) /\ Acks
  /\ IF CanAck THEN video' = At("top", "none") ELSE video' = At("finish", "failed")
  /\ UNCHANGED <<base_cancelled, rendezvous, remainder>>

VideoFence ==
  /\ video.at = "read" /\ bulk # <<>> /\ Head(bulk) # "frame" /\ bulk' = Tail(bulk)
  /\ video' = At("fence", "none") /\ UNCHANGED <<ack_queue, waitVars>>

\* prelude_for_fence
VideoMeetsPrelude ==
  /\ video.at = "fence"
  /\ IF rendezvous = "Failed" THEN video' = At("finish", "failed")
     ELSE rendezvous = "Pending" /\ video' = At("apply", "none")
  /\ UNCHANGED <<bulk, ack_queue, waitVars>>

\* The copy, mark_applied, and what the declared remainder asks for.
VideoApplies ==
  /\ video.at = "apply"
  /\ IF rendezvous # "Pending"
     THEN Aborts /\ video' = At("finish", "failed") /\ UNCHANGED ack_queue
     ELSE IF remainder = "Raw"
     THEN rendezvous' = "Applied" /\ video' = At("waitRaw", "none") /\ UNCHANGED ack_queue
     ELSE /\ Acks /\ rendezvous' = IF CanAck THEN "Idle" ELSE "Failed"
          /\ IF CanAck THEN MessageDone ELSE video' = At("finish", "failed")
  /\ UNCHANGED <<bulk, base_ready, base_cancelled, remainder>>

\* wait_complete
VideoRemainderDone ==
  /\ video.at = "waitRaw"
  /\ IF rendezvous = "Failed" THEN video' = At("finish", "failed")
     ELSE rendezvous = "Idle" /\ MessageDone
  /\ UNCHANGED <<bulk, ack_queue, waitVars>>

\* Mutant: the waits have no deadline.
BugDeadline == FALSE

Deadline == TRUE

\* Five seconds in either wait; stopping the session does not shorten them.
VideoTimesOut ==
  /\ Deadline
  /\ \/ video.at = "fence" /\ rendezvous = "Idle"
     \/ (video.at = "waitRaw" /\ rendezvous = "Applied")
  /\ Aborts /\ video' = At("finish", "failed")
  /\ UNCHANGED <<bulk, ack_queue, base_ready, base_cancelled, remainder>>

VideoReads ==
  /\ VideoTop \/ VideoEof \/ VideoFrame \/ VideoFence \/ VideoMeetsPrelude \/ VideoApplies
     \/ VideoRemainderDone \/ VideoTimesOut
  /\ UNCHANGED <<inputVars, script, unacked, sparse, raw, ack, handleVars>>

RawTop ==
  /\ raw.at = "top" /\ raw' = IF stop THEN Finishing(FALSE) ELSE At("read", "none")
  /\ UNCHANGED <<sparse, ack_queue, waitVars>>

RawEof ==
  /\ raw.at = "read" /\ Eof(sparse, "sparse") /\ raw' = Finishing(TRUE)
  /\ UNCHANGED <<sparse, ack_queue, waitVars>>

\* on_rects: the remainder of the applied move, or an update of its own.
RawRects ==
  /\ raw.at = "read" /\ sparse # <<>> /\ Head(sparse) = "rects" /\ sparse' = Tail(sparse)
  /\ CASE rendezvous = "Applied" /\ remainder = "Raw" ->
            /\ rendezvous' = "Idle" /\ Acks
            /\ raw' = IF CanAck THEN At("top", "none") ELSE At("finish", "failed")
       [] rendezvous = "Idle" ->
            /\ UNCHANGED rendezvous
            /\ IF base_ready
               THEN Acks /\ raw' = IF CanAck THEN At("top", "none") ELSE At("finish", "failed")
               ELSE raw' = At("base", "none") /\ UNCHANGED ack_queue
       [] OTHER -> Aborts /\ raw' = At("finish", "failed") /\ UNCHANGED ack_queue
  /\ UNCHANGED <<base_ready, base_cancelled, remainder>>

\* BaseReady::wait_until: published, cancelled, or five seconds gone.
RawBase ==
  /\ raw.at = "base"
  /\ IF base_cancelled \/ (stop /\ base_ready)
     THEN raw' = At("top", "none") /\ UNCHANGED ack_queue
     ELSE IF base_ready
     THEN Acks /\ raw' = IF CanAck THEN At("top", "none") ELSE At("finish", "failed")
     ELSE /\ Deadline /\ raw' = IF stop THEN At("top", "none") ELSE At("finish", "failed")
          /\ UNCHANGED ack_queue
  /\ UNCHANGED <<sparse, waitVars>>

\* on_move_prelude, register_and_wait
RawPrelude ==
  /\ raw.at = "read" /\ sparse # <<>> /\ Head(sparse) # "rects" /\ sparse' = Tail(sparse)
  /\ CASE ~base_ready -> raw' = At("finish", "failed") /\ UNCHANGED <<rendezvous, remainder>>
       [] base_ready /\ rendezvous = "Idle" ->
            /\ raw' = At("waitMove", "none") /\ rendezvous' = "Pending"
            /\ remainder' = IF Head(sparse) = "preludeRaw" THEN "Raw" ELSE "None"
       [] OTHER -> Aborts /\ raw' = At("finish", "failed") /\ UNCHANGED remainder
  /\ UNCHANGED <<ack_queue, base_ready, base_cancelled>>

RawMoveDone ==
  /\ raw.at = "waitMove"
  /\ IF rendezvous = "Failed" THEN raw' = At("finish", "failed")
     ELSE /\ rendezvous = "Idle" \/ (rendezvous = "Applied" /\ remainder = "Raw")
          /\ raw' = At("top", "none")
  /\ UNCHANGED <<sparse, ack_queue, waitVars>>

RawTimesOut ==
  /\ Deadline /\ raw.at = "waitMove" /\ rendezvous = "Pending"
  /\ Aborts /\ raw' = At("finish", "failed")
  /\ UNCHANGED <<sparse, ack_queue, base_ready, base_cancelled, remainder>>

RawReads ==
  /\ RawTop \/ RawEof \/ RawRects \/ RawBase \/ RawPrelude \/ RawMoveDone \/ RawTimesOut
  /\ UNCHANGED <<inputVars, script, unacked, bulk, video, ack, handleVars>>

-----------------------------------------------------------------------------
(* How the workers end.                                                    *)

\* finish_video_and_cancel_base, then the input socket.
VideoFinishes ==
  \/ /\ video.at = "finish" /\ Fails(video.end) /\ video' = [video EXCEPT !.at = "cancel"]
     /\ UNCHANGED <<shut, base_cancelled>>
  \/ /\ video.at = "cancel" /\ base_cancelled' = TRUE /\ video' = [video EXCEPT !.at = "shut"]
     /\ UNCHANGED <<stop, closes, window, shut>>
  \/ /\ video.at = "shut" /\ shut' = shut \cup {"input"} /\ video' = [video EXCEPT !.at = "done"]
     /\ UNCHANGED <<stop, closes, window, base_cancelled>>

\* finish_video_worker on the sparse thread, then the video and input sockets.
RawFinishes ==
  \/ /\ raw.at = "finish" /\ Fails(raw.end) /\ raw' = [raw EXCEPT !.at = "shut"] /\ UNCHANGED shut
  \/ /\ raw.at = "shut" /\ shut' = shut \cup {"video", "input"} /\ raw' = [raw EXCEPT !.at = "done"]
     /\ UNCHANGED <<stop, closes, window>>

WorkerFinishes ==
  /\ \/ VideoFinishes /\ UNCHANGED raw
     \/ RawFinishes /\ UNCHANGED <<video, base_cancelled>>
  /\ UNCHANGED <<pressed, ledger, focused, cursor, todo, sending, sharedVars, pump, broken,
                 input_end, hostVars, overtaken, events, faults, endings, laneVars, ack, ack_queue,
                 base_ready, rendezvous, remainder, handleVars>>

\* run_ack_writer: the stop flag, an ACK, or a write error and finish_ack_writer.
AckStops == stop /\ ack' = At("done", "clean") /\ UNCHANGED <<ack_queue, unacked, shut, stop, closes, window>>

AckWrites ==
  /\ ~stop /\ ack_queue > 0 /\ "video" \notin shut
  /\ ack_queue' = ack_queue - 1 /\ unacked' = unacked - 1
  /\ UNCHANGED <<ack, shut, stop, closes, window>>

AckFails ==
  /\ ack_queue > 0 /\ Gone("video") /\ ack_queue' = ack_queue - 1
  /\ IF Claims
     THEN Fails("failed") /\ shut' = shut \cup {"video"} /\ ack' = At("done", "failed")
     ELSE ack' = At("done", "clean") /\ UNCHANGED <<shut, stop, closes, window>>
  /\ UNCHANGED unacked

AckWriter ==
  /\ ack.at = "run" /\ (AckStops \/ AckWrites \/ AckFails)
  /\ UNCHANGED <<pressed, ledger, focused, cursor, todo, sending, sharedVars, pump, broken,
                 input_end, hostVars, overtaken, events, faults, endings, script, bulk, sparse, video, raw,
                 waitVars, handleVars>>

-----------------------------------------------------------------------------
(* The window leaves its event loop, and the session is shut down.         *)

UserCloses ==
  /\ window = "open" /\ todo = <<>> /\ endings > 0 /\ endings' = endings - 1
  /\ window' = "leaving"
  /\ UNCHANGED <<pressed, ledger, focused, cursor, todo, sending, sharedVars, pump, sessionVars,
                 hostVars, overtaken, events, faults, laneVars, workerVars, waitVars, handleVars>>

\* SessionEvent::Close
WindowCloses ==
  /\ window = "asked" /\ todo = <<>> /\ window' = "leaving"
  /\ UNCHANGED <<pressed, ledger, focused, cursor, todo, sending, sharedVars, pump, sessionVars,
                 hostVars, overtaken, events, faults, endings, laneVars, workerVars, waitVars, handleVars>>

Joined == pump.at = "done" /\ raw.at = "done" /\ video.at = "done" /\ ack.at = "done"

\* resolve_native_end
Resolved ==
  IF "failed" \in {ack.end, video.end, input_end, raw.end} THEN "failed" ELSE "clean"

\* NativeHandle::shutdown: the flag, the base, the sockets, and the joins.
Shutdown ==
  /\ \/ /\ handle = "running" /\ window = "leaving" /\ stop' = TRUE /\ handle' = "cancel"
        /\ UNCHANGED <<shut, base_cancelled, result>>
     \/ /\ handle = "cancel" /\ base_cancelled' = TRUE /\ handle' = "shut"
        /\ UNCHANGED <<stop, shut, result>>
     \/ /\ handle = "shut" /\ shut' = Channels /\ handle' = "join"
        /\ UNCHANGED <<stop, base_cancelled, result>>
     \/ /\ handle = "join" /\ Joined /\ result' = Resolved /\ handle' = "done"
        /\ UNCHANGED <<stop, shut, base_cancelled>>
  /\ UNCHANGED <<windowVars, sharedVars, pump, broken, closes, input_end, hostVars, overtaken,
                 events, faults, endings, laneVars, workerVars, base_ready, rendezvous, remainder>>

-----------------------------------------------------------------------------
Next ==
  \/ InputStep /\ UNCHANGED <<laneVars, workerVars, waitVars, handleVars>>
  \/ HostSends \/ Breaks \/ VideoReads \/ RawReads \/ WorkerFinishes \/ AckWriter
  \/ UserCloses \/ WindowCloses \/ Shutdown

Spec == Init /\ [][Next]_vars

(* Threads run, writes and reads return, deadlines pass, and the window    *)
(* and the host's listener serve what reaches them.  The user, the host's  *)
(* updates and every fault are free.                                       *)
Fairness ==
  /\ WF_vars(PumpStep /\ UNCHANGED <<laneVars, workerVars, waitVars, handleVars>>)
  /\ WF_vars(QueueEvent /\ UNCHANGED <<laneVars, workerVars, waitVars, handleVars>>)
  /\ WF_vars(HostStep /\ UNCHANGED <<laneVars, workerVars, waitVars, handleVars>>)
  /\ WF_vars(VideoReads) /\ WF_vars(RawReads) /\ WF_vars(WorkerFinishes) /\ WF_vars(AckWriter)
  /\ WF_vars(WindowCloses) /\ WF_vars(Shutdown)

FairSpec == Spec /\ Fairness

-----------------------------------------------------------------------------
(* Of the failures that race for the session's end one asks the window to  *)
(* close, once, and it is never reported as a clean end.                   *)
OneCause ==
  /\ closes <= 1
  /\ closes = 1 /\ handle = "done" => result = "failed"

(* Once anything ends the session, all of it ends: the window is told, no  *)
(* worker stays in a socket, a wait or a queue the others have left, and   *)
(* the host holds down no key but those Windows refused to release.        *)
SessionEnds == stop ~> (handle = "done" /\ down \subseteq leaked)
===============================================================================

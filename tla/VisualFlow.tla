----------------------------- MODULE VisualFlow -----------------------------
(***************************************************************************)
(* Epoch-scoped admission of logical visual updates, shared by the host's  *)
(* capture thread, its sender thread and one feedback reader per viewer    *)
(* (tools/latency-spike/server/src/visual_flow.rs).  The state sits behind *)
(* one mutex, so every call is one step; the interleavings are between     *)
(* calls.                                                                  *)
(*                                                                         *)
(* The callers are as general as the host's threads: the capture thread    *)
(* works with an epoch it read earlier and may hold reservations of a      *)
(* viewer already gone, a reader acknowledges whatever its viewer sent,    *)
(* and either side may retire an epoch at any time.                        *)
(***************************************************************************)
EXTENDS Integers, FiniteSets

CONSTANTS
  MAX_OUTSTANDING,    \* permits per viewer
  ACK_HISTORY_LIMIT,  \* acknowledged sequences remembered per epoch
  MaxEpoch,           \* bound: viewer epochs explored
  MaxSeq              \* bound: logical frame sequences explored

ASSUME FlowAssumption ==
  /\ MAX_OUTSTANDING \in Nat \ {0}
  /\ ACK_HISTORY_LIMIT \in Nat \ {0}
  /\ MaxEpoch \in Nat
  /\ MaxSeq \in Nat

VARIABLES
  epoch,      \* State.epoch
  entries,    \* State.entries: sequence -> state of its permit
  acked,      \* State.acknowledged_sequences
  tokens,     \* armed Reservation values held by the capture thread
  frame_seq,  \* the capture thread's last allocated frame sequence
  readers,    \* epochs whose feedback reader thread is running
  released    \* history: the <<epoch, sequence>> permits given back by an ACK

flowVars == <<epoch, entries, acked>>
vars == <<epoch, entries, acked, tokens, frame_seq, readers, released>>

Epoch == 0..MaxEpoch
Sequence == 1..MaxSeq
Permit == {"Tentative", "Admitted"}
Token == [epoch : Epoch, seq : Sequence]

TypeOK ==
  /\ epoch \in Epoch
  /\ frame_seq \in 0..MaxSeq
  /\ DOMAIN entries \subseteq Sequence
  /\ entries \in [DOMAIN entries -> Permit]
  /\ acked \subseteq Sequence
  /\ tokens \subseteq Token
  /\ readers \subseteq Epoch
  /\ released \subseteq Epoch \X Sequence

Init ==
  /\ epoch = 0
  /\ entries = [s \in {} |-> "Tentative"]
  /\ acked = {}
  /\ tokens = {}
  /\ frame_seq = 0
  /\ readers = {}
  /\ released = {}

-----------------------------------------------------------------------------
(* The calls, each under the state mutex. *)

Without(s) == [t \in DOMAIN entries \ {s} |-> entries[t]]
Bind(s, permit) ==
  [t \in DOMAIN entries \cup {s} |-> IF t = s THEN permit ELSE entries[t]]

\* reset(): what begin_epoch() and a disconnect() of the current epoch do.
Reset ==
  /\ epoch < MaxEpoch
  /\ epoch' = epoch + 1
  /\ entries' = [s \in {} |-> "Tentative"]
  /\ acked' = {}

\* Mutant: whoever disconnects resets the current viewer.
BugDisconnect(e) == Reset

\* disconnect(e): retires a viewer only when the caller owns the current epoch.
Disconnect(e) ==
  IF e = epoch THEN Reset ELSE UNCHANGED flowVars

\* Mutant: one permit too many.
BugCanReserve(e, s) ==
  /\ e = epoch
  /\ s \notin DOMAIN entries
  /\ s \notin acked
  /\ Cardinality(DOMAIN entries) <= MAX_OUTSTANDING

CanReserve(e, s) ==
  /\ e = epoch
  /\ s \notin DOMAIN entries
  /\ s \notin acked
  /\ Cardinality(DOMAIN entries) < MAX_OUTSTANDING

CanAdmit(e, s) ==
  /\ e = epoch
  /\ s \in DOMAIN entries
  /\ entries[s] = "Tentative"

\* Mutant: a reservation of an older epoch releases the current one's permit.
BugCanCancel(e, s) == s \in DOMAIN entries
CanCancel(e, s) == e = epoch /\ s \in DOMAIN entries

CanAck(e, s) ==
  /\ e = epoch
  /\ s \in DOMAIN entries
  /\ entries[s] = "Admitted"

\* reserve(e, s): on success the caller owns an armed token.
Reserve(e, s) ==
  /\ CanReserve(e, s)
  /\ entries' = Bind(s, "Tentative")
  /\ tokens' = tokens \cup {[epoch |-> e, seq |-> s]}
  /\ UNCHANGED <<epoch, acked>>

\* Reservation::admit: disarms the token whether or not the permit is still there.
Admit(t) ==
  /\ entries' = IF CanAdmit(t.epoch, t.seq) THEN Bind(t.seq, "Admitted") ELSE entries
  /\ tokens' = tokens \ {t}
  /\ UNCHANGED <<epoch, acked>>

\* Reservation::cancel, and Drop of an armed token.  A token admitted earlier
\* may be cancelled too: an update the queues refused after all.
Cancel(t) ==
  /\ entries' = IF CanCancel(t.epoch, t.seq) THEN Without(t.seq) ELSE entries
  /\ tokens' = tokens \ {t}
  /\ UNCHANGED <<epoch, acked>>

\* Mutant: pop_last drops the largest.
BugRemember(history) ==
  IF Cardinality(history) > ACK_HISTORY_LIMIT
  THEN {s \in history : \E newer \in history : s < newer}
  ELSE history

\* The history keeps the newest sequences: pop_first drops the smallest.
Remember(history) ==
  IF Cardinality(history) > ACK_HISTORY_LIMIT
  THEN {s \in history : \E older \in history : older < s}
  ELSE history

\* Mutant: an acknowledged permit stays in the table.
BugAck(e, s) ==
  /\ CanAck(e, s)
  /\ entries' = Bind(s, "Acknowledged")
  /\ acked' = Remember(acked \cup {s})
  /\ UNCHANGED <<epoch, tokens>>

\* ack(e, s), the accepted case: releases exactly one ACK-owned sequence.
Ack(e, s) ==
  /\ CanAck(e, s)
  /\ entries' = Without(s)
  /\ acked' = Remember(acked \cup {s})
  /\ UNCHANGED <<epoch, tokens>>

-----------------------------------------------------------------------------
(* The threads. *)

\* Sender::poll_accept: a new viewer, its epoch and its feedback reader.
AcceptViewer ==
  /\ Reset
  /\ readers' = readers \cup {epoch + 1}
  /\ UNCHANGED <<tokens, frame_seq, released>>

\* Sender::drop_client, or the capture thread giving up on a viewer that
\* stopped acknowledging, for an epoch the caller read at some earlier time.
RetireViewer(e) ==
  /\ e \in 1..epoch
  /\ Disconnect(e)
  /\ UNCHANGED <<tokens, frame_seq, readers, released>>

\* capture_loop allocates the next frame sequence and reserves it ...
ReserveFrame(e) ==
  /\ frame_seq < MaxSeq
  /\ frame_seq' = frame_seq + 1
  /\ Reserve(e, frame_seq + 1)
  /\ UNCHANGED <<readers, released>>

\* ... or gives the sequence up: no codec surface is free, or the window is
\* full or belongs to another viewer by now.
SkipFrame ==
  /\ frame_seq < MaxSeq
  /\ frame_seq' = frame_seq + 1
  /\ UNCHANGED <<flowVars, tokens, readers, released>>

\* ... or reserves the same sequence again after a refused move.
ReserveAgain(e) ==
  /\ frame_seq > 0
  /\ [epoch |-> e, seq |-> frame_seq] \notin tokens
  /\ Reserve(e, frame_seq)
  /\ UNCHANGED <<frame_seq, readers, released>>

AdmitFrame(t) ==
  /\ t \in tokens
  /\ Admit(t)
  /\ UNCHANGED <<frame_seq, readers, released>>

CancelFrame(t) ==
  /\ t \in tokens \/ CanCancel(t.epoch, t.seq)
  /\ Cancel(t)
  /\ UNCHANGED <<frame_seq, readers, released>>

\* feedback_loop reads one FRAME_ACK: it releases the permit, or the refused
\* ACK ends the reader and retires the viewer.
FeedbackAck(e, s) ==
  /\ e \in readers
  /\ \/ /\ Ack(e, s)
        /\ released' = released \cup {<<e, s>>}
        /\ UNCHANGED readers
     \/ /\ ~CanAck(e, s)
        /\ Disconnect(e)
        /\ readers' = readers \ {e}
        /\ UNCHANGED <<tokens, released>>
  /\ UNCHANGED frame_seq

\* feedback_loop ends on a closed or broken socket.
FeedbackEnd(e) ==
  /\ e \in readers
  /\ Disconnect(e)
  /\ readers' = readers \ {e}
  /\ UNCHANGED <<tokens, frame_seq, released>>

Capture ==
  \/ SkipFrame
  \/ \E e \in Epoch : ReserveFrame(e) \/ ReserveAgain(e)
  \/ \E t \in Token : AdmitFrame(t) \/ CancelFrame(t)

Feedback ==
  \E e \in Epoch : FeedbackEnd(e) \/ \E s \in Sequence : FeedbackAck(e, s)

Next ==
  \/ AcceptViewer
  \/ \E e \in Epoch : RetireViewer(e)
  \/ Capture
  \/ Feedback

Spec == Init /\ [][Next]_vars

-----------------------------------------------------------------------------
(* A sequence an ACK has already released never holds a permit of the same *)
(* epoch again, although the capture thread reuses a sequence after a      *)
(* refused move and the history remembers only the newest sequences: one   *)
(* ACK pays for one update.                                                *)
ReleasedOnce == \A s \in DOMAIN entries : <<epoch, s>> \notin released

(* RAII bookkeeping: a tentative permit of the current epoch is exactly an *)
(* armed reservation of the capture thread, so no early return, refused    *)
(* queue or viewer change leaks a permit or leaves a token over somebody   *)
(* else's permit.                                                          *)
TentativeIsOwned ==
  {s \in DOMAIN entries : entries[s] = "Tentative"}
    = {t.seq : t \in {u \in tokens : u.epoch = epoch}}

(* At most MAX_OUTSTANDING updates of the current viewer are reserved or   *)
(* unacknowledged, whatever the threads do.                                *)
BoundedOutstanding == Cardinality(DOMAIN entries) <= MAX_OUTSTANDING

(* Nothing a retired viewer's reader does touches its successor: permits,  *)
(* ACK history and epoch stay as they are when the reader of another epoch *)
(* acknowledges or ends.                                                   *)
StaleReaderStep ==
  \A e \in Epoch :
    (e # epoch /\ (FeedbackEnd(e) \/ \E s \in Sequence : FeedbackAck(e, s)))
      => UNCHANGED flowVars
StaleReaderHarmless == [][StaleReaderStep]_vars

=============================================================================

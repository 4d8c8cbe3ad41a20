-------------------------- MODULE NativeSessionProofs --------------------------
(***************************************************************************)
(* Theorems about NativeSession, the input path of NativeInput included.   *)
(*                                                                         *)
(* The run checks the window's ledger and cursor against the host only     *)
(* when nothing is under way; that is not inductive.  The invariant here   *)
(* asks what the host's state will be once everything under way has        *)
(* arrived: the socket, the event in the pump's hand, the reliable queue,  *)
(* the latest-position slot and the events the window has still to send,   *)
(* in that order.  Every step of the path leaves that answer alone, and a  *)
(* new event of the user's changes it as it changes the window's own       *)
(* state.                                                                  *)
(***************************************************************************)
EXTENDS NativeSession, SequenceTheorems, FiniteSetTheorems, TLAPS

-----------------------------------------------------------------------------
(* Type correctness.                                                       *)

PumpRec == [at : {"top", "wait", "drain", "recv", "latest", "write", "finish", "shut", "done"},
            n : 0 .. NATIVE_INPUT_BATCH_MAX, zero : BOOLEAN, event : Event \cup {Nothing}]

Ended == pump.at \in {"finish", "shut", "done"}

\* native-input: the batch counter has room where it grows, an event is in hand exactly while
\* it is written (a pump that ended may still hold one), and the receiver lives as long as the
\* thread.
PumpTyped ==
  /\ pump \in PumpRec
  /\ pump.at \in {"latest", "write"} => pump.n < NATIVE_INPUT_BATCH_MAX
  /\ pump.at \in {"top", "wait", "drain", "recv", "latest"} => pump.event = Nothing
  /\ pump.at = "write" => pump.event \in Event
  /\ ~receiver_alive => pump.at = "done"
  /\ wire \in Seq(Event) /\ Len(wire) <= WireDepth

\* The window and the queues: a window without the focus has an empty ledger, and a click being
\* sent has cleared the slot.
WindowTyped ==
  /\ pressed \subseteq Keys /\ ledger \subseteq Keys /\ focused \in BOOLEAN
  /\ IsFiniteSet(ledger) /\ (~focused => ledger = {})
  /\ cursor \in Position /\ todo \in Seq(Event)
  /\ sending \in {"clear", "send", "ring"} /\ window \in {"open", "asked", "leaving"}
  /\ sending # "clear" => todo # <<>>
  /\ sending = "send" => Head(todo).kind = "button" /\ latest = NoPosition
  /\ queue \in Seq(Reliable) /\ latest \in Position
  /\ receiver_alive \in BOOLEAN /\ bell \in BOOLEAN

EndTyped ==
  /\ stop \in BOOLEAN /\ shut \subseteq Channels /\ broken \subseteq Channels
  /\ closes \in Nat /\ input_end \in {"none", "failed"}

HostTyped ==
  /\ host \in {"serving", "ended"} /\ desktop \in 0 .. 1 /\ attached \in 0 .. 1
  /\ down \subseteq Keys /\ held_inputs \subseteq Keys /\ pointer \in Position
  /\ lost \subseteq Keys /\ leaked \subseteq Keys /\ overtaken \in BOOLEAN

\* The input path's part of the inductive invariant that is about types.
InputTyped == PumpTyped /\ WindowTyped /\ EndTyped /\ HostTyped

\* An event is a key's, a button's or a movement; the reliable queue takes the first two.
LEMMA Kinds ==
  /\ Nothing \notin Event
  /\ \A e \in Event : e.kind \in {"key", "button", "move"}
  /\ \A e \in Event : e.kind = "key" => e \in Reliable /\ e.key \in Keys /\ e.down \in BOOLEAN
  /\ \A e \in Event : e.kind = "button" => e \in Reliable /\ e.at \in Positions
  /\ \A e \in Event : e.kind = "move" => e.at \in Positions
  /\ Reliable \subseteq Event
  /\ \A e \in Reliable : e.kind \in {"key", "button"}
  /\ \A k \in Keys, d \in BOOLEAN : KeyEvent(k, d) \in Reliable
  /\ \A p \in Positions : ButtonEvent(p) \in Reliable /\ MoveEvent(p) \in Event
  BY DEF Event, Reliable, Nothing, KeyEvent, ButtonEvent, MoveEvent

\* What the assumptions say of the numbers, in the form the steps use.
LEMMA Numbers ==
  /\ NATIVE_INPUT_BATCH_MAX \in Nat \ {0} /\ WireDepth \in Nat \ {0}
  /\ NoPosition \notin Positions /\ NoPosition \in Position /\ Positions \subseteq Position
  BY InputAssumption DEF NoPosition, Position

\* SetToSeq lists each element of a finite set.
LEMMA Listed ==
  ASSUME NEW S, IsFiniteSet(S)
  PROVE  /\ SetToSeq(S) \in [1..Cardinality(S) -> S]
         /\ Cardinality(S) \in Nat
         /\ \A x \in S : \E i \in 1..Cardinality(S) : SetToSeq(S)[i] = x
<1> DEFINE n == Cardinality(S)
<1>1. n \in Nat /\ IsFiniteSet(1..n) /\ Cardinality(1..n) = n
  <2>1. n \in Nat
    BY FS_CardinalityType
  <2> QED
    BY <2>1, FS_Interval
<1>2. \E f \in [1..n -> S] : IsInjective(f)
  <2>1. ExistsBijection(1..n, S)
    BY FS_CardinalityType
  <2> QED
    BY <2>1 DEF ExistsBijection, Bijection, Injection
<1>3. SetToSeq(S) \in [1..n -> S] /\ IsInjective(SetToSeq(S))
  BY <1>2 DEF SetToSeq
<1>4. SetToSeq(S) \in Injection(1..n, S)
  BY <1>3 DEF Injection
<1>5. SetToSeq(S) \in Surjection(1..n, S)
  BY <1>1, <1>4, FS_Injection
<1> QED
  BY <1>1, <1>3, <1>5 DEF Surjection

\* The input path starts typed.
LEMMA InputInitTyped == InputInit => InputTyped
<1> SUFFICES ASSUME InputInit PROVE InputTyped
  OBVIOUS
<1>1. PumpTyped
  <2>1. pump \in PumpRec
    BY Numbers DEF InputInit, PumpRec
  <2>2. pump.at = "wait" /\ pump.event = Nothing
    BY DEF InputInit
  <2> QED
    BY <2>1, <2>2, Numbers DEF InputInit, PumpTyped
<1>2. WindowTyped
  <2>1. IsFiniteSet(ledger)
    BY FS_EmptySet DEF InputInit
  <2>2. sending = "clear" /\ window = "open" /\ latest \in Position /\ cursor \in Position
    BY Numbers DEF InputInit
  <2>3. bell \in BOOLEAN /\ receiver_alive \in BOOLEAN /\ focused \in BOOLEAN
    BY DEF InputInit
  <2> QED
    BY <2>1, <2>2, <2>3 DEF InputInit, WindowTyped
<1>3. EndTyped
  BY DEF InputInit, EndTyped
<1>4. HostTyped
  <2>1. pointer \in Position /\ desktop \in 0..1 /\ attached \in 0..1
    BY Numbers DEF InputInit
  <2>2. overtaken \in BOOLEAN
    BY DEF InputInit
  <2> QED
    BY <2>1, <2>2 DEF InputInit, HostTyped
<1> QED
  BY <1>1, <1>2, <1>3, <1>4 DEF InputTyped

\* What Append, Head and Tail do.
LEMMA SequenceFacts ==
  ASSUME NEW S, NEW q \in Seq(S)
  PROVE  /\ \A e \in S : Append(q, e) \in Seq(S) /\ Len(Append(q, e)) = Len(q) + 1
         /\ Len(q) \in Nat
         /\ q # <<>> => /\ Head(q) \in S /\ Head(q) = q[1] /\ Tail(q) \in Seq(S)
                        /\ Len(Tail(q)) = Len(q) - 1
                        /\ \A i \in 1..Len(Tail(q)) : Tail(q)[i] = q[i + 1]
  OBVIOUS

\* LoseFocus queues a release for each key of the ledger and nothing else, whatever the order
\* SetToSeq lists them in.
LEMMA ReleasesListed ==
  ASSUME IsFiniteSet(ledger), ledger \subseteq Keys
  PROVE  /\ Releases \in Seq(Event)
         /\ \A i \in 1..Len(Releases) : \E k \in ledger : Releases[i] = KeyEvent(k, FALSE)
         /\ \A k \in ledger : \E i \in 1..Len(Releases) : Releases[i] = KeyEvent(k, FALSE)
<1> DEFINE ks == SetToSeq(ledger)
           n == Cardinality(ledger)
<1>1. ks \in [1..n -> ledger] /\ n \in Nat /\ \A k \in ledger : \E i \in 1..n : ks[i] = k
  BY Listed
<1> HIDE DEF ks, n
<1>2. Releases = [i \in 1..n |-> KeyEvent(ks[i], FALSE)]
  BY <1>1 DEF Releases, ks
<1>3. \A i \in 1..n : ks[i] \in ledger /\ KeyEvent(ks[i], FALSE) \in Event
  BY <1>1, Kinds
<1>4. Releases \in Seq(Event) /\ Len(Releases) = n
  <2>1. Releases \in [1..n -> Event]
    BY <1>2, <1>3
  <2> QED
    BY <1>1, <2>1, SeqDef
<1> QED
  BY <1>1, <1>2, <1>3, <1>4

\* A sequence of one event.
LEMMA OneTyped == ASSUME NEW S, NEW e \in S PROVE <<e>> \in Seq(S) /\ <<e>> # <<>> /\ Head(<<e>>) = e
  OBVIOUS

\* What the user does.
LEMMA UserTyped ==
  ASSUME InputTyped,
         \/ \E k \in Keys : Press(k) \/ Release(k)
         \/ LoseFocus \/ GainFocus \/ Click
         \/ \E p \in Positions : MovePointer(p)
  PROVE  InputTyped'
<1>1. User /\ UNCHANGED <<sending, window, queue, latest, receiver_alive, bell, pump, sessionVars, hostVars, overtaken>>
  BY DEF Press, Release, LoseFocus, GainFocus, Click, MovePointer, User, sharedVars
<1>2. sending = "clear"
  BY <1>1 DEF User, InputTyped, WindowTyped
<1> DEFINE UserOK == /\ pressed' \subseteq Keys /\ ledger' \subseteq Keys /\ focused' \in BOOLEAN
                     /\ IsFiniteSet(ledger') /\ (~focused' => ledger' = {})
                     /\ cursor' \in Position /\ todo' \in Seq(Event)
<1>3. UserOK
  <2>0. /\ pressed \subseteq Keys /\ ledger \subseteq Keys /\ focused \in BOOLEAN
        /\ IsFiniteSet(ledger) /\ (~focused => ledger = {})
        /\ cursor \in Position /\ todo \in Seq(Event)
    BY DEF InputTyped, WindowTyped
  <2>1. ASSUME NEW k \in Keys, Press(k) PROVE UserOK
    <3>1. IsFiniteSet(ledger \cup {k})
      BY <2>0, FS_AddElement
    <3>2. <<KeyEvent(k, TRUE)>> \in Seq(Event)
      <4>1. KeyEvent(k, TRUE) \in Event
        BY Kinds
      <4> QED
        BY <4>1, OneTyped
    <3> QED
      BY <2>0, <2>1, <3>1, <3>2 DEF Press
  <2>2. ASSUME NEW k \in Keys, Release(k) PROVE UserOK
    <3>1. IsFiniteSet(ledger \ {k})
      BY <2>0, FS_RemoveElement
    <3>2. Forwarded(k) \in Seq(Event)
      <4>1. KeyEvent(k, FALSE) \in Event
        BY Kinds
      <4>2. <<KeyEvent(k, FALSE)>> \in Seq(Event)
        BY <4>1, OneTyped
      <4> QED
        BY <4>2, EmptySeq DEF Forwarded
    <3> QED
      BY <2>0, <2>2, <3>1, <3>2 DEF Release
  <2>3. CASE LoseFocus
    BY <2>0, <2>3, ReleasesListed, FS_EmptySet DEF LoseFocus
  <2>4. CASE GainFocus
    BY <2>0, <2>4 DEF GainFocus
  <2>5. CASE Click
    <3>1. cursor \in Positions
      BY <2>0, <2>5 DEF Click, Position
    <3>2. <<ButtonEvent(cursor)>> \in Seq(Event)
      BY <3>1, Kinds
    <3> QED
      BY <2>0, <2>5, <3>2 DEF Click
  <2>6. ASSUME NEW p \in Positions, MovePointer(p) PROVE UserOK
    <3>1. p \in Position /\ <<MoveEvent(p)>> \in Seq(Event)
      BY Kinds, Numbers
    <3> QED
      BY <2>0, <2>6, <3>1 DEF MovePointer
  <2> QED
    BY <2>1, <2>2, <2>3, <2>4, <2>5, <2>6
<1> QED
  BY <1>1, <1>2, <1>3 DEF InputTyped, PumpTyped, WindowTyped, EndTyped, HostTyped, sessionVars, hostVars

\* queue_input_event: one disjunct per outcome.
QueueOutcome ==
  LET e == Head(todo)
  IN \/ /\ sending = "clear" /\ e.kind = "button"
        /\ latest' = NoPosition /\ sending' = "send"
        /\ UNCHANGED <<todo, window, queue, bell, overtaken>>
     \/ /\ sending = "ring"
        /\ bell' = TRUE /\ sending' = "clear" /\ todo' = Tail(todo)
        /\ UNCHANGED <<window, queue, latest, overtaken>>
     \/ /\ sending = "clear" /\ e.kind = "move" /\ receiver_alive
        /\ latest' = e.at /\ sending' = "ring"
        /\ UNCHANGED <<todo, window, queue, bell, overtaken>>
     \/ /\ \/ sending = "send" /\ e.kind = "button"
           \/ sending = "clear" /\ e.kind = "key"
        /\ ~Ended
        /\ queue' = Append(queue, e) /\ sending' = "ring"
        /\ overtaken' = (overtaken \/ (pump.at = "latest" /\ e.kind = "button"))
        /\ UNCHANGED <<todo, window, latest, bell>>
     \/ /\ Ended
        /\ Leaves /\ UNCHANGED <<queue, latest, bell, overtaken>>

\* queue_input_event ends in one of the five ways listed.
LEMMA QueueOutcomes == InputTyped /\ QueueEvent => QueueOutcome
<1> SUFFICES ASSUME InputTyped, QueueEvent PROVE QueueOutcome
  OBVIOUS
<1>1. todo \in Seq(Event) /\ todo # <<>> /\ sending \in {"clear", "send", "ring"}
  BY DEF InputTyped, WindowTyped, QueueEvent
<1>2. Head(todo) \in Event /\ Head(todo).kind \in {"key", "button", "move"}
  BY <1>1, SequenceFacts, Kinds
<1>3. /\ sending = "send" => Head(todo).kind = "button"
      /\ ~receiver_alive => Ended
  BY DEF InputTyped, WindowTyped, PumpTyped, Ended
<1>4. CASE sending = "clear" /\ Head(todo).kind = "button"
  BY <1>4 DEF QueueEvent, QueueOutcome
<1>5. CASE sending = "ring"
  BY <1>5 DEF QueueEvent, QueueOutcome
<1>6. CASE sending = "clear" /\ Head(todo).kind = "move"
  BY <1>3, <1>6 DEF QueueEvent, QueueOutcome
<1>7. CASE (sending = "send" /\ Head(todo).kind = "button") \/ (sending = "clear" /\ Head(todo).kind = "key")
  BY <1>3, <1>7 DEF QueueEvent, QueueOutcome, Ended
<1> QED
  BY <1>1, <1>2, <1>3, <1>4, <1>5, <1>6, <1>7

\* queue_input_event keeps the types.
LEMMA QueueTyped == ASSUME InputTyped, QueueEvent PROVE InputTyped'
<1>0. /\ todo \in Seq(Event) /\ todo # <<>> /\ queue \in Seq(Reliable)
      /\ Head(todo) \in Event /\ Tail(todo) \in Seq(Event)
      /\ \A e \in Reliable : Append(queue, e) \in Seq(Reliable)
  BY SequenceFacts DEF InputTyped, WindowTyped, QueueEvent
<1>1. /\ UNCHANGED <<pressed, ledger, focused, cursor, receiver_alive, pump, sessionVars, hostVars>>
  BY DEF QueueEvent
<1>2. QueueOutcome
  BY QueueOutcomes
<1>3. Head(todo).kind \in {"key", "button"} => Head(todo) \in Reliable
  BY <1>0, Kinds
<1>4. Head(todo).kind = "move" => Head(todo).at \in Position
  BY <1>0, Kinds, Numbers
<1>5. /\ todo' \in Seq(Event) /\ sending' \in {"clear", "send", "ring"}
      /\ window' \in {"open", "asked", "leaving"}
      /\ sending' # "clear" => todo' # <<>>
      /\ sending' = "send" => Head(todo').kind = "button" /\ latest' = NoPosition
      /\ queue' \in Seq(Reliable) /\ latest' \in Position /\ bell' \in BOOLEAN
      /\ overtaken' \in BOOLEAN
  <2>0. /\ sending \in {"clear", "send", "ring"} /\ window \in {"open", "asked", "leaving"}
        /\ latest \in Position /\ bell \in BOOLEAN /\ overtaken \in BOOLEAN
        /\ NoPosition \in Position
        /\ sending # "clear" => todo # <<>>
        /\ sending = "send" => Head(todo).kind = "button" /\ latest = NoPosition
    BY Numbers DEF InputTyped, WindowTyped, HostTyped
  <2> DEFINE e == Head(todo)
  <2>1. CASE /\ sending = "clear" /\ e.kind = "button"
             /\ latest' = NoPosition /\ sending' = "send"
             /\ UNCHANGED <<todo, window, queue, bell, overtaken>>
    BY <1>0, <2>0, <2>1
  <2>2. CASE /\ sending = "ring"
             /\ bell' = TRUE /\ sending' = "clear" /\ todo' = Tail(todo)
             /\ UNCHANGED <<window, queue, latest, overtaken>>
    BY <1>0, <2>0, <2>2
  <2>3. CASE /\ sending = "clear" /\ e.kind = "move" /\ receiver_alive
             /\ latest' = e.at /\ sending' = "ring"
             /\ UNCHANGED <<todo, window, queue, bell, overtaken>>
    BY <1>0, <1>4, <2>0, <2>3
  <2>4. CASE /\ e.kind \in {"key", "button"}
             /\ queue' = Append(queue, e) /\ sending' = "ring"
             /\ overtaken' = (overtaken \/ (pump.at = "latest" /\ e.kind = "button"))
             /\ UNCHANGED <<todo, window, latest, bell>>
    BY <1>0, <1>3, <2>0, <2>4
  <2>5. CASE Leaves /\ UNCHANGED <<queue, latest, bell, overtaken>>
    BY <1>0, <2>0, <2>5 DEF Leaves
  <2> QED
    BY <1>2, <2>1, <2>2, <2>3, <2>4, <2>5 DEF QueueOutcome
<1> QED
  BY <1>1, <1>5 DEF InputTyped, PumpTyped, WindowTyped, EndTyped, HostTyped, sessionVars, hostVars

\* What the pump does, one disjunct per outcome.
PumpOutcome ==
  \/ /\ pump.at = "top" /\ pump' = [pump EXCEPT !.at = "wait"]
     /\ UNCHANGED <<sharedVars, wire, input_end, stop, shut, closes, window>>
  \/ /\ pump.at \in {"top", "wait", "write"} /\ pump' = [pump EXCEPT !.at = "finish"]
     /\ input_end' \in {"none", "failed"} /\ (input_end' = "failed" => ~stop)
     /\ UNCHANGED <<sharedVars, wire, stop, shut, closes, window>>
  \/ /\ pump.at = "wait"
     /\ pump' = [pump EXCEPT !.at = IF bell THEN "drain" ELSE "recv", !.n = 0]
     /\ UNCHANGED <<sharedVars, wire, input_end, stop, shut, closes, window>>
  \/ /\ pump.at = "drain" /\ pump' = [pump EXCEPT !.at = "recv"] /\ bell' = FALSE
     /\ UNCHANGED <<queue, latest, receiver_alive, wire, input_end, stop, shut, closes, window>>
  \/ /\ pump.at = "recv" /\ BatchFull
     /\ pump' = [pump EXCEPT !.at = "top", !.zero = TRUE, !.event = Nothing]
     /\ UNCHANGED <<sharedVars, wire, input_end, stop, shut, closes, window>>
  \/ /\ pump.at = "recv" /\ ~BatchFull /\ queue # <<>> /\ queue' = Tail(queue)
     /\ pump' = [pump EXCEPT !.at = "write", !.event = Head(queue)]
     /\ UNCHANGED <<latest, receiver_alive, bell, wire, input_end, stop, shut, closes, window>>
  \/ /\ pump.at = "recv" /\ ~BatchFull /\ queue = <<>>
     /\ pump' = [pump EXCEPT !.at = "latest"]
     /\ UNCHANGED <<sharedVars, wire, input_end, stop, shut, closes, window>>
  \/ /\ pump.at = "latest" /\ latest = NoPosition
     /\ pump' = [pump EXCEPT !.at = "top", !.zero = FALSE, !.event = Nothing]
     /\ UNCHANGED <<sharedVars, wire, input_end, stop, shut, closes, window>>
  \/ /\ pump.at = "latest" /\ latest # NoPosition /\ latest' = NoPosition
     /\ pump' = [pump EXCEPT !.at = "write", !.event = MoveEvent(latest)]
     /\ UNCHANGED <<queue, receiver_alive, bell, wire, input_end, stop, shut, closes, window>>
  \/ /\ pump.at = "write" /\ Len(wire) < WireDepth /\ wire' = Append(wire, pump.event)
     /\ pump' = [pump EXCEPT !.at = "recv", !.n = pump.n + 1, !.event = Nothing]
     /\ UNCHANGED <<sharedVars, input_end, stop, shut, closes, window>>
  \/ /\ pump.at = "finish" /\ pump' = [pump EXCEPT !.at = "shut"] /\ Fails(input_end)
     /\ UNCHANGED <<sharedVars, wire, input_end, shut>>
  \/ /\ pump.at = "shut" /\ pump' = [pump EXCEPT !.at = "done"]
     /\ receiver_alive' = FALSE /\ latest' = NoPosition /\ shut' = shut \cup {"video"}
     /\ UNCHANGED <<queue, bell, wire, input_end, stop, closes, window>>

\* A step of native-input is one of the twelve listed.
LEMMA PumpOutcomes ==
  PumpStep => /\ PumpOutcome
              /\ UNCHANGED <<pressed, ledger, focused, cursor, todo, sending, broken, host, desktop,
                             attached, down, held_inputs, pointer, lost, leaked, overtaken>>
<1> SUFFICES ASSUME PumpStep
             PROVE  PumpOutcome /\ UNCHANGED <<pressed, ledger, focused, cursor, todo, sending>>
  BY DEF PumpStep
<1>1. CASE PumpTop /\ UNCHANGED <<wire, windowVars, stop, shut, closes, endings>>
  BY <1>1 DEF PumpOutcome, PumpTop, PumpEnds, Goes, windowVars
<1>2. CASE PumpWakes /\ UNCHANGED <<wire, windowVars, stop, shut, closes, endings>>
  BY <1>2 DEF PumpOutcome, PumpWakes, PumpEnds, Goes, windowVars
<1>3. CASE PumpDrainsBell /\ UNCHANGED <<wire, windowVars, stop, shut, closes, endings>>
  BY <1>3 DEF PumpOutcome, PumpDrainsBell, BellAfter, Goes, windowVars
<1>4. CASE PumpReceives /\ UNCHANGED <<wire, windowVars, stop, shut, closes, endings>>
  BY <1>4 DEF PumpOutcome, PumpReceives, BatchDone, ReliableFirst, Goes, windowVars, sharedVars
<1>5. CASE PumpTakesLatest /\ UNCHANGED <<wire, windowVars, stop, shut, closes, endings>>
  BY <1>5 DEF PumpOutcome, PumpTakesLatest, BatchDone, BellAfter, windowVars, sharedVars
<1>6. CASE PumpWrites /\ UNCHANGED <<windowVars, stop, shut, closes>>
  BY <1>6 DEF PumpOutcome, PumpWrites, PumpEnds, Goes, windowVars
<1>7. CASE /\ PumpFinishes
           /\ UNCHANGED <<wire, shut, input_end, sharedVars, pressed, ledger, focused, cursor,
                          todo, sending, endings>>
  BY <1>7 DEF PumpOutcome, PumpFinishes, Goes
<1>8. CASE PumpShuts /\ UNCHANGED <<wire, windowVars, stop, closes, input_end, queue, bell, endings>>
  BY <1>8 DEF PumpOutcome, PumpShuts, Goes, windowVars
<1> QED
  BY <1>1, <1>2, <1>3, <1>4, <1>5, <1>6, <1>7, <1>8 DEF PumpStep, Pump

\* claim_terminal_failure keeps the types.
LEMMA FailsTyped ==
  ASSUME NEW end, Fails(end), closes \in Nat, window \in {"open", "asked", "leaving"}
  PROVE  /\ stop' = TRUE /\ closes' \in Nat /\ window' \in {"open", "asked", "leaving"}
  BY DEF Fails

\* native-input keeps the types.
LEMMA PumpStepTyped == ASSUME InputTyped, PumpStep PROVE InputTyped'
<1>0. PumpOutcome /\ UNCHANGED <<pressed, ledger, focused, cursor, todo, sending, broken, host,
                                 desktop, attached, down, held_inputs, pointer, lost, leaked, overtaken>>
  BY PumpOutcomes
<1>1. /\ pump \in PumpRec /\ wire \in Seq(Event) /\ Len(wire) <= WireDepth
      /\ queue \in Seq(Reliable) /\ latest \in Position /\ receiver_alive \in BOOLEAN
      /\ bell \in BOOLEAN /\ input_end \in {"none", "failed"} /\ stop \in BOOLEAN
      /\ shut \subseteq Channels /\ closes \in Nat /\ window \in {"open", "asked", "leaving"}
      /\ pump.at \in {"latest", "write"} => pump.n < NATIVE_INPUT_BATCH_MAX
      /\ pump.at \in {"top", "wait", "drain", "recv", "latest"} => pump.event = Nothing
      /\ pump.at = "write" => pump.event \in Event
      /\ ~receiver_alive => pump.at = "done"
      /\ sending = "send" => Head(todo).kind = "button" /\ latest = NoPosition
  BY DEF InputTyped, PumpTyped, WindowTyped, EndTyped
<1>2. /\ Nothing \in Event \cup {Nothing} /\ 0 \in 0..NATIVE_INPUT_BATCH_MAX
      /\ pump.n \in Int
      /\ pump.n # NATIVE_INPUT_BATCH_MAX => pump.n < NATIVE_INPUT_BATCH_MAX
      /\ pump.n < NATIVE_INPUT_BATCH_MAX => pump.n + 1 \in 0..NATIVE_INPUT_BATCH_MAX
  BY <1>1, Numbers DEF PumpRec
<1>3. queue # <<>> => Head(queue) \in Event /\ Tail(queue) \in Seq(Reliable)
  BY <1>1, Kinds, SequenceFacts
<1>4. latest # NoPosition => MoveEvent(latest) \in Event
  BY <1>1, Kinds DEF Position
<1>5. \A e \in Event : Append(wire, e) \in Seq(Event) /\ Len(Append(wire, e)) = Len(wire) + 1
  BY <1>1, SequenceFacts
<1>6. Len(wire) \in Nat
  BY <1>1, SequenceFacts
<1>7. /\ pump' \in PumpRec
      /\ pump'.at \in {"latest", "write"} => pump'.n < NATIVE_INPUT_BATCH_MAX
      /\ pump'.at \in {"top", "wait", "drain", "recv", "latest"} => pump'.event = Nothing
      /\ pump'.at = "write" => pump'.event \in Event
      /\ ~receiver_alive' => pump'.at = "done"
  BY <1>0, <1>1, <1>2, <1>3, <1>4 DEF PumpOutcome, PumpRec, sharedVars, BatchFull
<1>8. /\ wire' \in Seq(Event) /\ Len(wire') <= WireDepth
  BY <1>0, <1>1, <1>5, <1>6, Numbers DEF PumpOutcome
<1>9. /\ queue' \in Seq(Reliable) /\ latest' \in Position
      /\ sending' = "send" => Head(todo').kind = "button" /\ latest' = NoPosition
  BY <1>0, <1>1, <1>3, Numbers DEF PumpOutcome, sharedVars
<1>10. receiver_alive' \in BOOLEAN /\ bell' \in BOOLEAN
  BY <1>0, <1>1 DEF PumpOutcome, sharedVars
<1>11. EndTyped' /\ window' \in {"open", "asked", "leaving"}
  <2>1. CASE Fails(input_end) /\ UNCHANGED <<shut, input_end>>
    BY <1>0, <1>1, <2>1, FailsTyped DEF EndTyped, InputTyped
  <2>2. CASE /\ UNCHANGED <<stop, closes, window>> /\ shut' \in {shut, shut \cup {"video"}}
             /\ input_end' \in {"none", "failed"}
    BY <1>0, <1>1, <2>2 DEF EndTyped, InputTyped, Channels
  <2> QED
    BY <1>0, <1>1, <2>1, <2>2 DEF PumpOutcome
<1> QED
  BY <1>0, <1>7, <1>8, <1>9, <1>10, <1>11 DEF InputTyped, PumpTyped, WindowTyped, HostTyped

\* The host's listener keeps the types.
LEMMA HostStepTyped == ASSUME InputTyped, HostStep \/ SwitchDesktop PROVE InputTyped'
<1>1. UNCHANGED <<windowVars, sharedVars, pump, sessionVars, overtaken>>
  BY DEF HostStep, SwitchDesktop
<1>2. /\ wire \in Seq(Event) /\ Len(wire) <= WireDepth /\ HostTyped
  BY DEF InputTyped, PumpTyped
<1>3. (wire' \in Seq(Event) /\ Len(wire') <= WireDepth) /\ HostTyped'
  <2>1. CASE HostServes
    <3>1. /\ wire # <<>> /\ Tail(wire) \in Seq(Event) /\ Len(Tail(wire)) = Len(wire) - 1
          /\ Len(wire) \in Nat /\ Head(wire) \in Event
      BY <1>2, <2>1, SequenceFacts DEF HostServes
    <3>2. PICK outcome : /\ Attaches(outcome)
                         /\ IF Head(wire).kind = "key" THEN InjectKey(Head(wire), outcome)
                            ELSE InjectPosition(Head(wire), outcome)
      BY <2>1 DEF HostServes
    <3>3. Head(wire).kind = "key" => Head(wire).key \in Keys
      BY <3>1, Kinds
    <3>4. Head(wire).kind # "key" => Head(wire).at \in Position
      BY <3>1, Kinds, Numbers
    <3>5. /\ down' \subseteq Keys /\ held_inputs' \subseteq Keys
          /\ lost' \subseteq Keys /\ leaked' \subseteq Keys
      BY <1>2, <3>2, <3>3 DEF InjectKey, InjectPosition, With, HostTyped
    <3>6. pointer' \in Position
      BY <1>2, <3>2, <3>4 DEF InjectKey, InjectPosition, HostTyped
    <3>7. wire' = Tail(wire) /\ UNCHANGED <<host, desktop>> /\ attached' \in {desktop, attached}
      BY <2>1, <3>2 DEF HostServes, Attaches
    <3> QED
      BY <1>1, <1>2, <3>1, <3>5, <3>6, <3>7, Numbers DEF HostTyped
  <2>2. CASE HostEnds
    <3>1. PICK refused \in SUBSET held_inputs :
            /\ down' = down \ Released(refused)
            /\ lost' = lost \cup refused /\ leaked' = leaked \cup refused
      BY <2>2 DEF HostEnds
    <3>2. /\ wire' = <<>> /\ held_inputs' = {} /\ attached' = desktop /\ host' = "ended"
          /\ UNCHANGED <<desktop, pointer>>
      BY <2>2 DEF HostEnds
    <3> QED
      BY <1>1, <1>2, <3>1, <3>2, Numbers, EmptySeq DEF HostTyped
  <2>3. CASE SwitchDesktop
    BY <1>1, <1>2, <2>3 DEF SwitchDesktop, HostTyped
  <2> QED
    BY <2>1, <2>2, <2>3 DEF HostStep
<1> QED
  BY <1>1, <1>3 DEF InputTyped, PumpTyped, WindowTyped, EndTyped, windowVars, sharedVars, sessionVars

\* Every step of the input path keeps the types.
LEMMA InputStepTyped == ASSUME InputTyped, InputStep PROVE InputTyped'
  BY UserTyped, QueueTyped, PumpStepTyped, HostStepTyped DEF InputStep

-----------------------------------------------------------------------------
(* What is true once events have been dealt with.  A is the events that    *)
(* bear on a question, T those of them that answer it with yes, b the      *)
(* answer before.                                                          *)

Put(A, T, b, e) == e \in T \/ (b /\ e \notin A)

After(A, T, b, q) ==
  \/ \E i \in 1..Len(q) : q[i] \in T /\ \A j \in i + 1..Len(q) : q[j] \notin A
  \/ b /\ \A i \in 1..Len(q) : q[i] \notin A

\* Answers are Booleans.
LEMMA Answers ==
  ASSUME NEW A, NEW T \in SUBSET A, NEW b \in BOOLEAN
  PROVE  /\ \A e : Put(A, T, b, e) \in BOOLEAN
         /\ \A q : After(A, T, b, q) \in BOOLEAN
  BY DEF Put, After

\* No event, no change.
LEMMA AfterNone == ASSUME NEW A, NEW T, NEW b \in BOOLEAN PROVE After(A, T, b, <<>>) <=> b
  BY DEF After

\* One event decides.
LEMMA AfterOne ==
  ASSUME NEW A, NEW T, NEW b \in BOOLEAN, NEW e
  PROVE  After(A, T, b, <<e>>) <=> Put(A, T, b, e)
<1>1. Len(<<e>>) = 1 /\ <<e>>[1] = e /\ 1..1 = {1} /\ 1 + 1..1 = {}
  OBVIOUS
<1> QED
  BY <1>1 DEF After, Put

\* The last event has the last word.
LEMMA AfterAppend ==
  ASSUME NEW A, NEW T \in SUBSET A, NEW b \in BOOLEAN, NEW S, NEW q \in Seq(S), NEW e \in S
  PROVE  After(A, T, b, Append(q, e)) = Put(A, T, After(A, T, b, q), e)
<1> DEFINE r == Append(q, e)
           n == Len(q)
<1>0. After(A, T, b, r) \in BOOLEAN /\ Put(A, T, After(A, T, b, q), e) \in BOOLEAN
  BY Answers
<1> SUFFICES After(A, T, b, r) <=> Put(A, T, After(A, T, b, q), e)
  BY <1>0
<1>1. /\ Len(r) = n + 1 /\ n \in Nat /\ r[n + 1] = e
      /\ \A i \in 1..n : r[i] = q[i]
      /\ \A i \in 1..n + 1 : i \in 1..n \/ i = n + 1
      /\ \A i \in 1..n : i \in 1..n + 1
  BY SequenceFacts
<1> HIDE DEF r, n
<1>2. CASE e \in T
  <2>1. \A j \in (n + 1) + 1..n + 1 : r[j] \notin A
    BY <1>1
  <2> QED
    BY <1>1, <1>2, <2>1 DEF After, Put, r
<1>3. CASE e \in A /\ e \notin T
  <2>1. ASSUME NEW i \in 1..n + 1, r[i] \in T, \A j \in i + 1..n + 1 : r[j] \notin A PROVE FALSE
    <3>1. i \in 1..n
      BY <1>1, <1>3, <2>1
    <3>2. n + 1 \in i + 1..n + 1
      BY <1>1, <3>1
    <3> QED
      BY <1>1, <1>3, <2>1, <3>2
  <2> QED
    BY <1>1, <1>3, <2>1 DEF After, Put, r
<1>4. CASE e \notin A
  <2>1. ASSUME NEW i \in 1..n
        PROVE  (\A j \in i + 1..n + 1 : r[j] \notin A) <=> (\A j \in i + 1..n : q[j] \notin A)
    <3>1. \A j \in i + 1..n : j \in i + 1..n + 1 /\ j \in 1..n
      BY <1>1
    <3>2. \A j \in i + 1..n + 1 : j \in i + 1..n \/ j = n + 1
      BY <1>1
    <3> QED
      BY <1>1, <1>4, <3>1, <3>2
  <2>2. (\A i \in 1..n + 1 : r[i] \notin A) <=> (\A i \in 1..n : q[i] \notin A)
    BY <1>1, <1>4
  <2>3. r[n + 1] \notin T
    BY <1>1, <1>4
  <2>4. (\E i \in 1..n + 1 : r[i] \in T /\ \A j \in i + 1..n + 1 : r[j] \notin A)
          <=> (\E i \in 1..n : q[i] \in T /\ \A j \in i + 1..n : q[j] \notin A)
    BY <1>1, <2>1, <2>3
  <2> QED
    BY <1>1, <1>4, <2>2, <2>4 DEF After, Put, r, n
<1> QED
  BY <1>2, <1>3, <1>4

\* Dealing with the first event and then the rest is dealing with all.
LEMMA AfterTail ==
  ASSUME NEW A, NEW T \in SUBSET A, NEW b \in BOOLEAN, NEW S, NEW q \in Seq(S), q # <<>>
  PROVE  After(A, T, b, q) = After(A, T, Put(A, T, b, Head(q)), Tail(q))
<1> DEFINE r == Tail(q)
           n == Len(r)
           h == Head(q)
<1>1. /\ Len(q) = n + 1 /\ n \in Nat /\ q[1] = h
      /\ \A i \in 1..n : r[i] = q[i + 1] /\ i + 1 \in 1..n + 1
      /\ \A i \in 1..n + 1 : i = 1 \/ (i - 1 \in 1..n /\ r[i - 1] = q[i])
      /\ 1 \in 1..n + 1
  BY SequenceFacts
<1> HIDE DEF r, n, h
<1>2. ASSUME NEW i \in 1..n
      PROVE  (\A j \in (i + 1) + 1..n + 1 : q[j] \notin A) <=> (\A j \in i + 1..n : r[j] \notin A)
  <2>1. \A j \in i + 1..n : j + 1 \in (i + 1) + 1..n + 1 /\ r[j] = q[j + 1]
    BY <1>1
  <2>2. \A j \in (i + 1) + 1..n + 1 : j - 1 \in i + 1..n /\ r[j - 1] = q[j]
    BY <1>1
  <2> QED
    BY <2>1, <2>2
<1>3. (\A j \in 1 + 1..n + 1 : q[j] \notin A) <=> (\A i \in 1..n : r[i] \notin A)
  <2>1. \A j \in 1..n : j + 1 \in 1 + 1..n + 1 /\ r[j] = q[j + 1]
    BY <1>1
  <2>2. \A j \in 1 + 1..n + 1 : j - 1 \in 1..n /\ r[j - 1] = q[j]
    BY <1>1
  <2> QED
    BY <2>1, <2>2
<1>4. (\A i \in 1..n + 1 : q[i] \notin A) <=> h \notin A /\ \A i \in 1..n : r[i] \notin A
  BY <1>1
<1>5. (\E i \in 1..n + 1 : q[i] \in T /\ \A j \in i + 1..n + 1 : q[j] \notin A)
        <=> \/ \E i \in 1..n : r[i] \in T /\ \A j \in i + 1..n : r[j] \notin A
            \/ h \in T /\ \A i \in 1..n : r[i] \notin A
  <2>1. ASSUME NEW i \in 1..n + 1, q[i] \in T, \A j \in i + 1..n + 1 : q[j] \notin A
        PROVE  \/ \E k \in 1..n : r[k] \in T /\ \A j \in k + 1..n : r[j] \notin A
               \/ h \in T /\ \A k \in 1..n : r[k] \notin A
    <3>1. CASE i = 1
      BY <1>1, <1>3, <2>1, <3>1
    <3>2. CASE i # 1
      <4>1. i - 1 \in 1..n /\ r[i - 1] = q[i] /\ (i - 1) + 1 = i
        BY <1>1, <3>2
      <4> QED
        BY <1>2, <2>1, <4>1
    <3> QED
      BY <3>1, <3>2
  <2>2. ASSUME NEW i \in 1..n, r[i] \in T, \A j \in i + 1..n : r[j] \notin A
        PROVE  \E k \in 1..n + 1 : q[k] \in T /\ \A j \in k + 1..n + 1 : q[j] \notin A
    BY <1>1, <1>2, <2>2
  <2>3. ASSUME h \in T, \A i \in 1..n : r[i] \notin A
        PROVE  \E k \in 1..n + 1 : q[k] \in T /\ \A j \in k + 1..n + 1 : q[j] \notin A
    BY <1>1, <1>3, <2>3
  <2> QED
    BY <2>1, <2>2, <2>3
<1>6. After(A, T, b, q) <=> After(A, T, Put(A, T, b, Head(q)), Tail(q))
  BY <1>1, <1>4, <1>5 DEF After, Put, r, n, h
<1>7. Put(A, T, b, Head(q)) \in BOOLEAN
  BY Answers
<1>8. After(A, T, b, q) \in BOOLEAN /\ After(A, T, Put(A, T, b, Head(q)), Tail(q)) \in BOOLEAN
  BY <1>7, Answers
<1> QED
  BY <1>6, <1>8

\* A question none of the events bears on keeps its answer.
LEMMA AfterOthers ==
  ASSUME NEW A, NEW T \in SUBSET A, NEW b \in BOOLEAN, NEW S, NEW q \in Seq(S),
         \A i \in 1..Len(q) : q[i] \notin A
  PROVE  After(A, T, b, q) = b
<1>1. After(A, T, b, q) <=> b
  BY DEF After
<1>2. After(A, T, b, q) \in BOOLEAN
  BY Answers
<1> QED
  BY <1>1, <1>2

\* The answer once all that is under way has arrived: in the socket (w), in the
\* pump's hand (h), in the queue (q), in the slot (s), in the window's hands (t).
InHand(A, T, b, h) == IF h = Nothing THEN b ELSE Put(A, T, b, h)
InSlot(A, T, b, s) == IF s = NoPosition THEN b ELSE Put(A, T, b, MoveEvent(s))
Taken(A, T, b, w, h) == InHand(A, T, After(A, T, b, w), h)
Sent(A, T, b, w, h, q) == After(A, T, Taken(A, T, b, w, h), q)
Arrives(A, T, b, w, h, q, s, t) == After(A, T, InSlot(A, T, Sent(A, T, b, w, h, q), s), t)

\* The answer at every stage is a Boolean.
LEMMA Answered ==
  ASSUME NEW A, NEW T \in SUBSET A, NEW b \in BOOLEAN, NEW w, NEW h, NEW q, NEW s
  PROVE  /\ After(A, T, b, w) \in BOOLEAN
         /\ Taken(A, T, b, w, h) \in BOOLEAN
         /\ Sent(A, T, b, w, h, q) \in BOOLEAN
         /\ InSlot(A, T, Sent(A, T, b, w, h, q), s) \in BOOLEAN
<1>1. After(A, T, b, w) \in BOOLEAN
  BY Answers
<1>2. Taken(A, T, b, w, h) \in BOOLEAN
  BY <1>1, Answers DEF Taken, InHand
<1>3. Sent(A, T, b, w, h, q) \in BOOLEAN
  BY <1>2, Answers DEF Sent
<1> QED
  BY <1>1, <1>2, <1>3, Answers DEF InSlot

\* The host takes a record from the socket.
LEMMA Served ==
  ASSUME NEW A, NEW T \in SUBSET A, NEW b \in BOOLEAN, NEW w \in Seq(Event), w # <<>>,
         NEW h, NEW q, NEW s, NEW t
  PROVE  Arrives(A, T, Put(A, T, b, Head(w)), Tail(w), h, q, s, t) = Arrives(A, T, b, w, h, q, s, t)
<1>1. After(A, T, Put(A, T, b, Head(w)), Tail(w)) = After(A, T, b, w)
  BY AfterTail, Answers
<1> QED
  BY <1>1 DEF Arrives, Sent, Taken

\* The pump writes what it holds.
LEMMA Written ==
  ASSUME NEW A, NEW T \in SUBSET A, NEW b \in BOOLEAN, NEW w \in Seq(Event),
         NEW h \in Event, NEW q, NEW s, NEW t
  PROVE  Arrives(A, T, b, Append(w, h), Nothing, q, s, t) = Arrives(A, T, b, w, h, q, s, t)
<1>1. After(A, T, b, Append(w, h)) = Put(A, T, After(A, T, b, w), h)
  BY AfterAppend, Answers
<1>2. h # Nothing
  BY Kinds
<1> QED
  BY <1>1, <1>2 DEF Arrives, Sent, Taken, InHand

\* The pump takes the oldest event of the queue.
LEMMA Dequeued ==
  ASSUME NEW A, NEW T \in SUBSET A, NEW b \in BOOLEAN, NEW w, NEW q \in Seq(Reliable), q # <<>>,
         NEW s, NEW t
  PROVE  Arrives(A, T, b, w, Head(q), Tail(q), s, t) = Arrives(A, T, b, w, Nothing, q, s, t)
<1> DEFINE x == After(A, T, b, w)
<1>1. x \in BOOLEAN
  BY Answered
<1>2. Head(q) # Nothing
  BY SequenceFacts, Kinds
<1>3. After(A, T, Put(A, T, x, Head(q)), Tail(q)) = After(A, T, x, q)
  BY <1>1, AfterTail, Answers
<1> QED
  BY <1>2, <1>3 DEF Arrives, Sent, Taken, InHand

\* The pump takes the latest position, which is newer than anything in the queue.
LEMMA SlotTaken ==
  ASSUME NEW A, NEW T \in SUBSET A, NEW b \in BOOLEAN, NEW w, NEW q \in Seq(Reliable),
         NEW s \in Positions, NEW t,
         MoveEvent(s) \in A => \A i \in 1..Len(q) : q[i] \notin A
  PROVE  Arrives(A, T, b, w, MoveEvent(s), q, NoPosition, t) = Arrives(A, T, b, w, Nothing, q, s, t)
<1> DEFINE x == After(A, T, b, w)
           e == MoveEvent(s)
<1>1. x \in BOOLEAN
  BY Answered
<1>2. e # Nothing /\ s # NoPosition
  BY Kinds, Numbers
<1>3. After(A, T, Put(A, T, x, e), q) = Put(A, T, After(A, T, x, q), e)
  <2>0. Put(A, T, x, e) \in BOOLEAN
    BY <1>1, Answers
  <2>1. CASE e \notin A
    BY <1>1, <2>1, Answers DEF Put
  <2>2. CASE e \in A
    <3>1. \A i \in 1..Len(q) : q[i] \notin A
      BY <2>2
    <3>2. After(A, T, Put(A, T, x, e), q) = Put(A, T, x, e)
      BY <2>0, <3>1, AfterOthers, Answers
    <3>3. After(A, T, x, q) = x
      BY <1>1, <3>1, AfterOthers, Answers
    <3> QED
      BY <3>2, <3>3
  <2> QED
    BY <2>1, <2>2
<1> QED
  BY <1>2, <1>3 DEF Arrives, Sent, Taken, InHand, InSlot

\* The window queues an event behind an empty slot, or one no position bears on.
LEMMA Queued ==
  ASSUME NEW A, NEW T \in SUBSET A, NEW b \in BOOLEAN, NEW w, NEW h, NEW q \in Seq(Reliable),
         NEW s, NEW t \in Seq(Event), t # <<>>, Head(t) \in Reliable,
         s = NoPosition \/ MoveEvent(s) \notin A \/ Head(t) \notin A
  PROVE  Arrives(A, T, b, w, h, Append(q, Head(t)), s, Tail(t)) = Arrives(A, T, b, w, h, q, s, t)
<1> DEFINE x == Sent(A, T, b, w, h, q)
           y == Taken(A, T, b, w, h)
           e == Head(t)
<1>1. x \in BOOLEAN /\ y \in BOOLEAN /\ InSlot(A, T, x, s) \in BOOLEAN
  BY Answered
<1>2. Sent(A, T, b, w, h, Append(q, e)) = Put(A, T, x, e)
  BY <1>1, AfterAppend, Answers DEF Sent
<1>3. After(A, T, InSlot(A, T, x, s), t) = After(A, T, Put(A, T, InSlot(A, T, x, s), e), Tail(t))
  BY <1>1, AfterTail, Answers
<1>4. InSlot(A, T, Put(A, T, x, e), s) = Put(A, T, InSlot(A, T, x, s), e)
  BY <1>1 DEF InSlot, Put
<1> QED
  BY <1>2, <1>3, <1>4 DEF Arrives

\* The window replaces the latest position.
LEMMA SlotSet ==
  ASSUME NEW A, NEW T \in SUBSET A, NEW b \in BOOLEAN, NEW w, NEW h, NEW q,
         NEW s, NEW p \in Positions, NEW t \in Seq(Event), t # <<>>, Head(t) = MoveEvent(p),
         s = NoPosition \/ MoveEvent(p) \in A \/ MoveEvent(s) \notin A
  PROVE  Arrives(A, T, b, w, h, q, p, Tail(t)) = Arrives(A, T, b, w, h, q, s, t)
<1> DEFINE x == Sent(A, T, b, w, h, q)
           e == Head(t)
<1>1. x \in BOOLEAN /\ InSlot(A, T, x, s) \in BOOLEAN
  BY Answered
<1>2. After(A, T, InSlot(A, T, x, s), t) = After(A, T, Put(A, T, InSlot(A, T, x, s), e), Tail(t))
  BY <1>1, AfterTail, Answers
<1>3. InSlot(A, T, x, p) = Put(A, T, InSlot(A, T, x, s), e)
  BY <1>1, Numbers DEF InSlot, Put
<1> QED
  BY <1>2, <1>3 DEF Arrives

\* A button event drops the latest position before it is queued.
LEMMA SlotCleared ==
  ASSUME NEW A, NEW T \in SUBSET A, NEW b \in BOOLEAN, NEW w, NEW h, NEW q,
         NEW s, NEW t \in Seq(Event), t # <<>>, Head(t) \in A \/ MoveEvent(s) \notin A
  PROVE  Arrives(A, T, b, w, h, q, NoPosition, t) = Arrives(A, T, b, w, h, q, s, t)
<1> DEFINE x == Sent(A, T, b, w, h, q)
           e == Head(t)
<1>1. x \in BOOLEAN /\ InSlot(A, T, x, s) \in BOOLEAN
  BY Answered
<1>2. After(A, T, InSlot(A, T, x, s), t) = After(A, T, Put(A, T, InSlot(A, T, x, s), e), Tail(t))
  BY <1>1, AfterTail, Answers
<1>3. After(A, T, x, t) = After(A, T, Put(A, T, x, e), Tail(t))
  BY <1>1, AfterTail, Answers
<1>4. Put(A, T, InSlot(A, T, x, s), e) = Put(A, T, x, e)
  BY <1>1 DEF InSlot, Put
<1> QED
  BY <1>2, <1>3, <1>4 DEF Arrives, InSlot

-----------------------------------------------------------------------------
(* Steps that leave the answer alone: what the window queues, the pump     *)
(* takes and the socket passes on arrives unchanged.                       *)

\* Events still in the window's hands: the first is already queued once the bell is due.
Ahead == IF sending = "ring" THEN Tail(todo) ELSE todo

\* A question every position bears on and no key does, or only keys do.
Bears(A) ==
  \/ \A e \in Event : e \in A <=> e.kind # "key"
  \/ \A e \in Event : e \in A => e.kind = "key"

\* What the window's thread does to the queue and the slot changes nothing of what will arrive.
\* This is where queue_input_event's clearing of the slot before a click is needed: without it
\* the older position would arrive after the click.
LEMMA QueueArrives ==
  ASSUME InputTyped, QueueEvent, ~Ended,
         NEW A, NEW T \in SUBSET A, NEW b \in BOOLEAN, Bears(A)
  PROVE  Arrives(A, T, b, wire', pump'.event, queue', latest', Ahead')
           = Arrives(A, T, b, wire, pump.event, queue, latest, Ahead)
<1> DEFINE e == Head(todo)
           h == pump.event
<1>0. /\ todo \in Seq(Event) /\ todo # <<>> /\ queue \in Seq(Reliable)
      /\ e \in Event /\ latest \in Position
      /\ sending = "send" => latest = NoPosition
  BY SequenceFacts DEF InputTyped, WindowTyped, QueueEvent
<1>1. QueueOutcome /\ UNCHANGED <<wire, pump>>
  BY QueueOutcomes DEF QueueEvent, hostVars
<1>2. e.kind \in {"key", "button"} => e \in Reliable
  BY <1>0, Kinds
<1>3. \A p \in Positions : MoveEvent(p) \in Event /\ MoveEvent(p).kind = "move"
  BY Kinds DEF MoveEvent
<1>4. CASE /\ sending = "clear" /\ e.kind = "button"
           /\ latest' = NoPosition /\ sending' = "send"
           /\ UNCHANGED <<todo, window, queue, bell, overtaken>>
  <2>1. Ahead = todo /\ Ahead' = todo
    BY <1>4 DEF Ahead
  <2>2. CASE latest = NoPosition
    BY <1>1, <1>4, <2>1, <2>2
  <2>3. CASE latest \in Positions
    <3>1. e \in A \/ MoveEvent(latest) \notin A
      BY <1>0, <1>3, <1>4, <2>3 DEF Bears
    <3>2. Arrives(A, T, b, wire, h, queue, NoPosition, todo) = Arrives(A, T, b, wire, h, queue, latest, todo)
      BY <1>0, <3>1, SlotCleared
    <3> QED
      BY <1>1, <1>4, <2>1, <3>2
  <2> QED
    BY <1>0, <2>2, <2>3 DEF Position
<1>5. CASE /\ sending = "ring"
           /\ bell' = TRUE /\ sending' = "clear" /\ todo' = Tail(todo)
           /\ UNCHANGED <<window, queue, latest, overtaken>>
  <2>1. Ahead = Tail(todo) /\ Ahead' = Tail(todo)
    BY <1>5 DEF Ahead
  <2> QED
    BY <1>1, <1>5, <2>1
<1>6. CASE /\ sending = "clear" /\ e.kind = "move" /\ receiver_alive
           /\ latest' = e.at /\ sending' = "ring"
           /\ UNCHANGED <<todo, window, queue, bell, overtaken>>
  <2>1. Ahead = todo /\ Ahead' = Tail(todo)
    BY <1>6 DEF Ahead
  <2>2. e.at \in Positions /\ e = MoveEvent(e.at)
    BY <1>0, <1>6 DEF Event, Reliable, MoveEvent
  <2>3. latest = NoPosition \/ e \in A \/ MoveEvent(latest) \notin A
    BY <1>0, <1>3, <1>6 DEF Bears, Position
  <2>4. Arrives(A, T, b, wire, h, queue, e.at, Tail(todo)) = Arrives(A, T, b, wire, h, queue, latest, todo)
    BY <1>0, <2>2, <2>3, SlotSet
  <2> QED
    BY <1>1, <1>6, <2>1, <2>4
<1>7. CASE /\ \/ sending = "send" /\ e.kind = "button"
              \/ sending = "clear" /\ e.kind = "key"
           /\ queue' = Append(queue, e) /\ sending' = "ring"
           /\ UNCHANGED <<todo, window, latest, bell>>
  <2>1. Ahead = todo /\ Ahead' = Tail(todo)
    BY <1>7 DEF Ahead
  <2>2. latest = NoPosition \/ MoveEvent(latest) \notin A \/ e \notin A
    BY <1>0, <1>3, <1>7 DEF Bears, Position
  <2>3. Arrives(A, T, b, wire, h, Append(queue, e), latest, Tail(todo))
          = Arrives(A, T, b, wire, h, queue, latest, todo)
    BY <1>0, <1>2, <1>7, <2>2, Queued
  <2> QED
    BY <1>1, <1>7, <2>1, <2>3
<1> QED
  BY <1>1, <1>4, <1>5, <1>6, <1>7 DEF QueueOutcome

\* Neither does what native-input takes and writes, provided it takes a position only when
\* nothing that bears on the question waits in the queue.
LEMMA PumpArrives ==
  ASSUME InputTyped, PumpStep, ~Ended',
         NEW A, NEW T \in SUBSET A, NEW b \in BOOLEAN,
         pump.at = "latest" /\ latest # NoPosition /\ MoveEvent(latest) \in A
           => \A i \in 1..Len(queue) : queue[i] \notin A
  PROVE  Arrives(A, T, b, wire', pump'.event, queue', latest', Ahead')
           = Arrives(A, T, b, wire, pump.event, queue, latest, Ahead)
<1>0. /\ wire \in Seq(Event) /\ queue \in Seq(Reliable) /\ latest \in Position
      /\ pump \in PumpRec
      /\ pump.at \in {"top", "wait", "drain", "recv", "latest"} => pump.event = Nothing
      /\ pump.at = "write" => pump.event \in Event
  BY DEF InputTyped, PumpTyped, WindowTyped
<1>1. PumpOutcome /\ UNCHANGED <<todo, sending>>
  BY PumpOutcomes
<1>2. Ahead' = Ahead
  BY <1>1 DEF Ahead
<1>3. CASE pump'.event = pump.event /\ UNCHANGED <<wire, queue, latest>>
  BY <1>2, <1>3
<1>4. CASE /\ pump.at = "recv" /\ queue # <<>> /\ queue' = Tail(queue)
           /\ pump'.event = Head(queue) /\ UNCHANGED <<wire, latest>>
  <2>1. Arrives(A, T, b, wire, Head(queue), Tail(queue), latest, Ahead)
          = Arrives(A, T, b, wire, Nothing, queue, latest, Ahead)
    BY <1>0, <1>4, Dequeued
  <2> QED
    BY <1>0, <1>2, <1>4, <2>1
<1>5. CASE /\ pump.at = "latest" /\ latest # NoPosition /\ latest' = NoPosition
           /\ pump'.event = MoveEvent(latest) /\ UNCHANGED <<wire, queue>>
  <2>0. latest \in Positions
    BY <1>0, <1>5 DEF Position
  <2>1. Arrives(A, T, b, wire, MoveEvent(latest), queue, NoPosition, Ahead)
          = Arrives(A, T, b, wire, Nothing, queue, latest, Ahead)
    BY <1>0, <1>5, <2>0, SlotTaken
  <2> QED
    BY <1>0, <1>2, <1>5, <2>1
<1>6. CASE /\ pump.at = "write" /\ wire' = Append(wire, pump.event)
           /\ pump'.event = Nothing /\ UNCHANGED <<queue, latest>>
  <2>1. Arrives(A, T, b, Append(wire, pump.event), Nothing, queue, latest, Ahead)
          = Arrives(A, T, b, wire, pump.event, queue, latest, Ahead)
    BY <1>0, <1>6, Written
  <2> QED
    BY <1>2, <1>6, <2>1
<1> QED
  BY <1>0, <1>1, <1>3, <1>4, <1>5, <1>6 DEF PumpOutcome, PumpRec, sharedVars, Ended

\* A record the host serves moves from the socket into the answer.
LEMMA ServeArrives ==
  ASSUME InputTyped, HostServes, UNCHANGED <<sharedVars, pump, todo, sending>>,
         NEW A, NEW T \in SUBSET A, NEW b \in BOOLEAN
  PROVE  /\ Head(wire) \in Event
         /\ Arrives(A, T, Put(A, T, b, Head(wire)), wire', pump'.event, queue', latest', Ahead')
              = Arrives(A, T, b, wire, pump.event, queue, latest, Ahead)
<1>1. wire \in Seq(Event) /\ wire # <<>> /\ wire' = Tail(wire) /\ Head(wire) \in Event
  BY SequenceFacts DEF InputTyped, PumpTyped, HostServes
<1>2. Ahead' = Ahead
  BY DEF Ahead
<1>3. Arrives(A, T, Put(A, T, b, Head(wire)), Tail(wire), pump.event, queue, latest, Ahead)
        = Arrives(A, T, b, wire, pump.event, queue, latest, Ahead)
  BY <1>1, Served
<1> QED
  BY <1>1, <1>2, <1>3 DEF sharedVars

\* A new event of the user's comes after all that is under way.
LEMMA UserArrives ==
  ASSUME User, InputTyped, InputTyped',
         NEW A, NEW T \in SUBSET A, NEW b \in BOOLEAN
  PROVE  /\ Ahead' = todo'
         /\ Arrives(A, T, b, wire, pump.event, queue, latest, Ahead) \in BOOLEAN
         /\ Arrives(A, T, b, wire', pump'.event, queue', latest', Ahead')
              = After(A, T, Arrives(A, T, b, wire, pump.event, queue, latest, Ahead), todo')
<1>1. todo = <<>> /\ sending = "clear" /\ UNCHANGED <<sending, wire, pump, queue, latest>>
  BY DEF User, InputTyped, WindowTyped, sharedVars, hostVars
<1>2. Ahead = <<>> /\ Ahead' = todo'
  BY <1>1 DEF Ahead
<1> DEFINE y == InSlot(A, T, Sent(A, T, b, wire, pump.event, queue), latest)
<1>3. y \in BOOLEAN
  BY Answered
<1>4. After(A, T, y, <<>>) = y
  <2>1. After(A, T, y, <<>>) <=> y
    BY <1>3, AfterNone
  <2>2. After(A, T, y, <<>>) \in BOOLEAN
    BY <1>3, Answers
  <2> QED
    BY <1>3, <2>1, <2>2
<1> QED
  BY <1>1, <1>2, <1>3, <1>4 DEF Arrives

-----------------------------------------------------------------------------
(* Keys: the host follows the window's ledger.                             *)

KeyOf(k) == {KeyEvent(k, TRUE), KeyEvent(k, FALSE)}
DownOf(k) == {KeyEvent(k, TRUE)}

\* Once all that is under way has arrived, a key is down exactly when the
\* window's ledger says so.
KeysInv ==
  ~Ended /\ host = "serving" =>
    \A k \in Keys \ lost :
      Arrives(KeyOf(k), DownOf(k), k \in down, wire, pump.event, queue, latest, Ahead) <=> k \in ledger

\* A key's state is decided by its own two events only.
LEMMA KeyQuestion ==
  ASSUME NEW k \in Keys
  PROVE  /\ DownOf(k) \in SUBSET KeyOf(k) /\ (k \in down) \in BOOLEAN /\ Bears(KeyOf(k))
         /\ \A e : e.kind # "key" => e \notin KeyOf(k)
         /\ \A p : MoveEvent(p) \notin KeyOf(k) /\ ButtonEvent(p) \notin KeyOf(k)
         /\ \A n \in Keys : /\ KeyEvent(n, TRUE) \in KeyOf(k) <=> n = k
                            /\ KeyEvent(n, FALSE) \in KeyOf(k) <=> n = k
                            /\ KeyEvent(n, TRUE) \in DownOf(k) <=> n = k
                            /\ KeyEvent(n, FALSE) \notin DownOf(k)
<1>1. \A e : e.kind # "key" => e \notin KeyOf(k)
  BY DEF KeyOf, KeyEvent
<1>2. \A p : MoveEvent(p) \notin KeyOf(k) /\ ButtonEvent(p) \notin KeyOf(k)
  <2>1. \A p : MoveEvent(p).kind = "move" /\ ButtonEvent(p).kind = "button"
    BY DEF MoveEvent, ButtonEvent
  <2> QED
    BY <1>1, <2>1
<1>3. ASSUME NEW n \in Keys
      PROVE  /\ KeyEvent(n, TRUE) \in KeyOf(k) <=> n = k
             /\ KeyEvent(n, FALSE) \in KeyOf(k) <=> n = k
             /\ KeyEvent(n, TRUE) \in DownOf(k) <=> n = k
             /\ KeyEvent(n, FALSE) \notin DownOf(k)
  <2>1. /\ KeyEvent(n, TRUE).key = n /\ KeyEvent(n, FALSE).key = n
        /\ KeyEvent(k, TRUE).key = k /\ KeyEvent(k, FALSE).key = k
    BY DEF KeyEvent
  <2>2. KeyEvent(n, FALSE) # KeyEvent(k, TRUE)
    <3>1. KeyEvent(n, FALSE).down = FALSE /\ KeyEvent(k, TRUE).down = TRUE
      BY DEF KeyEvent
    <3> QED
      BY <3>1
  <2> QED
    BY <2>1, <2>2 DEF KeyOf, DownOf
<1>4. (k \in down) \in BOOLEAN /\ DownOf(k) \in SUBSET KeyOf(k)
  BY DEF DownOf, KeyOf
<1>5. Bears(KeyOf(k))
  BY <1>1 DEF Bears
<1> QED
  BY <1>1, <1>2, <1>3, <1>4, <1>5

\* The window's handler queues what its ledger records: press, release and loss of focus.
LEMMA KeysUser ==
  ASSUME InputTyped, InputTyped', KeysInv,
         \/ \E k \in Keys : Press(k) \/ Release(k)
         \/ LoseFocus \/ GainFocus \/ Click
         \/ \E p \in Positions : MovePointer(p)
  PROVE  KeysInv'
<1>1. User /\ UNCHANGED <<pump, host, down, lost>>
  BY DEF Press, Release, LoseFocus, GainFocus, Click, MovePointer, User, hostVars
<1>2. SUFFICES ASSUME ~Ended, host = "serving", NEW k \in Keys \ lost
               PROVE  Arrives(KeyOf(k), DownOf(k), k \in down, wire', pump'.event, queue', latest', Ahead')
                        <=> k \in ledger'
  BY <1>1 DEF KeysInv, Ended
<1> DEFINE x == Arrives(KeyOf(k), DownOf(k), k \in down, wire, pump.event, queue, latest, Ahead)
<1>3. x <=> k \in ledger
  BY <1>2 DEF KeysInv
<1>4. /\ x \in BOOLEAN
      /\ Arrives(KeyOf(k), DownOf(k), k \in down, wire', pump'.event, queue', latest', Ahead')
           = After(KeyOf(k), DownOf(k), x, todo')
  BY <1>1, KeyQuestion, UserArrives
<1> HIDE DEF x
<1> SUFFICES After(KeyOf(k), DownOf(k), x, todo') <=> k \in ledger'
  BY <1>4
<1>5. /\ After(KeyOf(k), DownOf(k), x, <<>>) <=> x
      /\ \A e : After(KeyOf(k), DownOf(k), x, <<e>>) <=> Put(KeyOf(k), DownOf(k), x, e)
  BY <1>4, AfterNone, AfterOne
<1>6. ASSUME NEW n \in Keys, Press(n) PROVE After(KeyOf(k), DownOf(k), x, todo') <=> k \in ledger'
  <2>1. todo' = <<KeyEvent(n, TRUE)>> /\ ledger' = ledger \cup {n}
    BY <1>6 DEF Press
  <2>2. /\ KeyEvent(n, TRUE) \in KeyOf(k) <=> n = k
        /\ KeyEvent(n, TRUE) \in DownOf(k) <=> n = k
    BY KeyQuestion
  <2>3. Put(KeyOf(k), DownOf(k), x, KeyEvent(n, TRUE)) <=> k \in ledger'
    BY <1>3, <2>1, <2>2 DEF Put
  <2> QED
    BY <1>5, <2>1, <2>3
<1>7. ASSUME NEW n \in Keys, Release(n) PROVE After(KeyOf(k), DownOf(k), x, todo') <=> k \in ledger'
  <2>1. todo = <<>>
    BY <1>1 DEF User
  <2>2. CASE focused /\ n \in ledger
    <3>1. todo' = <<KeyEvent(n, FALSE)>> /\ ledger' = ledger \ {n}
      BY <1>7, <2>2 DEF Release, Forwarded
    <3>2. /\ KeyEvent(n, FALSE) \in KeyOf(k) <=> n = k
          /\ KeyEvent(n, FALSE) \notin DownOf(k)
      BY KeyQuestion
    <3>3. Put(KeyOf(k), DownOf(k), x, KeyEvent(n, FALSE)) <=> k \in ledger'
      BY <1>3, <3>1, <3>2 DEF Put
    <3> QED
      BY <1>5, <3>1, <3>3
  <2>3. CASE focused /\ n \notin ledger
    BY <1>3, <1>5, <1>7, <2>3 DEF Release, Forwarded
  <2>4. CASE ~focused
    BY <1>3, <1>5, <1>7, <2>1, <2>4 DEF Release
  <2> QED
    BY <2>2, <2>3, <2>4
<1>8. CASE LoseFocus
  <2>1. /\ Releases \in Seq(Event)
        /\ \A i \in 1..Len(Releases) : \E n \in ledger : Releases[i] = KeyEvent(n, FALSE)
        /\ \A n \in ledger : \E i \in 1..Len(Releases) : Releases[i] = KeyEvent(n, FALSE)
    BY ReleasesListed DEF InputTyped, WindowTyped
  <2>2. ledger \subseteq Keys /\ todo' = Releases /\ ledger' = {}
    BY <1>8 DEF LoseFocus, InputTyped, WindowTyped
  <2>0. /\ \A n \in Keys : KeyEvent(n, FALSE) \notin DownOf(k)
        /\ \A n \in Keys : KeyEvent(n, FALSE) \in KeyOf(k) <=> n = k
    BY KeyQuestion
  <2>3. \A i \in 1..Len(Releases) : Releases[i] \notin DownOf(k)
    BY <2>0, <2>1, <2>2
  <2>4. CASE k \in ledger
    <3>1. \E i \in 1..Len(Releases) : Releases[i] \in KeyOf(k)
      BY <2>0, <2>1, <2>2, <2>4
    <3> QED
      BY <2>2, <2>3, <3>1 DEF After
  <2>5. CASE k \notin ledger
    <3>1. \A i \in 1..Len(Releases) : Releases[i] \notin KeyOf(k)
      BY <2>0, <2>1, <2>2, <2>5
    <3> QED
      BY <1>3, <2>2, <2>3, <2>5, <3>1 DEF After
  <2> QED
    BY <2>4, <2>5
<1>9. CASE GainFocus
  BY <1>1, <1>3, <1>5, <1>9 DEF GainFocus, User
<1>10. CASE Click
  <2>1. todo' = <<ButtonEvent(cursor)>> /\ ledger' = ledger
    BY <1>10 DEF Click
  <2>2. ButtonEvent(cursor) \notin KeyOf(k) /\ ButtonEvent(cursor) \notin DownOf(k)
    BY KeyQuestion
  <2>3. Put(KeyOf(k), DownOf(k), x, ButtonEvent(cursor)) <=> x
    BY <1>4, <2>2 DEF Put
  <2> QED
    BY <1>3, <1>5, <2>1, <2>3
<1>11. ASSUME NEW p \in Positions, MovePointer(p)
       PROVE  After(KeyOf(k), DownOf(k), x, todo') <=> k \in ledger'
  <2>1. todo' = <<MoveEvent(p)>> /\ ledger' = ledger
    BY <1>11 DEF MovePointer
  <2>2. MoveEvent(p) \notin KeyOf(k) /\ MoveEvent(p) \notin DownOf(k)
    BY KeyQuestion
  <2>3. Put(KeyOf(k), DownOf(k), x, MoveEvent(p)) <=> x
    BY <1>4, <2>2 DEF Put
  <2> QED
    BY <1>3, <1>5, <2>1, <2>3
<1> QED
  BY <1>6, <1>7, <1>8, <1>9, <1>10, <1>11

\* A record the host injects moves the key as it says, or the key is lost.
LEMMA KeysHost ==
  ASSUME InputTyped, KeysInv, HostStep \/ SwitchDesktop
  PROVE  KeysInv'
<1>1. UNCHANGED <<sharedVars, pump, todo, sending, ledger>>
  BY DEF HostStep, SwitchDesktop, windowVars
<1>2. Ahead' = Ahead
  BY <1>1 DEF Ahead
<1>3. CASE SwitchDesktop
  BY <1>1, <1>2, <1>3 DEF SwitchDesktop, KeysInv, sharedVars, Ended
<1>4. CASE HostEnds
  BY <1>4 DEF HostEnds, KeysInv
<1>5. CASE HostServes
  <2>1. PICK outcome : IF Head(wire).kind = "key" THEN InjectKey(Head(wire), outcome)
                       ELSE InjectPosition(Head(wire), outcome)
    BY <1>5 DEF HostServes
  <2>2. Head(wire) \in Event /\ lost \subseteq lost' /\ host' = host
    BY <1>1, <1>5, <2>1, SequenceFacts DEF HostServes, InjectKey, InjectPosition, InputTyped, PumpTyped
  <2>3. SUFFICES ASSUME ~Ended, host = "serving", NEW k \in Keys \ lost'
                 PROVE  Arrives(KeyOf(k), DownOf(k), k \in down', wire', pump'.event, queue', latest', Ahead')
                          <=> k \in ledger'
    BY <1>1, <2>2 DEF KeysInv, Ended
  <2>4. k \in Keys \ lost
    BY <2>2, <2>3
  <2>5. (k \in down') = Put(KeyOf(k), DownOf(k), k \in down, Head(wire))
    <3>1. CASE Head(wire).kind = "key"
      <4>1. Head(wire).key \in Keys /\ Head(wire).down \in BOOLEAN
            /\ Head(wire) = KeyEvent(Head(wire).key, Head(wire).down)
        BY <2>2, <3>1 DEF Event, Reliable, KeyEvent
      <4>2. CASE Head(wire).key = k
        <5>1. down' = With(down, k, Head(wire).down)
          BY <2>1, <2>3, <3>1, <4>2 DEF InjectKey
        <5>2. (k \in down') = Head(wire).down
          BY <4>1, <5>1 DEF With
        <5>3. Put(KeyOf(k), DownOf(k), k \in down, Head(wire)) = Head(wire).down
          <6>1. /\ KeyEvent(k, TRUE) \in DownOf(k) /\ KeyEvent(k, FALSE) \in KeyOf(k)
                /\ KeyEvent(k, FALSE) \notin DownOf(k)
            BY <2>4, KeyQuestion
          <6>2. CASE Head(wire).down = TRUE
            BY <4>1, <4>2, <6>1, <6>2 DEF Put
          <6>3. CASE Head(wire).down = FALSE
            BY <4>1, <4>2, <6>1, <6>3 DEF Put
          <6> QED
            BY <4>1, <6>2, <6>3
        <5> QED
          BY <5>2, <5>3
      <4>3. CASE Head(wire).key # k
        <5>1. (k \in down') = (k \in down)
          BY <2>1, <3>1, <4>3 DEF InjectKey, With
        <5>2. Put(KeyOf(k), DownOf(k), k \in down, Head(wire)) = (k \in down)
          <6>1. Head(wire) \notin KeyOf(k)
            <7>1. /\ KeyEvent(k, TRUE).key = k /\ KeyEvent(k, FALSE).key = k
              BY DEF KeyEvent
            <7> QED
              BY <4>3, <7>1 DEF KeyOf
          <6>2. Head(wire) \notin DownOf(k)
            BY <6>1 DEF KeyOf, DownOf
          <6> QED
            BY <6>1, <6>2 DEF Put
        <5> QED
          BY <5>1, <5>2
      <4> QED
        BY <4>2, <4>3
    <3>2. CASE Head(wire).kind # "key"
      <4>1. down' = down
        BY <2>1, <3>2 DEF InjectPosition
      <4>2. Head(wire) \notin KeyOf(k)
        BY <3>2 DEF KeyOf, KeyEvent
      <4>3. Put(KeyOf(k), DownOf(k), k \in down, Head(wire)) = (k \in down)
        <5>1. Head(wire) \notin DownOf(k)
          BY <4>2 DEF KeyOf, DownOf
        <5> QED
          BY <4>2, <5>1 DEF Put
      <4> QED
        BY <4>1, <4>3
    <3> QED
      BY <3>1, <3>2
  <2>6. Arrives(KeyOf(k), DownOf(k), Put(KeyOf(k), DownOf(k), k \in down, Head(wire)),
                wire', pump'.event, queue', latest', Ahead')
          = Arrives(KeyOf(k), DownOf(k), k \in down, wire, pump.event, queue, latest, Ahead)
    BY <1>1, <1>5, <2>4, KeyQuestion, ServeArrives
  <2> QED
    BY <1>1, <2>3, <2>4, <2>5, <2>6 DEF KeysInv
<1> QED
  BY <1>3, <1>4, <1>5 DEF HostStep

\* Every step of the input path keeps the keys' invariant.
LEMMA KeysStep ==
  ASSUME InputTyped, InputTyped', KeysInv, InputStep
  PROVE  KeysInv'
<1>1. CASE QueueEvent
  <2>1. UNCHANGED <<pump, host, down, lost, ledger>>
    BY <1>1 DEF QueueEvent, hostVars
  <2>2. SUFFICES ASSUME ~Ended, host = "serving", NEW k \in Keys \ lost
                 PROVE  Arrives(KeyOf(k), DownOf(k), k \in down, wire', pump'.event, queue', latest', Ahead')
                          <=> k \in ledger
    BY <2>1 DEF KeysInv, Ended
  <2>3. Arrives(KeyOf(k), DownOf(k), k \in down, wire', pump'.event, queue', latest', Ahead')
          = Arrives(KeyOf(k), DownOf(k), k \in down, wire, pump.event, queue, latest, Ahead)
    BY <1>1, <2>2, KeyQuestion, QueueArrives
  <2> QED
    BY <2>2, <2>3 DEF KeysInv
<1>2. CASE PumpStep
  <2>1. UNCHANGED <<host, down, lost, ledger>>
    BY <1>2, PumpOutcomes
  <2>2. SUFFICES ASSUME ~Ended', host = "serving", NEW k \in Keys \ lost
                 PROVE  Arrives(KeyOf(k), DownOf(k), k \in down, wire', pump'.event, queue', latest', Ahead')
                          <=> k \in ledger
    BY <2>1 DEF KeysInv
  <2>3. ~Ended
    BY <1>2, <2>2, PumpOutcomes DEF PumpOutcome, Ended, InputTyped, PumpTyped, PumpRec
  <2>4. Arrives(KeyOf(k), DownOf(k), k \in down, wire', pump'.event, queue', latest', Ahead')
          = Arrives(KeyOf(k), DownOf(k), k \in down, wire, pump.event, queue, latest, Ahead)
    BY <1>2, <2>2, KeyQuestion, PumpArrives
  <2> QED
    BY <2>2, <2>3, <2>4 DEF KeysInv
<1> QED
  BY <1>1, <1>2, KeysUser, KeysHost DEF InputStep

\* The sentence the run checks follows: with nothing under way, the answer is the host's.
LEMMA KeysFollow == InputTyped /\ KeysInv => HostFollowsLedger
<1> SUFFICES ASSUME InputTyped, KeysInv, Quiet
             PROVE  down \ lost = ledger \ lost /\ (focused \/ down \subseteq lost)
  BY DEF HostFollowsLedger
<1>1. /\ down \subseteq Keys /\ ledger \subseteq Keys /\ sending = "clear"
      /\ ~focused => ledger = {}
  BY DEF InputTyped, HostTyped, WindowTyped, Quiet
<1>2. ~Ended /\ host = "serving" /\ Ahead = <<>>
  BY <1>1 DEF Quiet, Ended, Ahead
<1>3. ASSUME NEW k \in Keys \ lost PROVE k \in down <=> k \in ledger
  <2>1. Arrives(KeyOf(k), DownOf(k), k \in down, <<>>, Nothing, <<>>, NoPosition, <<>>) <=> k \in ledger
    BY <1>2, <1>3 DEF KeysInv, Quiet
  <2>2. (k \in down) \in BOOLEAN
    OBVIOUS
  <2> QED
    BY <2>1, <2>2 DEF Arrives, InSlot, Sent, Taken, InHand, After
<1> QED
  BY <1>1, <1>3

-----------------------------------------------------------------------------
(* The pointer: the host follows the window's cursor.                      *)

Placed == {e \in Event : e.kind # "key"}
AtCursor == {e \in Placed : e.at = cursor}

\* Unless a click was queued between the pump's two looks, the pump takes a
\* position only when no click waits, and the last thing under way that carries a
\* position carries the window's.
PointerInv ==
  ~Ended /\ host = "serving" /\ ~overtaken =>
    /\ pump.at = "latest" => \A i \in 1..Len(queue) : queue[i].kind = "key"
    /\ Arrives(Placed, AtCursor, pointer = cursor, wire, pump.event, queue, latest, Ahead)

\* The pointer is decided by positions and by no key.
LEMMA PlaceQuestion ==
  /\ AtCursor \in SUBSET Placed /\ (pointer = cursor) \in BOOLEAN /\ Bears(Placed)
  /\ \A k \in Keys, d \in BOOLEAN : KeyEvent(k, d) \notin Placed
  /\ \A p \in Positions : /\ MoveEvent(p) \in Placed /\ MoveEvent(p).at = p
                          /\ ButtonEvent(p) \in Placed /\ ButtonEvent(p).at = p
<1>1. \A k \in Keys, d \in BOOLEAN : KeyEvent(k, d).kind = "key"
  BY DEF KeyEvent
<1>2. \A p \in Positions : /\ MoveEvent(p).kind = "move" /\ MoveEvent(p).at = p
                           /\ ButtonEvent(p).kind = "button" /\ ButtonEvent(p).at = p
  BY DEF MoveEvent, ButtonEvent
<1>3. \A p \in Positions : MoveEvent(p) \in Event /\ ButtonEvent(p) \in Event
  BY Kinds
<1>4. AtCursor \in SUBSET Placed /\ Bears(Placed)
  BY DEF AtCursor, Placed, Bears
<1>5. (pointer = cursor) \in BOOLEAN
  OBVIOUS
<1> QED
  BY <1>1, <1>2, <1>3, <1>4, <1>5 DEF Placed

\* The window's handler queues a position for each movement of its cursor and each click.
LEMMA PointerUser ==
  ASSUME InputTyped, InputTyped', PointerInv,
         \/ \E k \in Keys : Press(k) \/ Release(k)
         \/ LoseFocus \/ GainFocus \/ Click
         \/ \E p \in Positions : MovePointer(p)
  PROVE  PointerInv'
<1>1. User /\ UNCHANGED <<pump, host, pointer, overtaken, queue>>
  BY DEF Press, Release, LoseFocus, GainFocus, Click, MovePointer, User, hostVars, sharedVars
<1>2. SUFFICES ASSUME ~Ended, host = "serving", ~overtaken
               PROVE  Arrives(Placed, AtCursor', pointer = cursor', wire', pump'.event, queue', latest', Ahead')
  BY <1>1 DEF PointerInv, Ended
<1>3. CASE \E p \in Positions : cursor' = p /\ todo' \in {<<MoveEvent(p)>>, <<ButtonEvent(p)>>}
  <2>1. PICK p \in Positions : cursor' = p /\ todo' \in {<<MoveEvent(p)>>, <<ButtonEvent(p)>>}
    BY <1>3
  <2>2. AtCursor' \in SUBSET Placed /\ (pointer = cursor') \in BOOLEAN
    BY DEF AtCursor
  <2> DEFINE x == Arrives(Placed, AtCursor', pointer = cursor', wire, pump.event, queue, latest, Ahead)
  <2>3. /\ x \in BOOLEAN
        /\ Arrives(Placed, AtCursor', pointer = cursor', wire', pump'.event, queue', latest', Ahead')
             = After(Placed, AtCursor', x, todo')
    BY <1>1, <2>2, UserArrives
  <2> HIDE DEF x
  <2>4. MoveEvent(p) \in AtCursor' /\ ButtonEvent(p) \in AtCursor'
    BY <2>1, PlaceQuestion DEF AtCursor
  <2>5. PICK e : todo' = <<e>> /\ e \in AtCursor'
    BY <2>1, <2>4
  <2>6. After(Placed, AtCursor', x, <<e>>) <=> Put(Placed, AtCursor', x, e)
    BY <2>3, AfterOne
  <2> QED
    BY <2>3, <2>5, <2>6 DEF Put
<1>4. CASE cursor' = cursor /\ \A i \in 1..Len(todo') : todo'[i] \notin Placed
  <2> DEFINE x == Arrives(Placed, AtCursor, pointer = cursor, wire, pump.event, queue, latest, Ahead)
  <2>1. /\ x \in BOOLEAN
        /\ Arrives(Placed, AtCursor, pointer = cursor, wire', pump'.event, queue', latest', Ahead')
             = After(Placed, AtCursor, x, todo')
    BY <1>1, PlaceQuestion, UserArrives
  <2>2. x
    BY <1>2 DEF PointerInv
  <2> HIDE DEF x
  <2>3. After(Placed, AtCursor, x, todo')
    BY <1>4, <2>2 DEF After
  <2>4. AtCursor' = AtCursor
    BY <1>4 DEF AtCursor
  <2> QED
    BY <1>4, <2>1, <2>3, <2>4
<1>5. \/ \E p \in Positions : cursor' = p /\ todo' \in {<<MoveEvent(p)>>, <<ButtonEvent(p)>>}
      \/ cursor' = cursor /\ \A i \in 1..Len(todo') : todo'[i] \notin Placed
  <2>0. todo = <<>> /\ cursor \in Position
    BY <1>1 DEF User, InputTyped, WindowTyped
  <2>1. ASSUME NEW k \in Keys, Press(k) \/ Release(k)
        PROVE  cursor' = cursor /\ \A i \in 1..Len(todo') : todo'[i] \notin Placed
    <3>1. cursor' = cursor /\ todo' \in {<<>>, <<KeyEvent(k, TRUE)>>, <<KeyEvent(k, FALSE)>>}
      BY <2>0, <2>1 DEF Press, Release, Forwarded
    <3>2. KeyEvent(k, TRUE) \notin Placed /\ KeyEvent(k, FALSE) \notin Placed
      BY PlaceQuestion
    <3>3. \A e : \A i \in 1..Len(<<e>>) : <<e>>[i] = e
      OBVIOUS
    <3>4. CASE todo' = <<>>
      BY <3>1, <3>4
    <3>5. CASE todo' = <<KeyEvent(k, TRUE)>>
      BY <3>1, <3>2, <3>3, <3>5, Zenon
    <3>6. CASE todo' = <<KeyEvent(k, FALSE)>>
      BY <3>1, <3>2, <3>3, <3>6, Zenon
    <3> QED
      BY <3>1, <3>4, <3>5, <3>6
  <2>2. ASSUME LoseFocus PROVE cursor' = cursor /\ \A i \in 1..Len(todo') : todo'[i] \notin Placed
    <3>1. /\ \A i \in 1..Len(Releases) : \E n \in ledger : Releases[i] = KeyEvent(n, FALSE)
          /\ ledger \subseteq Keys
      BY ReleasesListed DEF InputTyped, WindowTyped
    <3>2. \A n \in Keys : KeyEvent(n, FALSE) \notin Placed
      BY PlaceQuestion
    <3> QED
      BY <2>2, <3>1, <3>2 DEF LoseFocus
  <2>3. ASSUME GainFocus PROVE cursor' = cursor /\ \A i \in 1..Len(todo') : todo'[i] \notin Placed
    BY <2>0, <2>3 DEF GainFocus
  <2>4. ASSUME Click
        PROVE  \E p \in Positions : cursor' = p /\ todo' \in {<<MoveEvent(p)>>, <<ButtonEvent(p)>>}
    BY <2>0, <2>4 DEF Click, Position
  <2>5. ASSUME NEW q \in Positions, MovePointer(q)
        PROVE  \E p \in Positions : cursor' = p /\ todo' \in {<<MoveEvent(p)>>, <<ButtonEvent(p)>>}
    BY <2>5 DEF MovePointer
  <2> QED
    BY <2>1, <2>2, <2>3, <2>4, <2>5
<1> QED
  BY <1>3, <1>4, <1>5

\* queue_input_event keeps the pointer's invariant; a click queued between the pump's two looks
\* sets overtaken.
LEMMA PointerQueue ==
  ASSUME InputTyped, PointerInv, QueueEvent
  PROVE  PointerInv'
<1>1. UNCHANGED <<pump, host, pointer, cursor>>
  BY DEF QueueEvent, hostVars
<1>2. QueueOutcome
  BY QueueOutcomes
<1>3. overtaken => overtaken'
  BY <1>2 DEF QueueOutcome
<1>4. SUFFICES ASSUME ~Ended, host = "serving", ~overtaken, ~overtaken'
               PROVE  /\ pump.at = "latest" => \A i \in 1..Len(queue') : queue'[i].kind = "key"
                      /\ Arrives(Placed, AtCursor, pointer = cursor, wire', pump'.event, queue', latest', Ahead')
  <2>1. AtCursor' = AtCursor
    BY <1>1 DEF AtCursor
  <2> QED
    BY <1>1, <1>3, <2>1 DEF PointerInv, Ended
<1>5. Arrives(Placed, AtCursor, pointer = cursor, wire', pump'.event, queue', latest', Ahead')
        = Arrives(Placed, AtCursor, pointer = cursor, wire, pump.event, queue, latest, Ahead)
  BY <1>4, PlaceQuestion, QueueArrives
<1>6. ASSUME pump.at = "latest" PROVE \A i \in 1..Len(queue') : queue'[i].kind = "key"
  <2>1. \A i \in 1..Len(queue) : queue[i].kind = "key"
    BY <1>4, <1>6 DEF PointerInv
  <2>2. queue' = queue \/ (queue' = Append(queue, Head(todo)) /\ Head(todo).kind = "key")
    BY <1>2, <1>4, <1>6 DEF QueueOutcome
  <2>3. queue \in Seq(Reliable)
    BY DEF InputTyped, WindowTyped
  <2> QED
    BY <2>1, <2>2, <2>3
<1> QED
  BY <1>4, <1>5, <1>6 DEF PointerInv

\* native-input keeps the pointer's invariant: it looks into the slot only after it has found
\* the queue empty.
LEMMA PointerPump ==
  ASSUME InputTyped, PointerInv, PumpStep
  PROVE  PointerInv'
<1>1. PumpOutcome /\ UNCHANGED <<host, pointer, cursor, overtaken>>
  BY PumpOutcomes
<1>2. SUFFICES ASSUME ~Ended', host = "serving", ~overtaken
               PROVE  /\ pump'.at = "latest" => \A i \in 1..Len(queue') : queue'[i].kind = "key"
                      /\ Arrives(Placed, AtCursor, pointer = cursor, wire', pump'.event, queue', latest', Ahead')
  <2>1. AtCursor' = AtCursor
    BY <1>1 DEF AtCursor
  <2> QED
    BY <1>1, <2>1 DEF PointerInv
<1>3. pump \in PumpRec
  BY DEF InputTyped, PumpTyped
<1>4. ~Ended
  BY <1>1, <1>2, <1>3 DEF PumpOutcome, Ended, PumpRec
<1>5. pump.at = "latest" => \A i \in 1..Len(queue) : queue[i] \notin Placed
  BY <1>2, <1>4 DEF PointerInv, Placed
<1>6. Arrives(Placed, AtCursor, pointer = cursor, wire', pump'.event, queue', latest', Ahead')
        = Arrives(Placed, AtCursor, pointer = cursor, wire, pump.event, queue, latest, Ahead)
  BY <1>2, <1>5, PlaceQuestion, PumpArrives
<1>7. ASSUME pump'.at = "latest" PROVE \A i \in 1..Len(queue') : queue'[i].kind = "key"
  <2>1. queue' = <<>>
    BY <1>1, <1>3, <1>7 DEF PumpOutcome, PumpRec, sharedVars
  <2> QED
    BY <2>1
<1> QED
  BY <1>2, <1>4, <1>6, <1>7 DEF PointerInv

\* The host's injection keeps the pointer's invariant.
LEMMA PointerHost ==
  ASSUME InputTyped, PointerInv, HostStep \/ SwitchDesktop
  PROVE  PointerInv'
<1>1. UNCHANGED <<sharedVars, pump, todo, sending, cursor, overtaken>>
  BY DEF HostStep, SwitchDesktop, windowVars
<1>2. Ahead' = Ahead /\ AtCursor' = AtCursor
  BY <1>1 DEF Ahead, AtCursor
<1>3. CASE SwitchDesktop
  BY <1>1, <1>2, <1>3 DEF SwitchDesktop, PointerInv, sharedVars, Ended
<1>4. CASE HostEnds
  BY <1>4 DEF HostEnds, PointerInv
<1>5. CASE HostServes
  <2>1. PICK outcome : IF Head(wire).kind = "key" THEN InjectKey(Head(wire), outcome)
                       ELSE InjectPosition(Head(wire), outcome)
    BY <1>5 DEF HostServes
  <2>2. /\ Head(wire) \in Event /\ host' = host
        /\ Arrives(Placed, AtCursor, Put(Placed, AtCursor, pointer = cursor, Head(wire)),
                   wire', pump'.event, queue', latest', Ahead')
             = Arrives(Placed, AtCursor, pointer = cursor, wire, pump.event, queue, latest, Ahead)
    BY <1>1, <1>5, PlaceQuestion, ServeArrives DEF HostServes
  <2>3. (pointer' = cursor) = Put(Placed, AtCursor, pointer = cursor, Head(wire))
    <3>1. CASE Head(wire).kind = "key"
      <4>1. pointer' = pointer /\ Head(wire) \notin Placed /\ Head(wire) \notin AtCursor
        BY <2>1, <3>1 DEF InjectKey, Placed, AtCursor
      <4> QED
        BY <4>1 DEF Put
    <3>2. CASE Head(wire).kind # "key"
      <4>1. pointer' = Head(wire).at /\ Head(wire) \in Placed
        BY <2>1, <2>2, <3>2 DEF InjectPosition, Placed
      <4>2. Head(wire) \in AtCursor <=> Head(wire).at = cursor
        BY <4>1 DEF AtCursor
      <4> QED
        BY <4>1, <4>2 DEF Put
    <3> QED
      BY <3>1, <3>2
  <2> QED
    BY <1>1, <1>2, <2>2, <2>3 DEF PointerInv, sharedVars, Ended
<1> QED
  BY <1>3, <1>4, <1>5 DEF HostStep

\* Every step of the input path keeps the pointer's invariant.
LEMMA PointerStep ==
  ASSUME InputTyped, InputTyped', PointerInv, InputStep
  PROVE  PointerInv'
  BY PointerUser, PointerQueue, PointerPump, PointerHost DEF InputStep

\* With nothing under way, the pointer is at the cursor.
LEMMA PointerFollow == InputTyped /\ PointerInv => PointerFollows
<1> SUFFICES ASSUME InputTyped, PointerInv, Quiet, ~overtaken PROVE pointer = cursor
  BY DEF PointerFollows
<1>1. ~Ended /\ host = "serving" /\ Ahead = <<>>
  BY DEF Quiet, Ended, Ahead, InputTyped, WindowTyped
<1>2. Arrives(Placed, AtCursor, pointer = cursor, <<>>, Nothing, <<>>, NoPosition, <<>>)
  BY <1>1 DEF PointerInv, Quiet
<1> QED
  BY <1>2 DEF Arrives, InSlot, Sent, Taken, InHand, After

-----------------------------------------------------------------------------
(* How many of a queue's messages are of some kinds.                       *)

Count(q, S) == Cardinality({i \in 1..Len(q) : q[i] \in S})
One(b) == IF b THEN 1 ELSE 0

\* A count is a number.
LEMMA CountTyped ==
  ASSUME NEW X, NEW q \in Seq(X), NEW S
  PROVE  Count(q, S) \in Nat /\ IsFiniteSet({i \in 1..Len(q) : q[i] \in S})
<1>1. Len(q) \in Nat /\ IsFiniteSet(1..Len(q))
  BY SequenceFacts, FS_Interval
<1>2. {i \in 1..Len(q) : q[i] \in S} \in SUBSET (1..Len(q))
  OBVIOUS
<1>3. IsFiniteSet({i \in 1..Len(q) : q[i] \in S})
  BY <1>1, <1>2, FS_Subset
<1> QED
  BY <1>3, FS_CardinalityType DEF Count

\* Of nothing there is nothing.
LEMMA CountNone == ASSUME NEW S PROVE Count(<<>>, S) = 0
<1>1. {i \in 1..Len(<<>>) : <<>>[i] \in S} = {}
  OBVIOUS
<1> QED
  BY <1>1, FS_EmptySet DEF Count

\* A message more, counted if it is of the kinds asked for.
LEMMA CountAppend ==
  ASSUME NEW X, NEW q \in Seq(X), NEW e \in X, NEW S
  PROVE  Count(Append(q, e), S) = Count(q, S) + One(e \in S)
<1> DEFINE old == {i \in 1..Len(q) : q[i] \in S}
           new == {i \in 1..Len(Append(q, e)) : Append(q, e)[i] \in S}
<1>1. IsFiniteSet(old) /\ Count(q, S) = Cardinality(old) /\ Cardinality(old) \in Nat
  BY CountTyped DEF Count
<1>2. CASE e \in S
  <2>1. new = old \cup {Len(q) + 1} /\ Len(q) + 1 \notin old
    BY <1>2, SequenceFacts
  <2>2. Cardinality(old \cup {Len(q) + 1}) = Cardinality(old) + 1
    <3> HIDE DEF old
    <3> QED
      BY <1>1, <2>1, FS_AddElement
  <2> QED
    BY <1>1, <1>2, <2>1, <2>2 DEF Count, One
<1>3. CASE e \notin S
  <2>1. new = old
    BY <1>3, SequenceFacts
  <2>2. Count(Append(q, e), S) = Cardinality(new)
    BY DEF Count
  <2>3. One(e \in S) = 0
    BY <1>3 DEF One
  <2> HIDE DEF new, old
  <2> QED
    BY <1>1, <2>1, <2>2, <2>3
<1> QED
  BY <1>2, <1>3

\* A message less.
LEMMA CountTail ==
  ASSUME NEW X, NEW q \in Seq(X), q # <<>>, NEW S
  PROVE  Count(q, S) = Count(Tail(q), S) + One(Head(q) \in S)
<1> DEFINE r == Tail(q)
           n == Len(r)
           old == {i \in 1..n : r[i] \in S}
           rest == {i \in 2..n + 1 : q[i] \in S}
           all == {i \in 1..Len(q) : q[i] \in S}
<1>1. /\ r \in Seq(X) /\ Len(q) = n + 1 /\ n \in Nat /\ Head(q) = q[1]
      /\ \A i \in 1..n : r[i] = q[i + 1]
  BY SequenceFacts
<1>2. IsFiniteSet(old) /\ Count(r, S) = Cardinality(old) /\ Cardinality(old) \in Nat
  BY <1>1, CountTyped DEF Count
<1>3. ExistsBijection(old, rest)
  <2> DEFINE f == [i \in old |-> i + 1]
  <2>1. f \in [old -> rest]
    BY <1>1
  <2>2. \A i, j \in old : f[i] = f[j] => i = j
    BY <1>1
  <2>3. \A j \in rest : \E i \in old : f[i] = j
    <3>1. ASSUME NEW j \in rest PROVE j - 1 \in old /\ f[j - 1] = j
      BY <1>1
    <3> QED
      BY <3>1
  <2>4. f \in Injection(old, rest)
    BY <2>1, <2>2 DEF Injection, IsInjective
  <2>5. f \in Surjection(old, rest)
    BY <2>1, <2>3 DEF Surjection
  <2> QED
    BY <2>4, <2>5 DEF ExistsBijection, Bijection
<1>4. IsFiniteSet(rest) /\ Cardinality(rest) = Cardinality(old)
  BY <1>2, <1>3, FS_Bijection
<1>5. CASE Head(q) \in S
  <2>1. all = rest \cup {1} /\ 1 \notin rest
    BY <1>1, <1>5
  <2>2. Cardinality(rest \cup {1}) = Cardinality(rest) + 1
    <3>1. 1 \notin rest /\ IsFiniteSet(rest)
      BY <1>4, <2>1
    <3> HIDE DEF rest
    <3> QED
      BY <3>1, FS_AddElement
  <2> QED
    BY <1>2, <1>4, <1>5, <2>1, <2>2 DEF Count, One
<1>6. CASE Head(q) \notin S
  <2>1. all = rest
    BY <1>1, <1>6
  <2>2. Count(q, S) = Cardinality(all)
    BY DEF Count
  <2>3. One(Head(q) \in S) = 0
    BY <1>6 DEF One
  <2> HIDE DEF all, rest, old
  <2> QED
    BY <1>2, <1>4, <2>1, <2>2, <2>3
<1> QED
  BY <1>5, <1>6

-----------------------------------------------------------------------------
(* The host's release knows every key that is down.                        *)

LEMMA KeysKnown ==
  ASSUME InputTyped, NoKeyForgotten, HostStep
  PROVE  NoKeyForgotten'
<1>1. CASE HostServes
  <2>1. Head(wire) \in Event
    BY <1>1, SequenceFacts DEF HostServes, InputTyped, PumpTyped
  <2>0. \A sync_due : Outcomes(sync_due) \subseteq {"lands", "swallowed", "refused"}
    BY DEF Outcomes
  <2>2. PICK outcome \in {"lands", "swallowed", "refused"} :
          IF Head(wire).kind = "key" THEN InjectKey(Head(wire), outcome)
          ELSE InjectPosition(Head(wire), outcome)
    BY <1>1, <2>0 DEF HostServes
  <2>4. CASE Head(wire).kind # "key"
    BY <2>2, <2>4 DEF InjectPosition, NoKeyForgotten
  <2>5. CASE Head(wire).kind = "key"
    <3>1. InjectKey(Head(wire), outcome)
      BY <2>2, <2>5
    <3>2. CASE outcome = "lands"
      BY <3>1, <3>2 DEF InjectKey, With, Booked, NoKeyForgotten
    <3>3. CASE outcome = "swallowed"
      BY <3>1, <3>3 DEF InjectKey, With, Booked, NoKeyForgotten
    <3>4. CASE outcome = "refused"
      BY <3>1, <3>4 DEF InjectKey, Booked, NoKeyForgotten
    <3> QED
      BY <2>2, <3>2, <3>3, <3>4
  <2> QED
    BY <2>4, <2>5
<1>2. CASE HostEnds
  <2>1. PICK refused \in SUBSET held_inputs :
          down' = down \ Released(refused) /\ leaked' = leaked \cup refused
    BY <1>2 DEF HostEnds
  <2> QED
    BY <1>2, <2>1 DEF HostEnds, Released, NoKeyForgotten
<1> QED
  BY <1>1, <1>2 DEF HostStep

-----------------------------------------------------------------------------
(* The pump does not sleep on work.                                        *)

\* Whatever waits while the pump is about to wait has its bell rung, or to be
\* rung; so has what was queued after the pump found the queue empty.
SleepInv ==
  /\ pump.at \in {"top", "wait"} /\ pump.zero = FALSE /\ (queue # <<>> \/ latest # NoPosition) =>
       bell = TRUE \/ sending = "ring"
  /\ pump.at = "latest" /\ queue # <<>> => bell = TRUE \/ sending = "ring"

\* queue_input_event rings, or is about to, whenever it adds work.
LEMMA SleepQueue == ASSUME InputTyped, SleepInv, QueueEvent PROVE SleepInv'
<1>1. QueueOutcome /\ UNCHANGED pump
  BY QueueOutcomes DEF QueueEvent
<1> QED
  BY <1>1 DEF QueueOutcome, SleepInv, Ended

\* native-input swallows the bell before it looks into the queue and the slot, never after.
LEMMA SleepPump == ASSUME InputTyped, SleepInv, PumpStep PROVE SleepInv'
<1>1. PumpOutcome /\ UNCHANGED sending
  BY PumpOutcomes
<1>2. pump \in PumpRec
  BY DEF InputTyped, PumpTyped
<1> QED
  BY <1>1, <1>2 DEF PumpOutcome, PumpRec, SleepInv, sharedVars

\* Every step of the input path keeps the bell's invariant.
LEMMA SleepStep ==
  ASSUME InputTyped, SleepInv, InputStep
  PROVE  SleepInv'
<1>1. CASE HostStep \/ SwitchDesktop
  BY <1>1 DEF HostStep, SwitchDesktop, SleepInv, sharedVars, windowVars
<1>2. CASE \/ \E k \in Keys : Press(k) \/ Release(k)
           \/ LoseFocus \/ GainFocus \/ Click
           \/ \E p \in Positions : MovePointer(p)
  BY <1>2 DEF Press, Release, LoseFocus, GainFocus, Click, MovePointer, User, SleepInv, sharedVars
<1> QED
  BY <1>1, <1>2, SleepQueue, SleepPump DEF InputStep

\* The pump does not sleep on work.
LEMMA AwakeFollows == InputTyped /\ SleepInv => NoSleepOnWork
<1>1. InputTyped => bell \in BOOLEAN /\ pump.zero \in BOOLEAN
  BY DEF InputTyped, WindowTyped, PumpTyped, PumpRec
<1> QED
  BY <1>1 DEF SleepInv, NoSleepOnWork

-----------------------------------------------------------------------------
(* The four invariants of the input path are kept by its own steps and     *)
(* by the rest of the session.                                             *)

InputInv == InputTyped /\ KeysInv /\ PointerInv /\ NoKeyForgotten /\ SleepInv

\* The input path's invariants hold at first.
LEMMA InputInvInit == InputInit => InputInv
<1> SUFFICES ASSUME InputInit PROVE InputInv
  OBVIOUS
<1>1. InputTyped
  BY InputInitTyped
<1>2. /\ Ahead = <<>> /\ pump.event = Nothing /\ pump.at = "wait" /\ pump.zero = FALSE
      /\ wire = <<>> /\ queue = <<>> /\ latest = NoPosition
      /\ down = {} /\ ledger = {} /\ pointer = cursor
  BY DEF InputInit, Ahead
<1>3. \A A, T : \A b \in BOOLEAN : Arrives(A, T, b, <<>>, Nothing, <<>>, NoPosition, <<>>) <=> b
  BY DEF Arrives, InSlot, Sent, Taken, InHand, After
<1>4. KeysInv
  <2>1. \A k : (k \in down) \in BOOLEAN /\ ~(k \in down) /\ ~(k \in ledger)
    BY <1>2
  <2> QED
    BY <1>2, <1>3, <2>1 DEF KeysInv
<1>5. PointerInv
  <2>1. (pointer = cursor) \in BOOLEAN /\ pointer = cursor
    BY <1>2
  <2> QED
    BY <1>2, <1>3, <2>1 DEF PointerInv
<1>6. NoKeyForgotten /\ SleepInv
  BY <1>2 DEF NoKeyForgotten, SleepInv
<1> QED
  BY <1>1, <1>4, <1>5, <1>6 DEF InputInv

\* Its own steps keep them.
LEMMA InputInvStep == ASSUME InputInv, InputStep PROVE InputInv'
<1>1. InputTyped'
  BY InputStepTyped DEF InputInv
<1>2. KeysInv' /\ PointerInv' /\ SleepInv'
  BY <1>1, KeysStep, PointerStep, SleepStep DEF InputInv
<1>3. NoKeyForgotten'
  <2>1. CASE HostStep
    BY <2>1, KeysKnown DEF InputInv
  <2>2. CASE UNCHANGED <<down, held_inputs, leaked>>
    BY <2>2 DEF InputInv, NoKeyForgotten
  <2>3. CASE \/ \E k \in Keys : Press(k) \/ Release(k)
             \/ LoseFocus \/ GainFocus \/ Click
             \/ \E p \in Positions : MovePointer(p)
    BY <2>2, <2>3 DEF Press, Release, LoseFocus, GainFocus, Click, MovePointer, User, hostVars
  <2>4. CASE QueueEvent
    BY <2>2, <2>4 DEF QueueEvent, hostVars
  <2>5. CASE PumpStep
    BY <2>2, <2>5 DEF PumpStep
  <2>6. CASE SwitchDesktop
    BY <2>2, <2>6 DEF SwitchDesktop
  <2> QED
    BY <2>1, <2>3, <2>4, <2>5, <2>6 DEF InputStep
<1> QED
  BY <1>1, <1>2, <1>3 DEF InputInv

\* What the rest of the session leaves alone.
Elsewhere ==
  UNCHANGED <<pressed, ledger, focused, cursor, todo, sending, sharedVars, pump, input_end,
              hostVars, overtaken>>

\* So does a step elsewhere in the session.
LEMMA ElsewhereKeeps ==
  ASSUME InputInv, Elsewhere,
         EndTyped', window' \in {"open", "asked", "leaving"}
  PROVE  InputInv'
<1>1. InputTyped'
  BY DEF InputInv, InputTyped, PumpTyped, WindowTyped, HostTyped, Elsewhere, sharedVars, hostVars
<1>2. UNCHANGED <<pump, host, lost, down, ledger, wire, queue, latest, overtaken, pointer, cursor,
                  held_inputs, leaked, bell, sending, todo>>
  BY DEF Elsewhere, sharedVars, hostVars
<1>3. Ahead' = Ahead /\ Ended' = Ended /\ AtCursor' = AtCursor
  BY <1>2 DEF Ahead, Ended, AtCursor
<1>4. KeysInv'
  BY <1>2, <1>3 DEF InputInv, KeysInv
<1>5. PointerInv'
  BY <1>2, <1>3 DEF InputInv, PointerInv
<1>6. NoKeyForgotten' /\ SleepInv'
  BY <1>2 DEF InputInv, NoKeyForgotten, SleepInv
<1> QED
  BY <1>1, <1>4, <1>5, <1>6 DEF InputInv

-----------------------------------------------------------------------------
(* The readers, the ACK writer and the waits.                              *)

Bulk == {"frame", "fence", "fenceRaw"}
Sparse == {"rects", "prelude", "preludeRaw"}
VideoRec == [at : {"top", "read", "fence", "apply", "waitRaw", "finish", "cancel", "shut", "done"},
             end : End]
RawRec == [at : {"top", "read", "base", "waitMove", "finish", "shut", "done"}, end : End]

\* Updates that will be acknowledged: frames on the way, rectangles and preludes
\* whose move has no remainder on the way, a move and rectangles in hand.
Frames == Count(bulk, {"frame"})
Rects == Count(sparse, {"rects", "prelude"})
Moving == IF rendezvous = "Pending" /\ remainder = "None" THEN 1 ELSE 0
Waiting == IF raw.at = "base" THEN 1 ELSE 0

LaneTyped ==
  /\ script \in Seq(Updates) /\ unacked \in Nat
  /\ bulk \in Seq(Bulk) /\ sparse \in Seq(Sparse)
ReaderTyped ==
  /\ video \in VideoRec /\ raw \in RawRec
  /\ ack \in [at : {"run", "done"}, end : End] /\ ack_queue \in Nat
WaitTyped ==
  /\ base_ready \in BOOLEAN /\ base_cancelled \in BOOLEAN
  /\ rendezvous \in {"Idle", "Pending", "Applied", "Failed"} /\ remainder \in {"None", "Raw"}
HandleTyped ==
  handle \in {"running", "cancel", "shut", "join", "done"} /\ result \in End

\* What is queued for acknowledgement and what will still be is owed.
OwedInv == ack_queue + Frames + Rects + Moving + Waiting <= unacked

\* The workers' part of the inductive invariant.
WorkTyped == LaneTyped /\ ReaderTyped /\ WaitTyped /\ HandleTyped /\ OwedInv

\* A worker's place and reported end.
LEMMA AtTyped ==
  /\ \A p \in {"top", "read", "fence", "apply", "waitRaw", "finish", "cancel", "shut", "done"} :
       \A e \in End : At(p, e) \in VideoRec /\ At(p, e).at = p /\ At(p, e).end = e
  /\ \A p \in {"top", "read", "base", "waitMove", "finish", "shut", "done"} :
       \A e \in End : At(p, e) \in RawRec /\ At(p, e).at = p /\ At(p, e).end = e
  /\ \A p \in {"run", "done"} : \A e \in End : At(p, e) \in [at : {"run", "done"}, end : End]
  /\ "none" \in End /\ "clean" \in End /\ "failed" \in End
  BY DEF At, VideoRec, RawRec, End

\* A finishing worker reports an end.
LEMMA FinishingTyped ==
  ASSUME NEW b
  PROVE  Finishing(b) \in VideoRec /\ Finishing(b) \in RawRec /\ Finishing(b).at = "finish"
<1>1. Finishing(b) \in {At("finish", "failed"), At("finish", "clean")}
  BY DEF Finishing
<1> QED
  BY <1>1, AtTyped

\* The two tallies and what taking a message does to them.
LEMMA Tallies ==
  ASSUME LaneTyped
  PROVE  /\ Frames \in Nat /\ Rects \in Nat
         /\ bulk # <<>> => /\ Tail(bulk) \in Seq(Bulk) /\ Head(bulk) \in Bulk
                           /\ Count(Tail(bulk), {"frame"}) \in Nat
                           /\ Frames = Count(Tail(bulk), {"frame"}) + One(Head(bulk) = "frame")
         /\ sparse # <<>> => /\ Tail(sparse) \in Seq(Sparse) /\ Head(sparse) \in Sparse
                             /\ Count(Tail(sparse), {"rects", "prelude"}) \in Nat
                             /\ Rects = Count(Tail(sparse), {"rects", "prelude"})
                                          + One(Head(sparse) # "preludeRaw")
<1>1. bulk \in Seq(Bulk) /\ sparse \in Seq(Sparse)
  BY DEF LaneTyped
<1>2. Frames \in Nat /\ Rects \in Nat
  BY <1>1, CountTyped DEF Frames, Rects
<1>3. ASSUME bulk # <<>>
      PROVE  /\ Tail(bulk) \in Seq(Bulk) /\ Head(bulk) \in Bulk
             /\ Count(Tail(bulk), {"frame"}) \in Nat
             /\ Frames = Count(Tail(bulk), {"frame"}) + One(Head(bulk) = "frame")
  <2>1. Tail(bulk) \in Seq(Bulk) /\ Head(bulk) \in Bulk
    BY <1>1, <1>3, SequenceFacts
  <2>2. Frames = Count(Tail(bulk), {"frame"}) + One(Head(bulk) \in {"frame"})
    BY <1>1, <1>3, CountTail DEF Frames
  <2>3. One(Head(bulk) \in {"frame"}) = One(Head(bulk) = "frame")
    BY DEF One
  <2>4. Count(Tail(bulk), {"frame"}) \in Nat
    BY <2>1, CountTyped
  <2> QED
    BY <2>1, <2>2, <2>3, <2>4
<1>4. ASSUME sparse # <<>>
      PROVE  /\ Tail(sparse) \in Seq(Sparse) /\ Head(sparse) \in Sparse
             /\ Count(Tail(sparse), {"rects", "prelude"}) \in Nat
             /\ Rects = Count(Tail(sparse), {"rects", "prelude"}) + One(Head(sparse) # "preludeRaw")
  <2>1. Tail(sparse) \in Seq(Sparse) /\ Head(sparse) \in Sparse
    BY <1>1, <1>4, SequenceFacts
  <2>2. Rects = Count(Tail(sparse), {"rects", "prelude"}) + One(Head(sparse) \in {"rects", "prelude"})
    BY <1>1, <1>4, CountTail DEF Rects
  <2>3. One(Head(sparse) \in {"rects", "prelude"}) = One(Head(sparse) # "preludeRaw")
    BY <2>1 DEF One, Sparse
  <2>4. Count(Tail(sparse), {"rects", "prelude"}) \in Nat
    BY <2>1, CountTyped
  <2> QED
    BY <2>1, <2>2, <2>3, <2>4
<1> QED
  BY <1>2, <1>3, <1>4

\* An update sent raises what is owed and what may be owed together.
LEMMA SentSum ==
  \A a, f, r, m, w, u, f1, r1 \in Nat :
    a + f + r + m + w <= u /\ f1 + r1 <= f + r + 1 => a + f1 + r1 + m + w <= u + 1
  OBVIOUS

\* A channel that breaks only loses messages.
LEMMA BrokenSum ==
  \A a, f, r, m, w, u, f1, r1 \in Nat :
    a + f + r + m + w <= u /\ f1 <= f /\ r1 <= r => a + f1 + r1 + m + w <= u
  OBVIOUS

\* The video reader moves what is owed among the queue, the frames and the move.
LEMMA VideoSum ==
  \A a, f, r, m, w, u, a1, f1, m1 \in Nat :
    a + f + r + m + w <= u /\ a1 + f1 + m1 <= a + f + m => a1 + f1 + r + m1 + w <= u
  OBVIOUS

\* The sparse reader moves it among the queue, the rectangles, the move and the wait.
LEMMA RawSum ==
  \A a, f, r, m, w, u, a1, r1, m1, w1 \in Nat :
    a + f + r + m + w <= u /\ a1 + r1 + m1 + w1 <= a + r + m + w => a1 + f + r1 + m1 + w1 <= u
  OBVIOUS

\* An update the host sends will be acknowledged at most once.
LEMMA HostSendsTyped == ASSUME WorkTyped, HostSends PROVE WorkTyped'
<1> DEFINE kind == Head(script)
<1>1. /\ UNCHANGED <<workerVars, waitVars, handleVars>>
      /\ script # <<>> /\ script' = Tail(script) /\ unacked' = unacked + 1
      /\ bulk' = bulk \o (CASE kind = "frame" -> <<"frame">> [] kind = "move" -> <<"fence">>
                            [] kind = "moveRaw" -> <<"fenceRaw">> [] OTHER -> <<>>)
      /\ sparse' = sparse \o (CASE kind = "rects" -> <<"rects">> [] kind = "move" -> <<"prelude">>
                                [] kind = "moveRaw" -> <<"preludeRaw", "rects">>
                                [] OTHER -> <<>>)
  BY DEF HostSends
<1>2. /\ script \in Seq(Updates) /\ kind \in Updates /\ Tail(script) \in Seq(Updates)
      /\ bulk \in Seq(Bulk) /\ sparse \in Seq(Sparse) /\ unacked \in Nat
      /\ Frames \in Nat /\ Rects \in Nat
  BY <1>1, SequenceFacts, Tallies DEF WorkTyped, LaneTyped
<1>3. /\ \A S : \A q \in Seq(S) : q \o <<>> = q
      /\ \A S : \A q \in Seq(S) : \A e \in S : q \o <<e>> = Append(q, e) /\ Append(q, e) \in Seq(S)
  OBVIOUS
<1>4. \A e \in Bulk : /\ Append(bulk, e) \in Seq(Bulk)
                      /\ Count(Append(bulk, e), {"frame"}) = Frames + One(e \in {"frame"})
  BY <1>2, <1>3, CountAppend DEF Frames
<1>5. \A q \in Seq(Sparse) : \A e \in Sparse :
         /\ Append(q, e) \in Seq(Sparse)
         /\ Count(Append(q, e), {"rects", "prelude"})
              = Count(q, {"rects", "prelude"}) + One(e \in {"rects", "prelude"})
  BY <1>3, CountAppend
<1>6. /\ bulk' \in Seq(Bulk) /\ sparse' \in Seq(Sparse) /\ Frames' \in Nat /\ Rects' \in Nat
      /\ Frames' + Rects' <= Frames + Rects + 1
  <2>1. CASE kind = "frame"
    <3>1. bulk' = Append(bulk, "frame") /\ sparse' = sparse
      BY <1>1, <1>2, <1>3, <2>1 DEF Bulk
    <3>2. Frames' = Frames + 1 /\ Rects' = Rects
      BY <1>4, <3>1 DEF Frames, Rects, Bulk, One
    <3> QED
      BY <1>2, <1>4, <3>1, <3>2 DEF Bulk
  <2>2. CASE kind = "rects"
    <3>1. bulk' = bulk /\ sparse' = Append(sparse, "rects")
      BY <1>1, <1>2, <1>3, <2>2 DEF Sparse
    <3>2. Frames' = Frames /\ Rects' = Rects + 1
      BY <1>2, <1>5, <3>1 DEF Frames, Rects, Sparse, One
    <3> QED
      BY <1>2, <1>5, <3>1, <3>2 DEF Sparse
  <2>3. CASE kind = "move"
    <3>1. bulk' = Append(bulk, "fence") /\ sparse' = Append(sparse, "prelude")
      BY <1>1, <1>2, <1>3, <2>3 DEF Bulk, Sparse
    <3>2. Frames' = Frames
      <4>1. Frames' = Frames + One("fence" \in {"frame"})
        BY <1>4, <3>1 DEF Frames, Bulk
      <4> QED
        BY <1>2, <4>1 DEF One
    <3>3. Rects' = Rects + 1
      BY <1>2, <1>5, <3>1 DEF Rects, Sparse, One
    <3> QED
      BY <1>2, <1>4, <1>5, <3>1, <3>2, <3>3 DEF Bulk, Sparse
  <2>4. CASE kind = "moveRaw"
    <3>1. bulk' = Append(bulk, "fenceRaw") /\ sparse' = sparse \o <<"preludeRaw", "rects">>
      BY <1>1, <1>2, <1>3, <2>4 DEF Bulk
    <3>2. sparse \o <<"preludeRaw", "rects">> = Append(Append(sparse, "preludeRaw"), "rects")
      BY <1>2 DEF Sparse
    <3>3. Frames' = Frames
      <4>1. Frames' = Frames + One("fenceRaw" \in {"frame"})
        BY <1>4, <3>1 DEF Frames, Bulk
      <4> QED
        BY <1>2, <4>1 DEF One
    <3>4. Append(sparse, "preludeRaw") \in Seq(Sparse) /\ sparse' \in Seq(Sparse)
      BY <1>2, <1>5, <3>1, <3>2 DEF Sparse
    <3>5. Rects' = Count(Append(sparse, "preludeRaw"), {"rects", "prelude"}) + 1
      BY <1>5, <3>1, <3>2, <3>4 DEF Rects, Sparse, One
    <3>6. Count(Append(sparse, "preludeRaw"), {"rects", "prelude"}) = Rects
      <4>1. Count(Append(sparse, "preludeRaw"), {"rects", "prelude"})
              = Rects + One("preludeRaw" \in {"rects", "prelude"})
        BY <1>2, <1>5 DEF Rects, Sparse
      <4> QED
        BY <1>2, <4>1 DEF One
    <3> QED
      BY <1>2, <1>4, <3>1, <3>3, <3>4, <3>5, <3>6 DEF Bulk
  <2> QED
    BY <1>2, <2>1, <2>2, <2>3, <2>4 DEF Updates
<1>7. Moving' = Moving /\ Waiting' = Waiting /\ Moving \in Nat /\ Waiting \in Nat /\ ack_queue \in Nat
  BY <1>1 DEF workerVars, waitVars, Moving, Waiting, WorkTyped, ReaderTyped
<1>8. OwedInv'
  <2>1. ack_queue' = ack_queue /\ unacked' = unacked + 1
    BY <1>1 DEF workerVars
  <2>2. ack_queue + Frames + Rects + Moving + Waiting <= unacked
    BY DEF WorkTyped, OwedInv
  <2>3. ack_queue + Frames' + Rects' + Moving + Waiting <= unacked + 1
    <3>1. /\ Frames \in Nat /\ Rects \in Nat /\ Frames' \in Nat /\ Rects' \in Nat
          /\ Frames' + Rects' <= Frames + Rects + 1
      BY <1>2, <1>6
    <3>2. ack_queue \in Nat /\ Moving \in Nat /\ Waiting \in Nat
      BY <1>7
    <3>3. unacked \in Nat
      BY <1>2
    <3> QED
      BY <2>2, <3>1, <3>2, <3>3, SentSum
  <2> QED
    BY <1>7, <2>1, <2>3 DEF OwedInv
<1> QED
  BY <1>1, <1>2, <1>6, <1>8
     DEF WorkTyped, LaneTyped, ReaderTyped, WaitTyped, HandleTyped, workerVars, waitVars, handleVars

\* A broken channel keeps the workers' types.
LEMMA BreaksTyped == ASSUME WorkTyped, Breaks PROVE WorkTyped'
<1>1. /\ UNCHANGED <<script, unacked, workerVars, waitVars, handleVars>>
      /\ bulk' \in {bulk, <<>>} /\ sparse' \in {sparse, <<>>}
  BY DEF Breaks
<1>2. bulk' \in Seq(Bulk) /\ sparse' \in Seq(Sparse)
  BY <1>1, EmptySeq DEF WorkTyped, LaneTyped
<1>3. Frames \in Nat /\ Rects \in Nat /\ Frames' \in {Frames, 0} /\ Rects' \in {Rects, 0}
  BY <1>1, Tallies, CountNone DEF WorkTyped, Frames, Rects
<1>4. Moving' = Moving /\ Waiting' = Waiting /\ Moving \in Nat /\ Waiting \in Nat /\ ack_queue \in Nat
  BY <1>1 DEF workerVars, waitVars, Moving, Waiting, WorkTyped, ReaderTyped
<1>5. OwedInv'
  <2>1. ack_queue' = ack_queue /\ unacked' = unacked /\ unacked \in Nat
    BY <1>1 DEF workerVars, WorkTyped, LaneTyped
  <2>2. ack_queue + Frames + Rects + Moving + Waiting <= unacked
    BY DEF WorkTyped, OwedInv
  <2>3. ack_queue + Frames' + Rects' + Moving + Waiting <= unacked
    <3>1. /\ Frames \in Nat /\ Rects \in Nat /\ Frames' \in Nat /\ Rects' \in Nat
          /\ Frames' <= Frames /\ Rects' <= Rects
      BY <1>3
    <3>2. ack_queue \in Nat /\ Moving \in Nat /\ Waiting \in Nat
      BY <1>4
    <3>3. unacked \in Nat
      BY <2>1
    <3> QED
      BY <2>2, <3>1, <3>2, <3>3, BrokenSum
  <2> QED
    BY <1>4, <2>1, <2>3 DEF OwedInv
<1> QED
  BY <1>1, <1>2, <1>5
     DEF WorkTyped, LaneTyped, ReaderTyped, WaitTyped, HandleTyped, workerVars, waitVars, handleVars

\* What the video reader queues for acknowledgement it has taken from the frames or the move.
LEMMA Trade ==
  \A a, f, m, a1, f1, m1 \in Nat :
    \/ a1 = a /\ f1 <= f /\ m1 <= m
    \/ a1 <= a + 1 /\ f = f1 + 1 /\ m1 <= m
    \/ a1 <= a + 1 /\ f1 <= f /\ m = m1 + 1
    => a1 + f1 + m1 <= a + f + m
  OBVIOUS

\* What the sparse reader queues, or keeps in hand, it has taken from the rectangles, the move
\* or the wait.
LEMMA TradeWait ==
  \A a, r, m, w, a1, r1, m1, w1 \in Nat :
    \/ a1 = a /\ r1 <= r /\ m1 <= m /\ w1 <= w
    \/ a1 <= a + 1 /\ r = r1 + 1 /\ m1 <= m /\ w1 <= w
    \/ a1 = a /\ r = r1 + 1 /\ m1 <= m + 1 /\ w1 <= w
    \/ a1 = a /\ r = r1 + 1 /\ m1 <= m /\ w1 <= w + 1
    \/ a1 <= a + 1 /\ r1 = r /\ m1 <= m /\ w = w1 + 1
    => a1 + r1 + m1 + w1 <= a + r + m + w
  OBVIOUS

\* What a step of the video reader does to the queue, the tally and the move.
VideoMoves ==
  /\ \/ ack_queue' = ack_queue /\ Frames' = Frames /\ Moving' <= Moving
     \/ ack_queue' \in {ack_queue, ack_queue + 1} /\ Frames = Frames' + 1 /\ Moving' = Moving
     \/ ack_queue' \in {ack_queue, ack_queue + 1} /\ Frames' = Frames /\ Moving = 1 /\ Moving' = 0
  /\ bulk' \in Seq(Bulk) /\ video' \in VideoRec /\ WaitTyped'
  /\ video.at \in {"top", "read", "fence", "apply", "waitRaw"}
  /\ video'.at \in {"top", "read", "fence", "apply", "waitRaw", "finish"}

\* Every step of the video reader is of that kind.
LEMMA VideoReadsMoves == ASSUME WorkTyped, VideoReads PROVE VideoMoves
<1>0. /\ bulk \in Seq(Bulk) /\ video \in VideoRec /\ WaitTyped
      /\ bulk # <<>> => /\ Tail(bulk) \in Seq(Bulk)
                        /\ Count(Tail(bulk), {"frame"}) \in Nat
                        /\ Frames = Count(Tail(bulk), {"frame"}) + One(Head(bulk) = "frame")
      /\ Frames \in Nat /\ Moving \in {0, 1} /\ ack_queue \in Nat
  BY Tallies DEF WorkTyped, LaneTyped, ReaderTyped, Moving
<1>1. /\ Acks => ack_queue' \in {ack_queue, ack_queue + 1}
      /\ UNCHANGED bulk => Frames' = Frames
      /\ bulk' = Tail(bulk) => Frames' = Count(Tail(bulk), {"frame"})
      /\ UNCHANGED <<rendezvous, remainder>> => Moving' = Moving
      /\ rendezvous' # "Pending" => Moving' = 0
      /\ WaitTyped /\ UNCHANGED waitVars => WaitTyped'
  BY DEF Acks, Frames, Moving, WaitTyped, waitVars
<1>2. /\ \A p \in {"top", "read", "fence", "apply", "waitRaw", "finish"} :
           \A e \in End : At(p, e) \in VideoRec /\ At(p, e).at = p
      /\ "none" \in End /\ "clean" \in End /\ "failed" \in End
  BY AtTyped
<1>3. ASSUME UNCHANGED <<bulk, ack_queue, base_ready, base_cancelled, rendezvous, remainder>>,
             video' \in VideoRec, video.at \in {"top", "read", "fence", "apply", "waitRaw"},
             video'.at \in {"top", "read", "fence", "apply", "waitRaw", "finish"}
      PROVE  VideoMoves
  <2>1. Frames' = Frames /\ Moving' = Moving /\ Moving <= Moving
    BY <1>0, <1>1, <1>3
  <2>2. WaitTyped' /\ bulk' \in Seq(Bulk)
    BY <1>0, <1>1, <1>3 DEF waitVars
  <2> QED
    BY <1>3, <2>1, <2>2 DEF VideoMoves
<1>4. CASE VideoTop
  <2>1. video' \in {Finishing(FALSE), At("read", "none")} /\ UNCHANGED <<bulk, ack_queue, waitVars>>
    BY <1>4 DEF VideoTop
  <2>2. Finishing(FALSE) \in VideoRec /\ Finishing(FALSE).at = "finish"
    BY FinishingTyped
  <2>3. video' \in VideoRec /\ video'.at \in {"read", "finish"}
    BY <1>2, <2>1, <2>2
  <2>4. video.at = "top"
    BY <1>4 DEF VideoTop
  <2> QED
    BY <1>3, <2>1, <2>3, <2>4 DEF waitVars
<1>5. CASE VideoEof
  <2>1. video' = Finishing(TRUE) /\ UNCHANGED <<bulk, ack_queue, waitVars>> /\ video.at = "read"
    BY <1>5 DEF VideoEof
  <2>2. video' \in VideoRec /\ video'.at = "finish"
    BY <2>1, FinishingTyped
  <2> QED
    BY <1>3, <2>1, <2>2 DEF waitVars
<1>6. CASE VideoFrame
  <2>1. /\ bulk # <<>> /\ Head(bulk) = "frame" /\ bulk' = Tail(bulk) /\ video.at = "read"
        /\ Acks /\ UNCHANGED <<base_cancelled, rendezvous, remainder>>
        /\ base_ready' = (base_ready \/ ~base_cancelled)
        /\ video' \in {At("top", "none"), At("finish", "failed")}
    BY <1>6 DEF VideoFrame
  <2>2. Frames = Frames' + 1
    BY <1>0, <1>1, <2>1 DEF One
  <2>3. base_ready' \in BOOLEAN
    BY <2>1
  <2>4. WaitTyped'
    BY <1>0, <2>1, <2>3 DEF WaitTyped
  <2>5. video' \in VideoRec /\ video'.at \in {"top", "finish"}
    BY <1>2, <2>1
  <2> QED
    BY <1>0, <1>1, <2>1, <2>2, <2>4, <2>5 DEF VideoMoves
<1>7. CASE VideoFence
  <2>1. /\ bulk # <<>> /\ Head(bulk) # "frame" /\ bulk' = Tail(bulk) /\ video.at = "read"
        /\ UNCHANGED <<ack_queue, waitVars>> /\ video' = At("fence", "none")
    BY <1>7 DEF VideoFence
  <2>2. Frames = Frames'
    BY <1>0, <1>1, <2>1 DEF One
  <2> QED
    BY <1>0, <1>1, <1>2, <2>1, <2>2 DEF VideoMoves, waitVars
<1>8. CASE VideoMeetsPrelude
  BY <1>0, <1>1, <1>2, <1>8 DEF VideoMeetsPrelude, VideoMoves, waitVars
<1>9. CASE VideoApplies
  <2>1. /\ video.at = "apply" /\ UNCHANGED <<base_ready, base_cancelled, remainder>>
        /\ rendezvous' \in {"Failed", "Applied", "Idle"}
        /\ video' \in VideoRec /\ video'.at \in {"top", "read", "waitRaw", "finish"}
        /\ bulk' = bulk
    BY <1>2, <1>9 DEF VideoApplies, Aborts, MessageDone
  <2>2. WaitTyped' /\ Moving' = 0
    BY <1>0, <1>1, <2>1 DEF WaitTyped
  <2>3. \/ ack_queue' = ack_queue
        \/ ack_queue' \in {ack_queue, ack_queue + 1} /\ Moving = 1
    <3>1. CASE rendezvous # "Pending" \/ remainder = "Raw"
      BY <1>9, <3>1 DEF VideoApplies
    <3>2. CASE rendezvous = "Pending" /\ remainder # "Raw"
      <4>1. Moving = 1
        BY <1>0, <3>2 DEF Moving, WaitTyped
      <4>2. Acks
        BY <1>9, <3>2 DEF VideoApplies
      <4> QED
        BY <1>1, <4>1, <4>2
    <3> QED
      BY <3>1, <3>2
  <2> QED
    BY <1>0, <1>1, <2>1, <2>2, <2>3 DEF VideoMoves
<1>10. CASE VideoRemainderDone
  BY <1>0, <1>1, <1>2, <1>10 DEF VideoRemainderDone, MessageDone, VideoMoves, waitVars
<1>11. CASE VideoTimesOut
  <2>1. /\ video.at \in {"fence", "waitRaw"} /\ rendezvous' = "Failed"
        /\ UNCHANGED <<bulk, ack_queue, base_ready, base_cancelled, remainder>>
        /\ video' = At("finish", "failed")
    BY <1>11 DEF VideoTimesOut, Aborts
  <2>2. WaitTyped' /\ Moving' = 0
    BY <1>0, <1>1, <2>1 DEF WaitTyped
  <2> QED
    BY <1>0, <1>1, <1>2, <2>1, <2>2 DEF VideoMoves
<1> QED
  BY <1>4, <1>5, <1>6, <1>7, <1>8, <1>9, <1>10, <1>11 DEF VideoReads

\* The video reader acknowledges nothing twice.
LEMMA VideoReadsTyped == ASSUME WorkTyped, VideoReads PROVE WorkTyped'
<1>1. VideoMoves /\ UNCHANGED <<script, unacked, sparse, raw, ack, handleVars>>
  BY VideoReadsMoves DEF VideoReads
<1>2. /\ ack_queue \in Nat /\ Frames \in Nat /\ Rects \in Nat /\ Moving \in Nat /\ Waiting \in Nat
      /\ unacked \in Nat
  BY Tallies DEF WorkTyped, LaneTyped, ReaderTyped, Moving, Waiting
<1>3. Moving' \in Nat /\ Rects' = Rects /\ Waiting' = Waiting /\ ack_queue' \in Nat
  BY <1>1, <1>2 DEF Moving, Rects, Waiting, VideoMoves
<1>4. Frames' \in Nat
  BY <1>1, CountTyped DEF VideoMoves, Frames
<1>5. ack_queue' + Frames' + Moving' <= ack_queue + Frames + Moving
  <2>1. \/ ack_queue' = ack_queue /\ Frames' <= Frames /\ Moving' <= Moving
        \/ ack_queue' <= ack_queue + 1 /\ Frames = Frames' + 1 /\ Moving' <= Moving
        \/ ack_queue' <= ack_queue + 1 /\ Frames' <= Frames /\ Moving = Moving' + 1
    <3>1. CASE ack_queue' = ack_queue /\ Frames' = Frames /\ Moving' <= Moving
      BY <1>2, <3>1
    <3>2. CASE ack_queue' \in {ack_queue, ack_queue + 1} /\ Frames = Frames' + 1 /\ Moving' = Moving
      <4>1. ack_queue' <= ack_queue + 1 /\ Moving' <= Moving
        BY <1>2, <3>2
      <4> QED
        BY <3>2, <4>1
    <3>3. CASE /\ ack_queue' \in {ack_queue, ack_queue + 1} /\ Frames' = Frames
               /\ Moving = 1 /\ Moving' = 0
      <4>1. ack_queue' <= ack_queue + 1 /\ Frames' <= Frames
        BY <1>2, <3>3
      <4> QED
        BY <3>3, <4>1
    <3> QED
      BY <1>1, <3>1, <3>2, <3>3 DEF VideoMoves
  <2> QED
    BY <1>2, <1>3, <1>4, <2>1, Trade
<1>6. OwedInv'
  <2>1. ack_queue + Frames + Rects + Moving + Waiting <= unacked
    BY DEF WorkTyped, OwedInv
  <2>2. ack_queue' + Frames' + Rects + Moving' + Waiting <= unacked
    BY <1>2, <1>3, <1>4, <1>5, <2>1, VideoSum
  <2> QED
    BY <1>1, <1>3, <2>2 DEF OwedInv
<1>7. LaneTyped' /\ ReaderTyped' /\ HandleTyped' /\ WaitTyped'
  BY <1>1, <1>3 DEF WorkTyped, LaneTyped, ReaderTyped, HandleTyped, VideoMoves, handleVars
<1> QED
  BY <1>6, <1>7 DEF WorkTyped

\* What a step of the sparse reader does to the queue, the tally, the move and the wait.
RawMoves ==
  /\ \/ ack_queue' = ack_queue /\ Rects' = Rects /\ Moving' <= Moving /\ Waiting' = Waiting
     \/ ack_queue' \in {ack_queue, ack_queue + 1} /\ Rects = Rects' + 1 /\ Moving' <= Moving
        /\ Waiting' = Waiting
     \/ ack_queue' = ack_queue /\ Rects = Rects' + 1 /\ Moving = 0 /\ Waiting' = Waiting
     \/ ack_queue' = ack_queue /\ Rects = Rects' + 1 /\ Moving' = Moving /\ Waiting = 0
     \/ ack_queue' \in {ack_queue, ack_queue + 1} /\ Rects' = Rects /\ Moving' = Moving
        /\ Waiting = 1 /\ Waiting' = 0
  /\ sparse' \in Seq(Sparse) /\ raw' \in RawRec /\ WaitTyped'
  /\ raw.at \in {"top", "read", "base", "waitMove"}
  /\ raw'.at \in {"top", "read", "base", "waitMove", "finish"}

\* Every step of the sparse reader is of that kind.
LEMMA RawReadsMoves == ASSUME WorkTyped, RawReads PROVE RawMoves
<1>0. /\ sparse \in Seq(Sparse) /\ raw \in RawRec /\ WaitTyped
      /\ sparse # <<>> => /\ Tail(sparse) \in Seq(Sparse) /\ Head(sparse) \in Sparse
                          /\ Count(Tail(sparse), {"rects", "prelude"}) \in Nat
                          /\ Rects = Count(Tail(sparse), {"rects", "prelude"})
                                       + One(Head(sparse) # "preludeRaw")
      /\ Rects \in Nat /\ Moving \in {0, 1} /\ Waiting \in {0, 1} /\ ack_queue \in Nat
  BY Tallies DEF WorkTyped, LaneTyped, ReaderTyped, Moving, Waiting
<1>1. /\ Acks => ack_queue' \in {ack_queue, ack_queue + 1}
      /\ UNCHANGED sparse => Rects' = Rects
      /\ sparse' = Tail(sparse) => Rects' = Count(Tail(sparse), {"rects", "prelude"})
      /\ UNCHANGED <<rendezvous, remainder>> => Moving' = Moving
      /\ rendezvous' # "Pending" => Moving' = 0
      /\ rendezvous # "Pending" => Moving = 0
      /\ raw.at # "base" => Waiting = 0
      /\ raw.at = "base" => Waiting = 1
      /\ raw'.at # "base" => Waiting' = 0
      /\ WaitTyped /\ UNCHANGED waitVars => WaitTyped'
  BY DEF Acks, Rects, Moving, Waiting, WaitTyped, waitVars
<1>2. /\ \A p \in {"top", "read", "base", "waitMove", "finish"} :
           \A e \in End : At(p, e) \in RawRec /\ At(p, e).at = p
      /\ "none" \in End /\ "clean" \in End /\ "failed" \in End
  BY AtTyped
<1>3. ASSUME UNCHANGED <<sparse, ack_queue, base_ready, base_cancelled, rendezvous, remainder>>,
             raw' \in RawRec, raw.at \in {"top", "read", "waitMove"},
             raw'.at \in {"top", "read", "finish"}
      PROVE  RawMoves
  <2>1. Rects' = Rects /\ Moving' = Moving /\ Moving <= Moving /\ Waiting' = Waiting
    BY <1>0, <1>1, <1>3
  <2>2. WaitTyped' /\ sparse' \in Seq(Sparse)
    BY <1>0, <1>1, <1>3 DEF waitVars
  <2> QED
    BY <1>3, <2>1, <2>2 DEF RawMoves
<1>4. CASE RawTop
  <2>1. /\ raw' \in {Finishing(FALSE), At("read", "none")} /\ raw.at = "top"
        /\ UNCHANGED <<sparse, ack_queue, waitVars>>
    BY <1>4 DEF RawTop
  <2>2. Finishing(FALSE) \in RawRec /\ Finishing(FALSE).at = "finish"
    BY FinishingTyped
  <2>3. raw' \in RawRec /\ raw'.at \in {"read", "finish"}
    BY <1>2, <2>1, <2>2
  <2> QED
    BY <1>3, <2>1, <2>3 DEF waitVars
<1>5. CASE RawEof
  <2>1. raw' = Finishing(TRUE) /\ UNCHANGED <<sparse, ack_queue, waitVars>> /\ raw.at = "read"
    BY <1>5 DEF RawEof
  <2>2. raw' \in RawRec /\ raw'.at = "finish"
    BY <2>1, FinishingTyped
  <2> QED
    BY <1>3, <2>1, <2>2 DEF waitVars
<1>6. CASE RawRects
  <2>1. /\ sparse # <<>> /\ Head(sparse) = "rects" /\ sparse' = Tail(sparse) /\ raw.at = "read"
        /\ UNCHANGED <<base_ready, base_cancelled, remainder>>
    BY <1>6 DEF RawRects
  <2>2. Rects = Rects' + 1 /\ Waiting = 0 /\ sparse' \in Seq(Sparse)
    BY <1>0, <1>1, <2>1 DEF One
  <2>3. \/ /\ raw' \in {At("top", "none"), At("finish", "failed")}
           /\ ack_queue' \in {ack_queue, ack_queue + 1} /\ rendezvous' \in {rendezvous, "Idle", "Failed"}
        \/ raw' = At("base", "none") /\ UNCHANGED <<ack_queue, rendezvous>>
    BY <1>1, <1>6 DEF RawRects, Aborts
  <2>4. raw' \in RawRec /\ raw'.at \in {"top", "base", "finish"}
    BY <1>2, <2>3
  <2>5. WaitTyped'
    BY <1>0, <2>1, <2>3 DEF WaitTyped
  <2>6. CASE raw'.at # "base"
    <3>1. Waiting' = Waiting /\ raw' # At("base", "none")
      BY <1>1, <1>2, <2>2, <2>6
    <3>2. Moving' <= Moving
      <4>1. Moving' = Moving \/ Moving' = 0
        BY <1>1, <2>1, <2>3, <3>1
      <4> QED
        BY <1>0, <4>1
    <3> QED
      BY <2>1, <2>2, <2>3, <2>4, <2>5, <3>1, <3>2 DEF RawMoves
  <2>7. CASE raw'.at = "base"
    <3>1. UNCHANGED <<ack_queue, rendezvous>>
      BY <1>2, <2>3, <2>7
    <3>2. Moving' = Moving
      BY <1>1, <2>1, <3>1
    <3> QED
      BY <2>1, <2>2, <2>4, <2>5, <3>1, <3>2 DEF RawMoves
  <2> QED
    BY <2>6, <2>7
<1>7. CASE RawBase
  <2>1. /\ raw.at = "base" /\ UNCHANGED <<sparse, waitVars>>
        /\ raw' \in {At("top", "none"), At("finish", "failed")}
        /\ ack_queue' \in {ack_queue, ack_queue + 1}
    BY <1>1, <1>7 DEF RawBase
  <2>2. raw' \in RawRec /\ raw'.at \in {"top", "finish"}
    BY <1>2, <2>1
  <2>3. Rects' = Rects /\ Moving' = Moving /\ Waiting = 1 /\ Waiting' = 0
    BY <1>1, <2>1, <2>2 DEF waitVars
  <2> QED
    BY <1>0, <1>1, <2>1, <2>2, <2>3 DEF RawMoves
<1>8. CASE RawPrelude
  <2>1. /\ sparse # <<>> /\ sparse' = Tail(sparse) /\ raw.at = "read"
        /\ UNCHANGED <<ack_queue, base_ready, base_cancelled>>
    BY <1>8 DEF RawPrelude
  <2>2. /\ sparse' \in Seq(Sparse) /\ Waiting = 0 /\ Head(sparse) \in Sparse /\ Rects' \in Nat
        /\ Rects = Rects' + One(Head(sparse) # "preludeRaw")
    BY <1>0, <1>1, <2>1
  <2>3. \/ /\ raw' = At("finish", "failed") /\ rendezvous' \in {rendezvous, "Failed"}
           /\ UNCHANGED remainder
        \/ /\ raw' = At("waitMove", "none") /\ rendezvous = "Idle" /\ rendezvous' = "Pending"
           /\ remainder' = IF Head(sparse) = "preludeRaw" THEN "Raw" ELSE "None"
    BY <1>8 DEF RawPrelude, Aborts
  <2>4. raw' \in RawRec /\ raw'.at \in {"waitMove", "finish"}
    BY <1>2, <2>3
  <2>5. Waiting' = Waiting
    BY <1>1, <2>2, <2>4
  <2>6. WaitTyped'
    BY <1>0, <2>1, <2>3 DEF WaitTyped
  <2>7. CASE raw'.at = "finish"
    <3>1. rendezvous' \in {rendezvous, "Failed"} /\ UNCHANGED remainder
      BY <1>2, <2>3, <2>7
    <3>2. Moving' <= Moving
      <4>1. Moving' = Moving \/ Moving' = 0
        BY <1>1, <3>1
      <4> QED
        BY <1>0, <4>1
    <3>3. Rects' = Rects \/ Rects = Rects' + 1
      <4>1. \A x, y \in Nat : (x = y + 0 => x = y) /\ (x = y + 1 => x = y + 1)
        OBVIOUS
      <4>2. Rects = Rects' + 0 \/ Rects = Rects' + 1
        BY <2>2 DEF One
      <4> QED
        BY <1>0, <2>2, <4>1, <4>2
    <3> QED
      BY <2>1, <2>2, <2>4, <2>5, <2>6, <3>2, <3>3 DEF RawMoves
  <2>8. CASE raw'.at # "finish"
    <3>1. /\ rendezvous = "Idle" /\ rendezvous' = "Pending"
          /\ remainder' = IF Head(sparse) = "preludeRaw" THEN "Raw" ELSE "None"
      BY <1>2, <2>3, <2>8
    <3>2. Moving = 0
      BY <1>1, <3>1
    <3>3. CASE Head(sparse) = "preludeRaw"
      <4>0. \A x, y \in Nat : x = y + 0 => x = y
        OBVIOUS
      <4>1. Moving' = 0 /\ Rects' = Rects
        <5>1. Rects = Rects' + 0
          BY <2>2, <3>3 DEF One
        <5>2. Moving' = 0
          BY <3>1, <3>3 DEF Moving
        <5> QED
          BY <1>0, <2>2, <4>0, <5>1, <5>2
      <4>2. Moving' <= Moving
        BY <3>2, <4>1
      <4> QED
        BY <2>1, <2>2, <2>4, <2>5, <2>6, <4>1, <4>2 DEF RawMoves
    <3>4. CASE Head(sparse) # "preludeRaw"
      <4>1. Rects = Rects' + 1
        BY <2>2, <3>4 DEF One
      <4> QED
        BY <2>1, <2>2, <2>4, <2>5, <2>6, <3>2, <4>1 DEF RawMoves
    <3> QED
      BY <3>3, <3>4
  <2> QED
    BY <2>7, <2>8
<1>9. CASE RawMoveDone
  <2>1. /\ raw.at = "waitMove" /\ UNCHANGED <<sparse, ack_queue, waitVars>>
        /\ raw' \in {At("top", "none"), At("finish", "failed")}
    BY <1>9 DEF RawMoveDone
  <2>2. raw' \in RawRec /\ raw'.at \in {"top", "finish"}
    BY <1>2, <2>1
  <2> QED
    BY <1>3, <2>1, <2>2 DEF waitVars
<1>10. CASE RawTimesOut
  <2>1. /\ raw.at = "waitMove" /\ rendezvous' = "Failed" /\ raw' = At("finish", "failed")
        /\ UNCHANGED <<sparse, ack_queue, base_ready, base_cancelled, remainder>>
    BY <1>10 DEF RawTimesOut, Aborts
  <2>2. raw' \in RawRec /\ raw'.at = "finish"
    BY <1>2, <2>1
  <2>3. WaitTyped' /\ Rects' = Rects /\ Waiting' = Waiting /\ Moving' = 0
    BY <1>0, <1>1, <2>1, <2>2 DEF WaitTyped
  <2>4. Moving' <= Moving
    BY <1>0, <2>3
  <2> QED
    BY <1>0, <2>1, <2>2, <2>3, <2>4 DEF RawMoves
<1> QED
  BY <1>4, <1>5, <1>6, <1>7, <1>8, <1>9, <1>10 DEF RawReads

\* Neither does the sparse reader.
LEMMA RawReadsTyped == ASSUME WorkTyped, RawReads PROVE WorkTyped'
<1>1. RawMoves /\ UNCHANGED <<script, unacked, bulk, video, ack, handleVars>>
  BY RawReadsMoves DEF RawReads
<1>2. /\ ack_queue \in Nat /\ Frames \in Nat /\ Rects \in Nat /\ Moving \in Nat /\ Waiting \in Nat
      /\ unacked \in Nat
  BY Tallies DEF WorkTyped, LaneTyped, ReaderTyped, Moving, Waiting
<1>3. Moving' \in {0, 1} /\ Frames' = Frames /\ Waiting' \in {0, 1} /\ ack_queue' \in Nat
  BY <1>1, <1>2 DEF Moving, Frames, Waiting, RawMoves
<1>4. Rects' \in Nat
  BY <1>1, CountTyped DEF RawMoves, Rects
<1>5. ack_queue' + Rects' + Moving' + Waiting' <= ack_queue + Rects + Moving + Waiting
  <2>0. Moving' \in Nat /\ Waiting' \in Nat /\ Moving' <= 1 /\ Waiting' <= 1
    BY <1>3
  <2>1. CASE /\ ack_queue' = ack_queue /\ Rects' = Rects /\ Moving' <= Moving /\ Waiting' = Waiting
    <3>1. ack_queue' = ack_queue /\ Rects' <= Rects /\ Moving' <= Moving /\ Waiting' <= Waiting
      BY <1>2, <2>1
    <3> QED
      BY <1>2, <1>3, <1>4, <2>0, <3>1, TradeWait
  <2>2. CASE /\ ack_queue' \in {ack_queue, ack_queue + 1} /\ Rects = Rects' + 1
             /\ Moving' <= Moving /\ Waiting' = Waiting
    <3>1. ack_queue' <= ack_queue + 1 /\ Waiting' <= Waiting
      BY <1>2, <2>2
    <3> QED
      BY <1>2, <1>3, <1>4, <2>0, <2>2, <3>1, TradeWait
  <2>3. CASE /\ ack_queue' = ack_queue /\ Rects = Rects' + 1 /\ Moving = 0 /\ Waiting' = Waiting
    <3>1. Moving' <= Moving + 1 /\ Waiting' <= Waiting
      BY <1>2, <2>0, <2>3
    <3> QED
      BY <1>2, <1>3, <1>4, <2>0, <2>3, <3>1, TradeWait
  <2>4. CASE /\ ack_queue' = ack_queue /\ Rects = Rects' + 1 /\ Moving' = Moving /\ Waiting = 0
    <3>1. Moving' <= Moving /\ Waiting' <= Waiting + 1
      BY <1>2, <2>0, <2>4
    <3> QED
      BY <1>2, <1>3, <1>4, <2>0, <2>4, <3>1, TradeWait
  <2>5. CASE /\ ack_queue' \in {ack_queue, ack_queue + 1} /\ Rects' = Rects /\ Moving' = Moving
             /\ Waiting = 1 /\ Waiting' = 0
    <3>1. ack_queue' <= ack_queue + 1 /\ Moving' <= Moving /\ Waiting = Waiting' + 1
      BY <1>2, <2>5
    <3> QED
      BY <1>2, <1>3, <1>4, <2>0, <2>5, <3>1, TradeWait
  <2> QED
    BY <1>1, <2>1, <2>2, <2>3, <2>4, <2>5 DEF RawMoves
<1>6. OwedInv'
  <2>1. ack_queue + Frames + Rects + Moving + Waiting <= unacked
    BY DEF WorkTyped, OwedInv
  <2>2. ack_queue' + Frames + Rects' + Moving' + Waiting' <= unacked
    <3>1. Moving' \in Nat /\ Waiting' \in Nat /\ ack_queue' \in Nat
      BY <1>3
    <3>2. \A a1, r1, m1, w1 \in Nat :
            a1 + r1 + m1 + w1 <= ack_queue + Rects + Moving + Waiting
              => a1 + Frames + r1 + m1 + w1 <= unacked
      BY <1>2, <2>1, RawSum
    <3> QED
      BY <1>4, <1>5, <3>1, <3>2
  <2> QED
    BY <1>1, <1>3, <2>2 DEF OwedInv
<1>7. LaneTyped' /\ ReaderTyped' /\ HandleTyped' /\ WaitTyped'
  BY <1>1, <1>3 DEF WorkTyped, LaneTyped, ReaderTyped, HandleTyped, RawMoves, handleVars
<1> QED
  BY <1>6, <1>7 DEF WorkTyped

\* What a finishing reader does, one disjunct per step.
WorkerOutcome ==
  \/ /\ video.at = "finish" /\ Fails(video.end) /\ video' = [video EXCEPT !.at = "cancel"]
     /\ UNCHANGED <<raw, shut, base_cancelled>>
  \/ /\ video.at = "cancel" /\ video' = [video EXCEPT !.at = "shut"] /\ base_cancelled' = TRUE
     /\ UNCHANGED <<raw, stop, closes, window, shut>>
  \/ /\ video.at = "shut" /\ video' = [video EXCEPT !.at = "done"] /\ shut' = shut \cup {"input"}
     /\ UNCHANGED <<raw, stop, closes, window, base_cancelled>>
  \/ /\ raw.at = "finish" /\ Fails(raw.end) /\ raw' = [raw EXCEPT !.at = "shut"]
     /\ UNCHANGED <<video, shut, base_cancelled>>
  \/ /\ raw.at = "shut" /\ raw' = [raw EXCEPT !.at = "done"] /\ shut' = shut \cup {"video", "input"}
     /\ UNCHANGED <<video, stop, closes, window, base_cancelled>>

\* WorkerFinishes is one of the five steps listed.
LEMMA WorkerOutcomes ==
  WorkerFinishes => /\ WorkerOutcome
                    /\ UNCHANGED <<ack, ack_queue, laneVars, base_ready, rendezvous, remainder,
                                   handleVars, broken, input_end>>
                    /\ Elsewhere
  BY DEF WorkerFinishes, VideoFinishes, RawFinishes, WorkerOutcome, Elsewhere

\* What the ACK writer does, one disjunct per step.
AckOutcome ==
  \/ /\ stop /\ ack' = At("done", "clean")
     /\ UNCHANGED <<ack_queue, unacked, shut, stop, closes, window>>
  \/ /\ ack_queue > 0 /\ ack_queue' = ack_queue - 1 /\ unacked' = unacked - 1
     /\ UNCHANGED <<ack, shut, stop, closes, window>>
  \/ /\ ack_queue > 0 /\ ack_queue' = ack_queue - 1 /\ Fails("failed")
     /\ shut' = shut \cup {"video"} /\ ack' = At("done", "failed") /\ UNCHANGED unacked
  \/ /\ ack_queue > 0 /\ ack_queue' = ack_queue - 1 /\ ack' = At("done", "clean")
     /\ UNCHANGED <<unacked, shut, stop, closes, window>>

\* AckWriter is one of the four steps listed.
LEMMA AckOutcomes ==
  AckWriter => /\ ack.at = "run" /\ AckOutcome
               /\ UNCHANGED <<script, bulk, sparse, video, raw, waitVars, handleVars, broken, input_end>>
               /\ Elsewhere
  BY DEF AckWriter, AckStops, AckWrites, AckFails, AckOutcome, Elsewhere

\* A finishing reader leaves what is owed alone.
LEMMA WorkersTyped == ASSUME WorkTyped, WorkerFinishes PROVE WorkTyped'
<1>1. WorkerOutcome /\ UNCHANGED <<ack, ack_queue, laneVars, base_ready, rendezvous, remainder, handleVars>>
  BY WorkerOutcomes
<1>2. video \in VideoRec /\ raw \in RawRec /\ WaitTyped
  BY DEF WorkTyped, ReaderTyped
<1>3. video' \in VideoRec /\ raw' \in RawRec /\ base_cancelled' \in BOOLEAN
  BY <1>1, <1>2 DEF WorkerOutcome, VideoRec, RawRec, WaitTyped
<1>4. raw.at = "base" <=> raw'.at = "base"
  BY <1>1, <1>2 DEF WorkerOutcome, RawRec
<1>5. OwedInv'
  BY <1>1, <1>4 DEF WorkTyped, OwedInv, Frames, Rects, Moving, Waiting, laneVars
<1> QED
  BY <1>1, <1>2, <1>3, <1>5
     DEF WorkTyped, LaneTyped, ReaderTyped, WaitTyped, HandleTyped, laneVars, handleVars

\* An ACK written, or refused by the socket, leaves the queue.
LEMMA AckTyped == ASSUME WorkTyped, AckWriter PROVE WorkTyped'
<1>1. AckOutcome /\ UNCHANGED <<script, bulk, sparse, video, raw, waitVars, handleVars>>
  BY AckOutcomes
<1>2. /\ ack_queue \in Nat /\ Frames \in Nat /\ Rects \in Nat /\ Moving \in Nat /\ Waiting \in Nat
      /\ unacked \in Nat
  BY Tallies DEF WorkTyped, LaneTyped, ReaderTyped, Moving, Waiting
<1>3. ack_queue + Frames + Rects + Moving + Waiting <= unacked
  BY DEF WorkTyped, OwedInv
<1>4. Frames' = Frames /\ Rects' = Rects /\ Moving' = Moving /\ Waiting' = Waiting
  BY <1>1 DEF Frames, Rects, Moving, Waiting, waitVars
<1>5. /\ ack_queue' \in Nat /\ unacked' \in Nat
      /\ ack_queue' + Frames + Rects + Moving + Waiting <= unacked'
  <2>0. \A a, f, r, m, w, u \in Nat : a + f + r + m + w <= u /\ a > 0 =>
          /\ a - 1 \in Nat /\ u - 1 \in Nat
          /\ (a - 1) + f + r + m + w <= u - 1 /\ (a - 1) + f + r + m + w <= u
    OBVIOUS
  <2>1. \/ UNCHANGED <<ack_queue, unacked>>
        \/ ack_queue > 0 /\ ack_queue' = ack_queue - 1 /\ unacked' \in {unacked, unacked - 1}
    BY <1>1 DEF AckOutcome
  <2>2. ack_queue > 0 => /\ ack_queue - 1 \in Nat /\ unacked - 1 \in Nat
                         /\ (ack_queue - 1) + Frames + Rects + Moving + Waiting <= unacked - 1
                         /\ (ack_queue - 1) + Frames + Rects + Moving + Waiting <= unacked
    BY <1>2, <1>3, <2>0
  <2> QED
    BY <1>2, <1>3, <2>1, <2>2
<1>6. OwedInv'
  BY <1>4, <1>5 DEF OwedInv
<1>7. ack' \in [at : {"run", "done"}, end : End]
  BY <1>1, AtTyped DEF AckOutcome, WorkTyped, ReaderTyped
<1> QED
  BY <1>1, <1>5, <1>6, <1>7
     DEF WorkTyped, LaneTyped, ReaderTyped, WaitTyped, HandleTyped, waitVars, handleVars

\* NativeHandle::shutdown leaves the workers alone.
LEMMA ShutdownTyped == ASSUME WorkTyped, Shutdown PROVE WorkTyped'
<1>1. UNCHANGED <<laneVars, workerVars, base_ready, rendezvous, remainder>>
  BY DEF Shutdown
<1>2. base_cancelled' \in {TRUE, base_cancelled}
  BY DEF Shutdown
<1>3. handle' \in {"cancel", "shut", "join", "done"} /\ result' \in {result, Resolved}
  BY DEF Shutdown
<1>4. Resolved \in End
  BY DEF Resolved, End
<1>5. OwedInv'
  BY <1>1 DEF WorkTyped, OwedInv, Frames, Rects, Moving, Waiting, laneVars, workerVars
<1>6. LaneTyped' /\ ReaderTyped' /\ HandleTyped'
  BY <1>1, <1>3, <1>4 DEF WorkTyped, LaneTyped, ReaderTyped, HandleTyped, laneVars, workerVars
<1>7. WaitTyped'
  <2>1. base_cancelled' \in BOOLEAN
    BY <1>2 DEF WorkTyped, WaitTyped
  <2> QED
    BY <1>1, <2>1 DEF WorkTyped, WaitTyped
<1> QED
  BY <1>5, <1>6, <1>7 DEF WorkTyped

\* A step elsewhere leaves the workers' types alone.
LEMMA ElsewhereTyped ==
  ASSUME WorkTyped, UNCHANGED <<laneVars, workerVars, waitVars, handleVars>>
  PROVE  WorkTyped'
  BY DEF WorkTyped, OwedInv, Frames, Rects, Moving, Waiting, LaneTyped, ReaderTyped, WaitTyped,
         HandleTyped, laneVars, workerVars, waitVars, handleVars

\* The rest of the session leaves the input path alone, but for the stop flag, the
\* sockets and the window's state.
LEMMA RestOfSession ==
  ASSUME InputTyped, WorkTyped,
         \/ HostSends \/ Breaks \/ VideoReads \/ RawReads \/ WorkerFinishes \/ AckWriter
         \/ UserCloses \/ WindowCloses \/ Shutdown
  PROVE  Elsewhere /\ EndTyped' /\ window' \in {"open", "asked", "leaving"}
<1>0. EndTyped /\ window \in {"open", "asked", "leaving"}
  BY DEF InputTyped, WindowTyped
<1>1. CASE HostSends \/ VideoReads \/ RawReads
  BY <1>0, <1>1
     DEF HostSends, VideoReads, RawReads, Elsewhere, EndTyped, inputVars, windowVars, sharedVars,
         sessionVars, hostVars
<1>2. CASE Breaks
  BY <1>0, <1>2 DEF Breaks, Elsewhere, EndTyped, windowVars, sharedVars, hostVars, Channels
<1>3. CASE WorkerFinishes
  <2>1. WorkerOutcome /\ Elsewhere /\ UNCHANGED <<broken, input_end>>
    BY <1>3, WorkerOutcomes
  <2>2. CASE Fails(video.end) \/ Fails(raw.end)
    <3>1. stop' = TRUE /\ closes' \in Nat /\ window' \in {"open", "asked", "leaving"}
      BY <1>0, <2>2, FailsTyped DEF EndTyped
    <3>2. shut' \subseteq Channels
      BY <1>0, <2>1 DEF WorkerOutcome, EndTyped, Channels
    <3> QED
      BY <1>0, <2>1, <3>1, <3>2 DEF EndTyped
  <2>3. CASE UNCHANGED <<stop, closes, window>>
    BY <1>0, <2>1, <2>3 DEF WorkerOutcome, EndTyped, Channels
  <2> QED
    BY <2>1, <2>2, <2>3 DEF WorkerOutcome
<1>4. CASE AckWriter
  <2>1. AckOutcome /\ Elsewhere /\ UNCHANGED <<broken, input_end>>
    BY <1>4, AckOutcomes
  <2>2. CASE Fails("failed")
    <3>1. stop' = TRUE /\ closes' \in Nat /\ window' \in {"open", "asked", "leaving"}
      BY <1>0, <2>2, FailsTyped DEF EndTyped
    <3>2. shut' \subseteq Channels
      BY <1>0, <2>1 DEF AckOutcome, EndTyped, Channels
    <3> QED
      BY <1>0, <2>1, <3>1, <3>2 DEF EndTyped
  <2>3. CASE UNCHANGED <<stop, closes, window, shut>>
    BY <1>0, <2>1, <2>3 DEF EndTyped
  <2> QED
    BY <2>1, <2>2, <2>3 DEF AckOutcome
<1>5. CASE UserCloses \/ WindowCloses
  BY <1>0, <1>5 DEF UserCloses, WindowCloses, Elsewhere, EndTyped, sessionVars
<1>6. CASE Shutdown
  <2>1. Elsewhere /\ UNCHANGED <<window, broken, closes>>
    BY <1>6 DEF Shutdown, Elsewhere, windowVars, sharedVars, hostVars
  <2>2. stop' \in {TRUE, stop} /\ shut' \in {shut, Channels}
    BY <1>6 DEF Shutdown
  <2> QED
    BY <1>0, <2>1, <2>2 DEF EndTyped, Elsewhere
<1> QED
  BY <1>1, <1>2, <1>3, <1>4, <1>5, <1>6

-----------------------------------------------------------------------------
(* One failure ends the session, and the session's result says so.         *)

\* A worker that claimed the end is past its claim, and says it failed.
Blamed ==
  \/ pump.at \in {"shut", "done"} /\ input_end = "failed"
  \/ video.at \in {"cancel", "shut", "done"} /\ video.end = "failed"
  \/ raw.at \in {"shut", "done"} /\ raw.end = "failed"
  \/ ack.at = "done" /\ ack.end = "failed"

\* At most one worker claims the end, only with the stop flag, and it is blamed; once the
\* handle has joined all the workers its result is what they report.
CauseInv ==
  /\ closes \in {0, 1} /\ (stop = FALSE => closes = 0) /\ (closes = 1 => Blamed)
  /\ handle = "done" => Joined /\ result = Resolved

\* claim_terminal_failure notifies the window only if it is the first to raise the stop flag,
\* and then for a failure.
LEMMA FailsCause ==
  ASSUME NEW end, Fails(end), closes \in {0, 1}, stop \in BOOLEAN, stop = FALSE => closes = 0
  PROVE  stop' = TRUE /\ closes' \in {0, 1} /\ (closes' = 1 => closes = 1 \/ end = "failed")
  BY DEF Fails, Claims

\* native-input claims the end when it finishes, and keeps its report.
LEMMA CauseInput ==
  ASSUME InputTyped, CauseInv, InputStep, UNCHANGED <<workerVars, handleVars>>
  PROVE  CauseInv'
<1>0. /\ UNCHANGED <<video, raw, ack, handle, result>> /\ pump \in PumpRec /\ stop \in BOOLEAN
  BY DEF workerVars, handleVars, InputTyped, PumpTyped, EndTyped
<1>1. CASE UNCHANGED <<pump, sessionVars>>
  BY <1>0, <1>1 DEF CauseInv, Blamed, Joined, Resolved, sessionVars
<1>2. CASE PumpStep
  <2>1. PumpOutcome
    BY <1>2, PumpOutcomes
  <2>2. handle # "done"
    BY <2>1 DEF CauseInv, Joined, PumpOutcome
  <2>3. CASE pump.at = "finish"
    <3>1. /\ Fails(input_end) /\ input_end' = input_end /\ pump'.at = "shut"
      BY <1>0, <2>1, <2>3 DEF PumpOutcome, PumpRec
    <3>2. stop' = TRUE /\ closes' \in {0, 1} /\ (closes' = 1 => closes = 1 \/ input_end = "failed")
      BY <1>0, <3>1, FailsCause DEF CauseInv
    <3>3. Blamed => Blamed'
      BY <1>0, <2>3, <3>1 DEF Blamed
    <3>4. input_end = "failed" => Blamed'
      BY <3>1 DEF Blamed
    <3> QED
      BY <1>0, <2>2, <3>2, <3>3, <3>4 DEF CauseInv
  <2>4. CASE pump.at # "finish"
    <3>1. UNCHANGED <<stop, closes>>
      BY <2>1, <2>4 DEF PumpOutcome
    <3>2. Blamed => Blamed'
      BY <1>0, <2>1, <2>4 DEF PumpOutcome, PumpRec, Blamed
    <3> QED
      BY <1>0, <2>2, <3>1, <3>2 DEF CauseInv
  <2> QED
    BY <2>3, <2>4
<1>3. CASE HostStep \/ SwitchDesktop
  BY <1>1, <1>3 DEF HostStep, SwitchDesktop
<1>4. CASE QueueEvent
  BY <1>1, <1>4 DEF QueueEvent
<1>5. CASE \/ \E k \in Keys : Press(k) \/ Release(k)
           \/ LoseFocus \/ GainFocus \/ Click
           \/ \E p \in Positions : MovePointer(p)
  BY <1>1, <1>5 DEF Press, Release, LoseFocus, GainFocus, Click, MovePointer, User
<1> QED
  BY <1>2, <1>3, <1>4, <1>5 DEF InputStep

\* So do the readers and the ACK writer; the joined result does not change.
LEMMA CauseRest ==
  ASSUME InputTyped, WorkTyped, CauseInv,
         \/ HostSends \/ Breaks \/ VideoReads \/ RawReads \/ WorkerFinishes \/ AckWriter
         \/ UserCloses \/ WindowCloses \/ Shutdown
  PROVE  CauseInv'
<1>0. /\ video \in VideoRec /\ raw \in RawRec /\ stop \in BOOLEAN
      /\ UNCHANGED <<pump, input_end>>
  BY RestOfSession DEF WorkTyped, ReaderTyped, InputTyped, EndTyped, Elsewhere
<1>1. CASE HostSends \/ Breaks \/ UserCloses \/ WindowCloses
  <2>1. UNCHANGED <<video, raw, ack, handle, result, stop, closes>>
    BY <1>1
       DEF HostSends, Breaks, UserCloses, WindowCloses, inputVars, sessionVars, workerVars, handleVars
  <2> QED
    BY <1>0, <2>1 DEF CauseInv, Blamed, Joined, Resolved
<1>2. CASE VideoReads
  <2>1. /\ UNCHANGED <<raw, ack, handle, result, stop, closes>>
        /\ video.at \in {"top", "read", "fence", "apply", "waitRaw"}
    BY <1>2, VideoReadsMoves DEF VideoReads, VideoMoves, inputVars, sessionVars, handleVars
  <2> QED
    BY <1>0, <2>1 DEF CauseInv, Blamed, Joined
<1>3. CASE RawReads
  <2>1. /\ UNCHANGED <<video, ack, handle, result, stop, closes>>
        /\ raw.at \in {"top", "read", "base", "waitMove"}
    BY <1>3, RawReadsMoves DEF RawReads, RawMoves, inputVars, sessionVars, handleVars
  <2> QED
    BY <1>0, <2>1 DEF CauseInv, Blamed, Joined
<1>4. CASE WorkerFinishes
  <2>1. WorkerOutcome /\ UNCHANGED <<ack, handle, result>>
    BY <1>4, WorkerOutcomes DEF handleVars
  <2>2. handle # "done"
    BY <2>1 DEF CauseInv, Joined, WorkerOutcome
  <2>3. CASE Fails(video.end) /\ video' = [video EXCEPT !.at = "cancel"] /\ UNCHANGED raw
             /\ video.at = "finish"
    <3>1. stop' = TRUE /\ closes' \in {0, 1} /\ (closes' = 1 => closes = 1 \/ video.end = "failed")
      BY <1>0, <2>3, FailsCause DEF CauseInv
    <3>2. video'.at = "cancel" /\ video'.end = video.end
      BY <1>0, <2>3 DEF VideoRec
    <3>3. /\ Blamed => Blamed'
          /\ video.end = "failed" => Blamed'
      BY <1>0, <2>1, <2>3, <3>2 DEF Blamed
    <3> QED
      BY <2>1, <2>2, <3>1, <3>3 DEF CauseInv
  <2>4. CASE Fails(raw.end) /\ raw' = [raw EXCEPT !.at = "shut"] /\ UNCHANGED video
             /\ raw.at = "finish"
    <3>1. stop' = TRUE /\ closes' \in {0, 1} /\ (closes' = 1 => closes = 1 \/ raw.end = "failed")
      BY <1>0, <2>4, FailsCause DEF CauseInv
    <3>2. raw'.at = "shut" /\ raw'.end = raw.end
      BY <1>0, <2>4 DEF RawRec
    <3>3. /\ Blamed => Blamed'
          /\ raw.end = "failed" => Blamed'
      BY <1>0, <2>1, <2>4, <3>2 DEF Blamed
    <3> QED
      BY <2>1, <2>2, <3>1, <3>3 DEF CauseInv
  <2>5. CASE UNCHANGED <<stop, closes>>
    <3>1. Blamed => Blamed'
      BY <1>0, <2>1 DEF WorkerOutcome, VideoRec, RawRec, Blamed
    <3> QED
      BY <2>1, <2>2, <2>5, <3>1 DEF CauseInv
  <2> QED
    BY <2>1, <2>3, <2>4, <2>5 DEF WorkerOutcome
<1>5. CASE AckWriter
  <2>1. AckOutcome /\ ack.at = "run" /\ UNCHANGED <<video, raw, handle, result>>
    BY <1>5, AckOutcomes DEF handleVars
  <2>2. handle # "done" /\ (Blamed => Blamed')
    BY <1>0, <2>1 DEF CauseInv, Joined, Blamed
  <2>3. CASE Fails("failed") /\ ack' = At("done", "failed")
    <3>1. stop' = TRUE /\ closes' \in {0, 1}
      BY <1>0, <2>3, FailsCause DEF CauseInv
    <3>2. Blamed'
      BY <2>3, AtTyped DEF Blamed
    <3> QED
      BY <2>1, <2>2, <3>1, <3>2 DEF CauseInv
  <2>4. CASE UNCHANGED <<stop, closes>>
    BY <2>1, <2>2, <2>4 DEF CauseInv
  <2> QED
    BY <2>1, <2>3, <2>4 DEF AckOutcome
<1>6. CASE Shutdown
  <2>1. UNCHANGED <<video, raw, ack, closes>> /\ stop' \in {stop, TRUE}
    BY <1>6 DEF Shutdown, workerVars
  <2>2. handle' = "done" => Joined /\ result' = Resolved
    BY <1>6 DEF Shutdown
  <2> QED
    BY <1>0, <2>1, <2>2 DEF CauseInv, Blamed, Joined, Resolved
<1> QED
  BY <1>1, <1>2, <1>3, <1>4, <1>5, <1>6

\* One cause, never reported as a clean end.
LEMMA CauseFollows == CauseInv => OneCause
<1> SUFFICES ASSUME CauseInv PROVE OneCause
  OBVIOUS
<1>1. closes <= 1
  BY DEF CauseInv
<1>2. closes = 1 /\ handle = "done" => result = "failed"
  BY DEF CauseInv, Blamed, Resolved
<1> QED
  BY <1>1, <1>2 DEF OneCause

-----------------------------------------------------------------------------
(* The theorems.                                                           *)

IInv == InputInv /\ WorkTyped /\ CauseInv

\* The inductive invariant holds at first.
LEMMA InitHolds == Init => IInv
<1> SUFFICES ASSUME Init PROVE IInv
  OBVIOUS
<1>1. InputInv
  BY InputInvInit DEF Init
<1>2. /\ script \in Seq(Updates) /\ unacked = 0 /\ bulk = <<>> /\ sparse = <<>>
      /\ video = At("read", "none") /\ raw = At("read", "none") /\ ack = At("run", "none")
      /\ ack_queue = 0 /\ base_ready = FALSE /\ base_cancelled = FALSE
      /\ rendezvous = "Idle" /\ remainder = "None" /\ handle = "running" /\ result = "none"
      /\ stop = FALSE /\ closes = 0
  BY LoadsAssumption DEF Init, InputInit
<1>3. LaneTyped
  BY <1>2, EmptySeq DEF LaneTyped
<1>4. ReaderTyped /\ raw.at = "read"
  BY <1>2, AtTyped DEF ReaderTyped
<1>5. WaitTyped /\ HandleTyped
  BY <1>2 DEF WaitTyped, HandleTyped, End
<1>6. Frames = 0 /\ Rects = 0
  BY <1>2, CountNone DEF Frames, Rects
<1>7. Moving = 0 /\ Waiting = 0
  BY <1>2, <1>4 DEF Moving, Waiting
<1>8. OwedInv
  BY <1>2, <1>6, <1>7 DEF OwedInv
<1>9. CauseInv
  BY <1>2 DEF CauseInv
<1> QED
  BY <1>1, <1>3, <1>4, <1>5, <1>8, <1>9 DEF IInv, WorkTyped

\* Every step of the session keeps the inductive invariant.
LEMMA StepHolds == ASSUME IInv, [Next]_vars PROVE IInv'
<1>0. InputInv /\ InputTyped /\ WorkTyped /\ CauseInv
  BY DEF IInv, InputInv
<1>1. CASE InputStep /\ UNCHANGED <<laneVars, workerVars, waitVars, handleVars>>
  <2>1. InputInv' /\ WorkTyped'
    BY <1>0, <1>1, InputInvStep, ElsewhereTyped
  <2>2. CauseInv'
    BY <1>0, <1>1, CauseInput DEF workerVars, handleVars
  <2> QED
    BY <2>1, <2>2 DEF IInv
<1>2. CASE \/ HostSends \/ Breaks \/ VideoReads \/ RawReads \/ WorkerFinishes \/ AckWriter
           \/ UserCloses \/ WindowCloses \/ Shutdown
  <2>1. InputInv'
    BY <1>0, <1>2, RestOfSession, ElsewhereKeeps
  <2>2. CauseInv'
    BY <1>0, <1>2, CauseRest
  <2>4. WorkTyped'
    <3>1. CASE UserCloses \/ WindowCloses
      <4>1. UNCHANGED <<laneVars, workerVars, waitVars, handleVars>>
        BY <3>1 DEF UserCloses, WindowCloses
      <4> QED
        BY <1>0, <4>1, ElsewhereTyped
    <3>2. CASE HostSends \/ Breaks
      BY <1>0, <3>2, HostSendsTyped, BreaksTyped
    <3>3. CASE VideoReads \/ RawReads
      BY <1>0, <3>3, VideoReadsTyped, RawReadsTyped
    <3>4. CASE WorkerFinishes \/ AckWriter
      BY <1>0, <3>4, WorkersTyped, AckTyped
    <3>5. CASE Shutdown
      BY <1>0, <3>5, ShutdownTyped
    <3> QED
      BY <1>2, <3>1, <3>2, <3>3, <3>4, <3>5
  <2> QED
    BY <2>1, <2>2, <2>4 DEF IInv
<1>3. CASE UNCHANGED vars
  <2>1. /\ Elsewhere /\ UNCHANGED <<stop, shut, broken, closes, window>>
        /\ UNCHANGED <<laneVars, workerVars, waitVars, handleVars>>
    BY <1>3 DEF vars, inputVars, windowVars, sessionVars, Elsewhere
  <2>2. EndTyped' /\ window' \in {"open", "asked", "leaving"}
    BY <1>0, <2>1 DEF InputTyped, EndTyped, WindowTyped, Elsewhere
  <2>3. InputInv' /\ WorkTyped'
    BY <1>0, <2>1, <2>2, ElsewhereKeeps, ElsewhereTyped
  <2>4. CauseInv'
    BY <1>0, <2>1
       DEF CauseInv, Blamed, Joined, Resolved, Elsewhere, workerVars, handleVars
  <2> QED
    BY <2>3, <2>4 DEF IInv
<1> QED
  BY <1>1, <1>2, <1>3 DEF Next

\* The inductive invariant holds in every behaviour.
LEMMA InvariantHolds == Spec => []IInv
  BY InitHolds, StepHolds, PTL DEF Spec

\* The type invariant follows; that the ACK queue is never longer than what is unacknowledged
\* follows from OwedInv.
LEMMA TypesFollow == InputTyped /\ WorkTyped => TypeOK
<1> SUFFICES ASSUME InputTyped, WorkTyped PROVE TypeOK
  OBVIOUS
<1>1. InputTypeOK
  BY DEF InputTyped, InputTypeOK, PumpTyped, PumpRec, WindowTyped, EndTyped, HostTyped
<1>2. ack_queue <= unacked
  <2>1. \A a, f, r, m, w, u \in Nat : a + f + r + m + w <= u => a <= u
    OBVIOUS
  <2>2. /\ ack_queue \in Nat /\ Frames \in Nat /\ Rects \in Nat /\ Moving \in Nat
        /\ Waiting \in Nat /\ unacked \in Nat
    BY Tallies DEF WorkTyped, LaneTyped, ReaderTyped, Moving, Waiting
  <2> QED
    BY <2>1, <2>2 DEF WorkTyped, OwedInv
<1> QED
  BY <1>1, <1>2
     DEF TypeOK, WorkTyped, LaneTyped, ReaderTyped, WaitTyped, HandleTyped, Bulk, Sparse, VideoRec,
         RawRec

\* In every reachable state the types are right, what is held down on the host is what the
\* window's ledger says once everything sent has arrived (HostFollowsLedger), no key that is
\* down is forgotten by the host's release (NoKeyForgotten), and native-input does not wait 250
\* ms on an event whose bell it has drained (NoSleepOnWork): session.rs queue_input_event and
\* pump_input with win/input.rs, for any number of keys, positions, batch size and socket
\* depth.
THEOREM SessionInvariant == Spec => []SessionInv
<1>1. IInv => SessionInv
  BY TypesFollow, KeysFollow, AwakeFollows DEF IInv, InputInv, SessionInv
<1> QED
  BY <1>1, InvariantHolds, PTL

\* In every reachable state in which everything sent has arrived, the remote pointer is where
\* the local one is, unless a click was queued between native-input's look into the queue and
\* its look into the slot (next_native_input).
THEOREM PointerInvariant == Spec => []PointerFollows
<1>1. IInv => PointerFollows
  BY PointerFollow DEF IInv, InputInv
<1> QED
  BY <1>1, InvariantHolds, PTL

\* In every reachable state at most one of the failures that race for the end has asked the
\* window to close, and shutdown then reports a failure (claim_terminal_failure,
\* resolve_native_end).
THEOREM CauseInvariant == Spec => []OneCause
<1>1. IInv => OneCause
  BY CauseFollows DEF IInv
<1> QED
  BY <1>1, InvariantHolds, PTL

===============================================================================

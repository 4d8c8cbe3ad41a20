------------------------------ MODULE NativeInput ------------------------------
(***************************************************************************)
(* Keys, buttons and the pointer from the window to the host's desktop:    *)
(* the window's key ledger (src/input.rs, src/window.rs), the reliable     *)
(* queue, the latest-position slot and the doorbell (src/wake.rs), the     *)
(* native-input thread (native/session.rs pump_input) and the host's input *)
(* listener (win/input.rs, input_state.rs).  NativeSession adds the rest   *)
(* of the session around it.                                               *)
(*                                                                         *)
(* A key stands for a scancode; a button event for every reliable event    *)
(* that carries a position of its own, button transitions and wheel        *)
(* notches.  Held buttons are kept like held keys and are not modelled.    *)
(* The two records of a button event travel as one.                        *)
(***************************************************************************)
EXTENDS Integers, Sequences, SequencesExt

CONSTANTS
  Keys, Positions,
  NATIVE_INPUT_BATCH_MAX,
  WireDepth  \* records the socket takes before a write blocks

ASSUME InputAssumption ==
  /\ NATIVE_INPUT_BATCH_MAX \in Nat \ {0} /\ WireDepth \in Nat \ {0}
  /\ Positions # {} /\ Positions \subseteq Nat

VARIABLES
  pressed,   \* keys the user holds (external)
  ledger,    \* KeyLedger
  focused, cursor,
  todo,      \* events the window's handler has still to send
  sending,   \* where queue_input_event is with Head(todo)
  window,    \* "open", "asked" to close by a worker, "leaving" its event loop
  queue, latest, receiver_alive, bell,
  pump,      \* native-input: place, events drained, timeout zero, event in hand
  stop,      \* the session's stop flag
  shut,      \* sockets the client has shut down
  broken,    \* sockets the other end has closed
  closes,    \* history: close events sent to the window
  input_end, \* what native-input reported
  wire, host, desktop, attached, down, held_inputs, pointer,
  lost,      \* history: keys one of whose events never took effect
  leaked,    \* history: keys whose release never took effect
  overtaken, \* history: a button was queued between the pump's two looks
  events, faults, endings  \* what is left of the bounds: window events, injections
                  \* refused or desktop switches, and ends the environment brings about

windowVars == <<pressed, ledger, focused, cursor, todo, sending, window>>
sharedVars == <<queue, latest, receiver_alive, bell>>
sessionVars == <<stop, shut, broken, closes, input_end>>
hostVars == <<wire, host, desktop, attached, down, held_inputs, pointer, lost, leaked>>
inputVars == <<windowVars, sharedVars, pump, sessionVars, hostVars, overtaken, events, faults, endings>>

Channels == {"video", "input", "sparse"}
NoPosition == -1
Position == Positions \cup {NoPosition}
KeyEvent(k, d) == [kind |-> "key", key |-> k, down |-> d]
ButtonEvent(p) == [kind |-> "button", at |-> p]
MoveEvent(p) == [kind |-> "move", at |-> p]
Reliable == [kind : {"key"}, key : Keys, down : BOOLEAN] \cup [kind : {"button"}, at : Positions]
Event == Reliable \cup [kind : {"move"}, at : Positions]
Nothing == [kind |-> "none"]

InputTypeOK ==
  /\ pressed \subseteq Keys /\ ledger \subseteq Keys /\ focused \in BOOLEAN
  /\ cursor \in Position /\ todo \in Seq(Event)
  /\ sending \in {"clear", "send", "ring"} /\ window \in {"open", "asked", "leaving"}
  /\ queue \in Seq(Reliable) /\ latest \in Position
  /\ receiver_alive \in BOOLEAN /\ bell \in BOOLEAN
  /\ pump \in [at : {"top", "wait", "drain", "recv", "latest", "write", "finish", "shut", "done"},
               n : 0 .. NATIVE_INPUT_BATCH_MAX, zero : BOOLEAN, event : Event \cup {Nothing}]
  /\ stop \in BOOLEAN /\ shut \subseteq Channels /\ broken \subseteq Channels
  /\ closes \in Nat /\ input_end \in {"none", "failed"}
  /\ wire \in Seq(Event) /\ Len(wire) <= WireDepth
  /\ host \in {"serving", "ended"} /\ desktop \in 0 .. 1 /\ attached \in 0 .. 1
  /\ down \subseteq Keys /\ held_inputs \subseteq Keys /\ pointer \in Position
  /\ lost \subseteq Keys /\ leaked \subseteq Keys /\ overtaken \in BOOLEAN

InputInit ==
  /\ pressed = {} /\ ledger = {} /\ focused = TRUE /\ cursor = NoPosition
  /\ todo = <<>> /\ sending = "clear" /\ window = "open"
  /\ queue = <<>> /\ latest = NoPosition /\ receiver_alive = TRUE /\ bell = FALSE
  /\ pump = [at |-> "wait", n |-> 0, zero |-> FALSE, event |-> Nothing]
  /\ stop = FALSE /\ shut = {} /\ broken = {} /\ closes = 0 /\ input_end = "none"
  /\ wire = <<>> /\ host = "serving" /\ desktop = 0 /\ attached = 0
  /\ down = {} /\ held_inputs = {} /\ pointer = NoPosition /\ lost = {} /\ leaked = {}
  /\ overtaken = FALSE

-----------------------------------------------------------------------------
(* The window's thread.                                                    *)

User == window # "leaving" /\ todo = <<>> /\ events > 0 /\ events' = events - 1
        /\ UNCHANGED <<sending, window, sharedVars, pump, sessionVars, hostVars, overtaken,
                       faults, endings>>

\* A press, or its auto-repeat.
Press(k) ==
  /\ User /\ focused
  /\ pressed' = pressed \cup {k} /\ ledger' = ledger \cup {k}
  /\ todo' = <<KeyEvent(k, TRUE)>> /\ UNCHANGED <<focused, cursor>>

\* A release is forwarded for a key the host saw go down.
Forwarded(k) == IF k \in ledger THEN <<KeyEvent(k, FALSE)>> ELSE <<>>

Release(k) ==
  /\ User /\ k \in pressed /\ pressed' = pressed \ {k}
  /\ IF focused THEN ledger' = ledger \ {k} /\ todo' = Forwarded(k)
     ELSE UNCHANGED <<ledger, todo>>
  /\ UNCHANGED <<focused, cursor>>

\* Mutant: nothing is released when the focus goes.
BugReleases == <<>>

Releases == LET ks == SetToSeq(ledger) IN [i \in DOMAIN ks |-> KeyEvent(ks[i], FALSE)]

LoseFocus ==
  /\ User /\ focused /\ focused' = FALSE /\ todo' = Releases /\ ledger' = {}
  /\ UNCHANGED <<pressed, cursor>>

\* Presses replayed by the window system are synthetic, and dropped.
GainFocus == /\ User /\ ~focused /\ focused' = TRUE
             /\ UNCHANGED <<pressed, ledger, cursor, todo>>

MovePointer(p) == /\ User /\ cursor' = p /\ todo' = <<MoveEvent(p)>>
                  /\ UNCHANGED <<pressed, ledger, focused>>

Click == /\ User /\ cursor # NoPosition /\ todo' = <<ButtonEvent(cursor)>>
         /\ UNCHANGED <<pressed, ledger, focused, cursor>>

Leaves == window' = "leaving" /\ todo' = <<>> /\ sending' = "clear"

\* queue_input_event
QueueEvent ==
  /\ window # "leaving" /\ todo # <<>>
  /\ LET e == Head(todo)
     IN CASE sending = "clear" /\ e.kind = "button" ->
               /\ latest' = NoPosition /\ sending' = "send"
               /\ UNCHANGED <<todo, window, queue, bell, overtaken>>
          [] sending = "ring" ->
               /\ bell' = TRUE /\ sending' = "clear" /\ todo' = Tail(todo)
               /\ UNCHANGED <<window, queue, latest, overtaken>>
          [] e.kind = "move" /\ sending = "clear" ->
               IF receiver_alive
               THEN latest' = e.at /\ sending' = "ring"
                    /\ UNCHANGED <<todo, window, queue, bell, overtaken>>
               ELSE Leaves /\ UNCHANGED <<queue, latest, bell, overtaken>>
          [] OTHER ->
               IF pump.at \notin {"finish", "shut", "done"}
               THEN /\ queue' = Append(queue, e) /\ sending' = "ring"
                    /\ overtaken' = (overtaken \/ (pump.at = "latest" /\ e.kind = "button"))
                    /\ UNCHANGED <<todo, window, latest, bell>>
               ELSE Leaves /\ UNCHANGED <<queue, latest, bell, overtaken>>
  /\ UNCHANGED <<pressed, ledger, focused, cursor, receiver_alive, pump, sessionVars, hostVars,
                 events, faults, endings>>

-----------------------------------------------------------------------------
(* native-input: pump_input.                                               *)

Goes(place) == pump' = [pump EXCEPT !.at = place]
\* Mutant: every failing worker notifies the window.
BugClaims == TRUE

\* claim_terminal_failure
Claims == ~stop

Fails(end) ==
  /\ stop' = TRUE
  /\ IF end = "failed" /\ Claims
     THEN closes' = closes + 1 /\ window' = IF window = "open" THEN "asked" ELSE window
     ELSE UNCHANGED <<closes, window>>

Gone(c) == c \in shut \cup broken
PumpEnds(failed) ==
  /\ input_end' = IF failed /\ ~stop THEN "failed" ELSE "none"
  /\ Goes("finish")

PumpTop ==
  /\ pump.at = "top"
  /\ IF stop THEN PumpEnds(FALSE) ELSE Goes("wait") /\ UNCHANGED input_end
  /\ UNCHANGED sharedVars

\* wait_readable: the socket, the bell, or 250 ms.
PumpWakes ==
  /\ pump.at = "wait"
  /\ IF Gone("input") THEN PumpEnds(TRUE)
     ELSE UNCHANGED input_end /\ pump' = [pump EXCEPT !.at = IF bell THEN "drain" ELSE "recv",
                                                      !.n = 0]
  /\ UNCHANGED sharedVars

\* Rings are swallowed before the queues are looked at.
BellAfter(place) == IF place = "drain" THEN FALSE ELSE bell

PumpDrainsBell ==
  /\ pump.at = "drain" /\ bell' = BellAfter("drain") /\ Goes("recv")
  /\ UNCHANGED <<queue, latest, receiver_alive, input_end>>

BatchDone(full) == pump' = [pump EXCEPT !.at = "top", !.zero = full, !.event = Nothing]

\* Mutant: motion goes first.
BugReliableFirst == latest = NoPosition

ReliableFirst == TRUE

BatchFull == pump.n = NATIVE_INPUT_BATCH_MAX

\* next_native_input: the reliable queue, and only then the latest position.
PumpReceives ==
  /\ pump.at = "recv"
  /\ IF BatchFull THEN BatchDone(TRUE) /\ UNCHANGED queue
     ELSE IF queue # <<>> /\ ReliableFirst
     THEN /\ queue' = Tail(queue)
          /\ pump' = [pump EXCEPT !.at = "write", !.event = Head(queue)]
     ELSE Goes("latest") /\ UNCHANGED queue
  /\ UNCHANGED <<latest, receiver_alive, bell, input_end>>

PumpTakesLatest ==
  /\ pump.at = "latest" /\ latest' = NoPosition
  /\ IF latest = NoPosition THEN BatchDone(FALSE)
     ELSE pump' = [pump EXCEPT !.at = "write", !.event = MoveEvent(latest)]
  /\ bell' = BellAfter("latest") /\ UNCHANGED <<queue, receiver_alive, input_end>>

\* write_record_until: the socket takes the record, or a deadline or an error ends the pump.
PumpWrites ==
  /\ pump.at = "write"
  /\ \/ /\ "input" \notin shut /\ Len(wire) < WireDepth
        /\ wire' = Append(wire, pump.event) /\ UNCHANGED input_end
        /\ pump' = [pump EXCEPT !.at = "recv", !.n = @ + 1, !.event = Nothing]
        /\ UNCHANGED endings
     \/ /\ Gone("input") /\ PumpEnds(TRUE) /\ UNCHANGED <<wire, endings>>
     \/ /\ ~Gone("input") /\ Len(wire) = WireDepth /\ endings > 0 /\ endings' = endings - 1
        /\ PumpEnds(TRUE) /\ UNCHANGED wire
  /\ UNCHANGED sharedVars

\* finish_input_worker
PumpFinishes == pump.at = "finish" /\ Fails(input_end) /\ Goes("shut")

PumpShuts ==
  /\ pump.at = "shut" /\ receiver_alive' = FALSE /\ latest' = NoPosition
  /\ shut' = shut \cup {"video"} /\ Goes("done")

Pump ==
  \/ /\ PumpTop \/ PumpWakes \/ PumpDrainsBell \/ PumpReceives \/ PumpTakesLatest
     /\ UNCHANGED <<wire, windowVars, stop, shut, closes, endings>>
  \/ PumpWrites /\ UNCHANGED <<windowVars, stop, shut, closes>>
  \/ /\ PumpFinishes
     /\ UNCHANGED <<wire, shut, input_end, sharedVars, pressed, ledger, focused, cursor, todo,
                    sending, endings>>
  \/ PumpShuts /\ UNCHANGED <<wire, windowVars, stop, closes, input_end, queue, bell, endings>>

PumpStep ==
  Pump /\ UNCHANGED <<broken, host, desktop, attached, down, held_inputs, pointer, lost, leaked,
                      overtaken, events, faults>>

-----------------------------------------------------------------------------
(* The host's input listener.                                              *)

\* What may come of one SendInput: send_one, deliver_with_desktop_sync.
Outcomes(sync_due) ==
  {"lands"} \cup (IF attached # desktop /\ ~sync_due THEN {"swallowed"} ELSE {})
            \cup (IF faults > 0 THEN {"refused"} ELSE {})

Attaches(outcome) == attached' = IF outcome = "lands" THEN desktop ELSE attached

Booked(outcome) == outcome # "refused"

With(set, k, d) == IF d THEN set \cup {k} ELSE set \ {k}

InjectKey(e, outcome) ==
  /\ down' = IF outcome = "lands" THEN With(down, e.key, e.down) ELSE down
  /\ held_inputs' = IF Booked(outcome) THEN With(held_inputs, e.key, e.down) ELSE held_inputs
  /\ lost' = IF outcome = "lands" THEN lost ELSE lost \cup {e.key}
  /\ leaked' = IF outcome = "swallowed" /\ ~e.down THEN leaked \cup {e.key} ELSE leaked
  /\ UNCHANGED pointer

InjectPosition(e, outcome) ==
  /\ pointer' = e.at /\ outcome = "lands"
  /\ UNCHANGED <<down, held_inputs, lost, leaked>>

\* serve_one, handle_record
HostServes ==
  /\ host = "serving" /\ wire # <<>> /\ wire' = Tail(wire)
  /\ \E sync_due \in BOOLEAN : \E outcome \in Outcomes(sync_due) :
       /\ Attaches(outcome)
       /\ faults' = IF outcome = "refused" THEN faults - 1 ELSE faults
       /\ IF Head(wire).kind = "key" THEN InjectKey(Head(wire), outcome)
          ELSE InjectPosition(Head(wire), outcome)
  /\ UNCHANGED <<host, desktop>>

Released(refused) == held_inputs \ refused

\* The connection ends: release_held.
HostEnds ==
  /\ host = "serving" /\ host' = "ended"
  /\ "input" \in broken \/ ("input" \in shut /\ wire = <<>>)
  /\ wire' = <<>>
  /\ \E refused \in IF faults > 0 THEN SUBSET held_inputs ELSE {{}} :
       /\ down' = down \ Released(refused)
       /\ lost' = lost \cup refused /\ leaked' = leaked \cup refused
       /\ faults' = IF refused = {} THEN faults ELSE faults - 1
  /\ held_inputs' = {} /\ attached' = desktop /\ UNCHANGED <<desktop, pointer>>

HostStep ==
  /\ HostServes \/ HostEnds
  /\ UNCHANGED <<windowVars, sharedVars, pump, sessionVars, overtaken, events, endings>>

\* The desktop is locked or unlocked.
SwitchDesktop ==
  /\ faults > 0 /\ faults' = faults - 1 /\ desktop' = 1 - desktop
  /\ UNCHANGED <<windowVars, sharedVars, pump, sessionVars, wire, host, attached, down,
                 held_inputs, pointer, lost, leaked, overtaken, events, endings>>

InputStep ==
  \/ \E k \in Keys : Press(k) \/ Release(k)
  \/ LoseFocus \/ GainFocus \/ Click \/ \E p \in Positions : MovePointer(p)
  \/ QueueEvent \/ PumpStep \/ HostStep \/ SwitchDesktop

-----------------------------------------------------------------------------
Quiet ==
  /\ todo = <<>> /\ queue = <<>> /\ latest = NoPosition /\ wire = <<>>
  /\ pump.event = Nothing /\ pump.at \in {"top", "wait"} /\ host = "serving"

(* When everything sent has arrived, the host holds down exactly the keys  *)
(* the window's ledger says it does, and none once the window has lost the *)
(* focus: no key is stuck because the focus, a batch or another event came *)
(* between its press and its release.                                      *)
HostFollowsLedger ==
  Quiet => /\ down \ lost = ledger \ lost
           /\ focused \/ down \subseteq lost

(* And the remote pointer is where the local one is, unless a click was    *)
(* queued after the pump found the queue empty and before it took a        *)
(* position that is newer than the click.                                  *)
PointerFollows == Quiet => pointer = cursor \/ overtaken

(* The host forgets no key it has pressed: whatever Windows refused on the *)
(* way, a key that is down will be released when the connection ends, and  *)
(* nothing is down once it has ended.                                      *)
NoKeyForgotten == down \subseteq held_inputs \cup leaked

(* The pump never goes to sleep for its 250 ms on an event whose bell it   *)
(* has already drained.                                                    *)
NoSleepOnWork ==
  (pump.at = "wait" /\ ~pump.zero /\ (queue # <<>> \/ latest # NoPosition)) =>
    bell \/ sending = "ring"
===============================================================================

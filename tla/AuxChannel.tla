------------------------------ MODULE AuxChannel ------------------------------
(***************************************************************************)
(* The auxiliary channel between the native client and the host: at each   *)
(* end a clipboard of the operating system, the bridge that decides what   *)
(* to send and what to apply (clipboard.rs), a thread that polls the       *)
(* clipboard, a thread that applies what arrives, and the outbox that      *)
(* shares the socket between audio and the clipboard (auxchan.rs).  The    *)
(* client's half is src/native/session.rs, the host's aux_server.rs.       *)
(*                                                                         *)
(* A text is its canonical (LF) form, the only form the bridge compares;   *)
(* the host's clipboard keeps the text Rough as Smooth and the client's    *)
(* Smooth as Rough, for the mangling that canonicalisation does not undo.  *)
(***************************************************************************)
EXTENDS Naturals, Sequences, FiniteSets

CONSTANTS Texts, Rough, Smooth, \* texts, and the two the clipboards mangle
          TooLarge,     \* texts over the ceiling
          NonText,      \* the clipboard holds something that is not text
          Start,        \* what a clipboard may hold when the channel starts
          AudioFifo,    \* AUDIO_FIFO_FRAMES
          Burst,        \* AUDIO_BURST_BEFORE_CLIPBOARD
          WireCap,      \* messages the socket and the writer's hand hold
          MaxCopies,    \* bound: copies the user makes
          MaxSlips,     \* bound: polls whose read and decision straddle a write and its note
          MaxFails      \* bound: read-backs and writes the clipboard refuses

Ends == {"client", "host"}
Peer(e) == IF e = "client" THEN "host" ELSE "client"
Stored(e, t) == CASE e = "host" /\ t = Rough -> Smooth
                  [] e = "client" /\ t = Smooth -> Rough
                  [] OTHER -> t
Held == Texts \cup {NonText}

ASSUME AuxAssumption ==
    /\ {Rough, Smooth} \subseteq Texts /\ TooLarge \subseteq Texts /\ NonText \notin Texts
    /\ Start \subseteq (Texts \ {Rough, Smooth}) \cup {NonText}
    /\ AudioFifo \in Nat \ {0} /\ Burst \in Nat \ {0} /\ WireCap \in Nat \ {0}
    /\ MaxCopies \in Nat /\ MaxSlips \in Nat /\ MaxFails \in Nat

VARIABLES
    os,        \* os[e]: what the clipboard of end e holds
    seen,      \* seen[e]: Bridge::last_observed
    poll,      \* poll[e]: the polling thread, and what it has read
    apply,     \* apply[e]: the write of a remote text under way
    deferred,  \* ClipboardSeedState::pending_remote, as its number, 0 for none
    log,       \* log[e]: texts put into the outbox of e, in order
    box,       \* box[e]: number of the text waiting in the outbox, 0 for none
    audio,     \* frames queued in the host's outbox
    run,       \* OutboxState::audio_run of the host
    wire,      \* wire[e]: messages sent by e, a number each, 0 for audio
    received,  \* received[e]: number of the last text of e its peer has read
    closed,    \* the client's outbox is closed
    sock,      \* the socket still carries messages
    copied, copies, slips, fails \* history: ends copied at, how often;

osVars == <<copied, copies>>
vars == <<os, seen, poll, apply, deferred, log, box, audio, run, wire, received,
          closed, sock, copied, copies, slips, fails>>

PollState == [pc : {"seed", "seeded", "drain", "idle", "read"}, text : Held]
ApplyState == [pc : {"idle", "write", "readback"}, text : Held]

TypeOK ==
    /\ os \in [Ends -> Held] /\ seen \in [Ends -> Held]
    /\ poll \in [Ends -> PollState] /\ apply \in [Ends -> ApplyState]
    /\ log \in [Ends -> Seq(Texts \ TooLarge)]
    /\ \A e \in Ends : box[e] \in 0 .. Len(log[e]) /\ received[e] \in 0 .. Len(log[e])
    /\ deferred \in 0 .. Len(log["host"])
    /\ audio \in 0 .. AudioFifo /\ run \in 0 .. Burst
    /\ \A e \in Ends : Len(wire[e]) <= WireCap
    /\ closed \in BOOLEAN /\ sock \in BOOLEAN
    /\ copied \subseteq Ends /\ copies \in 0 .. MaxCopies
    /\ slips \in 0 .. MaxSlips /\ fails \in 0 .. MaxFails

At(pc) == [pc |-> pc, text |-> NonText]

(* The host seeds its bridge before a thread runs; the client's polling    *)
(* thread does it while the reader is already running.                     *)
Init ==
    /\ os \in [Ends -> Start]
    /\ seen = [e \in Ends |-> IF e = "host" THEN os["host"] ELSE NonText]
    /\ poll = [e \in Ends |-> At(IF e = "host" THEN "idle" ELSE "seed")]
    /\ apply = [e \in Ends |-> At("idle")]
    /\ deferred = 0
    /\ log = [e \in Ends |-> <<>>] /\ wire = [e \in Ends |-> <<>>]
    /\ box = [e \in Ends |-> 0] /\ received = [e \in Ends |-> 0]
    /\ audio = 0 /\ run = 0 /\ closed = FALSE /\ sock = TRUE
    /\ copied = {} /\ copies = 0 /\ slips = 0 /\ fails = 0

Seeded(e) == poll[e].pc \notin {"seed", "seeded"}

(* The user puts a text on the clipboard of one end. *)
UserCopies(e, t) ==
    /\ copies < MaxCopies /\ copies' = copies + 1 /\ copied' = copied \cup {e}
    /\ os' = [os EXCEPT ![e] = Stored(e, t)]
    /\ UNCHANGED <<seen, poll, apply, deferred, log, box, audio, run, wire, received,
                   closed, sock, slips, fails>>

(* A poll between its read and its decision while a remote text is between *)
(* its write and its note.                                                 *)
Straddles(yes) == IF yes THEN slips < MaxSlips /\ slips' = slips + 1 ELSE UNCHANGED slips

(* poll_local reads the clipboard, then decides under the bridge's lock;   *)
(* the lock is not held across the read.                                   *)
PollReads(e) ==
    /\ poll[e].pc = "idle" /\ os[e] # NonText /\ sock
    /\ ~(e = "client" /\ closed)
    /\ poll' = [poll EXCEPT ![e] = [pc |-> "read", text |-> os[e]]]
    /\ Straddles(apply[e].pc = "readback")
    /\ UNCHANGED <<os, seen, apply, deferred, log, box, audio, run, wire, received,
                   closed, sock, osVars, fails>>

Put(e, t) == /\ log' = [log EXCEPT ![e] = Append(@, t)]
             /\ box' = [box EXCEPT ![e] = Len(log[e]) + 1]

(* Bridge::on_local_change, and Outbox::put_clipboard, which a closed box  *)
(* ignores.                                                                *)
PollDecides(e) ==
    LET t == poll[e].text
        sends == t # seen[e] /\ t \notin TooLarge /\ ~(e = "client" /\ closed)
    IN  /\ poll[e].pc = "read"
        /\ poll' = [poll EXCEPT ![e] = At("idle")]
        /\ seen' = [seen EXCEPT ![e] = t]
        /\ IF sends THEN Put(e, t) ELSE UNCHANGED <<log, box>>
        /\ UNCHANGED <<os, apply, deferred, audio, run, wire, received, closed, sock,
                       osVars, slips, fails>>

(* The host's audio thread: put_audio drops the oldest frame of a full     *)
(* queue, so the queue stays full.                                         *)
Queued == IF audio = AudioFifo THEN audio ELSE audio + 1

PutAudio ==
    /\ audio' = Queued
    /\ UNCHANGED <<os, seen, poll, apply, deferred, log, box, run, wire, received, closed,
                   sock, osVars, slips, fails>>

AudioDue(e) == e = "host" /\ audio > 0

(* Outbox::next: audio goes first, but a waiting text goes after at most   *)
(* Burst frames.  A closed box discards its audio; the client's holds none.*)
BugTextDue(e) == box[e] # 0 /\ ~AudioDue(e)

TextDue(e) == box[e] # 0 /\ (~AudioDue(e) \/ run >= Burst)

(* pump_writer: one message from the outbox to the socket.  A write that   *)
(* finds the socket full waits.                                            *)
WriteText(e) ==
    /\ sock /\ Len(wire[e]) < WireCap /\ TextDue(e)
    /\ wire' = [wire EXCEPT ![e] = Append(@, box[e])]
    /\ box' = [box EXCEPT ![e] = 0]
    /\ run' = IF e = "host" THEN 0 ELSE run
    /\ UNCHANGED <<os, seen, poll, apply, deferred, log, audio, received, closed, sock,
                   osVars, slips, fails>>

(* Audio_run keeps counting while no text waits; past Burst it only matters *)
(* that it is past it.                                                     *)
WriteAudio ==
    /\ sock /\ Len(wire["host"]) < WireCap /\ AudioDue("host") /\ ~TextDue("host")
    /\ wire' = [wire EXCEPT !["host"] = Append(@, 0)]
    /\ audio' = audio - 1
    /\ run' = IF run < Burst THEN run + 1 ELSE run
    /\ UNCHANGED <<os, seen, poll, apply, deferred, log, box, received, closed, sock,
                   osVars, slips, fails>>

(* Bridge::on_remote_text: what end e will do about text t. *)
Applies(e, t) == t # seen[e]

(* The reader of end e takes one message: audio is handed on without       *)
(* waiting; a text is deferred while the client is still seeding, dropped  *)
(* when the bridge already saw it, and applied otherwise.  The reader is   *)
(* busy until the write it started, or the one of the seeding thread that  *)
(* holds the seed lock, is over.                                           *)
Receive(e) ==
    LET p == Peer(e)
        n == Head(wire[p])
    IN  /\ wire[p] # <<>> /\ sock /\ apply[e].pc = "idle"
        /\ wire' = [wire EXCEPT ![p] = Tail(@)]
        /\ received' = IF n = 0 THEN received ELSE [received EXCEPT ![p] = n]
        /\ IF n = 0 \/ (e = "client" /\ closed)
           THEN UNCHANGED <<deferred, apply>>
           ELSE IF ~Seeded(e)
           THEN deferred' = n /\ UNCHANGED apply
           ELSE /\ UNCHANGED deferred
                /\ apply' = IF Applies(e, log[p][n])
                            THEN [apply EXCEPT ![e] = [pc |-> "write", text |-> log[p][n]]]
                            ELSE apply
        /\ UNCHANGED <<os, seen, poll, log, box, audio, run, closed, sock, osVars,
                       slips, fails>>

(* apply_remote: the write, outside the bridge's lock.                     *)
ApplyWrites(e) ==
    /\ apply[e].pc = "write"
    /\ os' = [os EXCEPT ![e] = Stored(e, apply[e].text)]
    /\ apply' = [apply EXCEPT ![e].pc = "readback"]
    /\ Straddles(poll[e].pc = "read")
    /\ UNCHANGED <<seen, poll, deferred, log, box, audio, run, wire, received, closed, sock,
                   osVars, fails>>

AfterApply(e) == /\ apply' = [apply EXCEPT ![e] = At("idle")]
                 /\ poll' = [poll EXCEPT ![e] = IF @.pc = "drain" THEN At("idle") ELSE @]

(* The clipboard refuses the write: the text is dropped. *)
ApplyFails(e) ==
    /\ apply[e].pc = "write" /\ fails < MaxFails
    /\ fails' = fails + 1
    /\ AfterApply(e)
    /\ UNCHANGED <<os, seen, deferred, log, box, audio, run, wire, received, closed, sock,
                   osVars, slips>>

(* The read-back, and Bridge::note_applied: what the clipboard holds now,  *)
(* or what was asked for when it cannot be read.                           *)
BugNoted(e, t) == t

Noted(e, t) == IF os[e] = NonText THEN t ELSE os[e]

ApplyNotes(e) ==
    /\ apply[e].pc = "readback"
    /\ \/ seen' = [seen EXCEPT ![e] = Noted(e, apply[e].text)] /\ UNCHANGED fails
       \/ /\ fails < MaxFails /\ fails' = fails + 1
          /\ seen' = [seen EXCEPT ![e] = apply[e].text]
    /\ AfterApply(e)
    /\ UNCHANGED <<os, deferred, log, box, audio, run, wire, received, closed, sock, osVars,
                   slips>>

(* The client's polling thread seeds the bridge: it reads the clipboard,   *)
(* stores what it read, and under the seed lock applies the remote text    *)
(* that had to wait.                                                       *)
SeedReads ==
    /\ poll["client"].pc = "seed"
    /\ poll' = [poll EXCEPT !["client"] = [pc |-> "seeded", text |-> os["client"]]]
    /\ UNCHANGED <<os, seen, apply, deferred, log, box, audio, run, wire, received, closed,
                   sock, osVars, slips, fails>>

BugDrains(n, held) == FALSE

Drains(n, held) == n # 0 /\ log["host"][n] # held

SeedDone ==
    LET held == poll["client"].text
        drains == Drains(deferred, held)
    IN  /\ poll["client"].pc = "seeded" /\ ~closed
        /\ seen' = [seen EXCEPT !["client"] = held]
        /\ deferred' = 0
        /\ poll' = [poll EXCEPT !["client"] = At(IF drains THEN "drain" ELSE "idle")]
        /\ apply' = IF drains
                    THEN [apply EXCEPT !["client"] =
                            [pc |-> "write", text |-> log["host"][deferred]]]
                    ELSE apply
        /\ UNCHANGED <<os, log, box, audio, run, wire, received, closed, sock, osVars, slips,
                       fails>>

(* AuxChannel::shutdown: the stop flags and Outbox::close, then the socket. *)
Close ==
    /\ ~closed /\ closed' = TRUE
    /\ UNCHANGED <<os, seen, poll, apply, deferred, log, box, audio, run, wire, received,
                   sock, osVars, slips, fails>>

(* The socket goes: the teardown's shutdown after the close, or a write    *)
(* that found no room for WRITE_TIMEOUT.                                   *)
ShutSocket ==
    /\ sock /\ sock' = FALSE
    /\ closed \/ \E e \in Ends : Len(wire[e]) = WireCap /\ (box[e] # 0 \/ AudioDue(e))
    /\ UNCHANGED <<os, seen, poll, apply, deferred, log, box, audio, run, wire, received,
                   closed, osVars, slips, fails>>

EndStep(e) == PollReads(e) \/ PollDecides(e) \/ WriteText(e) \/ Receive(e) \/ ApplyWrites(e)
              \/ ApplyFails(e) \/ ApplyNotes(e)

Next ==
    \/ \E e \in Ends : (\E t \in Texts : UserCopies(e, t)) \/ EndStep(e)
    \/ PutAudio \/ WriteAudio \/ SeedReads \/ SeedDone \/ Close \/ ShutSocket

(* Every thread is scheduled, a call into the clipboard returns (between   *)
(* two polls at the latest, hence the strong fairness: polls are 250 ms    *)
(* apart), and a teardown that closed the outbox goes on to the socket.    *)
Fairness ==
    /\ WF_vars(SeedReads) /\ WF_vars(SeedDone) /\ WF_vars(WriteAudio)
    /\ WF_vars(closed /\ ShutSocket)
    /\ \A e \in Ends :
          /\ WF_vars(PollReads(e)) /\ WF_vars(PollDecides(e)) /\ WF_vars(WriteText(e))
          /\ WF_vars(Receive(e)) /\ SF_vars(ApplyWrites(e)) /\ WF_vars(ApplyNotes(e))

Spec == Init /\ [][Next]_vars /\ Fairness

(***************************************************************************)
(* The properties.                                                         *)
(***************************************************************************)
(* No text travels back and forth: what is sent is what the user copied.   *)
(* A text that was applied is never taken for a copy and sent back, even   *)
(* when the clipboard changes what it is given; only a read-back the       *)
(* clipboard refused may cost one redundant message, and a poll that       *)
(* straddles a write two (clipboard.rs, note_applied).                     *)
TrafficIsCopies ==
    Len(log["client"]) + Len(log["host"]) <= copies + fails + 2 * slips

(* The channel's queues and slots stay within their bounds, and no text    *)
(* echoes between the two clipboards.                                      *)
AuxInv ==
    /\ TypeOK
    /\ TrafficIsCopies

Agreed == Stored("host", os["client"]) = os["host"]
Owed(e) == copied = {e} /\ Seeded(e) /\ (os[e] # seen[e] \/ log[e] # <<>>)
Excused == ~sock \/ closed \/ slips > 0 \/ fails > 0
           \/ \E e \in Ends : os[e] \in TooLarge \cup {NonText}

(* While the user copies at one end only, the last copy reaches the        *)
(* clipboard of the other: through the sockets' back-pressure, under audio *)
(* without end, whether or not the receiving end was still seeding when it *)
(* arrived.                                                                *)
CopyArrives == <>[](\A e \in Ends : Owed(e) => Agreed \/ Excused)

Up == INSTANCE LatestValue
      WITH put <- Len(log["client"]), got <- received["client"], open <- sock
Down == INSTANCE LatestValue
        WITH put <- Len(log["host"]), got <- received["host"], open <- sock

(* The outbox, the socket and the reader implement a keep-latest lane in   *)
(* each direction (auxchan.rs:15): a replaced text may be missed, none     *)
(* overtakes another, and the last one arrives.                            *)
KeepsLatest == Up!Spec /\ Down!Spec
=============================================================================

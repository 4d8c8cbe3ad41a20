----------------------------- MODULE RdpClipboard -----------------------------
(***************************************************************************)
(* Texts and pictures in the RDP clipboard of src/clipboard.rs.  The bridge *)
(* on the session thread announces local copies to the server and fetches  *)
(* the server's, with one worker thread in front of the local clipboard:   *)
(* a command queue and a result queue of one slot each, and a deferred     *)
(* slot at the bridge for what must not be lost.  Answers carry no number: *)
(* the bridge and the protocol tell them apart by their order only.        *)
(*                                                                         *)
(* Numbers of operations and of observation generations are only compared  *)
(* for equality; the model reuses one when nothing holds it any more.      *)
(***************************************************************************)
EXTENDS Naturals, Sequences, FiniteSets

CONSTANTS LocalVals, RemoteVals,  \* what is copied locally, and at the server
          Pictures,     \* those among them that are pictures; the rest are texts
          First,        \* what the local clipboard holds at the start
          Nothing,      \* no value
          Attempts,     \* MAX_ADVERTISE_ATTEMPTS
          CopyLimit,    \* bound: copies, at both ends together
          MaxEvents     \* bound: pastes at the server, lists it rejects and calls the
                        \* local clipboard refuses, together

Values == LocalVals \cup RemoteVals
Formats == {"text", "picture"}
F(v) == IF v \in Pictures THEN "picture" ELSE "text"

ASSUME ClipboardAssumption ==
    /\ First \in LocalVals /\ LocalVals \cap RemoteVals = {}
    /\ Pictures \subseteq Values /\ Nothing \notin Values
    /\ Attempts \in Nat \ {0} /\ CopyLimit \in Nat /\ MaxEvents \in Nat

None == [kind |-> "none"]

VARIABLES
    board,      \* the local clipboard
    fingerprint, \* the worker's last_seen_fingerprint
    seenGen,    \* the worker's observation_generation
    cmd, exec, res, \* command queue, result in the worker's hand, result queue
    ready,      \* initial_format_list_requested
    adv,        \* advertise_state
    paste,      \* paste_state: the format asked for
    gen,        \* observation_generation
    pollId, readId, dataIds, \* pending_poll_id, pending_format_read, pending_local_data
    deferredRead, deferredApply,
    local,      \* an AdvertiseRequested waits in local_pending
    toServer, toClient, \* messages, in order
    clip,       \* the server's clipboard: its own value, or a format we announced;
                \* Nothing before the first list
    waiting,    \* requests of the server without an answer
    spent, events, excused \* history: values copied; counter; the local clipboard refused
                \* a call, or a deadline passed while the answer was on its way

worker == <<fingerprint, seenGen, exec>>
state == <<adv, paste, gen, pollId, readId, dataIds, deferredRead, deferredApply, local>>
server == <<clip, waiting>>
history == <<spent, events, excused>>
clipVars == <<board, worker, cmd, res, ready, state, toServer, toClient, server, history>>

Ids == 1 .. 6
Writings == [kind : {"apply"}, gen : Ids, v : Values]
Work == [kind : {"poll"}, id : Ids, gen : Ids] \cup [kind : {"formats"}, id : Ids]
        \cup [kind : {"data"}, id : Ids, f : Formats]
        \cup Writings \cup {None}
Result == [kind : {"poll"}, id : Ids, changed : BOOLEAN]
          \cup [kind : {"formats", "data"}, id : Ids, v : Values \cup {Nothing}]
          \cup {None, [kind |-> "apply"]}

\* Messages: lists, requests and answers in either direction, and the acknowledgement of ours.
ToServer == [kind : {"list", "data"}, v : Values \cup {Nothing}] \cup [kind : {"want"}, f : Formats]
ToClient == [kind : {"list", "want"}, f : Formats] \cup [kind : {"ack"}, ok : BOOLEAN]
            \cup [kind : {"data"}, v : RemoteVals \cup {Nothing}] \cup {[kind |-> "ready"]}

Idle == [is |-> "idle"]
Confirmed == [is |-> "confirmed"]
Pending(n, again) == [is |-> "pending", attempt |-> n, resend |-> again]

ClipTypeOK ==
    /\ board \in Values /\ fingerprint \in Values \cup {Nothing} /\ {seenGen, gen} \subseteq Ids
    /\ cmd \in Work /\ {exec, res} \subseteq Result /\ ready \in BOOLEAN
    /\ adv \in {Idle, Confirmed} \cup {Pending(n, b) : n \in 0 .. Attempts - 1, b \in BOOLEAN}
    /\ paste \in Formats \cup {Nothing}
    /\ {pollId, readId} \subseteq Ids \cup {0} /\ dataIds \subseteq Ids
    /\ deferredRead \in BOOLEAN /\ local \in BOOLEAN
    /\ deferredApply \in Writings \cup {None}
    /\ toServer \in Seq(ToServer) /\ toClient \in Seq(ToClient)
    /\ clip \in Values \cup Formats \cup {Nothing, "empty"} /\ waiting \in Nat
    /\ spent \subseteq Values /\ events \in 0 .. MaxEvents /\ excused \in BOOLEAN

ClipInit ==
    /\ board = First /\ fingerprint = Nothing /\ seenGen = 1
    /\ cmd = None /\ exec = None /\ res = None
    /\ ready = FALSE /\ adv = Idle /\ paste = Nothing /\ gen = 1
    /\ pollId = 0 /\ readId = 0 /\ dataIds = {} /\ deferredRead = FALSE
    /\ deferredApply = None /\ local = FALSE
    /\ toServer = <<>> /\ toClient = <<[kind |-> "ready"]>>
    /\ clip = Nothing /\ waiting = 0
    /\ spent = {First} /\ events = 0 /\ excused = FALSE

IdsOf(w) == IF w.kind \in {"poll", "formats", "data"} THEN {w.id} ELSE {}
GensOf(w) == IF w.kind \in {"poll", "apply"} THEN {w.gen} ELSE {}
UsedIds == {pollId, readId} \cup dataIds \cup IdsOf(cmd) \cup IdsOf(exec) \cup IdsOf(res)
UsedGens == {gen, seenGen} \cup GensOf(cmd) \cup GensOf(deferredApply)
Least(S) == CHOOSE i \in S : \A j \in S : i <= j
NewId == Least(Ids \ UsedIds)
NewGen == Least(Ids \ UsedGens)

Say(m) == toServer' = Append(toServer, m)
Quiet == UNCHANGED toServer

(***************************************************************************)
(* The users and the server.                                               *)
(***************************************************************************)
(* Nobody copies the same value twice. *)
Copies(v) == /\ v \notin spent /\ Cardinality(spent) <= CopyLimit
             /\ spent' = spent \cup {v}

LocalCopies(v) ==
    /\ Copies(v) /\ board' = v
    /\ UNCHANGED <<worker, cmd, res, ready, state, toServer, toClient, server, events, excused>>

(* A copy at the server, once the channel is initialised by our first list. *)
ServerCopies(v) ==
    /\ clip # Nothing
    /\ Copies(v) /\ clip' = v /\ toClient' = Append(toClient, [kind |-> "list", f |-> F(v)])
    /\ UNCHANGED <<board, worker, cmd, res, ready, state, toServer, waiting, events, excused>>

ServerWants ==
    /\ clip \in Formats /\ events < MaxEvents /\ events' = events + 1
    /\ waiting' = waiting + 1 /\ toClient' = Append(toClient, [kind |-> "want", f |-> clip])
    /\ UNCHANGED <<board, worker, cmd, res, ready, state, toServer, clip, spent, excused>>

(* The server takes a list, or answers a request from what it holds now.   *)
ServerHandles(rejected) ==
    LET m == Head(toServer)
    IN  /\ toServer # <<>> /\ toServer' = Tail(toServer)
        /\ rejected => m.kind = "list" /\ events < MaxEvents
        /\ events' = IF rejected THEN events + 1 ELSE events
        /\ clip' = CASE m.kind # "list" \/ rejected -> clip
                     [] m.v = Nothing -> "empty"
                     [] OTHER -> F(m.v)
        /\ waiting' = IF m.kind = "data" THEN waiting - 1 ELSE waiting
        /\ toClient' = CASE m.kind = "list" -> Append(toClient, [kind |-> "ack", ok |-> ~rejected])
                         [] m.kind = "want" ->
                              Append(toClient, [kind |-> "data", v |->
                                 IF clip \in RemoteVals /\ F(clip) = m.f THEN clip ELSE Nothing])
                         [] OTHER -> toClient
        /\ UNCHANGED <<board, worker, cmd, res, ready, state, spent, excused>>

(***************************************************************************)
(* The bridge.                                                             *)
(***************************************************************************)
(* request_formats, with its three variables. *)
RequestFormats ==
    IF cmd = None
    THEN /\ cmd' = [kind |-> "formats", id |-> NewId] /\ readId' = NewId
         /\ UNCHANGED deferredRead
    ELSE readId' = 0 /\ deferredRead' = TRUE /\ UNCHANGED cmd

(* advertise: at most one list is under way; another copy asks for a second. *)
Advertise ==
    IF adv.is = "pending"
    THEN adv' = Pending(adv.attempt, TRUE) /\ UNCHANGED <<cmd, readId, deferredRead>>
    ELSE adv' = Pending(0, FALSE) /\ RequestFormats

AdvertiseRequested ==
    /\ local /\ local' = FALSE /\ ready /\ Advertise
    /\ UNCHANGED <<board, worker, res, ready, paste, gen, pollId, dataIds, deferredApply, toServer,
                   toClient, server, history>>

Hears(kind) == /\ toClient # <<>> /\ Head(toClient).kind = kind /\ ~local
               /\ toClient' = Tail(toClient)

ListRequested ==
    /\ Hears("ready") /\ ready' = TRUE /\ Advertise
    /\ UNCHANGED <<board, worker, res, paste, gen, pollId, dataIds, deferredApply, local, toServer,
                   server, history>>

(* handle_format_list_acked. *)
BugRetries(n) == FALSE

Retries(n) == n + 1 < Attempts

ListAcked ==
    LET ok == Head(toClient).ok
        again == IF adv.is = "pending" THEN adv.resend ELSE FALSE
    IN  /\ Hears("ack")
        /\ CASE again -> adv' = Pending(0, FALSE) /\ RequestFormats
             [] ~again /\ ok -> adv' = Confirmed /\ UNCHANGED <<cmd, readId, deferredRead>>
             [] ~again /\ ~ok /\ adv.is = "pending" ->
                  IF Retries(adv.attempt)
                  THEN adv' = Pending(adv.attempt + 1, FALSE) /\ RequestFormats
                  ELSE adv' = Idle /\ UNCHANGED <<cmd, readId, deferredRead>>
             [] OTHER -> UNCHANGED <<adv, cmd, readId, deferredRead>>
        /\ UNCHANGED <<board, worker, res, ready, paste, gen, pollId, dataIds, deferredApply, local,
                       toServer, server, history>>

(* handle_remote_copy: ask for the data at once. *)
RemoteCopy ==
    /\ Hears("list")
    /\ paste' = Head(toClient).f /\ Say([kind |-> "want", f |-> Head(toClient).f])
    /\ UNCHANGED <<board, worker, cmd, res, ready, adv, gen, pollId, readId, dataIds, deferredRead,
                   deferredApply, local, server, history>>

(* handle_local_data_requested: a busy worker means an error answer. *)
BugSilent(busy) == Quiet
BugTwice(busy) == Say([kind |-> "data", v |-> Nothing])

Refusal(busy) == IF busy THEN Say([kind |-> "data", v |-> Nothing]) ELSE Quiet

LocalDataRequested ==
    /\ Hears("want")
    /\ IF cmd = None
       THEN /\ cmd' = [kind |-> "data", id |-> NewId, f |-> Head(toClient).f]
            /\ dataIds' = dataIds \cup {NewId}
       ELSE UNCHANGED <<cmd, dataIds>>
    /\ Refusal(cmd # None)
    /\ UNCHANGED <<board, worker, res, ready, adv, paste, gen, pollId, readId, deferredRead,
                   deferredApply, local, server, history>>

(* handle_remote_data_received: whatever was observed locally before is    *)
(* forgotten, so that the remote content is not announced back.  Data of   *)
(* another format than the one asked for does not decode.                  *)
BugIgnored(v) == paste = Nothing \/ v = Nothing \/ cmd # None

Ignored(v) == paste = Nothing \/ v = Nothing

RemoteData ==
    LET v == Head(toClient).v
        work == [kind |-> "apply", gen |-> NewGen, v |-> v]
    IN  /\ Hears("data") /\ paste' = Nothing
        /\ IF Ignored(v)
           THEN UNCHANGED <<adv, gen, pollId, readId, deferredRead, deferredApply, cmd>>
           ELSE /\ gen' = NewGen /\ pollId' = 0 /\ readId' = 0 /\ deferredRead' = FALSE
                /\ adv' = Idle
                /\ IF cmd = None THEN cmd' = work /\ deferredApply' = None
                   ELSE deferredApply' = work /\ UNCHANGED cmd
        /\ UNCHANGED <<board, worker, res, ready, dataIds, local, toServer, server, history>>

(* handle_result, one kind of result at a time. *)
PollResult ==
    /\ res.kind = "poll" /\ res' = None
    /\ IF pollId = res.id THEN pollId' = 0 /\ local' = (local \/ res.changed)
       ELSE UNCHANGED <<pollId, local>>
    /\ UNCHANGED <<board, worker, cmd, ready, adv, paste, gen, readId, dataIds, deferredRead,
                   deferredApply, toServer, toClient, server, history>>

FormatsResult ==
    /\ res.kind = "formats" /\ res' = None
    /\ IF readId = res.id
       THEN /\ readId' = 0 /\ Say([kind |-> "list", v |-> res.v])
            /\ adv' = IF res.v = Nothing THEN Idle ELSE adv
       ELSE UNCHANGED <<readId, adv, toServer>>
    /\ UNCHANGED <<board, worker, cmd, ready, paste, gen, pollId, dataIds, deferredRead,
                   deferredApply, local, toClient, server, history>>

DataResult ==
    /\ res.kind = "data" /\ res' = None
    /\ IF res.id \in dataIds
       THEN dataIds' = dataIds \ {res.id} /\ Say([kind |-> "data", v |-> res.v])
       ELSE UNCHANGED <<dataIds, toServer>>
    /\ UNCHANGED <<board, worker, cmd, ready, adv, paste, gen, pollId, readId, deferredRead,
                   deferredApply, local, toClient, server, history>>

ApplyResult ==
    /\ res.kind = "apply" /\ res' = None
    /\ UNCHANGED <<board, worker, cmd, ready, state, toServer, toClient, server, history>>

(* poll_local_change, at most one at a time; a full queue skips it. *)
Poll ==
    /\ ready /\ pollId = 0 /\ cmd = None
    /\ cmd' = [kind |-> "poll", id |-> NewId, gen |-> gen] /\ pollId' = NewId
    /\ UNCHANGED <<board, worker, res, ready, adv, paste, gen, readId, dataIds, deferredRead,
                   deferredApply, local, toServer, toClient, server, history>>

(* The top of pump_bounded: the deferred write first, then the deferred    *)
(* read of formats.                                                        *)
RetryApply ==
    /\ deferredApply # None /\ cmd = None
    /\ cmd' = deferredApply /\ deferredApply' = None
    /\ UNCHANGED <<board, worker, res, ready, adv, paste, gen, pollId, readId, dataIds,
                   deferredRead, local, toServer, toClient, server, history>>

RetryRead ==
    /\ deferredRead /\ cmd = None /\ deferredApply = None
    /\ deferredRead' = FALSE
    /\ IF adv.is = "pending" THEN cmd' = [kind |-> "formats", id |-> NewId] /\ readId' = NewId
       ELSE UNCHANGED <<cmd, readId>>
    /\ UNCHANGED <<board, worker, res, ready, adv, paste, gen, pollId, dataIds, deferredApply,
                   local, toServer, toClient, server, history>>

(* check_timeouts.  The deadline may pass while the answer is on its way.  *)
Underway == \/ \E i \in DOMAIN toServer : toServer[i].kind = "want"
            \/ \E i \in DOMAIN toClient : toClient[i].kind \in {"data", "list"}

PasteTimesOut ==
    /\ paste # Nothing /\ paste' = Nothing
    /\ excused' = (excused \/ Underway)
    /\ UNCHANGED <<board, worker, cmd, res, ready, adv, gen, pollId, readId, dataIds, deferredRead,
                   deferredApply, local, toServer, toClient, server, spent, events>>

(***************************************************************************)
(* The worker.                                                             *)
(***************************************************************************)
(* It takes one operation and performs it: one read or one write of the    *)
(* local clipboard, which nobody else at the bridge looks at.  The result  *)
(* waits until the result queue has room.                                  *)
Starts(kind) == exec = None /\ cmd.kind = kind /\ cmd' = None

(* A new observation generation makes the worker forget what it saw. *)
Observe(g) == /\ seenGen' = g
              /\ UNCHANGED <<res, ready, state, toServer, toClient, server, spent>>
Seen(g) == IF g # seenGen THEN Nothing ELSE fingerprint

Fails(yes) == IF yes THEN events < MaxEvents /\ events' = events + 1 /\ excused' = TRUE
              ELSE UNCHANGED <<events, excused>>

DoPoll(ok) ==
    /\ Starts("poll") /\ Observe(cmd.gen) /\ Fails(~ok)
    /\ fingerprint' = IF ok THEN board ELSE Seen(cmd.gen)
    /\ exec' = [kind |-> "poll", id |-> cmd.id, changed |-> ok /\ Seen(cmd.gen) # board]
    /\ UNCHANGED board

DoRead(ok) ==
    /\ Starts("formats") /\ Observe(seenGen) /\ Fails(~ok)
    /\ exec' = [kind |-> "formats", id |-> cmd.id, v |-> IF ok THEN board ELSE Nothing]
    /\ UNCHANGED <<board, fingerprint>>

DoData(ok) ==
    /\ Starts("data") /\ Observe(seenGen) /\ Fails(~ok)
    /\ exec' = [kind |-> "data", id |-> cmd.id,
                v |-> IF ok /\ F(board) = cmd.f THEN board ELSE Nothing]
    /\ UNCHANGED <<board, fingerprint>>

DoApply(ok) ==
    /\ Starts("apply") /\ Observe(cmd.gen) /\ Fails(~ok)
    /\ board' = IF ok THEN cmd.v ELSE board
    /\ fingerprint' = IF ok THEN cmd.v ELSE Seen(cmd.gen)
    /\ exec' = [kind |-> "apply"]

Send ==
    /\ exec # None /\ res = None /\ res' = exec /\ exec' = None
    /\ UNCHANGED <<board, fingerprint, seenGen, cmd, ready, state, toServer, toClient, server, history>>

HandleAction == AdvertiseRequested \/ ListRequested \/ ListAcked \/ RemoteCopy
                \/ LocalDataRequested \/ RemoteData
HandleResult == PollResult \/ FormatsResult \/ DataResult \/ ApplyResult
WorkerStep(ok) == DoPoll(ok) \/ DoRead(ok) \/ DoData(ok) \/ DoApply(ok)

ClipNext ==
    \/ \E v \in LocalVals : LocalCopies(v)
    \/ \E v \in RemoteVals : ServerCopies(v)
    \/ ServerWants \/ \E b \in BOOLEAN : ServerHandles(b)
    \/ HandleAction \/ HandleResult \/ Poll \/ RetryApply \/ RetryRead \/ PasteTimesOut
    \/ Send \/ \E ok \in BOOLEAN : WorkerStep(ok)

ClipFairness ==
    /\ WF_clipVars(ServerHandles(FALSE)) /\ WF_clipVars(HandleAction) /\ WF_clipVars(HandleResult)
    /\ SF_clipVars(Poll) /\ SF_clipVars(RetryApply) /\ SF_clipVars(RetryRead)
    /\ WF_clipVars(Send \/ WorkerStep(TRUE))

ClipSpec == ClipInit /\ [][ClipNext]_clipVars /\ ClipFairness

(***************************************************************************)
(* The properties.                                                         *)
(***************************************************************************)
Count(q, kind) == Cardinality({i \in 1 .. Len(q) : q[i].kind = kind})

(* Every request of the server is owed exactly one answer, though answers  *)
(* carry no number: the request is on its way, or the worker reads for it, *)
(* or the answer is on its way back.                                       *)
OneAnswerEach == waiting = Count(toClient, "want") + Cardinality(dataIds) + Count(toServer, "data")

(* The bridge waits for nothing that is not under way: a poll, a read of   *)
(* formats or of data that the worker lost would never be asked for again, *)
(* and a pending announcement with no list under way would block every     *)
(* later one.                                                              *)
AwaitedIsUnderway ==
    /\ pollId # 0 => \E w \in {cmd, exec, res} : w.kind = "poll" /\ w.id = pollId
    /\ readId # 0 => \E w \in {cmd, exec, res} : w.kind = "formats" /\ w.id = readId
    /\ \A i \in dataIds : \E w \in {cmd, exec, res} : w.kind = "data" /\ w.id = i
    /\ adv.is = "pending" => \/ readId # 0 \/ deferredRead
                             \/ \E i \in DOMAIN toServer : toServer[i].kind = "list"
                             \/ \E i \in DOMAIN toClient : toClient[i].kind = "ack"

(* In a well-formed bridge each request has one answer to come, and every  *)
(* operation awaited is under way.                                         *)
ClipboardInv == ClipTypeOK /\ OneAnswerEach /\ AwaitedIsUnderway

(* Every request of the server is answered once, even when the worker is   *)
(* busy or the clipboard refuses: a missing answer wedges its paste.       *)
RequestsAnswered == <>[](waiting = 0)

(* While copies are made locally only, the server ends up with the formats *)
(* of the last one, through full queues, a copy during an announcement and *)
(* rejected lists.                                                         *)
LocalCopyAnnounced == <>[](spent \cap RemoteVals = {} /\ ~excused => clip = F(board))

(* The server's last copy reaches the local clipboard, whatever local      *)
(* copies cross it and whatever time-outs went before: "one failed         *)
(* transfer cannot wedge later transfers" (README.md:133).                 *)
RemoteCopyArrives == <>[](clip \in RemoteVals /\ ~excused => board = clip)
===============================================================================

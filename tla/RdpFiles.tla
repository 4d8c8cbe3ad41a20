------------------------------- MODULE RdpFiles -------------------------------
(***************************************************************************)
(* The eager download of the files a remote desktop copies, in the RDP     *)
(* clipboard of src/clipboard.rs.  The bridge runs on the session thread:  *)
(* it asks the server for sizes and chunks and hands every file operation  *)
(* to a worker thread, through a command queue and a result queue of one   *)
(* slot each; what finds the queue full waits in one deferred slot.  The   *)
(* worker keeps the files in a private stage until it publishes them on    *)
(* the clipboard.                                                          *)
(*                                                                         *)
(* A file is the number of chunks it has and whether the list declares it; *)
(* a folder is a declared file without chunks.                             *)
(***************************************************************************)
EXTENDS Naturals, Sequences, FiniteSets, SequencesExt

CONSTANTS Lists,      \* file lists the server may offer
          MaxCopies,  \* bound: copies made at the server
          MaxLocal,   \* bound: copies made locally
          MaxErrors   \* bound: refusals by the server and failed file operations

None == [kind |-> "none"]

ASSUME FilesAssumption ==
    /\ Lists \subseteq Seq([size : Nat, declared : BOOLEAN]) \ {<<>>}
    /\ MaxCopies \in Nat /\ MaxLocal \in Nat /\ MaxErrors \in Nat

VARIABLES
    offer,     \* the list on the server's clipboard
    up,        \* bridge to server: requests not yet answered
    down,      \* server to bridge: messages, in order
    wanted,    \* PasteState: a file list has been asked for
    xfer,      \* remote_transfer
    stale,     \* stale_file_stream_ids
    streams,   \* next_file_stream_id
    ids,       \* next_transfer_id
    active,    \* active_transfer, shared with the worker; 0 for none
    deferred,  \* deferred_remote_file_work
    cmd,       \* the worker's command queue
    exec,      \* what the worker is doing
    res,       \* the worker's result queue
    stages,    \* remote_stages: chunks received per file, by transfer
    copies, locals, errors,      \* counters of the bounds
    lists, published, excused, dropped \* history: list of each transfer; those on the
               \* clipboard; those superseded, refused or hurried by the deadline;
               \* those cancelled before their last check

server == <<offer, up, down, copies>>
bridge == <<wanted, xfer, stale, streams, ids, active>>
worker == <<exec, res, stages>>
history == <<lists, published, excused, dropped>>
vars == <<server, bridge, deferred, cmd, worker, locals, errors, history>>

Transfers == 1 .. MaxCopies
Files == UNION {DOMAIN l : l \in Lists}
Sizes == {0} \cup UNION {{l[i].size : i \in DOMAIN l} : l \in Lists}
Offsets == UNION {0 .. n : n \in Sizes}

Asked == [kind : {"size", "range"}, stream : Nat \ {0}, index : Files, offset : Offsets,
          stored : BOOLEAN]
Entry == [size : Sizes, known : BOOLEAN, received : Offsets]
Work == [kind : {"prepare"}, id : Transfers, list : Lists]
        \cup [kind : {"store"}, id : Transfers, index : Files, offset : Offsets]
        \cup [kind : {"publish", "abort"}, id : Transfers]
        \cup [kind : {"other"}]

TypeOK ==
    /\ offer \in Lists /\ wanted \in BOOLEAN /\ stale \subseteq 1 .. streams
    /\ up \in Seq([kind : {"paste"}] \cup Asked)
    /\ xfer = None \/ /\ xfer.id \in Transfers /\ xfer.entries \in Seq(Entry)
                      /\ xfer.pending \in Asked \cup {None}
                      /\ xfer.awaits \in {"prepare", "publish", "nothing"}
    /\ streams \in Nat /\ ids \in 0 .. MaxCopies /\ active \in 0 .. ids
    /\ deferred \in Work \cup {None} /\ cmd \in Work \cup {None}
    /\ \A id \in DOMAIN stages : id \in Transfers
    /\ copies \in 0 .. MaxCopies /\ locals \in 0 .. MaxLocal /\ errors \in 0 .. MaxErrors

Init ==
    /\ offer \in Lists /\ up = <<>> /\ down = <<>>
    /\ wanted = FALSE /\ xfer = None /\ stale = {} /\ streams = 0 /\ ids = 0 /\ active = 0
    /\ deferred = None /\ cmd = None /\ exec = None /\ res = None /\ stages = <<>>
    /\ copies = 0 /\ locals = 0 /\ errors = 0
    /\ lists = <<>> /\ published = {} /\ excused = {} /\ dropped = {}

Errs(yes) == IF yes THEN errors < MaxErrors /\ errors' = errors + 1 ELSE UNCHANGED errors

(***************************************************************************)
(* The server.                                                             *)
(***************************************************************************)
ServerCopies(l) ==
    /\ copies < MaxCopies /\ copies' = copies + 1
    /\ offer' = l /\ down' = Append(down, [kind |-> "copy"])
    /\ UNCHANGED <<up, bridge, deferred, cmd, worker, locals, errors, history>>

(* Requests for contents carry a stream id and are answered in any order.  *)
ServerAnswers(ok) ==
    /\ \E i \in DOMAIN up :
          /\ up' = RemoveAt(up, i)
          /\ down' = Append(down,
                IF up[i].kind = "paste" THEN [kind |-> "list", list |-> offer, ok |-> ok]
                ELSE [kind |-> "contents", stream |-> up[i].stream, ok |-> ok])
    /\ Errs(~ok)
    /\ UNCHANGED <<offer, copies, bridge, deferred, cmd, worker, locals, history>>

(***************************************************************************)
(* The bridge.                                                             *)
(***************************************************************************)
(* submit_remote_file_work: into the queue, or into the deferred slot, in  *)
(* place of what waits there.                                              *)
Submit(work) == IF cmd = None THEN cmd' = work /\ UNCHANGED deferred
                ELSE deferred' = work /\ UNCHANGED cmd

BugRemembered(p) == stale

Remembered(p) == IF p = None THEN stale ELSE stale \cup {p.stream}

(* cancel_remote_transfer. *)
Cancel ==
    /\ xfer' = None /\ active' = 0
    /\ IF xfer = None THEN UNCHANGED <<stale, cmd, deferred, dropped>>
       ELSE /\ stale' = Remembered(xfer.pending)
            /\ IF cmd = None
               THEN cmd' = [kind |-> "abort", id |-> xfer.id] /\ deferred' = None
               ELSE deferred' = [kind |-> "abort", id |-> xfer.id] /\ UNCHANGED cmd
            /\ dropped' = IF xfer.id \in published \/ exec = [kind |-> "set", id |-> xfer.id]
                          THEN dropped ELSE dropped \cup {xfer.id}

Excuse == excused' = IF xfer = None THEN excused ELSE excused \cup {xfer.id}

(* handle_remote_copy: the new list supersedes the old download. *)
RemoteCopy ==
    /\ down # <<>> /\ Head(down).kind = "copy" /\ down' = Tail(down)
    /\ Cancel /\ Excuse /\ wanted' = TRUE
    /\ up' = Append(up, [kind |-> "paste"])
    /\ UNCHANGED <<offer, copies, streams, ids, worker, locals, errors, lists, published>>

NextId == ids + 1

(* handle_remote_file_list.  Without an outstanding request it is dropped; *)
(* a refusal only ends the request.                                        *)
RemoteFileList ==
    LET m == Head(down)
    IN  /\ down # <<>> /\ m.kind = "list" /\ down' = Tail(down)
        /\ wanted' = FALSE
        /\ IF wanted /\ m.ok
           THEN /\ ids' = ids + 1 /\ active' = NextId
                /\ xfer' = [id |-> NextId, entries |-> <<>>, pending |-> None,
                            awaits |-> "prepare"]
                /\ Submit([kind |-> "prepare", id |-> NextId, list |-> m.list])
                /\ lists' = Append(lists, m.list)
           ELSE UNCHANGED <<ids, active, xfer, cmd, deferred, lists>>
        /\ UNCHANGED <<offer, up, copies, stale, streams, worker, locals, errors, published,
                       excused, dropped>>

Unsized(es) == {i \in DOMAIN es : ~es[i].known}
Unread(es) == {i \in DOMAIN es : es[i].known /\ es[i].received < es[i].size}
First(S) == CHOOSE i \in S : \A j \in S : i <= j

(* request_next_remote_file: a size that is not known, else a chunk that   *)
(* is missing, else publication.  x is the transfer, nothing pending.      *)
RequestNext(x) ==
    LET es == x.entries
        ask == IF Unsized(es) # {}
               THEN [kind |-> "size", stream |-> streams + 1, index |-> First(Unsized(es)),
                     offset |-> 0, stored |-> FALSE]
               ELSE LET i == First(Unread(es))
                    IN  [kind |-> "range", stream |-> streams + 1, index |-> i,
                         offset |-> es[i].received, stored |-> FALSE]
    IN  IF Unsized(es) \cup Unread(es) # {}
        THEN /\ xfer' = [x EXCEPT !.pending = ask, !.awaits = "nothing"]
             /\ streams' = streams + 1 /\ up' = Append(up, ask)
             /\ UNCHANGED <<cmd, deferred>>
        ELSE /\ xfer' = [x EXCEPT !.pending = None, !.awaits = "publish"]
             /\ Submit([kind |-> "publish", id |-> x.id])
             /\ UNCHANGED <<streams, up>>

(* handle_remote_file_contents_received.  The pending request is taken out *)
(* before a chunk is handed to the worker, so the operation has nothing    *)
(* left to be noted in: Noted is evaluated on what take() left.            *)
Noted(p) == IF p = None THEN None ELSE [p EXCEPT !.stored = TRUE]

FileContents ==
    LET m == Head(down)
        p == IF xfer = None THEN None ELSE xfer.pending
        mine == IF p = None THEN FALSE ELSE m.stream = p.stream /\ m.ok
        took == [xfer EXCEPT !.pending = None]
    IN  /\ down # <<>> /\ m.kind = "contents" /\ down' = Tail(down)
        /\ CASE m.stream \in stale ->
                  /\ stale' = stale \ {m.stream}
                  /\ UNCHANGED <<xfer, active, streams, up, cmd, deferred, excused, dropped>>
             [] m.stream \notin stale /\ ~mine -> Cancel /\ Excuse /\ UNCHANGED <<streams, up>>
             [] m.stream \notin stale /\ mine ->
                  /\ IF p.kind = "size"
                     THEN RequestNext([took EXCEPT !.entries[p.index] =
                              [@ EXCEPT !.known = TRUE, !.size = lists[xfer.id][p.index].size]])
                     ELSE /\ Submit([kind |-> "store", id |-> xfer.id, index |-> p.index,
                                     offset |-> p.offset])
                          /\ xfer' = [took EXCEPT !.pending = Noted(took.pending)]
                          /\ UNCHANGED <<streams, up>>
                  /\ UNCHANGED <<active, stale, excused, dropped>>
        /\ UNCHANGED <<offer, copies, wanted, ids, worker, locals, errors, lists, published>>

(* handle_remote_files_prepared. *)
Entries(l) == [i \in DOMAIN l |-> [size |-> IF l[i].declared THEN l[i].size ELSE 0,
                                   known |-> l[i].declared, received |-> 0]]

Awaits(kind) == IF xfer = None THEN FALSE ELSE xfer.id = res.id /\ xfer.awaits = kind

Ignored == UNCHANGED <<xfer, active, stale, streams, up, cmd, deferred, excused, dropped>>

FilesPrepared ==
    /\ res.kind = "prepare" /\ res' = None
    /\ CASE Awaits("prepare") /\ res.ok ->
              /\ RequestNext([xfer EXCEPT !.entries = Entries(lists[res.id])])
              /\ UNCHANGED <<active, stale, excused, dropped>>
         [] Awaits("prepare") /\ ~res.ok -> Cancel /\ Excuse /\ UNCHANGED <<streams, up>>
         [] OTHER -> Ignored
    /\ UNCHANGED <<offer, down, copies, wanted, ids, exec, stages, locals, errors, lists,
                   published>>

(* handle_remote_chunk_stored. *)
ChunkStored ==
    LET mine == /\ Awaits("nothing") /\ xfer.pending # None
                /\ xfer.pending.stored /\ xfer.pending.index = res.index
                /\ xfer.pending.offset = res.offset
    IN  /\ res.kind = "store" /\ res' = None
        /\ CASE mine /\ res.ok ->
                  /\ RequestNext([xfer EXCEPT !.pending = None,
                                              !.entries[res.index].received = @ + 1])
                  /\ UNCHANGED <<active, stale, excused, dropped>>
             [] mine /\ ~res.ok -> Cancel /\ Excuse /\ UNCHANGED <<streams, up>>
             [] OTHER -> Ignored
        /\ UNCHANGED <<offer, down, copies, wanted, ids, exec, stages, locals, errors, lists,
                       published>>

(* handle_remote_files_published. *)
FilesPublished ==
    /\ res.kind = "publish" /\ res' = None
    /\ IF Awaits("publish")
       THEN /\ xfer' = None /\ active' = 0
            /\ excused' = IF res.ok THEN excused ELSE excused \cup {res.id}
       ELSE UNCHANGED <<xfer, active, excused>>
    /\ UNCHANGED <<server, wanted, stale, streams, ids, deferred, cmd, exec, stages, locals,
                   errors, lists, published, dropped>>

(* The result of other work: an abort, a poll, or the format list of a     *)
(* local copy, which takes the clipboard over (complete_advertise).        *)
OtherResult(localCopy) ==
    /\ res.kind \in {"other", "abort"} /\ res' = None
    /\ IF localCopy
       THEN /\ res.kind = "other" /\ locals < MaxLocal /\ locals' = locals + 1
            /\ Cancel /\ Excuse
       ELSE UNCHANGED <<xfer, active, stale, cmd, deferred, excused, dropped, locals>>
    /\ UNCHANGED <<server, wanted, streams, ids, exec, stages, errors, lists, published>>

(* retry_deferred_remote_file_work, at the top of a pump. *)
BugRetry ==
    /\ deferred # None /\ deferred' = None
    /\ cmd' = IF cmd = None THEN deferred ELSE cmd
    /\ UNCHANGED <<server, bridge, worker, locals, errors, history>>

Retry ==
    /\ deferred # None /\ cmd = None
    /\ cmd' = deferred /\ deferred' = None
    /\ UNCHANGED <<server, bridge, worker, locals, errors, history>>

(* A poll or a read of the local clipboard goes to the same worker. *)
OtherWork ==
    /\ cmd = None /\ cmd' = [kind |-> "other"]
    /\ UNCHANGED <<server, bridge, deferred, worker, locals, errors, history>>

(* check_timeouts.  A deadline that passes while an answer or a result is  *)
(* still to come excuses the transfer; one that passes when nothing is     *)
(* does not.                                                               *)
AtRest == /\ up = <<>> /\ down = <<>> /\ deferred = None
          /\ \A w \in {cmd, exec, res} : w.kind \in {"none", "other"}

TimedOut ==
    /\ xfer # None /\ Cancel
    /\ excused' = IF AtRest THEN excused ELSE excused \cup {xfer.id}
    /\ UNCHANGED <<server, wanted, streams, ids, worker, locals, errors, lists, published>>

(***************************************************************************)
(* The worker.                                                             *)
(***************************************************************************)
Take ==
    /\ exec = None /\ cmd # None
    /\ exec' = cmd /\ cmd' = None
    /\ UNCHANGED <<server, bridge, deferred, res, stages, locals, errors, history>>

Without(f, S) == [id \in DOMAIN f \ S |-> f[id]]

Done(r) == exec' = [kind |-> "done", result |-> r]

Simple ==
    /\ exec.kind \in {"other", "abort"}
    /\ stages' = IF exec.kind = "abort" THEN Without(stages, {exec.id}) ELSE stages
    /\ Done([kind |-> exec.kind])
    /\ UNCHANGED <<server, bridge, deferred, cmd, res, locals, errors, history>>

Result(ok) == [kind |-> exec.kind, id |-> exec.id, ok |-> ok]

(* prepare_remote_files: older stages are removed and a new one made; the  *)
(* transfer may be cancelled meanwhile.                                    *)
BugOlder == {}

Older == DOMAIN stages \ {exec.id}

PrepareBegins(ok) ==
    /\ exec.kind = "prepare" /\ Errs(~ok)
    /\ stages' = IF active = exec.id THEN Without(stages, Older) ELSE stages
    /\ IF active = exec.id /\ ok
       THEN exec' = [kind |-> "staged", id |-> exec.id, list |-> exec.list]
       ELSE Done(Result(FALSE))
    /\ UNCHANGED <<server, bridge, deferred, cmd, res, locals, history>>

PrepareEnds ==
    /\ exec.kind = "staged"
    /\ stages' = IF active = exec.id
                 THEN [id \in DOMAIN stages \cup {exec.id} |->
                         IF id = exec.id THEN [i \in DOMAIN exec.list |-> 0] ELSE stages[id]]
                 ELSE stages
    /\ Done([kind |-> "prepare", id |-> exec.id, ok |-> active = exec.id])
    /\ UNCHANGED <<server, bridge, deferred, cmd, res, locals, errors, history>>

(* store_remote_chunk. *)
Store(ok) ==
    LET fits == /\ active = exec.id /\ exec.id \in DOMAIN stages
                /\ stages[exec.id][exec.index] = exec.offset
    IN  /\ exec.kind = "store" /\ Errs(~ok)
        /\ stages' = IF fits /\ ok THEN [stages EXCEPT ![exec.id][exec.index] = @ + 1]
                     ELSE stages
        /\ Done([kind |-> "store", id |-> exec.id, index |-> exec.index,
                 offset |-> exec.offset, ok |-> fits /\ ok])
        /\ UNCHANGED <<server, bridge, deferred, cmd, res, locals, history>>

(* publish_remote_files: the stage is taken out, and after the last look   *)
(* at active_transfer the files go on the clipboard.                       *)
MayPublish(id) == /\ active = id /\ id \in DOMAIN stages
                  /\ \A i \in DOMAIN lists[id] : stages[id][i] = lists[id][i].size

PublishBegins ==
    /\ exec.kind = "publish"
    /\ stages' = Without(stages, {exec.id})
    /\ IF MayPublish(exec.id) THEN exec' = [kind |-> "set", id |-> exec.id]
       ELSE Done(Result(FALSE))
    /\ UNCHANGED <<server, bridge, deferred, cmd, res, locals, errors, history>>

PublishSets(ok) ==
    /\ exec.kind = "set" /\ Errs(~ok)
    /\ published' = IF ok THEN published \cup {exec.id} ELSE published
    /\ Done([kind |-> "publish", id |-> exec.id, ok |-> ok])
    /\ UNCHANGED <<server, bridge, deferred, cmd, res, stages, locals, lists, excused, dropped>>

Send ==
    /\ exec.kind = "done" /\ res = None
    /\ res' = exec.result /\ exec' = None
    /\ UNCHANGED <<server, bridge, deferred, cmd, stages, locals, errors, history>>

HandleAction == RemoteCopy \/ RemoteFileList \/ FileContents

HandleResult == FilesPrepared \/ ChunkStored \/ FilesPublished \/ OtherResult(FALSE)

WorkerStep ==
    \/ Take \/ Simple \/ PrepareBegins(TRUE) \/ PrepareEnds \/ Store(TRUE)
    \/ PublishBegins \/ PublishSets(TRUE) \/ Send

Next ==
    \/ \E l \in Lists : ServerCopies(l)
    \/ \E ok \in BOOLEAN : ServerAnswers(ok)
    \/ HandleAction \/ HandleResult \/ OtherResult(TRUE) \/ Retry \/ OtherWork \/ TimedOut
    \/ WorkerStep \/ PrepareBegins(FALSE) \/ Store(FALSE) \/ PublishSets(FALSE)

(* The server answers, both threads run, a pump takes from both of its     *)
(* queues (at most eight actions before a result), and the deadline        *)
(* passes.  A pump                                                         *)
(* finds the command queue empty again and again while work is deferred    *)
(* (polls are 250 ms apart), hence the strong fairness.                    *)
Fairness ==
    /\ WF_vars(ServerAnswers(TRUE)) /\ WF_vars(HandleAction) /\ WF_vars(HandleResult)
    /\ WF_vars(WorkerStep) /\ SF_vars(Retry) /\ WF_vars(AtRest /\ TimedOut)

Spec == Init /\ [][Next]_vars /\ Fairness

(***************************************************************************)
(* The properties.                                                         *)
(***************************************************************************)
(* The answer to a request of a cancelled transfer neither ends nor feeds  *)
(* the transfer that came after it, whatever the order in which answers,   *)
(* copies, results and the deadline come (stale_file_stream_ids).          *)
StaleAnswerHarmless ==
    [][FileContents /\ xfer # None
       /\ (xfer.pending = None \/ Head(down).stream # xfer.pending.stream)
       => UNCHANGED xfer]_vars

(* A transfer that was superseded or gave up before the worker's last look *)
(* at active_transfer never reaches the clipboard, however long its work   *)
(* waited in a queue.                                                      *)
SupersededNeverPublished == published \cap dropped = {}

(* The staging directory does not fill up: whatever is cancelled while the *)
(* queue is full, the worker keeps the stage of one transfer.              *)
OneStage == Cardinality(DOMAIN stages) <= 1

(* Transfers, requests and queued work stay well formed and within their   *)
(* bounds, one stage is kept at most, and nothing superseded is published. *)
FilesInv ==
    /\ TypeOK
    /\ OneStage
    /\ SupersededNeverPublished

Finished(n) == n \in published \cup excused

(* A list of empty files and folders is published, through full queues and *)
(* deferred work, unless something superseded or refused it.               *)
EmptyFilesArrive ==
    \A n \in Transfers :
        [](n \in DOMAIN lists /\ (\A i \in DOMAIN lists[n] : lists[n][i].size = 0)
           => <>Finished(n))

(* The same for files with contents: "Clipboard file and folder copy in    *)
(* both directions" (README.md:134).                                       *)
DownloadFinishes == \A n \in Transfers : [](n \in DOMAIN lists => <>Finished(n))
===============================================================================

----------------------------- MODULE Presentation -----------------------------
(***************************************************************************)
(* How a picture of the RDP graphics pipeline reaches the screen: the      *)
(* presentation half of the surface store (src/surface.rs), the callbacks  *)
(* that feed it (src/gfx.rs, the vendored EGFX client), the notice of the  *)
(* session thread (src/session.rs) and the redraws of the window thread    *)
(* (src/window.rs).                                                        *)
(*                                                                         *)
(* The two threads share the store's lock and one damage bit; every action *)
(* below holds the lock once, touches that bit once, or is local to its    *)
(* thread.  The server creates, deletes, maps and paints surfaces, inside  *)
(* frames and outside; the compositor is busy, refuses or presents; time   *)
(* passes.  A surface is a few blocks, a pixel the number of the write     *)
(* that put it there.                                                      *)
(***************************************************************************)
EXTENDS Integers, FiniteSets

CONSTANTS
  Ids,        \* bound: surface ids, positive
  Blocks,     \* bound: blocks of a surface
  Regions,    \* bound: what one paint covers
  Origins,    \* bound: places a surface is mapped to
  Canvases,   \* bound: sizes of the graphics output; 0 is none yet
  MaxWrites,  \* bound: paints
  Work,       \* bound: what one behaviour may do
  MAX_CONSECUTIVE_PRESENT_FAILURES

ASSUME PresentationAssumption ==
  /\ Ids \subseteq Nat \ {0} /\ Origins \subseteq Nat
  /\ Regions \subseteq (SUBSET Blocks) \ {{}}
  /\ Canvases \subseteq Nat /\ 0 \in Canvases
  /\ MaxWrites \in Nat
  /\ Blocks # {}
  /\ Work \subseteq
       [ids : SUBSET Ids, origins : SUBSET Origins,
        changes : Nat,       \* surfaces created, deleted and mapped, and resets
        writes : 0..MaxWrites,
        codecs : SUBSET {"plain", "avc444"},
        distractions : Nat,  \* covers, busy presents and other rare events
        large : BOOLEAN]     \* the canvas is large enough for the cadence
  /\ MAX_CONSECUTIVE_PRESENT_FAILURES \in Nat \ {0}

VARIABLES
  st,    \* SurfaceStore
  rx,    \* the session thread: the AVC444 update it is copying in, last generation told
  gate,  \* DamageGate: its bit, and whether a Damaged event is queued
  win,   \* the window thread
  snap,  \* its PresentationSnapshot; mapped: taken with no fallback held
  left,     \* bound: what is left of a member of Work
  desktop,  \* history: a picture was to be seen and its surface not deleted since
  promise   \* history: pixels the ready token stands for
vars == <<st, rx, gate, win, snap, left, desktop, promise>>

Unpainted == [b \in Blocks |-> 0]
Blank == [pix |-> Unpainted, origin |-> 0, canvas |-> 0]
NoSurface == [live |-> FALSE, pix |-> Unpainted, luma |-> {}]
NoOutput == [id |-> 0, origin |-> 0]

Init ==
  /\ st = [surfaces |-> [i \in Ids |-> NoSurface], output |-> NoOutput, stale |-> FALSE,
           canvas |-> 0, fallback |-> Blank, suppressed |-> FALSE, frame |-> "Idle",
           dirty |-> FALSE, wait |-> "none", pending |-> {}, ready |-> 0, batch |-> 0,
           update |-> FALSE, gen |-> 0]
  /\ rx = [id |-> 0, n |-> 0, todo |-> {}, last |-> 0]
  /\ gate = [claimed |-> FALSE, queued |-> FALSE]
  /\ win = [at |-> "idle", occluded |-> FALSE, wanted |-> TRUE, deadline |-> FALSE,
            retry |-> FALSE, presented |-> -1, recent |-> FALSE, acknowledge |-> FALSE,
            failures |-> 0]
  /\ snap = [pic |-> Blank, stamp |-> 0, batch |-> 0, mapped |-> FALSE]
  /\ left \in Work
  /\ desktop = FALSE /\ promise = Unpainted

-----------------------------------------------------------------------------
(* The methods of SurfaceStore, each from a store to the store it leaves.  *)

Painted(s, i) == \E b \in Blocks : s.surfaces[i].pix[b] # 0
Complete(s, i) == \A b \in Blocks : s.surfaces[i].pix[b] # 0
IsOutput(s, i) == ~s.stale /\ s.output.id = i
OutputComplete(s) == \E i \in Ids : IsOutput(s, i) /\ Complete(s, i)
PictureOf(s) == [pix |-> s.surfaces[s.output.id].pix, origin |-> s.output.origin,
                 canvas |-> s.canvas]

Touch(s) == [s EXCEPT !.gen = @ + 1]
MarkDirty(s) == [s EXCEPT !.dirty = @ \/ s.frame # "Idle"]

\* Mutant: the token sequence starts over with the policy.
BugClearPolicy(s) == [s EXCEPT !.wait = "none", !.pending = {}, !.ready = 0, !.batch = 0]

ClearPolicy(s) == [s EXCEPT !.wait = "none", !.pending = {}, !.ready = 0]

Release(s) == [s EXCEPT !.wait = "none", !.pending = {}, !.batch = @ + 1, !.ready = s.batch + 1]
Settle(s) == IF s.wait = "due" THEN Release(s) ELSE s

\* presentation_not_before lies ahead
Waits(s) == s.wait = "running" /\ s.ready = 0

\* Mutant: the wait is not armed while an earlier token is out.
BugArm(s, luma) ==
  [s EXCEPT !.pending = @ \cup luma,
            !.wait = IF @ = "none" /\ luma # {} /\ s.ready = 0 THEN "running" ELSE @]

Arm(s, luma) ==
  [s EXCEPT !.pending = @ \cup luma, !.wait = IF @ = "none" /\ luma # {} THEN "running" ELSE @]

\* overflow: the ledger of regions gets too fragmented and is given up.
NoteRegions(s, i, luma, chroma, overflow) ==
  LET noted == [s EXCEPT !.update = TRUE]
      armed == Arm(Settle(noted), luma)
      refined == [armed EXCEPT !.pending = @ \ chroma]
  IN CASE ~IsOutput(s, i) -> noted
       [] IsOutput(s, i) /\ overflow -> Release(Settle(noted))
       [] OTHER -> IF armed.pending # {} /\ refined.pending = {} THEN Release(refined) ELSE refined

Retain(s) ==
  IF \/ s.stale \/ s.fallback # Blank \/ s.suppressed \/ s.frame # "Idle"
     \/ s.output = NoOutput \/ ~Painted(s, s.output.id)
  THEN s ELSE [s EXCEPT !.fallback = PictureOf(s)]

\* finish_surface_mutation_core returns whether the write shows, now or at EndFrame.
Shows(s, i) ==
  /\ IsOutput(s, i)
  /\ Complete(s, i) \/ (s.fallback = Blank /\ (s.frame # "Idle" \/ ~s.suppressed))

FinishMutation(s, i) ==
  CASE ~Shows(s, i) -> s
    [] Shows(s, i) /\ s.frame # "Idle" -> [s EXCEPT !.dirty = TRUE]
    [] OTHER -> Touch([s EXCEPT !.fallback = Blank, !.suppressed = FALSE])

Write(s, i, B, n) == [s EXCEPT !.surfaces[i].pix = [b \in Blocks |-> IF b \in B THEN n ELSE @[b]]]
BlitAvc(s, i, B, n) == FinishMutation(Write(s, i, B, n), i)
Blit(s, i, B, n) ==
  LET after == BlitAvc(s, i, B, n)
      waiting == s.wait # "none" \/ s.pending # {}
  IN IF Shows(Write(s, i, B, n), i) /\ waiting THEN Release(after) ELSE after

BeginFrame(s) == [s EXCEPT !.frame = "Active", !.dirty = FALSE]
AbortFrame(s) == [s EXCEPT !.frame = "Aborted"]

CommitFrame(s) ==
  LET idle == [s EXCEPT !.frame = "Idle", !.dirty = FALSE]
      shown == [idle EXCEPT !.fallback = Blank, !.suppressed = FALSE]
      changed == s.fallback # Blank \/ s.suppressed \/ s.dirty
  IN CASE ~OutputComplete(s) /\ s.output # NoOutput ->
            [idle EXCEPT !.suppressed = @ \/ (s.fallback = Blank /\ s.dirty)]
       [] OTHER -> IF changed THEN Touch(shown) ELSE shown

Create(s, i) ==
  LET kept == IF s.output.id # i THEN s
              ELSE [Retain(MarkDirty(ClearPolicy(s))) EXCEPT !.stale = TRUE]
  IN [kept EXCEPT !.surfaces[i] = [NoSurface EXCEPT !.live = TRUE]]

\* The retain_painted_output inside delete runs only inside a frame, where it does nothing.
Delete(s, i) ==
  LET gone == [s EXCEPT !.surfaces[i] = NoSurface]
      unmapped == [MarkDirty(ClearPolicy(gone)) EXCEPT !.output = NoOutput, !.stale = FALSE]
      idle == [unmapped EXCEPT !.fallback = Blank, !.suppressed = FALSE]
  IN CASE s.output.id # i -> gone
       [] s.output.id = i /\ s.frame # "Idle" -> unmapped
       [] OTHER -> IF s.fallback # Blank \/ s.suppressed \/ (~s.stale /\ Painted(s, i))
                   THEN Touch(idle) ELSE idle

MapToOutput(s, i, origin) ==
  LET mapping == [id |-> i, origin |-> origin]
      changed == s.stale \/ s.output # mapping
      kept == IF changed THEN Retain(MarkDirty(ClearPolicy(s))) ELSE s
      mapped == [kept EXCEPT !.output = mapping, !.stale = FALSE]
      ready == s.frame = "Idle" /\ Complete(s, i)
      shown == IF ready THEN [mapped EXCEPT !.fallback = Blank, !.suppressed = FALSE] ELSE mapped
      visible == changed /\ Painted(s, i) /\ shown.fallback = Blank /\ ~shown.suppressed
  IN CASE ready /\ mapped.suppressed -> Touch(shown)
       [] ~(ready /\ mapped.suppressed) /\ visible ->
            IF s.frame = "Idle" THEN Touch(shown) ELSE MarkDirty(shown)
       [] OTHER -> shown

\* presentation_frame, Blank for None.
Picture(s) ==
  LET mapped == ~s.stale /\ s.output # NoOutput /\ Painted(s, s.output.id)
  IN IF s.frame = "Idle" /\ mapped /\ (s.fallback = Blank \/ OutputComplete(s))
     THEN PictureOf(s) ELSE s.fallback

\* set_graphics_output_size; the EGFX client refuses a reset inside a frame.
ResetGraphics(s, canvas) ==
  LET reset == [ClearPolicy(s) EXCEPT !.canvas = canvas]
      visible == s.output # NoOutput /\ ~s.suppressed /\ s.fallback = Blank
                   /\ Picture(reset) # Blank
  IN IF s.canvas # canvas /\ visible THEN Touch(reset) ELSE reset

\* acknowledge_presentation
Acknowledge(s, batch) == [s EXCEPT !.ready = IF batch # 0 /\ batch = @ THEN 0 ELSE @]

Pending(s) == s.update \/ s.frame = "Active"
Retained(s) == s.suppressed \/ s.frame = "Aborted"
Publishable(s) == ~Pending(s) /\ ~Retained(s)

-----------------------------------------------------------------------------
(* The session thread.  A protocol error aborts the open frame and ends    *)
(* the session; otherwise every graphics PDU runs to its end before the    *)
(* next one, and the window is told at the end of a turn.                  *)

Serving == rx.todo = {} /\ ~st.update /\ st.frame # "Aborted"
Live(i) == st.surfaces[i].live

\* The pixels the mapped surface will show once the update in progress is copied in.
Landing(s, r) ==
  [b \in Blocks |-> IF r.id = s.output.id /\ b \in r.todo THEN r.n
                    ELSE IF s.output = NoOutput THEN 0 ELSE s.surfaces[s.output.id].pix[b]]

History ==
  /\ promise' = IF st'.batch # st.batch THEN Landing(st', rx') ELSE promise
  /\ desktop' = /\ ~(st.output # NoOutput /\ st'.output = NoOutput)
                /\ desktop \/ (Publishable(st') /\ Picture(st') # Blank)

Server(s) == st' = s /\ History /\ UNCHANGED <<gate, win, snap>>
Changes ==
  /\ left.changes > 0
  /\ left' = [left EXCEPT !.changes = @ - 1]
  /\ UNCHANGED rx
Writes(codec, odd) ==
  /\ codec \in left.codecs /\ left.writes > 0 /\ left.distractions >= odd
  /\ left' = [left EXCEPT !.writes = @ - 1, !.distractions = @ - odd]
WriteNumber == MaxWrites + 1 - left.writes

StartFrame ==
  /\ Serving /\ st.frame = "Idle"
  /\ UNCHANGED <<rx, left>> /\ Server(BeginFrame(st))

EndFrame ==
  /\ Serving /\ st.frame = "Active"
  /\ UNCHANGED <<rx, left>> /\ Server(CommitFrame(st))

\* Nested StartFrame, mismatched EndFrame, reset inside a frame, closed channel.
FrameAborted ==
  /\ Serving /\ st.frame = "Active"
  /\ UNCHANGED <<rx, left>> /\ Server(AbortFrame(st))

SurfaceCreated(i) == Serving /\ Changes /\ Server(Create(st, i))
SurfaceDeleted(i) == Serving /\ Live(i) /\ Changes /\ Server(Delete(st, i))
SurfaceMapped(i, origin) ==
  Serving /\ Live(i) /\ Changes /\ Server(MapToOutput(st, i, origin))
GraphicsReset(canvas) ==
  Serving /\ st.frame = "Idle" /\ Changes /\ Server(ResetGraphics(st, canvas))

\* Any paint but AVC444: bitmaps, fills, copies from a surface or the cache.
Paint(i, B) ==
  /\ Serving /\ Live(i)
  /\ Writes("plain", 0) /\ UNCHANGED rx
  /\ Server(Blit(st, i, B, WriteNumber))

\* One AVC444 PDU announces its regions, copies them in one by one, and ends.
\* Chroma needs a luma baseline.
Avc444Regions(i, luma, chroma, overflow) ==
  /\ Serving /\ Live(i) /\ luma \cup chroma # {}
  /\ chroma \subseteq st.surfaces[i].luma \cup luma
  /\ Writes("avc444", IF overflow THEN 1 ELSE 0)
  /\ rx' = [rx EXCEPT !.id = i, !.n = WriteNumber, !.todo = luma \cup chroma]
  /\ Server([NoteRegions(st, i, luma, chroma, overflow)
               EXCEPT !.surfaces[i].luma = @ \cup luma])

Avc444Blit(b) ==
  /\ b \in rx.todo
  /\ rx' = [rx EXCEPT !.todo = @ \ {b}]
  /\ UNCHANGED left
  /\ Server(BlitAvc(st, rx.id, {b}, rx.n))

Avc444Complete ==
  /\ st.update /\ rx.todo = {}
  /\ rx' = [rx EXCEPT !.id = 0, !.n = 0]
  /\ UNCHANGED left
  /\ Server([st EXCEPT !.update = FALSE])

\* notify_if_painted: the generation moved since the last turn.
Notify ==
  /\ rx.todo = {} /\ ~st.update /\ st.gen # rx.last
  /\ rx' = [rx EXCEPT !.last = st.gen]
  /\ gate' = IF gate.claimed THEN gate ELSE [claimed |-> TRUE, queued |-> TRUE]
  /\ UNCHANGED <<st, win, snap, left, desktop, promise>>

-----------------------------------------------------------------------------
(* The window thread: events, the redraw timer, redraws.                   *)

WindowOnly == UNCHANGED <<rx, snap, left>>
Distraction ==
  /\ left.distractions > 0
  /\ left' = [left EXCEPT !.distractions = @ - 1]
  /\ UNCHANGED <<rx, snap>>
Go(w) == win' = w

\* Mutant: a covered window returns before it clears the bit.
BugDamaged ==
  /\ win.at = "idle" /\ gate.queued
  /\ gate' = [claimed |-> win.occluded, queued |-> FALSE]
  /\ Go(IF win.occluded THEN win ELSE [win EXCEPT !.at = "damaged"])
  /\ WindowOnly /\ UNCHANGED <<st, desktop, promise>>

\* SessionEvent::Damaged clears the bit ...
Damaged ==
  /\ win.at = "idle" /\ gate.queued
  /\ gate' = [claimed |-> FALSE, queued |-> FALSE]
  /\ Go([win EXCEPT !.at = "damaged"])
  /\ WindowOnly /\ UNCHANGED <<st, desktop, promise>>

\* ... and request_damage_redraw then reads the store.
RequestRedraw ==
  /\ win.at = "damaged"
  /\ LET later == win.recent \/ Waits(st)
         idle == [win EXCEPT !.at = "idle"]
     IN Go(IF win.occluded \/ win.presented = st.gen THEN idle
           ELSE [idle EXCEPT !.deadline = later, !.wanted = @ \/ ~later])
  /\ WindowOnly /\ UNCHANGED <<st, gate, desktop, promise>>

\* service_deferred_redraw
DeadlineArrives ==
  /\ win.at = "idle" /\ win.deadline
  /\ LET serve == ~win.occluded /\ (win.retry \/ win.presented # st.gen)
     IN Go([win EXCEPT !.deadline = FALSE, !.retry = FALSE, !.wanted = @ \/ serve])
  /\ WindowOnly /\ UNCHANGED <<st, gate, desktop, promise>>

Again(w) == [w EXCEPT !.at = "idle", !.deadline = TRUE, !.retry = TRUE]

\* The compositor holds every buffer: not even copied.
RedrawBusy ==
  /\ win.at = "idle" /\ win.wanted
  /\ Go(Again([win EXCEPT !.wanted = FALSE]))
  /\ Distraction /\ UNCHANGED <<st, gate, desktop, promise>>

\* copy_presentation_when_due under one lock.
Redraw ==
  /\ win.at = "idle" /\ win.wanted
  /\ st' = Settle(st)
  /\ LET drawn == [win EXCEPT !.wanted = FALSE]
         copies == Publishable(st')
         mapped == st.fallback = Blank
     IN \/ /\ win.presented # st.gen /\ (win.recent \/ Waits(st'))
           /\ Go([drawn EXCEPT !.deadline = TRUE])
           /\ UNCHANGED snap
        \/ /\ ~(win.presented # st.gen /\ (win.recent \/ Waits(st')))
           /\ Go(IF Pending(st') THEN Again(drawn)
                 ELSE [drawn EXCEPT !.at = "present", !.deadline = FALSE,
                                    !.acknowledge = copies])
           /\ snap' = IF ~copies THEN snap
                      ELSE [pic |-> Picture(st'), stamp |-> st.gen, batch |-> st'.ready,
                            mapped |-> mapped]
  /\ UNCHANGED <<rx, gate, left>> /\ History

Present ==
  /\ win.at = "present"
  /\ Go([win EXCEPT !.at = "idle", !.retry = FALSE, !.failures = 0, !.recent = left.large,
                    !.acknowledge = FALSE,
                    !.presented = IF win.acknowledge THEN snap.stamp ELSE @])
  /\ st' = IF win.acknowledge THEN Acknowledge(st, snap.batch) ELSE st
  /\ WindowOnly /\ UNCHANGED <<gate, desktop, promise>>

PresentBusy ==
  /\ win.at = "present"
  /\ Go(Again([win EXCEPT !.acknowledge = FALSE]))
  /\ Distraction /\ UNCHANGED <<st, gate, desktop, promise>>

\* note_present_failure: a streak of failures closes the window.
PresentFails ==
  /\ win.at = "present"
  /\ LET failed == [win EXCEPT !.acknowledge = FALSE, !.failures = @ + 1]
     IN Go(IF failed.failures < MAX_CONSECUTIVE_PRESENT_FAILURES THEN Again(failed)
           ELSE [failed EXCEPT !.at = "failed"])
  /\ Distraction /\ UNCHANGED <<st, gate, desktop, promise>>

\* The platform asks for a redraw.
Expose ==
  /\ win.at = "idle" /\ ~win.wanted
  /\ Go([win EXCEPT !.wanted = TRUE])
  /\ Distraction /\ UNCHANGED <<st, gate, desktop, promise>>

Occlude ==
  /\ win.at = "idle" /\ ~win.occluded
  /\ Go([win EXCEPT !.occluded = TRUE])
  /\ Distraction /\ UNCHANGED <<st, gate, desktop, promise>>

\* A reveal does not wait for chroma.
Reveal ==
  /\ win.at = "idle" /\ win.occluded
  /\ Go([win EXCEPT !.occluded = FALSE, !.wanted = TRUE])
  /\ st' = ClearPolicy(st)
  /\ WindowOnly /\ UNCHANGED <<gate, desktop, promise>>

\* Time: the luma deadline passes, the cadence interval passes.
LumaDue ==
  /\ st.wait = "running"
  /\ st' = [st EXCEPT !.wait = "due"]
  /\ WindowOnly /\ UNCHANGED <<win, gate, desktop, promise>>

CadenceDue ==
  /\ win.recent
  /\ Go([win EXCEPT !.recent = FALSE])
  /\ WindowOnly /\ UNCHANGED <<st, gate, desktop, promise>>

-----------------------------------------------------------------------------
ServerStep ==
  \/ StartFrame \/ EndFrame \/ FrameAborted
  \/ \E i \in left.ids :
       \/ SurfaceCreated(i) \/ SurfaceDeleted(i)
       \/ \E origin \in left.origins : SurfaceMapped(i, origin)
       \/ \E B \in Regions : Paint(i, B)
       \/ \E luma, chroma \in Regions \cup {{}}, overflow \in BOOLEAN :
            Avc444Regions(i, luma, chroma, overflow)
  \/ \E canvas \in Canvases \ {0} : GraphicsReset(canvas)

SessionStep == (\E b \in Blocks : Avc444Blit(b)) \/ Avc444Complete \/ Notify
WindowStep ==
  Damaged \/ RequestRedraw \/ DeadlineArrives \/ RedrawBusy \/ Redraw \/ Present
    \/ PresentBusy \/ PresentFails
Environment == Expose \/ Occlude \/ Reveal

Next == ServerStep \/ SessionStep \/ WindowStep \/ Environment \/ LumaDue \/ CadenceDue

Spec == Init /\ [][Next]_vars

(* The session thread ends its turns, the event loop serves its events,    *)
(* time passes, and a compositor asked again and again takes a frame in    *)
(* the end.  The server owes nothing.                                      *)
FairSpec ==
  /\ Spec
  /\ WF_vars(SessionStep) /\ WF_vars(WindowStep)
  /\ WF_vars(LumaDue) /\ WF_vars(CadenceDue)
  /\ SF_vars(Redraw) /\ SF_vars(Present)

-----------------------------------------------------------------------------
Pixels == [Blocks -> 0..MaxWrites]
Pictures == [pix : Pixels, origin : Origins \cup {0}, canvas : Canvases]
TypeOK ==
  /\ \A i \in Ids : st.surfaces[i] \in [live : BOOLEAN, pix : Pixels, luma : SUBSET Blocks]
  /\ st.output \in [id : Ids \cup {0}, origin : Origins \cup {0}]
  /\ st.stale \in BOOLEAN /\ st.canvas \in Canvases /\ st.fallback \in Pictures
  /\ st.suppressed \in BOOLEAN /\ st.frame \in {"Idle", "Active", "Aborted"}
  /\ st.dirty \in BOOLEAN /\ st.update \in BOOLEAN
  /\ st.wait \in {"none", "running", "due"} /\ st.pending \subseteq Blocks
  /\ st.batch \in Nat /\ st.ready \in 0..st.batch /\ st.gen \in Nat
  /\ rx.id \in Ids \cup {0} /\ rx.todo \subseteq Blocks /\ rx.n \in 0..MaxWrites
  /\ rx.last \in 0..st.gen
  /\ gate \in [claimed : BOOLEAN, queued : BOOLEAN]
  /\ win.at \in {"idle", "damaged", "present", "failed"}
  /\ win.presented \in -1..st.gen /\ win.failures \in 0..MAX_CONSECUTIVE_PRESENT_FAILURES
  /\ snap.pic \in Pictures /\ snap.stamp \in 0..st.gen /\ snap.batch \in 0..st.batch

(* The generation names the picture: while the store would hand out a copy *)
(* at all, a window whose snapshot bears the store's generation holds the  *)
(* picture the store would hand out.  Every shortcut of the window         *)
(* ("presented # stamp") rests on it.                                      *)
StampIsPicture == Publishable(st) /\ snap.stamp = st.gen => snap.pic = Picture(st)

(* A snapshot of the mapped surface that bears the ready token holds every *)
(* pixel of the batch the token was given out for, so its acknowledgement, *)
(* however late, takes back no licence of a batch it does not show.        *)
TokenMeansPixels ==
  (st.ready # 0 /\ snap.batch = st.ready /\ snap.mapped) =>
    \A b \in Blocks : snap.pic.pix[b] >= promise[b]

(* Once a desktop was to be seen the store hands out a blank picture only  *)
(* when the server deletes the mapped surface: recreating, remapping and   *)
(* half a repaint, in a frame or not, keep the last one up.                *)
HandoffKeepsDesktop == desktop /\ Publishable(st) => Picture(st) # Blank

(* The luma deadline runs exactly while luma waits for its chroma.         *)
WaitHasLuma == (st.wait = "none") <=> (st.pending = {})

(* What the window may rely on in the store: the stamp, the token, the     *)
(* handoff and the luma wait.                                              *)
PresentInv == TypeOK /\ StampIsPicture /\ TokenMeansPixels /\ HandoffKeepsDesktop /\ WaitHasLuma

(* While luma waits for its chroma, no deadline passed and no token is     *)
(* out, redraws for whatever reason do not change what is on the screen.   *)
LumaHeld ==
  [][(Redraw /\ st'.pending # {} /\ st'.ready = 0) => snap'.pic = snap.pic]_vars

(* The last picture arrives: in a visible window, when the store keeps     *)
(* having something to show, what is shown ends up being what the store    *)
(* holds, whatever notices were merged, timers replaced, frames deferred   *)
(* and chroma never sent.                                                  *)
PictureArrives ==
  <>[](Publishable(st) /\ ~win.occluded /\ win.at # "failed") => <>[](win.presented = st.gen)
===============================================================================

-------------------------- MODULE PresentationProofs --------------------------
(***************************************************************************)
(* Theorems about the presentation of the graphics pipeline, for any       *)
(* surfaces, any number of paints and any work of server and window.       *)
(*                                                                         *)
(* StampIsPicture and HandoffKeepsDesktop speak of a store that can be     *)
(* copied.  The invariant has to say what holds while it cannot: what      *)
(* would be shown if the open frame were committed now (Shown), unless the *)
(* frame is dirty without a fallback, or the output veiled (Settled).  The *)
(* methods of the store are proved one by one to move the generation or    *)
(* keep that picture (Stands), and to keep wait and token in order         *)
(* (Tokens).  That a complete output has neither fallback nor veil between *)
(* frames (Clean) makes Shown the picture handed out.                      *)
(*                                                                         *)
(* A token stands for the pixels of its batch, those of the update being   *)
(* copied in included; PromiseInv says that the output keeps them.         *)
(***************************************************************************)
EXTENDS Presentation, TLAPS

\* What TypeOK says of the variables, named.
Surface == [live : BOOLEAN, pix : Pixels, luma : SUBSET Blocks]
Mapping == {NoOutput} \cup [id : Ids, origin : Origins]
Store ==
  [surfaces : [Ids -> Surface], output : Mapping, stale : BOOLEAN, canvas : Canvases,
   fallback : Pictures, suppressed : BOOLEAN, frame : {"Idle", "Active", "Aborted"},
   dirty : BOOLEAN, wait : {"none", "running", "due"}, pending : SUBSET Blocks,
   ready : Nat, batch : Nat, update : BOOLEAN, gen : Nat]
Copier == [id : Ids \cup {0}, n : 0..MaxWrites, todo : SUBSET Blocks, last : Nat]
Window ==
  [at : {"idle", "damaged", "present", "failed"}, occluded : BOOLEAN, wanted : BOOLEAN,
   deadline : BOOLEAN, retry : BOOLEAN, presented : Nat \cup {-1}, recent : BOOLEAN,
   acknowledge : BOOLEAN, failures : 0..MAX_CONSECUTIVE_PRESENT_FAILURES]
Snapshot == [pic : Pictures, stamp : Nat, batch : Nat, mapped : BOOLEAN]
Budget ==
  [ids : SUBSET Ids, origins : SUBSET Origins, changes : Nat, writes : 0..MaxWrites,
   codecs : SUBSET {"plain", "avc444"}, distractions : Nat, large : BOOLEAN]

Typed ==
  /\ st \in Store /\ rx \in Copier /\ win \in Window /\ snap \in Snapshot /\ left \in Budget
  /\ gate \in [claimed : BOOLEAN, queued : BOOLEAN]
  /\ desktop \in BOOLEAN /\ promise \in Pixels
  /\ st.ready <= st.batch /\ rx.last <= st.gen
  /\ snap.batch <= st.batch /\ snap.stamp <= st.gen /\ win.presented <= snap.stamp
  /\ win.at # "failed" => win.failures < MAX_CONSECUTIVE_PRESENT_FAILURES

\* Paints are numbered as they come, and the update being copied in is the newest.
Spent == MaxWrites - left.writes
WritesInv ==
  /\ \A i \in Ids, b \in Blocks : st.surfaces[i].pix[b] <= Spent
  /\ rx.todo # {} => st.update /\ rx.id \in Ids /\ rx.n = Spent /\ rx.n # 0

\* What is shown, or would be if the open frame ended here; and when that can be said.
Mapped(s) == ~s.stale /\ s.output # NoOutput /\ Painted(s, s.output.id)
Shown(s) == IF s.fallback # Blank THEN s.fallback ELSE IF Mapped(s) THEN PictureOf(s) ELSE Blank
Settled(s) ==
  /\ ~s.suppressed
  /\ s.frame = "Idle" \/ (s.frame = "Active" /\ (s.fallback # Blank \/ ~s.dirty))

\* Between frames nothing hides a complete output, nor stays up for an unmapped one.
Clean(s) ==
  s.frame = "Idle" /\ (OutputComplete(s) \/ s.output = NoOutput) =>
    s.fallback = Blank /\ ~s.suppressed

\* The wait has its luma, and there is neither wait nor token without an output.
Quiet(s) ==
  /\ (s.wait = "none") <=> (s.pending = {})
  /\ (s.stale \/ s.output = NoOutput) => s.wait = "none" /\ s.ready = 0

StampInv == snap.stamp = st.gen /\ Settled(st) => snap.pic = Shown(st)
DesktopInv == desktop => st.output # NoOutput /\ (Settled(st) => Shown(st) # Blank)
PromiseInv == st.ready # 0 => \A b \in Blocks : Landing(st, rx)[b] >= promise[b]

PInv == Typed /\ WritesInv /\ Clean(st) /\ Quiet(st) /\ StampInv /\ DesktopInv /\ PromiseInv
          /\ TokenMeansPixels

-----------------------------------------------------------------------------
SamePix(s, t) == s.output.id \in Ids => t.surfaces[s.output.id].pix = s.surfaces[s.output.id].pix
SameMap(s, t) == t.output = s.output /\ t.stale = s.stale /\ t.canvas = s.canvas
SameShow(s, t) ==
  /\ t.fallback = s.fallback /\ t.suppressed = s.suppressed /\ t.frame = s.frame
  /\ t.dirty = s.dirty /\ t.gen = s.gen
SameView(s, t) == SamePix(s, t) /\ SameMap(s, t) /\ SameShow(s, t)
SamePolicy(s, t) ==
  t.wait = s.wait /\ t.pending = s.pending /\ t.ready = s.ready /\ t.batch = s.batch

(* The fields of a store are what Store says.                              *)
LEMMA StoreFields ==
  ASSUME NEW s \in Store
  PROVE  /\ s.surfaces \in [Ids -> Surface] /\ s.output \in Mapping /\ s.stale \in BOOLEAN
         /\ s.canvas \in Canvases /\ s.fallback \in Pictures /\ s.suppressed \in BOOLEAN
         /\ s.frame \in {"Idle", "Active", "Aborted"} /\ s.dirty \in BOOLEAN
         /\ s.wait \in {"none", "running", "due"} /\ s.pending \in SUBSET Blocks
         /\ s.ready \in Nat /\ s.batch \in Nat /\ s.update \in BOOLEAN /\ s.gen \in Nat
         /\ \A i \in Ids : s.surfaces[i] \in Surface /\ s.surfaces[i].pix \in Pixels
  BY DEF Store, Surface

(* Surface ids are positive, so id 0 names no output.                      *)
LEMMA OutputFields ==
  ASSUME NEW s \in Store
  PROVE  /\ s.output = NoOutput \/ (s.output.id \in Ids /\ s.output.origin \in Origins)
         /\ s.output.id = 0 <=> s.output = NoOutput
         /\ s.output.id \in Ids <=> s.output # NoOutput
         /\ 0 \notin Ids
  BY StoreFields, PresentationAssumption DEF Mapping, NoOutput

(* The output is the mapped surface, unless that was recreated.            *)
LEMMA OutputIs ==
  ASSUME NEW s \in Store, NEW i \in Ids
  PROVE  IsOutput(s, i) <=> (~s.stale /\ s.output # NoOutput /\ s.output.id = i)
  BY OutputFields DEF IsOutput

(* A complete surface is painted, for a surface has blocks.                *)
LEMMA CompleteIs ==
  ASSUME NEW s \in Store
  PROVE  /\ OutputComplete(s) <=> (~s.stale /\ s.output # NoOutput /\ Complete(s, s.output.id))
         /\ \A i \in Ids : Complete(s, i) => Painted(s, i)
         /\ OutputComplete(s) => Mapped(s)
<1>1. \A i \in Ids : Complete(s, i) => Painted(s, i)
  BY PresentationAssumption DEF Complete, Painted
<1>2. OutputComplete(s) <=> (~s.stale /\ s.output # NoOutput /\ Complete(s, s.output.id))
  BY OutputIs, OutputFields DEF OutputComplete
<1> QED
  BY <1>1, <1>2, OutputFields DEF Mapped

(* Blank, a picture of the output and what is shown are pictures.          *)
LEMMA PicturesTyped ==
  /\ Unpainted \in Pixels /\ Blank \in Pictures
  /\ \A s \in Store : s.output # NoOutput => PictureOf(s) \in Pictures
  /\ \A s \in Store : Shown(s) \in Pictures
<1>1. Unpainted \in Pixels
  BY PresentationAssumption DEF Unpainted, Pixels
<1>2. Blank \in Pictures
  BY <1>1, PresentationAssumption DEF Blank, Pictures
<1>3. ASSUME NEW s \in Store, s.output # NoOutput PROVE PictureOf(s) \in Pictures
  BY <1>3, StoreFields, OutputFields DEF PictureOf, Pictures
<1> QED
  BY <1>1, <1>2, <1>3, StoreFields DEF Shown, Mapped

(* A painted surface does not look blank.                                  *)
LEMMA PaintedShows ==
  ASSUME NEW s \in Store, s.output # NoOutput, Painted(s, s.output.id)
  PROVE  PictureOf(s) # Blank
<1>1. PICK b \in Blocks : s.surfaces[s.output.id].pix[b] # 0
  BY DEF Painted
<1>2. Blank.pix[b] = 0
  BY DEF Blank, Unpainted
<1>3. PictureOf(s).pix[b] # 0
  BY <1>1 DEF PictureOf
<1> QED
  BY <1>2, <1>3

(* Between frames the store hands out what Shown says.                     *)
LEMMA PictureShown ==
  ASSUME NEW s \in Store, Clean(s), s.frame = "Idle"
  PROVE  Picture(s) = Shown(s)
<1>1. OutputComplete(s) => Mapped(s) /\ s.fallback = Blank
  BY CompleteIs DEF Clean
<1> QED
  BY <1>1 DEF Picture, Shown, Mapped

(* What is shown depends on the mapping, its pixels and the fallback.      *)
LEMMA ViewKept ==
  ASSUME NEW s \in Store, NEW t \in Store, SamePix(s, t), SameMap(s, t)
  PROVE  /\ Mapped(t) = Mapped(s) /\ OutputComplete(t) = OutputComplete(s)
         /\ s.output # NoOutput => PictureOf(t) = PictureOf(s)
         /\ t.fallback = s.fallback => Shown(t) = Shown(s)
<1>1. s.output.id \in Ids =>
        /\ Painted(t, s.output.id) <=> Painted(s, s.output.id)
        /\ Complete(t, s.output.id) <=> Complete(s, s.output.id)
  BY DEF SamePix, Painted, Complete
<1>2. s.output # NoOutput => PictureOf(t) = PictureOf(s)
  BY OutputFields DEF SamePix, SameMap, PictureOf
<1>a. t.output = s.output /\ t.stale = s.stale
  BY DEF SameMap
<1>b. s.output # NoOutput => s.output.id \in Ids
  BY OutputFields
<1>c. Mapped(t) <=> Mapped(s)
  BY <1>1, <1>a, <1>b DEF Mapped
<1>d. OutputComplete(t) <=> OutputComplete(s)
  BY <1>1, <1>a, <1>b, CompleteIs
<1>3. Mapped(t) = Mapped(s) /\ OutputComplete(t) = OutputComplete(s)
  BY <1>c, <1>d DEF Mapped, OutputComplete
<1> QED
  BY <1>1, <1>2, <1>3 DEF Shown, Mapped

(* What a method of the store may do to the view: the generation moves,    *)
(* or what will be shown stays; and a view that was not blank does not     *)
(* become blank.                                                           *)
Stands(s, t) ==
  /\ Clean(t) /\ t.gen >= s.gen
  /\ t.gen = s.gen /\ Settled(t) => Settled(s) /\ Shown(t) = Shown(s)
  /\ s.output # NoOutput /\ t.output # NoOutput /\ Settled(t) /\ Shown(t) = Blank
       => Settled(s) /\ Shown(s) = Blank

(* What it may do to the luma wait and the token.                          *)
Tokens(s, t) ==
  /\ Quiet(t) /\ t.batch >= s.batch
  /\ \/ t.ready = 0
     \/ t.batch = s.batch /\ t.ready = s.ready
     \/ t.batch > s.batch /\ t.ready = t.batch

(* A method that leaves the view alone may do so.                          *)
LEMMA ViewStands ==
  ASSUME NEW s \in Store, NEW t \in Store, SameView(s, t), Clean(s)
  PROVE  Stands(s, t)
<1>1. Shown(t) = Shown(s) /\ OutputComplete(t) = OutputComplete(s)
  BY ViewKept DEF SameView, SameShow
<1>2. t.gen = s.gen /\ s.gen >= s.gen
  BY StoreFields DEF SameView, SameShow
<1>3. Clean(t) /\ (Settled(t) <=> Settled(s))
  BY <1>1 DEF Clean, Settled, SameView, SameShow, SameMap
<1> QED
  BY <1>1, <1>2, <1>3 DEF Stands

(* The policy methods.                                                     *)

(* clear_presentation_policy ends the wait and takes back the token.       *)
LEMMA ClearFields ==
  ASSUME NEW s \in Store, NEW t, t = ClearPolicy(s)
  PROVE  /\ t \in Store /\ SameView(s, t) /\ t.update = s.update /\ t.surfaces = s.surfaces
         /\ t.wait = "none" /\ t.pending = {} /\ t.ready = 0 /\ t.batch = s.batch
  BY DEF ClearPolicy, Store, SameView, SamePix, SameMap, SameShow

(* A release ends the wait and gives out a fresh token.                    *)
LEMMA ReleaseFields ==
  ASSUME NEW s \in Store, NEW t, t = Release(s)
  PROVE  /\ t \in Store /\ SameView(s, t) /\ t.update = s.update /\ t.surfaces = s.surfaces
         /\ t.wait = "none" /\ t.pending = {}
         /\ t.batch = s.batch + 1 /\ t.ready = t.batch /\ t.batch > s.batch
<1>1. s.batch \in Nat /\ s.batch + 1 \in Nat /\ s.batch + 1 > s.batch
  BY StoreFields
<1>2. t = [s EXCEPT !.wait = "none", !.pending = {}, !.batch = s.batch + 1, !.ready = s.batch + 1]
  BY DEF Release
<1> DEFINE n == s.batch + 1
<1>3. n \in Nat /\ n > s.batch
  BY <1>1
<1>4. t = [s EXCEPT !.wait = "none", !.pending = {}, !.batch = n, !.ready = n]
  BY <1>2
<1> HIDE DEF n
<1>5. /\ t \in Store /\ SameView(s, t) /\ t.update = s.update /\ t.surfaces = s.surfaces
      /\ t.wait = "none" /\ t.pending = {} /\ t.batch = n /\ t.ready = n
  BY <1>3, <1>4 DEF Store, SameView, SamePix, SameMap, SameShow
<1> QED
  BY <1>3, <1>5 DEF n

(* Clearing keeps the policy in order.                                     *)
LEMMA ClearTokens ==
  ASSUME NEW s \in Store, NEW t, t = ClearPolicy(s)
  PROVE  Tokens(s, t)
<1>1. t.batch = s.batch /\ s.batch \in Nat
  BY ClearFields, StoreFields
<1> QED
  BY <1>1, ClearFields DEF Tokens, Quiet

(* A release keeps it in order, while something is mapped.                 *)
LEMMA ReleaseTokens ==
  ASSUME NEW s \in Store, NEW t, t = Release(s), ~s.stale, s.output # NoOutput
  PROVE  Tokens(s, t)
<1>1. t.batch \in Nat /\ t.batch > s.batch /\ s.batch \in Nat /\ t.ready = t.batch
  BY ReleaseFields, StoreFields
<1>2. Quiet(t)
  BY ReleaseFields DEF Quiet, SameView, SameMap
<1> QED
  BY <1>1, <1>2 DEF Tokens

(* A deadline that passed releases, and nothing else happens.              *)
LEMMA SettleFields ==
  ASSUME NEW s \in Store, NEW t, t = Settle(s), Quiet(s)
  PROVE  /\ t \in Store /\ SameView(s, t) /\ t.update = s.update /\ t.surfaces = s.surfaces
         /\ Tokens(s, t) /\ (s.wait # "due" => t = s) /\ (s.wait = "due" => t.pending = {})
<1>1. CASE s.wait = "due"
  <2>1. ~s.stale /\ s.output # NoOutput /\ t = Release(s)
    BY <1>1 DEF Quiet, Settle
  <2> QED
    BY <1>1, <2>1, ReleaseFields, ReleaseTokens
<1>2. CASE s.wait # "due"
  <2>1. t = s
    BY <1>2 DEF Settle
  <2>2. s.batch >= s.batch
    BY StoreFields
  <2> QED
    BY <1>2, <2>1, <2>2 DEF Tokens, SameView, SamePix, SameMap, SameShow
<1> QED
  BY <1>1, <1>2

(* Two calls in a row move the tokens as one does.                         *)
LEMMA TokensOver ==
  ASSUME NEW r \in Store, NEW s \in Store, NEW t \in Store, Tokens(r, s), Tokens(s, t)
  PROVE  Tokens(r, t)
<1>1. r.batch \in Nat /\ s.batch \in Nat /\ t.batch \in Nat
  BY StoreFields
<1> QED
  BY <1>1 DEF Tokens

(* A method that leaves wait, token and mapping alone keeps the order.     *)
LEMMA PolicyKept ==
  ASSUME NEW s \in Store, NEW t \in Store, SamePolicy(s, t), SameMap(s, t), Quiet(s)
  PROVE  Tokens(s, t)
<1>1. t.batch = s.batch /\ s.batch >= s.batch
  BY StoreFields DEF SamePolicy
<1>2. Quiet(t)
  BY DEF Quiet, SamePolicy, SameMap
<1> QED
  BY <1>1, <1>2 DEF Tokens, SamePolicy

(* Luma arms the wait of a mapped surface.                                 *)
LEMMA ArmFields ==
  ASSUME NEW s \in Store, NEW luma \in SUBSET Blocks, NEW t, t = Arm(s, luma),
         Quiet(s), ~s.stale, s.output # NoOutput
  PROVE  /\ t \in Store /\ SameView(s, t) /\ t.update = s.update /\ t.surfaces = s.surfaces
         /\ Tokens(s, t)
<1>1. s.pending \in SUBSET Blocks /\ s.wait \in {"none", "running", "due"} /\ s.batch >= s.batch
  BY StoreFields
<1> DEFINE p == s.pending \cup luma
           w == IF s.wait = "none" /\ luma # {} THEN "running" ELSE s.wait
<1>2. p \in SUBSET Blocks /\ w \in {"none", "running", "due"}
  BY <1>1
<1>3. t = [s EXCEPT !.pending = p, !.wait = w]
  BY DEF Arm
<1>4. (w = "none") <=> (p = {})
  BY <1>1 DEF Quiet
<1> HIDE DEF p, w
<1>5. /\ t \in Store /\ SameView(s, t) /\ t.update = s.update /\ t.surfaces = s.surfaces
      /\ t.pending = p /\ t.wait = w /\ t.ready = s.ready /\ t.batch = s.batch
  BY <1>2, <1>3 DEF Store, SameView, SamePix, SameMap, SameShow
<1>6. Quiet(t)
  BY <1>4, <1>5 DEF Quiet, SameView, SameMap
<1> QED
  BY <1>1, <1>5, <1>6 DEF Tokens

(* Two calls that leave the view alone leave it alone.                     *)
LEMMA ViewOver ==
  ASSUME NEW r \in Store, NEW s \in Store, NEW t \in Store, SameView(r, s), SameView(s, t)
  PROVE  SameView(r, t)
  BY DEF SameView, SamePix, SameMap, SameShow

(* Announcing the regions of an AVC444 update changes no view.             *)
LEMMA NoteFields ==
  ASSUME NEW s \in Store, NEW i \in Ids, NEW luma \in SUBSET Blocks, NEW chroma \in SUBSET Blocks,
         NEW overflow \in BOOLEAN, NEW t, t = NoteRegions(s, i, luma, chroma, overflow), Quiet(s)
  PROVE  /\ t \in Store /\ SameView(s, t) /\ t.update /\ t.surfaces = s.surfaces
         /\ Tokens(s, t)
<1> DEFINE noted == [s EXCEPT !.update = TRUE]
           settled == Settle(noted)
           armed == Arm(settled, luma)
           refined == [armed EXCEPT !.pending = @ \ chroma]
<1>1. /\ noted \in Store /\ SameView(s, noted) /\ noted.update /\ noted.surfaces = s.surfaces
      /\ SamePolicy(s, noted)
  BY DEF Store, SameView, SamePix, SameMap, SameShow, SamePolicy
<1>2. Tokens(s, noted)
  BY <1>1, PolicyKept DEF SameView
<1>3. t = IF ~IsOutput(s, i) THEN noted
          ELSE IF overflow THEN Release(settled)
          ELSE IF armed.pending # {} /\ refined.pending = {} THEN Release(refined) ELSE refined
  BY DEF NoteRegions
<1> HIDE DEF noted
<1>4. CASE ~IsOutput(s, i)
  BY <1>1, <1>2, <1>3, <1>4
<1>5. CASE IsOutput(s, i)
  <2>1. ~s.stale /\ s.output # NoOutput
    BY <1>5, OutputIs
  <2>2. Quiet(noted)
    BY <1>2 DEF Tokens
  <2>3. /\ settled \in Store /\ SameView(noted, settled) /\ settled.update = noted.update
        /\ settled.surfaces = noted.surfaces /\ Tokens(noted, settled)
    BY <1>1, <2>2, SettleFields
  <2> HIDE DEF settled
  <2>4. /\ SameView(s, settled) /\ Tokens(s, settled) /\ Quiet(settled)
        /\ settled.update /\ settled.surfaces = s.surfaces
    BY <1>1, <1>2, <2>3, ViewOver, TokensOver DEF Tokens
  <2>5. ~settled.stale /\ settled.output # NoOutput
    BY <2>1, <2>4 DEF SameView, SameMap
  <2>6. CASE overflow
    <3>1. t = Release(settled)
      BY <1>3, <1>5, <2>6
    <3> QED
      BY <2>3, <2>4, <2>5, <3>1, ReleaseFields, ReleaseTokens, ViewOver, TokensOver
  <2>7. CASE ~overflow
    <3>1. /\ armed \in Store /\ SameView(settled, armed) /\ armed.update = settled.update
          /\ armed.surfaces = settled.surfaces /\ Tokens(settled, armed)
      BY <2>3, <2>4, <2>5, ArmFields
    <3> HIDE DEF armed
    <3>2. /\ SameView(s, armed) /\ Tokens(s, armed) /\ Quiet(armed) /\ armed.update
          /\ armed.surfaces = s.surfaces
      BY <2>3, <2>4, <3>1, ViewOver, TokensOver DEF Tokens
    <3>3. ~armed.stale /\ armed.output # NoOutput
      BY <2>5, <3>1 DEF SameView, SameMap
    <3>4. /\ refined \in Store /\ SameView(armed, refined) /\ refined.update = armed.update
          /\ refined.surfaces = armed.surfaces /\ refined.wait = armed.wait
          /\ refined.ready = armed.ready /\ refined.batch = armed.batch
          /\ refined.pending = armed.pending \ chroma
      <4>1. armed.pending \ chroma \in SUBSET Blocks
        BY <3>1, StoreFields
      <4> DEFINE p == armed.pending \ chroma
      <4>2. p \in SUBSET Blocks /\ refined = [armed EXCEPT !.pending = p]
        BY <4>1
      <4> HIDE DEF p, refined
      <4>3. /\ refined \in Store /\ SameView(armed, refined) /\ refined.update = armed.update
            /\ refined.surfaces = armed.surfaces /\ refined.wait = armed.wait
            /\ refined.ready = armed.ready /\ refined.batch = armed.batch /\ refined.pending = p
        BY <3>1, <4>2 DEF Store, SameView, SamePix, SameMap, SameShow
      <4> QED
        BY <4>3 DEF p
    <3> HIDE DEF refined
    <3>5. ~refined.stale /\ refined.output # NoOutput
      BY <3>3, <3>4 DEF SameView, SameMap
    <3>6. CASE armed.pending # {} /\ refined.pending = {}
      <4>1. t = Release(refined)
        BY <1>3, <1>5, <2>7, <3>6
      <4>2. /\ t \in Store /\ SameView(refined, t) /\ t.update = refined.update
            /\ t.surfaces = refined.surfaces /\ Tokens(refined, t)
        BY <3>4, <3>5, <4>1, ReleaseFields, ReleaseTokens
      <4>3. Tokens(armed, t)
        BY <3>4, <4>2 DEF Tokens
      <4> QED
        BY <3>1, <3>2, <3>4, <4>2, <4>3, ViewOver, TokensOver
    <3>7. CASE ~(armed.pending # {} /\ refined.pending = {})
      <4>1. t = refined
        BY <1>3, <1>5, <2>7, <3>7
      <4>2. Quiet(refined)
        BY <3>2, <3>4, <3>5, <3>7 DEF Quiet
      <4>3. refined.batch >= armed.batch
        BY <3>1, <3>4, StoreFields
      <4>4. Tokens(armed, refined)
        BY <3>4, <4>2, <4>3 DEF Tokens
      <4> QED
        BY <3>1, <3>2, <3>4, <4>1, <4>4, ViewOver, TokensOver
    <3> QED
      BY <3>6, <3>7
  <2> QED
    BY <2>6, <2>7
<1> QED
  BY <1>4, <1>5

(* An acknowledgement takes back the token it names, or nothing.           *)
LEMMA AcknowledgeFields ==
  ASSUME NEW s \in Store, NEW n \in Nat, NEW t, t = Acknowledge(s, n), Quiet(s)
  PROVE  /\ t \in Store /\ SameView(s, t) /\ t.update = s.update /\ t.surfaces = s.surfaces
         /\ Tokens(s, t) /\ t.batch = s.batch
<1> DEFINE m == IF n # 0 /\ n = s.ready THEN 0 ELSE s.ready
<1>1. m \in Nat /\ (m = 0 \/ m = s.ready) /\ s.batch >= s.batch
  BY StoreFields
<1>2. t = [s EXCEPT !.ready = m]
  BY DEF Acknowledge
<1> HIDE DEF m
<1>3. /\ t \in Store /\ SameView(s, t) /\ t.update = s.update /\ t.surfaces = s.surfaces
      /\ t.wait = s.wait /\ t.pending = s.pending /\ t.ready = m /\ t.batch = s.batch
  BY <1>1, <1>2 DEF Store, SameView, SamePix, SameMap, SameShow
<1>4. Quiet(t)
  BY <1>1, <1>3 DEF Quiet, SameView, SameMap
<1> QED
  BY <1>1, <1>3, <1>4 DEF Tokens

(* The methods that change what is shown.                                  *)

(* Before a handoff the store keeps what is shown as the fallback.         *)
LEMMA RetainedFields ==
  ASSUME NEW s \in Store, NEW t, t = Retain(MarkDirty(ClearPolicy(s)))
  PROVE  /\ t \in Store /\ SameMap(s, t) /\ t.surfaces = s.surfaces /\ t.update = s.update
         /\ t.suppressed = s.suppressed /\ t.frame = s.frame /\ t.gen = s.gen
         /\ t.dirty = (s.dirty \/ s.frame # "Idle")
         /\ t.fallback = IF s.frame = "Idle" /\ ~s.suppressed THEN Shown(s) ELSE s.fallback
         /\ t.wait = "none" /\ t.pending = {} /\ t.ready = 0 /\ t.batch = s.batch
<1> DEFINE c == ClearPolicy(s)
           m == MarkDirty(c)
<1>1. /\ c \in Store /\ SameView(s, c) /\ c.update = s.update /\ c.surfaces = s.surfaces
      /\ c.wait = "none" /\ c.pending = {} /\ c.ready = 0 /\ c.batch = s.batch
  BY ClearFields
<1>2. t = Retain(m)
  OBVIOUS
<1> HIDE DEF c
<1>3. /\ m \in Store /\ SameMap(c, m) /\ m.surfaces = c.surfaces /\ m.update = c.update
      /\ m.suppressed = c.suppressed /\ m.frame = c.frame /\ m.gen = c.gen
      /\ m.fallback = c.fallback /\ m.dirty = (c.dirty \/ c.frame # "Idle")
      /\ m.wait = c.wait /\ m.pending = c.pending /\ m.ready = c.ready /\ m.batch = c.batch
  <2> DEFINE d == c.dirty \/ c.frame # "Idle"
  <2>1. d \in BOOLEAN /\ m = [c EXCEPT !.dirty = d]
    BY DEF MarkDirty
  <2> HIDE DEF d, m
  <2>2. /\ m \in Store /\ SameMap(c, m) /\ m.surfaces = c.surfaces /\ m.update = c.update
        /\ m.suppressed = c.suppressed /\ m.frame = c.frame /\ m.gen = c.gen
        /\ m.fallback = c.fallback /\ m.dirty = d
        /\ m.wait = c.wait /\ m.pending = c.pending /\ m.ready = c.ready /\ m.batch = c.batch
    BY <1>1, <2>1 DEF Store, SameMap
  <2> QED
    BY <2>2 DEF d
<1> HIDE DEF m
<1>4. /\ m \in Store /\ SameMap(s, m) /\ m.surfaces = s.surfaces /\ m.update = s.update
      /\ m.suppressed = s.suppressed /\ m.frame = s.frame /\ m.gen = s.gen
      /\ m.fallback = s.fallback /\ m.dirty = (s.dirty \/ s.frame # "Idle")
      /\ m.wait = "none" /\ m.pending = {} /\ m.ready = 0 /\ m.batch = s.batch
  BY <1>1, <1>3 DEF SameView, SameMap, SameShow
<1>5. Shown(m) = Shown(s) /\ (Mapped(m) <=> Mapped(s)) /\ Shown(s) \in Pictures
  BY <1>4, ViewKept, PicturesTyped DEF SamePix
<1> DEFINE keeps == \/ m.stale \/ m.fallback # Blank \/ m.suppressed \/ m.frame # "Idle"
                    \/ m.output = NoOutput \/ ~Painted(m, m.output.id)
<1>6. CASE keeps
  <2>1. t = m
    BY <1>2, <1>6 DEF Retain
  <2>2. m.frame = "Idle" /\ ~m.suppressed => m.fallback = Shown(m)
    BY <1>6 DEF Shown, Mapped
  <2> QED
    BY <1>4, <1>5, <2>1, <2>2
<1>7. CASE ~keeps
  <2>1. t = [m EXCEPT !.fallback = PictureOf(m)]
    BY <1>2, <1>7 DEF Retain
  <2>2. PictureOf(m) = Shown(m) /\ m.frame = "Idle" /\ ~m.suppressed
    BY <1>7 DEF Shown, Mapped
  <2> DEFINE f == Shown(s)
  <2>3. t = [m EXCEPT !.fallback = f] /\ f \in Pictures
    BY <1>5, <2>1, <2>2
  <2> HIDE DEF f
  <2>4. /\ t \in Store /\ SameMap(m, t) /\ t.surfaces = m.surfaces /\ t.update = m.update
        /\ t.suppressed = m.suppressed /\ t.frame = m.frame /\ t.gen = m.gen
        /\ t.fallback = f /\ t.dirty = m.dirty
        /\ t.wait = m.wait /\ t.pending = m.pending /\ t.ready = m.ready /\ t.batch = m.batch
    BY <1>4, <2>3 DEF Store, SameMap
  <2> QED
    BY <1>4, <2>2, <2>4 DEF f, SameMap
<1> QED
  BY <1>6, <1>7

(* Touch moves the generation only.                                        *)
LEMMA TouchFields ==
  ASSUME NEW s \in Store, NEW t, t = Touch(s)
  PROVE  /\ t \in Store /\ SameMap(s, t) /\ t.surfaces = s.surfaces /\ t.update = s.update
         /\ t.suppressed = s.suppressed /\ t.frame = s.frame /\ t.fallback = s.fallback
         /\ t.dirty = s.dirty /\ SamePolicy(s, t) /\ t.gen > s.gen
<1> DEFINE g == s.gen + 1
<1>1. g \in Nat /\ g > s.gen /\ t = [s EXCEPT !.gen = g]
  BY StoreFields DEF Touch
<1> HIDE DEF g
<1> QED
  BY <1>1 DEF Store, SameMap, SamePolicy

(* A new generation may name any picture that is not blank.                *)
LEMMA TouchStands ==
  ASSUME NEW s \in Store, NEW t \in Store, t.gen > s.gen, Clean(t),
         t.output # NoOutput /\ Settled(t) => Shown(t) # Blank
  PROVE  Stands(s, t)
<1>1. t.gen \in Nat /\ s.gen \in Nat
  BY StoreFields
<1>2. t.gen >= s.gen /\ t.gen # s.gen
  BY <1>1
<1> QED
  BY <1>2 DEF Stands

(* t holds the paint n over the blocks B of surface i.                      *)
Overwritten(s, t, i, B, n) ==
  /\ \A j \in Ids \ {i} : t.surfaces[j] = s.surfaces[j]
  /\ t.surfaces[i].luma = s.surfaces[i].luma
  /\ \A b \in Blocks : t.surfaces[i].pix[b] = IF b \in B THEN n ELSE s.surfaces[i].pix[b]

(* A write changes pixels of one surface.                                  *)
LEMMA WriteFields ==
  ASSUME NEW s \in Store, NEW i \in Ids, NEW B \in SUBSET Blocks, NEW n \in 0..MaxWrites,
         NEW t, t = Write(s, i, B, n)
  PROVE  /\ t \in Store /\ SameMap(s, t) /\ SameShow(s, t) /\ SamePolicy(s, t)
         /\ t.update = s.update
         /\ Overwritten(s, t, i, B, n)
<1> DEFINE p == [b \in Blocks |-> IF b \in B THEN n ELSE s.surfaces[i].pix[b]]
           u == [s.surfaces EXCEPT ![i] = [s.surfaces[i] EXCEPT !.pix = p]]
<1>1. s.surfaces \in [Ids -> Surface] /\ s.surfaces[i] \in Surface
  BY StoreFields
<1>2. p \in Pixels /\ \A b \in Blocks : p[b] = IF b \in B THEN n ELSE s.surfaces[i].pix[b]
  BY <1>1, StoreFields DEF Pixels
<1>3. t = [s EXCEPT !.surfaces = u]
  BY <1>1 DEF Write, Store
<1> HIDE DEF p
<1>4. u \in [Ids -> Surface]
  BY <1>1, <1>2 DEF Surface
<1>5. /\ \A j \in Ids \ {i} : u[j] = s.surfaces[j]
      /\ u[i].luma = s.surfaces[i].luma /\ u[i].pix = p
  BY <1>1 DEF Surface
<1> HIDE DEF u
<1>6. /\ t \in Store /\ SameMap(s, t) /\ SameShow(s, t) /\ SamePolicy(s, t)
      /\ t.update = s.update /\ t.surfaces = u
  BY <1>3, <1>4 DEF Store, SameMap, SameShow, SamePolicy
<1> QED
  BY <1>2, <1>5, <1>6 DEF Overwritten

(* finish_surface_mutation: nothing, a dirty frame, or a new generation.   *)
LEMMA FinishFields ==
  ASSUME NEW s \in Store, NEW i \in Ids, NEW t, t = FinishMutation(s, i)
  PROVE  /\ t \in Store /\ SameMap(s, t) /\ t.surfaces = s.surfaces /\ SamePolicy(s, t)
         /\ t.update = s.update /\ t.frame = s.frame
         /\ \/ ~Shows(s, i) /\ t = s
            \/ /\ Shows(s, i) /\ s.frame # "Idle" /\ t.dirty
               /\ t.fallback = s.fallback /\ t.suppressed = s.suppressed /\ t.gen = s.gen
            \/ /\ Shows(s, i) /\ s.frame = "Idle" /\ t.fallback = Blank /\ ~t.suppressed
               /\ t.gen > s.gen
<1>1. CASE ~Shows(s, i)
  BY <1>1 DEF FinishMutation, SameMap, SamePolicy
<1>2. CASE Shows(s, i) /\ s.frame # "Idle"
  <2>1. t = [s EXCEPT !.dirty = TRUE]
    BY <1>2 DEF FinishMutation
  <2> QED
    BY <1>2, <2>1 DEF Store, SameMap, SamePolicy
<1>3. CASE Shows(s, i) /\ s.frame = "Idle"
  <2> DEFINE u == [s EXCEPT !.fallback = Blank, !.suppressed = FALSE]
  <2>1. /\ u \in Store /\ SameMap(s, u) /\ u.surfaces = s.surfaces /\ SamePolicy(s, u)
        /\ u.update = s.update /\ u.frame = s.frame /\ u.fallback = Blank /\ ~u.suppressed
        /\ u.gen = s.gen
    BY PicturesTyped DEF Store, SameMap, SamePolicy
  <2>2. t = Touch(u)
    BY <1>3 DEF FinishMutation
  <2> HIDE DEF u
  <2> QED
    BY <1>3, <2>1, <2>2, TouchFields DEF SameMap, SamePolicy
<1> QED
  BY <1>1, <1>2, <1>3

(* A paint: a complete output, or one in the open, is shown and named by a *)
(* new generation; behind a fallback or a veil it changes nothing to see.  *)
LEMMA BlitAvcStands ==
  ASSUME NEW s \in Store, NEW i \in Ids, NEW B \in SUBSET Blocks, NEW n \in 1..MaxWrites,
         B # {}, NEW t, t = BlitAvc(s, i, B, n), Clean(s), Quiet(s)
  PROVE  /\ t \in Store /\ SameMap(s, t) /\ SamePolicy(s, t) /\ t.update = s.update
         /\ Overwritten(s, t, i, B, n)
         /\ Stands(s, t) /\ Tokens(s, t)
<1> DEFINE w == Write(s, i, B, n)
<1>0. n \in 0..MaxWrites /\ n # 0
  BY PresentationAssumption
<1>1. /\ w \in Store /\ SameMap(s, w) /\ SameShow(s, w) /\ SamePolicy(s, w)
      /\ w.update = s.update
      /\ Overwritten(s, w, i, B, n)
  <2>1. w = Write(s, i, B, n)
    OBVIOUS
  <2>2. n \in 0..MaxWrites
    BY <1>0
  <2> HIDE DEF w
  <2> QED
    BY ONLY <2>1, <2>2, s \in Store, i \in Ids, B \in SUBSET Blocks, WriteFields
<1>2. t = FinishMutation(w, i)
  BY DEF BlitAvc
<1> HIDE DEF w
<1>3. /\ t \in Store /\ SameMap(w, t) /\ t.surfaces = w.surfaces /\ SamePolicy(w, t)
      /\ t.update = w.update /\ t.frame = w.frame
      /\ \/ ~Shows(w, i) /\ t = w
         \/ /\ Shows(w, i) /\ w.frame # "Idle" /\ t.dirty
            /\ t.fallback = w.fallback /\ t.suppressed = w.suppressed /\ t.gen = w.gen
         \/ /\ Shows(w, i) /\ w.frame = "Idle" /\ t.fallback = Blank /\ ~t.suppressed
            /\ t.gen > w.gen
  BY <1>1, <1>2, FinishFields
<1>4. /\ SameMap(s, t) /\ SamePolicy(s, t) /\ t.update = s.update
      /\ Overwritten(s, t, i, B, n)
  BY <1>1, <1>3 DEF SameMap, SamePolicy, Overwritten
<1>5. Tokens(s, t)
  BY <1>3, <1>4, PolicyKept
<1>6. s.gen \in Nat /\ t.gen \in Nat /\ w.gen = s.gen
  BY <1>1, <1>3, StoreFields DEF SameShow
<1>7. Painted(t, i)
  <2>1. PICK b \in B : TRUE
    OBVIOUS
  <2> QED
    BY <1>0, <1>1, <1>3, <2>1 DEF Painted, Overwritten
<1>8. Complete(t, i) <=> Complete(w, i)
  BY <1>3 DEF Complete
<1>9. CASE ~IsOutput(s, i)
  <2>1. ~IsOutput(w, i) /\ t = w
    BY <1>1, <1>3, <1>9 DEF IsOutput, SameMap, Shows
  <2>2. CASE s.output = NoOutput \/ s.output.id # i
    <3>1. SamePix(s, t)
      BY <1>1, <2>1, <2>2, OutputFields DEF SamePix, Overwritten
    <3> QED
      BY <1>1, <1>3, <1>4, <1>5, <2>1, <3>1, ViewStands DEF SameView
  <2>3. CASE s.stale
    <3>1. t.stale /\ ~Mapped(t) /\ ~Mapped(s) /\ ~OutputComplete(t) /\ SameShow(s, t)
      BY <1>1, <1>3, <2>1, <2>3, CompleteIs DEF Mapped, SameMap
    <3>2. Shown(t) = Shown(s) /\ (Settled(t) <=> Settled(s)) /\ t.gen = s.gen
      BY <3>1 DEF Shown, Settled, SameShow
    <3>3. Clean(t)
      BY <1>4, <3>1 DEF Clean, SameShow, SameMap
    <3> QED
      BY <1>1, <1>3, <1>4, <1>5, <1>6, <3>2, <3>3 DEF Stands
  <2> QED
    BY <1>9, <2>2, <2>3, OutputIs
<1>10. CASE IsOutput(s, i)
  <2>1. ~t.stale /\ t.output # NoOutput /\ t.output.id = i /\ Mapped(t) /\ IsOutput(w, i)
    BY <1>1, <1>4, <1>7, <1>10, OutputIs DEF SameMap, Mapped, IsOutput
  <2>2. Shown(t) # Blank
    BY <1>3, <1>7, <2>1, PaintedShows DEF Shown
  <2>3. OutputComplete(t) <=> Complete(w, i)
    BY <1>3, <1>8, <2>1, CompleteIs
  <2>4. CASE ~Shows(w, i)
    <3>1. t = w /\ SameShow(s, t) /\ ~Complete(w, i)
      BY <1>1, <1>3, <2>1, <2>4 DEF Shows
    <3>2. s.fallback # Blank \/ s.suppressed
      BY <1>1, <2>1, <2>4 DEF Shows, SameShow
    <3>3. Clean(t)
      BY <2>1, <2>3, <3>1 DEF Clean
    <3>4. Settled(t) => Settled(s) /\ Shown(t) = Shown(s)
      BY <3>1, <3>2 DEF Settled, SameShow, Shown
    <3> QED
      BY <1>1, <1>3, <1>4, <1>5, <1>6, <2>2, <3>1, <3>3, <3>4 DEF Stands, SameShow
  <2>5. CASE Shows(w, i) /\ w.frame # "Idle"
    <3>1. t.dirty /\ t.fallback = s.fallback /\ t.suppressed = s.suppressed /\ t.gen = s.gen
          /\ t.frame = s.frame /\ t.frame # "Idle"
      BY <1>1, <1>3, <2>5 DEF SameShow
    <3>2. Settled(t) => Settled(s) /\ Shown(t) = Shown(s)
      BY <3>1 DEF Settled, Shown
    <3>3. Clean(t)
      BY <3>1 DEF Clean
    <3> QED
      BY <1>1, <1>3, <1>4, <1>5, <1>6, <2>2, <3>1, <3>2, <3>3 DEF Stands
  <2>6. CASE Shows(w, i) /\ w.frame = "Idle"
    <3>1. t.fallback = Blank /\ ~t.suppressed /\ t.gen > s.gen
      BY <1>3, <1>6, <2>6
    <3>2. Clean(t)
      BY <3>1 DEF Clean
    <3> QED
      BY <1>1, <1>3, <1>4, <1>5, <2>2, <3>1, <3>2, TouchStands
  <2> QED
    BY <2>4, <2>5, <2>6
<1> QED
  BY <1>9, <1>10

(* A paint that is no AVC444 also ends a wait.                             *)
LEMMA BlitStands ==
  ASSUME NEW s \in Store, NEW i \in Ids, NEW B \in SUBSET Blocks, NEW n \in 1..MaxWrites,
         B # {}, NEW t, t = Blit(s, i, B, n), Clean(s), Quiet(s)
  PROVE  /\ t \in Store /\ SameMap(s, t) /\ t.update = s.update
         /\ Overwritten(s, t, i, B, n)
         /\ Stands(s, t) /\ Tokens(s, t)
<1> DEFINE after == BlitAvc(s, i, B, n)
           waiting == s.wait # "none" \/ s.pending # {}
           w == Write(s, i, B, n)
<1>1. t = IF Shows(w, i) /\ waiting THEN Release(after) ELSE after
  BY DEF Blit
<1>2. /\ after \in Store /\ SameMap(s, after) /\ SamePolicy(s, after) /\ after.update = s.update
      /\ Overwritten(s, after, i, B, n)
      /\ Stands(s, after) /\ Tokens(s, after)
  <2>1. after = BlitAvc(s, i, B, n)
    OBVIOUS
  <2> HIDE DEF after
  <2> QED
    BY ONLY <2>1, s \in Store, i \in Ids, B \in SUBSET Blocks, B # {}, n \in 1..MaxWrites,
            Clean(s), Quiet(s), BlitAvcStands
<1> HIDE DEF after, w
<1>3. CASE ~(Shows(w, i) /\ waiting)
  BY <1>1, <1>2, <1>3
<1>4. CASE Shows(w, i) /\ waiting
  <2>1. t = Release(after)
    BY <1>1, <1>4
  <2>2. ~s.stale /\ s.output # NoOutput
    BY <1>4 DEF Quiet
  <2>3. ~after.stale /\ after.output # NoOutput
    BY <1>2, <2>2 DEF SameMap
  <2>4. /\ t \in Store /\ SameView(after, t) /\ t.update = after.update
        /\ t.surfaces = after.surfaces /\ Tokens(after, t)
    BY <1>2, <2>1, <2>3, ReleaseFields, ReleaseTokens
  <2>5. Tokens(s, t)
    BY <1>2, <2>4, TokensOver
  <2>6. Clean(after)
    BY <1>2 DEF Stands
  <2>7. Clean(t) /\ Shown(t) = Shown(after) /\ (Settled(t) <=> Settled(after)) /\ t.gen = after.gen
        /\ t.output = after.output
    <3>1. Shown(t) = Shown(after)
      BY <1>2, <2>4, ViewKept DEF SameView, SameShow
    <3>2. Clean(t)
      BY <1>2, <2>4, <2>6, ViewStands DEF Stands
    <3> QED
      BY <2>4, <3>1, <3>2 DEF SameView, SameShow, SameMap, Settled
  <2>8. Stands(s, t)
    BY <1>2, <2>7 DEF Stands
  <2> QED
    BY <1>2, <2>4, <2>5, <2>8 DEF SameView, SameMap, Overwritten
<1> QED
  BY <1>3, <1>4

(* A frame opens on what is shown.                                         *)
LEMMA BeginStands ==
  ASSUME NEW s \in Store, NEW t, t = BeginFrame(s), Clean(s), Quiet(s), s.frame = "Idle"
  PROVE  /\ t \in Store /\ SameMap(s, t) /\ SamePolicy(s, t) /\ t.update = s.update
         /\ t.surfaces = s.surfaces /\ Stands(s, t) /\ Tokens(s, t)
<1>1. /\ t \in Store /\ SameMap(s, t) /\ SamePolicy(s, t) /\ t.update = s.update
      /\ t.surfaces = s.surfaces /\ t.frame = "Active" /\ t.fallback = s.fallback
      /\ t.suppressed = s.suppressed /\ t.gen = s.gen
  BY DEF BeginFrame, Store, SameMap, SamePolicy
<1>2. Tokens(s, t)
  BY <1>1, PolicyKept
<1>3. Shown(t) = Shown(s)
  BY <1>1, ViewKept DEF SamePix
<1>4. Settled(t) => Settled(s)
  BY <1>1 DEF Settled
<1>5. Clean(t) /\ t.gen >= s.gen
  BY <1>1, StoreFields DEF Clean
<1> QED
  BY <1>1, <1>2, <1>3, <1>4, <1>5 DEF Stands

(* An aborted frame is never shown.                                        *)
LEMMA AbortStands ==
  ASSUME NEW s \in Store, NEW t, t = AbortFrame(s), Quiet(s)
  PROVE  /\ t \in Store /\ SameMap(s, t) /\ SamePolicy(s, t) /\ t.update = s.update
         /\ t.surfaces = s.surfaces /\ Stands(s, t) /\ Tokens(s, t)
<1>1. /\ t \in Store /\ SameMap(s, t) /\ SamePolicy(s, t) /\ t.update = s.update
      /\ t.surfaces = s.surfaces /\ t.frame = "Aborted" /\ t.gen = s.gen
  BY DEF AbortFrame, Store, SameMap, SamePolicy
<1>2. Tokens(s, t)
  BY <1>1, PolicyKept
<1>3. Clean(t) /\ ~Settled(t) /\ t.gen >= s.gen
  BY <1>1, StoreFields DEF Clean, Settled
<1> QED
  BY <1>1, <1>2, <1>3 DEF Stands

(* A commit shows a complete output, or veils one that was changed and has *)
(* no fallback to hide behind.                                             *)
LEMMA CommitStands ==
  ASSUME NEW s \in Store, NEW t, t = CommitFrame(s), Clean(s), Quiet(s), s.frame = "Active"
  PROVE  /\ t \in Store /\ SameMap(s, t) /\ SamePolicy(s, t) /\ t.update = s.update
         /\ t.surfaces = s.surfaces /\ Stands(s, t) /\ Tokens(s, t)
<1> DEFINE idle == [s EXCEPT !.frame = "Idle", !.dirty = FALSE]
           shown == [idle EXCEPT !.fallback = Blank, !.suppressed = FALSE]
           changed == s.fallback # Blank \/ s.suppressed \/ s.dirty
<1>1. /\ idle \in Store /\ SameMap(s, idle) /\ SamePolicy(s, idle) /\ idle.update = s.update
      /\ idle.surfaces = s.surfaces /\ idle.frame = "Idle" /\ ~idle.dirty
      /\ idle.fallback = s.fallback /\ idle.suppressed = s.suppressed /\ idle.gen = s.gen
  BY DEF Store, SameMap, SamePolicy
<1>2. t = IF ~OutputComplete(s) /\ s.output # NoOutput
          THEN [idle EXCEPT !.suppressed = @ \/ (s.fallback = Blank /\ s.dirty)]
          ELSE IF changed THEN Touch(shown) ELSE shown
  BY DEF CommitFrame
<1> HIDE DEF idle
<1>3. /\ shown \in Store /\ SameMap(s, shown) /\ SamePolicy(s, shown)
      /\ shown.update = s.update /\ shown.surfaces = s.surfaces /\ shown.frame = "Idle"
      /\ shown.fallback = Blank /\ ~shown.suppressed /\ shown.gen = s.gen
  BY <1>1, PicturesTyped DEF Store, SameMap, SamePolicy
<1> HIDE DEF shown
<1>4. CASE ~OutputComplete(s) /\ s.output # NoOutput
  <2> DEFINE v == idle.suppressed \/ (s.fallback = Blank /\ s.dirty)
  <2>1. v \in BOOLEAN /\ t = [idle EXCEPT !.suppressed = v]
    BY <1>1, <1>2, <1>4, StoreFields
  <2> HIDE DEF v
  <2>2. /\ t \in Store /\ SameMap(s, t) /\ SamePolicy(s, t) /\ t.update = s.update
        /\ t.surfaces = s.surfaces /\ t.frame = "Idle" /\ t.fallback = s.fallback
        /\ t.suppressed = v /\ t.gen = s.gen
    BY <1>1, <2>1 DEF Store, SameMap, SamePolicy
  <2>3. Shown(t) = Shown(s) /\ OutputComplete(t) = OutputComplete(s)
    BY <2>2, ViewKept DEF SamePix
  <2>4. Clean(t)
    BY <1>4, <2>2, <2>3 DEF Clean, SameMap
  <2>5. Settled(t) => Settled(s)
    BY <1>1, <2>2 DEF Settled, v
  <2>6. Tokens(s, t) /\ t.gen >= s.gen
    BY <2>2, PolicyKept, StoreFields
  <2> QED
    BY <2>2, <2>3, <2>4, <2>5, <2>6 DEF Stands
<1>5. CASE OutputComplete(s) \/ s.output = NoOutput
  <2>1. Clean(shown)
    BY <1>3 DEF Clean
  <2>2. Tokens(s, shown)
    BY <1>3, PolicyKept
  <2>3. shown.output # NoOutput => Shown(shown) # Blank
    <3>1. CASE s.output # NoOutput
      <4>1. Mapped(s) /\ Mapped(shown)
        BY <1>3, <1>5, <3>1, CompleteIs, ViewKept DEF SamePix
      <4> QED
        BY <1>3, <4>1, PaintedShows DEF Shown, Mapped
    <3> QED
      BY <1>3, <3>1 DEF SameMap
  <2>4. CASE changed
    <3>1. t = Touch(shown)
      BY <1>2, <1>5, <2>4
    <3>2. /\ t \in Store /\ SameMap(shown, t) /\ t.surfaces = shown.surfaces
          /\ t.update = shown.update /\ t.suppressed = shown.suppressed
          /\ t.frame = shown.frame /\ t.fallback = shown.fallback
          /\ t.dirty = shown.dirty /\ SamePolicy(shown, t) /\ t.gen > shown.gen
      BY <1>3, <3>1, TouchFields
    <3>3. Shown(t) = Shown(shown) /\ Clean(t)
      BY <1>3, <3>2, ViewKept DEF SamePix, Clean
    <3>4. SameMap(s, t) /\ SamePolicy(s, t) /\ t.gen > s.gen
      BY <1>3, <3>2 DEF SameMap, SamePolicy
    <3>5. Stands(s, t)
      BY <1>3, <2>3, <3>2, <3>3, <3>4, TouchStands DEF SameMap
    <3>6. Tokens(s, t)
      BY <3>2, <3>4, PolicyKept
    <3> QED
      BY <1>3, <3>2, <3>4, <3>5, <3>6
  <2>5. CASE ~changed
    <3>1. t = shown
      BY <1>2, <1>5, <2>5
    <3>2. Shown(t) = Shown(s)
      BY <1>3, <2>5, <3>1, ViewKept DEF SamePix
    <3>3. Settled(s) /\ t.gen >= s.gen
      BY <1>3, <2>5, <3>1, StoreFields DEF Settled
    <3> QED
      BY <1>3, <2>1, <2>2, <3>1, <3>2, <3>3 DEF Stands
  <2> QED
    BY <2>4, <2>5
<1> QED
  BY <1>4, <1>5

(* The handoff methods: the output's surface is recreated, deleted, or     *)
(* another one takes its place.                                            *)
Others(s, t, i) == \A j \in Ids \ {i} : t.surfaces[j] = s.surfaces[j]
Replaced(s, i, u) == [s EXCEPT !.surfaces[i] = u]
Untouched(s, t, i) == Others(s, t, i) /\ t.surfaces[i].pix = Unpainted

(* Replacing one surface leaves the others and everything else.            *)
LEMMA ResetSurface ==
  ASSUME NEW s \in Store, NEW i \in Ids, NEW u \in Surface, NEW t,
         t = Replaced(s, i, u)
  PROVE  /\ t \in Store /\ SameMap(s, t) /\ SameShow(s, t) /\ SamePolicy(s, t)
         /\ t.update = s.update /\ t.surfaces[i] = u
         /\ Others(s, t, i)
<1> DEFINE v == [s.surfaces EXCEPT ![i] = u]
<1>1. s.surfaces \in [Ids -> Surface]
  BY StoreFields
<1>2. v \in [Ids -> Surface] /\ v[i] = u /\ \A j \in Ids \ {i} : v[j] = s.surfaces[j]
  BY <1>1
<1>3. t = [s EXCEPT !.surfaces = v]
  BY DEF Store, Replaced
<1> HIDE DEF v
<1>4. /\ t \in Store /\ SameMap(s, t) /\ SameShow(s, t) /\ SamePolicy(s, t)
      /\ t.update = s.update /\ t.surfaces = v
  BY <1>2, <1>3 DEF Store, SameMap, SameShow, SamePolicy
<1> QED
  BY <1>2, <1>4 DEF Others

(* A new surface is unpainted.                                             *)
LEMMA FreshSurfaces ==
  /\ NoSurface \in Surface /\ [NoSurface EXCEPT !.live = TRUE] \in Surface
  /\ NoSurface.pix = Unpainted /\ [NoSurface EXCEPT !.live = TRUE].pix = Unpainted
  BY PicturesTyped DEF NoSurface, Surface

(* Recreating the output keeps its last picture as the fallback.           *)
LEMMA CreateStands ==
  ASSUME NEW s \in Store, NEW i \in Ids, NEW t, t = Create(s, i), Clean(s), Quiet(s)
  PROVE  /\ t \in Store /\ t.update = s.update /\ t.output = s.output /\ Untouched(s, t, i)
         /\ (t.ready # 0 => SamePix(s, t)) /\ Stands(s, t) /\ Tokens(s, t)
<1> DEFINE u == [NoSurface EXCEPT !.live = TRUE]
<1>0. u \in Surface /\ u.pix = Unpainted
  BY FreshSurfaces
<1> HIDE DEF u
<1>1. CASE s.output.id # i
  <2>1. t = Replaced(s, i, u)
    BY <1>1 DEF Create, u, Replaced
  <2>2. /\ t \in Store /\ SameMap(s, t) /\ SameShow(s, t) /\ SamePolicy(s, t)
        /\ t.update = s.update /\ t.surfaces[i] = u
        /\ Others(s, t, i)
    BY <1>0, <2>1, ResetSurface
  <2>3. SamePix(s, t)
    BY <1>1, <2>2 DEF SamePix, Others
  <2>4. Stands(s, t) /\ Tokens(s, t)
    BY <2>2, <2>3, ViewStands, PolicyKept DEF SameView
  <2> QED
    BY <1>0, <2>2, <2>3, <2>4 DEF Untouched, SameMap
<1>2. CASE s.output.id = i
  <2> DEFINE k == Retain(MarkDirty(ClearPolicy(s)))
             m == [k EXCEPT !.stale = TRUE]
  <2>1. t = Replaced(m, i, u)
    BY <1>2 DEF Create, u, Replaced
  <2>2. /\ k \in Store /\ SameMap(s, k) /\ k.surfaces = s.surfaces /\ k.update = s.update
        /\ k.suppressed = s.suppressed /\ k.frame = s.frame /\ k.gen = s.gen
        /\ k.dirty = (s.dirty \/ s.frame # "Idle")
        /\ k.fallback = IF s.frame = "Idle" /\ ~s.suppressed THEN Shown(s) ELSE s.fallback
        /\ k.wait = "none" /\ k.pending = {} /\ k.ready = 0 /\ k.batch = s.batch
    BY RetainedFields
  <2> HIDE DEF k
  <2>3. /\ m \in Store /\ m.output = k.output /\ m.stale /\ m.surfaces = k.surfaces
        /\ m.update = k.update /\ SameShow(k, m) /\ SamePolicy(k, m)
    BY <2>2 DEF Store, SameShow, SamePolicy
  <2> HIDE DEF m
  <2>4. /\ t \in Store /\ SameMap(m, t) /\ SameShow(m, t) /\ SamePolicy(m, t)
        /\ t.update = m.update /\ t.surfaces[i] = u
        /\ Others(m, t, i)
    BY <1>0, <2>1, <2>3, ResetSurface
  <2>5. /\ t.output = s.output /\ t.stale /\ t.update = s.update
        /\ t.suppressed = s.suppressed /\ t.frame = s.frame /\ t.gen = s.gen
        /\ t.dirty = (s.dirty \/ s.frame # "Idle")
        /\ t.fallback = IF s.frame = "Idle" /\ ~s.suppressed THEN Shown(s) ELSE s.fallback
        /\ t.wait = "none" /\ t.pending = {} /\ t.ready = 0 /\ t.batch = s.batch
    BY <2>2, <2>3, <2>4 DEF SameMap, SameShow, SamePolicy
  <2>6. Shown(t) = t.fallback /\ ~OutputComplete(t) /\ t.output # NoOutput
    BY <1>2, <2>4, <2>5, CompleteIs, OutputFields DEF Shown, Mapped
  <2>7. Settled(t) => Settled(s) /\ Shown(t) = Shown(s)
    BY <2>5, <2>6 DEF Settled, Shown
  <2>8. Clean(t) /\ t.gen >= s.gen
    BY <2>5, <2>6, StoreFields DEF Clean
  <2>9. Stands(s, t)
    BY <2>5, <2>7, <2>8 DEF Stands
  <2>10. Tokens(s, t)
    BY <2>5, StoreFields DEF Tokens, Quiet
  <2> QED
    BY <1>0, <2>2, <2>3, <2>4, <2>5, <2>9, <2>10 DEF Untouched, Others
<1> QED
  BY <1>1, <1>2

(* Deleting the output unmaps it, under a new generation if it was seen.   *)
LEMMA DeleteStands ==
  ASSUME NEW s \in Store, NEW i \in Ids, NEW t, t = Delete(s, i), Clean(s), Quiet(s)
  PROVE  /\ t \in Store /\ t.update = s.update /\ (t.output = s.output \/ t.output = NoOutput)
         /\ Untouched(s, t, i)
         /\ (t.ready # 0 => t.output = s.output /\ SamePix(s, t)) /\ Stands(s, t) /\ Tokens(s, t)
<1> DEFINE g == [s EXCEPT !.surfaces[i] = NoSurface]
<1>1. /\ g \in Store /\ SameMap(s, g) /\ SameShow(s, g) /\ SamePolicy(s, g)
      /\ g.update = s.update /\ g.surfaces[i] = NoSurface
      /\ Others(s, g, i)
  <2>1. g = Replaced(s, i, NoSurface)
    BY DEF Replaced
  <2> HIDE DEF g
  <2> QED
    BY <2>1, FreshSurfaces, ResetSurface
<1>2. CASE s.output.id # i
  <2>1. t = g
    BY <1>2 DEF Delete
  <2> HIDE DEF g
  <2>2. SamePix(s, t)
    BY <1>1, <1>2, <2>1 DEF SamePix, Others
  <2>3. Stands(s, t) /\ Tokens(s, t)
    BY <1>1, <2>1, <2>2, ViewStands, PolicyKept DEF SameView
  <2> QED
    BY <1>1, <2>1, <2>2, <2>3, FreshSurfaces DEF Untouched, SameMap
<1>3. CASE s.output.id = i
  <2> DEFINE c == ClearPolicy(g)
             d == MarkDirty(c)
             unmapped == [d EXCEPT !.output = NoOutput, !.stale = FALSE]
             idle == [unmapped EXCEPT !.fallback = Blank, !.suppressed = FALSE]
             news == s.fallback # Blank \/ s.suppressed \/ (~s.stale /\ Painted(s, i))
  <2>1. t = IF s.frame # "Idle" THEN unmapped ELSE IF news THEN Touch(idle) ELSE idle
    BY <1>3 DEF Delete
  <2> HIDE DEF g
  <2>2. /\ c \in Store /\ SameView(g, c) /\ c.update = g.update /\ c.surfaces = g.surfaces
        /\ c.wait = "none" /\ c.pending = {} /\ c.ready = 0 /\ c.batch = g.batch
    BY <1>1, ClearFields
  <2> HIDE DEF c
  <2>3. /\ unmapped \in Store /\ unmapped.output = NoOutput /\ ~unmapped.stale
        /\ unmapped.surfaces = g.surfaces /\ unmapped.update = s.update
        /\ unmapped.fallback = s.fallback /\ unmapped.suppressed = s.suppressed
        /\ unmapped.frame = s.frame /\ unmapped.gen = s.gen /\ unmapped.wait = "none"
        /\ unmapped.pending = {} /\ unmapped.ready = 0 /\ unmapped.batch = s.batch
        /\ (s.frame # "Idle" => unmapped.dirty)
    <3> DEFINE e == c.dirty \/ c.frame # "Idle"
    <3>1. e \in BOOLEAN /\ d = [c EXCEPT !.dirty = e]
      BY DEF MarkDirty
    <3>2. s.frame # "Idle" => e = TRUE
      BY <1>1, <2>2 DEF SameView, SameShow
    <3> HIDE DEF d, e
    <3>3. /\ unmapped \in Store /\ unmapped.output = NoOutput /\ ~unmapped.stale
          /\ unmapped.surfaces = c.surfaces /\ unmapped.update = c.update
          /\ unmapped.fallback = c.fallback /\ unmapped.suppressed = c.suppressed
          /\ unmapped.frame = c.frame /\ unmapped.gen = c.gen /\ unmapped.wait = c.wait
          /\ unmapped.pending = c.pending /\ unmapped.ready = c.ready
          /\ unmapped.batch = c.batch /\ unmapped.dirty = e
      BY <2>2, <3>1 DEF Store, Mapping
    <3> HIDE DEF unmapped
    <3> QED
      BY <1>1, <2>2, <3>2, <3>3 DEF SameView, SameShow, SamePolicy
  <2> HIDE DEF unmapped
  <2>4. /\ idle \in Store /\ SameMap(unmapped, idle) /\ idle.surfaces = unmapped.surfaces
        /\ idle.update = unmapped.update /\ idle.fallback = Blank /\ ~idle.suppressed
        /\ idle.frame = unmapped.frame /\ idle.gen = unmapped.gen /\ SamePolicy(unmapped, idle)
    BY <2>3, PicturesTyped DEF Store, SameMap, SamePolicy
  <2> HIDE DEF idle
  <2>5. /\ t \in Store /\ t.output = NoOutput /\ t.surfaces = g.surfaces /\ t.update = s.update
        /\ t.wait = "none" /\ t.pending = {} /\ t.ready = 0 /\ t.batch = s.batch
    <3>1. CASE s.frame # "Idle"
      BY <2>1, <2>3, <3>1
    <3>2. CASE s.frame = "Idle" /\ ~news
      BY <2>1, <2>3, <2>4, <3>2 DEF SameMap, SamePolicy
    <3>3. CASE s.frame = "Idle" /\ news
      <4>1. t = Touch(idle)
        BY <2>1, <3>3
      <4> QED
        BY <2>3, <2>4, <4>1, TouchFields DEF SameMap, SamePolicy
    <3> QED
      BY <3>1, <3>2, <3>3
  <2>6. Tokens(s, t)
    BY <2>5, StoreFields DEF Tokens, Quiet
  <2>7. Stands(s, t)
    <3>1. CASE s.frame # "Idle"
      <4>1. Settled(t) => Settled(s) /\ Shown(t) = Shown(s)
        BY <2>1, <2>3, <3>1 DEF Settled, Shown
      <4>2. Clean(t) /\ t.gen >= s.gen
        BY <2>1, <2>3, <3>1, StoreFields DEF Clean
      <4> QED
        BY <2>5, <4>1, <4>2 DEF Stands
    <3>2. CASE s.frame = "Idle" /\ ~news
      <4>1. Shown(s) = Blank /\ Shown(t) = Blank /\ Settled(s)
        BY <1>3, <2>1, <2>4, <2>5, <3>2 DEF Shown, Mapped, Settled
      <4>2. Clean(t) /\ t.gen >= s.gen
        BY <2>1, <2>3, <2>4, <3>2, StoreFields DEF Clean
      <4> QED
        BY <2>5, <4>1, <4>2 DEF Stands
    <3>3. CASE s.frame = "Idle" /\ news
      <4>1. t = Touch(idle)
        BY <2>1, <3>3
      <4>2. t.gen > s.gen /\ t.fallback = Blank /\ ~t.suppressed
        BY <2>3, <2>4, <4>1, TouchFields
      <4>3. Clean(t)
        BY <4>2 DEF Clean
      <4> QED
        BY <2>5, <4>2, <4>3, TouchStands
    <3> QED
      BY <3>1, <3>2, <3>3
  <2> QED
    BY <1>1, <2>5, <2>6, <2>7, FreshSurfaces DEF Untouched, Others
<1> QED
  BY <1>2, <1>3

(* Mapping shows a complete surface at once, or keeps the last picture.    *)
LEMMA MapStands ==
  ASSUME NEW s \in Store, NEW i \in Ids, NEW o \in Origins, NEW t, t = MapToOutput(s, i, o),
         Clean(s), Quiet(s)
  PROVE  /\ t \in Store /\ t.update = s.update /\ t.surfaces = s.surfaces
         /\ t.output # NoOutput
         /\ (t.ready # 0 => t.output = s.output) /\ Stands(s, t) /\ Tokens(s, t)
<1> DEFINE mapping == [id |-> i, origin |-> o]
           changed == s.stale \/ s.output # mapping
           r == Retain(MarkDirty(ClearPolicy(s)))
           kept == IF changed THEN r ELSE s
           mapped == [kept EXCEPT !.output = mapping, !.stale = FALSE]
           ready == s.frame = "Idle" /\ Complete(s, i)
           shown == IF ready THEN [mapped EXCEPT !.fallback = Blank, !.suppressed = FALSE]
                    ELSE mapped
           visible == changed /\ Painted(s, i) /\ shown.fallback = Blank /\ ~shown.suppressed
<1>1. t = IF ready /\ mapped.suppressed THEN Touch(shown)
          ELSE IF visible THEN IF s.frame = "Idle" THEN Touch(shown) ELSE MarkDirty(shown)
          ELSE shown
  BY DEF MapToOutput
<1>2. /\ r \in Store /\ SameMap(s, r) /\ r.surfaces = s.surfaces /\ r.update = s.update
      /\ r.suppressed = s.suppressed /\ r.frame = s.frame /\ r.gen = s.gen
      /\ r.dirty = (s.dirty \/ s.frame # "Idle")
      /\ r.fallback = IF s.frame = "Idle" /\ ~s.suppressed THEN Shown(s) ELSE s.fallback
      /\ r.wait = "none" /\ r.pending = {} /\ r.ready = 0 /\ r.batch = s.batch
  BY RetainedFields
<1> HIDE DEF r
<1>3. mapping \in Mapping /\ mapping # NoOutput /\ mapping.id = i
  BY PresentationAssumption DEF Mapping, NoOutput
<1> HIDE DEF mapping
<1>4. /\ kept \in Store /\ kept.surfaces = s.surfaces /\ kept.update = s.update
      /\ kept.suppressed = s.suppressed /\ kept.frame = s.frame /\ kept.gen = s.gen
      /\ kept.canvas = s.canvas /\ kept.batch = s.batch
      /\ changed => /\ kept.dirty = (s.dirty \/ s.frame # "Idle")
                    /\ kept.fallback = IF s.frame = "Idle" /\ ~s.suppressed THEN Shown(s)
                                       ELSE s.fallback
                    /\ kept.wait = "none" /\ kept.pending = {} /\ kept.ready = 0
      /\ ~changed => kept = s
  BY <1>2 DEF SameMap
<1> HIDE DEF kept
<1>5. /\ mapped \in Store /\ mapped.output = mapping /\ ~mapped.stale
      /\ mapped.surfaces = kept.surfaces /\ mapped.update = kept.update
      /\ mapped.canvas = kept.canvas /\ SameShow(kept, mapped) /\ SamePolicy(kept, mapped)
  BY <1>3, <1>4 DEF Store, SameShow, SamePolicy
<1> HIDE DEF mapped
<1>6. /\ shown \in Store /\ SameMap(mapped, shown) /\ shown.surfaces = mapped.surfaces
      /\ shown.update = mapped.update /\ shown.frame = mapped.frame /\ shown.gen = mapped.gen
      /\ shown.dirty = mapped.dirty /\ SamePolicy(mapped, shown)
      /\ IF ready THEN shown.fallback = Blank /\ ~shown.suppressed ELSE shown = mapped
  <2>1. CASE ready
    BY <1>5, <2>1, PicturesTyped DEF Store, SameMap, SamePolicy
  <2>2. CASE ~ready
    BY <1>5, <2>2 DEF SameMap, SamePolicy
  <2> QED
    BY <2>1, <2>2
<1> HIDE DEF shown
<1>7. /\ shown.output = mapping /\ ~shown.stale /\ shown.surfaces = s.surfaces
      /\ shown.update = s.update /\ shown.frame = s.frame /\ shown.gen = s.gen
      /\ shown.canvas = s.canvas /\ SamePolicy(kept, shown)
  BY <1>4, <1>5, <1>6 DEF SameMap, SameShow, SamePolicy
<1>8. /\ Mapped(shown) <=> Painted(s, i)
      /\ OutputComplete(shown) <=> Complete(s, i)
      /\ Complete(s, i) => Painted(s, i)
  BY <1>3, <1>6, <1>7, CompleteIs DEF Mapped, Painted, Complete
<1>9. Tokens(s, shown)
  <2>1. CASE changed
    BY <1>3, <1>4, <1>7, <2>1, StoreFields DEF Tokens, Quiet, SamePolicy
  <2>2. CASE ~changed
    <3>1. SamePolicy(s, shown) /\ ~s.stale /\ s.output = mapping
      BY <1>4, <1>7, <2>2
    <3>2. SameMap(s, shown)
      BY <1>6, <1>7, <3>1, StoreFields DEF SameMap
    <3> QED
      BY <1>6, <3>1, <3>2, PolicyKept
  <2> QED
    BY <2>1, <2>2
<1>10. shown.ready # 0 => shown.output = s.output
  BY <1>4, <1>7 DEF SamePolicy
<1>11. Clean(shown)
  <2>1. CASE ready
    BY <1>6, <2>1 DEF Clean
  <2>2. CASE ~ready
    BY <1>3, <1>7, <1>8, <2>2 DEF Clean
  <2> QED
    BY <2>1, <2>2
<1>12. s.gen \in Nat /\ s.gen >= s.gen
  BY StoreFields
<1>13. CASE (ready /\ mapped.suppressed) \/ (visible /\ s.frame = "Idle")
  <2>1. t = Touch(shown)
    BY <1>1, <1>13
  <2>2. /\ t \in Store /\ SameMap(shown, t) /\ t.surfaces = shown.surfaces
        /\ t.update = shown.update /\ t.suppressed = shown.suppressed /\ t.frame = shown.frame
        /\ t.fallback = shown.fallback /\ t.dirty = shown.dirty /\ SamePolicy(shown, t)
        /\ t.gen > shown.gen
    BY <1>6, <2>1, TouchFields
  <2>3. Shown(t) = Shown(shown) /\ Clean(t)
    <3>1. Shown(t) = Shown(shown) /\ OutputComplete(t) = OutputComplete(shown)
      BY <1>6, <2>2, ViewKept DEF SamePix
    <3> QED
      BY <1>11, <2>2, <3>1 DEF Clean, SameMap
  <2>4. Shown(shown) # Blank
    <3>1. Painted(s, i) /\ shown.fallback = Blank
      BY <1>6, <1>8, <1>13
    <3> QED
      BY <1>3, <1>6, <1>7, <1>8, <3>1, PaintedShows DEF Shown, Mapped
  <2>5. Stands(s, t)
    BY <1>7, <2>2, <2>3, <2>4, TouchStands
  <2>6. Tokens(shown, t)
    BY <1>6, <1>9, <2>2, PolicyKept DEF Tokens
  <2>7. Tokens(s, t)
    BY <1>6, <1>9, <2>2, <2>6, TokensOver
  <2> QED
    BY <1>3, <1>7, <1>10, <2>2, <2>5, <2>7 DEF SameMap, SamePolicy
<1>14. CASE ~(ready /\ mapped.suppressed) /\ visible /\ s.frame # "Idle"
  <2>1. t = MarkDirty(shown)
    BY <1>1, <1>14
  <2>2. t = [shown EXCEPT !.dirty = TRUE]
    <3>1. shown.dirty \/ shown.frame # "Idle"
      BY <1>7, <1>14
    <3>2. (shown.dirty \/ shown.frame # "Idle") = TRUE
      BY <1>6, <3>1, StoreFields
    <3> QED
      BY <2>1, <3>2 DEF MarkDirty
  <2>3. /\ t \in Store /\ SameMap(shown, t) /\ t.surfaces = shown.surfaces
        /\ t.update = shown.update /\ t.frame = shown.frame /\ t.gen = shown.gen
        /\ t.fallback = shown.fallback /\ t.dirty /\ SamePolicy(shown, t)
    BY <1>6, <2>2 DEF Store, SameMap, SamePolicy
  <2>4. ~Settled(t) /\ Clean(t)
    BY <1>7, <1>14, <2>3 DEF Settled, Clean
  <2>5. Stands(s, t)
    BY <1>7, <1>12, <2>3, <2>4 DEF Stands
  <2>6. Tokens(shown, t)
    BY <1>6, <1>9, <2>3, PolicyKept DEF Tokens
  <2>7. Tokens(s, t)
    BY <1>6, <1>9, <2>3, <2>6, TokensOver
  <2> QED
    BY <1>3, <1>7, <1>10, <2>3, <2>5, <2>7 DEF SameMap, SamePolicy
<1>15. CASE ~(ready /\ mapped.suppressed) /\ ~visible
  <2>1. t = shown
    BY <1>1, <1>15
  <2>2. Settled(shown) => Settled(s) /\ Shown(shown) = Shown(s)
    <3> SUFFICES ASSUME Settled(shown) PROVE Settled(s) /\ Shown(shown) = Shown(s)
      OBVIOUS
    <3>1. mapped.suppressed = s.suppressed /\ mapped.fallback = kept.fallback
          /\ shown.dirty = kept.dirty
      BY <1>4, <1>5, <1>6 DEF SameShow
    <3>2. ~s.suppressed
      BY <1>6, <1>15, <3>1 DEF Settled
    <3>3. CASE ~changed
      <4>1. kept = s /\ ~s.stale /\ s.output = mapping
        BY <1>4, <3>3
      <4>2. shown.fallback = s.fallback
        <5>1. ready => OutputComplete(s)
          BY <1>3, <4>1, CompleteIs
        <5> QED
          BY <1>6, <3>1, <4>1, <5>1 DEF Clean
      <4>3. Settled(s)
        BY <1>7, <3>1, <3>2, <4>1, <4>2 DEF Settled
      <4>4. SameMap(s, shown) /\ SamePix(s, shown)
        BY <1>6, <1>7, <4>1, StoreFields DEF SameMap, SamePix
      <4> QED
        BY <1>6, <4>2, <4>3, <4>4, ViewKept
    <3>4. CASE changed
      <4>1. ~ready
        BY <1>6, <1>8, <1>15, <3>4
      <4>2. shown.fallback = IF s.frame = "Idle" THEN Shown(s) ELSE s.fallback
        BY <1>4, <1>6, <3>1, <3>2, <3>4, <4>1
      <4>3. Painted(s, i) => shown.fallback # Blank
        BY <1>15, <3>4 DEF Settled
      <4>4. Shown(shown) = shown.fallback
        BY <1>8, <4>3 DEF Shown
      <4>5. CASE s.frame = "Idle"
        BY <3>2, <4>2, <4>4, <4>5 DEF Settled
      <4>6. CASE s.frame # "Idle"
        <5>1. shown.dirty /\ shown.fallback = s.fallback
          BY <1>4, <3>1, <3>4, <4>2, <4>6
        <5>2. s.fallback # Blank /\ s.frame = "Active"
          BY <1>7, <4>6, <5>1 DEF Settled
        <5> QED
          BY <3>2, <4>4, <5>1, <5>2 DEF Settled, Shown
      <4> QED
        BY <4>5, <4>6
    <3> QED
      BY <3>3, <3>4
  <2>3. Stands(s, t)
    BY <1>7, <1>11, <1>12, <2>1, <2>2 DEF Stands
  <2> QED
    BY <1>3, <1>6, <1>7, <1>9, <1>10, <2>1, <2>3
<1> QED
  BY <1>13, <1>14, <1>15

(* A reset of the graphics changes where the picture lies.                 *)
LEMMA ResetStands ==
  ASSUME NEW s \in Store, NEW c \in Canvases, NEW t, t = ResetGraphics(s, c),
         Clean(s), Quiet(s), s.frame = "Idle"
  PROVE  /\ t \in Store /\ t.update = s.update /\ t.surfaces = s.surfaces /\ t.output = s.output
         /\ Stands(s, t) /\ Tokens(s, t)
<1> DEFINE p == ClearPolicy(s)
           reset == [p EXCEPT !.canvas = c]
           visible == s.output # NoOutput /\ ~s.suppressed /\ s.fallback = Blank
                        /\ Picture(reset) # Blank
<1>1. t = IF s.canvas # c /\ visible THEN Touch(reset) ELSE reset
  BY DEF ResetGraphics
<1>2. /\ p \in Store /\ SameView(s, p) /\ p.update = s.update /\ p.surfaces = s.surfaces
      /\ p.wait = "none" /\ p.pending = {} /\ p.ready = 0 /\ p.batch = s.batch
  BY ClearFields
<1> HIDE DEF p
<1>3. /\ reset \in Store /\ reset.output = p.output /\ reset.stale = p.stale /\ SameShow(p, reset)
      /\ SamePolicy(p, reset) /\ reset.update = p.update /\ reset.surfaces = p.surfaces
      /\ reset.canvas = c
  BY <1>2 DEF Store, SameShow, SamePolicy
<1> HIDE DEF reset
<1>4. /\ reset.output = s.output /\ reset.stale = s.stale /\ reset.surfaces = s.surfaces
      /\ reset.fallback = s.fallback /\ reset.suppressed = s.suppressed /\ reset.frame = "Idle"
      /\ reset.gen = s.gen /\ reset.update = s.update
      /\ reset.wait = "none" /\ reset.pending = {} /\ reset.ready = 0 /\ reset.batch = s.batch
  BY <1>2, <1>3 DEF SameView, SameMap, SameShow, SamePolicy
<1>5. (Mapped(reset) <=> Mapped(s)) /\ (OutputComplete(reset) <=> OutputComplete(s))
  BY <1>3, <1>4, CompleteIs DEF Mapped, Painted, Complete
<1>6. Clean(reset)
  BY <1>4, <1>5 DEF Clean
<1>7. Tokens(s, reset)
  BY <1>4, StoreFields DEF Tokens, Quiet
<1>8. (Settled(reset) <=> Settled(s)) /\ Picture(reset) = Shown(reset)
  BY <1>3, <1>4, <1>6, PictureShown DEF Settled
<1>9. Shown(reset) = Blank <=> Shown(s) = Blank
  <2>1. Mapped(s) => PictureOf(s) # Blank /\ PictureOf(reset) # Blank
    BY <1>3, <1>5, PaintedShows DEF Mapped
  <2> QED
    BY <1>4, <1>5, <2>1 DEF Shown
<1>10. CASE s.canvas # c /\ visible
  <2>1. t = Touch(reset)
    BY <1>1, <1>10
  <2>2. /\ t \in Store /\ SameMap(reset, t) /\ t.surfaces = reset.surfaces
        /\ t.update = reset.update /\ t.suppressed = reset.suppressed
        /\ t.frame = reset.frame /\ t.fallback = reset.fallback
        /\ t.dirty = reset.dirty /\ SamePolicy(reset, t) /\ t.gen > reset.gen
    BY <1>3, <2>1, TouchFields
  <2>3. Shown(t) = Shown(reset) /\ OutputComplete(t) = OutputComplete(reset)
    BY <1>3, <2>2, ViewKept DEF SamePix
  <2>4. Clean(t)
    BY <1>6, <2>2, <2>3 DEF Clean, SameMap
  <2>5. Stands(s, t)
    BY <1>4, <1>8, <1>10, <2>2, <2>3, <2>4, TouchStands
  <2>6. Tokens(reset, t)
    BY <1>3, <1>7, <2>2, PolicyKept DEF Tokens
  <2>7. Tokens(s, t)
    BY <1>3, <1>7, <2>2, <2>6, TokensOver
  <2> QED
    BY <1>4, <2>2, <2>5, <2>7 DEF SameMap
<1>11. CASE ~(s.canvas # c /\ visible)
  <2>1. t = reset
    BY <1>1, <1>11
  <2>2. Settled(s) => Shown(reset) = Shown(s)
    <3>1. CASE s.canvas = c
      <4>1. SameMap(s, reset) /\ SamePix(s, reset)
        BY <1>3, <1>4, <3>1 DEF SameMap, SamePix
      <4> QED
        BY <1>3, <1>4, <4>1, ViewKept
    <3>2. CASE ~visible
      BY <1>4, <1>5, <1>8, <1>9, <3>2 DEF Settled, Shown, Mapped
    <3> QED
      BY <1>11, <3>1, <3>2
  <2>3. Stands(s, t)
    BY <1>4, <1>6, <1>8, <1>9, <2>1, <2>2, StoreFields DEF Stands
  <2> QED
    BY <1>3, <1>4, <1>7, <2>1, <2>3
<1> QED
  BY <1>10, <1>11

-----------------------------------------------------------------------------
(* The invariant over one step of the store.                               *)

\* What the history may record in a step.
Recorded ==
  /\ promise' = IF st'.batch # st.batch THEN Landing(st', rx') ELSE promise
  /\ desktop' \in BOOLEAN
  /\ desktop' => /\ ~(st.output # NoOutput /\ st'.output = NoOutput)
                 /\ desktop \/ (Publishable(st') /\ Picture(st') # Blank)

\* The store moved as its methods move it, and no pixel a token stands for was taken back.
Moved ==
  /\ st' \in Store /\ rx' \in Copier /\ Stands(st, st') /\ Tokens(st, st') /\ Recorded
  /\ st'.ready # 0 /\ st'.batch = st.batch =>
       \A b \in Blocks : Landing(st', rx')[b] >= Landing(st, rx)[b]

(* History records no more than Recorded allows.                           *)
LEMMA HistoryRecorded == History => Recorded
  BY DEF History, Recorded

(* Landing is made of pixels; with nothing to copy it is the output.       *)
LEMMA LandingTyped ==
  ASSUME NEW s \in Store, NEW r \in Copier
  PROVE  /\ Landing(s, r) \in Pixels
         /\ r.todo = {} /\ s.output # NoOutput => Landing(s, r) = s.surfaces[s.output.id].pix
<1>1. r.n \in 0..MaxWrites
  BY DEF Copier
<1>2. s.output # NoOutput => s.output.id \in Ids /\ s.surfaces[s.output.id].pix \in Pixels
  BY StoreFields, OutputFields
<1>3. 0 \in 0..MaxWrites
  BY PresentationAssumption
<1>4. \A b \in Blocks : Landing(s, r)[b] \in 0..MaxWrites
  <2> TAKE b \in Blocks
  <2>1. Landing(s, r)[b] = IF r.id = s.output.id /\ b \in r.todo THEN r.n
                           ELSE IF s.output = NoOutput THEN 0 ELSE s.surfaces[s.output.id].pix[b]
    BY DEF Landing
  <2>2. s.output # NoOutput => s.surfaces[s.output.id].pix[b] \in 0..MaxWrites
    BY <1>2 DEF Pixels
  <2> QED
    BY <1>1, <1>3, <2>1, <2>2
<1>5. Landing(s, r) = [b \in Blocks |-> Landing(s, r)[b]]
  BY DEF Landing
<1>6. Landing(s, r) \in Pixels
  BY <1>4, <1>5 DEF Pixels
<1>7. ASSUME r.todo = {}, s.output # NoOutput
      PROVE  Landing(s, r) = s.surfaces[s.output.id].pix
  <2>1. \A b \in Blocks : Landing(s, r)[b] = s.surfaces[s.output.id].pix[b]
    BY <1>7 DEF Landing
  <2>2. s.surfaces[s.output.id].pix = [b \in Blocks |-> s.surfaces[s.output.id].pix[b]]
    BY <1>2, <1>7 DEF Pixels
  <2> QED
    BY <1>5, <2>1, <2>2
<1> QED
  BY <1>6, <1>7

(* A desktop that was to be seen is not handed off to a blank one.         *)
LEMMA DesktopStep == PInv /\ Moved => DesktopInv'
<1> SUFFICES ASSUME PInv, Moved, desktop'
             PROVE  st'.output # NoOutput /\ (Settled(st') => Shown(st') # Blank)
  BY DEF DesktopInv
<1>1. /\ st \in Store /\ st' \in Store /\ Clean(st') /\ DesktopInv
      /\ ~(st.output # NoOutput /\ st'.output = NoOutput)
      /\ desktop \/ (Publishable(st') /\ Picture(st') # Blank)
  BY DEF PInv, Typed, Moved, Recorded, Stands
<1>2. CASE desktop
  <2>1. st.output # NoOutput /\ (Settled(st) => Shown(st) # Blank)
    BY <1>1, <1>2 DEF DesktopInv
  <2> QED
    BY <1>1, <2>1 DEF Moved, Stands
<1>3. CASE Publishable(st') /\ Picture(st') # Blank
  <2>1. st'.frame = "Idle"
    BY <1>1, <1>3, StoreFields DEF Publishable, Pending, Retained
  <2>2. Shown(st') # Blank
    BY <1>1, <1>3, <2>1, PictureShown
  <2>3. st'.output # NoOutput
    BY <1>1, <2>1, <2>2 DEF Clean, Shown, Mapped
  <2> QED
    BY <2>2, <2>3
<1> QED
  BY <1>1, <1>2, <1>3

(* The output keeps every pixel the ready token was given out for.         *)
LEMMA PromiseStep == PInv /\ Moved => PromiseInv' /\ promise' \in Pixels
<1> SUFFICES ASSUME PInv, Moved PROVE PromiseInv' /\ promise' \in Pixels
  OBVIOUS
<1>1. /\ st \in Store /\ st' \in Store /\ rx \in Copier /\ rx' \in Copier /\ promise \in Pixels
      /\ Tokens(st, st') /\ PromiseInv
      /\ promise' = IF st'.batch # st.batch THEN Landing(st', rx') ELSE promise
      /\ st'.ready # 0 /\ st'.batch = st.batch =>
           \A b \in Blocks : Landing(st', rx')[b] >= Landing(st, rx)[b]
  BY DEF PInv, Typed, Moved, Recorded
<1>2. Landing(st, rx) \in Pixels /\ Landing(st', rx') \in Pixels
  BY <1>1, LandingTyped
<1>3. promise' \in Pixels
  BY <1>1, <1>2
<1> DEFINE old == Landing(st, rx)
           new == Landing(st', rx')
<1>4. ASSUME st'.ready # 0, NEW b \in Blocks PROVE new[b] >= promise'[b]
  <2> HIDE DEF old, new
  <2>1. old[b] \in Nat /\ new[b] \in Nat /\ promise[b] \in Nat
    BY <1>1, <1>2 DEF Pixels, old, new
  <2>2. CASE st'.batch # st.batch
    BY <1>1, <2>1, <2>2 DEF new
  <2>3. CASE st'.batch = st.batch
    <3>1. st.ready = st'.ready
      <4>1. st.batch \in Nat /\ st'.batch \in Nat
        BY <1>1, StoreFields
      <4> QED
        BY <1>1, <1>4, <2>3, <4>1 DEF Tokens
    <3>2. old[b] >= promise[b]
      BY <1>1, <1>4, <3>1 DEF PromiseInv, old
    <3>3. new[b] >= old[b]
      BY <1>1, <1>4, <2>3 DEF new, old
    <3>4. promise' = promise
      BY <1>1, <2>3
    <3> QED
      BY <2>1, <3>2, <3>3, <3>4
  <2> QED
    BY <2>2, <2>3
<1> QED
  BY <1>3, <1>4 DEF PromiseInv

(* A snapshot that bears the stamp or the token stays true.                *)
LEMMA SnapKept == PInv /\ Moved /\ snap' = snap => StampInv' /\ TokenMeansPixels'
<1> SUFFICES ASSUME PInv, Moved, snap' = snap PROVE StampInv' /\ TokenMeansPixels'
  OBVIOUS
<1>1. /\ st \in Store /\ st' \in Store /\ snap \in Snapshot /\ snap.stamp <= st.gen
      /\ snap.batch <= st.batch /\ Stands(st, st') /\ Tokens(st, st')
      /\ promise' = IF st'.batch # st.batch THEN Landing(st', rx') ELSE promise
      /\ StampInv /\ TokenMeansPixels
  BY DEF PInv, Typed, Moved, Recorded
<1>2. /\ st.gen \in Nat /\ st'.gen \in Nat /\ st.batch \in Nat /\ st'.batch \in Nat
      /\ snap.stamp \in Nat /\ snap.batch \in Nat
  BY <1>1, StoreFields DEF Snapshot
<1>3. StampInv'
  <2> SUFFICES ASSUME snap.stamp = st'.gen, Settled(st') PROVE snap.pic = Shown(st')
    BY DEF StampInv
  <2>1. st'.gen = st.gen
    BY <1>1, <1>2 DEF Stands
  <2> QED
    BY <1>1, <2>1 DEF Stands, StampInv
<1>4. TokenMeansPixels'
  <2> SUFFICES ASSUME st'.ready # 0, snap.batch = st'.ready, snap.mapped
               PROVE  \A b \in Blocks : snap.pic.pix[b] >= promise'[b]
    BY DEF TokenMeansPixels
  <2>1. st'.batch = st.batch /\ st'.ready = st.ready
    BY <1>1, <1>2 DEF Tokens
  <2> QED
    BY <1>1, <2>1 DEF TokenMeansPixels
<1> QED
  BY <1>3, <1>4

(* A redraw that copies: what it holds is what the store shows.            *)
LEMMA SnapTaken ==
  ASSUME PInv, Moved, Publishable(st'), st'.gen = st.gen, st'.fallback = st.fallback,
         st'.update \/ rx'.todo = {},
         snap' = [pic |-> Picture(st'), stamp |-> st.gen, batch |-> st'.ready,
                  mapped |-> st.fallback = Blank]
  PROVE  StampInv' /\ TokenMeansPixels'
<1>1. /\ st' \in Store /\ rx' \in Copier /\ Clean(st') /\ Quiet(st') /\ PromiseInv'
      /\ promise' \in Pixels
  BY PromiseStep DEF Moved, Stands, Tokens
<1>2. st'.frame = "Idle" /\ ~st'.suppressed /\ ~st'.update
  BY <1>1, StoreFields DEF Publishable, Pending, Retained
<1>3. snap'.pic = Shown(st')
  BY <1>1, <1>2, PictureShown
<1>4. StampInv'
  BY <1>3 DEF StampInv
<1>5. ASSUME st'.ready # 0, snap'.mapped, NEW b \in Blocks
      PROVE  snap'.pic.pix[b] >= promise'[b]
  <2>1. ~st'.stale /\ st'.output # NoOutput
    BY <1>1, <1>5 DEF Quiet
  <2>2. Landing(st', rx') = st'.surfaces[st'.output.id].pix
    BY <1>1, <1>2, <2>1, LandingTyped
  <2>3. st'.surfaces[st'.output.id].pix[b] >= promise'[b]
    BY <1>1, <1>5, <2>2 DEF PromiseInv
  <2>4. CASE Painted(st', st'.output.id)
    <3>1. snap'.pic = PictureOf(st')
      BY <1>3, <1>5, <2>1, <2>4 DEF Shown, Mapped
    <3> QED
      BY <2>3, <3>1 DEF PictureOf
  <2>5. CASE ~Painted(st', st'.output.id)
    <3>1. snap'.pic = Blank
      BY <1>3, <1>5, <2>5 DEF Shown, Mapped
    <3>2. st'.surfaces[st'.output.id].pix[b] = 0 /\ Blank.pix[b] = 0
      BY <2>5 DEF Painted, Blank, Unpainted
    <3> QED
      BY <2>3, <3>1, <3>2
  <2> QED
    BY <2>4, <2>5
<1>6. TokenMeansPixels'
  BY <1>5 DEF TokenMeansPixels
<1> QED
  BY <1>4, <1>6

-----------------------------------------------------------------------------
(* The actions.                                                            *)

(* The parts of the invariant.                                             *)
LEMMA Parts ==
  ASSUME PInv
  PROVE  /\ st \in Store /\ rx \in Copier /\ win \in Window /\ snap \in Snapshot /\ left \in Budget
         /\ gate \in [claimed : BOOLEAN, queued : BOOLEAN]
         /\ desktop \in BOOLEAN /\ promise \in Pixels
         /\ st.ready <= st.batch /\ rx.last <= st.gen
         /\ snap.batch <= st.batch /\ snap.stamp <= st.gen /\ win.presented <= snap.stamp
         /\ (win.at # "failed" => win.failures < MAX_CONSECUTIVE_PRESENT_FAILURES)
         /\ WritesInv /\ Clean(st) /\ Quiet(st)
         /\ StampInv /\ DesktopInv /\ PromiseInv /\ TokenMeansPixels
  BY DEF PInv, Typed

(* Its parts after a step.                                                 *)
LEMMA Composed ==
  PInv /\ Moved /\ WritesInv' /\ Typed' /\ StampInv' /\ TokenMeansPixels' => PInv'
  BY DesktopStep, PromiseStep DEF PInv, Moved, Stands, Tokens

(* Generations and batches grow.                                           *)
LEMMA BatchBounds ==
  ASSUME PInv, Moved
  PROVE  /\ st'.ready <= st'.batch /\ snap.batch <= st'.batch /\ snap.stamp <= st'.gen
         /\ rx.last <= st'.gen
<1>1. /\ st.ready <= st.batch /\ snap.batch <= st.batch /\ snap.stamp <= st.gen
      /\ rx.last <= st.gen /\ Tokens(st, st') /\ st'.gen >= st.gen
  BY Parts DEF Moved, Stands
<1>2. /\ st.gen \in Nat /\ st'.gen \in Nat /\ st.batch \in Nat /\ st'.batch \in Nat
      /\ st.ready \in Nat /\ st'.ready \in Nat
      /\ snap.stamp \in Nat /\ snap.batch \in Nat /\ rx.last \in Nat
  BY Parts, StoreFields DEF Moved, Snapshot, Copier
<1> QED
  BY <1>1, <1>2 DEF Tokens

(* A step of the session thread leaves the window alone.                   *)
LEMMA ServerMoves ==
  ASSUME PInv, Moved, WritesInv', rx'.last = rx.last, left' \in Budget,
         gate' = gate, win' = win, snap' = snap
  PROVE  PInv'
<1>1. Typed'
  BY Parts, BatchBounds, PromiseStep DEF Typed, Moved, Recorded
<1> QED
  BY <1>1, SnapKept, Composed

(* Same mapping, same pixels: nothing was taken back.                      *)
LEMMA LandingKept ==
  ASSUME PInv, st' \in Store, SamePix(st, st'), st'.output = st.output, rx' = rx
  PROVE  \A b \in Blocks : Landing(st', rx')[b] >= Landing(st, rx)[b]
<1>1. ASSUME NEW b \in Blocks PROVE Landing(st', rx')[b] = Landing(st, rx)[b]
  BY Parts, OutputFields DEF Landing, SamePix
<1>2. \A b \in Blocks : Landing(st, rx)[b] \in Nat
  BY Parts, LandingTyped DEF Pixels
<1> QED
  BY <1>1, <1>2

(* Without a paint the numbers of the paints stand.                        *)
LEMMA WritesKept ==
  ASSUME PInv, st'.surfaces = st.surfaces, st'.update = st.update, rx' = rx,
         left'.writes = left.writes
  PROVE  WritesInv'
  BY Parts DEF WritesInv, Spent

(* The server speaks between updates.                                      *)
LEMMA ServingMeans ==
  ASSUME PInv, Serving
  PROVE  rx.todo = {} /\ ~st.update /\ st.frame \in {"Idle", "Active"}
  BY Parts, StoreFields DEF Serving

(* Begin, end and abortion of a frame.                                     *)
LEMMA FrameActions ==
  ASSUME PInv, StartFrame \/ EndFrame \/ FrameAborted
  PROVE  PInv'
<1>1. /\ rx' = rx /\ left' = left /\ History /\ gate' = gate /\ win' = win /\ snap' = snap
  BY DEF StartFrame, EndFrame, FrameAborted, Server
<1>2. /\ st' \in Store /\ SameMap(st, st') /\ st'.update = st.update
      /\ st'.surfaces = st.surfaces /\ Stands(st, st') /\ Tokens(st, st')
  <2>1. CASE StartFrame
    BY <2>1, Parts, BeginStands DEF StartFrame, Server
  <2>2. CASE EndFrame
    BY <2>2, Parts, CommitStands DEF EndFrame, Server
  <2>3. CASE FrameAborted
    BY <2>3, Parts, AbortStands DEF FrameAborted, Server
  <2> QED
    BY <2>1, <2>2, <2>3
<1>3. Moved
  BY <1>1, <1>2, Parts, HistoryRecorded, LandingKept DEF Moved, SamePix, SameMap
<1>4. WritesInv'
  BY <1>1, <1>2, WritesKept
<1> QED
  BY <1>1, <1>3, <1>4, Parts, ServerMoves

(* The bound on changes.                                                   *)
LEMMA ChangesTyped ==
  ASSUME PInv, Changes
  PROVE  left' \in Budget /\ left'.writes = left.writes /\ rx' = rx
<1>1. left \in Budget /\ left.changes \in Nat /\ left.changes > 0
  BY Parts DEF Changes, Budget
<1> DEFINE n == left.changes - 1
<1>2. n \in Nat /\ left' = [left EXCEPT !.changes = n]
  BY <1>1 DEF Changes
<1> HIDE DEF n
<1> QED
  BY <1>1, <1>2 DEF Changes, Budget

(* Creation, deletion and mapping of a surface.                            *)
LEMMA HandoffActions ==
  ASSUME PInv, NEW i \in Ids,
         SurfaceCreated(i) \/ SurfaceDeleted(i) \/ \E o \in left.origins : SurfaceMapped(i, o)
  PROVE  PInv'
<1>1. /\ Changes /\ History /\ gate' = gate /\ win' = win /\ snap' = snap
  BY DEF SurfaceCreated, SurfaceDeleted, SurfaceMapped, Server
<1>2. /\ left' \in Budget /\ left'.writes = left.writes /\ rx' = rx
  BY <1>1, ChangesTyped
<1>3. rx.todo = {} /\ ~st.update
  BY ServingMeans DEF SurfaceCreated, SurfaceDeleted, SurfaceMapped
<1>4. /\ st' \in Store /\ st'.update = st.update
      /\ (Untouched(st, st', i) \/ st'.surfaces = st.surfaces)
      /\ (st'.ready # 0 => SamePix(st, st') /\ st'.output = st.output)
      /\ Stands(st, st') /\ Tokens(st, st')
  <2>1. CASE SurfaceCreated(i)
    BY <2>1, Parts, CreateStands DEF SurfaceCreated, Server
  <2>2. CASE SurfaceDeleted(i)
    BY <2>2, Parts, DeleteStands DEF SurfaceDeleted, Server
  <2>3. ASSUME NEW o \in left.origins, SurfaceMapped(i, o)
        PROVE  /\ st' \in Store /\ st'.update = st.update /\ st'.surfaces = st.surfaces
               /\ (st'.ready # 0 => SamePix(st, st') /\ st'.output = st.output)
               /\ Stands(st, st') /\ Tokens(st, st')
    <3>1. o \in Origins
      BY Parts DEF Budget
    <3> QED
      BY <2>3, <3>1, Parts, MapStands DEF SurfaceMapped, Server, SamePix
  <2> QED
    BY <2>1, <2>2, <2>3
<1>5. Moved
  BY <1>1, <1>2, <1>4, Parts, HistoryRecorded, LandingKept DEF Moved
<1>6. WritesInv'
  <2>1. CASE st'.surfaces = st.surfaces
    BY <1>2, <1>4, <2>1, WritesKept
  <2>2. CASE Untouched(st, st', i)
    <3>1. Spent' = Spent /\ Spent >= 0
      BY <1>2, Parts, PresentationAssumption DEF Spent, Budget
    <3>2. ASSUME NEW j \in Ids, NEW b \in Blocks PROVE st'.surfaces[j].pix[b] <= Spent
      BY <2>2, <3>1, Parts DEF Untouched, Others, Unpainted, WritesInv
    <3> QED
      BY <1>2, <1>3, <3>1, <3>2 DEF WritesInv
  <2> QED
    BY <1>4, <2>1, <2>2
<1> QED
  BY <1>1, <1>2, <1>5, <1>6, ServerMoves

(* Reset of the graphics.                                                  *)
LEMMA ResetAction ==
  ASSUME PInv, NEW c \in Canvases, GraphicsReset(c)
  PROVE  PInv'
<1>1. /\ left' \in Budget /\ left'.writes = left.writes /\ rx' = rx
      /\ History /\ gate' = gate /\ win' = win /\ snap' = snap
  BY ChangesTyped DEF GraphicsReset, Server
<1>2. /\ st' \in Store /\ st'.update = st.update /\ st'.surfaces = st.surfaces
      /\ st'.output = st.output /\ Stands(st, st') /\ Tokens(st, st')
  BY Parts, ResetStands DEF GraphicsReset, Server
<1>3. Moved
  BY <1>1, <1>2, Parts, HistoryRecorded, LandingKept DEF Moved, SamePix
<1>4. WritesInv'
  BY <1>1, <1>2, WritesKept
<1> QED
  BY <1>1, <1>3, <1>4, ServerMoves

(* The bound on paints: the next number is above all in use.               *)
LEMMA WritesTyped ==
  ASSUME PInv, NEW codec, NEW odd \in {0, 1}, Writes(codec, odd)
  PROVE  /\ left' \in Budget /\ left.writes > 0 /\ left'.writes = left.writes - 1
         /\ WriteNumber \in 1..MaxWrites /\ WriteNumber = Spent + 1 /\ Spent' = WriteNumber
         /\ Spent \in Nat
<1>1. /\ left \in Budget /\ left.writes \in 0..MaxWrites /\ left.distractions \in Nat
      /\ left.writes > 0 /\ left.distractions >= odd /\ MaxWrites \in Nat
  BY Parts, PresentationAssumption DEF Writes, Budget
<1> DEFINE n == left.writes - 1
           d == left.distractions - odd
<1>2. n \in 0..MaxWrites /\ d \in Nat
  BY <1>1
<1>3. left' = [left EXCEPT !.writes = n, !.distractions = d]
  BY DEF Writes
<1> HIDE DEF n, d
<1>4. left' \in Budget /\ left'.writes = n
  BY <1>1, <1>2, <1>3 DEF Budget
<1> QED
  BY <1>1, <1>4 DEF WriteNumber, Spent, n

(* A plain paint.                                                          *)
LEMMA PaintAction ==
  ASSUME PInv, NEW i \in Ids, NEW B \in Regions, Paint(i, B)
  PROVE  PInv'
<1>1. /\ rx' = rx /\ History /\ gate' = gate /\ win' = win /\ snap' = snap
      /\ Writes("plain", 0) /\ st' = Blit(st, i, B, WriteNumber)
  BY DEF Paint, Server
<1>2. /\ left' \in Budget /\ WriteNumber \in 1..MaxWrites /\ WriteNumber = Spent + 1
      /\ Spent' = WriteNumber /\ Spent \in Nat
  BY <1>1, WritesTyped
<1>3. rx.todo = {} /\ ~st.update
  BY ServingMeans DEF Paint
<1>4. B \in SUBSET Blocks /\ B # {}
  BY PresentationAssumption
<1> DEFINE n == WriteNumber
<1>5. /\ st' \in Store /\ SameMap(st, st') /\ st'.update = st.update
      /\ Overwritten(st, st', i, B, n) /\ Stands(st, st') /\ Tokens(st, st')
  <2>1. n \in 1..MaxWrites /\ st' = Blit(st, i, B, n) /\ st \in Store /\ Clean(st) /\ Quiet(st)
    BY <1>1, <1>2, Parts
  <2> HIDE DEF n
  <2> QED
    BY ONLY <1>4, <2>1, i \in Ids, BlitStands
<1>6. ASSUME NEW j \in Ids, NEW b \in Blocks
      PROVE  /\ st'.surfaces[j].pix[b] >= st.surfaces[j].pix[b]
             /\ st'.surfaces[j].pix[b] <= Spent'
  <2> HIDE DEF n
  <2>1. st'.surfaces[j].pix[b] = st.surfaces[j].pix[b] \/ st'.surfaces[j].pix[b] = n
    BY <1>5 DEF Overwritten
  <2>2. st.surfaces[j].pix[b] \in Nat /\ st.surfaces[j].pix[b] <= Spent
    BY Parts, StoreFields DEF WritesInv, Pixels
  <2>3. n = Spent + 1 /\ Spent' = Spent + 1
    BY <1>2 DEF n
  <2> QED
    BY <1>2, <2>1, <2>2, <2>3
<1> HIDE DEF n
<1>7. WritesInv'
  BY <1>1, <1>3, <1>6 DEF WritesInv
<1>8. \A b \in Blocks : st'.ready # 0 => Landing(st', rx')[b] >= Landing(st, rx)[b]
  <2> SUFFICES ASSUME NEW b \in Blocks, st'.ready # 0
               PROVE  Landing(st', rx')[b] >= Landing(st, rx)[b]
    OBVIOUS
  <2>1. st'.output # NoOutput /\ st'.output = st.output
    BY <1>5 DEF Tokens, Quiet, SameMap
  <2>2. st.output.id \in Ids
    BY <2>1, Parts, OutputFields
  <2>3. /\ Landing(st, rx)[b] = st.surfaces[st.output.id].pix[b]
        /\ Landing(st', rx')[b] = st'.surfaces[st.output.id].pix[b]
    BY <1>1, <1>3, <2>1 DEF Landing
  <2> QED
    BY <1>6, <2>2, <2>3
<1>9. Moved
  BY <1>1, <1>5, <1>8, Parts, HistoryRecorded DEF Moved
<1> QED
  BY <1>1, <1>2, <1>7, <1>9, ServerMoves

(* An AVC444 update announces its regions.                                 *)
LEMMA RegionsAction ==
  ASSUME PInv, NEW i \in Ids, NEW luma \in Regions \cup {{}}, NEW chroma \in Regions \cup {{}},
         NEW overflow \in BOOLEAN, Avc444Regions(i, luma, chroma, overflow)
  PROVE  PInv'
<1> DEFINE odd == IF overflow THEN 1 ELSE 0
           n == WriteNumber
           t == NoteRegions(st, i, luma, chroma, overflow)
           u == [t.surfaces[i] EXCEPT !.luma = @ \cup luma]
<1>1. /\ History /\ gate' = gate /\ win' = win /\ snap' = snap /\ Writes("avc444", odd)
      /\ rx' = [rx EXCEPT !.id = i, !.n = n, !.todo = luma \cup chroma]
      /\ st' = [t EXCEPT !.surfaces[i].luma = @ \cup luma] /\ luma \cup chroma # {}
  BY DEF Avc444Regions, Server
<1>2. /\ left' \in Budget /\ n \in 1..MaxWrites /\ n = Spent + 1 /\ Spent' = n /\ Spent \in Nat
  <2>1. odd \in {0, 1}
    OBVIOUS
  <2> HIDE DEF odd
  <2> QED
    BY <1>1, <2>1, WritesTyped
<1>3. rx.todo = {} /\ ~st.update
  BY ServingMeans DEF Avc444Regions
<1>4. luma \in SUBSET Blocks /\ chroma \in SUBSET Blocks
  BY PresentationAssumption
<1>5. /\ t \in Store /\ SameView(st, t) /\ t.update /\ t.surfaces = st.surfaces /\ Tokens(st, t)
  <2>1. t = NoteRegions(st, i, luma, chroma, overflow)
    OBVIOUS
  <2> HIDE DEF t
  <2> QED
    BY <1>4, <2>1, Parts, NoteFields
<1> HIDE DEF t
<1>6. u \in Surface /\ u.pix = t.surfaces[i].pix
  <2>1. t.surfaces[i] \in Surface
    BY <1>5, StoreFields
  <2> QED
    BY <1>4, <2>1 DEF Surface
<1>7. st' = Replaced(t, i, u)
  BY <1>1, <1>5 DEF Store, Replaced
<1> HIDE DEF u
<1>8. /\ st' \in Store /\ SameMap(t, st') /\ SameShow(t, st') /\ SamePolicy(t, st')
      /\ st'.update = t.update /\ st'.surfaces[i] = u /\ Others(t, st', i)
  <2>1. t \in Store /\ u \in Surface
    BY <1>5, <1>6
  <2> QED
    BY ONLY <1>7, <2>1, i \in Ids, ResetSurface
<1>9. \A j \in Ids : st'.surfaces[j].pix = st.surfaces[j].pix
  BY <1>5, <1>6, <1>8 DEF Others
<1>10. SameView(st, st') /\ Tokens(st, st') /\ Stands(st, st') /\ st'.update
  <2>1. SameView(st, st')
    BY <1>5, <1>8, <1>9 DEF SameView, SamePix, SameMap, SameShow
  <2>2. Tokens(t, st')
    BY <1>5, <1>8, PolicyKept DEF Tokens
  <2> QED
    BY <1>5, <1>8, <2>1, <2>2, Parts, TokensOver, ViewStands
<1>11. rx' \in Copier /\ rx'.last = rx.last /\ rx'.id = i /\ rx'.n = n /\ rx'.todo = luma \cup chroma
  <2>1. n \in 0..MaxWrites /\ luma \cup chroma \in SUBSET Blocks
    BY <1>2, <1>4, PresentationAssumption
  <2> HIDE DEF n
  <2> QED
    BY <1>1, <2>1, Parts DEF Copier
<1> HIDE DEF n
<1>12. ASSUME NEW j \in Ids, NEW b \in Blocks
       PROVE  st.surfaces[j].pix[b] \in Nat /\ st.surfaces[j].pix[b] <= Spent
  BY Parts, StoreFields DEF WritesInv, Pixels
<1>13. WritesInv'
  <2>1. \A j \in Ids, b \in Blocks : st'.surfaces[j].pix[b] <= Spent'
    <3> TAKE j \in Ids, b \in Blocks
    <3>1. st'.surfaces[j].pix[b] = st.surfaces[j].pix[b]
      BY <1>9
    <3>2. Spent' = Spent + 1
      BY <1>2
    <3> QED
      BY <1>2, <1>12, <3>1, <3>2
  <2>2. n # 0 /\ n = Spent'
    BY <1>2
  <2> QED
    BY <1>10, <1>11, <2>1, <2>2 DEF WritesInv
<1>14. \A b \in Blocks : st'.ready # 0 => Landing(st', rx')[b] >= Landing(st, rx)[b]
  <2> SUFFICES ASSUME NEW b \in Blocks, st'.ready # 0
               PROVE  Landing(st', rx')[b] >= Landing(st, rx)[b]
    OBVIOUS
  <2>1. st'.output # NoOutput /\ st'.output = st.output
    BY <1>10 DEF Tokens, Quiet, SameView, SameMap
  <2>2. st.output.id \in Ids
    BY <2>1, Parts, OutputFields
  <2> DEFINE p == st.surfaces[st.output.id].pix[b]
  <2>3. Landing(st, rx)[b] = p
    BY <1>3, <2>1 DEF Landing
  <2>4. Landing(st', rx')[b] = n \/ Landing(st', rx')[b] = p
    BY <1>9, <1>11, <2>1, <2>2 DEF Landing
  <2>5. p \in Nat /\ p <= Spent /\ n = Spent + 1
    BY <1>2, <1>12, <2>2
  <2> HIDE DEF p
  <2> QED
    BY <1>2, <2>3, <2>4, <2>5
<1>15. Moved
  BY <1>1, <1>8, <1>10, <1>11, <1>14, HistoryRecorded DEF Moved
<1> QED
  BY <1>1, <1>2, <1>11, <1>13, <1>15, ServerMoves

(* It copies one in: the pixel that lands was announced.                   *)
LEMMA BlitAction ==
  ASSUME PInv, NEW b \in Blocks, Avc444Blit(b)
  PROVE  PInv'
<1> DEFINE i == rx.id
           n == rx.n
<1>1. /\ b \in rx.todo /\ rx' = [rx EXCEPT !.todo = @ \ {b}] /\ left' = left
      /\ st' = BlitAvc(st, i, {b}, n) /\ History /\ gate' = gate /\ win' = win /\ snap' = snap
  BY DEF Avc444Blit, Server
<1>2. /\ st.update /\ i \in Ids /\ n = Spent /\ n # 0 /\ n \in 0..MaxWrites /\ n \in 1..MaxWrites
  BY <1>1, Parts, PresentationAssumption DEF WritesInv, Copier
<1>3. /\ rx' \in Copier /\ rx'.last = rx.last /\ rx'.id = rx.id /\ rx'.n = rx.n
      /\ rx'.todo = rx.todo \ {b}
  BY <1>1, Parts DEF Copier
<1>4. /\ st' \in Store /\ SameMap(st, st') /\ SamePolicy(st, st') /\ st'.update = st.update
      /\ Overwritten(st, st', i, {b}, n) /\ Stands(st, st') /\ Tokens(st, st')
  <2>1. {b} \in SUBSET Blocks /\ {b} # {} /\ st \in Store /\ Clean(st) /\ Quiet(st)
    BY Parts
  <2> HIDE DEF i, n
  <2> QED
    BY ONLY <1>1, <1>2, <2>1, BlitAvcStands
<1> HIDE DEF i, n
<1>5. ASSUME NEW j \in Ids, NEW c \in Blocks
      PROVE  /\ st'.surfaces[j].pix[c] = st.surfaces[j].pix[c] \/ (j = i /\ c = b /\ st'.surfaces[j].pix[c] = n)
             /\ (j = i /\ c = b => st'.surfaces[j].pix[c] = n)
  BY <1>4 DEF Overwritten
<1>6. WritesInv'
  <2>1. Spent' = Spent /\ Spent <= Spent
    BY <1>1, Parts, PresentationAssumption DEF Spent, Budget
  <2>2. \A j \in Ids, c \in Blocks : st'.surfaces[j].pix[c] <= Spent
    BY <1>2, <1>5, <2>1, Parts DEF WritesInv
  <2> QED
    BY <1>2, <1>3, <1>4, <2>1, <2>2 DEF WritesInv, i, n
<1>7. \A c \in Blocks : st'.ready # 0 => Landing(st', rx')[c] >= Landing(st, rx)[c]
  <2> SUFFICES ASSUME NEW c \in Blocks, st'.ready # 0
               PROVE  Landing(st', rx')[c] >= Landing(st, rx)[c]
    OBVIOUS
  <2>1. st'.output # NoOutput /\ st'.output = st.output /\ st.output.id \in Ids
    BY <1>4, Parts, OutputFields DEF Tokens, Quiet, SameMap
  <2>2. Landing(st', rx')[c] = Landing(st, rx)[c]
    <3>1. CASE st.output.id = i /\ c = b
      <4>1. c \in rx.todo /\ c \notin rx'.todo
        BY <1>1, <1>3, <3>1
      <4>2. Landing(st, rx)[c] = n
        BY <3>1, <4>1 DEF Landing, i, n
      <4>3. Landing(st', rx')[c] = st'.surfaces[i].pix[c]
        BY <2>1, <3>1, <4>1 DEF Landing
      <4> QED
        BY <1>2, <1>5, <3>1, <4>2, <4>3
    <3>2. CASE ~(st.output.id = i /\ c = b)
      <4>1. st'.surfaces[st.output.id].pix[c] = st.surfaces[st.output.id].pix[c]
        BY <1>5, <2>1, <3>2
      <4>2. (i = st.output.id /\ c \in rx'.todo) <=> (i = st.output.id /\ c \in rx.todo)
        BY <1>3, <3>2
      <4> QED
        BY <1>3, <2>1, <4>1, <4>2 DEF Landing, i
    <3> QED
      BY <3>1, <3>2
  <2>3. Landing(st, rx)[c] \in Nat
    BY Parts, LandingTyped DEF Pixels
  <2> QED
    BY <2>2, <2>3
<1>8. Moved
  BY <1>1, <1>3, <1>4, <1>7, HistoryRecorded DEF Moved
<1> QED
  BY <1>1, <1>3, <1>6, <1>8, Parts, ServerMoves

(* It ends.                                                                *)
LEMMA CompleteAction == ASSUME PInv, Avc444Complete PROVE PInv'
<1>1. /\ st.update /\ rx.todo = {} /\ rx' = [rx EXCEPT !.id = 0, !.n = 0] /\ left' = left
      /\ st' = [st EXCEPT !.update = FALSE]
      /\ History /\ gate' = gate /\ win' = win /\ snap' = snap
  BY DEF Avc444Complete, Server
<1>2. rx' \in Copier /\ rx'.last = rx.last /\ rx'.todo = {}
  <2>1. 0 \in 0..MaxWrites
    BY PresentationAssumption
  <2> QED
    BY <1>1, <2>1, Parts DEF Copier
<1>3. /\ st' \in Store /\ SameView(st, st') /\ SamePolicy(st, st') /\ st'.surfaces = st.surfaces
  BY <1>1, Parts DEF Store, SameView, SamePix, SameMap, SameShow, SamePolicy
<1>4. Stands(st, st') /\ Tokens(st, st')
  BY <1>3, Parts, ViewStands, PolicyKept DEF SameView
<1>5. WritesInv'
  BY <1>1, <1>2, <1>3, Parts DEF WritesInv, Spent
<1>6. \A b \in Blocks : Landing(st', rx')[b] >= Landing(st, rx)[b]
  <2>1. \A b \in Blocks : Landing(st', rx')[b] = Landing(st, rx)[b]
    BY <1>1, <1>2, <1>3 DEF Landing, SameView, SameMap
  <2>2. \A b \in Blocks : Landing(st, rx)[b] \in Nat
    BY Parts, LandingTyped DEF Pixels
  <2> QED
    BY <2>1, <2>2
<1>7. Moved
  BY <1>1, <1>2, <1>3, <1>4, <1>6, HistoryRecorded DEF Moved
<1> QED
  BY <1>1, <1>2, <1>5, <1>7, Parts, ServerMoves

(* Steps that leave the view alone, and record nothing.                    *)
LEMMA PolicyMoves ==
  ASSUME PInv, st' \in Store, SameView(st, st'), Tokens(st, st'), st'.batch = st.batch,
         rx' \in Copier, rx'.id = rx.id, rx'.n = rx.n, rx'.todo = rx.todo,
         st'.surfaces = st.surfaces, st'.update = st.update,
         desktop' = desktop, promise' = promise, left'.writes = left.writes
  PROVE  Moved /\ WritesInv'
<1>1. Stands(st, st')
  BY Parts, ViewStands
<1>2. Recorded
  BY Parts DEF Recorded, SameView, SameMap
<1>3. \A b \in Blocks : Landing(st', rx')[b] >= Landing(st, rx)[b]
  <2>1. \A b \in Blocks : Landing(st', rx')[b] = Landing(st, rx)[b]
    BY DEF Landing, SameView, SameMap
  <2>2. \A b \in Blocks : Landing(st, rx)[b] \in Nat
    BY Parts, LandingTyped DEF Pixels
  <2> QED
    BY <2>1, <2>2
<1>4. WritesInv'
  BY Parts DEF WritesInv, Spent
<1> QED
  BY <1>1, <1>2, <1>3, <1>4 DEF Moved

(* A store that stays is the simplest case.                                *)
LEMMA StoreStays ==
  ASSUME PInv, st' = st
  PROVE  /\ st' \in Store /\ SameView(st, st') /\ Tokens(st, st') /\ st'.batch = st.batch
         /\ st'.surfaces = st.surfaces /\ st'.update = st.update
<1>1. SameView(st, st') /\ SamePolicy(st, st')
  BY DEF SameView, SamePix, SameMap, SameShow, SamePolicy
<1> QED
  BY <1>1, Parts, PolicyKept DEF SameView

(* The session thread tells the window.                                    *)
LEMMA NotifyAction == ASSUME PInv, Notify PROVE PInv'
<1>1. /\ rx' = [rx EXCEPT !.last = st.gen] /\ st' = st /\ win' = win /\ snap' = snap
      /\ left' = left /\ desktop' = desktop /\ promise' = promise
      /\ gate' \in [claimed : BOOLEAN, queued : BOOLEAN]
  BY Parts DEF Notify
<1>2. rx' \in Copier /\ rx'.last = st.gen /\ rx'.id = rx.id /\ rx'.n = rx.n /\ rx'.todo = rx.todo
  <2>1. st.gen \in Nat
    BY Parts, StoreFields
  <2> QED
    BY <1>1, <2>1, Parts DEF Copier
<1>3. Moved /\ WritesInv'
  BY <1>1, <1>2, StoreStays, PolicyMoves
<1>4. Typed'
  <2>1. rx'.last <= st'.gen
    BY <1>1, <1>2, Parts, StoreFields
  <2> QED
    BY <1>1, <1>2, <1>3, <2>1, Parts, BatchBounds DEF Typed, Moved
<1> QED
  BY <1>1, <1>3, <1>4, SnapKept, Composed

(* A step of the window that leaves its snapshot alone.                    *)
LEMMA WindowMoves ==
  ASSUME PInv, rx' = rx, snap' = snap, desktop' = desktop, promise' = promise,
         gate' \in [claimed : BOOLEAN, queued : BOOLEAN],
         left' \in Budget, left'.writes = left.writes,
         st' \in Store, SameView(st, st'), Tokens(st, st'), st'.batch = st.batch,
         st'.surfaces = st.surfaces, st'.update = st.update,
         win' \in Window, win'.presented <= snap.stamp,
         win'.at # "failed" => win'.failures < MAX_CONSECUTIVE_PRESENT_FAILURES
  PROVE  PInv'
<1>1. Moved /\ WritesInv'
  BY Parts, PolicyMoves
<1>2. Typed'
  BY <1>1, Parts, BatchBounds DEF Typed, Moved
<1> QED
  BY <1>1, <1>2, SnapKept, Composed

(* The bound on distractions.                                              *)
LEMMA DistractionTyped ==
  ASSUME PInv, Distraction
  PROVE  left' \in Budget /\ left'.writes = left.writes /\ rx' = rx /\ snap' = snap
<1>1. left \in Budget /\ left.distractions \in Nat /\ left.distractions > 0
  BY Parts DEF Distraction, Budget
<1> DEFINE n == left.distractions - 1
<1>2. n \in Nat /\ left' = [left EXCEPT !.distractions = n]
  BY <1>1 DEF Distraction
<1> HIDE DEF n
<1> QED
  BY <1>1, <1>2 DEF Distraction, Budget

\* What a window keeps in a step that presents nothing.
Steady == win' \in Window /\ win'.presented = win.presented
            /\ (win'.at # "failed" => win'.failures < MAX_CONSECUTIVE_PRESENT_FAILURES)

(* Another try.                                                            *)
LEMMA AgainTyped ==
  ASSUME NEW w \in Window
  PROVE  /\ Again(w) \in Window /\ Again(w).presented = w.presented /\ Again(w).at = "idle"
         /\ Again(w).failures = w.failures
  BY DEF Again, Window

(* Steps of the window that leave the store alone.                         *)
LEMMA EventActions ==
  ASSUME PInv, Damaged \/ RequestRedraw \/ DeadlineArrives \/ CadenceDue
  PROVE  PInv'
<1>1. /\ st' = st /\ rx' = rx /\ snap' = snap /\ left' = left /\ desktop' = desktop
      /\ promise' = promise /\ gate' \in [claimed : BOOLEAN, queued : BOOLEAN]
  <2>1. gate \in [claimed : BOOLEAN, queued : BOOLEAN]
    BY Parts
  <2>2. gate' = gate \/ gate' = [claimed |-> FALSE, queued |-> FALSE]
    BY DEF Damaged, RequestRedraw, DeadlineArrives, CadenceDue
  <2>3. gate' \in [claimed : BOOLEAN, queued : BOOLEAN]
    <3>1. CASE gate' = gate
      BY <2>1, <3>1
    <3>2. CASE gate' = [claimed |-> FALSE, queued |-> FALSE]
      BY <3>2
    <3> QED
      BY <2>2, <3>1, <3>2
  <2> QED
    BY <2>3 DEF Damaged, RequestRedraw, DeadlineArrives, CadenceDue, WindowOnly
<1>2. Steady
  <2>1. win \in Window /\ (win.at # "failed" => win.failures < MAX_CONSECUTIVE_PRESENT_FAILURES)
    BY Parts
  <2>2. CASE Damaged
    BY <2>1, <2>2 DEF Damaged, Go, Window, Steady
  <2>3. CASE RequestRedraw
    <3> DEFINE later == win.recent \/ Waits(st)
               wants == win.wanted \/ ~later
               idle == [win EXCEPT !.at = "idle"]
    <3>1. \/ win' = idle
          \/ win' = [idle EXCEPT !.deadline = later, !.wanted = wants]
      BY <2>3 DEF RequestRedraw, Go
    <3>2. later \in BOOLEAN /\ wants \in BOOLEAN /\ win.at = "damaged"
      BY <2>1, <2>3 DEF Window, RequestRedraw
    <3> HIDE DEF later, wants
    <3> QED
      BY <2>1, <3>1, <3>2 DEF Window, Steady
  <2>4. CASE DeadlineArrives
    <3> DEFINE wants == win.wanted \/ (~win.occluded /\ (win.retry \/ win.presented # st.gen))
    <3>1. win' = [win EXCEPT !.deadline = FALSE, !.retry = FALSE, !.wanted = wants]
      BY <2>4 DEF DeadlineArrives, Go
    <3>2. wants \in BOOLEAN
      BY <2>1 DEF Window
    <3> HIDE DEF wants
    <3> QED
      BY <2>1, <3>1, <3>2 DEF Window, Steady
  <2>5. CASE CadenceDue
    BY <2>1, <2>5 DEF CadenceDue, Go, Window, Steady
  <2> QED
    BY <2>2, <2>3, <2>4, <2>5
<1> QED
  BY <1>1, <1>2, Parts, StoreStays, WindowMoves DEF Steady

(* Steps of the window the bound counts.                                   *)
LEMMA DistractedActions ==
  ASSUME PInv, RedrawBusy \/ PresentBusy \/ PresentFails \/ Expose \/ Occlude
  PROVE  PInv'
<1>1. Distraction /\ st' = st /\ desktop' = desktop /\ promise' = promise /\ gate' = gate
  BY DEF RedrawBusy, PresentBusy, PresentFails, Expose, Occlude
<1>2. left' \in Budget /\ left'.writes = left.writes /\ rx' = rx /\ snap' = snap
  BY <1>1, DistractionTyped
<1>3. Steady
  <2>1. win \in Window /\ (win.at # "failed" => win.failures < MAX_CONSECUTIVE_PRESENT_FAILURES)
    BY Parts
  <2>2. CASE RedrawBusy
    <3> DEFINE w == [win EXCEPT !.wanted = FALSE]
    <3>1. w \in Window /\ w.presented = win.presented /\ w.failures = win.failures
      BY <2>1 DEF Window
    <3>2. win' = Again(w) /\ win.at = "idle"
      BY <2>2 DEF RedrawBusy, Go
    <3> HIDE DEF w
    <3> QED
      BY <2>1, <3>1, <3>2, AgainTyped DEF Steady
  <2>3. CASE PresentBusy
    <3> DEFINE w == [win EXCEPT !.acknowledge = FALSE]
    <3>1. w \in Window /\ w.presented = win.presented /\ w.failures = win.failures
      BY <2>1 DEF Window
    <3>2. win' = Again(w) /\ win.at = "present"
      BY <2>3 DEF PresentBusy, Go
    <3> HIDE DEF w
    <3> QED
      BY <2>1, <3>1, <3>2, AgainTyped DEF Steady
  <2>4. CASE PresentFails
    <3> DEFINE n == win.failures + 1
               w == [win EXCEPT !.acknowledge = FALSE, !.failures = n]
    <3>1. n \in 0..MAX_CONSECUTIVE_PRESENT_FAILURES
      BY <2>1, <2>4, PresentationAssumption DEF Window, PresentFails
    <3>2. win' = IF w.failures < MAX_CONSECUTIVE_PRESENT_FAILURES THEN Again(w)
                 ELSE [w EXCEPT !.at = "failed"]
      BY <2>4 DEF PresentFails, Go
    <3> HIDE DEF n
    <3>3. w \in Window /\ w.presented = win.presented
      BY <2>1, <3>1 DEF Window
    <3> HIDE DEF w
    <3>4. CASE w.failures < MAX_CONSECUTIVE_PRESENT_FAILURES
      BY <3>2, <3>3, <3>4, AgainTyped DEF Steady
    <3>5. CASE ~(w.failures < MAX_CONSECUTIVE_PRESENT_FAILURES)
      <4>1. win' = [w EXCEPT !.at = "failed"]
        BY <3>2, <3>5
      <4> QED
        BY <3>3, <4>1 DEF Window, Steady
    <3> QED
      BY <3>4, <3>5
  <2>5. CASE Expose
    BY <2>1, <2>5 DEF Expose, Go, Window, Steady
  <2>6. CASE Occlude
    BY <2>1, <2>6 DEF Occlude, Go, Window, Steady
  <2> QED
    BY <2>2, <2>3, <2>4, <2>5, <2>6
<1> QED
  BY <1>1, <1>2, <1>3, Parts, StoreStays, WindowMoves DEF Steady

(* A reveal drops the wait.                                                *)
LEMMA RevealAction == ASSUME PInv, Reveal PROVE PInv'
<1>1. /\ rx' = rx /\ snap' = snap /\ left' = left /\ gate' = gate /\ desktop' = desktop
      /\ promise' = promise /\ st' = ClearPolicy(st)
      /\ win' = [win EXCEPT !.occluded = FALSE, !.wanted = TRUE]
  BY DEF Reveal, WindowOnly, Go
<1>2. /\ st' \in Store /\ SameView(st, st') /\ Tokens(st, st') /\ st'.batch = st.batch
      /\ st'.surfaces = st.surfaces /\ st'.update = st.update
  BY <1>1, Parts, ClearFields, ClearTokens
<1>3. Steady
  BY <1>1, Parts DEF Window, Steady
<1> QED
  BY <1>1, <1>2, <1>3, Parts, WindowMoves DEF Steady

(* The luma deadline passes.                                               *)
LEMMA LumaAction == ASSUME PInv, LumaDue PROVE PInv'
<1>1. /\ rx' = rx /\ snap' = snap /\ left' = left /\ gate' = gate /\ desktop' = desktop
      /\ promise' = promise /\ win' = win /\ st.wait = "running"
      /\ st' = [st EXCEPT !.wait = "due"]
  BY DEF LumaDue, WindowOnly
<1>2. /\ st' \in Store /\ SameView(st, st') /\ st'.batch = st.batch /\ st'.ready = st.ready
      /\ st'.surfaces = st.surfaces /\ st'.update = st.update /\ st'.pending = st.pending
      /\ st'.wait = "due"
  BY <1>1, Parts DEF Store, SameView, SamePix, SameMap, SameShow
<1>3. Tokens(st, st')
  <2>1. Quiet(st')
    BY <1>1, <1>2, Parts DEF Quiet, SameView, SameMap
  <2>2. st'.batch >= st.batch
    BY <1>2, Parts, StoreFields
  <2> QED
    BY <1>2, <2>1, <2>2 DEF Tokens
<1> QED
  BY <1>1, <1>2, <1>3, Parts, WindowMoves

(* A present acknowledges what the snapshot holds.                         *)
LEMMA PresentAction == ASSUME PInv, Present PROVE PInv'
<1> DEFINE p == IF win.acknowledge THEN snap.stamp ELSE win.presented
<1>1. /\ rx' = rx /\ snap' = snap /\ left' = left /\ gate' = gate /\ desktop' = desktop
      /\ promise' = promise
      /\ win' = [win EXCEPT !.at = "idle", !.retry = FALSE, !.failures = 0,
                            !.recent = left.large, !.acknowledge = FALSE, !.presented = p]
      /\ st' = IF win.acknowledge THEN Acknowledge(st, snap.batch) ELSE st
  BY DEF Present, WindowOnly, Go
<1>2. /\ st' \in Store /\ SameView(st, st') /\ Tokens(st, st') /\ st'.batch = st.batch
      /\ st'.surfaces = st.surfaces /\ st'.update = st.update
  <2>1. CASE win.acknowledge
    <3>1. st' = Acknowledge(st, snap.batch) /\ snap.batch \in Nat
      BY <1>1, <2>1, Parts DEF Snapshot
    <3> QED
      BY <3>1, Parts, AcknowledgeFields
  <2>2. CASE ~win.acknowledge
    BY <1>1, <2>2, StoreStays
  <2> QED
    BY <2>1, <2>2
<1>3. /\ p \in Nat \cup {-1} /\ p <= snap.stamp
      /\ left.large \in BOOLEAN /\ 0 \in 0..MAX_CONSECUTIVE_PRESENT_FAILURES
      /\ 0 < MAX_CONSECUTIVE_PRESENT_FAILURES
  <2>1. snap.stamp \in Nat /\ win.presented \in Nat \cup {-1} /\ win.presented <= snap.stamp
    BY Parts DEF Snapshot, Window
  <2>2. left.large \in BOOLEAN
    BY Parts DEF Budget
  <2> QED
    BY <2>1, <2>2, PresentationAssumption
<1> HIDE DEF p
<1>4. win' \in Window /\ win'.presented = p /\ win'.failures = 0
  BY <1>1, <1>3, Parts DEF Window
<1> QED
  BY <1>1, <1>2, <1>3, <1>4, Parts, WindowMoves

(* A redraw defers, tries again or copies.                                 *)
LEMMA RedrawAction == ASSUME PInv, Redraw PROVE PInv'
<1> DEFINE drawn == [win EXCEPT !.wanted = FALSE]
           copies == Publishable(st')
           mapped == st.fallback = Blank
<1>1. /\ rx' = rx /\ left' = left /\ gate' = gate /\ History /\ st' = Settle(st)
      /\ win.at = "idle"
  BY DEF Redraw
<1>2. /\ win' \in { [drawn EXCEPT !.deadline = TRUE], Again(drawn),
                    [drawn EXCEPT !.at = "present", !.deadline = FALSE, !.acknowledge = copies] }
      /\ \/ snap' = snap
         \/ /\ copies
            /\ snap' = [pic |-> Picture(st'), stamp |-> st.gen, batch |-> st'.ready,
                        mapped |-> mapped]
  BY DEF Redraw, Go
<1>3. /\ st' \in Store /\ SameView(st, st') /\ st'.update = st.update
      /\ st'.surfaces = st.surfaces /\ Tokens(st, st')
  BY <1>1, Parts, SettleFields
<1>4. Moved
  <2>1. Stands(st, st')
    BY <1>3, Parts, ViewStands
  <2> QED
    BY <1>1, <1>3, <2>1, Parts, HistoryRecorded, LandingKept DEF Moved, SameView, SameMap
<1>5. WritesInv'
  BY <1>1, <1>3, WritesKept
<1>6. Steady
  <2>1. win \in Window /\ win.failures < MAX_CONSECUTIVE_PRESENT_FAILURES
    BY <1>1, Parts
  <2>2. drawn \in Window /\ drawn.presented = win.presented /\ drawn.failures = win.failures
    BY <2>1 DEF Window
  <2> HIDE DEF drawn
  <2>3. CASE win' = Again(drawn)
    BY <2>1, <2>2, <2>3, AgainTyped DEF Steady
  <2>4. CASE win' = [drawn EXCEPT !.deadline = TRUE]
    BY <2>1, <2>2, <2>4 DEF Window, Steady
  <2>5. CASE win' = [drawn EXCEPT !.at = "present", !.deadline = FALSE, !.acknowledge = copies]
    <3> DEFINE c == copies
    <3>1. c \in BOOLEAN
      BY <1>3, StoreFields DEF Publishable, Pending, Retained
    <3>2. win' = [drawn EXCEPT !.at = "present", !.deadline = FALSE, !.acknowledge = c]
      BY <2>5
    <3> HIDE DEF c
    <3> QED
      BY <2>1, <2>2, <3>1, <3>2 DEF Window, Steady
  <2> QED
    BY <1>2, <2>3, <2>4, <2>5
<1>7. st.gen \in Nat /\ st'.gen = st.gen /\ st.gen <= st.gen /\ st'.ready \in Nat
      /\ st'.fallback = st.fallback
  BY <1>3, Parts, StoreFields DEF SameView, SameShow
<1>8. CASE snap' = snap
  <2>1. Typed'
    BY <1>1, <1>4, <1>6, <1>8, Parts, BatchBounds, PromiseStep DEF Typed, Moved, Recorded, Steady
  <2> QED
    BY <1>4, <1>5, <1>8, <2>1, SnapKept, Composed
<1>9. CASE copies /\ snap' = [pic |-> Picture(st'), stamp |-> st.gen, batch |-> st'.ready,
                              mapped |-> mapped]
  <2>1. Picture(st') \in Pictures
    <3>1. st'.frame = "Idle" /\ Clean(st')
      BY <1>3, <1>4, <1>9, StoreFields DEF Publishable, Pending, Retained, Moved, Stands
    <3> QED
      BY <1>3, <3>1, PictureShown, PicturesTyped
  <2>2. snap' \in Snapshot /\ snap'.batch = st'.ready /\ snap'.stamp = st.gen
    BY <1>7, <1>9, <2>1 DEF Snapshot
  <2>3. win'.presented <= snap'.stamp
    <3>1. win.presented <= snap.stamp /\ snap.stamp <= st.gen /\ snap.stamp \in Nat
          /\ win.presented \in Nat \cup {-1}
      BY Parts DEF Snapshot, Window
    <3> QED
      BY <1>6, <1>7, <2>2, <3>1 DEF Steady
  <2>4. Typed'
    BY <1>1, <1>4, <1>6, <1>7, <2>2, <2>3, Parts, BatchBounds, PromiseStep
       DEF Typed, Moved, Recorded, Steady
  <2>5. st'.update \/ rx'.todo = {}
    BY <1>1, <1>3, Parts DEF WritesInv
  <2>6. StampInv' /\ TokenMeansPixels'
    BY <1>4, <1>7, <1>9, <2>5, SnapTaken
  <2> QED
    BY <1>4, <1>5, <2>4, <2>6, Composed
<1> QED
  BY <1>2, <1>8, <1>9

-----------------------------------------------------------------------------
(* Initially.                                                              *)
LEMMA InitHolds == Init => PInv
<1> SUFFICES ASSUME Init PROVE PInv
  OBVIOUS
<1>1. /\ Unpainted \in Pixels /\ Blank \in Pictures
      /\ MaxWrites \in Nat /\ MAX_CONSECUTIVE_PRESENT_FAILURES \in Nat \ {0}
      /\ 0 \in Canvases /\ Work \subseteq Budget
  BY PicturesTyped, PresentationAssumption DEF Budget
<1>2. [i \in Ids |-> NoSurface] \in [Ids -> Surface]
  BY FreshSurfaces
<1>3. st \in Store
  BY <1>1, <1>2 DEF Init, Store, Mapping
<1>4. rx \in Copier /\ win \in Window /\ snap \in Snapshot /\ left \in Budget
  BY <1>1 DEF Init, Copier, Window, Snapshot
<1>5. Typed
  <2>1. desktop \in BOOLEAN /\ promise \in Pixels /\ gate \in [claimed : BOOLEAN, queued : BOOLEAN]
    BY <1>1 DEF Init
  <2>2. /\ st.ready = 0 /\ st.batch = 0 /\ rx.last = 0 /\ st.gen = 0 /\ snap.batch = 0
        /\ snap.stamp = 0 /\ win.presented = -1 /\ win.failures = 0
    BY DEF Init
  <2> QED
    BY <1>1, <1>3, <1>4, <2>1, <2>2 DEF Typed
<1>6. WritesInv
  <2>1. left.writes \in 0..MaxWrites
    BY <1>4 DEF Budget
  <2>2. Spent >= 0
    BY <1>1, <2>1 DEF Spent
  <2>3. ASSUME NEW i \in Ids, NEW b \in Blocks PROVE st.surfaces[i].pix[b] = 0
    BY DEF Init, NoSurface, Unpainted
  <2>4. rx.todo = {}
    BY DEF Init
  <2> QED
    BY <2>2, <2>3, <2>4 DEF WritesInv
<1>7. /\ st.output = NoOutput /\ st.fallback = Blank /\ ~st.suppressed /\ st.wait = "none"
      /\ st.pending = {} /\ st.ready = 0 /\ ~desktop /\ snap.pic = Blank
  BY DEF Init
<1>8. Clean(st) /\ Quiet(st) /\ StampInv /\ DesktopInv /\ PromiseInv /\ TokenMeansPixels
  BY <1>7 DEF Clean, Quiet, StampInv, Shown, Mapped, DesktopInv, PromiseInv, TokenMeansPixels
<1> QED
  BY <1>5, <1>6, <1>8 DEF PInv

(* Every step.                                                             *)
LEMMA StepHolds == PInv /\ [Next]_vars => PInv'
<1> SUFFICES ASSUME PInv, [Next]_vars PROVE PInv'
  OBVIOUS
<1>1. CASE UNCHANGED vars
  BY <1>1 DEF vars, PInv, Typed, WritesInv, Spent, StampInv, DesktopInv, PromiseInv,
              TokenMeansPixels
<1>2. CASE ServerStep
  <2>1. left.ids \subseteq Ids
    BY Parts DEF Budget
  <2>2. ASSUME NEW i \in left.ids,
               \/ SurfaceCreated(i) \/ SurfaceDeleted(i)
               \/ \E origin \in left.origins : SurfaceMapped(i, origin)
        PROVE  PInv'
    BY <2>1, <2>2, HandoffActions
  <2>3. ASSUME NEW i \in left.ids, NEW B \in Regions, Paint(i, B) PROVE PInv'
    BY <2>1, <2>3, PaintAction
  <2>4. ASSUME NEW i \in left.ids, NEW luma \in Regions \cup {{}}, NEW chroma \in Regions \cup {{}},
               NEW overflow \in BOOLEAN, Avc444Regions(i, luma, chroma, overflow)
        PROVE  PInv'
    BY <2>1, <2>4, RegionsAction
  <2>5. ASSUME NEW canvas \in Canvases \ {0}, GraphicsReset(canvas) PROVE PInv'
    BY <2>5, ResetAction
  <2> QED
    BY <1>2, <2>2, <2>3, <2>4, <2>5, FrameActions DEF ServerStep
<1>3. CASE SessionStep
  BY <1>3, BlitAction, CompleteAction, NotifyAction DEF SessionStep
<1>4. CASE WindowStep
  BY <1>4, EventActions, DistractedActions, RedrawAction, PresentAction DEF WindowStep
<1>5. CASE Environment
  BY <1>5, DistractedActions, RevealAction DEF Environment
<1>6. CASE LumaDue \/ CadenceDue
  BY <1>6, LumaAction, EventActions
<1> QED
  BY <1>1, <1>2, <1>3, <1>4, <1>5, <1>6 DEF Next

(* The invariant implies the property.                                     *)
LEMMA MeansPresent == PInv => PresentInv
<1> SUFFICES ASSUME PInv PROVE PresentInv
  OBVIOUS
<1>1. TypeOK
  <2>1. /\ st \in Store /\ rx \in Copier /\ win \in Window /\ snap \in Snapshot
        /\ gate \in [claimed : BOOLEAN, queued : BOOLEAN] /\ st.ready <= st.batch
        /\ rx.last <= st.gen /\ snap.batch <= st.batch /\ snap.stamp <= st.gen
        /\ win.presented <= snap.stamp
    BY Parts
  <2>2. /\ \A i \in Ids : st.surfaces[i] \in Surface
        /\ st.output \in [id : Ids \cup {0}, origin : Origins \cup {0}]
        /\ st.stale \in BOOLEAN /\ st.canvas \in Canvases /\ st.fallback \in Pictures
        /\ st.suppressed \in BOOLEAN /\ st.frame \in {"Idle", "Active", "Aborted"}
        /\ st.dirty \in BOOLEAN /\ st.update \in BOOLEAN
        /\ st.wait \in {"none", "running", "due"} /\ st.pending \subseteq Blocks
        /\ st.batch \in Nat /\ st.ready \in Nat /\ st.gen \in Nat
    BY <2>1, StoreFields DEF Mapping, NoOutput
  <2>3. /\ rx.id \in Ids \cup {0} /\ rx.todo \subseteq Blocks /\ rx.n \in 0..MaxWrites
        /\ rx.last \in Nat
    BY <2>1 DEF Copier
  <2>4. /\ win.at \in {"idle", "damaged", "present", "failed"}
        /\ win.presented \in Nat \cup {-1}
        /\ win.failures \in 0..MAX_CONSECUTIVE_PRESENT_FAILURES
    BY <2>1 DEF Window
  <2>5. snap.pic \in Pictures /\ snap.stamp \in Nat /\ snap.batch \in Nat
    BY <2>1 DEF Snapshot
  <2>6. /\ st.ready \in 0..st.batch /\ rx.last \in 0..st.gen /\ win.presented \in -1..st.gen
        /\ snap.stamp \in 0..st.gen /\ snap.batch \in 0..st.batch
    BY <2>1, <2>2, <2>3, <2>4, <2>5
  <2> QED
    BY <2>1, <2>2, <2>3, <2>4, <2>5, <2>6 DEF TypeOK, Surface
<1>2. ASSUME Publishable(st) PROVE Settled(st) /\ Picture(st) = Shown(st)
  <2>1. st.frame = "Idle" /\ ~st.suppressed
    BY <1>2, Parts, StoreFields DEF Publishable, Pending, Retained
  <2> QED
    BY <2>1, Parts, PictureShown DEF Settled
<1>3. StampIsPicture /\ HandoffKeepsDesktop
  BY <1>2, Parts DEF StampIsPicture, HandoffKeepsDesktop, StampInv, DesktopInv
<1>4. TokenMeansPixels /\ WaitHasLuma
  BY Parts DEF WaitHasLuma, Quiet
<1> QED
  BY <1>1, <1>3, <1>4 DEF PresentInv

(* For any surfaces, paints and budgets: the stamp names the picture, the  *)
(* token stands for its pixels, a handoff never goes blank, and the luma   *)
(* wait has luma.                                                          *)
THEOREM PresentInvariant == Spec => []PresentInv
<1>1. Spec => []PInv
  BY InitHolds, StepHolds, PTL DEF Spec
<1> QED
  BY <1>1, MeansPresent, PTL

(* While luma waits for its chroma and no deadline passed, no redraw       *)
(* changes the screen.                                                     *)
THEOREM LumaIsHeld == Spec => LumaHeld
<1>1. ASSUME PInv, [Next]_vars
      PROVE  [(Redraw /\ st'.pending # {} /\ st'.ready = 0) => snap'.pic = snap.pic]_vars
  <2> SUFFICES ASSUME Redraw, st'.pending # {}, st'.ready = 0 PROVE snap'.pic = snap.pic
    OBVIOUS
  <2>1. st' = Settle(st)
    BY DEF Redraw
  <2>2. st' = st /\ st.wait = "running"
    BY <1>1, <2>1, Parts, SettleFields, StoreFields DEF Quiet
  <2>3. Waits(st')
    BY <2>2 DEF Waits
  <2>4. CASE win.presented # st.gen
    BY <2>3, <2>4 DEF Redraw
  <2>5. CASE win.presented = st.gen
    <3>1. snap.stamp = st.gen
      <4>1. st.gen \in Nat /\ snap.stamp \in Nat /\ win.presented <= snap.stamp
            /\ snap.stamp <= st.gen
        BY <1>1, Parts, StoreFields DEF Snapshot
      <4> QED
        BY <2>5, <4>1
    <3>2. snap' = snap \/ (Publishable(st') /\ snap'.pic = Picture(st'))
      BY DEF Redraw
    <3>3. Publishable(st) => snap.pic = Picture(st)
      BY <1>1, <3>1, MeansPresent DEF PresentInv, StampIsPicture
    <3> QED
      BY <2>2, <3>2, <3>3
  <2> QED
    BY <2>4, <2>5
<1>2. Spec => []PInv
  BY InitHolds, StepHolds, PTL DEF Spec
<1> QED
  BY <1>1, <1>2, PTL DEF Spec, LumaHeld
===============================================================================

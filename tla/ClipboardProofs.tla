----------------------------- MODULE ClipboardProofs -----------------------------
(***************************************************************************)
(* Theorems about the two ways in which the clipboard of a session is      *)
(* shared: the auxiliary channel of a native session, and the clipboard    *)
(* channel of an RDP session.  The two modules share no name; each theorem *)
(* speaks of one of them.                                                  *)
(*                                                                         *)
(* AuxChannel.  That no text echoes is a bound on what was sent, and not   *)
(* inductive: it says nothing of a text that is about to be sent.  The     *)
(* invariant here adds what an end may still send when its user copies     *)
(* nothing more: the debt of an end.  A poll that sends pays one unit of   *)
(* it, a copy, a refused read-back and a slip raise it by no more than     *)
(* they allow, and writing and noting a remote text raise it by nothing.   *)
(*                                                                         *)
(* RdpClipboard.  Answers carry no number, so the proof counts: how many   *)
(* messages of a kind are in a queue, and what sending and taking one do   *)
(* to that number.  What the bridge awaits passes from the command queue   *)
(* to the worker and from there to the result queue, each of one slot;     *)
(* no step overwrites a slot that is taken.                                *)
(***************************************************************************)
EXTENDS AuxChannel, RdpClipboard, SequenceTheorems, FiniteSetTheorems, TLAPS

-----------------------------------------------------------------------------
(* The invariant.                                                          *)

\* TypeOK by what its parts speak of: the clipboards; the threads, whose polls read texts, the
\* host's having been seeded at the start; the numbers of texts; the wire, which carries such
\* numbers, or 0 for audio.
OsTyped == os \in [Ends -> Held] /\ seen \in [Ends -> Held]
ThreadsTyped ==
  /\ poll \in [Ends -> PollState] /\ apply \in [Ends -> ApplyState]
  /\ \A e \in Ends : poll[e].pc = "read" => poll[e].text \in Texts
  /\ poll["host"].pc \in {"idle", "read"}
  /\ \A e \in Ends : poll[e].pc \in {"seed", "seeded"} => apply[e].pc = "idle"
LogTyped ==
  /\ log \in [Ends -> Seq(Texts \ TooLarge)]
  /\ box \in [Ends -> Nat] /\ received \in [Ends -> Nat] /\ deferred \in Nat
  /\ deferred <= Len(log["host"])
  /\ \A e \in Ends : box[e] <= Len(log[e]) /\ received[e] <= Len(log[e])
SocketTyped ==
  /\ wire \in [Ends -> Seq(Nat)]
  /\ \A e \in Ends : \A i \in 1 .. Len(wire[e]) : wire[e][i] <= Len(log[e])
  /\ \A e \in Ends : Len(wire[e]) <= WireCap
  /\ audio \in 0 .. AudioFifo /\ run \in 0 .. Burst
FlagsTyped == closed \in BOOLEAN /\ sock \in BOOLEAN
CountsTyped ==
  /\ copied \subseteq Ends /\ copies \in 0 .. MaxCopies
  /\ slips \in 0 .. MaxSlips /\ fails \in 0 .. MaxFails

TInv == OsTyped /\ ThreadsTyped /\ LogTyped /\ SocketTyped /\ FlagsTyped /\ CountsTyped

Differs(t, u) == IF t # u THEN 1 ELSE 0

\* The clipboard of e holds a text the next poll would not recognise as t.
Unlike(e, t) == IF os[e] \in {NonText, t} THEN 0 ELSE 1

\* Messages end e may still send for what has happened to it so far.  Between the write of a
\* remote text and its note the clipboard's content counts as seen; a poll that has read
\* before that, and so straddles the two, may send twice.
Unsent(e) ==
  IF ~Seeded(e)
  THEN IF poll[e].pc = "seeded" THEN Unlike(e, poll[e].text) ELSE 0
  ELSE IF apply[e].pc = "readback"
  THEN IF poll[e].pc = "read" THEN 2 ELSE 0
  ELSE IF poll[e].pc = "read"
  THEN Differs(poll[e].text, seen[e]) + Unlike(e, poll[e].text)
  ELSE Unlike(e, seen[e])

Debt(e) == Len(log[e]) + Unsent(e)
Budget == copies + fails + 2 * slips

NoEcho == Debt("client") + Debt("host") <= Budget

\* What is under way from an end, the socket and then the outbox, is in the order of its
\* numbers and newer than what the peer has read.
InOrder(e) ==
  /\ \A i \in 1 .. Len(wire[e]) : wire[e][i] # 0 => wire[e][i] > received[e]
  /\ \A i, j \in 1 .. Len(wire[e]) :
       i < j /\ wire[e][i] # 0 /\ wire[e][j] # 0 => wire[e][i] < wire[e][j]
  /\ box[e] # 0 => /\ box[e] > received[e]
                   /\ \A i \in 1 .. Len(wire[e]) : wire[e][i] < box[e]

OrderInv == \A e \in Ends : InOrder(e)

-----------------------------------------------------------------------------
(* Type correctness.                                                       *)

LEMMA Bounds ==
  /\ AudioFifo \in Nat /\ AudioFifo > 0 /\ Burst \in Nat /\ Burst > 0
  /\ WireCap \in Nat /\ MaxCopies \in Nat /\ MaxSlips \in Nat /\ MaxFails \in Nat
BY AuxAssumption

LEMMA TextFacts ==
  /\ Texts \subseteq Held /\ NonText \in Held /\ NonText \notin Texts
  /\ Rough \in Texts /\ Smooth \in Texts /\ Start \subseteq Held
BY AuxAssumption DEF Held

\* A clipboard stores a text as a text.
LEMMA StoredTyped ==
  ASSUME NEW e \in Ends, NEW t
  PROVE  /\ t \in Texts => Stored(e, t) \in Texts
         /\ t \in Held => Stored(e, t) \in Held
<1>1. Stored(e, t) \in {Smooth, Rough, t}
  BY DEF Stored, Ends
<1> QED BY <1>1, TextFacts

LEMMA AppendOf ==
  ASSUME NEW S, NEW s \in Seq(S), NEW x \in S
  PROVE  /\ Append(s, x) \in Seq(S) /\ Len(Append(s, x)) = Len(s) + 1
         /\ \A i \in 1 .. Len(s) : Append(s, x)[i] = s[i]
         /\ Append(s, x)[Len(s) + 1] = x
  OBVIOUS

LEMMA TailOf ==
  ASSUME NEW S, NEW s \in Seq(S), s # <<>>
  PROVE  /\ Tail(s) \in Seq(S) /\ Len(Tail(s)) = Len(s) - 1 /\ Len(s) > 0
         /\ \A i \in 1 .. Len(s) - 1 : Tail(s)[i] = s[i + 1]
         /\ Head(s) = s[1] /\ Head(s) \in S
  OBVIOUS

LEMMA TInvTypes == TInv => TypeOK
<1> SUFFICES ASSUME TInv PROVE TypeOK
  OBVIOUS
<1>1. OsTyped /\ ThreadsTyped /\ LogTyped /\ SocketTyped /\ FlagsTyped /\ CountsTyped
  BY DEF TInv
<1>2. \A e \in Ends : Len(log[e]) \in Nat
  BY <1>1, LenProperties DEF LogTyped
<1>3. "host" \in Ends
  BY DEF Ends
<1>4. /\ \A e \in Ends : box[e] \in 0 .. Len(log[e]) /\ received[e] \in 0 .. Len(log[e])
      /\ deferred \in 0 .. Len(log["host"])
  BY <1>1, <1>2, <1>3 DEF LogTyped
<1> QED BY <1>1, <1>4
       DEF OsTyped, ThreadsTyped, LogTyped, SocketTyped, FlagsTyped, CountsTyped, TypeOK

LEMMA InitTyped == Init => TInv
<1> SUFFICES ASSUME Init PROVE TInv
  OBVIOUS
<1> USE Bounds, TextFacts DEF Init
<1>1. os \in [Ends -> Held] /\ seen \in [Ends -> Held]
  BY DEF Ends
<1>2. poll \in [Ends -> PollState] /\ apply \in [Ends -> ApplyState]
  BY DEF At, PollState, ApplyState
<1>3. log \in [Ends -> Seq(Texts \ TooLarge)] /\ wire \in [Ends -> Seq(Nat)]
  OBVIOUS
<1>4. \A e \in Ends : Len(log[e]) = 0 /\ Len(wire[e]) = 0 /\ box[e] = 0 /\ received[e] = 0
  OBVIOUS
<1>5. "host" \in Ends /\ "client" \in Ends
  BY DEF Ends
<1>6. OsTyped
  BY <1>1 DEF OsTyped
<1>7. ThreadsTyped
  <2>1. \A e \in Ends : poll[e].pc # "read"
    BY DEF At
  <2>2. poll["host"].pc = "idle" /\ \A e \in Ends : apply[e].pc = "idle"
    BY <1>5 DEF At
  <2> QED BY <1>2, <2>1, <2>2 DEF ThreadsTyped
<1>8. LogTyped
  BY <1>3, <1>4, <1>5 DEF LogTyped
<1>9. SocketTyped
  BY <1>3, <1>4 DEF SocketTyped
<1>10. FlagsTyped
  BY DEF FlagsTyped
<1>11. CountsTyped
  BY DEF CountsTyped
<1> QED BY <1>6, <1>7, <1>8, <1>9, <1>10, <1>11 DEF TInv

\* What a part depends on; each holds again when none of it changes.
LEMMA Kept ==
  /\ OsTyped /\ UNCHANGED <<os, seen>> => OsTyped'
  /\ ThreadsTyped /\ UNCHANGED <<poll, apply>> => ThreadsTyped'
  /\ LogTyped /\ UNCHANGED <<log, box, received, deferred>> => LogTyped'
  /\ SocketTyped /\ UNCHANGED <<wire, log, audio, run>> => SocketTyped'
  /\ FlagsTyped /\ UNCHANGED <<closed, sock>> => FlagsTyped'
  /\ CountsTyped /\ UNCHANGED <<copied, copies, slips, fails>> => CountsTyped'
BY DEF OsTyped, ThreadsTyped, LogTyped, SocketTyped, FlagsTyped, CountsTyped

LEMMA CountsSteps ==
  ASSUME CountsTyped
  PROVE  /\ \A e \in Ends : /\ copies < MaxCopies /\ copies' = copies + 1
                            /\ copied' = copied \cup {e} /\ UNCHANGED <<slips, fails>>
                            => CountsTyped'
         /\ slips < MaxSlips /\ slips' = slips + 1 /\ UNCHANGED <<copied, copies, fails>>
              => CountsTyped'
         /\ fails < MaxFails /\ fails' = fails + 1 /\ UNCHANGED <<copied, copies, slips>>
              => CountsTyped'
BY Bounds DEF CountsTyped

LEMMA StraddleStep ==
  ASSUME CountsTyped, NEW b, Straddles(b), UNCHANGED <<copied, copies, fails>>
  PROVE  CountsTyped'
<1>1. (slips < MaxSlips /\ slips' = slips + 1) \/ UNCHANGED slips
  BY DEF Straddles
<1> QED BY <1>1, CountsSteps, Kept

\* A thread's state is replaced, or only its stage.
LEMMA ThreadSteps ==
  ASSUME ThreadsTyped, NEW e \in Ends
  PROVE  /\ At("idle") \in PollState /\ At("drain") \in PollState /\ At("idle") \in ApplyState
         /\ \A t \in Held : /\ [pc |-> "read", text |-> t] \in PollState
                            /\ [pc |-> "seeded", text |-> t] \in PollState
                            /\ [pc |-> "write", text |-> t] \in ApplyState
         /\ [apply[e] EXCEPT !.pc = "readback"] \in ApplyState
         /\ At("idle").pc = "idle" /\ At("drain").pc = "drain"
BY TextFacts DEF ThreadsTyped, PollState, ApplyState, At

LEMMA PollStep ==
  ASSUME ThreadsTyped, NEW e \in Ends, NEW p \in PollState, p.pc = "read" => p.text \in Texts,
         e = "host" => p.pc \in {"idle", "read"},
         p.pc \in {"seed", "seeded"} => apply[e].pc = "idle",
         poll' = [poll EXCEPT ![e] = p], UNCHANGED apply
  PROVE  ThreadsTyped'
BY DEF ThreadsTyped

LEMMA ApplyStep ==
  ASSUME ThreadsTyped, NEW e \in Ends, NEW a \in ApplyState, a.pc = "idle" \/ Seeded(e),
         apply' = [apply EXCEPT ![e] = a], UNCHANGED poll
  PROVE  ThreadsTyped'
BY DEF ThreadsTyped, Seeded

LEMMA AfterApplyStep ==
  ASSUME ThreadsTyped, NEW e \in Ends, AfterApply(e)
  PROVE  ThreadsTyped'
<1>1. At("idle") \in PollState /\ At("idle") \in ApplyState /\ At("idle").pc = "idle"
  BY ThreadSteps
<1>2. apply' \in [Ends -> ApplyState]
  BY <1>1 DEF AfterApply, ThreadsTyped
<1>3. poll' \in [Ends -> PollState]
  BY <1>1 DEF AfterApply, ThreadsTyped
<1>4. \A d \in Ends : poll'[d] = poll[d] \/ poll'[d] = At("idle")
  BY DEF AfterApply, ThreadsTyped
<1>5. "host" \in Ends
  BY DEF Ends
<1>6. \A d \in Ends : apply'[d] = apply[d] \/ apply'[d] = At("idle")
  BY DEF AfterApply, ThreadsTyped
<1> QED BY <1>1, <1>2, <1>3, <1>4, <1>5, <1>6 DEF ThreadsTyped

LEMMA OsStep ==
  ASSUME OsTyped, NEW e \in Ends, NEW t \in Held
  PROVE  /\ os' = [os EXCEPT ![e] = t] /\ UNCHANGED seen => OsTyped'
         /\ seen' = [seen EXCEPT ![e] = t] /\ UNCHANGED os => OsTyped'
BY DEF OsTyped

LEMMA SocketGrows ==
  ASSUME LogTyped, SocketTyped, NEW e \in Ends, NEW n \in Nat, n <= Len(log[e]),
         Len(wire[e]) < WireCap, wire' = [wire EXCEPT ![e] = Append(@, n)],
         UNCHANGED log, audio' \in 0 .. AudioFifo, run' \in 0 .. Burst
  PROVE  SocketTyped'
<1>1. \A d \in Ends : wire[d] \in Seq(Nat) /\ Len(wire[d]) \in Nat /\ Len(log[d]) \in Nat
  BY LenProperties DEF SocketTyped, LogTyped
<1>2. /\ Append(wire[e], n) \in Seq(Nat) /\ Len(Append(wire[e], n)) = Len(wire[e]) + 1
      /\ \A i \in 1 .. Len(wire[e]) : Append(wire[e], n)[i] = wire[e][i]
      /\ Append(wire[e], n)[Len(wire[e]) + 1] = n
  BY <1>1, AppendOf
<1>3. wire'[e] = Append(wire[e], n) /\ \A d \in Ends \ {e} : wire'[d] = wire[d]
  BY DEF SocketTyped
<1>4. wire' \in [Ends -> Seq(Nat)]
  BY <1>2 DEF SocketTyped
<1>5. \A i \in 1 .. Len(wire'[e]) : wire'[e][i] <= Len(log[e])
  <2> SUFFICES ASSUME NEW i \in 1 .. Len(wire'[e]) PROVE wire'[e][i] <= Len(log[e])
    OBVIOUS
  <2>1. i \in 1 .. Len(wire[e]) \/ i = Len(wire[e]) + 1
    BY <1>1, <1>2, <1>3
  <2> QED BY <2>1, <1>2, <1>3 DEF SocketTyped
<1>6. Len(wire'[e]) <= WireCap
  BY <1>1, <1>2, <1>3, Bounds
<1> QED BY <1>3, <1>4, <1>5, <1>6 DEF SocketTyped

LEMMA SocketShrinks ==
  ASSUME LogTyped, SocketTyped, NEW e \in Ends, wire[e] # <<>>,
         wire' = [wire EXCEPT ![e] = Tail(@)], UNCHANGED <<log, audio, run>>
  PROVE  SocketTyped'
<1>1. \A d \in Ends : wire[d] \in Seq(Nat) /\ Len(wire[d]) \in Nat
  BY LenProperties DEF SocketTyped
<1>2. /\ Tail(wire[e]) \in Seq(Nat) /\ Len(Tail(wire[e])) = Len(wire[e]) - 1
      /\ \A i \in 1 .. Len(wire[e]) - 1 : Tail(wire[e])[i] = wire[e][i + 1]
  BY <1>1, TailOf
<1>3. wire'[e] = Tail(wire[e]) /\ \A d \in Ends \ {e} : wire'[d] = wire[d]
  BY DEF SocketTyped
<1>4. wire' \in [Ends -> Seq(Nat)]
  BY <1>2 DEF SocketTyped
<1>5. \A i \in 1 .. Len(wire'[e]) : wire'[e][i] <= Len(log[e])
  <2> SUFFICES ASSUME NEW i \in 1 .. Len(wire'[e]) PROVE wire'[e][i] <= Len(log[e])
    OBVIOUS
  <2>1. Len(wire'[e]) = Len(wire[e]) - 1 /\ Len(wire[e]) \in Nat
    BY <1>1, <1>2, <1>3
  <2>2. i \in 1 .. Len(wire[e]) - 1 /\ i + 1 \in 1 .. Len(wire[e])
    BY <2>1
  <2>3. wire'[e][i] = wire[e][i + 1]
    BY <1>2, <1>3, <2>2
  <2> QED BY <2>2, <2>3 DEF SocketTyped
<1>6. Len(wire'[e]) <= WireCap
  BY <1>1, <1>2, <1>3, Bounds DEF SocketTyped
<1> QED BY <1>3, <1>4, <1>5, <1>6 DEF SocketTyped

\* A text put into the outbox: the log grows, and nothing numbered grows past it.
LEMMA PutStep ==
  ASSUME LogTyped, SocketTyped, NEW e \in Ends, NEW t \in Texts \ TooLarge, Put(e, t),
         UNCHANGED <<received, deferred, wire, audio, run>>
  PROVE  LogTyped' /\ SocketTyped'
<1>1. \A d \in Ends : wire[d] \in Seq(Nat) /\ Len(log[d]) \in Nat /\ Len(wire[d]) \in Nat
  BY LenProperties DEF SocketTyped, LogTyped
<1>2. /\ Append(log[e], t) \in Seq(Texts \ TooLarge)
      /\ Len(Append(log[e], t)) = Len(log[e]) + 1
  BY AppendOf DEF LogTyped
<1>3. log' \in [Ends -> Seq(Texts \ TooLarge)] /\ box' \in [Ends -> Nat]
  BY <1>1, <1>2 DEF LogTyped, Put
<1>4. log'[e] = Append(log[e], t) /\ box'[e] = Len(log[e]) + 1
  BY DEF Put, LogTyped
<1>5. \A d \in Ends \ {e} : box'[d] = box[d] /\ log'[d] = log[d]
  BY DEF Put, LogTyped
<1>6. \A d \in Ends : Len(log[d]) <= Len(log'[d]) /\ Len(log'[d]) \in Nat
  BY <1>1, <1>2, <1>4, <1>5
<1>7. \A d \in Ends : box'[d] <= Len(log'[d])
  <2> TAKE d \in Ends
  <2>1. CASE d = e
    BY <2>1, <1>1, <1>2, <1>4
  <2>2. CASE d # e
    BY <2>2, <1>5 DEF LogTyped
  <2> QED BY <2>1, <2>2
<1>8. \A d \in Ends : received[d] <= Len(log'[d])
  <2> TAKE d \in Ends
  <2>1. received[d] \in Nat /\ received[d] <= Len(log[d])
    BY DEF LogTyped
  <2> QED BY <1>1, <1>6, <2>1
<1>9. deferred <= Len(log'["host"])
  <2>1. "host" \in Ends /\ deferred \in Nat /\ deferred <= Len(log["host"])
    BY DEF LogTyped, Ends
  <2> QED BY <1>1, <1>6, <2>1
<1>10. LogTyped'
  BY <1>3, <1>7, <1>8, <1>9 DEF LogTyped
<1>11. \A d \in Ends : \A i \in 1 .. Len(wire[d]) : wire[d][i] <= Len(log'[d])
  <2> TAKE d \in Ends
  <2> TAKE i \in 1 .. Len(wire[d])
  <2>1. wire[d][i] <= Len(log[d]) /\ wire[d][i] \in Nat
    BY <1>1 DEF SocketTyped
  <2> QED BY <1>1, <1>6, <2>1
<1> QED BY <1>10, <1>11 DEF SocketTyped

\* A refused or accepted read-back and a write leave texts in the clipboard and in seen.
LEMMA NotedTyped ==
  ASSUME OsTyped, NEW e \in Ends, NEW t \in Held
  PROVE  Noted(e, t) \in Held
BY DEF OsTyped, Noted

LEMMA TypeStep == TInv /\ [Next]_vars => TInv'
<1> SUFFICES ASSUME TInv, [Next]_vars PROVE TInv'
  OBVIOUS
<1>0. OsTyped /\ ThreadsTyped /\ LogTyped /\ SocketTyped /\ FlagsTyped /\ CountsTyped
  BY DEF TInv
<1>h. "host" \in Ends /\ "client" \in Ends
  BY DEF Ends
<1>p. \A e \in Ends : poll[e] \in PollState /\ apply[e] \in ApplyState
  BY <1>0 DEF ThreadsTyped
<1>q. \A e \in Ends : poll[e].text \in Held /\ apply[e].text \in Held
  BY <1>p DEF PollState, ApplyState
<1> SUFFICES /\ OsTyped' /\ ThreadsTyped' /\ LogTyped'
             /\ SocketTyped' /\ FlagsTyped' /\ CountsTyped'
  BY DEF TInv
<1>1. ASSUME NEW e \in Ends, NEW t \in Texts, UserCopies(e, t)
      PROVE  /\ OsTyped' /\ ThreadsTyped' /\ LogTyped'
             /\ SocketTyped' /\ FlagsTyped' /\ CountsTyped'
  <2>1. Stored(e, t) \in Held
    BY StoredTyped, TextFacts
  <2>2. OsTyped'
    BY <1>0, <1>1, <2>1, OsStep DEF UserCopies
  <2>3. CountsTyped'
    BY <1>0, <1>1, CountsSteps DEF UserCopies
  <2> QED BY <1>0, <1>1, <2>2, <2>3, Kept DEF UserCopies
<1>2. ASSUME NEW e \in Ends, PollReads(e)
      PROVE  /\ OsTyped' /\ ThreadsTyped' /\ LogTyped'
             /\ SocketTyped' /\ FlagsTyped' /\ CountsTyped'
  <2>1. os[e] \in Texts /\ os[e] \in Held
    BY <1>0, <1>2 DEF PollReads, OsTyped, Held
  <2>2. [pc |-> "read", text |-> os[e]] \in PollState
    BY <1>0, <2>1, ThreadSteps
  <2>3. ThreadsTyped'
    BY <1>0, <1>2, <2>1, <2>2, PollStep DEF PollReads
  <2>4. CountsTyped'
    BY <1>0, <1>2, StraddleStep DEF PollReads, osVars
  <2> QED BY <1>0, <1>2, <2>3, <2>4, Kept DEF PollReads, osVars
<1>3. ASSUME NEW e \in Ends, PollDecides(e)
      PROVE  /\ OsTyped' /\ ThreadsTyped' /\ LogTyped'
             /\ SocketTyped' /\ FlagsTyped' /\ CountsTyped'
  <2>1. poll[e].text \in Texts
    BY <1>0, <1>3 DEF PollDecides, ThreadsTyped
  <2>2. At("idle") \in PollState /\ At("idle").pc = "idle"
    BY <1>0, ThreadSteps
  <2>3. ThreadsTyped'
    BY <1>0, <1>3, <2>2, PollStep DEF PollDecides
  <2>4. OsTyped'
    BY <1>0, <1>3, <1>q, OsStep DEF PollDecides
  <2>5. \/ poll[e].text \in Texts \ TooLarge /\ Put(e, poll[e].text)
        \/ UNCHANGED <<log, box>>
    BY <1>3, <2>1 DEF PollDecides
  <2>6. UNCHANGED <<received, deferred, wire, audio, run, closed, sock, copied, copies, slips,
                    fails>>
    BY <1>3 DEF PollDecides, osVars
  <2>7. LogTyped' /\ SocketTyped'
    <3>1. CASE poll[e].text \in Texts \ TooLarge /\ Put(e, poll[e].text)
      BY <3>1, <1>0, <2>6, PutStep
    <3>2. CASE UNCHANGED <<log, box>>
      BY <3>2, <1>0, <2>6, Kept
    <3> QED BY <2>5, <3>1, <3>2
  <2> QED BY <1>0, <2>3, <2>4, <2>6, <2>7, Kept
<1>4. ASSUME NEW e \in Ends, WriteText(e)
      PROVE  /\ OsTyped' /\ ThreadsTyped' /\ LogTyped'
             /\ SocketTyped' /\ FlagsTyped' /\ CountsTyped'
  <2>1. box[e] \in Nat /\ box[e] <= Len(log[e])
    BY <1>0 DEF LogTyped
  <2>2. run' \in 0 .. Burst /\ audio' \in 0 .. AudioFifo
    BY <1>0, <1>4, Bounds DEF WriteText, SocketTyped
  <2>3. SocketTyped'
    BY <1>0, <1>4, <2>1, <2>2, SocketGrows DEF WriteText
  <2>4. LogTyped'
    <3>1. \A d \in Ends : Len(log[d]) \in Nat
      BY <1>0, LenProperties DEF LogTyped
    <3>2. \A d \in Ends : box'[d] = 0 \/ box'[d] = box[d]
      BY <1>0, <1>4 DEF WriteText, LogTyped
    <3>3. box' \in [Ends -> Nat]
      BY <1>0, <1>4 DEF WriteText, LogTyped
    <3> QED BY <1>0, <1>4, <3>1, <3>2, <3>3 DEF WriteText, LogTyped
  <2> QED BY <1>0, <1>4, <2>3, <2>4, Kept DEF WriteText, osVars
<1>5. ASSUME NEW e \in Ends, Receive(e)
      PROVE  /\ OsTyped' /\ ThreadsTyped' /\ LogTyped'
             /\ SocketTyped' /\ FlagsTyped' /\ CountsTyped'
  <2> DEFINE p == Peer(e)
  <2> DEFINE n == Head(wire[p])
  <2>1. p \in Ends /\ wire[p] # <<>> /\ wire[p] \in Seq(Nat)
    BY <1>0, <1>5 DEF Receive, Peer, Ends, SocketTyped
  <2>2. n \in Nat /\ n = wire[p][1] /\ 1 \in 1 .. Len(wire[p])
    BY <2>1, TailOf, LenProperties
  <2>3. n <= Len(log[p])
    BY <1>0, <2>1, <2>2 DEF SocketTyped
  <2>4. SocketTyped'
    BY <1>0, <1>5, <2>1, SocketShrinks DEF Receive
  <2>5. Seeded("host")
    BY <1>0 DEF ThreadsTyped, Seeded
  <2>6. deferred' = deferred \/ (p = "host" /\ deferred' = n)
    <3>1. deferred' = deferred \/ (~Seeded(e) /\ deferred' = n)
      BY <1>5 DEF Receive
    <3>2. e = "client" => p = "host"
      BY DEF Peer
    <3> QED BY <2>5, <3>1, <3>2 DEF Ends
  <2>7. deferred' \in Nat /\ deferred' <= Len(log["host"])
    BY <1>0, <2>2, <2>3, <2>6 DEF LogTyped
  <2>8. /\ received' \in [Ends -> Nat]
        /\ \A d \in Ends : received'[d] = received[d] \/ (d = p /\ received'[d] = n)
    BY <1>0, <1>5, <2>1, <2>2 DEF Receive, LogTyped
  <2>9. LogTyped'
    BY <1>0, <1>5, <2>3, <2>7, <2>8 DEF Receive, LogTyped
  <2>10. \/ UNCHANGED apply
         \/ n # 0 /\ Seeded(e) /\ apply' = [apply EXCEPT ![e] = [pc |-> "write", text |-> log[p][n]]]
    BY <1>5 DEF Receive
  <2>11. ThreadsTyped'
    <3>1. CASE UNCHANGED apply
      BY <3>1, <1>0, <1>5, Kept DEF Receive
    <3>2. CASE n # 0 /\ Seeded(e) /\ apply' = [apply EXCEPT ![e] = [pc |-> "write", text |-> log[p][n]]]
      <4>1. log[p] \in Seq(Texts \ TooLarge) /\ n \in 1 .. Len(log[p])
        BY <1>0, <2>1, <2>2, <2>3, <3>2, LenProperties DEF LogTyped
      <4>2. log[p][n] \in Held
        BY <4>1, TextFacts
      <4>3. [pc |-> "write", text |-> log[p][n]] \in ApplyState
        BY <1>0, <4>2, ThreadSteps
      <4> QED BY <1>0, <1>5, <3>2, <4>3, ApplyStep DEF Receive
    <3> QED BY <2>10, <3>1, <3>2
  <2> QED BY <1>0, <1>5, <2>4, <2>9, <2>11, Kept DEF Receive, osVars
<1>6. ASSUME NEW e \in Ends, ApplyWrites(e)
      PROVE  /\ OsTyped' /\ ThreadsTyped' /\ LogTyped'
             /\ SocketTyped' /\ FlagsTyped' /\ CountsTyped'
  <2>1. Stored(e, apply[e].text) \in Held
    BY <1>q, StoredTyped
  <2>2. OsTyped'
    BY <1>0, <1>6, <2>1, OsStep DEF ApplyWrites
  <2>3. apply' = [apply EXCEPT ![e] = [apply[e] EXCEPT !.pc = "readback"]]
    BY <1>0, <1>6 DEF ApplyWrites, ThreadsTyped
  <2>4. Seeded(e)
    BY <1>0, <1>6 DEF ApplyWrites, ThreadsTyped, Seeded
  <2>6. ThreadsTyped'
    BY <1>0, <1>6, <2>3, <2>4, ThreadSteps, ApplyStep DEF ApplyWrites
  <2>5. CountsTyped'
    BY <1>0, <1>6, StraddleStep DEF ApplyWrites, osVars
  <2> QED BY <1>0, <1>6, <2>2, <2>5, <2>6, Kept DEF ApplyWrites, osVars
<1>7. ASSUME NEW e \in Ends, ApplyFails(e)
      PROVE  /\ OsTyped' /\ ThreadsTyped' /\ LogTyped'
             /\ SocketTyped' /\ FlagsTyped' /\ CountsTyped'
  <2>1. ThreadsTyped'
    BY <1>0, <1>7, AfterApplyStep DEF ApplyFails
  <2>2. CountsTyped'
    BY <1>0, <1>7, CountsSteps DEF ApplyFails, osVars
  <2> QED BY <1>0, <1>7, <2>1, <2>2, Kept DEF ApplyFails, osVars
<1>8. ASSUME NEW e \in Ends, ApplyNotes(e)
      PROVE  /\ OsTyped' /\ ThreadsTyped' /\ LogTyped'
             /\ SocketTyped' /\ FlagsTyped' /\ CountsTyped'
  <2>1. ThreadsTyped'
    BY <1>0, <1>8, AfterApplyStep DEF ApplyNotes
  <2>2. \/ seen' = [seen EXCEPT ![e] = Noted(e, apply[e].text)] /\ UNCHANGED fails
        \/ /\ fails < MaxFails /\ fails' = fails + 1
           /\ seen' = [seen EXCEPT ![e] = apply[e].text]
    BY <1>8 DEF ApplyNotes
  <2>3. UNCHANGED <<os, deferred, log, box, audio, run, wire, received, closed, sock, copied,
                    copies, slips>>
    BY <1>8 DEF ApplyNotes, osVars
  <2>4. OsTyped' /\ CountsTyped'
    <3>1. Noted(e, apply[e].text) \in Held
      BY <1>0, <1>q, NotedTyped
    <3>2. CASE seen' = [seen EXCEPT ![e] = Noted(e, apply[e].text)] /\ UNCHANGED fails
      BY <3>1, <3>2, <1>0, <2>3, OsStep, Kept
    <3>3. CASE /\ fails < MaxFails /\ fails' = fails + 1
               /\ seen' = [seen EXCEPT ![e] = apply[e].text]
      BY <3>3, <1>0, <1>q, <2>3, OsStep, CountsSteps
    <3> QED BY <2>2, <3>2, <3>3
  <2> QED BY <1>0, <2>1, <2>3, <2>4, Kept
<1>9. CASE PutAudio
  <2>1. audio' \in 0 .. AudioFifo
    BY <1>0, <1>9, Bounds DEF PutAudio, Queued, SocketTyped
  <2>2. SocketTyped'
    BY <1>0, <1>9, <2>1 DEF PutAudio, SocketTyped
  <2> QED BY <1>0, <1>9, <2>2, Kept DEF PutAudio, osVars
<1>10. CASE WriteAudio
  <2>1. audio' \in 0 .. AudioFifo /\ run' \in 0 .. Burst
    BY <1>0, <1>10, Bounds DEF WriteAudio, AudioDue, SocketTyped
  <2>2. 0 \in Nat /\ 0 <= Len(log["host"])
    BY <1>0, <1>h, LenProperties DEF LogTyped
  <2>3. SocketTyped'
    BY <1>0, <1>h, <1>10, <2>1, <2>2, SocketGrows DEF WriteAudio
  <2> QED BY <1>0, <1>10, <2>3, Kept DEF WriteAudio, osVars
<1>11. CASE SeedReads
  <2>1. os["client"] \in Held
    BY <1>0, <1>h DEF OsTyped
  <2>2. [pc |-> "seeded", text |-> os["client"]] \in PollState
    BY <1>0, <1>h, <2>1, ThreadSteps
  <2>3. apply["client"].pc = "idle"
    BY <1>0, <1>h, <1>11 DEF SeedReads, ThreadsTyped
  <2>4. ThreadsTyped'
    BY <1>0, <1>h, <1>11, <2>2, <2>3, PollStep DEF SeedReads
  <2> QED BY <1>0, <1>11, <2>4, Kept DEF SeedReads, osVars
<1>12. CASE SeedDone
  <2> DEFINE drains == Drains(deferred, poll["client"].text)
  <2>1. OsTyped'
    BY <1>0, <1>h, <1>q, <1>12, OsStep DEF SeedDone
  <2>2. LogTyped'
    <3>1. Len(log["host"]) \in Nat
      BY <1>0, <1>h, LenProperties DEF LogTyped
    <3> QED BY <1>0, <1>12, <3>1 DEF SeedDone, LogTyped
  <2>3. At("idle") \in PollState /\ At("drain") \in PollState
    BY <1>0, <1>h, ThreadSteps
  <2>4. At("idle").pc = "idle" /\ At("drain").pc = "drain"
    BY DEF At
  <2>5. poll' \in [Ends -> PollState]
    BY <1>0, <1>h, <1>12, <2>3 DEF SeedDone, ThreadsTyped
  <2>6. poll'["client"].pc \in {"idle", "drain"} /\ poll'["host"] = poll["host"]
    BY <1>0, <1>h, <1>12, <2>4 DEF SeedDone, ThreadsTyped
  <2>7. drains => log["host"][deferred] \in Held
    <3>1. drains => deferred \in 1 .. Len(log["host"]) /\ log["host"] \in Seq(Texts \ TooLarge)
      BY <1>0, <1>h, LenProperties DEF LogTyped, Drains
    <3> QED BY <3>1, TextFacts
  <2>8. drains => [pc |-> "write", text |-> log["host"][deferred]] \in ApplyState
    BY <1>0, <1>h, <2>7, ThreadSteps
  <2>9. apply' \in [Ends -> ApplyState]
    BY <1>0, <1>h, <1>12, <2>8 DEF SeedDone, ThreadsTyped
  <2>10. apply'["host"] = apply["host"]
    BY <1>0, <1>h, <1>12 DEF SeedDone, ThreadsTyped
  <2>11. ThreadsTyped'
    BY <1>0, <2>5, <2>6, <2>9, <2>10 DEF ThreadsTyped, Ends
  <2> QED BY <1>0, <1>12, <2>1, <2>2, <2>11, Kept DEF SeedDone, osVars
<1>13. CASE Close
  <2>1. FlagsTyped'
    BY <1>0, <1>13 DEF Close, FlagsTyped
  <2> QED BY <1>0, <1>13, <2>1, Kept DEF Close, osVars
<1>14. CASE ShutSocket
  <2>1. FlagsTyped'
    BY <1>0, <1>14 DEF ShutSocket, FlagsTyped
  <2> QED BY <1>0, <1>14, <2>1, Kept DEF ShutSocket, osVars
<1>15. CASE UNCHANGED vars
  BY <1>0, <1>15, Kept DEF vars
<1> QED BY <1>1, <1>2, <1>3, <1>4, <1>5, <1>6, <1>7, <1>8, <1>9, <1>10, <1>11, <1>12, <1>13,
           <1>14, <1>15 DEF Next, EndStep

-----------------------------------------------------------------------------
(* No echo.                                                                *)

\* A step at end e adds to e's debt no more than it adds to the budget.
Pays(e) == Debt(e)' + Budget <= Debt(e) + Budget'

\* What the debt of an end depends on.
Untouched(e) ==
  /\ os'[e] = os[e] /\ seen'[e] = seen[e] /\ poll'[e] = poll[e] /\ apply'[e] = apply[e]
  /\ log'[e] = log[e]

LEMMA UnlikeNat ==
  ASSUME NEW e, NEW t
  PROVE  Unlike(e, t) \in Nat /\ Unlike(e, t) <= 1
BY DEF Unlike

LEMMA DiffersNat ==
  ASSUME NEW t, NEW u
  PROVE  Differs(t, u) \in Nat /\ Differs(t, u) <= 1
BY DEF Differs

LEMMA UnsentNat ==
  ASSUME NEW e
  PROVE  Unsent(e) \in Nat /\ Unsent(e) <= 2
<1>1. Unlike(e, poll[e].text) \in {0, 1} /\ Unlike(e, seen[e]) \in {0, 1}
  BY DEF Unlike
<1>2. Differs(poll[e].text, seen[e]) \in {0, 1}
  BY DEF Differs
<1> QED BY <1>1, <1>2 DEF Unsent

LEMMA DebtNat ==
  ASSUME TInv, NEW e \in Ends
  PROVE  Len(log[e]) \in Nat /\ Debt(e) \in Nat /\ Budget \in Nat
<1>1. Len(log[e]) \in Nat
  BY LenProperties DEF TInv, LogTyped
<1>2. Debt(e) \in Nat
  BY <1>1, UnsentNat DEF Debt
<1>3. copies \in Nat /\ fails \in Nat /\ slips \in Nat
  BY Bounds DEF TInv, CountsTyped
<1> QED BY <1>1, <1>2, <1>3 DEF Budget

LEMMA UntouchedDebt ==
  ASSUME NEW e, Untouched(e)
  PROVE  Debt(e)' = Debt(e)
BY DEF Untouched, Debt, Unsent, Unlike, Differs, Seeded

LEMMA BudgetNat == \A a, b, c \in Nat : a + b + 2 * c \in Nat
OBVIOUS

\* The arithmetic of one payment.
LEMMA Sum ==
  \A a, b, c, d, m, n \in Nat :
    a + b <= m /\ c + m <= a + n /\ d = b => c + d <= n /\ d + c <= n
OBVIOUS

LEMMA PaidAtOneEnd ==
  ASSUME TInv, TInv', NoEcho, NEW e \in Ends, Pays(e), \A d \in Ends \ {e} : Untouched(d)
  PROVE  NoEcho'
<1>h. "host" \in Ends /\ "client" \in Ends
  BY DEF Ends
<1>1. /\ Debt("client") \in Nat /\ Debt("host") \in Nat /\ Budget \in Nat
  BY <1>h, DebtNat
<1>2. /\ Debt("client")' \in Nat /\ Debt("host")' \in Nat /\ Budget' \in Nat
  <2>1. \A x \in Ends : Len(log'[x]) \in Nat
    BY LenProperties DEF TInv, LogTyped
  <2>2. \A x \in Ends : Unsent(x)' \in Nat
    BY DEF Unsent, Unlike, Differs
  <2>3. copies' \in Nat /\ fails' \in Nat /\ slips' \in Nat
    BY Bounds DEF TInv, CountsTyped
  <2>4. Budget' \in Nat
    BY <2>3, BudgetNat DEF Budget
  <2>5. \A x \in Ends : Debt(x)' \in Nat
    <3> TAKE x \in Ends
    <3>1. Len(log'[x]) \in Nat /\ Unsent(x)' \in Nat
      BY <2>1, <2>2
    <3> QED BY <3>1 DEF Debt
  <2> QED BY <1>h, <2>4, <2>5
<1>3. CASE e = "client"
  <2>1. Debt("host")' = Debt("host")
    BY <1>h, <1>3, UntouchedDebt
  <2>2. Debt("client")' + Budget <= Debt("client") + Budget'
    BY <1>3 DEF Pays
  <2>3. Debt("client") + Debt("host") <= Budget
    BY DEF NoEcho
  <2> QED BY <1>1, <1>2, <2>1, <2>2, <2>3, Sum DEF NoEcho
<1>4. CASE e = "host"
  <2>1. Debt("client")' = Debt("client")
    BY <1>h, <1>4, UntouchedDebt
  <2>2. Debt("host")' + Budget <= Debt("host") + Budget'
    BY <1>4 DEF Pays
  <2>3. Debt("host") + Debt("client") <= Budget
    BY <1>1 DEF NoEcho
  <2> QED BY <1>1, <1>2, <2>1, <2>2, <2>3, Sum DEF NoEcho
<1> QED BY <1>3, <1>4 DEF Ends

LEMMA Balance ==
  \A l, u, v, b, k, j \in Nat : v + k <= u + j => (l + k) + v + b <= l + u + (b + j)
OBVIOUS

LEMMA PaysBy ==
  ASSUME TInv, NEW e \in Ends, NEW k \in Nat, NEW j \in Nat,
         Len(log'[e]) = Len(log[e]) + k, Unsent(e)' \in Nat,
         Unsent(e)' + k <= Unsent(e) + j, Budget' = Budget + j
  PROVE  Pays(e)
<1>1. Len(log[e]) \in Nat /\ Budget \in Nat /\ Unsent(e) \in Nat
  BY DebtNat, UnsentNat
<1>2. (Len(log[e]) + k) + Unsent(e)' + Budget <= Len(log[e]) + Unsent(e) + (Budget + j)
  BY <1>1, Balance
<1>3. Debt(e)' = (Len(log[e]) + k) + Unsent(e)'
  BY DEF Debt
<1>4. Debt(e) = Len(log[e]) + Unsent(e)
  BY DEF Debt
<1> QED BY <1>2, <1>3, <1>4 DEF Pays

LEMMA BudgetSums ==
  \A c, f, s \in Nat : /\ (c + 1) + f + 2 * s = (c + f + 2 * s) + 1
                       /\ c + (f + 1) + 2 * s = (c + f + 2 * s) + 1
                       /\ c + f + 2 * (s + 1) = (c + f + 2 * s) + 2
                       /\ c + f + 2 * s = (c + f + 2 * s) + 0
OBVIOUS

\* What a copy, a refused read-back and a slip allow.
LEMMA BudgetSteps ==
  ASSUME TInv
  PROVE  /\ copies' = copies + 1 /\ UNCHANGED <<fails, slips>> => Budget' = Budget + 1
         /\ fails' = fails + 1 /\ UNCHANGED <<copies, slips>> => Budget' = Budget + 1
         /\ slips' = slips + 1 /\ UNCHANGED <<copies, fails>> => Budget' = Budget + 2
         /\ UNCHANGED <<copies, fails, slips>> => Budget' = Budget + 0
<1>1. copies \in Nat /\ fails \in Nat /\ slips \in Nat
  BY Bounds DEF TInv, CountsTyped
<1> QED BY <1>1, BudgetSums DEF Budget

LEMMA UnsentNext == ASSUME NEW e PROVE Unsent(e)' \in Nat
BY DEF Unsent, Unlike, Differs

\* A copy puts at most one more message in prospect.
LEMMA CopyPays ==
  ASSUME TInv, NEW e \in Ends, NEW t \in Texts, UserCopies(e, t)
  PROVE  Pays(e)
<1>1. UNCHANGED <<seen, poll, apply, log, slips, fails>>
  BY DEF UserCopies
<1>2. \A x : Unlike(e, x)' \in {0, 1} /\ Unlike(e, x) \in {0, 1}
  BY DEF Unlike
<1>3. Unsent(e)' <= Unsent(e) + 1
  BY <1>1, <1>2 DEF Unsent, Differs, Seeded
<1>4. Len(log'[e]) = Len(log[e]) + 0
  BY <1>1, DebtNat
<1>5. Budget' = Budget + 1
  BY <1>1, BudgetSteps DEF UserCopies
<1> QED BY <1>3, <1>4, <1>5, UnsentNat, UnsentNext, PaysBy

\* A poll that reads between a write and its note slips; otherwise what it read is what the
\* clipboard held, and nothing is added.
LEMMA ReadPays ==
  ASSUME TInv, NEW e \in Ends, PollReads(e)
  PROVE  Pays(e)
<1>1. UNCHANGED <<os, seen, apply, log, copies, fails>>
  BY DEF PollReads, osVars
<1>2. poll[e].pc = "idle" /\ os[e] # NonText
  BY DEF PollReads
<1>3. poll'[e] = [pc |-> "read", text |-> os[e]]
  BY DEF PollReads, TInv, ThreadsTyped
<1>4. Len(log'[e]) = Len(log[e]) + 0
  BY <1>1, DebtNat
<1>5. CASE apply[e].pc = "readback"
  <2>1. Unsent(e) = 0
    BY <1>2, <1>5 DEF Unsent, Seeded
  <2>2. Unsent(e)' = 2
    BY <1>1, <1>3, <1>5 DEF Unsent, Seeded
  <2>3. Budget' = Budget + 2
    BY <1>1, <1>5, BudgetSteps DEF PollReads, Straddles
  <2> QED BY <1>4, <2>1, <2>2, <2>3, PaysBy
<1>6. CASE apply[e].pc # "readback"
  <2>1. Unsent(e) = Unlike(e, seen[e])
    BY <1>2, <1>6 DEF Unsent, Seeded
  <2>2. Unsent(e)' = Differs(os[e], seen[e]) + Unlike(e, os[e])
    BY <1>1, <1>3, <1>6 DEF Unsent, Seeded, Unlike, Differs
  <2>3. Unlike(e, os[e]) = 0 /\ Differs(os[e], seen[e]) = Unlike(e, seen[e])
    BY <1>2 DEF Unlike, Differs
  <2>4. Unsent(e)' = Unsent(e)
    BY <2>1, <2>2, <2>3, UnlikeNat
  <2>5. Budget' = Budget + 0
    BY <1>1, <1>6, BudgetSteps DEF PollReads, Straddles
  <2> QED BY <1>4, <2>4, <2>5, UnsentNat, PaysBy
<1> QED BY <1>5, <1>6

\* The decision sends what differs from what the bridge saw, and pays for it.
LEMMA DecisionPays ==
  ASSUME TInv, NEW e \in Ends, PollDecides(e)
  PROVE  Pays(e)
<1> DEFINE t == poll[e].text
<1>1. UNCHANGED <<os, apply, copies, fails, slips>>
  BY DEF PollDecides, osVars
<1>2. poll[e].pc = "read" /\ poll'[e].pc = "idle" /\ seen'[e] = t
  BY DEF PollDecides, TInv, ThreadsTyped, OsTyped, At
<1>3. \/ t # seen[e] /\ Len(log'[e]) = Len(log[e]) + 1
      \/ Len(log'[e]) = Len(log[e]) + 0
  <2>1. (t # seen[e] /\ t \notin TooLarge /\ Put(e, t)) \/ UNCHANGED log
    BY DEF PollDecides
  <2>2. CASE t # seen[e] /\ t \notin TooLarge /\ Put(e, t)
    <3>1. t \in Texts \ TooLarge
      BY <1>2, <2>2 DEF TInv, ThreadsTyped
    <3>2. log'[e] = Append(log[e], t) /\ log[e] \in Seq(Texts \ TooLarge)
      BY <2>2 DEF Put, TInv, LogTyped
    <3> QED BY <2>2, <3>1, <3>2, AppendOf
  <2>3. CASE UNCHANGED log
    BY <2>3, DebtNat
  <2> QED BY <2>1, <2>2, <2>3
<1>4. Budget' = Budget + 0
  BY <1>1, BudgetSteps
<1>5. Unsent(e) = IF apply[e].pc = "readback" THEN 2 ELSE Differs(t, seen[e]) + Unlike(e, t)
  BY <1>2 DEF Unsent, Seeded
<1>6. Unsent(e)' = IF apply[e].pc = "readback" THEN 0 ELSE Unlike(e, t)
  BY <1>1, <1>2 DEF Unsent, Seeded, Unlike
<1>7. Unlike(e, t) \in {0, 1} /\ Differs(t, seen[e]) = IF t # seen[e] THEN 1 ELSE 0
  BY DEF Unlike, Differs
<1> HIDE DEF t
<1>8. CASE t # seen[e] /\ Len(log'[e]) = Len(log[e]) + 1
  <2>1. Unsent(e)' + 1 <= Unsent(e)
    BY <1>5, <1>6, <1>7, <1>8
  <2> QED BY <1>4, <1>8, <2>1, UnsentNat, UnsentNext, PaysBy
<1>9. CASE Len(log'[e]) = Len(log[e]) + 0
  <2>1. Unsent(e)' <= Unsent(e)
    BY <1>5, <1>6, <1>7
  <2> QED BY <1>4, <1>9, <2>1, UnsentNat, UnsentNext, PaysBy
<1> QED BY <1>3, <1>8, <1>9

\* The write slips when a poll has read before it; what the clipboard holds until the note is
\* not in prospect.
LEMMA WritePays ==
  ASSUME TInv, NEW e \in Ends, ApplyWrites(e)
  PROVE  Pays(e)
<1>1. UNCHANGED <<seen, poll, log, copies, fails>>
  BY DEF ApplyWrites, osVars
<1>2. apply'[e].pc = "readback"
  BY DEF ApplyWrites, TInv, ThreadsTyped, ApplyState
<1>3. Len(log'[e]) = Len(log[e]) + 0
  BY <1>1, DebtNat
<1>4. CASE poll[e].pc = "read"
  <2>1. Unsent(e)' <= 2
    BY <1>1, <1>2, <1>4 DEF Unsent, Seeded
  <2>2. Budget' = Budget + 2
    BY <1>1, <1>4, BudgetSteps DEF ApplyWrites, Straddles
  <2> QED BY <1>3, <2>1, <2>2, UnsentNat, UnsentNext, PaysBy
<1>5. CASE poll[e].pc # "read"
  <2>1. Budget' = Budget + 0
    BY <1>1, <1>5, BudgetSteps DEF ApplyWrites, Straddles
  <2>2. Seeded(e)
    BY DEF ApplyWrites, TInv, ThreadsTyped, Seeded
  <2>3. Unsent(e)' = 0
    BY <1>1, <1>2, <1>5, <2>2 DEF Unsent, Seeded
  <2> QED BY <1>3, <2>1, <2>3, UnsentNat, PaysBy
<1> QED BY <1>4, <1>5

LEMMA FailPays ==
  ASSUME TInv, NEW e \in Ends, ApplyFails(e)
  PROVE  Pays(e)
<1>1. UNCHANGED <<os, seen, log, copies, slips>> /\ fails' = fails + 1
  BY DEF ApplyFails, osVars
<1>2. Len(log'[e]) = Len(log[e]) + 0
  BY <1>1, DebtNat
<1>3. Budget' = Budget + 1
  BY <1>1, BudgetSteps
<1>4. apply'[e] = At("idle") /\ poll'[e] \in {poll[e], At("idle")}
  BY DEF ApplyFails, AfterApply, TInv, ThreadsTyped
<1>5. Seeded(e) /\ apply[e].pc = "write"
  BY DEF ApplyFails, TInv, ThreadsTyped, Seeded
<1>6. Unsent(e)' <= Unsent(e)
  <2>1. CASE poll'[e] = poll[e]
    BY <1>1, <1>4, <1>5, <2>1, UnsentNat DEF Unsent, Seeded, Unlike, Differs, At
  <2>2. CASE poll[e].pc = "drain" /\ poll'[e] = At("idle")
    BY <1>1, <1>4, <1>5, <2>2, UnsentNat DEF Unsent, Seeded, Unlike, Differs, At
  <2> QED BY <2>1, <2>2 DEF ApplyFails, AfterApply, TInv, ThreadsTyped
<1> QED BY <1>2, <1>3, <1>6, UnsentNat, UnsentNext, PaysBy

\* After the note the clipboard counts as seen, unless it could not be read back.
LEMMA NotePays ==
  ASSUME TInv, NEW e \in Ends, ApplyNotes(e)
  PROVE  Pays(e)
<1> DEFINE t == apply[e].text
<1>1. UNCHANGED <<os, log, copies, slips>> /\ apply[e].pc = "readback"
  BY DEF ApplyNotes, osVars
<1>2. Len(log'[e]) = Len(log[e]) + 0
  BY <1>1, DebtNat
<1>3. apply'[e].pc = "idle"
  BY DEF ApplyNotes, AfterApply, TInv, ThreadsTyped, At
<1>4. Seeded(e)
  BY DEF ApplyNotes, TInv, ThreadsTyped, Seeded
<1>5. \/ poll'[e] = poll[e]
      \/ poll[e].pc = "drain" /\ poll'[e].pc = "idle"
  BY DEF ApplyNotes, AfterApply, TInv, ThreadsTyped, At
<1>6. \/ seen'[e] = Noted(e, t) /\ Budget' = Budget + 0
      \/ Budget' = Budget + 1
  <2>1. (seen' = [seen EXCEPT ![e] = Noted(e, t)] /\ UNCHANGED fails) \/ fails' = fails + 1
    BY DEF ApplyNotes
  <2> QED BY <1>1, <2>1, BudgetSteps DEF TInv, OsTyped
<1>7. Unsent(e)' <= 2 /\ (poll'[e].pc # "read" => Unsent(e)' = Unlike(e, seen[e])')
  BY <1>3, <1>4, <1>5 DEF Unsent, Seeded, Unlike, Differs
<1>8. Unsent(e) = IF poll[e].pc = "read" THEN 2 ELSE 0
  BY <1>1, <1>4 DEF Unsent
<1>9. Unlike(e, seen[e])' <= 1 /\ (seen'[e] = Noted(e, t) => Unlike(e, seen[e])' = 0)
  BY <1>1 DEF Unlike, Noted
<1>10. CASE poll[e].pc = "read"
  <2>1. Unsent(e)' <= Unsent(e)
    BY <1>7, <1>8, <1>10, UnsentNext
  <2> QED BY <1>2, <1>6, <2>1, UnsentNat, UnsentNext, PaysBy
<1>11. CASE poll[e].pc # "read"
  <2>1. Unsent(e)' = Unlike(e, seen[e])' /\ Unsent(e) = 0
    BY <1>5, <1>7, <1>8, <1>11
  <2>2. CASE seen'[e] = Noted(e, t) /\ Budget' = Budget + 0
    BY <1>2, <1>9, <2>1, <2>2, PaysBy
  <2>3. CASE Budget' = Budget + 1
    BY <1>2, <1>9, <2>1, <2>3, UnsentNext, PaysBy
  <2> QED BY <1>6, <2>2, <2>3
<1> QED BY <1>10, <1>11

\* The seeding thread's two steps.
LEMMA SeedPays ==
  ASSUME TInv, SeedReads \/ SeedDone
  PROVE  Pays("client")
<1> DEFINE e == "client"
<1>h. e \in Ends
  BY DEF Ends
<1>1. UNCHANGED <<os, log, copies, slips, fails>>
  BY DEF SeedReads, SeedDone, osVars
<1>2. Len(log'[e]) = Len(log[e]) + 0
  BY <1>1, <1>h, DebtNat
<1>3. Budget' = Budget + 0
  BY <1>1, BudgetSteps
<1>4. CASE SeedReads
  <2>1. poll'[e] = [pc |-> "seeded", text |-> os[e]]
    BY <1>h, <1>4 DEF SeedReads, TInv, ThreadsTyped
  <2>2. Unsent(e)' = 0
    BY <1>1, <2>1 DEF Unsent, Seeded, Unlike
  <2> QED BY <1>h, <1>2, <1>3, <2>2, UnsentNat, PaysBy
<1>5. CASE SeedDone
  <2>1. poll[e].pc = "seeded" /\ poll'[e].pc \in {"idle", "drain"} /\ seen'[e] = poll[e].text
    BY <1>h, <1>5 DEF SeedDone, TInv, ThreadsTyped, OsTyped, At
  <2>2. apply[e].pc = "idle"
    BY <1>h, <2>1 DEF TInv, ThreadsTyped
  <2>3. apply'[e].pc \in {"idle", "write"}
    BY <1>h, <1>5, <2>2 DEF SeedDone, TInv, ThreadsTyped
  <2>4. Unsent(e) = Unlike(e, poll[e].text)
    BY <2>1 DEF Unsent, Seeded
  <2>5. Unsent(e)' = Unlike(e, poll[e].text)
    BY <1>1, <2>1, <2>3 DEF Unsent, Seeded, Unlike
  <2> QED BY <1>h, <1>2, <1>3, <2>4, <2>5, UnsentNat, PaysBy
<1> QED BY <1>4, <1>5

\* A message read changes nothing at its end but the write it may start.
LEMMA ReceivePays ==
  ASSUME TInv, NEW e \in Ends, Receive(e)
  PROVE  Pays(e)
<1>1. UNCHANGED <<os, seen, poll, log, copies, slips, fails>>
  BY DEF Receive, osVars
<1>2. Len(log'[e]) = Len(log[e]) + 0
  BY <1>1, DebtNat
<1>3. Budget' = Budget + 0
  BY <1>1, BudgetSteps
<1>4. apply[e].pc = "idle" /\ apply'[e].pc \in {"idle", "write"}
  BY DEF Receive, TInv, ThreadsTyped
<1>5. Unsent(e)' = Unsent(e)
  BY <1>1, <1>4 DEF Unsent, Seeded, Unlike, Differs
<1> QED BY <1>2, <1>3, <1>5, UnsentNat, PaysBy

\* An end's own steps leave the other end's part of the state alone.
LEMMA OneEnd ==
  ASSUME TInv, NEW e \in Ends, NEW d \in Ends \ {e},
         (\E t \in Texts : UserCopies(e, t)) \/ EndStep(e)
  PROVE  Untouched(d)
<1> USE DEF TInv, OsTyped, ThreadsTyped, LogTyped, Untouched
<1>1. ASSUME NEW t \in Texts, UserCopies(e, t) PROVE Untouched(d)
  BY <1>1 DEF UserCopies
<1>2. CASE PollReads(e)
  BY <1>2 DEF PollReads
<1>3. CASE PollDecides(e)
  BY <1>3 DEF PollDecides, Put
<1>4. CASE WriteText(e)
  BY <1>4 DEF WriteText
<1>5. CASE Receive(e)
  BY <1>5 DEF Receive
<1>6. CASE ApplyWrites(e)
  BY <1>6 DEF ApplyWrites
<1>7. CASE ApplyFails(e)
  BY <1>7 DEF ApplyFails, AfterApply
<1>8. CASE ApplyNotes(e)
  BY <1>8 DEF ApplyNotes, AfterApply
<1> QED BY <1>1, <1>2, <1>3, <1>4, <1>5, <1>6, <1>7, <1>8 DEF EndStep

LEMMA IdlePays ==
  ASSUME TInv, UNCHANGED <<os, seen, poll, apply, log, copies, slips, fails>>, NEW e \in Ends
  PROVE  Pays(e) /\ Untouched(e)
<1>1. Unsent(e)' = Unsent(e)
  BY DEF Unsent, Seeded, Unlike, Differs
<1>2. Len(log'[e]) = Len(log[e]) + 0 /\ Budget' = Budget + 0
  BY DebtNat, BudgetSteps
<1> QED BY <1>1, <1>2, UnsentNat, PaysBy DEF Untouched

LEMMA EchoStep == TInv /\ TInv' /\ NoEcho /\ [Next]_vars => NoEcho'
<1> SUFFICES ASSUME TInv, TInv', NoEcho, [Next]_vars PROVE NoEcho'
  OBVIOUS
<1>h. "host" \in Ends /\ "client" \in Ends
  BY DEF Ends
<1>1. ASSUME NEW e \in Ends, (\E t \in Texts : UserCopies(e, t)) \/ EndStep(e)
      PROVE  NoEcho'
  <2>1. \A d \in Ends \ {e} : Untouched(d)
    BY <1>1, OneEnd
  <2>2. Pays(e)
    <3>1. CASE WriteText(e)
      BY <3>1, IdlePays DEF WriteText, osVars
    <3>2. CASE ~WriteText(e)
      BY <1>1, <3>2, CopyPays, ReadPays, DecisionPays, WritePays, FailPays, NotePays, ReceivePays
         DEF EndStep
    <3> QED BY <3>1, <3>2
  <2> QED BY <2>1, <2>2, PaidAtOneEnd
<1>2. CASE SeedReads \/ SeedDone
  <2>1. \A d \in Ends \ {"client"} : Untouched(d)
    BY <1>2, <1>h DEF SeedReads, SeedDone, Untouched, TInv, OsTyped, ThreadsTyped
  <2> QED BY <1>2, <1>h, <2>1, SeedPays, PaidAtOneEnd
<1>3. CASE PutAudio \/ WriteAudio \/ Close \/ ShutSocket \/ UNCHANGED vars
  <2>1. UNCHANGED <<os, seen, poll, apply, log, copies, slips, fails>>
    BY <1>3 DEF PutAudio, WriteAudio, Close, ShutSocket, vars, osVars
  <2> QED BY <1>h, <2>1, IdlePays, PaidAtOneEnd
<1> QED BY <1>1, <1>2, <1>3 DEF Next

LEMMA InitEcho == Init => NoEcho
<1> SUFFICES ASSUME Init PROVE NoEcho
  OBVIOUS
<1>h. "host" \in Ends /\ "client" \in Ends
  BY DEF Ends
<1>1. Len(log["client"]) = 0 /\ Len(log["host"]) = 0
  BY <1>h DEF Init
<1>2. Unsent("client") = 0
  BY <1>h DEF Init, Unsent, Seeded, At
<1>3. Unsent("host") = 0
  BY <1>h DEF Init, Unsent, Seeded, At, Unlike
<1>4. Budget = 0
  BY DEF Init, Budget
<1> QED BY <1>1, <1>2, <1>3, <1>4 DEF NoEcho, Debt

LEMMA EchoMeans == TInv /\ NoEcho => TrafficIsCopies
<1> SUFFICES ASSUME TInv, NoEcho PROVE TrafficIsCopies
  OBVIOUS
<1>h. "host" \in Ends /\ "client" \in Ends
  BY DEF Ends
<1>1. \A a, b, u, v, m \in Nat : (a + u) + (b + v) <= m => a + b <= m
  OBVIOUS
<1>2. /\ Len(log["client"]) \in Nat /\ Len(log["host"]) \in Nat /\ Budget \in Nat
      /\ Unsent("client") \in Nat /\ Unsent("host") \in Nat
  BY <1>h, DebtNat, UnsentNat
<1>3. (Len(log["client"]) + Unsent("client")) + (Len(log["host"]) + Unsent("host")) <= Budget
  BY DEF NoEcho, Debt
<1>4. Len(log["client"]) + Len(log["host"]) <= Budget
  BY <1>1, <1>2, <1>3
<1> QED BY <1>4 DEF TrafficIsCopies, Budget

\* Whatever the texts, the queues, the number of copies and of disturbances: the channel's state
\* is well formed, and no text travels back and forth between the two clipboards.  What the two
\* ends have sent is bounded by the copies their users made, one message for a read-back the
\* clipboard refused and two for a poll that straddles a write.
THEOREM NothingEchoes == Spec => []AuxInv
<1>1. Init => TInv /\ NoEcho
  BY InitTyped, InitEcho
<1>2. TInv /\ NoEcho /\ [Next]_vars => (TInv /\ NoEcho)'
  BY TypeStep, EchoStep
<1>3. TInv /\ NoEcho => AuxInv
  BY TInvTypes, EchoMeans DEF AuxInv
<1> QED BY <1>1, <1>2, <1>3, PTL DEF Spec

-----------------------------------------------------------------------------
(* The lanes keep the order of the texts.                                  *)

LEMMA NumbersTyped ==
  ASSUME TInv, NEW e \in Ends
  PROVE  /\ wire[e] \in Seq(Nat) /\ Len(wire[e]) \in Nat /\ Len(log[e]) \in Nat
         /\ box[e] \in Nat /\ box[e] <= Len(log[e])
         /\ received[e] \in Nat /\ received[e] <= Len(log[e])
         /\ \A i \in 1 .. Len(wire[e]) : wire[e][i] \in Nat /\ wire[e][i] <= Len(log[e])
<1>1. wire[e] \in Seq(Nat)
  BY DEF TInv, SocketTyped
<1> QED BY <1>1, LenProperties DEF TInv, LogTyped, SocketTyped

\* A text put, one written to the socket, a frame written to the socket, a message read.
LEMMA PutOrdered ==
  ASSUME TInv, NEW e \in Ends, InOrder(e), box'[e] = Len(log[e]) + 1,
         wire'[e] = wire[e], received'[e] = received[e]
  PROVE  InOrder(e)'
<1>1. \A i \in 1 .. Len(wire[e]) : wire[e][i] < Len(log[e]) + 1
  BY NumbersTyped
<1>2. received[e] < Len(log[e]) + 1
  BY NumbersTyped
<1> QED BY <1>1, <1>2 DEF InOrder

LEMMA WriteOrdered ==
  ASSUME TInv, NEW e \in Ends, InOrder(e), NEW n \in Nat, wire'[e] = Append(wire[e], n),
         received'[e] = received[e],
         (n = 0 /\ box'[e] = box[e]) \/ (n = box[e] /\ box'[e] = 0)
  PROVE  InOrder(e)'
<1>1. /\ wire[e] \in Seq(Nat) /\ Len(wire[e]) \in Nat /\ box[e] \in Nat
      /\ \A i \in 1 .. Len(wire[e]) : wire[e][i] \in Nat
  BY NumbersTyped
<1>2. /\ Len(wire'[e]) = Len(wire[e]) + 1
      /\ \A i \in 1 .. Len(wire[e]) : wire'[e][i] = wire[e][i]
      /\ wire'[e][Len(wire[e]) + 1] = n
  BY <1>1, AppendOf
<1>3. \A i \in 1 .. Len(wire'[e]) : i \in 1 .. Len(wire[e]) \/ i = Len(wire[e]) + 1
  BY <1>1, <1>2
<1>4. ASSUME NEW i \in 1 .. Len(wire'[e]), wire'[e][i] # 0 PROVE wire'[e][i] > received'[e]
  BY <1>1, <1>2, <1>3, <1>4 DEF InOrder
<1>5. ASSUME NEW i \in 1 .. Len(wire'[e]), NEW j \in 1 .. Len(wire'[e]),
             i < j, wire'[e][i] # 0, wire'[e][j] # 0
      PROVE  wire'[e][i] < wire'[e][j]
  <2>1. i \in 1 .. Len(wire[e])
    BY <1>1, <1>2, <1>5
  <2>2. CASE j \in 1 .. Len(wire[e])
    BY <1>2, <1>5, <2>1, <2>2 DEF InOrder
  <2>3. CASE j = Len(wire[e]) + 1
    BY <1>1, <1>2, <1>5, <2>1, <2>3 DEF InOrder
  <2> QED BY <1>3, <2>2, <2>3
<1>6. ASSUME box'[e] # 0
      PROVE  box'[e] > received'[e] /\ \A i \in 1 .. Len(wire'[e]) : wire'[e][i] < box'[e]
  <2>1. n = 0 /\ box'[e] = box[e] /\ box[e] > received[e]
    BY <1>6 DEF InOrder
  <2> QED BY <1>1, <1>2, <1>3, <1>6, <2>1 DEF InOrder
<1> QED BY <1>4, <1>5, <1>6 DEF InOrder

LEMMA ReadOrdered ==
  ASSUME TInv, NEW e \in Ends, InOrder(e), wire[e] # <<>>, wire'[e] = Tail(wire[e]),
         box'[e] = box[e],
         received'[e] = IF Head(wire[e]) = 0 THEN received[e] ELSE Head(wire[e])
  PROVE  /\ InOrder(e)'
         /\ received'[e] = received[e] \/ received'[e] \in received[e] + 1 .. Len(log[e])
<1>1. /\ wire[e] \in Seq(Nat) /\ Len(wire[e]) \in Nat /\ box[e] \in Nat
      /\ \A i \in 1 .. Len(wire[e]) : wire[e][i] \in Nat /\ wire[e][i] <= Len(log[e])
      /\ received[e] \in Nat /\ Len(log[e]) \in Nat
  BY NumbersTyped
<1>2. /\ Len(wire[e]) > 0 /\ Len(wire'[e]) = Len(wire[e]) - 1
      /\ \A i \in 1 .. Len(wire[e]) - 1 : wire'[e][i] = wire[e][i + 1]
      /\ Head(wire[e]) = wire[e][1]
  BY <1>1, TailOf
<1>3. \A i \in 1 .. Len(wire'[e]) : i + 1 \in 2 .. Len(wire[e]) /\ wire'[e][i] = wire[e][i + 1]
  BY <1>1, <1>2
<1>4. wire[e][1] \in Nat /\ wire[e][1] <= Len(log[e])
  BY <1>1, <1>2
<1>5. wire[e][1] # 0 => wire[e][1] > received[e]
  BY <1>1, <1>2 DEF InOrder
<1>6. received'[e] = received[e] \/ received'[e] \in received[e] + 1 .. Len(log[e])
  BY <1>1, <1>2, <1>4, <1>5
<1>7. ASSUME NEW i \in 1 .. Len(wire'[e]), wire'[e][i] # 0 PROVE wire'[e][i] > received'[e]
  <2>1. i + 1 \in 1 .. Len(wire[e]) /\ 1 \in 1 .. Len(wire[e]) /\ 1 < i + 1 /\ wire[e][i + 1] # 0
    BY <1>1, <1>3, <1>7
  <2>2. wire[e][i + 1] > received[e]
    BY <2>1 DEF InOrder
  <2>3. wire[e][1] # 0 => wire[e][1] < wire[e][i + 1]
    BY <2>1 DEF InOrder
  <2>4. wire[e][i + 1] > wire[e][1] \/ wire[e][1] = 0
    BY <1>1, <2>1, <2>3
  <2> QED BY <1>2, <1>3, <2>2, <2>4
<1>8. ASSUME NEW i \in 1 .. Len(wire'[e]), NEW j \in 1 .. Len(wire'[e]),
             i < j, wire'[e][i] # 0, wire'[e][j] # 0
      PROVE  wire'[e][i] < wire'[e][j]
  <2>1. i + 1 \in 1 .. Len(wire[e]) /\ j + 1 \in 1 .. Len(wire[e]) /\ i + 1 < j + 1
    BY <1>1, <1>3, <1>8
  <2> QED BY <1>3, <1>8, <2>1 DEF InOrder
<1>9. ASSUME box'[e] # 0
      PROVE  box'[e] > received'[e] /\ \A i \in 1 .. Len(wire'[e]) : wire'[e][i] < box'[e]
  <2>1. box[e] > received[e] /\ \A i \in 1 .. Len(wire[e]) : wire[e][i] < box[e]
    BY <1>9 DEF InOrder
  <2>2. wire[e][1] < box[e]
    BY <1>1, <1>2, <2>1
  <2>3. \A i \in 1 .. Len(wire'[e]) : i + 1 \in 1 .. Len(wire[e])
    BY <1>1, <1>3
  <2> QED BY <1>1, <1>2, <1>3, <1>4, <2>1, <2>2, <2>3
<1> QED BY <1>6, <1>7, <1>8, <1>9 DEF InOrder

\* A step of the lane that carries the texts of e, or none.
LaneStep(e) ==
  \/ Len(log'[e]) = Len(log[e]) + 1 /\ UNCHANGED <<received[e], sock>>
  \/ /\ sock /\ received'[e] \in received[e] + 1 .. Len(log[e])
     /\ Len(log'[e]) = Len(log[e]) /\ UNCHANGED sock
  \/ sock' = FALSE /\ UNCHANGED <<Len(log[e]), received[e]>>
  \/ UNCHANGED <<Len(log[e]), received[e], sock>>

LEMMA QuietLane ==
  ASSUME NEW e \in Ends, InOrder(e), wire'[e] = wire[e], box'[e] = box[e],
         received'[e] = received[e]
  PROVE  InOrder(e)'
BY DEF InOrder

LEMMA LaneSteps ==
  ASSUME TInv, OrderInv, [Next]_vars, NEW e \in Ends
  PROVE  InOrder(e)' /\ LaneStep(e)
<1>0. /\ InOrder(e) /\ wire \in [Ends -> Seq(Nat)] /\ box \in [Ends -> Nat]
      /\ received \in [Ends -> Nat] /\ log \in [Ends -> Seq(Texts \ TooLarge)]
  BY DEF OrderInv, TInv, LogTyped, SocketTyped
<1>1. ASSUME NEW d \in Ends, PollDecides(d) PROVE InOrder(e)' /\ LaneStep(e)
  <2>1. UNCHANGED <<wire, received, sock>>
    BY <1>1 DEF PollDecides
  <2>2. \/ d = e /\ poll[d].text \in Texts \ TooLarge /\ Put(e, poll[d].text)
        \/ log'[e] = log[e] /\ box'[e] = box[e]
    <3>1. \/ poll[d].text \notin TooLarge /\ Put(d, poll[d].text)
          \/ UNCHANGED <<log, box>>
      BY <1>1 DEF PollDecides
    <3>2. poll[d].text \in Texts
      BY <1>1 DEF PollDecides, TInv, ThreadsTyped
    <3>3. CASE Put(d, poll[d].text) /\ d # e
      BY <1>0, <3>3 DEF Put
    <3> QED BY <3>1, <3>2, <3>3
  <2>3. CASE d = e /\ poll[d].text \in Texts \ TooLarge /\ Put(e, poll[d].text)
    <3>1. box'[e] = Len(log[e]) + 1 /\ log'[e] = Append(log[e], poll[d].text)
      BY <1>0, <2>3 DEF Put
    <3>2. Len(log'[e]) = Len(log[e]) + 1
      BY <1>0, <2>3, <3>1, AppendOf
    <3> QED BY <1>0, <2>1, <3>1, <3>2, PutOrdered DEF LaneStep
  <2>4. CASE log'[e] = log[e] /\ box'[e] = box[e]
    BY <1>0, <2>1, <2>4, QuietLane DEF LaneStep
  <2> QED BY <2>2, <2>3, <2>4
<1>2. ASSUME NEW d \in Ends, WriteText(d) PROVE InOrder(e)' /\ LaneStep(e)
  <2>1. UNCHANGED <<log, received, sock>>
    BY <1>2 DEF WriteText
  <2>2. CASE d = e
    <3>1. wire'[e] = Append(wire[e], box[e]) /\ box'[e] = 0 /\ box[e] \in Nat
      BY <1>0, <1>2, <2>2 DEF WriteText
    <3> QED BY <1>0, <2>1, <3>1, WriteOrdered DEF LaneStep
  <2>3. CASE d # e
    <3>1. wire'[e] = wire[e] /\ box'[e] = box[e]
      BY <1>0, <1>2, <2>3 DEF WriteText
    <3> QED BY <1>0, <2>1, <3>1, QuietLane DEF LaneStep
  <2> QED BY <2>2, <2>3
<1>3. ASSUME NEW d \in Ends, Receive(d) PROVE InOrder(e)' /\ LaneStep(e)
  <2> DEFINE n == Head(wire[Peer(d)])
  <2>1. UNCHANGED <<log, box, sock>> /\ sock /\ wire[Peer(d)] # <<>>
    BY <1>3 DEF Receive
  <2>2. /\ wire' = [wire EXCEPT ![Peer(d)] = Tail(@)]
        /\ received' = IF n = 0 THEN received ELSE [received EXCEPT ![Peer(d)] = n]
    BY <1>3 DEF Receive
  <2>3. CASE Peer(d) = e
    <3>1. /\ wire'[e] = Tail(wire[e])
          /\ received'[e] = IF Head(wire[e]) = 0 THEN received[e] ELSE Head(wire[e])
      BY <1>0, <2>2, <2>3
    <3> QED BY <1>0, <2>1, <2>3, <3>1, ReadOrdered DEF LaneStep
  <2>4. CASE Peer(d) # e
    <3>1. wire'[e] = wire[e] /\ received'[e] = received[e]
      BY <1>0, <2>2, <2>4
    <3> QED BY <1>0, <2>1, <3>1, QuietLane DEF LaneStep
  <2> QED BY <2>3, <2>4
<1>4. CASE WriteAudio
  <2>1. UNCHANGED <<log, box, received, sock>>
    BY <1>4 DEF WriteAudio
  <2>2. wire' = [wire EXCEPT !["host"] = Append(@, 0)]
    BY <1>4 DEF WriteAudio
  <2>3. CASE e = "host"
    <3>1. wire'[e] = Append(wire[e], 0)
      BY <1>0, <2>2, <2>3
    <3> QED BY <1>0, <2>1, <3>1, WriteOrdered DEF LaneStep
  <2>4. CASE e # "host"
    <3>1. wire'[e] = wire[e]
      BY <1>0, <2>2, <2>4
    <3> QED BY <1>0, <2>1, <3>1, QuietLane DEF LaneStep
  <2> QED BY <2>3, <2>4
<1>5. CASE ShutSocket
  BY <1>0, <1>5, QuietLane DEF ShutSocket, LaneStep
<1>6. CASE PutAudio \/ SeedReads \/ SeedDone \/ Close \/ UNCHANGED vars
  <2>1. UNCHANGED <<log, wire, box, received, sock>>
    BY <1>6 DEF PutAudio, SeedReads, SeedDone, Close, vars
  <2> QED BY <1>0, <2>1, QuietLane DEF LaneStep
<1>7. ASSUME NEW d \in Ends,
             \/ \E t \in Texts : UserCopies(d, t)
             \/ PollReads(d) \/ ApplyWrites(d) \/ ApplyFails(d) \/ ApplyNotes(d)
      PROVE  InOrder(e)' /\ LaneStep(e)
  <2>1. UNCHANGED <<log, wire, box, received, sock>>
    BY <1>7 DEF UserCopies, PollReads, ApplyWrites, ApplyFails, ApplyNotes
  <2> QED BY <1>0, <2>1, QuietLane DEF LaneStep
<1> QED BY <1>1, <1>2, <1>3, <1>4, <1>5, <1>6, <1>7 DEF Next, EndStep

LEMMA LaneRefines ==
  ASSUME TInv
  PROVE  /\ LaneStep("client") => [Up!Next]_(Up!vars)
         /\ LaneStep("host") => [Down!Next]_(Down!vars)
BY DEF LaneStep, Up!Next, Up!Put, Up!Get, Up!Shut, Up!vars,
       Down!Next, Down!Put, Down!Get, Down!Shut, Down!vars

LEMMA InitLanes == Init => OrderInv /\ Up!Init /\ Down!Init
<1> SUFFICES ASSUME Init PROVE OrderInv /\ Up!Init /\ Down!Init
  OBVIOUS
<1>1. "host" \in Ends /\ "client" \in Ends
  BY DEF Ends
<1>2. \A e \in Ends : /\ Len(wire[e]) = 0 /\ Len(log[e]) = 0 /\ received[e] = 0 /\ box[e] = 0
  BY DEF Init
<1>3. sock = TRUE
  BY DEF Init
<1>4. OrderInv
  BY <1>2 DEF OrderInv, InOrder
<1> QED BY <1>1, <1>2, <1>3, <1>4 DEF Up!Init, Down!Init

\* Outbox, socket and reader implement a keep-latest lane in each direction: a replaced text may
\* be missed, but none overtakes another and none is delivered twice.  (That the last one
\* arrives, the fairness part of KeepsLatest, is checked by the run.)
THEOREM LanesKeepLatest ==
  Spec => /\ Up!Init /\ [][Up!Next]_(Up!vars)
          /\ Down!Init /\ [][Down!Next]_(Down!vars)
<1>1. Init => TInv /\ OrderInv /\ Up!Init /\ Down!Init
  BY InitTyped, InitLanes
<1>2. TInv /\ OrderInv /\ [Next]_vars => (TInv /\ OrderInv)'
  BY TypeStep, LaneSteps DEF OrderInv
<1>3. TInv /\ OrderInv /\ [Next]_vars => [Up!Next]_(Up!vars) /\ [Down!Next]_(Down!vars)
  BY LaneSteps, LaneRefines DEF Ends
<1> QED BY <1>1, <1>2, <1>3, PTL DEF Spec

-----------------------------------------------------------------------------
(* The clipboard of an RDP session.                                        *)

\* Messages of a kind in a queue: whether there is one, and how many.
Has(q, kind) == \E i \in DOMAIN q : q[i].kind = kind
Places(q, kind) == {i \in 1 .. Len(q) : q[i].kind = kind}

(* A queue has finitely many messages of a kind.                           *)
LEMMA CountTyped ==
  ASSUME NEW S, NEW q \in Seq(S), NEW k
  PROVE  /\ Count(q, k) = Cardinality(Places(q, k)) /\ IsFiniteSet(Places(q, k))
         /\ Count(q, k) \in Nat
<1>1. Places(q, k) \in SUBSET (1 .. Len(q)) /\ Len(q) \in Int
  BY DEF Places
<1>2. IsFiniteSet(Places(q, k))
  BY <1>1, FS_Interval, FS_Subset
<1> QED
  BY <1>2, FS_CardinalityType DEF Count, Places

(* A message that is sent counts once.                                     *)
LEMMA CountAppend ==
  ASSUME NEW S, NEW q \in Seq(S), NEW m \in S, NEW k
  PROVE  /\ Append(q, m) \in Seq(S)
         /\ Count(Append(q, m), k) = Count(q, k) + (IF m.kind = k THEN 1 ELSE 0)
<1>1. /\ Append(q, m) \in Seq(S) /\ Len(Append(q, m)) = Len(q) + 1 /\ Len(q) \in Nat
      /\ \A i \in 1 .. Len(q) : Append(q, m)[i] = q[i]
      /\ Append(q, m)[Len(q) + 1] = m
  BY AppendProperties
<1>2. Places(Append(q, m), k) = IF m.kind = k THEN Places(q, k) \cup {Len(q) + 1} ELSE Places(q, k)
  BY <1>1 DEF Places
<1>3. Len(q) + 1 \notin Places(q, k)
  BY <1>1 DEF Places
<1>4. /\ Count(q, k) = Cardinality(Places(q, k)) /\ IsFiniteSet(Places(q, k))
      /\ Count(q, k) \in Nat
  BY CountTyped
<1>5. Count(Append(q, m), k) = Cardinality(Places(Append(q, m), k))
  BY <1>1, CountTyped
<1>6. Cardinality(Places(q, k) \cup {Len(q) + 1}) = Cardinality(Places(q, k)) + 1
  BY <1>3, <1>4, FS_AddElement
<1> QED
  BY <1>1, <1>2, <1>4, <1>5, <1>6

(* A message that is taken counts once.                                    *)
LEMMA CountTail ==
  ASSUME NEW S, NEW q \in Seq(S), q # <<>>, NEW k
  PROVE  /\ Tail(q) \in Seq(S) /\ Head(q) \in S
         /\ Count(q, k) = Count(Tail(q), k) + (IF Head(q).kind = k THEN 1 ELSE 0)
<1>1. /\ Tail(q) \in Seq(S) /\ Head(q) \in S /\ Head(q) = q[1]
      /\ Len(q) \in Nat \ {0} /\ Len(Tail(q)) = Len(q) - 1
      /\ \A i \in 1 .. Len(Tail(q)) : Tail(q)[i] = q[i + 1]
  BY HeadTailProperties, EmptySeq, LenProperties, ElementOfSeq
<1> DEFINE A == Places(q, k) \ {1}
           B == Places(Tail(q), k)
           f == [i \in A |-> i - 1]
<1>2. f \in [A -> B]
  <2> SUFFICES ASSUME NEW i \in A PROVE i - 1 \in B
    OBVIOUS
  <2> QED
    BY <1>1 DEF Places
<1>3. f \in Bijection(A, B)
  <2>1. \A i, j \in A : f[i] = f[j] => i = j
    BY DEF Places
  <2>2. ASSUME NEW j \in B PROVE \E i \in A : f[i] = j
    <3>1. j + 1 \in A /\ j \in Nat
      BY <1>1 DEF Places
    <3>2. f[j + 1] = j
      BY <3>1
    <3> QED
      BY <3>1, <3>2
  <2> QED
    BY <1>2, <2>1, <2>2 DEF Bijection, Injection, Surjection, IsInjective
<1>4. IsFiniteSet(Places(q, k)) /\ IsFiniteSet(A)
      /\ Cardinality(A) = IF 1 \in Places(q, k) THEN Cardinality(Places(q, k)) - 1
                          ELSE Cardinality(Places(q, k))
  BY CountTyped, FS_RemoveElement
<1>5. Cardinality(B) = Cardinality(A)
  BY <1>3, <1>4, FS_Bijection DEF ExistsBijection
<1>6. 1 \in Places(q, k) <=> Head(q).kind = k
  BY <1>1 DEF Places
<1>7. /\ Count(q, k) = Cardinality(Places(q, k)) /\ Count(q, k) \in Nat
      /\ Count(Tail(q), k) = Cardinality(B)
  BY <1>1, CountTyped
<1> HIDE DEF A, B
<1> QED
  BY <1>1, <1>4, <1>5, <1>6, <1>7

(* What is sent, and what is taken, of a kind.                             *)
LEMMA HasAppend ==
  ASSUME NEW S, NEW q \in Seq(S), NEW m \in S, NEW k
  PROVE  Has(Append(q, m), k) <=> Has(q, k) \/ m.kind = k
<1>1. /\ Append(q, m) \in Seq(S) /\ Len(Append(q, m)) = Len(q) + 1 /\ Len(q) \in Nat
      /\ \A i \in 1 .. Len(q) : Append(q, m)[i] = q[i]
      /\ Append(q, m)[Len(q) + 1] = m
  BY AppendProperties
<1>2. DOMAIN q = 1 .. Len(q) /\ DOMAIN Append(q, m) = 1 .. Len(q) + 1
  BY <1>1, LenProperties
<1> QED
  BY <1>1, <1>2 DEF Has

LEMMA HasTail ==
  ASSUME NEW S, NEW q \in Seq(S), q # <<>>, NEW k
  PROVE  Has(q, k) <=> Has(Tail(q), k) \/ Head(q).kind = k
<1>1. /\ Tail(q) \in Seq(S) /\ Head(q) = q[1]
      /\ Len(q) \in Nat \ {0} /\ Len(Tail(q)) = Len(q) - 1
      /\ \A i \in 1 .. Len(Tail(q)) : Tail(q)[i] = q[i + 1]
  BY HeadTailProperties, EmptySeq, LenProperties
<1>2. DOMAIN q = 1 .. Len(q) /\ DOMAIN Tail(q) = 1 .. Len(q) - 1
  BY <1>1, LenProperties
<1>3. ASSUME NEW i \in DOMAIN q, q[i].kind = k PROVE Has(Tail(q), k) \/ Head(q).kind = k
  <2>1. CASE i = 1
    BY <1>1, <1>3, <2>1
  <2>2. CASE i # 1
    <3>1. i - 1 \in 1 .. Len(Tail(q)) /\ Tail(q)[i - 1] = q[i]
      BY <1>1, <1>2, <2>2
    <3> QED
      BY <1>1, <1>2, <1>3, <3>1 DEF Has
  <2> QED
    BY <2>1, <2>2
<1>4. ASSUME NEW i \in DOMAIN Tail(q), Tail(q)[i].kind = k PROVE Has(q, k)
  <2>1. i + 1 \in DOMAIN q /\ q[i + 1].kind = k
    BY <1>1, <1>2, <1>4
  <2> QED
    BY <2>1 DEF Has
<1>5. Head(q).kind = k => Has(q, k)
  BY <1>1, <1>2 DEF Has
<1> QED
  BY <1>3, <1>4, <1>5 DEF Has

-----------------------------------------------------------------------------
(* What an operation of the worker and a result carry, by their kind.      *)
LEMMA WorkShape ==
  ASSUME NEW w \in Work
  PROVE  /\ w.kind \in {"poll", "formats", "data", "apply", "none"}
         /\ w.kind = "none" <=> w = None
         /\ w.kind \in {"poll", "formats", "data"} => w.id \in Ids
         /\ w.kind \in {"poll", "apply"} => w.gen \in Ids
         /\ w.kind = "data" => w.f \in Formats
         /\ w.kind = "apply" => w.v \in Values
<1>1. CASE w \in [kind : {"poll"}, id : Ids, gen : Ids]
  BY <1>1 DEF None
<1>2. CASE w \in [kind : {"formats"}, id : Ids]
  BY <1>2 DEF None
<1>3. CASE w \in [kind : {"data"}, id : Ids, f : Formats]
  BY <1>3 DEF None
<1>4. CASE w \in Writings
  BY <1>4 DEF None, Writings
<1>5. CASE w = None
  BY <1>5 DEF None
<1> QED
  BY <1>1, <1>2, <1>3, <1>4, <1>5 DEF Work

LEMMA ResultShape ==
  ASSUME NEW r \in Result
  PROVE  /\ r.kind \in {"poll", "formats", "data", "apply", "none"}
         /\ r.kind = "none" <=> r = None
         /\ r.kind \in {"poll", "formats", "data"} => r.id \in Ids
         /\ r.kind = "poll" => r.changed \in BOOLEAN
         /\ r.kind \in {"formats", "data"} => r.v \in Values \cup {Nothing}
<1>1. CASE r \in [kind : {"poll"}, id : Ids, changed : BOOLEAN]
  BY <1>1 DEF None
<1>2. CASE r \in [kind : {"formats", "data"}, id : Ids, v : Values \cup {Nothing}]
  BY <1>2 DEF None
<1>3. CASE r = None \/ r = [kind |-> "apply"]
  BY <1>3 DEF None
<1> QED
  BY <1>1, <1>2, <1>3 DEF Result

(* What a message carries, by its kind.                                    *)
LEMMA MessageShape ==
  /\ \A m \in ToServer : /\ m.kind \in {"list", "data", "want"}
                         /\ m.kind = "want" => m.f \in Formats
                         /\ m.kind \in {"list", "data"} => m.v \in Values \cup {Nothing}
  /\ \A m \in ToClient : /\ m.kind \in {"list", "want", "ack", "data", "ready"}
                         /\ m.kind \in {"list", "want"} => m.f \in Formats
                         /\ m.kind = "ack" => m.ok \in BOOLEAN
                         /\ m.kind = "data" => m.v \in RemoteVals \cup {Nothing}
<1>1. ASSUME NEW m \in ToServer
      PROVE  /\ m.kind \in {"list", "data", "want"}
             /\ m.kind = "want" => m.f \in Formats
             /\ m.kind \in {"list", "data"} => m.v \in Values \cup {Nothing}
  BY DEF ToServer
<1>2. ASSUME NEW m \in ToClient
      PROVE  /\ m.kind \in {"list", "want", "ack", "data", "ready"}
             /\ m.kind \in {"list", "want"} => m.f \in Formats
             /\ m.kind = "ack" => m.ok \in BOOLEAN
             /\ m.kind = "data" => m.v \in RemoteVals \cup {Nothing}
  <2>1. CASE m \in [kind : {"list", "want"}, f : Formats]
    BY <2>1
  <2>2. CASE m \in [kind : {"ack"}, ok : BOOLEAN]
    BY <2>2
  <2>3. CASE m \in [kind : {"data"}, v : RemoteVals \cup {Nothing}]
    BY <2>3
  <2>4. CASE m = [kind |-> "ready"]
    BY <2>4
  <2> QED
    BY <2>1, <2>2, <2>3, <2>4 DEF ToClient
<1> QED
  BY <1>1, <1>2

(* The messages that are sent.                                             *)
LEMMA MessageMade ==
  /\ \A x \in Values \cup {Nothing} : /\ [kind |-> "list", v |-> x] \in ToServer
                                      /\ [kind |-> "data", v |-> x] \in ToServer
  /\ \A g \in Formats : /\ [kind |-> "want", f |-> g] \in ToServer
                        /\ [kind |-> "want", f |-> g] \in ToClient
                        /\ [kind |-> "list", f |-> g] \in ToClient
  /\ \A b \in BOOLEAN : [kind |-> "ack", ok |-> b] \in ToClient
  /\ \A x \in RemoteVals \cup {Nothing} : [kind |-> "data", v |-> x] \in ToClient
<1>1. \A x \in Values \cup {Nothing} : /\ [kind |-> "list", v |-> x] \in ToServer
                                       /\ [kind |-> "data", v |-> x] \in ToServer
  BY DEF ToServer
<1>2. \A g \in Formats : /\ [kind |-> "want", f |-> g] \in ToServer
                         /\ [kind |-> "want", f |-> g] \in ToClient
                         /\ [kind |-> "list", f |-> g] \in ToClient
  BY DEF ToServer, ToClient
<1>3. \A b \in BOOLEAN : [kind |-> "ack", ok |-> b] \in ToClient
  BY DEF ToClient
<1>4. \A x \in RemoteVals \cup {Nothing} : [kind |-> "data", v |-> x] \in ToClient
  BY DEF ToClient
<1> QED
  BY <1>1, <1>2, <1>3, <1>4

(* Six numbers are enough: while at most four others are held, the least   *)
(* that nothing holds exists.                                              *)
LEMMA SpareNumber ==
  ASSUME NEW a, NEW b, NEW c, NEW d, NEW U, \A x \in U : x \in {0, a, b, c, d}
  PROVE  Least(Ids \ U) \in Ids /\ Least(Ids \ U) \notin U
<1> DEFINE S == Ids \ U
<1>1. \E i \in 1 .. 5 : i \notin U
  OBVIOUS
<1>2. S \subseteq {1, 2, 3, 4, 5, 6} /\ \E i \in {1, 2, 3, 4, 5} : i \in S
  BY <1>1 DEF Ids
<1> HIDE DEF S
<1>3. \E i \in S : \A j \in S : i <= j
  <2>1. CASE 1 \in S
    BY <1>2, <2>1
  <2>2. CASE 1 \notin S /\ 2 \in S
    BY <1>2, <2>2
  <2>3. CASE 1 \notin S /\ 2 \notin S /\ 3 \in S
    BY <1>2, <2>3
  <2>4. CASE 1 \notin S /\ 2 \notin S /\ 3 \notin S /\ 4 \in S
    BY <1>2, <2>4
  <2>5. CASE 1 \notin S /\ 2 \notin S /\ 3 \notin S /\ 4 \notin S /\ 5 \in S
    BY <1>2, <2>5
  <2> QED
    BY <1>2, <2>1, <2>2, <2>3, <2>4, <2>5
<1>4. Least(S) \in S
  BY <1>3 DEF Least
<1> QED
  BY <1>4 DEF S

(* A new operation gets a number that no awaited operation has, and a new  *)
(* generation is unknown to the worker and to what is queued for it.       *)
LEMMA FreshId ==
  ASSUME ClipTypeOK, AwaitedIsUnderway
  PROVE  NewId \in Ids /\ NewId \notin dataIds
<1>1. \A x \in UsedIds : x \in {0, cmd.id, exec.id, res.id, 0}
  BY DEF UsedIds, IdsOf, AwaitedIsUnderway
<1>2. NewId \in Ids /\ NewId \notin UsedIds
  BY <1>1, SpareNumber DEF NewId
<1> QED
  BY <1>2 DEF UsedIds

LEMMA FreshGen ==
  ASSUME ClipTypeOK
  PROVE  NewGen \in Ids
<1>1. \A x \in UsedGens : x \in {0, gen, seenGen, cmd.gen, deferredApply.gen}
  BY DEF UsedGens, GensOf
<1> QED
  BY <1>1, SpareNumber DEF NewGen

(* The operations and the results that are made.                           *)
LEMMA WorkMade ==
  ASSUME NEW i \in Ids, NEW g \in Ids
  PROVE  /\ [kind |-> "poll", id |-> i, gen |-> g] \in Work
         /\ [kind |-> "formats", id |-> i] \in Work
         /\ \A fo \in Formats : [kind |-> "data", id |-> i, f |-> fo] \in Work
         /\ \A x \in Values : [kind |-> "apply", gen |-> g, v |-> x] \in Work
         /\ \A x \in Values : [kind |-> "apply", gen |-> g, v |-> x] \in Writings
  BY DEF Work, Writings

LEMMA ResultMade ==
  ASSUME NEW i \in Ids
  PROVE  /\ \A b \in BOOLEAN : [kind |-> "poll", id |-> i, changed |-> b] \in Result
         /\ \A x \in Values \cup {Nothing} : /\ [kind |-> "formats", id |-> i, v |-> x] \in Result
                                             /\ [kind |-> "data", id |-> i, v |-> x] \in Result
         /\ [kind |-> "apply"] \in Result /\ None \in Result /\ None \in Work
  BY DEF Result, Work

-----------------------------------------------------------------------------
\* What the worker has of an operation, and whether an announcement is under way.
Carries(kind, i) == \E w \in {cmd, exec, res} : w.kind = kind /\ w.id = i
Announces == Has(toServer, "list") \/ Has(toClient, "ack")

(* AwaitedIsUnderway in these terms, before and after a step.              *)
LEMMA AwaitedMeans ==
  /\ AwaitedIsUnderway <=> /\ pollId # 0 => Carries("poll", pollId)
                           /\ readId # 0 => Carries("formats", readId)
                           /\ \A i \in dataIds : Carries("data", i)
                           /\ adv.is = "pending" => readId # 0 \/ deferredRead \/ Announces
  /\ AwaitedIsUnderway' <=> /\ pollId' # 0 => Carries("poll", pollId)'
                            /\ readId' # 0 => Carries("formats", readId)'
                            /\ \A i \in dataIds' : Carries("data", i)'
                            /\ adv'.is = "pending" => readId' # 0 \/ deferredRead' \/ Announces'
<1>1. AwaitedIsUnderway <=> /\ pollId # 0 => Carries("poll", pollId)
                            /\ readId # 0 => Carries("formats", readId)
                            /\ \A i \in dataIds : Carries("data", i)
                            /\ adv.is = "pending" => readId # 0 \/ deferredRead \/ Announces
  BY DEF AwaitedIsUnderway, Carries, Announces, Has
<1>2. AwaitedIsUnderway' <=> /\ pollId' # 0 => Carries("poll", pollId)'
                             /\ readId' # 0 => Carries("formats", readId)'
                             /\ \A i \in dataIds' : Carries("data", i)'
                             /\ adv'.is = "pending" => readId' # 0 \/ deferredRead' \/ Announces'
  BY DEF AwaitedIsUnderway, Carries, Announces, Has
<1> QED
  BY <1>1, <1>2

(* A step that changes neither the messages nor the requests owes as many  *)
(* answers as before.                                                      *)
LEMMA SameAnswers ==
  ASSUME OneAnswerEach, UNCHANGED <<waiting, toClient, dataIds, toServer>>
  PROVE  OneAnswerEach'
  BY DEF OneAnswerEach, Count

(* A step that leaves the worker, the announcement and the messages alone  *)
(* awaits what it awaited.                                                 *)
LEMMA SameAwaited ==
  ASSUME AwaitedIsUnderway,
         UNCHANGED <<cmd, exec, res, pollId, readId, dataIds, adv, deferredRead>>,
         Announces => Announces'
  PROVE  AwaitedIsUnderway'
<1>1. /\ Carries("poll", pollId)' <=> Carries("poll", pollId)
      /\ Carries("formats", readId)' <=> Carries("formats", readId)
      /\ \A i : Carries("data", i)' <=> Carries("data", i)
  BY DEF Carries
<1> QED
  BY <1>1, AwaitedMeans

(* The local clipboard holds a value that is announced as a format.        *)
LEMMA FormatOf == \A x : F(x) \in Formats
  BY DEF F, Formats


(* A local copy.                                                           *)
LEMMA LocalCopiesKeeps ==
  ASSUME ClipboardAssumption, ClipTypeOK, OneAnswerEach, AwaitedIsUnderway,
         NEW v \in LocalVals, LocalCopies(v)
  PROVE  ClipTypeOK' /\ OneAnswerEach' /\ AwaitedIsUnderway'
<1>1. ClipTypeOK'
  BY DEF ClipTypeOK, LocalCopies, Copies, Values, worker, state, server, history
<1>2. OneAnswerEach'
  BY SameAnswers DEF LocalCopies, state, server
<1>3. AwaitedIsUnderway'
  BY SameAwaited DEF LocalCopies, worker, state, Announces
<1> QED
  BY <1>1, <1>2, <1>3

(* A copy at the server: its list awaits nothing.                          *)
LEMMA ServerCopiesKeeps ==
  ASSUME ClipboardAssumption, ClipTypeOK, OneAnswerEach, AwaitedIsUnderway,
         NEW v \in RemoteVals, ServerCopies(v)
  PROVE  ClipTypeOK' /\ OneAnswerEach' /\ AwaitedIsUnderway'
<1> DEFINE m == [kind |-> "list", f |-> F(v)]
<1>1. m \in ToClient /\ m.kind = "list" /\ toClient \in Seq(ToClient) /\ toClient' = Append(toClient, m)
  <2>1. m \in ToClient /\ m.kind = "list"
    BY MessageMade, FormatOf
  <2> QED
    BY <2>1 DEF ClipTypeOK, ServerCopies
<1> HIDE DEF m
<1>2. /\ toClient' \in Seq(ToClient) /\ Count(toClient', "want") = Count(toClient, "want")
      /\ Count(toClient, "want") \in Nat
  BY <1>1, CountAppend, CountTyped
<1>3. ClipTypeOK'
  BY <1>2 DEF ClipTypeOK, ServerCopies, Copies, Values, worker, state, server, history
<1>4. OneAnswerEach'
  BY <1>2 DEF OneAnswerEach, ServerCopies, state, Count
<1>5. Has(toClient', "ack") <=> Has(toClient, "ack")
  BY <1>1, HasAppend
<1>6. AwaitedIsUnderway'
  BY <1>5, SameAwaited DEF ServerCopies, worker, state, Announces, Has
<1> QED
  BY <1>3, <1>4, <1>6

(* A paste at the server: one request more, one answer more to come.       *)
LEMMA ServerWantsKeeps ==
  ASSUME ClipboardAssumption, ClipTypeOK, OneAnswerEach, AwaitedIsUnderway,
         ServerWants
  PROVE  ClipTypeOK' /\ OneAnswerEach' /\ AwaitedIsUnderway'
<1> DEFINE m == [kind |-> "want", f |-> clip]
<1>1. m \in ToClient /\ m.kind = "want" /\ toClient \in Seq(ToClient) /\ toClient' = Append(toClient, m)
  <2>1. m \in ToClient /\ m.kind = "want"
    BY MessageMade DEF ServerWants
  <2> QED
    BY <2>1 DEF ClipTypeOK, ServerWants
<1> HIDE DEF m
<1>2. /\ toClient' \in Seq(ToClient) /\ Count(toClient', "want") = Count(toClient, "want") + 1
      /\ Count(toClient, "want") \in Nat
  BY <1>1, CountAppend, CountTyped
<1>3. /\ waiting \in Nat /\ waiting' = waiting + 1 /\ events' \in 0 .. MaxEvents
  BY DEF ClipTypeOK, ServerWants, ClipboardAssumption
<1>4. ClipTypeOK'
  <2>1. waiting' \in Nat
    BY <1>3
  <2>2. UNCHANGED <<board, worker, cmd, res, ready, state, toServer, clip, spent, excused>>
    BY DEF ServerWants
  <2> QED
    BY <1>2, <1>3, <2>1, <2>2 DEF ClipTypeOK, worker, state
<1>5. IsFiniteSet(dataIds) /\ Count(toServer, "data") \in Nat
  <2>1. dataIds \in SUBSET (1 .. 6) /\ 1 \in Int /\ 6 \in Int
    BY DEF ClipTypeOK, Ids
  <2>2. IsFiniteSet(dataIds)
    BY <2>1, FS_Interval, FS_Subset
  <2> QED
    BY <2>2, CountTyped DEF ClipTypeOK
<1>6. Cardinality(dataIds) \in Nat
  BY <1>5, FS_CardinalityType
<1>7. OneAnswerEach'
  <2>1. /\ waiting' = Count(toClient', "want") + Cardinality(dataIds) + Count(toServer, "data")
    BY <1>2, <1>3, <1>5, <1>6 DEF OneAnswerEach
  <2> QED
    BY <2>1 DEF OneAnswerEach, ServerWants, state, Count
<1>8. Has(toClient', "ack") <=> Has(toClient, "ack")
  BY <1>1, HasAppend
<1>9. AwaitedIsUnderway'
  BY <1>8, SameAwaited DEF ServerWants, worker, state, Announces, Has
<1> QED
  BY <1>4, <1>7, <1>9

-----------------------------------------------------------------------------
(* The numbers that OneAnswerEach adds up.                                 *)
LEMMA AnswerNumbers ==
  ASSUME ClipTypeOK
  PROVE  /\ IsFiniteSet(dataIds) /\ Cardinality(dataIds) \in Nat
         /\ Count(toServer, "data") \in Nat /\ Count(toClient, "want") \in Nat
<1>1. dataIds \in SUBSET (1 .. 6) /\ 1 \in Int /\ 6 \in Int
  BY DEF ClipTypeOK, Ids
<1>2. IsFiniteSet(dataIds)
  BY <1>1, FS_Interval, FS_Subset
<1>3. Count(toServer, "data") \in Nat /\ Count(toClient, "want") \in Nat
  BY CountTyped DEF ClipTypeOK
<1> QED
  BY <1>2, <1>3, FS_CardinalityType

\* Whatever read or poll the worker has, it still has after the step.
CarriesOn == \A i : /\ Carries("poll", i) => Carries("poll", i)'
                    /\ Carries("formats", i) => Carries("formats", i)'
                    /\ Carries("data", i) => Carries("data", i)'

(* Nothing is lost between the queues: a command goes into an empty queue, *)
(* from there to the worker's hand, and its result into an empty queue.    *)
LEMMA QueuesKeep ==
  /\ UNCHANGED <<cmd, exec, res>> => CarriesOn
  /\ cmd = None /\ UNCHANGED <<exec, res>>
       => CarriesOn /\ Carries(cmd.kind, cmd.id)'
  /\ exec = None /\ res' = res /\ exec'.kind = cmd.kind /\ (cmd.kind = "apply" \/ exec'.id = cmd.id)
       => CarriesOn
  /\ res = None /\ res' = exec /\ cmd' = cmd => CarriesOn
<1>1. UNCHANGED <<cmd, exec, res>> => CarriesOn
  BY DEF CarriesOn, Carries
<1>2. cmd = None /\ UNCHANGED <<exec, res>> => CarriesOn /\ Carries(cmd.kind, cmd.id)'
  BY DEF CarriesOn, Carries, None
<1>3. exec = None /\ res' = res /\ exec'.kind = cmd.kind /\ (cmd.kind = "apply" \/ exec'.id = cmd.id)
        => CarriesOn
  BY DEF CarriesOn, Carries, None
<1>4. res = None /\ res' = exec /\ cmd' = cmd => CarriesOn
  BY DEF CarriesOn, Carries, None
<1> QED
  BY <1>1, <1>2, <1>3, <1>4

(* A result that is taken is the only operation the worker lets go.        *)
LEMMA ResultTaken ==
  ASSUME res' = None, UNCHANGED <<cmd, exec>>, NEW k, NEW i, Carries(k, i),
         ~(res.kind = k /\ res.id = i)
  PROVE  Carries(k, i)'
  BY DEF Carries

(* While the worker loses nothing and nothing new is awaited, what is      *)
(* awaited stays under way.                                                *)
LEMMA AwaitedOn ==
  ASSUME AwaitedIsUnderway, CarriesOn, UNCHANGED <<pollId, readId, dataIds, adv, deferredRead>>,
         Announces => Announces'
  PROVE  AwaitedIsUnderway'
<1>1. /\ pollId # 0 => Carries("poll", pollId)'
      /\ readId # 0 => Carries("formats", readId)'
      /\ \A i \in dataIds : Carries("data", i)'
  BY AwaitedMeans DEF CarriesOn
<1>2. adv.is = "pending" => readId # 0 \/ deferredRead \/ Announces'
  BY AwaitedMeans
<1>3. /\ pollId' = pollId /\ readId' = readId /\ dataIds' = dataIds
  OBVIOUS
<1>4. /\ pollId' # 0 => Carries("poll", pollId)'
      /\ readId' # 0 => Carries("formats", readId)'
      /\ \A i \in dataIds' : Carries("data", i)'
  BY <1>1, <1>3 DEF Carries
<1> QED
  BY <1>2, <1>4, AwaitedMeans


(* The server takes a list and acknowledges it, answers a request, or gets its*)
(* answer: one request less.                                               *)
LEMMA ServerHandlesKeeps ==
  ASSUME ClipboardAssumption, ClipTypeOK, OneAnswerEach, AwaitedIsUnderway,
         NEW rejected \in BOOLEAN, ServerHandles(rejected)
  PROVE  ClipTypeOK' /\ OneAnswerEach' /\ AwaitedIsUnderway'
<1> DEFINE m == Head(toServer)
           t == Tail(toServer)
<1>1. /\ toServer \in Seq(ToServer) /\ toServer # <<>> /\ toClient \in Seq(ToClient)
      /\ toServer' = t /\ UNCHANGED dataIds
  BY DEF ClipTypeOK, ServerHandles, state
<1>2. /\ t \in Seq(ToServer) /\ m \in ToServer
      /\ Count(toServer, "data") = Count(t, "data") + (IF m.kind = "data" THEN 1 ELSE 0)
      /\ Count(t, "data") \in Nat /\ (Has(toServer, "list") => Has(t, "list") \/ m.kind = "list")
  <2>1. /\ t \in Seq(ToServer) /\ m \in ToServer
        /\ Count(toServer, "data") = Count(t, "data") + (IF m.kind = "data" THEN 1 ELSE 0)
    BY <1>1, CountTail
  <2>2. Count(t, "data") \in Nat
    BY <2>1, CountTyped
  <2>3. Has(toServer, "list") => Has(t, "list") \/ m.kind = "list"
    BY <1>1, HasTail
  <2> QED
    BY <2>1, <2>2, <2>3
<1>3. /\ m.kind \in {"list", "data", "want"}
      /\ m.kind \in {"list", "data"} => m.v \in Values \cup {Nothing}
  BY <1>2, MessageShape
<1>4. /\ waiting' = IF m.kind = "data" THEN waiting - 1 ELSE waiting
      /\ events' = IF rejected THEN events + 1 ELSE events
      /\ rejected => m.kind = "list" /\ events < MaxEvents
      /\ clip' = CASE m.kind # "list" \/ rejected -> clip
                   [] m.v = Nothing -> "empty"
                   [] OTHER -> F(m.v)
      /\ UNCHANGED <<board, worker, cmd, res, ready, state, spent, excused>>
  BY DEF ServerHandles
<1>5. \/ m.kind = "list" /\ toClient' = Append(toClient, [kind |-> "ack", ok |-> ~rejected])
      \/ m.kind = "want" /\ \E x \in RemoteVals \cup {Nothing} :
                               toClient' = Append(toClient, [kind |-> "data", v |-> x])
      \/ m.kind = "data" /\ toClient' = toClient
  <2>1. CASE m.kind = "list"
    BY <2>1 DEF ServerHandles
  <2>2. CASE m.kind = "want"
    BY <2>2 DEF ServerHandles
  <2>3. CASE m.kind = "data"
    BY <2>3 DEF ServerHandles
  <2> QED
    BY <1>3, <2>1, <2>2, <2>3
<1> HIDE DEF m, t
<1>6. /\ toClient' \in Seq(ToClient) /\ Count(toClient', "want") = Count(toClient, "want")
      /\ Has(toClient, "ack") => Has(toClient', "ack")
      /\ m.kind = "list" => Has(toClient', "ack")
  <2>1. CASE m.kind = "list"
    <3> DEFINE a == [kind |-> "ack", ok |-> ~rejected]
    <3>1. a \in ToClient /\ a.kind = "ack"
      BY MessageMade
    <3>2. toClient' = Append(toClient, a)
      BY <1>5, <2>1
    <3> HIDE DEF a
    <3>3. Count(toClient', "want") = Count(toClient, "want") + 0 /\ toClient' \in Seq(ToClient)
      BY <1>1, <3>1, <3>2, CountAppend
    <3>4. Has(toClient', "ack")
      BY <1>1, <3>1, <3>2, HasAppend
    <3> QED
      BY <3>3, <3>4, AnswerNumbers
  <2>2. CASE m.kind = "want"
    <3>1. PICK x \in RemoteVals \cup {Nothing} :
             toClient' = Append(toClient, [kind |-> "data", v |-> x])
      BY <1>5, <2>2
    <3> DEFINE a == [kind |-> "data", v |-> x]
    <3>2. a \in ToClient /\ a.kind = "data"
      BY MessageMade
    <3>3. toClient' = Append(toClient, a)
      BY <3>1
    <3> HIDE DEF a
    <3>4. Count(toClient', "want") = Count(toClient, "want") + 0 /\ toClient' \in Seq(ToClient)
      BY <1>1, <3>2, <3>3, CountAppend
    <3>5. Has(toClient, "ack") => Has(toClient', "ack")
      BY <1>1, <3>2, <3>3, HasAppend
    <3> QED
      BY <2>2, <3>4, <3>5, AnswerNumbers
  <2>3. CASE m.kind = "data"
    BY <1>1, <1>5, <2>3
  <2> QED
    BY <1>3, <2>1, <2>2, <2>3
<1>7. waiting = Count(toClient', "want") + Cardinality(dataIds) + Count(toServer, "data")
  BY <1>6 DEF OneAnswerEach
<1>8. /\ waiting' \in Nat
      /\ waiting' = Count(toClient', "want") + Cardinality(dataIds) + Count(t, "data")
  <2>1. /\ Cardinality(dataIds) \in Nat /\ Count(toClient', "want") \in Nat
        /\ Count(t, "data") \in Nat
    BY <1>2, <1>6, AnswerNumbers
  <2>2. CASE m.kind = "data"
    BY <1>2, <1>4, <1>7, <2>1, <2>2
  <2>3. CASE m.kind # "data"
    BY <1>2, <1>4, <1>7, <2>1, <2>3
  <2> QED
    BY <2>2, <2>3
<1>9. ClipTypeOK'
  <2>1. events' \in 0 .. MaxEvents
    BY <1>4 DEF ClipTypeOK, ClipboardAssumption
  <2>2. clip' \in Values \cup Formats \cup {Nothing, "empty"}
    <3>1. clip \in Values \cup Formats \cup {Nothing, "empty"}
      BY DEF ClipTypeOK
    <3> QED
      BY <1>4, <3>1, FormatOf
  <2> QED
    BY <1>1, <1>2, <1>4, <1>6, <1>8, <2>1, <2>2 DEF ClipTypeOK, worker, state
<1>10. OneAnswerEach'
  BY <1>1, <1>8 DEF OneAnswerEach, Count
<1>11. AwaitedIsUnderway'
  <2>1. Announces => Announces'
    BY <1>1, <1>2, <1>6 DEF Announces, Has
  <2> QED
    BY <1>4, <2>1, SameAwaited DEF worker, state
<1> QED
  BY <1>9, <1>10, <1>11

-----------------------------------------------------------------------------
\* The states of an announcement.
Stages == {Idle, Confirmed} \cup {Pending(n, b) : n \in 0 .. Attempts - 1, b \in BOOLEAN}

(* What the announcement remembers while it is pending.                    *)
LEMMA StageShape ==
  ASSUME ClipboardAssumption
  PROVE  /\ Idle \in Stages /\ Confirmed \in Stages
         /\ Idle.is # "pending" /\ Confirmed.is # "pending"
         /\ \A n \in 0 .. Attempts - 1, b \in BOOLEAN :
              Pending(n, b) \in Stages /\ Pending(n, b).is = "pending"
         /\ Pending(0, FALSE) \in Stages
         /\ \A a \in Stages : a.is = "pending" => a.attempt \in 0 .. Attempts - 1 /\ a.resend \in BOOLEAN
<1>1. /\ Idle \in Stages /\ Confirmed \in Stages
      /\ Idle.is # "pending" /\ Confirmed.is # "pending"
  BY DEF Stages, Idle, Confirmed
<1>2. \A n \in 0 .. Attempts - 1, b \in BOOLEAN :
        Pending(n, b) \in Stages /\ Pending(n, b).is = "pending"
  BY DEF Stages, Pending
<1>3. 0 \in 0 .. Attempts - 1
  BY DEF ClipboardAssumption
<1>4. ASSUME NEW a \in Stages, a.is = "pending"
      PROVE  a.attempt \in 0 .. Attempts - 1 /\ a.resend \in BOOLEAN
  <2>1. PICK n \in 0 .. Attempts - 1, b \in BOOLEAN : a = Pending(n, b)
    BY <1>1, <1>4 DEF Stages
  <2> QED
    BY <2>1 DEF Pending
<1> QED
  BY <1>1, <1>2, <1>3, <1>4

(* request_formats: the read is under way, or is put off.                  *)
LEMMA RequestKeeps ==
  ASSUME ClipTypeOK, AwaitedIsUnderway, RequestFormats, UNCHANGED <<exec, res>>
  PROVE  /\ cmd' \in Work /\ readId' \in Ids \cup {0} /\ deferredRead' \in BOOLEAN /\ CarriesOn
         /\ readId' # 0 => Carries("formats", readId)'
         /\ readId' # 0 \/ deferredRead'
<1>1. CASE cmd = None
  <2>1. NewId \in Ids
    BY FreshId
  <2>2. cmd' = [kind |-> "formats", id |-> NewId] /\ readId' = NewId /\ deferredRead' = deferredRead
    BY <1>1 DEF RequestFormats
  <2>3. cmd' \in Work
    BY <2>1, <2>2, WorkMade
  <2>4. CarriesOn
    BY <1>1, QueuesKeep
  <2>5. Carries("formats", readId)'
    BY <2>2 DEF Carries
  <2>6. deferredRead' \in BOOLEAN /\ NewId # 0
    BY <2>1, <2>2 DEF ClipTypeOK, Ids
  <2> QED
    BY <2>1, <2>2, <2>3, <2>4, <2>5, <2>6
<1>2. CASE cmd # None
  <2>1. readId' = 0 /\ deferredRead' = TRUE /\ cmd' = cmd
    BY <1>2 DEF RequestFormats
  <2>2. CarriesOn
    BY <2>1, QueuesKeep
  <2> QED
    BY <2>1, <2>2 DEF ClipTypeOK
<1> QED
  BY <1>1, <1>2

(* advertise: an announcement is pending, and its read, its list or its    *)
(* acknowledgement is under way.                                           *)
LEMMA AdvertiseKeeps ==
  ASSUME ClipboardAssumption, ClipTypeOK, AwaitedIsUnderway, Advertise, UNCHANGED <<exec, res>>,
         Announces => Announces'
  PROVE  /\ cmd' \in Work /\ readId' \in Ids \cup {0} /\ deferredRead' \in BOOLEAN /\ adv' \in Stages
         /\ CarriesOn
         /\ readId' # 0 => Carries("formats", readId)'
         /\ readId' # 0 \/ deferredRead' \/ Announces'
<1>1. CASE adv.is = "pending"
  <2>1. adv' = Pending(adv.attempt, TRUE) /\ UNCHANGED <<cmd, readId, deferredRead>>
    BY <1>1 DEF Advertise
  <2>2. adv' \in Stages
    <3>1. adv \in Stages
      BY DEF ClipTypeOK, Stages
    <3>2. adv.attempt \in 0 .. Attempts - 1 /\ TRUE \in BOOLEAN
      BY <1>1, <3>1, StageShape
    <3> QED
      BY <2>1, <3>2, StageShape
  <2>3. CarriesOn
    BY <2>1, QueuesKeep
  <2>4. /\ readId' # 0 => Carries("formats", readId)'
        /\ readId' # 0 \/ deferredRead' \/ Announces'
    <3>1. (readId # 0 => Carries("formats", readId)) /\ (readId # 0 \/ deferredRead \/ Announces)
      BY <1>1, AwaitedMeans
    <3> QED
      BY <2>1, <3>1 DEF Carries
  <2>5. cmd' \in Work /\ readId' \in Ids \cup {0} /\ deferredRead' \in BOOLEAN
    BY <2>1 DEF ClipTypeOK
  <2> QED
    BY <2>2, <2>3, <2>4, <2>5, Zenon
<1>2. CASE adv.is # "pending"
  <2>1. adv' = Pending(0, FALSE) /\ RequestFormats
    BY <1>2 DEF Advertise
  <2>2. /\ cmd' \in Work /\ readId' \in Ids \cup {0} /\ deferredRead' \in BOOLEAN /\ CarriesOn
        /\ readId' # 0 => Carries("formats", readId)'
        /\ readId' # 0 \/ deferredRead'
    BY <2>1, RequestKeeps
  <2>3. adv' \in Stages
    BY <2>1, StageShape
  <2>4. readId' # 0 \/ deferredRead' \/ Announces'
    BY <2>2, Zenon
  <2> QED
    BY <2>2, <2>3, <2>4, Zenon
<1> QED
  BY <1>1, <1>2

(* What a step awaits, from what it announces, carries on and leaves alone. *)
LEMMA AwaitedAfter ==
  ASSUME AwaitedIsUnderway, CarriesOn, UNCHANGED <<pollId, dataIds>>,
         readId' # 0 => Carries("formats", readId)',
         adv'.is = "pending" => readId' # 0 \/ deferredRead' \/ Announces'
  PROVE  AwaitedIsUnderway'
<1>1. /\ pollId # 0 => Carries("poll", pollId)'
      /\ \A i \in dataIds : Carries("data", i)'
  BY AwaitedMeans DEF CarriesOn
<1>2. pollId' = pollId /\ dataIds' = dataIds
  OBVIOUS
<1>3. /\ pollId' # 0 => Carries("poll", pollId)'
      /\ \A i \in dataIds' : Carries("data", i)'
  BY <1>1, <1>2 DEF Carries
<1> QED
  BY <1>3, AwaitedMeans

(* A message of the server is heard: what was behind it stays in order.    *)
LEMMA Heard ==
  ASSUME ClipTypeOK, NEW k, Hears(k)
  PROVE  /\ toClient \in Seq(ToClient) /\ toClient # <<>> /\ toClient' = Tail(toClient)
         /\ toClient' \in Seq(ToClient) /\ Head(toClient) \in ToClient /\ Head(toClient).kind = k
         /\ Count(toClient, "want") = Count(toClient', "want") + (IF k = "want" THEN 1 ELSE 0)
         /\ Count(toClient', "want") \in Nat
         /\ k # "ack" => (Has(toClient, "ack") => Has(toClient', "ack"))
<1>1. /\ toClient \in Seq(ToClient) /\ toClient # <<>> /\ toClient' = Tail(toClient)
      /\ Head(toClient).kind = k
  BY DEF ClipTypeOK, Hears
<1>2. /\ toClient' \in Seq(ToClient) /\ Head(toClient) \in ToClient
      /\ Count(toClient, "want") = Count(toClient', "want") + (IF k = "want" THEN 1 ELSE 0)
  BY <1>1, CountTail
<1>3. Count(toClient', "want") \in Nat
  BY <1>2, CountTyped
<1>4. k # "ack" => (Has(toClient, "ack") => Has(toClient', "ack"))
  BY <1>1, HasTail
<1> QED
  BY <1>1, <1>2, <1>3, <1>4

(* Another message than a request is heard: the same answers are owed.     *)
LEMMA HeardOther ==
  ASSUME ClipTypeOK, OneAnswerEach, NEW k, k # "want", Hears(k), UNCHANGED <<waiting, dataIds, toServer>>
  PROVE  OneAnswerEach'
<1>1. Count(toClient', "want") = Count(toClient, "want")
  BY Heard
<1> QED
  BY <1>1 DEF OneAnswerEach, Count


(* A local change is announced.                                            *)
LEMMA AdvertiseRequestedKeeps ==
  ASSUME ClipboardAssumption, ClipTypeOK, OneAnswerEach, AwaitedIsUnderway,
         AdvertiseRequested
  PROVE  ClipTypeOK' /\ OneAnswerEach' /\ AwaitedIsUnderway'
<1>1. /\ Advertise /\ local' = FALSE
      /\ UNCHANGED <<board, worker, res, ready, paste, gen, pollId, dataIds, deferredApply, toServer,
                     toClient, server, history>>
  BY DEF AdvertiseRequested
<1>2. UNCHANGED <<exec, res, pollId, dataIds>> /\ (Announces => Announces')
  BY <1>1 DEF worker, Announces
<1>3. /\ cmd' \in Work /\ readId' \in Ids \cup {0} /\ deferredRead' \in BOOLEAN /\ adv' \in Stages
      /\ CarriesOn
      /\ readId' # 0 => Carries("formats", readId)'
      /\ readId' # 0 \/ deferredRead' \/ Announces'
  BY <1>1, <1>2, AdvertiseKeeps
<1>4. ClipTypeOK'
  <2>1. /\ cmd' \in Work /\ readId' \in Ids \cup {0} /\ deferredRead' \in BOOLEAN
        /\ adv' \in Stages /\ local' \in BOOLEAN
    BY <1>1, <1>3
  <2>2. UNCHANGED <<board, worker, res, ready, paste, gen, pollId, dataIds, deferredApply, toServer,
                    toClient, server, history>>
    BY <1>1
  <2> QED
    BY <2>1, <2>2 DEF ClipTypeOK, Stages, worker, server, history
<1>5. OneAnswerEach'
  BY <1>1, SameAnswers DEF server
<1>6. AwaitedIsUnderway'
  BY <1>2, <1>3, AwaitedAfter
<1> QED
  BY <1>4, <1>5, <1>6

(* The server is ready for our first list.                                 *)
LEMMA ListRequestedKeeps ==
  ASSUME ClipboardAssumption, ClipTypeOK, OneAnswerEach, AwaitedIsUnderway,
         ListRequested
  PROVE  ClipTypeOK' /\ OneAnswerEach' /\ AwaitedIsUnderway'
<1>1. /\ Hears("ready") /\ ready' = TRUE /\ Advertise
      /\ UNCHANGED <<board, worker, res, paste, gen, pollId, dataIds, deferredApply, local, toServer,
                     server, history>>
  BY DEF ListRequested
<1>2. /\ toClient' \in Seq(ToClient) /\ (Has(toClient, "ack") => Has(toClient', "ack"))
  BY <1>1, Heard
<1>3. UNCHANGED <<exec, res, pollId, dataIds>> /\ (Announces => Announces')
  BY <1>1, <1>2 DEF worker, Announces, Has
<1>4. /\ cmd' \in Work /\ readId' \in Ids \cup {0} /\ deferredRead' \in BOOLEAN /\ adv' \in Stages
      /\ CarriesOn
      /\ readId' # 0 => Carries("formats", readId)'
      /\ readId' # 0 \/ deferredRead' \/ Announces'
  BY <1>1, <1>3, AdvertiseKeeps
<1>5. ClipTypeOK'
  <2>1. ready' \in BOOLEAN
    BY <1>1
  <2>2. UNCHANGED <<board, worker, res, paste, gen, pollId, dataIds, deferredApply, local, toServer,
                    server, history>>
    BY <1>1
  <2>3. /\ toClient' \in Seq(ToClient) /\ cmd' \in Work /\ readId' \in Ids \cup {0}
        /\ deferredRead' \in BOOLEAN /\ adv' \in Stages
    BY <1>2, <1>4
  <2> QED
    BY <2>1, <2>2, <2>3 DEF ClipTypeOK, Stages, worker, server, history
<1>6. OneAnswerEach'
  BY <1>1, HeardOther DEF server
<1>7. AwaitedIsUnderway'
  BY <1>3, <1>4, AwaitedAfter
<1> QED
  BY <1>5, <1>6, <1>7

(* The server took or rejected our list: a copy made meanwhile, or a rejection*)
(* that is retried, asks for the formats again; otherwise nothing is pending.*)
LEMMA ListAckedKeeps ==
  ASSUME ClipboardAssumption, ClipTypeOK, OneAnswerEach, AwaitedIsUnderway,
         ListAcked
  PROVE  ClipTypeOK' /\ OneAnswerEach' /\ AwaitedIsUnderway'
<1>1. /\ Hears("ack")
      /\ UNCHANGED <<board, worker, res, ready, paste, gen, pollId, dataIds, deferredApply, local,
                     toServer, server, history>>
  BY DEF ListAcked
<1>2. toClient' \in Seq(ToClient) /\ Head(toClient) \in ToClient /\ Head(toClient).kind = "ack"
  BY <1>1, Heard
<1>3. Head(toClient).ok \in BOOLEAN
  BY <1>2, MessageShape
<1>4. UNCHANGED <<exec, res, pollId, dataIds>>
  BY <1>1 DEF worker
<1>5. \/ adv' \in Stages /\ RequestFormats
      \/ /\ adv' \in Stages /\ adv'.is # "pending"
         /\ UNCHANGED <<cmd, readId, deferredRead>>
  <2>1. CASE adv.is = "pending" /\ adv.resend
    <3>1. adv' = Pending(0, FALSE) /\ RequestFormats
      BY <2>1 DEF ListAcked
    <3> QED
      BY <3>1, StageShape
  <2>2. CASE ~(adv.is = "pending" /\ adv.resend) /\ Head(toClient).ok
    <3>1. adv' = Confirmed /\ UNCHANGED <<cmd, readId, deferredRead>>
      BY <2>2, StageShape DEF ListAcked, ClipTypeOK, Stages
    <3> QED
      BY <3>1, StageShape
  <2>3. CASE adv.is = "pending" /\ ~adv.resend /\ ~Head(toClient).ok
    <3>1. adv \in Stages
      BY DEF ClipTypeOK, Stages
    <3>2. IF Retries(adv.attempt) THEN adv' = Pending(adv.attempt + 1, FALSE) /\ RequestFormats
          ELSE adv' = Idle /\ UNCHANGED <<cmd, readId, deferredRead>>
      BY <2>3 DEF ListAcked
    <3>3. CASE Retries(adv.attempt)
      <4>1. adv.attempt + 1 \in 0 .. Attempts - 1
        <5>1. adv.attempt \in 0 .. Attempts - 1
          BY <2>3, <3>1, StageShape
        <5>2. adv.attempt + 1 < Attempts /\ Attempts \in Nat
          BY <3>3 DEF Retries, ClipboardAssumption
        <5> QED
          BY <5>1, <5>2
      <4> QED
        BY <3>2, <3>3, <4>1, StageShape
    <3>4. CASE ~Retries(adv.attempt)
      BY <3>2, <3>4, StageShape
    <3> QED
      BY <3>3, <3>4
  <2>4. CASE adv.is # "pending" /\ ~Head(toClient).ok
    <3>1. UNCHANGED <<adv, cmd, readId, deferredRead>>
      BY <2>4 DEF ListAcked
    <3> QED
      BY <2>4, <3>1 DEF ClipTypeOK, Stages
  <2> QED
    BY <2>1, <2>2, <2>3, <2>4
<1>6. /\ cmd' \in Work /\ readId' \in Ids \cup {0} /\ deferredRead' \in BOOLEAN /\ adv' \in Stages
      /\ CarriesOn
      /\ readId' # 0 => Carries("formats", readId)'
      /\ adv'.is = "pending" => readId' # 0 \/ deferredRead' \/ Announces'
  <2>1. CASE adv' \in Stages /\ RequestFormats
    BY <1>4, <2>1, RequestKeeps
  <2>2. CASE adv' \in Stages /\ adv'.is # "pending" /\ UNCHANGED <<cmd, readId, deferredRead>>
    <3>1. CarriesOn
      BY <1>4, <2>2, QueuesKeep
    <3>2. readId # 0 => Carries("formats", readId)
      BY AwaitedMeans
    <3>3. readId' # 0 => Carries("formats", readId)'
      BY <1>4, <2>2, <3>2 DEF Carries
    <3> QED
      BY <2>2, <3>1, <3>3 DEF ClipTypeOK
  <2> QED
    BY <1>5, <2>1, <2>2
<1>7. ClipTypeOK'
  BY <1>1, <1>2, <1>6 DEF ClipTypeOK, Stages, worker, server, history
<1>8. OneAnswerEach'
  BY <1>1, HeardOther DEF server
<1>9. AwaitedIsUnderway'
  BY <1>4, <1>6, AwaitedAfter
<1> QED
  BY <1>7, <1>8, <1>9

(* A message to the server is one message more of its kind.                *)
LEMMA Said ==
  ASSUME ClipTypeOK, NEW m \in ToServer, Say(m)
  PROVE  /\ toServer' \in Seq(ToServer)
         /\ Count(toServer', "data") = Count(toServer, "data") + (IF m.kind = "data" THEN 1 ELSE 0)
         /\ Has(toServer', "list") <=> Has(toServer, "list") \/ m.kind = "list"
<1>1. toServer \in Seq(ToServer) /\ toServer' = Append(toServer, m)
  BY DEF ClipTypeOK, Say
<1>2. /\ toServer' \in Seq(ToServer)
      /\ Count(toServer', "data") = Count(toServer, "data") + (IF m.kind = "data" THEN 1 ELSE 0)
  BY <1>1, CountAppend
<1>3. Has(toServer', "list") <=> Has(toServer, "list") \/ m.kind = "list"
  BY <1>1, HasAppend
<1> QED
  BY <1>2, <1>3

(* OneAnswerEach after a step, from the numbers it adds up.                *)
LEMMA AnswersAfter ==
  ASSUME waiting' = Count(toClient', "want") + Cardinality(dataIds') + Count(toServer', "data")
  PROVE  OneAnswerEach'
  BY DEF OneAnswerEach, Count


(* A copy at the server is asked for.                                      *)
LEMMA RemoteCopyKeeps ==
  ASSUME ClipboardAssumption, ClipTypeOK, OneAnswerEach, AwaitedIsUnderway,
         RemoteCopy
  PROVE  ClipTypeOK' /\ OneAnswerEach' /\ AwaitedIsUnderway'
<1>1. /\ Hears("list") /\ paste' = Head(toClient).f
      /\ Say([kind |-> "want", f |-> Head(toClient).f])
      /\ UNCHANGED <<board, worker, cmd, res, ready, adv, gen, pollId, readId, dataIds, deferredRead,
                     deferredApply, local, server, history>>
  BY DEF RemoteCopy
<1>2. /\ toClient' \in Seq(ToClient) /\ Head(toClient) \in ToClient /\ Head(toClient).kind = "list"
      /\ Count(toClient', "want") = Count(toClient, "want")
      /\ Has(toClient, "ack") => Has(toClient', "ack")
  BY <1>1, Heard
<1>3. Head(toClient).f \in Formats
  BY <1>2, MessageShape
<1> DEFINE m == [kind |-> "want", f |-> Head(toClient).f]
<1>4. m \in ToServer /\ m.kind = "want" /\ Say(m)
  BY <1>1, <1>3, MessageMade
<1> HIDE DEF m
<1>5. /\ toServer' \in Seq(ToServer) /\ Count(toServer', "data") = Count(toServer, "data")
      /\ Has(toServer', "list") <=> Has(toServer, "list")
  <2>1. Count(toServer, "data") \in Nat
    BY AnswerNumbers
  <2> QED
    BY <1>4, <2>1, Said
<1>6. ClipTypeOK'
  <2>1. paste' \in Formats \cup {Nothing}
    BY <1>1, <1>3
  <2>2. UNCHANGED <<board, worker, cmd, res, ready, adv, gen, pollId, readId, dataIds, deferredRead,
                    deferredApply, local, server, history>>
    BY <1>1
  <2> QED
    BY <1>2, <1>5, <2>1, <2>2 DEF ClipTypeOK, worker, server, history
<1>7. OneAnswerEach'
  <2>1. waiting' = waiting /\ dataIds' = dataIds
    BY <1>1 DEF server
  <2> QED
    BY <1>2, <1>5, <2>1, AnswersAfter DEF OneAnswerEach
<1>8. AwaitedIsUnderway'
  <2>1. Announces => Announces'
    BY <1>2, <1>5 DEF Announces, Has
  <2> QED
    BY <1>1, <2>1, SameAwaited DEF worker
<1> QED
  BY <1>6, <1>7, <1>8

(* A request of the server becomes a read of the worker, or the answer that*)
(* there is nothing: one request less on its way, one answer more to come. *)
LEMMA LocalDataRequestedKeeps ==
  ASSUME ClipboardAssumption, ClipTypeOK, OneAnswerEach, AwaitedIsUnderway,
         LocalDataRequested
  PROVE  ClipTypeOK' /\ OneAnswerEach' /\ AwaitedIsUnderway'
<1>1. /\ Hears("want") /\ Refusal(cmd # None)
      /\ UNCHANGED <<board, worker, res, ready, adv, paste, gen, pollId, readId, deferredRead,
                     deferredApply, local, server, history>>
  BY DEF LocalDataRequested
<1>2. /\ toClient' \in Seq(ToClient) /\ Head(toClient) \in ToClient /\ Head(toClient).kind = "want"
      /\ Count(toClient, "want") = Count(toClient', "want") + 1
      /\ Count(toClient', "want") \in Nat
      /\ Has(toClient, "ack") => Has(toClient', "ack")
  BY <1>1, Heard
<1>3. Head(toClient).f \in Formats
  BY <1>2, MessageShape
<1>4. /\ IsFiniteSet(dataIds) /\ Cardinality(dataIds) \in Nat
      /\ Count(toServer, "data") \in Nat /\ waiting' = waiting
      /\ waiting = Count(toClient, "want") + Cardinality(dataIds) + Count(toServer, "data")
  BY <1>1, AnswerNumbers DEF server, OneAnswerEach
<1>5. /\ cmd' \in Work /\ dataIds' \in SUBSET Ids /\ toServer' \in Seq(ToServer) /\ CarriesOn
      /\ waiting' = Count(toClient', "want") + Cardinality(dataIds') + Count(toServer', "data")
      /\ \A i \in dataIds' : i \in dataIds \/ Carries("data", i)'
      /\ Has(toServer, "list") => Has(toServer', "list")
  <2>1. CASE cmd = None
    <3>1. /\ cmd' = [kind |-> "data", id |-> NewId, f |-> Head(toClient).f]
          /\ dataIds' = dataIds \cup {NewId} /\ toServer' = toServer
      BY <2>1 DEF LocalDataRequested, Refusal, Quiet
    <3>2. NewId \in Ids /\ NewId \notin dataIds
      BY FreshId
    <3>3. cmd' \in Work
      BY <1>3, <3>1, <3>2, WorkMade
    <3>4. CarriesOn
      BY <1>1, <2>1, QueuesKeep DEF worker
    <3>6. Cardinality(dataIds') = Cardinality(dataIds) + 1
      BY <1>4, <3>1, <3>2, FS_AddElement
    <3>7. \A i \in dataIds' : i \in dataIds \/ Carries("data", i)'
      BY <3>1 DEF Carries
    <3>8. waiting' = Count(toClient', "want") + Cardinality(dataIds') + Count(toServer', "data")
      BY <1>2, <1>4, <3>1, <3>6
    <3> QED
      BY <3>1, <3>2, <3>3, <3>4, <3>7, <3>8 DEF ClipTypeOK
  <2>2. CASE cmd # None
    <3> DEFINE m == [kind |-> "data", v |-> Nothing]
    <3>1. cmd' = cmd /\ dataIds' = dataIds /\ Say(m)
      BY <2>2 DEF LocalDataRequested, Refusal
    <3>2. m \in ToServer /\ m.kind = "data"
      BY MessageMade
    <3> HIDE DEF m
    <3>3. /\ toServer' \in Seq(ToServer) /\ Count(toServer', "data") = Count(toServer, "data") + 1
          /\ Has(toServer', "list") <=> Has(toServer, "list")
      BY <3>1, <3>2, Said
    <3>4. CarriesOn
      BY <1>1, <3>1, QueuesKeep DEF worker
    <3>5. waiting' = Count(toClient', "want") + Cardinality(dataIds') + Count(toServer', "data")
      BY <1>2, <1>4, <3>1, <3>3
    <3> QED
      BY <3>1, <3>3, <3>4, <3>5 DEF ClipTypeOK
  <2> QED
    BY <2>1, <2>2
<1>6. ClipTypeOK'
  <2>1. cmd' \in Work /\ dataIds' \in SUBSET Ids /\ toServer' \in Seq(ToServer)
    BY <1>5
  <2> QED
    BY <1>1, <1>2, <2>1 DEF ClipTypeOK, worker, server, history
<1>7. OneAnswerEach'
  BY <1>5, AnswersAfter
<1>8. AwaitedIsUnderway'
  <2>1. Announces => Announces'
    BY <1>2, <1>5 DEF Announces, Has
  <2>2. /\ pollId # 0 => Carries("poll", pollId)'
        /\ readId # 0 => Carries("formats", readId)'
        /\ \A i \in dataIds' : Carries("data", i)'
    BY <1>1, <1>5, AwaitedMeans DEF CarriesOn
  <2>3. UNCHANGED <<adv, pollId, readId, deferredRead>>
    BY <1>1
  <2>4. adv'.is = "pending" => readId' # 0 \/ deferredRead' \/ Announces'
    <3>1. adv.is = "pending" => readId # 0 \/ deferredRead \/ Announces
      BY AwaitedMeans
    <3> QED
      BY <2>1, <2>3, <3>1
  <2>5. /\ pollId' # 0 => Carries("poll", pollId)'
        /\ readId' # 0 => Carries("formats", readId)'
    BY <2>2, <2>3 DEF Carries
  <2> QED
    BY <2>2, <2>4, <2>5, AwaitedMeans
<1> QED
  BY <1>6, <1>7, <1>8

(* The server's data: ignored, or a write for the worker while whatever was*)
(* observed locally is forgotten.                                          *)
LEMMA RemoteDataKeeps ==
  ASSUME ClipboardAssumption, ClipTypeOK, OneAnswerEach, AwaitedIsUnderway,
         RemoteData
  PROVE  ClipTypeOK' /\ OneAnswerEach' /\ AwaitedIsUnderway'
<1> DEFINE v == Head(toClient).v
           work == [kind |-> "apply", gen |-> NewGen, v |-> v]
<1>1. /\ Hears("data") /\ paste' = Nothing
      /\ UNCHANGED <<board, worker, res, ready, dataIds, local, toServer, server, history>>
  BY DEF RemoteData
<1>2. /\ toClient' \in Seq(ToClient) /\ Head(toClient) \in ToClient /\ Head(toClient).kind = "data"
      /\ Has(toClient, "ack") => Has(toClient', "ack")
  BY <1>1, Heard
<1>3. v \in RemoteVals \cup {Nothing}
  BY <1>2, MessageShape
<1>4. OneAnswerEach'
  BY <1>1, HeardOther DEF server
<1>5. Announces => Announces'
  BY <1>1, <1>2 DEF Announces, Has
<1>6. CASE Ignored(v)
  <2>1. UNCHANGED <<adv, gen, pollId, readId, deferredRead, deferredApply, cmd>>
    BY <1>6 DEF RemoteData
  <2>2. ClipTypeOK'
    <3>1. paste' \in Formats \cup {Nothing}
      BY <1>1
    <3> QED
      BY <1>1, <1>2, <2>1, <3>1 DEF ClipTypeOK, worker, server, history
  <2>3. AwaitedIsUnderway'
    BY <1>1, <1>5, <2>1, SameAwaited DEF worker
  <2> QED
    BY <1>4, <2>2, <2>3
<1>7. CASE ~Ignored(v)
  <2>1. /\ gen' = NewGen /\ pollId' = 0 /\ readId' = 0 /\ deferredRead' = FALSE /\ adv' = Idle
        /\ IF cmd = None THEN cmd' = work /\ deferredApply' = None
           ELSE deferredApply' = work /\ cmd' = cmd
    BY <1>7 DEF RemoteData
  <2>2. NewGen \in Ids /\ v \in Values
    BY <1>3, <1>7, FreshGen DEF Ignored, Values
  <2>3. work \in Work /\ work \in Writings
    BY <2>2, WorkMade
  <2> HIDE DEF work, v
  <2>4. cmd' \in Work /\ deferredApply' \in Writings \cup {None}
    BY <2>1, <2>3 DEF ClipTypeOK
  <2>5. CarriesOn
    <3>1. CASE cmd = None
      BY <1>1, <3>1, QueuesKeep DEF worker
    <3>2. CASE cmd # None
      BY <1>1, <2>1, <3>2, QueuesKeep DEF worker
    <3> QED
      BY <3>1, <3>2
  <2>6. ClipTypeOK'
    <3>1. /\ paste' \in Formats \cup {Nothing} /\ gen' \in Ids /\ deferredRead' \in BOOLEAN
          /\ pollId' \in Ids \cup {0} /\ readId' \in Ids \cup {0} /\ adv' \in Stages
      BY <1>1, <2>1, <2>2, StageShape
    <3>2. UNCHANGED <<board, worker, res, ready, dataIds, local, toServer, server, history>>
      BY <1>1
    <3> QED
      BY <1>2, <2>4, <3>1, <3>2 DEF ClipTypeOK, Stages, worker, server, history
  <2>7. AwaitedIsUnderway'
    <3>1. \A i \in dataIds : Carries("data", i)'
      BY <2>5, AwaitedMeans DEF CarriesOn
    <3>2. dataIds' = dataIds /\ adv'.is # "pending"
      BY <1>1, <2>1, StageShape
    <3> QED
      BY <2>1, <3>1, <3>2, AwaitedMeans
  <2> QED
    BY <1>4, <2>6, <2>7
<1> QED
  BY <1>6, <1>7

-----------------------------------------------------------------------------
(* A result that is taken was awaited no longer, or is awaited no more.    *)
LEMMA AfterResult ==
  ASSUME AwaitedIsUnderway, res' = None, UNCHANGED <<cmd, exec>>,
         pollId' = 0 \/ (pollId' = pollId /\ ~(res.kind = "poll" /\ res.id = pollId)),
         readId' = 0 \/ (readId' = readId /\ ~(res.kind = "formats" /\ res.id = readId)),
         dataIds' \subseteq dataIds, \A i \in dataIds' : ~(res.kind = "data" /\ res.id = i),
         adv'.is = "pending" => readId' # 0 \/ deferredRead' \/ Announces'
  PROVE  AwaitedIsUnderway'
<1>1. pollId' # 0 => Carries("poll", pollId)'
  <2> SUFFICES ASSUME pollId' # 0 PROVE Carries("poll", pollId)'
    OBVIOUS
  <2>1. pollId' = pollId /\ ~(res.kind = "poll" /\ res.id = pollId) /\ Carries("poll", pollId)
    BY AwaitedMeans
  <2> QED
    BY <2>1 DEF Carries
<1>2. readId' # 0 => Carries("formats", readId)'
  <2> SUFFICES ASSUME readId' # 0 PROVE Carries("formats", readId)'
    OBVIOUS
  <2>1. readId' = readId /\ ~(res.kind = "formats" /\ res.id = readId) /\ Carries("formats", readId)
    BY AwaitedMeans
  <2> QED
    BY <2>1 DEF Carries
<1>3. \A i \in dataIds' : Carries("data", i)'
  <2> SUFFICES ASSUME NEW i \in dataIds' PROVE Carries("data", i)'
    OBVIOUS
  <2>1. Carries("data", i) /\ ~(res.kind = "data" /\ res.id = i)
    BY AwaitedMeans
  <2> QED
    BY <2>1, ResultTaken
<1> QED
  BY <1>1, <1>2, <1>3, AwaitedMeans

(* While the announcement, its read and the messages stay, it stays        *)
(* under way.                                                              *)
LEMMA AnnouncedOn ==
  ASSUME AwaitedIsUnderway, UNCHANGED <<adv, readId, deferredRead>>, Announces => Announces'
  PROVE  adv'.is = "pending" => readId' # 0 \/ deferredRead' \/ Announces'
<1>1. adv.is = "pending" => readId # 0 \/ deferredRead \/ Announces
  BY AwaitedMeans
<1> QED
  BY <1>1


(* A poll tells whether the local clipboard changed.                       *)
LEMMA PollResultKeeps ==
  ASSUME ClipboardAssumption, ClipTypeOK, OneAnswerEach, AwaitedIsUnderway,
         PollResult
  PROVE  ClipTypeOK' /\ OneAnswerEach' /\ AwaitedIsUnderway'
<1>1. /\ res.kind = "poll" /\ res' = None
      /\ UNCHANGED <<board, worker, cmd, ready, adv, paste, gen, readId, dataIds, deferredRead,
                     deferredApply, toServer, toClient, server, history>>
  BY DEF PollResult
<1>2. res \in Result /\ res.changed \in BOOLEAN
  BY <1>1, ResultShape DEF ClipTypeOK
<1>3. \/ pollId = res.id /\ pollId' = 0 /\ local' = (local \/ res.changed)
      \/ pollId # res.id /\ pollId' = pollId /\ local' = local
  BY DEF PollResult
<1>4. ClipTypeOK'
  <2>1. res' \in Result
    BY <1>1, ResultMade DEF Ids
  <2>2. local' \in BOOLEAN /\ pollId' \in Ids \cup {0}
    BY <1>2, <1>3 DEF ClipTypeOK
  <2> QED
    BY <1>1, <2>1, <2>2 DEF ClipTypeOK, worker, server, history
<1>5. OneAnswerEach'
  BY <1>1, SameAnswers DEF server
<1>6. AwaitedIsUnderway'
  <2>1. Announces => Announces'
    BY <1>1 DEF Announces
  <2>2. adv'.is = "pending" => readId' # 0 \/ deferredRead' \/ Announces'
    BY <1>1, <2>1, AnnouncedOn
  <2>3. UNCHANGED <<cmd, exec>> /\ readId' = readId /\ dataIds' = dataIds
    BY <1>1 DEF worker
  <2> QED
    BY <1>1, <1>3, <2>2, <2>3, AfterResult
<1> QED
  BY <1>4, <1>5, <1>6

(* The formats that were read go out as a list, or nothing is announced.   *)
LEMMA FormatsResultKeeps ==
  ASSUME ClipboardAssumption, ClipTypeOK, OneAnswerEach, AwaitedIsUnderway,
         FormatsResult
  PROVE  ClipTypeOK' /\ OneAnswerEach' /\ AwaitedIsUnderway'
<1>1. /\ res.kind = "formats" /\ res' = None
      /\ UNCHANGED <<board, worker, cmd, ready, paste, gen, pollId, dataIds, deferredRead,
                     deferredApply, local, toClient, server, history>>
  BY DEF FormatsResult
<1>2. res \in Result /\ res.v \in Values \cup {Nothing} /\ res.id \in Ids
  BY <1>1, ResultShape DEF ClipTypeOK
<1>3. /\ readId' \in Ids \cup {0} /\ adv' \in Stages /\ toServer' \in Seq(ToServer)
      /\ Count(toServer', "data") = Count(toServer, "data")
      /\ adv'.is = "pending" => readId' # 0 \/ deferredRead' \/ Announces'
      /\ readId' = 0 \/ (readId' = readId /\ ~(res.kind = "formats" /\ res.id = readId))
  <2>1. CASE readId = res.id
    <3> DEFINE m == [kind |-> "list", v |-> res.v]
    <3>1. readId' = 0 /\ Say(m) /\ adv' = IF res.v = Nothing THEN Idle ELSE adv
      BY <2>1 DEF FormatsResult
    <3>2. m \in ToServer /\ m.kind = "list"
      BY <1>2, MessageMade
    <3> HIDE DEF m
    <3>3. /\ toServer' \in Seq(ToServer) /\ Count(toServer', "data") = Count(toServer, "data") + 0
          /\ Has(toServer', "list")
      BY <3>1, <3>2, Said
    <3>4. Announces'
      BY <3>3 DEF Announces, Has
    <3>5. adv' \in Stages
      BY <3>1, StageShape DEF ClipTypeOK, Stages
    <3> QED
      BY <3>1, <3>3, <3>4, <3>5, AnswerNumbers
  <2>2. CASE readId # res.id
    <3>1. UNCHANGED <<readId, adv, toServer>>
      BY <2>2 DEF FormatsResult
    <3>2. Announces => Announces'
      BY <1>1, <3>1 DEF Announces
    <3>3. adv'.is = "pending" => readId' # 0 \/ deferredRead' \/ Announces'
      BY <1>1, <3>1, <3>2, AnnouncedOn
    <3>4. readId' \in Ids \cup {0} /\ adv' \in Stages /\ toServer' \in Seq(ToServer)
      BY <3>1 DEF ClipTypeOK, Stages
    <3>5. Count(toServer', "data") = Count(toServer, "data")
      BY <3>1
    <3> QED
      BY <2>2, <3>1, <3>3, <3>4, <3>5
  <2> QED
    BY <2>1, <2>2
<1>4. ClipTypeOK'
  <2>1. res' \in Result
    BY <1>1, ResultMade DEF Ids
  <2>2. readId' \in Ids \cup {0} /\ adv' \in Stages /\ toServer' \in Seq(ToServer)
    BY <1>3
  <2> QED
    BY <1>1, <2>1, <2>2 DEF ClipTypeOK, Stages, worker, server, history
<1>5. OneAnswerEach'
  <2>1. waiting' = waiting /\ dataIds' = dataIds /\ toClient' = toClient
    BY <1>1 DEF server
  <2> QED
    BY <1>3, <2>1, AnswersAfter DEF OneAnswerEach
<1>6. AwaitedIsUnderway'
  <2>1. UNCHANGED <<cmd, exec>> /\ pollId' = pollId /\ dataIds' = dataIds
    BY <1>1 DEF worker
  <2> QED
    BY <1>1, <1>3, <2>1, AfterResult
<1> QED
  BY <1>4, <1>5, <1>6

(* The data that was read for a request is its answer.                     *)
LEMMA DataResultKeeps ==
  ASSUME ClipboardAssumption, ClipTypeOK, OneAnswerEach, AwaitedIsUnderway,
         DataResult
  PROVE  ClipTypeOK' /\ OneAnswerEach' /\ AwaitedIsUnderway'
<1>1. /\ res.kind = "data" /\ res' = None
      /\ UNCHANGED <<board, worker, cmd, ready, adv, paste, gen, pollId, readId, deferredRead,
                     deferredApply, local, toClient, server, history>>
  BY DEF DataResult
<1>2. res \in Result /\ res.v \in Values \cup {Nothing} /\ res.id \in Ids
  BY <1>1, ResultShape DEF ClipTypeOK
<1>3. /\ IsFiniteSet(dataIds) /\ Cardinality(dataIds) \in Nat
      /\ Count(toServer, "data") \in Nat /\ Count(toClient, "want") \in Nat
      /\ waiting' = waiting /\ toClient' = toClient
      /\ waiting = Count(toClient, "want") + Cardinality(dataIds) + Count(toServer, "data")
  BY <1>1, AnswerNumbers DEF server, OneAnswerEach
<1>4. /\ dataIds' \subseteq dataIds /\ \A i \in dataIds' : i # res.id
      /\ toServer' \in Seq(ToServer) /\ (Has(toServer, "list") => Has(toServer', "list"))
      /\ waiting' = Count(toClient', "want") + Cardinality(dataIds') + Count(toServer', "data")
  <2>1. CASE res.id \in dataIds
    <3> DEFINE m == [kind |-> "data", v |-> res.v]
    <3>1. dataIds' = dataIds \ {res.id} /\ Say(m)
      BY <2>1 DEF DataResult
    <3>2. m \in ToServer /\ m.kind = "data"
      BY <1>2, MessageMade
    <3> HIDE DEF m
    <3>3. /\ toServer' \in Seq(ToServer) /\ Count(toServer', "data") = Count(toServer, "data") + 1
          /\ Has(toServer', "list") <=> Has(toServer, "list")
      BY <3>1, <3>2, Said
    <3>4. Cardinality(dataIds') = Cardinality(dataIds) - 1
      BY <1>3, <2>1, <3>1, FS_RemoveElement
    <3>5. waiting' = Count(toClient', "want") + Cardinality(dataIds') + Count(toServer', "data")
      BY <1>3, <3>3, <3>4
    <3> QED
      BY <3>1, <3>3, <3>5
  <2>2. CASE res.id \notin dataIds
    <3>1. dataIds' = dataIds /\ toServer' = toServer
      BY <2>2 DEF DataResult
    <3> QED
      BY <1>3, <2>2, <3>1 DEF ClipTypeOK
  <2> QED
    BY <2>1, <2>2
<1>5. ClipTypeOK'
  <2>1. res' \in Result
    BY <1>1, ResultMade DEF Ids
  <2>2. dataIds' \subseteq Ids /\ toServer' \in Seq(ToServer)
    BY <1>4 DEF ClipTypeOK
  <2> QED
    BY <1>1, <2>1, <2>2 DEF ClipTypeOK, worker, server, history
<1>6. OneAnswerEach'
  BY <1>4, AnswersAfter
<1>7. AwaitedIsUnderway'
  <2>1. Announces => Announces'
    BY <1>1, <1>4 DEF Announces, Has
  <2>2. adv'.is = "pending" => readId' # 0 \/ deferredRead' \/ Announces'
    BY <1>1, <2>1, AnnouncedOn
  <2>3. UNCHANGED <<cmd, exec>> /\ pollId' = pollId /\ readId' = readId
    BY <1>1 DEF worker
  <2> QED
    BY <1>1, <1>4, <2>2, <2>3, AfterResult
<1> QED
  BY <1>5, <1>6, <1>7

(* The result of a write is awaited by nobody.                             *)
LEMMA ApplyResultKeeps ==
  ASSUME ClipboardAssumption, ClipTypeOK, OneAnswerEach, AwaitedIsUnderway,
         ApplyResult
  PROVE  ClipTypeOK' /\ OneAnswerEach' /\ AwaitedIsUnderway'
<1>1. /\ res.kind = "apply" /\ res' = None
      /\ UNCHANGED <<board, worker, cmd, ready, state, toServer, toClient, server, history>>
  BY DEF ApplyResult
<1>2. ClipTypeOK'
  <2>1. res' \in Result
    BY <1>1, ResultMade DEF Ids
  <2> QED
    BY <1>1, <2>1 DEF ClipTypeOK, worker, state, server, history
<1>3. OneAnswerEach'
  BY <1>1, SameAnswers DEF state, server
<1>4. AwaitedIsUnderway'
  <2>1. Announces => Announces'
    BY <1>1 DEF Announces
  <2>2. adv'.is = "pending" => readId' # 0 \/ deferredRead' \/ Announces'
    BY <1>1, <2>1, AnnouncedOn DEF state
  <2>3. UNCHANGED <<cmd, exec>> /\ pollId' = pollId /\ readId' = readId /\ dataIds' = dataIds
    BY <1>1 DEF worker, state
  <2> QED
    BY <1>1, <2>2, <2>3, AfterResult
<1> QED
  BY <1>2, <1>3, <1>4

-----------------------------------------------------------------------------

(* A poll starts: it is under way in the command queue.                    *)
LEMMA PollKeeps ==
  ASSUME ClipboardAssumption, ClipTypeOK, OneAnswerEach, AwaitedIsUnderway,
         Poll
  PROVE  ClipTypeOK' /\ OneAnswerEach' /\ AwaitedIsUnderway'
<1>1. /\ cmd = None /\ cmd' = [kind |-> "poll", id |-> NewId, gen |-> gen] /\ pollId' = NewId
      /\ UNCHANGED <<board, worker, res, ready, adv, paste, gen, readId, dataIds, deferredRead,
                     deferredApply, local, toServer, toClient, server, history>>
  BY DEF Poll
<1>2. NewId \in Ids /\ gen \in Ids
  BY FreshId DEF ClipTypeOK
<1>3. cmd' \in Work
  BY <1>1, <1>2, WorkMade
<1>4. CarriesOn
  BY <1>1, QueuesKeep DEF worker
<1>5. ClipTypeOK'
  <2>1. pollId' \in Ids \cup {0}
    BY <1>1, <1>2
  <2> QED
    BY <1>1, <1>3, <2>1 DEF ClipTypeOK, worker, server, history
<1>6. OneAnswerEach'
  BY <1>1, SameAnswers DEF server
<1>7. AwaitedIsUnderway'
  <2>1. cmd'.kind = "poll" /\ cmd'.id = pollId'
    BY <1>1
  <2>2. pollId' # 0 => Carries("poll", pollId)'
    BY <2>1 DEF Carries
  <2>3. readId' = readId /\ dataIds' = dataIds
    BY <1>1
  <2>4. readId # 0 => Carries("formats", readId)
    BY AwaitedMeans
  <2>5. readId' # 0 => Carries("formats", readId)'
    BY <1>4, <2>3, <2>4 DEF CarriesOn, Carries
  <2>6. \A i \in dataIds' : Carries("data", i)'
    BY <1>4, <2>3, AwaitedMeans DEF CarriesOn
  <2>7. Announces => Announces'
    BY <1>1 DEF Announces
  <2>8. adv'.is = "pending" => readId' # 0 \/ deferredRead' \/ Announces'
    BY <1>1, <2>7, AnnouncedOn
  <2> QED
    BY <2>2, <2>5, <2>6, <2>8, AwaitedMeans
<1> QED
  BY <1>5, <1>6, <1>7

(* The write that was put off goes into the command queue.                 *)
LEMMA RetryApplyKeeps ==
  ASSUME ClipboardAssumption, ClipTypeOK, OneAnswerEach, AwaitedIsUnderway,
         RetryApply
  PROVE  ClipTypeOK' /\ OneAnswerEach' /\ AwaitedIsUnderway'
<1>1. /\ cmd = None /\ deferredApply # None /\ cmd' = deferredApply /\ deferredApply' = None
      /\ UNCHANGED <<board, worker, res, ready, adv, paste, gen, pollId, readId, dataIds,
                     deferredRead, local, toServer, toClient, server, history>>
  BY DEF RetryApply
<1>2. cmd' \in Work
  BY <1>1 DEF ClipTypeOK, Work
<1>3. CarriesOn
  BY <1>1, QueuesKeep DEF worker
<1>4. ClipTypeOK'
  BY <1>1, <1>2 DEF ClipTypeOK, worker, server, history
<1>5. OneAnswerEach'
  BY <1>1, SameAnswers DEF server
<1>6. AwaitedIsUnderway'
  <2>1. Announces => Announces'
    BY <1>1 DEF Announces
  <2> QED
    BY <1>1, <1>3, <2>1, AwaitedOn
<1> QED
  BY <1>4, <1>5, <1>6

(* The read of formats that was put off goes into the command queue, or is *)
(* not needed any more.                                                    *)
LEMMA RetryReadKeeps ==
  ASSUME ClipboardAssumption, ClipTypeOK, OneAnswerEach, AwaitedIsUnderway,
         RetryRead
  PROVE  ClipTypeOK' /\ OneAnswerEach' /\ AwaitedIsUnderway'
<1>1. /\ cmd = None /\ deferredRead' = FALSE
      /\ UNCHANGED <<board, worker, res, ready, adv, paste, gen, pollId, dataIds, deferredApply,
                     local, toServer, toClient, server, history>>
  BY DEF RetryRead
<1>2. CarriesOn
  BY <1>1, QueuesKeep DEF worker
<1>3. /\ cmd' \in Work /\ readId' \in Ids \cup {0}
      /\ readId' # 0 => Carries("formats", readId)'
      /\ adv'.is = "pending" => readId' # 0
  <2>1. CASE adv.is = "pending"
    <3>1. cmd' = [kind |-> "formats", id |-> NewId] /\ readId' = NewId
      BY <2>1 DEF RetryRead
    <3>2. NewId \in Ids /\ NewId # 0
      BY FreshId DEF Ids
    <3>3. cmd' \in Work
      BY <3>1, <3>2, WorkMade
    <3>4. cmd'.kind = "formats" /\ cmd'.id = readId'
      BY <3>1
    <3>5. readId' # 0 => Carries("formats", readId)'
      BY <3>4 DEF Carries
    <3> QED
      BY <3>1, <3>2, <3>3, <3>5
  <2>2. CASE adv.is # "pending"
    <3>1. cmd' = cmd /\ readId' = readId /\ adv' = adv
      BY <1>1, <2>2 DEF RetryRead
    <3>2. readId # 0 => Carries("formats", readId)
      BY AwaitedMeans
    <3>3. readId' # 0 => Carries("formats", readId)'
      BY <1>2, <3>1, <3>2 DEF CarriesOn, Carries
    <3> QED
      BY <2>2, <3>1, <3>3 DEF ClipTypeOK
  <2> QED
    BY <2>1, <2>2
<1>4. ClipTypeOK'
  <2>1. cmd' \in Work /\ readId' \in Ids \cup {0} /\ deferredRead' \in BOOLEAN
    BY <1>1, <1>3
  <2> QED
    BY <1>1, <2>1 DEF ClipTypeOK, worker, server, history
<1>5. OneAnswerEach'
  BY <1>1, SameAnswers DEF server
<1>6. AwaitedIsUnderway'
  BY <1>1, <1>2, <1>3, AwaitedAfter
<1> QED
  BY <1>4, <1>5, <1>6

(* The data asked for did not come in time.                                *)
LEMMA PasteTimesOutKeeps ==
  ASSUME ClipboardAssumption, ClipTypeOK, OneAnswerEach, AwaitedIsUnderway,
         PasteTimesOut
  PROVE  ClipTypeOK' /\ OneAnswerEach' /\ AwaitedIsUnderway'
<1>1. /\ paste' = Nothing /\ excused' = (excused \/ Underway)
      /\ UNCHANGED <<board, worker, cmd, res, ready, adv, gen, pollId, readId, dataIds, deferredRead,
                     deferredApply, local, toServer, toClient, server, spent, events>>
  BY DEF PasteTimesOut
<1>2. ClipTypeOK'
  <2>1. paste' \in Formats \cup {Nothing} /\ excused' \in BOOLEAN
    BY <1>1 DEF ClipTypeOK
  <2> QED
    BY <1>1, <2>1 DEF ClipTypeOK, worker, server
<1>3. OneAnswerEach'
  BY <1>1, SameAnswers DEF server
<1>4. AwaitedIsUnderway'
  <2>1. Announces => Announces'
    BY <1>1 DEF Announces
  <2> QED
    BY <1>1, <2>1, SameAwaited DEF worker
<1> QED
  BY <1>2, <1>3, <1>4

-----------------------------------------------------------------------------
(* A step of the worker: an operation becomes its result.                  *)
LEMMA WorkerKeeps ==
  ASSUME ClipboardAssumption, ClipTypeOK, OneAnswerEach, AwaitedIsUnderway,
         NEW kind, Starts(kind), exec' \in Result, exec'.kind = cmd.kind,
         cmd.kind = "apply" \/ exec'.id = cmd.id,
         NEW g \in Ids, Observe(g), NEW yes \in BOOLEAN, Fails(yes),
         board' \in Values, fingerprint' \in Values \cup {Nothing}
  PROVE  ClipTypeOK' /\ OneAnswerEach' /\ AwaitedIsUnderway'
<1>1. /\ exec = None /\ cmd' = None /\ seenGen' = g
      /\ UNCHANGED <<res, ready, state, toServer, toClient, server, spent>>
  BY DEF Starts, Observe
<1>2. /\ events' \in 0 .. MaxEvents /\ excused' \in BOOLEAN
  <2>1. events \in 0 .. MaxEvents /\ excused \in BOOLEAN /\ MaxEvents \in Nat
    BY DEF ClipTypeOK, ClipboardAssumption
  <2>2. CASE yes
    BY <2>1, <2>2 DEF Fails
  <2>3. CASE ~yes
    BY <2>1, <2>3 DEF Fails
  <2> QED
    BY <2>2, <2>3
<1>3. ClipTypeOK'
  <2>1. cmd' \in Work /\ seenGen' \in Ids
    BY <1>1 DEF Work
  <2> QED
    BY <1>1, <1>2, <2>1 DEF ClipTypeOK, state, server
<1>4. OneAnswerEach'
  BY <1>1, SameAnswers DEF state, server
<1>5. AwaitedIsUnderway'
  <2>1. Announces => Announces'
    BY <1>1 DEF Announces
  <2>2. CarriesOn
    BY <1>1, QueuesKeep
  <2> QED
    BY <1>1, <2>1, <2>2, AwaitedOn DEF state
<1> QED
  BY <1>3, <1>4, <1>5


(* A poll of the local clipboard.                                          *)
LEMMA DoPollKeeps ==
  ASSUME ClipboardAssumption, ClipTypeOK, OneAnswerEach, AwaitedIsUnderway,
         NEW ok \in BOOLEAN, DoPoll(ok)
  PROVE  ClipTypeOK' /\ OneAnswerEach' /\ AwaitedIsUnderway'
<1>1. /\ Starts("poll") /\ Observe(cmd.gen) /\ Fails(~ok) /\ cmd.kind = "poll" /\ board' = board
      /\ fingerprint' = IF ok THEN board ELSE Seen(cmd.gen)
      /\ exec' = [kind |-> "poll", id |-> cmd.id, changed |-> ok /\ Seen(cmd.gen) # board]
  BY DEF DoPoll, Starts
<1>2. cmd.id \in Ids /\ cmd.gen \in Ids
  BY <1>1, WorkShape DEF ClipTypeOK
<1>3. Seen(cmd.gen) \in Values \cup {Nothing} /\ board \in Values
  BY DEF Seen, ClipTypeOK
<1>4. (ok /\ Seen(cmd.gen) # board) \in BOOLEAN /\ (~ok) \in BOOLEAN
  OBVIOUS
<1>5. exec' \in Result /\ exec'.kind = cmd.kind /\ exec'.id = cmd.id
  BY <1>1, <1>2, <1>4, ResultMade
<1>6. board' \in Values /\ fingerprint' \in Values \cup {Nothing}
  BY <1>1, <1>3
<1> QED
  BY <1>1, <1>2, <1>4, <1>5, <1>6, WorkerKeeps

(* A read of the formats.                                                  *)
LEMMA DoReadKeeps ==
  ASSUME ClipboardAssumption, ClipTypeOK, OneAnswerEach, AwaitedIsUnderway,
         NEW ok \in BOOLEAN, DoRead(ok)
  PROVE  ClipTypeOK' /\ OneAnswerEach' /\ AwaitedIsUnderway'
<1>1. /\ Starts("formats") /\ Observe(seenGen) /\ Fails(~ok) /\ cmd.kind = "formats"
      /\ UNCHANGED <<board, fingerprint>>
      /\ exec' = [kind |-> "formats", id |-> cmd.id, v |-> IF ok THEN board ELSE Nothing]
  BY DEF DoRead, Starts
<1>2. cmd.id \in Ids /\ seenGen \in Ids
  BY <1>1, WorkShape DEF ClipTypeOK
<1>3. (IF ok THEN board ELSE Nothing) \in Values \cup {Nothing} /\ (~ok) \in BOOLEAN
  BY DEF ClipTypeOK
<1>4. exec' \in Result /\ exec'.kind = cmd.kind /\ exec'.id = cmd.id
  BY <1>1, <1>2, <1>3, ResultMade
<1>5. board' \in Values /\ fingerprint' \in Values \cup {Nothing}
  BY <1>1 DEF ClipTypeOK
<1> QED
  BY <1>1, <1>2, <1>3, <1>4, <1>5, WorkerKeeps

(* A read of the data for the server.                                      *)
LEMMA DoDataKeeps ==
  ASSUME ClipboardAssumption, ClipTypeOK, OneAnswerEach, AwaitedIsUnderway,
         NEW ok \in BOOLEAN, DoData(ok)
  PROVE  ClipTypeOK' /\ OneAnswerEach' /\ AwaitedIsUnderway'
<1> DEFINE x == IF ok /\ F(board) = cmd.f THEN board ELSE Nothing
<1>1. /\ Starts("data") /\ Observe(seenGen) /\ Fails(~ok) /\ cmd.kind = "data"
      /\ UNCHANGED <<board, fingerprint>>
      /\ exec' = [kind |-> "data", id |-> cmd.id, v |-> x]
  BY DEF DoData, Starts
<1>2. cmd.id \in Ids /\ seenGen \in Ids
  BY <1>1, WorkShape DEF ClipTypeOK
<1>3. x \in Values \cup {Nothing} /\ (~ok) \in BOOLEAN
  BY DEF ClipTypeOK
<1> HIDE DEF x
<1>4. exec' \in Result /\ exec'.kind = cmd.kind /\ exec'.id = cmd.id
  BY <1>1, <1>2, <1>3, ResultMade
<1>5. board' \in Values /\ fingerprint' \in Values \cup {Nothing}
  BY <1>1 DEF ClipTypeOK
<1> QED
  BY <1>1, <1>2, <1>3, <1>4, <1>5, WorkerKeeps

(* A write of the server's copy.                                           *)
LEMMA DoApplyKeeps ==
  ASSUME ClipboardAssumption, ClipTypeOK, OneAnswerEach, AwaitedIsUnderway,
         NEW ok \in BOOLEAN, DoApply(ok)
  PROVE  ClipTypeOK' /\ OneAnswerEach' /\ AwaitedIsUnderway'
<1>1. /\ Starts("apply") /\ Observe(cmd.gen) /\ Fails(~ok) /\ cmd.kind = "apply"
      /\ board' = IF ok THEN cmd.v ELSE board
      /\ fingerprint' = IF ok THEN cmd.v ELSE Seen(cmd.gen)
      /\ exec' = [kind |-> "apply"]
  BY DEF DoApply, Starts
<1>2. cmd.gen \in Ids /\ cmd.v \in Values
  BY <1>1, WorkShape DEF ClipTypeOK
<1>3. Seen(cmd.gen) \in Values \cup {Nothing} /\ board \in Values /\ (~ok) \in BOOLEAN
  BY DEF Seen, ClipTypeOK
<1>4. exec' \in Result /\ exec'.kind = cmd.kind
  BY <1>1, <1>2, ResultMade
<1>5. board' \in Values /\ fingerprint' \in Values \cup {Nothing}
  BY <1>1, <1>2, <1>3
<1> QED
  BY <1>1, <1>2, <1>3, <1>4, <1>5, WorkerKeeps

(* The worker hands its result over.                                       *)
LEMMA SendKeeps ==
  ASSUME ClipboardAssumption, ClipTypeOK, OneAnswerEach, AwaitedIsUnderway,
         Send
  PROVE  ClipTypeOK' /\ OneAnswerEach' /\ AwaitedIsUnderway'
<1>1. /\ exec # None /\ res = None /\ res' = exec /\ exec' = None
      /\ UNCHANGED <<board, fingerprint, seenGen, cmd, ready, state, toServer, toClient, server,
                     history>>
  BY DEF Send
<1>2. ClipTypeOK'
  <2>1. res' \in Result /\ exec' \in Result
    BY <1>1 DEF ClipTypeOK
  <2> QED
    BY <1>1, <2>1 DEF ClipTypeOK, state, server, history
<1>3. OneAnswerEach'
  BY <1>1, SameAnswers DEF state, server
<1>4. AwaitedIsUnderway'
  <2>1. Announces => Announces'
    BY <1>1 DEF Announces
  <2>2. CarriesOn
    BY <1>1, QueuesKeep
  <2> QED
    BY <1>1, <2>1, <2>2, AwaitedOn DEF state
<1> QED
  BY <1>2, <1>3, <1>4

-----------------------------------------------------------------------------
(* The bridge starts with one message under way, and nothing awaited.      *)
LEMMA ClipInitInv == ASSUME ClipboardAssumption, ClipInit PROVE ClipboardInv
<1>1. /\ None \in Work /\ None \in Result /\ <<>> \in Seq(ToServer)
      /\ [kind |-> "ready"] \in ToClient
  BY EmptySeq DEF Work, Result, ToClient
<1>2. toClient \in Seq(ToClient) /\ toClient = <<[kind |-> "ready"]>> /\ toServer = <<>>
  BY <1>1 DEF ClipInit
<1>3. ClipTypeOK
  <2>1. /\ board \in Values /\ fingerprint \in Values \cup {Nothing} /\ {seenGen, gen} \subseteq Ids
        /\ cmd \in Work /\ {exec, res} \subseteq Result
    BY <1>1 DEF ClipInit, ClipboardAssumption, Values, Ids
  <2>2. /\ ready \in BOOLEAN /\ deferredRead \in BOOLEAN /\ local \in BOOLEAN /\ excused \in BOOLEAN
    BY DEF ClipInit
  <2>3. adv \in Stages
    BY StageShape DEF ClipInit
  <2>4. /\ paste \in Formats \cup {Nothing} /\ {pollId, readId} \subseteq Ids \cup {0}
        /\ dataIds \subseteq Ids /\ deferredApply \in Writings \cup {None}
        /\ clip \in Values \cup Formats \cup {Nothing, "empty"} /\ waiting \in Nat
    BY DEF ClipInit
  <2>5. spent \subseteq Values /\ events \in 0 .. MaxEvents
    BY DEF ClipInit, ClipboardAssumption, Values
  <2>6. toServer \in Seq(ToServer) /\ toClient \in Seq(ToClient)
    BY <1>1, <1>2
  <2>7. /\ board \in Values /\ fingerprint \in Values \cup {Nothing} /\ {seenGen, gen} \subseteq Ids
        /\ cmd \in Work /\ {exec, res} \subseteq Result /\ ready \in BOOLEAN
    BY <2>1, <2>2
  <2>8. adv \in {Idle, Confirmed} \cup {Pending(n, b) : n \in 0 .. Attempts - 1, b \in BOOLEAN}
    BY <2>3 DEF Stages
  <2>9. /\ paste \in Formats \cup {Nothing}
        /\ {pollId, readId} \subseteq Ids \cup {0} /\ dataIds \subseteq Ids
        /\ deferredRead \in BOOLEAN /\ local \in BOOLEAN
        /\ deferredApply \in Writings \cup {None}
    BY <2>2, <2>4
  <2>10. /\ clip \in Values \cup Formats \cup {Nothing, "empty"} /\ waiting \in Nat
         /\ spent \subseteq Values /\ events \in 0 .. MaxEvents /\ excused \in BOOLEAN
    BY <2>2, <2>4, <2>5
  <2> QED
    BY <2>6, <2>7, <2>8, <2>9, <2>10 DEF ClipTypeOK
<1>4. OneAnswerEach
  <2>1. Places(toServer, "data") = {} /\ Places(toClient, "want") = {}
    BY <1>2 DEF Places
  <2>2. Count(toServer, "data") = 0 /\ Count(toClient, "want") = 0 /\ Cardinality(dataIds) = 0
    BY <2>1, FS_EmptySet DEF Count, Places, ClipInit
  <2> QED
    BY <2>2 DEF OneAnswerEach, ClipInit
<1>5. AwaitedIsUnderway
  BY DEF AwaitedIsUnderway, ClipInit, Idle
<1> QED
  BY <1>3, <1>4, <1>5 DEF ClipboardInv

(* Every step keeps the invariant.                                         *)
LEMMA ClipNextInv ==
  ASSUME ClipboardAssumption, ClipboardInv, [ClipNext]_clipVars
  PROVE  ClipboardInv'
<1> DEFINE Preserved == ClipTypeOK' /\ OneAnswerEach' /\ AwaitedIsUnderway'
<1>1. ClipTypeOK /\ OneAnswerEach /\ AwaitedIsUnderway
  BY DEF ClipboardInv
<1>2. ASSUME NEW v \in LocalVals, LocalCopies(v) PROVE Preserved
  BY <1>1, <1>2, LocalCopiesKeeps
<1>3. ASSUME NEW v \in RemoteVals, ServerCopies(v) PROVE Preserved
  BY <1>1, <1>3, ServerCopiesKeeps
<1>4. ASSUME ServerWants PROVE Preserved
  BY <1>1, <1>4, ServerWantsKeeps
<1>5. ASSUME NEW b \in BOOLEAN, ServerHandles(b) PROVE Preserved
  BY <1>1, <1>5, ServerHandlesKeeps
<1>6. ASSUME HandleAction PROVE Preserved
  BY <1>1, <1>6, AdvertiseRequestedKeeps, ListRequestedKeeps, ListAckedKeeps, RemoteCopyKeeps,
     LocalDataRequestedKeeps, RemoteDataKeeps DEF HandleAction
<1>7. ASSUME HandleResult PROVE Preserved
  BY <1>1, <1>7, PollResultKeeps, FormatsResultKeeps, DataResultKeeps, ApplyResultKeeps
     DEF HandleResult
<1>8. ASSUME Poll \/ RetryApply \/ RetryRead \/ PasteTimesOut PROVE Preserved
  BY <1>1, <1>8, PollKeeps, RetryApplyKeeps, RetryReadKeeps, PasteTimesOutKeeps
<1>9. ASSUME Send PROVE Preserved
  BY <1>1, <1>9, SendKeeps
<1>10. ASSUME NEW ok \in BOOLEAN, WorkerStep(ok) PROVE Preserved
  BY <1>1, <1>10, DoPollKeeps, DoReadKeeps, DoDataKeeps, DoApplyKeeps DEF WorkerStep
<1>11. ASSUME UNCHANGED clipVars PROVE Preserved
  <2>1. UNCHANGED <<board, worker, cmd, res, ready, state, toServer, toClient, server, history>>
    BY <1>11 DEF clipVars
  <2>2. ClipTypeOK'
    BY <1>1, <2>1 DEF ClipTypeOK, worker, state, server, history
  <2>3. OneAnswerEach'
    BY <1>1, <2>1, SameAnswers DEF state, server
  <2>4. AwaitedIsUnderway'
    <3>1. Announces => Announces'
      BY <2>1 DEF Announces
    <3> QED
      BY <1>1, <2>1, <3>1, SameAwaited DEF worker, state
  <2> QED
    BY <2>2, <2>3, <2>4
<1>12. Preserved
  <2> HIDE DEF Preserved
  <2> QED
    BY <1>2, <1>3, <1>4, <1>5, <1>6, <1>7, <1>8, <1>9, <1>10, <1>11 DEF ClipNext
<1> QED
  BY <1>12 DEF ClipboardInv

(***************************************************************************)
(* In every behaviour of the bridge each request of the server is owed     *)
(* exactly one answer, and every poll, read or announcement the bridge     *)
(* waits for is under way.                                                 *)
(***************************************************************************)
THEOREM ClipboardInvariant == ClipSpec => []ClipboardInv
<1>1. ClipInit => ClipboardInv
  BY ClipboardAssumption, ClipInitInv
<1>2. ClipboardInv /\ [ClipNext]_clipVars => ClipboardInv'
  BY ClipboardAssumption, ClipNextInv
<1> QED
  BY <1>1, <1>2, PTL DEF ClipSpec

==================================================================================

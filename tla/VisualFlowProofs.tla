-------------------------- MODULE VisualFlowProofs --------------------------
(***************************************************************************)
(* Theorems about VisualFlow for every number of permits, history length,  *)
(* epoch and sequence.                                                     *)
(*                                                                         *)
(* ReleasedOnce is not inductive.  A reservation reuses a sequence only if *)
(* it is the newest one allocated, so what must survive in the ACK history *)
(* is the newest sequence: History says that it does, and Numbered that no *)
(* permit or ACK of the epoch is newer than the last allocated sequence.   *)
(***************************************************************************)
EXTENDS VisualFlow, FiniteSetTheorems, TLAPS

Numbered ==
  /\ \A s \in DOMAIN entries : s <= frame_seq
  /\ \A s \in acked : s <= frame_seq
  /\ \A r \in released : r[1] <= epoch /\ r[2] <= frame_seq
  /\ \A t \in tokens : t.epoch <= epoch /\ t.seq <= frame_seq

History == <<epoch, frame_seq>> \in released => frame_seq \in acked

(* Every step of the window's callers keeps its state well typed: entries  *)
(* stays a partial function from sequences to permit states through every  *)
(* reserve, admit, cancel, ack and disconnect of visual_flow.rs.           *)
LEMMA TypeStep == TypeOK /\ [Next]_vars => TypeOK'
<1> SUFFICES ASSUME TypeOK, [Next]_vars PROVE TypeOK'
  OBVIOUS
<1> USE FlowAssumption DEF TypeOK, Epoch, Sequence, Token, Permit
<1>0. ASSUME NEW e, Disconnect(e)
      PROVE  /\ epoch' \in Epoch
             /\ DOMAIN entries' \subseteq Sequence
             /\ entries' \in [DOMAIN entries' -> Permit]
             /\ acked' \subseteq Sequence
  <2>1. CASE e = epoch
    BY <1>0, <2>1 DEF Disconnect, Reset
  <2>2. CASE e # epoch
    BY <1>0, <2>2 DEF Disconnect, flowVars
  <2> QED
    BY <2>1, <2>2
<1>1. CASE AcceptViewer
  BY <1>1 DEF AcceptViewer, Reset
<1>2. ASSUME NEW e \in Epoch, RetireViewer(e) PROVE TypeOK'
  BY <1>0, <1>2 DEF RetireViewer
<1>3. ASSUME NEW e \in Epoch, ReserveFrame(e) PROVE TypeOK'
  BY <1>3 DEF ReserveFrame, Reserve, Bind, CanReserve
<1>4. ASSUME NEW e \in Epoch, ReserveAgain(e) PROVE TypeOK'
  BY <1>4 DEF ReserveAgain, Reserve, Bind, CanReserve
<1>5. ASSUME NEW t \in Token, AdmitFrame(t) PROVE TypeOK'
  BY <1>5 DEF AdmitFrame, Admit, Bind, CanAdmit
<1>6. ASSUME NEW t \in Token, CancelFrame(t) PROVE TypeOK'
  BY <1>6 DEF CancelFrame, Cancel, Without, CanCancel
<1>7. ASSUME NEW e \in Epoch, NEW s \in Sequence, FeedbackAck(e, s) PROVE TypeOK'
  <2>1. CASE Ack(e, s) /\ released' = released \cup {<<e, s>>} /\ UNCHANGED readers
    BY <1>7, <2>1 DEF FeedbackAck, Ack, Without, CanAck, Remember
  <2>2. CASE ~CanAck(e, s) /\ Disconnect(e)
    BY <1>0, <1>7, <2>2 DEF FeedbackAck, Ack
  <2> QED
    BY <1>7, <2>1, <2>2 DEF FeedbackAck
<1>8. ASSUME NEW e \in Epoch, FeedbackEnd(e) PROVE TypeOK'
  BY <1>0, <1>8 DEF FeedbackEnd
<1>9. CASE SkipFrame
  BY <1>9 DEF SkipFrame, flowVars
<1>10. CASE UNCHANGED vars
  BY <1>10 DEF vars
<1> QED
  BY <1>1, <1>2, <1>3, <1>4, <1>5, <1>6, <1>7, <1>8, <1>9, <1>10 DEF Next, Capture, Feedback

(* TypeOK is an invariant of the window, whatever its callers do.          *)
THEOREM TypeCorrect == Spec => []TypeOK
<1>1. Init => TypeOK
  BY FlowAssumption DEF Init, TypeOK, Epoch, Sequence
<1> QED
  BY <1>1, TypeStep, PTL DEF Spec

(* The permits of one viewer never exceed MAX_OUTSTANDING: no interleaving *)
(* of capture, sender and feedback reader over-commits the viewer.         *)
THEOREM OutstandingBounded == Spec => []BoundedOutstanding
<1> DEFINE Bounded == IsFiniteSet(DOMAIN entries) /\ BoundedOutstanding
<1>1. Init => Bounded
  BY FS_EmptySet, FlowAssumption DEF Init, BoundedOutstanding
<1>2. TypeOK /\ Bounded /\ [Next]_vars => Bounded'
  <2> SUFFICES ASSUME TypeOK, Bounded, [Next]_vars PROVE Bounded'
    OBVIOUS
  <2>1. ASSUME Reset PROVE Bounded'
    <3>1. DOMAIN entries' = {}
      BY <2>1 DEF Reset
    <3> QED
      BY <3>1, FS_EmptySet, FlowAssumption DEF BoundedOutstanding
  <2>2. ASSUME UNCHANGED entries PROVE Bounded'
    BY <2>2 DEF BoundedOutstanding
  <2>3. ASSUME NEW e, NEW s, Reserve(e, s) PROVE Bounded'
    <3>1. /\ DOMAIN entries' = DOMAIN entries \cup {s}
          /\ s \notin DOMAIN entries
          /\ Cardinality(DOMAIN entries) < MAX_OUTSTANDING
      BY <2>3 DEF Reserve, Bind, CanReserve
    <3>2. /\ IsFiniteSet(DOMAIN entries')
          /\ Cardinality(DOMAIN entries') = Cardinality(DOMAIN entries) + 1
      BY <3>1, FS_AddElement
    <3>3. Cardinality(DOMAIN entries) \in Nat
      BY FS_CardinalityType
    <3> QED
      BY <3>1, <3>2, <3>3, FlowAssumption DEF BoundedOutstanding
  <2>4. ASSUME NEW s, entries' = Without(s) PROVE Bounded'
    <3>1. DOMAIN entries' \subseteq DOMAIN entries
      BY <2>4 DEF Without
    <3>2. /\ IsFiniteSet(DOMAIN entries')
          /\ Cardinality(DOMAIN entries') <= Cardinality(DOMAIN entries)
      BY <3>1, FS_Subset
    <3>3. /\ Cardinality(DOMAIN entries) \in Nat
          /\ Cardinality(DOMAIN entries') \in Nat
      BY <3>2, FS_CardinalityType
    <3> QED
      BY <3>2, <3>3, FlowAssumption DEF BoundedOutstanding
  <2>5. ASSUME NEW t, Admit(t) PROVE Bounded'
    <3>1. DOMAIN entries' = DOMAIN entries
      BY <2>5 DEF Admit, CanAdmit, Bind
    <3> QED
      BY <3>1 DEF BoundedOutstanding
  <2>6. CASE UNCHANGED vars
    BY <2>2, <2>6 DEF vars
  <2>7. CASE AcceptViewer
    BY <2>1, <2>7 DEF AcceptViewer
  <2>8. ASSUME NEW e \in Epoch, RetireViewer(e) \/ FeedbackEnd(e) PROVE Bounded'
    BY <2>1, <2>2, <2>8 DEF RetireViewer, FeedbackEnd, Disconnect, flowVars
  <2>9. ASSUME NEW e \in Epoch, ReserveFrame(e) \/ ReserveAgain(e) PROVE Bounded'
    BY <2>3, <2>9 DEF ReserveFrame, ReserveAgain
  <2>10. ASSUME NEW t \in Token, AdmitFrame(t) \/ CancelFrame(t) PROVE Bounded'
    BY <2>2, <2>4, <2>5, <2>10 DEF AdmitFrame, CancelFrame, Cancel
  <2>11. ASSUME NEW e \in Epoch, NEW s \in Sequence, FeedbackAck(e, s) PROVE Bounded'
    BY <2>1, <2>2, <2>4, <2>11 DEF FeedbackAck, Ack, Disconnect, flowVars
  <2>12. CASE SkipFrame
    BY <2>2, <2>12 DEF SkipFrame, flowVars
  <2> QED
    BY <2>6, <2>7, <2>8, <2>9, <2>10, <2>11, <2>12 DEF Next, Capture, Feedback
<1> QED
  BY <1>1, <1>2, TypeCorrect, PTL DEF Spec


-----------------------------------------------------------------------------
(* No permit, ACK, release or token is newer than the newest sequence the  *)
(* capture thread allocated, or belongs to an epoch not yet begun.         *)
THEOREM NumberedInvariant == Spec => []Numbered
<1>1. Init => Numbered
  BY DEF Init, Numbered
<1>2. TypeOK /\ Numbered /\ [Next]_vars => Numbered'
  <2> SUFFICES ASSUME TypeOK, Numbered, [Next]_vars PROVE Numbered'
    OBVIOUS
  <2> USE FlowAssumption DEF TypeOK, Epoch, Sequence, Token, Numbered
  <2>1. ASSUME Reset, UNCHANGED <<tokens, frame_seq, released>> PROVE Numbered'
    BY <2>1 DEF Reset
  <2>2. ASSUME NEW e, Disconnect(e), UNCHANGED <<tokens, frame_seq, released>>
        PROVE Numbered'
    BY <2>1, <2>2 DEF Disconnect, flowVars
  <2>3. CASE AcceptViewer
    BY <2>1, <2>3 DEF AcceptViewer
  <2>4. ASSUME NEW e \in Epoch, RetireViewer(e) \/ FeedbackEnd(e) PROVE Numbered'
    BY <2>2, <2>4 DEF RetireViewer, FeedbackEnd
  <2>5. ASSUME NEW e \in Epoch, ReserveFrame(e) PROVE Numbered'
    BY <2>5 DEF ReserveFrame, Reserve, Bind, CanReserve
  <2>6. ASSUME NEW e \in Epoch, ReserveAgain(e) PROVE Numbered'
    BY <2>6 DEF ReserveAgain, Reserve, Bind, CanReserve
  <2>7. ASSUME NEW t \in Token, AdmitFrame(t) PROVE Numbered'
    BY <2>7 DEF AdmitFrame, Admit, Bind, CanAdmit
  <2>8. ASSUME NEW t \in Token, CancelFrame(t) PROVE Numbered'
    BY <2>8 DEF CancelFrame, Cancel, Without, CanCancel
  <2>9. ASSUME NEW e \in Epoch, NEW s \in Sequence, FeedbackAck(e, s) PROVE Numbered'
    <3>1. CASE Ack(e, s) /\ released' = released \cup {<<e, s>>}
      <4>1. /\ e = epoch /\ s <= frame_seq
            /\ DOMAIN entries' \subseteq DOMAIN entries
            /\ acked' \subseteq acked \cup {s}
            /\ UNCHANGED <<epoch, tokens, frame_seq>>
        BY <2>9, <3>1 DEF FeedbackAck, Ack, CanAck, Without, Remember
      <4> QED
        BY <3>1, <4>1
    <3>2. CASE Disconnect(e) /\ UNCHANGED <<tokens, released>>
      BY <2>2, <2>9, <3>2 DEF FeedbackAck
    <3> QED
      BY <2>9, <3>1, <3>2 DEF FeedbackAck
  <2>10. CASE UNCHANGED vars
    BY <2>10 DEF vars
  <2>11. CASE SkipFrame
    BY <2>11 DEF SkipFrame, flowVars
  <2> QED
    BY <2>3, <2>4, <2>5, <2>6, <2>7, <2>8, <2>9, <2>10, <2>11 DEF Next, Capture, Feedback
<1> QED
  BY <1>1, <1>2, TypeCorrect, PTL DEF Spec

(* pop_first of the ACK history never forgets the newest sequence. *)
LEMMA RememberKeepsNewest ==
  ASSUME NEW history, history \subseteq Sequence,
         NEW f \in history, \A s \in history : s <= f
  PROVE  f \in Remember(history)
<1>1. CASE \E older \in history : older < f
  BY <1>1 DEF Remember
<1>2. CASE ~ \E older \in history : older < f
  <2>0. \A s \in history : s = f
    <3> SUFFICES ASSUME NEW s \in history PROVE s = f
      OBVIOUS
    <3>1. s \in Int /\ f \in Int
      BY FlowAssumption DEF Sequence
    <3> QED
      BY <1>2, <3>1
  <2>1. history = {f}
    BY <2>0
  <2>2. Cardinality(history) = 1
    BY <2>1, FS_Singleton
  <2> QED
    BY <2>2, FlowAssumption DEF Remember
<1> QED
  BY <1>1, <1>2

(* One ACK pays for one update: a released sequence never holds a permit   *)
(* of its epoch again, for every history length of at least one.           *)
THEOREM ReleasedOnceInvariant == Spec => []ReleasedOnce
<1> DEFINE RInv == ReleasedOnce /\ History
<1>1. Init => RInv
  BY DEF Init, ReleasedOnce, History
<1>2. TypeOK /\ Numbered /\ RInv /\ [Next]_vars => RInv'
  <2> SUFFICES ASSUME TypeOK, Numbered, RInv, [Next]_vars PROVE RInv'
    OBVIOUS
  <2> USE FlowAssumption DEF TypeOK, Epoch, Sequence, Token, ReleasedOnce, History
  <2>1. ASSUME Reset, UNCHANGED <<frame_seq, released>> PROVE RInv'
    BY <2>1 DEF Reset, Numbered
  <2>2. ASSUME NEW e, Disconnect(e), UNCHANGED <<frame_seq, released>> PROVE RInv'
    BY <2>1, <2>2 DEF Disconnect, flowVars
  <2>3. CASE AcceptViewer
    BY <2>1, <2>3 DEF AcceptViewer
  <2>4. ASSUME NEW e \in Epoch, RetireViewer(e) \/ FeedbackEnd(e) PROVE RInv'
    BY <2>2, <2>4 DEF RetireViewer, FeedbackEnd
  <2>5. ASSUME NEW e \in Epoch, ReserveFrame(e) PROVE RInv'
    BY <2>5 DEF ReserveFrame, Reserve, Bind, CanReserve, Numbered
  <2>6. ASSUME NEW e \in Epoch, ReserveAgain(e) PROVE RInv'
    BY <2>6 DEF ReserveAgain, Reserve, Bind, CanReserve
  <2>7. ASSUME NEW t \in Token, AdmitFrame(t) PROVE RInv'
    BY <2>7 DEF AdmitFrame, Admit, Bind, CanAdmit
  <2>8. ASSUME NEW t \in Token, CancelFrame(t) PROVE RInv'
    BY <2>8 DEF CancelFrame, Cancel, Without, CanCancel
  <2>9. ASSUME NEW e \in Epoch, NEW s \in Sequence, FeedbackAck(e, s) PROVE RInv'
    <3>1. CASE Ack(e, s) /\ released' = released \cup {<<e, s>>}
      <4>1. /\ e = epoch
            /\ DOMAIN entries' = DOMAIN entries \ {s}
            /\ acked' = Remember(acked \cup {s})
            /\ UNCHANGED <<epoch, frame_seq>>
        BY <2>9, <3>1 DEF FeedbackAck, Ack, CanAck, Without
      <4>2. ReleasedOnce'
        BY <3>1, <4>1
      <4>3. s <= frame_seq
        BY <3>1 DEF Ack, CanAck, Numbered
      <4>4. ASSUME frame_seq \in acked \cup {s} PROVE frame_seq \in acked'
        <5>1. acked \cup {s} \subseteq Sequence /\ \A x \in acked \cup {s} : x <= frame_seq
          BY <4>3 DEF Numbered
        <5> HIDE DEF Sequence
        <5> QED
          BY <4>1, <4>4, <5>1, RememberKeepsNewest
      <4>5. History'
        BY <3>1, <4>1, <4>4
      <4> QED
        BY <4>2, <4>5
    <3>2. CASE Disconnect(e) /\ UNCHANGED <<tokens, released>>
      BY <2>2, <2>9, <3>2 DEF FeedbackAck
    <3> QED
      BY <2>9, <3>1, <3>2 DEF FeedbackAck
  <2>10. CASE UNCHANGED vars
    BY <2>10 DEF vars
  <2>11. CASE SkipFrame
    BY <2>11 DEF SkipFrame, flowVars, Numbered
  <2> QED
    BY <2>3, <2>4, <2>5, <2>6, <2>7, <2>8, <2>9, <2>10, <2>11 DEF Next, Capture, Feedback
<1> QED
  BY <1>1, <1>2, TypeCorrect, NumberedInvariant, PTL DEF Spec

(* The RAII bookkeeping: tentative permits of the current epoch are the    *)
(* capture thread's armed reservations, through every early return, drop   *)
(* and viewer change.                                                      *)
THEOREM TentativeOwned == Spec => []TentativeIsOwned
<1> DEFINE Owned(e) == {t.seq : t \in {u \in tokens : u.epoch = e}}
           Tentative == {s \in DOMAIN entries : entries[s] = "Tentative"}
<1>1. Init => TentativeIsOwned
  BY DEF Init, TentativeIsOwned
<1>2. TypeOK /\ Numbered /\ TentativeIsOwned /\ [Next]_vars => TentativeIsOwned'
  <2> SUFFICES ASSUME TypeOK, Numbered, TentativeIsOwned, [Next]_vars
               PROVE  TentativeIsOwned'
    OBVIOUS
  <2>0. Tentative = Owned(epoch)
    BY DEF TentativeIsOwned
  <2>1. ASSUME Reset, UNCHANGED tokens PROVE TentativeIsOwned'
    <3>1. \A u \in tokens : u.epoch # epoch + 1
      BY FlowAssumption DEF TypeOK, Epoch, Numbered, Token
    <3>2. /\ DOMAIN entries' = {}
          /\ epoch' = epoch + 1
      BY <2>1 DEF Reset
    <3> QED
      BY <2>1, <3>1, <3>2 DEF TentativeIsOwned
  <2>2. ASSUME UNCHANGED <<epoch, entries, tokens>> PROVE TentativeIsOwned'
    BY <2>2 DEF TentativeIsOwned
  <2>3. ASSUME NEW e \in Epoch, NEW s, Reserve(e, s) PROVE TentativeIsOwned'
    <3>1. /\ e = epoch /\ epoch' = epoch
          /\ s \notin DOMAIN entries
          /\ DOMAIN entries' = DOMAIN entries \cup {s}
          /\ \A x \in DOMAIN entries : entries'[x] = entries[x]
          /\ entries'[s] = "Tentative"
          /\ tokens' = tokens \cup {[epoch |-> e, seq |-> s]}
      BY <2>3 DEF Reserve, CanReserve, Bind
    <3>2. Tentative' = Tentative \cup {s}
      BY <3>1
    <3>3. {u \in tokens' : u.epoch = epoch'}
            = {u \in tokens : u.epoch = epoch} \cup {[epoch |-> e, seq |-> s]}
      BY <3>1
    <3>4. Owned(epoch)' = Owned(epoch) \cup {s}
      <4> DEFINE Mine == {u \in tokens : u.epoch = epoch}
      <4>1. Owned(epoch)' = {u.seq : u \in Mine \cup {[epoch |-> e, seq |-> s]}}
        BY <3>1, <3>3
      <4> DEFINE Fresh == [epoch |-> e, seq |-> s]
      <4>2. Fresh.seq = s
        OBVIOUS
      <4> HIDE DEF Mine, Fresh
      <4>3. {u.seq : u \in Mine \cup {Fresh}} = {u.seq : u \in Mine} \cup {s}
        BY <4>2
      <4> QED
        BY <4>1, <4>3 DEF Mine, Fresh
    <3> QED
      BY <2>0, <3>2, <3>4 DEF TentativeIsOwned
  <2>4. ASSUME NEW t \in Token, Admit(t), t \in tokens PROVE TentativeIsOwned'
    <3>1. epoch' = epoch /\ tokens' = tokens \ {t}
      BY <2>4 DEF Admit
    <3>2. CASE t.epoch = epoch
      <4>1. t.seq \in Tentative
        BY <2>0, <2>4, <3>2
      <4>2. entries' = Bind(t.seq, "Admitted")
        BY <2>4, <3>2, <4>1 DEF Admit, CanAdmit
      <4>3. Tentative' = Tentative \ {t.seq}
        BY <4>1, <4>2 DEF Bind
      <4>4. \A u \in tokens : u.epoch = epoch /\ u.seq = t.seq => u = t
        BY <3>2 DEF TypeOK, Token
      <4>5. Owned(epoch)' = Owned(epoch) \ {t.seq}
        BY <3>1, <3>2, <4>4
      <4> QED
        BY <2>0, <4>3, <4>5 DEF TentativeIsOwned
    <3>3. CASE t.epoch # epoch
      <4>1. UNCHANGED entries
        BY <2>4, <3>3 DEF Admit, CanAdmit
      <4> QED
        BY <3>1, <3>3, <4>1 DEF TentativeIsOwned
    <3> QED
      BY <3>2, <3>3
  <2>5. ASSUME NEW t \in Token, Cancel(t) PROVE TentativeIsOwned'
    <3>1. epoch' = epoch /\ tokens' = tokens \ {t}
      BY <2>5 DEF Cancel
    <3>2. CASE t.epoch = epoch
      <4>1. \A u \in tokens : u.epoch = epoch /\ u.seq = t.seq => u = t
        BY <3>2 DEF TypeOK, Token
      <4>2. Owned(epoch)' = Owned(epoch) \ {t.seq}
        BY <3>1, <3>2, <4>1
      <4>3. Tentative' = Tentative \ {t.seq}
        BY <2>5, <3>2 DEF Cancel, CanCancel, Without
      <4> QED
        BY <2>0, <3>1, <4>2, <4>3 DEF TentativeIsOwned
    <3>3. CASE t.epoch # epoch
      <4>1. UNCHANGED entries
        BY <2>5, <3>3 DEF Cancel, CanCancel
      <4> QED
        BY <3>1, <3>3, <4>1 DEF TentativeIsOwned
    <3> QED
      BY <3>2, <3>3
  <2>6. ASSUME NEW e, NEW s, Ack(e, s) PROVE TentativeIsOwned'
    <3>1. Tentative' = Tentative
      BY <2>6 DEF Ack, CanAck, Without
    <3>2. UNCHANGED <<epoch, tokens>>
      BY <2>6 DEF Ack
    <3> QED
      BY <2>0, <3>1, <3>2 DEF TentativeIsOwned
  <2>7. ASSUME NEW e, Disconnect(e), UNCHANGED tokens PROVE TentativeIsOwned'
    BY <2>1, <2>2, <2>7 DEF Disconnect, flowVars
  <2>8. CASE AcceptViewer
    BY <2>1, <2>8 DEF AcceptViewer
  <2>9. ASSUME NEW e \in Epoch, RetireViewer(e) \/ FeedbackEnd(e)
        PROVE  TentativeIsOwned'
    BY <2>7, <2>9 DEF RetireViewer, FeedbackEnd
  <2>10. ASSUME NEW e \in Epoch, ReserveFrame(e) \/ ReserveAgain(e)
         PROVE  TentativeIsOwned'
    BY <2>3, <2>10 DEF ReserveFrame, ReserveAgain
  <2>11. ASSUME NEW t \in Token, AdmitFrame(t) \/ CancelFrame(t)
         PROVE  TentativeIsOwned'
    BY <2>4, <2>5, <2>11 DEF AdmitFrame, CancelFrame
  <2>12. ASSUME NEW e \in Epoch, NEW s \in Sequence, FeedbackAck(e, s)
         PROVE  TentativeIsOwned'
    BY <2>6, <2>7, <2>12 DEF FeedbackAck
  <2>13. CASE UNCHANGED vars
    BY <2>2, <2>13 DEF vars
  <2>14. CASE SkipFrame
    BY <2>2, <2>14 DEF SkipFrame, flowVars
  <2> QED
    BY <2>8, <2>9, <2>10, <2>11, <2>12, <2>13, <2>14 DEF Next, Capture, Feedback
<1> QED
  BY <1>1, <1>2, TypeCorrect, NumberedInvariant, PTL DEF Spec

(* The reader of a retired viewer changes nothing of its successor.        *)
THEOREM StaleReadersHarmless == Spec => StaleReaderHarmless
<1>1. StaleReaderStep
  <2> SUFFICES ASSUME NEW e \in Epoch, e # epoch,
                      FeedbackEnd(e) \/ \E s \in Sequence : FeedbackAck(e, s)
               PROVE  UNCHANGED flowVars
    BY DEF StaleReaderStep
  <2> QED
    BY DEF FeedbackEnd, FeedbackAck, Ack, CanAck, Disconnect
<1> QED
  BY <1>1, PTL DEF StaleReaderHarmless

=============================================================================

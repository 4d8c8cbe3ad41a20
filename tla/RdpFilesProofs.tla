---------------------------- MODULE RdpFilesProofs ----------------------------
(***************************************************************************)
(* Proofs about RdpFiles: whatever lists the server offers, however many   *)
(* copies follow each other and whatever fails, requests, transfers and    *)
(* queued work stay well formed, the worker keeps the stage of one         *)
(* transfer, nothing superseded reaches the clipboard (FilesInvariant),    *)
(* and the answer to a request of a cancelled transfer touches no other    *)
(* (StaleAnswers).  NothingNoted is the reason of the finding: no pending  *)
(* request is ever marked as stored.                                       *)
(***************************************************************************)
EXTENDS RdpFiles, FiniteSetTheorems, SequenceTheorems, WellFoundedInduction, TLAPS

-----------------------------------------------------------------------------
(* What is typed beyond TypeOK.                                            *)

Messages ==
  [kind : {"copy"}] \cup [kind : {"list"}, list : Lists, ok : BOOLEAN]
    \cup [kind : {"contents"}, stream : Nat, ok : BOOLEAN]

Transfer ==
  [id : Transfers, entries : Seq(Entry), pending : Asked \cup {None},
   awaits : {"prepare", "publish", "nothing"}]

Results ==
  [kind : {"other", "abort"}] \cup [kind : {"prepare", "publish"}, id : Transfers, ok : BOOLEAN]
    \cup [kind : {"store"}, id : Transfers, index : Files, offset : Offsets, ok : BOOLEAN]

Requests == [kind : {"paste"}] \cup Asked

Doing ==
  Work \cup [kind : {"done"}, result : Results] \cup [kind : {"set"}, id : Transfers]
    \cup [kind : {"staged"}, id : Transfers, list : Lists]

(* The server's clipboard and both directions of the channel.              *)
ServerTyped ==
  /\ offer \in Lists
  /\ up \in Seq(Requests)
  /\ down \in Seq(Messages)
  /\ copies \in 0 .. MaxCopies /\ locals \in 0 .. MaxLocal /\ errors \in 0 .. MaxErrors

(* active_transfer is the number of the transfer there is, and none is     *)
(* under way while a list is awaited.                                      *)
BridgeTyped ==
  /\ wanted \in BOOLEAN /\ (wanted => xfer = None)
  /\ xfer \in Transfer \cup {None}
  /\ streams \in Nat /\ stale \subseteq 1 .. streams
  /\ ids \in 0 .. MaxCopies /\ lists \in Seq(Lists) /\ Len(lists) = ids
  /\ xfer = None => active = 0
  /\ xfer # None => active = xfer.id /\ xfer.id <= ids

WorkerTyped ==
  /\ cmd \in Work \cup {None} /\ deferred \in Work \cup {None}
  /\ exec \in Doing \cup {None} /\ res \in Results \cup {None}
  /\ DOMAIN stages \subseteq Transfers

(* f counts, along the messages d still to be read, the copies made before *)
(* them: at least n at the first, c in all.                                *)
Counted(d, n, c) ==
  \E f \in [0 .. Len(d) -> Nat] :
    /\ f[0] >= n
    /\ \A i \in 1 .. Len(d) : f[i] >= f[i-1] + (IF d[i].kind = "copy" THEN 1 ELSE 0)
    /\ \A i \in 0 .. Len(d) : f[i] <= c

(* Each transfer took a copy notice of its own, and so does the request of *)
(* a list; what is announced and not read yet comes on top.                *)
CopiesInv == Counted(down, IF wanted THEN ids + 1 ELSE ids, copies)

(* What was dropped is neither the current transfer nor the one the worker *)
(* is putting on the clipboard.                                            *)
DroppedInv ==
  /\ dropped \subseteq 1 .. ids
  /\ active \notin dropped
  /\ exec.kind = "set" => exec.id \notin dropped
  /\ published \cap dropped = {}

StageInv ==
  /\ \A a, b \in DOMAIN stages : a = b
  /\ exec.kind = "staged" => DOMAIN stages \subseteq {exec.id}

(* The entries are those of the transfer's list, once prepared; what is    *)
(* pending is a request for one of them, not yet noted as stored.          *)
EntryInv ==
  xfer # None =>
    /\ xfer.entries = <<>> \/ DOMAIN xfer.entries = DOMAIN lists[xfer.id]
    /\ xfer.awaits # "nothing" => xfer.pending = None
    /\ xfer.pending # None =>
         /\ xfer.pending.index \in DOMAIN xfer.entries
         /\ ~xfer.pending.stored
         /\ xfer.pending.stream <= streams

(* A stream the bridge will still recognise.                               *)
Known(s) == s \in stale \/ (xfer # None /\ xfer.pending # None /\ xfer.pending.stream = s)

(* The requests in u, the answers in d, and the streams they bear.         *)
Asks(u, i) == i \in DOMAIN u /\ u[i].kind # "paste"
Answers(d, j) == j \in DOMAIN d /\ d[j].kind = "contents"

Under(u, d, s) ==
  \/ \E i : Asks(u, i) /\ u[i].stream = s
  \/ \E j : Answers(d, j) /\ d[j].stream = s

Distinct(u, d) ==
  /\ \A i, k : Asks(u, i) /\ Asks(u, k) /\ u[i].stream = u[k].stream => i = k
  /\ \A j, k : Answers(d, j) /\ Answers(d, k) /\ d[j].stream = d[k].stream => j = k
  /\ \A i, j : Asks(u, i) /\ Answers(d, j) => u[i].stream # d[j].stream

(* Every request or answer under way has a stream of its own, and it is    *)
(* that of the pending request or remembered as stale.                     *)
StreamInv ==
  /\ Distinct(up, down)
  /\ \A s : Under(up, down, s) => s <= streams /\ Known(s)

Typed == ServerTyped /\ BridgeTyped /\ WorkerTyped

(* The inductive invariant.                                                *)
IInv ==
  /\ Typed
  /\ CopiesInv
  /\ DroppedInv
  /\ StageInv
  /\ EntryInv
  /\ StreamInv
-----------------------------------------------------------------------------
(* Values.                                                                 *)

(* A nonempty set of naturals has a first element (First is CHOOSE).       *)
LEMMA FirstIn ==
  ASSUME NEW S, S \subseteq Nat, S # {}
  PROVE  First(S) \in S
<1> DEFINE R == OpToRel(<, Nat)
<1>1. IsWellFoundedOn(R, Nat)
  BY NatLessThanWellFounded
<1>2. PICK x \in S : \A y \in S : <<y, x>> \notin R
  <2> HIDE DEF R
  <2> QED BY <1>1, WFMin
<1>3. \A y \in S : x <= y
  <2>1. \A y \in S : ~(y < x)
    BY <1>2 DEF OpToRel
  <2> QED BY <2>1
<1> QED BY <1>3 DEF First

(* No transfer, request or work is the value that stands for none.         *)
LEMMA Something ==
  /\ \A x \in Transfer : x # None
  /\ \A a \in Asked : a # None /\ a.kind # "paste" /\ a.kind # "none"
  /\ \A w \in Work : w # None
<1>1. \A x \in Transfer : x # None
  BY DEF Transfer, None
<1>2. \A a \in Asked : a # None /\ a.kind # "paste" /\ a.kind # "none"
  BY DEF Asked, None
<1>3. \A w \in Work : w # None
  BY DEF Work, None
<1> QED BY <1>1, <1>2, <1>3

(* Sizes, files and offsets of the lists.                                  *)
LEMMA ListValues ==
  /\ \A l \in Lists : l \in Seq([size : Nat, declared : BOOLEAN]) /\ DOMAIN l \subseteq Files
  /\ \A l \in Lists : \A i \in DOMAIN l : l[i].size \in Sizes /\ l[i].declared \in BOOLEAN
  /\ Sizes \subseteq Nat /\ Offsets \subseteq Nat /\ Files \subseteq Nat \ {0}
  /\ 0 \in Sizes /\ 0 \in Offsets
  /\ \A s \in Sizes : 0 .. s \subseteq Offsets
<1>1. \A l \in Lists : l \in Seq([size : Nat, declared : BOOLEAN])
  BY FilesAssumption
<1>2. \A l \in Lists : DOMAIN l \subseteq Files
  BY DEF Files
<1>3. ASSUME NEW l \in Lists, NEW i \in DOMAIN l
      PROVE  l[i] \in [size : Nat, declared : BOOLEAN]
  <2> DEFINE T == [size : Nat, declared : BOOLEAN]
  <2>1. l \in Seq(T)
    BY <1>1
  <2> HIDE DEF T
  <2>2. l[i] \in T
    BY <2>1
  <2> QED BY <2>2 DEF T
<1>4. \A l \in Lists : \A i \in DOMAIN l : l[i].size \in Sizes /\ l[i].declared \in BOOLEAN
  BY <1>3 DEF Sizes
<1>5. Sizes \subseteq Nat
  <2>1. \A l \in Lists : {l[i].size : i \in DOMAIN l} \subseteq Nat
    BY <1>3
  <2> QED BY <2>1 DEF Sizes
<1>6. Offsets \subseteq Nat
  BY <1>5 DEF Offsets
<1>7. Files \subseteq Nat \ {0}
  <2>1. \A l \in Lists : DOMAIN l \subseteq Nat \ {0}
    BY <1>1
  <2> QED BY <2>1 DEF Files
<1>8. 0 \in Sizes
  BY DEF Sizes
<1>9. \A s \in Sizes : 0 .. s \subseteq Offsets
  BY DEF Offsets
<1>10. 0 \in Offsets
  BY <1>8, <1>9, 0 \in 0 .. 0
<1> QED BY <1>1, <1>2, <1>4, <1>5, <1>6, <1>7, <1>8, <1>9, <1>10

(* The entries of a list are entries, one for each file.                   *)
LEMMA EntriesTyped ==
  ASSUME NEW l \in Lists
  PROVE  Entries(l) \in Seq(Entry) /\ DOMAIN Entries(l) = DOMAIN l
<1>1. l \in Seq([size : Nat, declared : BOOLEAN])
  BY ListValues
<1>2. DOMAIN Entries(l) = 1 .. Len(l) /\ Len(l) \in Nat
  BY <1>1 DEF Entries
<1>3. \A i \in DOMAIN l : Entries(l)[i] \in Entry
  BY ListValues DEF Entries, Entry
<1>4. \A i \in 1 .. Len(l) : Entries(l)[i] \in Entry
  BY <1>1, <1>3
<1>5. Entries(l) = [i \in 1 .. Len(l) |-> Entries(l)[i]]
  BY <1>1 DEF Entries
<1>6. Entries(l) \in [1 .. Len(l) -> Entry]
  BY <1>4, <1>5
<1>7. Entries(l) \in Seq(Entry)
  BY <1>2, <1>6
<1> QED BY <1>1, <1>2, <1>7

(* RemoveAt closes the gap.                                                *)
LEMMA Removed ==
  ASSUME NEW S, NEW s \in Seq(S), NEW i \in DOMAIN s
  PROVE  /\ RemoveAt(s, i) \in Seq(S)
         /\ DOMAIN RemoveAt(s, i) = 1 .. Len(s) - 1
         /\ \A j \in 1 .. Len(s) - 1 : RemoveAt(s, i)[j] = s[IF j < i THEN j ELSE j + 1]
<1>1. i \in 1 .. Len(s) /\ Len(s) \in Nat
  OBVIOUS
<1> DEFINE a == SubSeq(s, 1, i - 1)
           b == SubSeq(s, i + 1, Len(s))
<1>2. a \in Seq(S) /\ Len(a) = i - 1 /\ \A j \in 1 .. i - 1 : a[j] = s[j]
  BY <1>1
<1>3. b \in Seq(S) /\ Len(b) = Len(s) - i /\ \A j \in 1 .. Len(s) - i : b[j] = s[i + j]
  BY <1>1
<1> HIDE DEF a, b
<1>4. a \o b \in Seq(S) /\ Len(a \o b) = Len(s) - 1
  BY <1>1, <1>2, <1>3
<1>5. ASSUME NEW j \in 1 .. Len(s) - 1
      PROVE  (a \o b)[j] = s[IF j < i THEN j ELSE j + 1]
  <2>1. CASE j < i
    BY <1>1, <1>2, <1>3, <2>1
  <2>2. CASE ~(j < i)
    <3>1. j \in Int /\ j >= i /\ j - (i - 1) \in 1 .. Len(s) - i
      BY <1>1, <2>2
    <3>2. (a \o b)[j] = b[j - (i - 1)]
      <4>1. \A k \in 1 .. Len(a) + Len(b) :
               (a \o b)[k] = IF k <= Len(a) THEN a[k] ELSE b[k - Len(a)]
        BY <1>2, <1>3, ConcatProperties
      <4>2. j \in 1 .. Len(a) + Len(b) /\ ~(j <= Len(a)) /\ Len(a) = i - 1
        BY <1>1, <1>2, <1>3, <3>1
      <4> QED BY <4>1, <4>2
    <3>3. b[j - (i - 1)] = s[i + (j - (i - 1))]
      BY <1>3, <3>1
    <3> QED BY <1>1, <3>1, <3>2, <3>3
  <2> QED BY <2>1, <2>2
<1>6. RemoveAt(s, i) = a \o b
  BY DEF RemoveAt, a, b
<1>7. DOMAIN (a \o b) = 1 .. Len(s) - 1
  BY <1>4
<1> QED BY <1>4, <1>5, <1>6, <1>7

(* A message that is taken moves the others up.                            *)
LEMMA Shifted ==
  ASSUME NEW S, NEW s \in Seq(S), s # <<>>
  PROVE  /\ Head(s) = s[1] /\ Head(s) \in S /\ 1 \in DOMAIN s
         /\ Tail(s) \in Seq(S) /\ Len(s) \in Nat \ {0} /\ Len(Tail(s)) = Len(s) - 1
         /\ DOMAIN Tail(s) = 1 .. Len(s) - 1
         /\ \A j \in 1 .. Len(s) - 1 : Tail(s)[j] = s[j + 1]
OBVIOUS

(* A message that is sent comes last.                                      *)
LEMMA Appended ==
  ASSUME NEW S, NEW s \in Seq(S), NEW m \in S
  PROVE  /\ Append(s, m) \in Seq(S)
         /\ Len(s) \in Nat /\ Len(Append(s, m)) = Len(s) + 1
         /\ DOMAIN s = 1 .. Len(s)
         /\ DOMAIN Append(s, m) = 1 .. Len(s) + 1
         /\ \A j \in 1 .. Len(s) : Append(s, m)[j] = s[j]
         /\ Append(s, m)[Len(s) + 1] = m
OBVIOUS
-----------------------------------------------------------------------------
(* Streams under way.                                                      *)

(* A request on a fresh stream, or a paste request, is sent.               *)
LEMMA Sent ==
  ASSUME NEW u \in Seq(Requests), NEW d \in Seq(Messages), Distinct(u, d),
         NEW m \in Requests, m.kind = "paste" \/ ~Under(u, d, m.stream)
  PROVE  /\ Distinct(Append(u, m), d)
         /\ \A s : Under(Append(u, m), d, s) =>
              Under(u, d, s) \/ (m.kind # "paste" /\ s = m.stream)
<1> DEFINE v == Append(u, m)
<1>1. /\ Len(u) \in Nat /\ DOMAIN u = 1 .. Len(u) /\ DOMAIN v = 1 .. Len(u) + 1
      /\ \A j \in 1 .. Len(u) : v[j] = u[j]
      /\ v[Len(u) + 1] = m
  BY Appended
<1> HIDE DEF v
<1>2. \A i : Asks(v, i) => \/ Asks(u, i) /\ v[i] = u[i]
                           \/ i = Len(u) + 1 /\ v[i] = m /\ m.kind # "paste"
  BY <1>1 DEF Asks
<1>3. \A s : Under(v, d, s) => Under(u, d, s) \/ (m.kind # "paste" /\ s = m.stream)
  BY <1>2 DEF Under
<1>4. \A i : Asks(u, i) /\ m.kind # "paste" => u[i].stream # m.stream
  BY DEF Under
<1>5. \A j : Answers(d, j) /\ m.kind # "paste" => d[j].stream # m.stream
  BY DEF Under
<1>6. Distinct(v, d)
  <2>1. ASSUME NEW i, NEW k, Asks(v, i), Asks(v, k), v[i].stream = v[k].stream
        PROVE  i = k
    <3>1. CASE Asks(u, i) /\ v[i] = u[i] /\ Asks(u, k) /\ v[k] = u[k]
      <4>1. u[i].stream = u[k].stream
        BY <2>1, <3>1
      <4> QED BY <3>1, <4>1 DEF Distinct
    <3>2. CASE i = Len(u) + 1 /\ v[i] = m /\ m.kind # "paste"
      BY <1>2, <1>4, <2>1, <3>2
    <3>3. CASE k = Len(u) + 1 /\ v[k] = m /\ m.kind # "paste"
      BY <1>2, <1>4, <2>1, <3>3
    <3> QED BY <1>2, <2>1, <3>1, <3>2, <3>3
  <2>2. \A i, j : Asks(v, i) /\ Answers(d, j) => v[i].stream # d[j].stream
    BY <1>2, <1>5 DEF Distinct
  <2> QED BY <2>1, <2>2 DEF Distinct
<1> QED BY <1>3, <1>6 DEF v

(* A message is taken: its stream is no longer under way.                  *)
LEMMA Taken ==
  ASSUME NEW u, NEW d \in Seq(Messages), Distinct(u, d), d # <<>>
  PROVE  /\ Distinct(u, Tail(d))
         /\ \A s : Under(u, Tail(d), s) =>
              Under(u, d, s) /\ (Head(d).kind = "contents" => s # Head(d).stream)
<1> DEFINE e == Tail(d)
<1>1. /\ Head(d) = d[1] /\ 1 \in DOMAIN d /\ Len(d) \in Nat \ {0}
      /\ DOMAIN e = 1 .. Len(d) - 1 /\ DOMAIN d = 1 .. Len(d)
      /\ \A j \in 1 .. Len(d) - 1 : e[j] = d[j + 1]
  BY Shifted
<1> HIDE DEF e
<1>2. \A j : Answers(e, j) => j \in Nat /\ j + 1 # 1 /\ Answers(d, j + 1) /\ e[j] = d[j + 1]
  BY <1>1 DEF Answers
<1>3. ASSUME NEW s, Under(u, e, s)
      PROVE  Under(u, d, s) /\ (Head(d).kind = "contents" => s # Head(d).stream)
  <2>1. CASE \E i : Asks(u, i) /\ u[i].stream = s
    <3>1. Under(u, d, s)
      BY <2>1 DEF Under
    <3>2. Head(d).kind = "contents" => Answers(d, 1)
      BY <1>1 DEF Answers
    <3> QED BY <1>1, <2>1, <3>1, <3>2 DEF Distinct
  <2>2. CASE \E j : Answers(e, j) /\ e[j].stream = s
    <3>1. PICK j : Answers(e, j) /\ e[j].stream = s
      BY <2>2
    <3>2. Answers(d, j + 1) /\ d[j + 1].stream = s /\ j + 1 # 1
      BY <1>2, <3>1
    <3>3. Under(u, d, s)
      BY <3>2 DEF Under
    <3>4. Head(d).kind = "contents" => Answers(d, 1)
      BY <1>1 DEF Answers
    <3> QED BY <1>1, <3>2, <3>3, <3>4 DEF Distinct
  <2> QED BY <1>3, <2>1, <2>2 DEF Under
<1>4. Distinct(u, e)
  <2>1. ASSUME NEW j, NEW k, Answers(e, j), Answers(e, k), e[j].stream = e[k].stream
        PROVE  j = k
    <3>1. /\ j \in Nat /\ k \in Nat /\ Answers(d, j + 1) /\ Answers(d, k + 1)
          /\ d[j + 1].stream = d[k + 1].stream
      BY <1>2, <2>1
    <3>2. j + 1 = k + 1
      BY <3>1 DEF Distinct
    <3> QED BY <3>1, <3>2
  <2>2. ASSUME NEW i, NEW j, Asks(u, i), Answers(e, j)
        PROVE  u[i].stream # e[j].stream
    <3>1. Answers(d, j + 1) /\ e[j] = d[j + 1]
      BY <1>2, <2>2
    <3>2. u[i].stream # d[j + 1].stream
      BY <2>2, <3>1 DEF Distinct
    <3> QED BY <3>1, <3>2
  <2>3. \A i, k : Asks(u, i) /\ Asks(u, k) /\ u[i].stream = u[k].stream => i = k
    BY DEF Distinct
  <2> QED BY <2>1, <2>2, <2>3 DEF Distinct
<1> QED BY <1>3, <1>4 DEF e

(* A message other than contents is sent to the bridge.                    *)
LEMMA Told ==
  ASSUME NEW u, NEW d \in Seq(Messages), Distinct(u, d),
         NEW m \in Messages, m.kind # "contents"
  PROVE  /\ Distinct(u, Append(d, m))
         /\ \A s : Under(u, Append(d, m), s) => Under(u, d, s)
<1> DEFINE e == Append(d, m)
<1>1. /\ Len(d) \in Nat /\ DOMAIN d = 1 .. Len(d) /\ DOMAIN e = 1 .. Len(d) + 1
      /\ \A j \in 1 .. Len(d) : e[j] = d[j]
      /\ e[Len(d) + 1] = m
  BY Appended
<1> HIDE DEF e
<1>2. \A j : Answers(e, j) => Answers(d, j) /\ e[j] = d[j]
  BY <1>1 DEF Answers
<1>3. \A s : Under(u, e, s) => Under(u, d, s)
  BY <1>2 DEF Under
<1>4. Distinct(u, e)
  BY <1>2 DEF Distinct
<1> QED BY <1>3, <1>4 DEF e

(* A request leaves one direction and its answer enters the other.         *)
LEMMA Answered ==
  ASSUME NEW u \in Seq(Requests), NEW d \in Seq(Messages), Distinct(u, d),
         NEW i \in DOMAIN u, NEW m \in Messages,
         m.kind = "contents" => Asks(u, i) /\ m.stream = u[i].stream
  PROVE  /\ Distinct(RemoveAt(u, i), Append(d, m))
         /\ \A s : Under(RemoveAt(u, i), Append(d, m), s) => Under(u, d, s)
<1> DEFINE v == RemoveAt(u, i)
           e == Append(d, m)
           from(j) == IF j < i THEN j ELSE j + 1
<1>1. /\ Len(u) \in Nat /\ i \in 1 .. Len(u) /\ DOMAIN u = 1 .. Len(u)
      /\ DOMAIN v = 1 .. Len(u) - 1
      /\ \A j \in 1 .. Len(u) - 1 : v[j] = u[from(j)]
  BY Removed
<1>2. /\ Len(d) \in Nat /\ DOMAIN d = 1 .. Len(d) /\ DOMAIN e = 1 .. Len(d) + 1
      /\ \A j \in 1 .. Len(d) : e[j] = d[j]
      /\ e[Len(d) + 1] = m
  BY Appended
<1> HIDE DEF v, e
<1>3. \A j : Asks(v, j) => j \in Nat /\ Asks(u, from(j)) /\ from(j) # i /\ v[j] = u[from(j)]
  BY <1>1 DEF Asks
<1>4. \A j : Answers(e, j) => \/ Answers(d, j) /\ e[j] = d[j]
                              \/ j = Len(d) + 1 /\ e[j] = m /\ m.kind = "contents"
  BY <1>2 DEF Answers
<1>5. \A j, k \in Nat : from(j) = from(k) => j = k
  BY <1>1
<1> HIDE DEF from
<1>6. \A s : Under(v, e, s) => Under(u, d, s)
  BY <1>3, <1>4 DEF Under
<1>7. Distinct(v, e)
  <2>1. \A j, k : Asks(v, j) /\ Asks(v, k) /\ v[j].stream = v[k].stream => j = k
    <3>1. ASSUME NEW j, NEW k, Asks(v, j), Asks(v, k), v[j].stream = v[k].stream
          PROVE  j = k
      <4>1. u[from(j)].stream = u[from(k)].stream /\ Asks(u, from(j)) /\ Asks(u, from(k))
        BY <1>3, <3>1
      <4>2. from(j) = from(k)
        BY <4>1 DEF Distinct
      <4> QED BY <1>3, <1>5, <3>1, <4>2
    <3> QED BY <3>1
  <2>2. ASSUME NEW j, NEW k, Answers(e, j), Answers(e, k), e[j].stream = e[k].stream
        PROVE  j = k
    <3>1. CASE Answers(d, j) /\ e[j] = d[j] /\ Answers(d, k) /\ e[k] = d[k]
      <4>1. d[j].stream = d[k].stream
        BY <2>2, <3>1
      <4> QED BY <3>1, <4>1 DEF Distinct
    <3>2. ASSUME NEW l, Answers(d, l), e[l] = d[l], m.kind = "contents"
          PROVE  d[l].stream # m.stream
      BY <3>2 DEF Distinct
    <3> QED BY <1>4, <2>2, <3>1, <3>2
  <2>3. ASSUME NEW j, NEW k, Asks(v, j), Answers(e, k)
        PROVE  v[j].stream # e[k].stream
    <3>1. Asks(u, from(j)) /\ from(j) # i /\ v[j] = u[from(j)]
      BY <1>3, <2>3
    <3>2. CASE Answers(d, k) /\ e[k] = d[k]
      BY <3>1, <3>2 DEF Distinct
    <3>3. CASE e[k] = m /\ m.kind = "contents"
      <4>1. u[from(j)].stream # u[i].stream
        BY <3>1, <3>3 DEF Distinct
      <4> QED BY <3>1, <3>3, <4>1
    <3> QED BY <1>4, <2>3, <3>2, <3>3
  <2> QED BY <2>1, <2>2, <2>3 DEF Distinct
<1> QED BY <1>6, <1>7 DEF v, e
-----------------------------------------------------------------------------
(* What the bridge's helpers leave.                                        *)

(* Submitted work waits in the queue or in the deferred slot.              *)
LEMMA SubmitLeaves ==
  ASSUME WorkerTyped, NEW w \in Work, Submit(w)
  PROVE  cmd' \in Work \cup {None} /\ deferred' \in Work \cup {None}
BY DEF Submit, WorkerTyped

(* A cancelled transfer is gone, its stream remembered, and it counts as   *)
(* dropped unless it is on the clipboard or on its way there.              *)
LEMMA CancelLeaves ==
  ASSUME Typed, DroppedInv, EntryInv, Cancel
  PROVE  /\ xfer' = None /\ active' = 0
         /\ stale' \subseteq 1 .. streams
         /\ \A s : Known(s) => s \in stale'
         /\ cmd' \in Work \cup {None} /\ deferred' \in Work \cup {None}
         /\ dropped' \subseteq 1 .. ids /\ 0 \notin dropped'
         /\ exec.kind = "set" => exec.id \notin dropped'
         /\ published \cap dropped' = {}
<1> USE DEF Typed
<1>1. xfer' = None /\ active' = 0
  BY DEF Cancel
<1>2. CASE xfer = None
  <2>1. stale' = stale /\ cmd' = cmd /\ deferred' = deferred /\ dropped' = dropped
    BY <1>2 DEF Cancel
  <2>2. \A s : Known(s) => s \in stale
    BY <1>2 DEF Known
  <2>3. cmd' \in Work \cup {None} /\ deferred' \in Work \cup {None}
    BY <2>1 DEF WorkerTyped
  <2>4. stale' \subseteq 1 .. streams
    BY <2>1 DEF BridgeTyped
  <2>5. /\ dropped' \subseteq 1 .. ids
        /\ exec.kind = "set" => exec.id \notin dropped'
        /\ published \cap dropped' = {}
    BY <2>1 DEF DroppedInv
  <2>6. 0 \notin dropped'
    BY <2>5 DEF BridgeTyped
  <2> QED BY <1>1, <2>1, <2>2, <2>3, <2>4, <2>5, <2>6
<1>3. CASE xfer # None
  <2>1. /\ xfer \in Transfer /\ xfer.id \in Transfers /\ xfer.id \in 1 .. ids
        /\ xfer.pending \in Asked \cup {None}
    BY <1>3 DEF BridgeTyped, Transfer, Transfers
  <2>2. stale' = Remembered(xfer.pending)
    BY <1>3 DEF Cancel
  <2>3. \A s : Known(s) => s \in stale'
    BY <2>2 DEF Known, Remembered
  <2>4. stale' \subseteq 1 .. streams
    <3>1. CASE xfer.pending = None
      BY <2>2, <3>1 DEF Remembered, BridgeTyped
    <3>2. CASE xfer.pending # None
      <4>1. xfer.pending.stream \in Nat \ {0} /\ xfer.pending.stream <= streams
        BY <1>3, <2>1, <3>2 DEF Asked, EntryInv
      <4>2. stale' = stale \cup {xfer.pending.stream} /\ stale \subseteq 1 .. streams
            /\ streams \in Nat
        BY <2>2, <3>2 DEF Remembered, BridgeTyped
      <4>3. xfer.pending.stream \in 1 .. streams
        BY <4>1, <4>2
      <4> QED BY <4>2, <4>3
    <3> QED BY <3>1, <3>2
  <2>5. [kind |-> "abort", id |-> xfer.id] \in Work
    BY <2>1 DEF Work
  <2>6. cmd' \in Work \cup {None} /\ deferred' \in Work \cup {None}
    BY <1>3, <2>5 DEF Cancel, WorkerTyped
  <2>7. \/ dropped' = dropped
        \/ /\ dropped' = dropped \cup {xfer.id}
           /\ xfer.id \notin published /\ exec # [kind |-> "set", id |-> xfer.id]
    BY <1>3 DEF Cancel
  <2>8. dropped \subseteq 1 .. ids
    BY DEF DroppedInv
  <2>9. dropped' \subseteq 1 .. ids
    BY <2>1, <2>7, <2>8
  <2>10. 0 \notin dropped'
    BY <2>9 DEF BridgeTyped
  <2>11. exec.kind = "set" => exec.id \notin dropped'
    <3>1. ASSUME exec.kind = "set"
          PROVE  exec = [kind |-> "set", id |-> exec.id]
      BY <3>1 DEF WorkerTyped, Doing, Work, None
    <3> QED BY <2>7, <3>1 DEF DroppedInv
  <2>12. published \cap dropped' = {}
    BY <2>7 DEF DroppedInv
  <2> QED BY <1>1, <2>3, <2>4, <2>6, <2>9, <2>10, <2>11, <2>12
<1> QED BY <1>2, <1>3

(* The next request is on a fresh stream and for one of the entries; when  *)
(* nothing is missing the transfer awaits publication.                     *)
LEMMA RequestNextLeaves ==
  ASSUME Typed, NEW x \in Transfer, DOMAIN x.entries \subseteq Files, RequestNext(x)
  PROVE  /\ xfer' \in Transfer /\ xfer'.id = x.id /\ xfer'.entries = x.entries
         /\ xfer'.awaits # "nothing" => xfer'.pending = None
         /\ cmd' \in Work \cup {None} /\ deferred' \in Work \cup {None}
         /\ \/ /\ xfer'.pending = None
               /\ streams' = streams /\ up' = up
            \/ /\ xfer'.pending \in Asked
               /\ xfer'.pending.index \in DOMAIN x.entries
               /\ ~xfer'.pending.stored
               /\ xfer'.pending.stream = streams + 1
               /\ streams' = streams + 1 /\ up' = Append(up, xfer'.pending)
<1> USE DEF Typed
<1> DEFINE es == x.entries
           ask == IF Unsized(es) # {}
                  THEN [kind |-> "size", stream |-> streams + 1, index |-> First(Unsized(es)),
                        offset |-> 0, stored |-> FALSE]
                  ELSE [kind |-> "range", stream |-> streams + 1, index |-> First(Unread(es)),
                        offset |-> es[First(Unread(es))].received, stored |-> FALSE]
<1>1. es \in Seq(Entry) /\ x.id \in Transfers /\ DOMAIN es \subseteq Nat
  BY DEF Transfer
<1>2. streams \in Nat /\ streams + 1 \in Nat \ {0}
  BY DEF BridgeTyped
<1>3. Unsized(es) \subseteq DOMAIN es /\ Unread(es) \subseteq DOMAIN es
  BY DEF Unsized, Unread
<1>4. CASE Unsized(es) \cup Unread(es) # {}
  <2>1. /\ xfer' = [x EXCEPT !.pending = ask, !.awaits = "nothing"]
        /\ streams' = streams + 1 /\ up' = Append(up, ask)
        /\ cmd' = cmd /\ deferred' = deferred
    BY <1>4, Zenon DEF RequestNext
  <2>2. /\ ask.index \in DOMAIN es /\ ask.offset \in Offsets /\ ask.kind \in {"size", "range"}
        /\ ask = [kind |-> ask.kind, stream |-> streams + 1, index |-> ask.index,
                  offset |-> ask.offset, stored |-> FALSE]
    <3>1. CASE Unsized(es) # {}
      <4>1. First(Unsized(es)) \in DOMAIN es
        BY <1>1, <1>3, <3>1, FirstIn
      <4> QED BY <3>1, <4>1, ListValues
    <3>2. CASE Unsized(es) = {}
      <4> DEFINE i == First(Unread(es))
      <4>1. i \in DOMAIN es
        BY <1>1, <1>3, <1>4, <3>2, FirstIn
      <4> HIDE DEF i
      <4>2. es[i] \in Entry
        BY <1>1, <4>1
      <4>3. es[i].received \in Offsets
        BY <4>2 DEF Entry
      <4>4. ask = [kind |-> "range", stream |-> streams + 1, index |-> i,
                   offset |-> es[i].received, stored |-> FALSE]
        BY <3>2 DEF i
      <4> HIDE DEF ask
      <4> QED BY <4>1, <4>3, <4>4
    <3> QED BY <3>1, <3>2
  <2> HIDE DEF ask
  <2>3. ask \in Asked /\ ask.stream = streams + 1 /\ ~ask.stored
    <3>1. PICK k \in {"size", "range"}, i \in Files, o \in Offsets :
            ask = [kind |-> k, stream |-> streams + 1, index |-> i, offset |-> o,
                   stored |-> FALSE]
      BY <2>2
    <3>2. ask \in Asked
      BY <1>2, <3>1 DEF Asked
    <3> QED BY <3>1, <3>2
  <2>4. xfer' = [id |-> x.id, entries |-> es, pending |-> ask, awaits |-> "nothing"]
    BY <2>1 DEF Transfer
  <2>5. xfer' \in Transfer
    BY <1>1, <2>3, <2>4 DEF Transfer
  <2>6. cmd' \in Work \cup {None} /\ deferred' \in Work \cup {None}
    BY <2>1 DEF WorkerTyped
  <2> QED BY <2>1, <2>2, <2>3, <2>4, <2>5, <2>6
<1>5. CASE Unsized(es) \cup Unread(es) = {}
  <2>1. /\ xfer' = [x EXCEPT !.pending = None, !.awaits = "publish"]
        /\ streams' = streams /\ up' = up
        /\ Submit([kind |-> "publish", id |-> x.id])
    BY <1>5, Zenon DEF RequestNext
  <2>2. [kind |-> "publish", id |-> x.id] \in Work
    BY <1>1 DEF Work
  <2>3. cmd' \in Work \cup {None} /\ deferred' \in Work \cup {None}
    BY <2>1, <2>2, SubmitLeaves
  <2>4. xfer' = [id |-> x.id, entries |-> es, pending |-> None, awaits |-> "publish"]
    BY <2>1 DEF Transfer
  <2>5. xfer' \in Transfer
    BY <1>1, <2>4 DEF Transfer
  <2> QED BY <2>1, <2>3, <2>4, <2>5
<1> QED BY <1>4, <1>5
-----------------------------------------------------------------------------
(* The count of the copies.                                                *)

(* A count holds of any smaller start, and bounds it.                      *)
LEMMA CountedLess ==
  ASSUME NEW d \in Seq(Messages), NEW n \in Nat, NEW c \in Nat, Counted(d, n, c),
         NEW k \in Nat, k <= n
  PROVE  Counted(d, k, c) /\ n <= c
<1>1. PICK f \in [0 .. Len(d) -> Nat] :
        /\ f[0] >= n
        /\ \A i \in 1 .. Len(d) : f[i] >= f[i-1] + (IF d[i].kind = "copy" THEN 1 ELSE 0)
        /\ \A i \in 0 .. Len(d) : f[i] <= c
  BY DEF Counted
<1>2. Len(d) \in Nat /\ f[0] \in Nat /\ f[0] <= c
  BY <1>1
<1>3. n <= c /\ f[0] >= k
  BY <1>1, <1>2
<1>4. Counted(d, k, c)
  BY <1>1, <1>3 DEF Counted
<1> QED BY <1>3, <1>4

(* A message is read; a copy notice passes from the channel to the bridge. *)
LEMMA CountedTail ==
  ASSUME NEW d \in Seq(Messages), NEW n \in Nat, NEW c \in Nat, Counted(d, n, c), d # <<>>
  PROVE  Counted(Tail(d), IF Head(d).kind = "copy" THEN n + 1 ELSE n, c)
<1>1. PICK f \in [0 .. Len(d) -> Nat] :
        /\ f[0] >= n
        /\ \A i \in 1 .. Len(d) : f[i] >= f[i-1] + (IF d[i].kind = "copy" THEN 1 ELSE 0)
        /\ \A i \in 0 .. Len(d) : f[i] <= c
  BY DEF Counted
<1> DEFINE e == Tail(d)
           g == [i \in 0 .. Len(e) |-> f[i + 1]]
           k == IF Head(d).kind = "copy" THEN n + 1 ELSE n
<1>2. /\ Head(d) = d[1] /\ Len(d) \in Nat \ {0} /\ Len(e) = Len(d) - 1
      /\ \A j \in 1 .. Len(d) - 1 : e[j] = d[j + 1]
  BY Shifted
<1> HIDE DEF e
<1>3. \A i \in 0 .. Len(d) : f[i] \in Nat
  BY <1>1
<1>4. \A i \in 0 .. Len(e) : g[i] = f[i + 1] /\ i + 1 \in 1 .. Len(d)
  BY <1>2
<1>5. g \in [0 .. Len(e) -> Nat]
  BY <1>2, <1>3
<1> HIDE DEF g
<1>6. g[0] >= k
  <2>1. f[1] >= f[0] + (IF d[1].kind = "copy" THEN 1 ELSE 0)
    <3>1. 1 \in 1 .. Len(d)
      BY <1>2
    <3>2. f[1] >= f[1-1] + (IF d[1].kind = "copy" THEN 1 ELSE 0)
      BY <1>1, <3>1
    <3> QED BY <3>2
  <2>2. g[0] = f[1] /\ f[0] \in Nat /\ f[1] \in Nat
    BY <1>2, <1>3, <1>4
  <2> QED BY <1>1, <1>2, <2>1, <2>2
<1>7. ASSUME NEW i \in 1 .. Len(e)
      PROVE  g[i] >= g[i-1] + (IF e[i].kind = "copy" THEN 1 ELSE 0)
  <2>1. i \in 0 .. Len(e) /\ i - 1 \in 0 .. Len(e) /\ i + 1 \in 1 .. Len(d)
        /\ (i - 1) + 1 = i /\ (i + 1) - 1 = i /\ i \in 1 .. Len(d) - 1
    BY <1>2
  <2>2. g[i] = f[i + 1] /\ g[i-1] = f[i] /\ e[i] = d[i + 1]
    BY <1>2, <1>4, <2>1
  <2>3. f[i + 1] >= f[(i + 1) - 1] + (IF d[i + 1].kind = "copy" THEN 1 ELSE 0)
    BY <1>1, <2>1
  <2> QED BY <2>1, <2>2, <2>3
<1>8. \A i \in 0 .. Len(e) : g[i] <= c
  BY <1>1, <1>2, <1>4
<1> HIDE DEF k
<1>9. Counted(e, k, c)
  BY <1>5, <1>6, <1>7, <1>8 DEF Counted
<1> QED BY <1>9 DEF e, k

(* A message is sent; a copy notice counts.                                *)
LEMMA CountedAppend ==
  ASSUME NEW d \in Seq(Messages), NEW n \in Nat, NEW c \in Nat, Counted(d, n, c),
         NEW m \in Messages
  PROVE  Counted(Append(d, m), n, IF m.kind = "copy" THEN c + 1 ELSE c)
<1>1. PICK f \in [0 .. Len(d) -> Nat] :
        /\ f[0] >= n
        /\ \A i \in 1 .. Len(d) : f[i] >= f[i-1] + (IF d[i].kind = "copy" THEN 1 ELSE 0)
        /\ \A i \in 0 .. Len(d) : f[i] <= c
  BY DEF Counted
<1> DEFINE e == Append(d, m)
           l == Len(d)
           one == IF m.kind = "copy" THEN 1 ELSE 0
           g == [i \in 0 .. l + 1 |-> IF i <= l THEN f[i] ELSE f[l] + one]
<1>2. /\ l \in Nat /\ Len(e) = l + 1
      /\ \A j \in 1 .. l : e[j] = d[j]
      /\ e[l + 1] = m
  BY Appended
<1> HIDE DEF e
<1>3. \A i \in 0 .. l : f[i] \in Nat
  BY <1>1
<1>4. l \in 0 .. l /\ one \in {0, 1}
  BY <1>2
<1> HIDE DEF l
<1>5. g \in [0 .. l + 1 -> Nat]
  BY <1>2, <1>3, <1>4
<1>6. (\A i \in 0 .. l : g[i] = f[i]) /\ g[l + 1] = f[l] + one
  BY <1>2
<1> HIDE DEF g
<1>7. g[0] >= n
  BY <1>1, <1>2, <1>6
<1>8. ASSUME NEW i \in 1 .. l + 1
      PROVE  g[i] >= g[i-1] + (IF e[i].kind = "copy" THEN 1 ELSE 0)
  <2>1. CASE i \in 1 .. l
    <3>1. g[i] = f[i] /\ g[i-1] = f[i-1] /\ e[i] = d[i]
      BY <1>2, <1>6, <2>1
    <3>2. f[i] >= f[i-1] + (IF d[i].kind = "copy" THEN 1 ELSE 0)
      BY <1>1, <2>1 DEF l
    <3> QED BY <3>1, <3>2
  <2>2. CASE i = l + 1
    <3>1. i - 1 = l
      BY <1>2, <2>2
    <3>2. g[i] = f[l] + one /\ g[i-1] = f[l] /\ e[i] = m /\ f[l] \in Nat
      BY <1>2, <1>3, <1>4, <1>6, <2>2, <3>1
    <3> QED BY <3>2
  <2> QED BY <1>2, <2>1, <2>2
<1>9. ASSUME NEW i \in 0 .. l + 1
      PROVE  g[i] <= IF m.kind = "copy" THEN c + 1 ELSE c
  <2>1. \A j \in 0 .. l : f[j] <= c
    BY <1>1 DEF l
  <2>2. CASE i \in 0 .. l
    <3>1. g[i] <= c /\ g[i] \in Nat
      BY <1>3, <1>6, <2>1, <2>2
    <3> QED BY <3>1
  <2>3. CASE i = l + 1
    <3>1. g[i] = f[l] + one /\ f[l] <= c /\ f[l] \in Nat
      BY <1>3, <1>4, <1>6, <2>1, <2>3
    <3> QED BY <3>1
  <2> QED BY <1>2, <2>2, <2>3
<1> DEFINE C == IF m.kind = "copy" THEN c + 1 ELSE c
<1>10. Counted(e, n, C)
  <2> HIDE DEF C
  <2>1. \A i \in 0 .. Len(e) : g[i] <= C
    BY <1>2, <1>9 DEF C
  <2>2. \A i \in 1 .. Len(e) : g[i] >= g[i-1] + (IF e[i].kind = "copy" THEN 1 ELSE 0)
    BY <1>2, <1>8
  <2> QED BY <1>2, <1>5, <1>7, <2>1, <2>2 DEF Counted
<1> QED BY <1>10 DEF e
-----------------------------------------------------------------------------
(* Steps.                                                                  *)

(* A refusal or a failed operation stays within the bound.                 *)
LEMMA ErrsKept ==
  ASSUME ServerTyped, NEW yes \in BOOLEAN, Errs(yes)
  PROVE  errors' \in 0 .. MaxErrors
<1>1. errors \in 0 .. MaxErrors /\ MaxErrors \in Nat
  BY FilesAssumption DEF ServerTyped
<1>2. errors' = errors \/ (errors < MaxErrors /\ errors' = errors + 1)
  BY DEF Errs
<1> QED BY <1>1, <1>2

(* A step of the worker or of its queues leaves channel and bridge alone.  *)
LEMMA QuietKeeps ==
  ASSUME IInv, UNCHANGED <<server, bridge, locals, lists, dropped>>,
         errors' \in 0 .. MaxErrors, WorkerTyped', StageInv',
         exec'.kind = "set" => exec'.id \notin dropped,
         published' \cap dropped = {}
  PROVE  IInv'
<1>1. ServerTyped'
  BY DEF IInv, Typed, ServerTyped, server
<1>2. BridgeTyped'
  BY DEF IInv, Typed, BridgeTyped, bridge
<1>3. CopiesInv'
  BY DEF IInv, CopiesInv, bridge, server
<1>4. DroppedInv'
  BY DEF IInv, DroppedInv, bridge
<1>5. EntryInv'
  BY DEF IInv, EntryInv, bridge
<1>6. StreamInv'
  BY DEF IInv, StreamInv, Known, server, bridge
<1> QED BY <1>1, <1>2, <1>3, <1>4, <1>5, <1>6 DEF IInv, Typed

(* The queues between bridge and worker.                                   *)
LEMMA QueueSteps ==
  ASSUME IInv, Retry \/ OtherWork \/ Take
  PROVE  IInv'
<1>1. UNCHANGED <<server, bridge, locals, lists, dropped, errors, published, stages>>
  BY DEF Retry, OtherWork, Take, worker, history
<1>2. WorkerTyped /\ errors \in 0 .. MaxErrors /\ StageInv /\ DroppedInv
  BY DEF IInv, Typed, ServerTyped
<1>3. CASE Retry
  <2>1. WorkerTyped' /\ exec' = exec
    BY <1>2, <1>3 DEF Retry, WorkerTyped, worker
  <2> QED BY <1>1, <1>2, <2>1, QuietKeeps DEF StageInv, DroppedInv
<1>4. CASE OtherWork
  <2>1. [kind |-> "other"] \in Work
    BY DEF Work
  <2>2. WorkerTyped' /\ exec' = exec
    BY <1>2, <1>4, <2>1 DEF OtherWork, WorkerTyped, worker
  <2> QED BY <1>1, <1>2, <2>2, QuietKeeps DEF StageInv, DroppedInv
<1>5. CASE Take
  <2>1. exec' \in Work /\ cmd' = None /\ deferred' = deferred /\ res' = res
    BY <1>2, <1>5 DEF Take, WorkerTyped
  <2>2. WorkerTyped'
    BY <1>1, <1>2, <2>1 DEF WorkerTyped, Doing
  <2>3. exec'.kind \notin {"set", "staged"}
    BY <2>1 DEF Work
  <2>4. StageInv'
    BY <1>1, <1>2, <2>3 DEF StageInv
  <2>5. published' \cap dropped = {}
    BY <1>1, <1>2 DEF DroppedInv
  <2>6. errors' \in 0 .. MaxErrors
    BY <1>1, <1>2
  <2> QED BY <1>1, <2>2, <2>3, <2>4, <2>5, <2>6, QuietKeeps
<1> QED BY <1>3, <1>4, <1>5

(* The worker hands a result over, or ends an operation.                   *)
LEMMA DoneKeeps ==
  ASSUME IInv, NEW r \in Results, Done(r),
         UNCHANGED <<server, bridge, deferred, cmd, res, locals, lists, dropped>>,
         errors' \in 0 .. MaxErrors,
         DOMAIN stages' \subseteq DOMAIN stages,
         published' \cap dropped = {}
  PROVE  IInv'
<1>1. WorkerTyped /\ StageInv
  BY DEF IInv, Typed
<1>2. exec' = [kind |-> "done", result |-> r]
  BY DEF Done
<1>3. WorkerTyped'
  BY <1>1, <1>2 DEF WorkerTyped, Doing
<1>4. exec'.kind \notin {"set", "staged"}
  BY <1>2
<1>5. StageInv'
  BY <1>1, <1>4 DEF StageInv
<1> QED BY <1>3, <1>4, <1>5, QuietKeeps

(* The parts of IInv the worker's operations need.                         *)
LEMMA WorkerFacts ==
  ASSUME IInv
  PROVE  /\ WorkerTyped /\ StageInv /\ DroppedInv /\ ServerTyped
         /\ errors \in 0 .. MaxErrors
         /\ published \cap dropped = {}
BY DEF IInv, Typed, ServerTyped, DroppedInv

(* An abort removes a stage; other work has none.                          *)
LEMMA SimpleKeeps ==
  ASSUME IInv, Simple
  PROVE  IInv'
<1>1. exec.kind \in {"other", "abort"} /\ Done([kind |-> exec.kind])
  BY DEF Simple
<1>2. [kind |-> exec.kind] \in Results
  BY <1>1 DEF Results
<1>3. DOMAIN stages' \subseteq DOMAIN stages
  BY DEF Simple, Without
<1>4. UNCHANGED <<server, bridge, deferred, cmd, res, locals, lists, dropped, errors, published>>
  BY DEF Simple, history
<1> QED BY <1>1, <1>2, <1>3, <1>4, WorkerFacts, DoneKeeps

(* What the worker is doing, by its kind.                                  *)
LEMMA DoingKinds ==
  ASSUME WorkerTyped
  PROVE  /\ exec.kind = "prepare" => exec.id \in Transfers /\ exec.list \in Lists
         /\ exec.kind = "store" => /\ exec.id \in Transfers /\ exec.index \in Files
                                   /\ exec.offset \in Offsets
         /\ exec.kind \in {"publish", "abort", "set"} => exec.id \in Transfers
         /\ exec.kind = "staged" => exec.id \in Transfers /\ exec.list \in Lists
         /\ exec.kind = "done" => exec.result \in Results
<1>1. exec \in Doing \cup {None}
  BY DEF WorkerTyped
<1>2. exec.kind = "prepare" => exec.id \in Transfers /\ exec.list \in Lists
  BY <1>1 DEF Doing, Work, None
<1>3. exec.kind = "store" => exec.id \in Transfers /\ exec.index \in Files /\ exec.offset \in Offsets
  BY <1>1 DEF Doing, Work, None
<1>4. exec.kind \in {"publish", "abort", "set"} => exec.id \in Transfers
  BY <1>1 DEF Doing, Work, None
<1>5. exec.kind = "staged" => exec.id \in Transfers /\ exec.list \in Lists
  BY <1>1 DEF Doing, Work, None
<1>6. exec.kind = "done" => exec.result \in Results
  BY <1>1 DEF Doing, Work, None
<1> QED BY <1>2, <1>3, <1>4, <1>5, <1>6

(* Older stages go before a new one is made.                               *)
LEMMA PrepareKeeps ==
  ASSUME IInv, NEW ok \in BOOLEAN, PrepareBegins(ok)
  PROVE  IInv'
<1>1. exec.kind = "prepare" /\ Errs(~ok)
  BY DEF PrepareBegins
<1>2. exec.id \in Transfers /\ exec.list \in Lists /\ WorkerTyped /\ StageInv /\ ServerTyped
  BY <1>1, WorkerFacts, DoingKinds
<1>3. errors' \in 0 .. MaxErrors
  BY <1>1, <1>2, ErrsKept
<1>4. UNCHANGED <<server, bridge, deferred, cmd, res, locals, lists, dropped, published>>
  BY DEF PrepareBegins, history
<1>5. published' \cap dropped = {}
  BY <1>4, WorkerFacts
<1>6. DOMAIN stages' \subseteq DOMAIN stages
  BY DEF PrepareBegins, Without
<1>7. CASE active = exec.id /\ ok
  <2>1. exec' = [kind |-> "staged", id |-> exec.id, list |-> exec.list]
    BY <1>7 DEF PrepareBegins
  <2>2. DOMAIN stages' = DOMAIN stages \ Older
    BY <1>7 DEF PrepareBegins, Without
  <2>3. DOMAIN stages' \subseteq {exec.id}
    BY <2>2 DEF Older
  <2>4. StageInv'
    BY <2>1, <2>3 DEF StageInv
  <2>5. WorkerTyped'
    BY <1>2, <1>4, <1>6, <2>1 DEF WorkerTyped, Doing
  <2>6. exec'.kind # "set"
    BY <2>1
  <2> QED BY <1>3, <1>4, <1>5, <2>4, <2>5, <2>6, QuietKeeps
<1>8. CASE ~(active = exec.id /\ ok)
  <2>1. Done(Result(FALSE))
    BY <1>8 DEF PrepareBegins
  <2>2. Result(FALSE) \in Results
    BY <1>1, <1>2 DEF Result, Results
  <2> QED BY <1>3, <1>4, <1>5, <1>6, <2>1, <2>2, DoneKeeps
<1> QED BY <1>7, <1>8

(* The new stage is the only one.                                          *)
LEMMA StagedKeeps ==
  ASSUME IInv, PrepareEnds
  PROVE  IInv'
<1>1. exec.kind = "staged"
  BY DEF PrepareEnds
<1>2. exec.id \in Transfers /\ WorkerTyped /\ StageInv
  BY <1>1, WorkerFacts, DoingKinds
<1> DEFINE r == [kind |-> "prepare", id |-> exec.id, ok |-> active = exec.id]
<1>3. exec' = [kind |-> "done", result |-> r]
  BY DEF PrepareEnds, Done
<1>4. r \in Results
  BY <1>2 DEF Results
<1>5. UNCHANGED <<server, bridge, deferred, cmd, res, locals, lists, dropped, errors, published>>
  BY DEF PrepareEnds, history
<1>6. DOMAIN stages' \subseteq {exec.id}
  <2>1. DOMAIN stages \subseteq {exec.id}
    BY <1>1, <1>2 DEF StageInv
  <2>2. DOMAIN stages' \subseteq DOMAIN stages \cup {exec.id}
    BY DEF PrepareEnds
  <2> QED BY <2>1, <2>2
<1>7. exec'.kind \notin {"set", "staged"}
  BY <1>3
<1>8. StageInv'
  BY <1>6, <1>7 DEF StageInv
<1> HIDE DEF r
<1>9. WorkerTyped'
  BY <1>2, <1>3, <1>4, <1>5, <1>6 DEF WorkerTyped, Doing
<1> QED BY <1>5, <1>7, <1>8, <1>9, WorkerFacts, QuietKeeps

(* A chunk is stored in a stage there is, or refused.                      *)
LEMMA StoreKeeps ==
  ASSUME IInv, NEW ok \in BOOLEAN, Store(ok)
  PROVE  IInv'
<1>1. exec.kind = "store" /\ Errs(~ok)
  BY DEF Store
<1>2. /\ exec.id \in Transfers /\ exec.index \in Files /\ exec.offset \in Offsets
      /\ ServerTyped
  BY <1>1, WorkerFacts, DoingKinds
<1>3. errors' \in 0 .. MaxErrors
  BY <1>1, <1>2, ErrsKept
<1>4. UNCHANGED <<server, bridge, deferred, cmd, res, locals, lists, dropped, published>>
  BY DEF Store, history
<1>5. PICK fits \in BOOLEAN :
        Done([kind |-> "store", id |-> exec.id, index |-> exec.index,
              offset |-> exec.offset, ok |-> fits /\ ok])
  BY DEF Store
<1>6. [kind |-> "store", id |-> exec.id, index |-> exec.index,
       offset |-> exec.offset, ok |-> fits /\ ok] \in Results
  BY <1>2 DEF Results
<1>7. DOMAIN stages' \subseteq DOMAIN stages
  BY DEF Store
<1>8. published' \cap dropped = {}
  BY <1>4, WorkerFacts
<1> QED BY <1>3, <1>4, <1>5, <1>6, <1>7, <1>8, DoneKeeps

(* The last look at active_transfer: what is set on the clipboard is the   *)
(* current transfer, and that was not dropped.                             *)
LEMMA PublishBeginsKeeps ==
  ASSUME IInv, PublishBegins
  PROVE  IInv'
<1>1. exec.kind = "publish"
  BY DEF PublishBegins
<1>2. exec.id \in Transfers /\ WorkerTyped /\ StageInv
  BY <1>1, WorkerFacts, DoingKinds
<1>3. UNCHANGED <<server, bridge, deferred, cmd, res, locals, lists, dropped, errors, published>>
  BY DEF PublishBegins, history
<1>4. DOMAIN stages' \subseteq DOMAIN stages
  BY DEF PublishBegins, Without
<1>5. CASE MayPublish(exec.id)
  <2>1. exec' = [kind |-> "set", id |-> exec.id] /\ active = exec.id
    BY <1>5 DEF PublishBegins, MayPublish
  <2>2. exec.id \notin dropped
    BY <2>1, WorkerFacts DEF DroppedInv
  <2>3. WorkerTyped'
    BY <1>2, <1>3, <1>4, <2>1 DEF WorkerTyped, Doing
  <2>4. exec'.kind # "staged" /\ exec'.id = exec.id
    BY <2>1
  <2>5. StageInv'
    BY <1>2, <1>4, <2>4 DEF StageInv
  <2> QED BY <1>3, <2>2, <2>3, <2>4, <2>5, WorkerFacts, QuietKeeps
<1>6. CASE ~MayPublish(exec.id)
  <2>1. Done(Result(FALSE))
    BY <1>6 DEF PublishBegins
  <2>2. Result(FALSE) \in Results
    BY <1>1, <1>2 DEF Result, Results
  <2> QED BY <1>3, <1>4, <2>1, <2>2, WorkerFacts, DoneKeeps
<1> QED BY <1>5, <1>6

(* What reaches the clipboard was not dropped before the last look.        *)
LEMMA PublishSetsKeeps ==
  ASSUME IInv, NEW ok \in BOOLEAN, PublishSets(ok)
  PROVE  IInv'
<1>1. exec.kind = "set" /\ Errs(~ok)
  BY DEF PublishSets
<1>2. exec.id \in Transfers /\ ServerTyped /\ DroppedInv
  BY <1>1, WorkerFacts, DoingKinds
<1>3. errors' \in 0 .. MaxErrors
  BY <1>1, <1>2, ErrsKept
<1>4. UNCHANGED <<server, bridge, deferred, cmd, res, stages, locals, lists, dropped>>
  BY DEF PublishSets
<1>5. published' \subseteq published \cup {exec.id}
  BY DEF PublishSets
<1>6. published' \cap dropped = {}
  BY <1>1, <1>2, <1>5 DEF DroppedInv
<1>7. [kind |-> "publish", id |-> exec.id, ok |-> ok] \in Results
  BY <1>2 DEF Results
<1>8. Done([kind |-> "publish", id |-> exec.id, ok |-> ok])
  BY DEF PublishSets
<1> QED BY <1>3, <1>4, <1>6, <1>7, <1>8, DoneKeeps

(* The result is handed over.                                              *)
LEMMA SendKeeps ==
  ASSUME IInv, Send
  PROVE  IInv'
<1>1. exec.kind = "done" /\ res' = exec.result /\ exec' = None
  BY DEF Send
<1>2. WorkerTyped /\ StageInv /\ exec.result \in Results
  BY <1>1, WorkerFacts, DoingKinds
<1>3. UNCHANGED <<server, bridge, deferred, cmd, stages, locals, errors, lists, published, dropped>>
  BY DEF Send, history
<1>4. WorkerTyped'
  BY <1>1, <1>2, <1>3 DEF WorkerTyped
<1>5. exec'.kind \notin {"set", "staged"}
  BY <1>1 DEF None
<1>6. StageInv'
  BY <1>2, <1>3, <1>5 DEF StageInv
<1> QED BY <1>3, <1>4, <1>5, <1>6, WorkerFacts, QuietKeeps
(* The server's clipboard changes, and a notice is sent.                   *)
LEMMA ServerCopiesKeeps ==
  ASSUME IInv, NEW l \in Lists, ServerCopies(l)
  PROVE  IInv'
<1> DEFINE m == [kind |-> "copy"]
<1>1. /\ Typed /\ ServerTyped /\ BridgeTyped /\ down \in Seq(Messages)
      /\ copies \in 0 .. MaxCopies /\ MaxCopies \in Nat
  BY FilesAssumption DEF IInv, Typed, ServerTyped
<1>2. /\ copies < MaxCopies /\ copies' = copies + 1 /\ offer' = l /\ down' = Append(down, m)
      /\ UNCHANGED <<up, bridge, deferred, cmd, worker, locals, errors, history>>
  BY DEF ServerCopies
<1>3. m \in Messages /\ m.kind = "copy" /\ m.kind # "contents"
  BY DEF Messages
<1> HIDE DEF m
<1>4. down' \in Seq(Messages)
  BY <1>1, <1>2, <1>3, Appended
<1>5. ServerTyped'
  BY <1>1, <1>2, <1>4 DEF ServerTyped
<1>6. BridgeTyped'
  BY <1>1, <1>2 DEF BridgeTyped, bridge, history
<1>7. WorkerTyped' /\ StageInv' /\ DroppedInv' /\ EntryInv'
  BY <1>2 DEF IInv, Typed, WorkerTyped, StageInv, DroppedInv, EntryInv, bridge, worker, history
<1>8. CopiesInv'
  <2> DEFINE n == IF wanted THEN ids + 1 ELSE ids
  <2>1. n \in Nat /\ n' = n
    BY <1>1, <1>2 DEF BridgeTyped, bridge
  <2>2. Counted(down, n, copies)
    BY DEF IInv, CopiesInv
  <2> HIDE DEF n
  <2>3. Counted(Append(down, m), n, copies + 1)
    BY <1>1, <1>3, <2>1, <2>2, CountedAppend
  <2>4. Counted(down', n', copies')
    BY <1>2, <2>1, <2>3
  <2> QED BY <2>4 DEF CopiesInv, n
<1>9. StreamInv'
  <2>1. Distinct(up, down) /\ \A s : Under(up, down, s) => s <= streams /\ Known(s)
    BY DEF IInv, StreamInv
  <2>2. Distinct(up, Append(down, m)) /\ \A s : Under(up, Append(down, m), s) => Under(up, down, s)
    BY <1>1, <1>3, <2>1, Told
  <2>3. up' = up /\ streams' = streams /\ \A s : Known(s)' <=> Known(s)
    BY <1>2 DEF Known, bridge
  <2> QED BY <1>2, <2>1, <2>2, <2>3 DEF StreamInv
<1> QED BY <1>5, <1>6, <1>7, <1>8, <1>9 DEF IInv, Typed

(* A request is answered, or refused.                                      *)
LEMMA ServerAnswersKeeps ==
  ASSUME IInv, NEW ok \in BOOLEAN, ServerAnswers(ok)
  PROVE  IInv'
<1>1. /\ ServerTyped /\ BridgeTyped /\ down \in Seq(Messages) /\ up \in Seq(Requests)
      /\ offer \in Lists /\ copies \in Nat
  BY FilesAssumption DEF IInv, Typed, ServerTyped
<1> DEFINE answer(i) == IF up[i].kind = "paste"
                        THEN [kind |-> "list", list |-> offer, ok |-> ok]
                        ELSE [kind |-> "contents", stream |-> up[i].stream, ok |-> ok]
<1>2. PICK i \in DOMAIN up : up' = RemoveAt(up, i) /\ down' = Append(down, answer(i))
  BY Zenon DEF ServerAnswers
<1>3. up[i] \in Requests
  BY <1>1
<1> DEFINE m == answer(i)
<1>4. m \in Messages /\ m.kind # "copy"
      /\ (m.kind = "contents" => Asks(up, i) /\ m.stream = up[i].stream)
  <2>1. CASE up[i].kind = "paste"
    BY <1>1, <2>1 DEF Messages
  <2>2. CASE up[i].kind # "paste"
    <3>1. up[i].stream \in Nat
      BY <1>3, <2>2 DEF Requests, Asked
    <3> QED BY <2>2, <3>1 DEF Messages, Asks
  <2> QED BY <2>1, <2>2
<1>5. /\ errors' \in 0 .. MaxErrors
      /\ UNCHANGED <<offer, copies, bridge, deferred, cmd, worker, locals, history>>
  <2>1. Errs(~ok)
    BY DEF ServerAnswers
  <2> QED BY <1>1, <2>1, ErrsKept DEF ServerAnswers
<1>6. down' = Append(down, m)
  BY <1>2
<1> HIDE DEF m
<1>7. down' \in Seq(Messages)
  BY <1>1, <1>4, <1>6, Appended
<1>8. up' \in Seq(Requests)
  BY <1>1, <1>2, Removed
<1>9. ServerTyped'
  BY <1>1, <1>5, <1>7, <1>8 DEF ServerTyped
<1>10. BridgeTyped'
  BY <1>1, <1>5 DEF BridgeTyped, bridge, history
<1>11. WorkerTyped' /\ StageInv' /\ DroppedInv' /\ EntryInv'
  BY <1>5 DEF IInv, Typed, WorkerTyped, StageInv, DroppedInv, EntryInv, bridge, worker, history
<1>12. CopiesInv'
  <2> DEFINE n == IF wanted THEN ids + 1 ELSE ids
  <2>1. n \in Nat /\ n' = n
    BY <1>1, <1>5 DEF BridgeTyped, bridge
  <2>2. Counted(down, n, copies)
    BY DEF IInv, CopiesInv
  <2> HIDE DEF n
  <2>3. Counted(Append(down, m), n, copies)
    BY <1>1, <1>4, <2>1, <2>2, CountedAppend
  <2>4. Counted(down', n', copies')
    BY <1>5, <1>6, <2>1, <2>3
  <2> QED BY <2>4 DEF CopiesInv, n
<1>13. StreamInv'
  <2>1. Distinct(up, down) /\ \A s : Under(up, down, s) => s <= streams /\ Known(s)
    BY DEF IInv, StreamInv
  <2>2. /\ Distinct(RemoveAt(up, i), Append(down, m))
        /\ \A s : Under(RemoveAt(up, i), Append(down, m), s) => Under(up, down, s)
    BY <1>1, <1>4, <2>1, Answered
  <2>3. streams' = streams /\ \A s : Known(s)' <=> Known(s)
    BY <1>5 DEF Known, bridge
  <2> QED BY <1>2, <1>6, <2>1, <2>2, <2>3 DEF StreamInv
<1> QED BY <1>9, <1>10, <1>11, <1>12, <1>13 DEF IInv, Typed

(* After a cancellation the bridge recognises what was under way.          *)
LEMMA CancelKeeps ==
  ASSUME IInv, Cancel, UNCHANGED <<streams, ids, lists, exec, stages, published>>,
         ServerTyped', CopiesInv', wanted' \in BOOLEAN, res' \in Results \cup {None},
         Distinct(up', down'), \A s : Under(up', down', s) => Under(up, down, s)
  PROVE  IInv'
<1>1. Typed /\ DroppedInv /\ EntryInv /\ StreamInv /\ StageInv /\ BridgeTyped /\ WorkerTyped
  BY DEF IInv, Typed
<1>2. /\ xfer' = None /\ active' = 0
      /\ stale' \subseteq 1 .. streams
      /\ \A s : Known(s) => s \in stale'
      /\ cmd' \in Work \cup {None} /\ deferred' \in Work \cup {None}
      /\ dropped' \subseteq 1 .. ids /\ 0 \notin dropped'
      /\ exec.kind = "set" => exec.id \notin dropped'
      /\ published \cap dropped' = {}
  BY <1>1, CancelLeaves
<1>3. BridgeTyped'
  BY <1>1, <1>2 DEF BridgeTyped
<1>4. WorkerTyped'
  BY <1>1, <1>2 DEF WorkerTyped
<1>5. DroppedInv'
  BY <1>2 DEF DroppedInv
<1>6. StageInv'
  BY <1>1 DEF StageInv
<1>7. EntryInv'
  BY <1>2 DEF EntryInv
<1>8. StreamInv'
  <2>1. \A s : Under(up, down, s) => s <= streams /\ s \in stale'
    BY <1>1, <1>2 DEF StreamInv
  <2>2. \A s : Under(up', down', s) => s <= streams' /\ s \in stale'
    BY <2>1
  <2> QED BY <2>2 DEF StreamInv, Known
<1> QED BY <1>3, <1>4, <1>5, <1>6, <1>7, <1>8 DEF IInv, Typed

(* A request for what comes next, when nothing else is pending.            *)
LEMMA AskKeeps ==
  ASSUME IInv, xfer # None, NEW x \in Transfer, x.id = xfer.id, RequestNext(x),
         x.entries = <<>> \/ DOMAIN x.entries = DOMAIN lists[x.id],
         UNCHANGED <<offer, copies, wanted, stale, ids, active, lists, exec, stages, locals,
                     errors, published, dropped>>,
         res' \in Results \cup {None},
         down' \in Seq(Messages), CopiesInv',
         Distinct(up, down'),
         \A s : Under(up, down', s) => Under(up, down, s) /\ s \in stale
  PROVE  IInv'
<1>1. Typed /\ ServerTyped /\ BridgeTyped /\ WorkerTyped /\ StreamInv /\ up \in Seq(Requests)
  BY DEF IInv, Typed, ServerTyped
<1>2. /\ ~wanted /\ xfer \in Transfer /\ x.id \in 1 .. ids /\ active = x.id
      /\ ids \in Nat /\ lists \in Seq(Lists) /\ Len(lists) = ids /\ streams \in Nat
      /\ stale \subseteq 1 .. streams
  BY <1>1 DEF BridgeTyped, Transfer, Transfers
<1>3. lists[x.id] \in Lists
  BY <1>2
<1>4. x.entries \in Seq(Entry) /\ DOMAIN x.entries \subseteq Files
  <2>1. x.entries \in Seq(Entry)
    BY DEF Transfer
  <2>2. DOMAIN lists[x.id] \subseteq Files
    BY <1>3, ListValues
  <2> QED BY <2>1, <2>2
<1>5. /\ xfer' \in Transfer /\ xfer'.id = x.id /\ xfer'.entries = x.entries
      /\ xfer'.awaits # "nothing" => xfer'.pending = None
      /\ cmd' \in Work \cup {None} /\ deferred' \in Work \cup {None}
      /\ \/ /\ xfer'.pending = None
            /\ streams' = streams /\ up' = up
         \/ /\ xfer'.pending \in Asked
            /\ xfer'.pending.index \in DOMAIN x.entries
            /\ ~xfer'.pending.stored
            /\ xfer'.pending.stream = streams + 1
            /\ streams' = streams + 1 /\ up' = Append(up, xfer'.pending)
  BY <1>1, <1>4, RequestNextLeaves
<1>6. xfer' # None
  BY <1>5, Something
<1>7. PICK p : p = xfer'.pending
  OBVIOUS
<1>8. streams' \in Nat /\ streams <= streams'
  BY <1>2, <1>5
<1>9. up' \in Seq(Requests)
  <2>1. CASE up' = up
    BY <1>1, <2>1
  <2>2. CASE p \in Asked /\ up' = Append(up, p)
    <3>1. p \in Requests
      BY <2>2 DEF Requests
    <3> QED BY <1>1, <2>2, <3>1, Appended
  <2> QED BY <1>5, <1>7, <2>1, <2>2
<1>10. ServerTyped'
  BY <1>1, <1>9 DEF ServerTyped
<1>11. BridgeTyped'
  <2>1. stale' \subseteq 1 .. streams'
    BY <1>2, <1>8
  <2> QED BY <1>1, <1>2, <1>5, <1>6, <1>8, <2>1 DEF BridgeTyped
<1>12. WorkerTyped'
  BY <1>1, <1>5 DEF WorkerTyped
<1>13. DroppedInv' /\ StageInv'
  BY DEF IInv, DroppedInv, StageInv
<1>14. EntryInv'
  <2>1. xfer'.pending # None => /\ xfer'.pending.index \in DOMAIN xfer'.entries
                                /\ ~xfer'.pending.stored
                                /\ xfer'.pending.stream <= streams'
    BY <1>2, <1>5
  <2>2. xfer'.entries = <<>> \/ DOMAIN xfer'.entries = DOMAIN lists'[xfer'.id]
    BY <1>5
  <2> QED BY <1>5, <2>1, <2>2 DEF EntryInv
<1>15. StreamInv'
  <2>1. \A s : Under(up, down', s) => s <= streams /\ s \in stale
    BY <1>1 DEF StreamInv
  <2>2. CASE up' = up /\ streams' = streams
    BY <2>1, <2>2 DEF StreamInv, Known
  <2>3. CASE p \in Asked /\ p.stream = streams + 1 /\ streams' = streams + 1 /\ up' = Append(up, p)
    <3>1. ~Under(up, down', p.stream)
      <4>1. p.stream \notin stale
        BY <1>2, <2>3
      <4> QED BY <2>1, <4>1
    <3>2. p \in Requests /\ p # None
      BY <2>3, Something DEF Requests
    <3>3. /\ Distinct(up', down')
          /\ \A s : Under(up', down', s) => Under(up, down', s) \/ s = p.stream
      BY <1>1, <2>3, <3>1, <3>2, Sent
    <3>4. ASSUME NEW s, Under(up', down', s)
          PROVE  s <= streams' /\ Known(s)'
      <4>1. CASE Under(up, down', s)
        <5>1. s \in stale /\ s \in 1 .. streams
          BY <1>2, <2>1, <4>1
        <5>2. s <= streams'
          BY <1>2, <2>3, <5>1
        <5> QED BY <5>1, <5>2 DEF Known
      <4>2. CASE s = p.stream
        <5>1. s <= streams'
          BY <1>2, <2>3, <4>2
        <5>2. s = xfer'.pending.stream /\ xfer'.pending # None /\ xfer' # None
          BY <1>6, <1>7, <3>2, <4>2
        <5> QED BY <5>1, <5>2 DEF Known
      <4> QED BY <3>3, <3>4, <4>1, <4>2
    <3> QED BY <3>3, <3>4 DEF StreamInv
  <2> QED BY <1>5, <1>7, <2>2, <2>3
<1> QED BY <1>10, <1>11, <1>12, <1>13, <1>14, <1>15 DEF IInv, Typed
(* Reading a message: the channel stays typed, and so does the count.      *)
LEMMA MessageRead ==
  ASSUME IInv, down # <<>>, down' = Tail(down)
  PROVE  /\ Head(down) \in Messages /\ down' \in Seq(Messages)
         /\ Distinct(up, down')
         /\ \A s : Under(up, down', s) =>
              Under(up, down, s) /\ (Head(down).kind = "contents" => s # Head(down).stream)
         /\ LET n == IF wanted THEN ids + 1 ELSE ids
            IN  /\ n \in Nat /\ n <= copies
                /\ Counted(down', IF Head(down).kind = "copy" THEN n + 1 ELSE n, copies)
                /\ Head(down).kind = "copy" => n + 1 <= copies
<1> DEFINE n == IF wanted THEN ids + 1 ELSE ids
           k == IF Head(down).kind = "copy" THEN n + 1 ELSE n
<1>1. /\ down \in Seq(Messages) /\ copies \in Nat /\ n \in Nat /\ Counted(down, n, copies)
      /\ Distinct(up, down)
  BY FilesAssumption DEF IInv, Typed, ServerTyped, BridgeTyped, CopiesInv, StreamInv
<1>2. Head(down) \in Messages /\ down' \in Seq(Messages)
  BY <1>1, Shifted
<1>3. Distinct(up, down') /\ \A s : Under(up, down', s) =>
              Under(up, down, s) /\ (Head(down).kind = "contents" => s # Head(down).stream)
  BY <1>1, Taken
<1> HIDE DEF n
<1>4. k \in Nat /\ Counted(down', k, copies)
  BY <1>1, CountedTail
<1> HIDE DEF k
<1>5. k <= copies /\ n <= copies
  <2>1. k <= copies
    <3>1. k <= k
      BY <1>4
    <3> QED BY <1>1, <1>2, <1>4, <3>1, CountedLess
  <2>2. n <= copies
    <3>1. n <= n
      BY <1>1
    <3> QED BY <1>1, <3>1, CountedLess
  <2> QED BY <2>1, <2>2
<1> QED BY <1>1, <1>2, <1>3, <1>4, <1>5 DEF n, k

(* The kinds of a message.                                                 *)
LEMMA MessageKinds ==
  ASSUME NEW m \in Messages
  PROVE  /\ m.kind = "list" => m.list \in Lists /\ m.ok \in BOOLEAN
         /\ m.kind = "contents" => m.stream \in Nat /\ m.ok \in BOOLEAN
<1>1. m.kind = "list" => m.list \in Lists /\ m.ok \in BOOLEAN
  BY DEF Messages
<1>2. m.kind = "contents" => m.stream \in Nat /\ m.ok \in BOOLEAN
  BY DEF Messages
<1> QED BY <1>1, <1>2

(* The notice of a copy cancels the download and asks for the new list.    *)
LEMMA RemoteCopyKeeps ==
  ASSUME IInv, RemoteCopy
  PROVE  IInv'
<1> DEFINE paste == [kind |-> "paste"]
<1>1. /\ down # <<>> /\ Head(down).kind = "copy" /\ down' = Tail(down)
      /\ Cancel /\ wanted' = TRUE /\ up' = Append(up, paste)
      /\ UNCHANGED <<offer, copies, streams, ids, worker, locals, errors, lists, published>>
  BY DEF RemoteCopy
<1>2. paste \in Requests /\ paste.kind = "paste"
  BY DEF Requests
<1> HIDE DEF paste
<1>3. /\ ServerTyped /\ up \in Seq(Requests) /\ down \in Seq(Messages) /\ WorkerTyped
      /\ BridgeTyped /\ copies \in Nat
  BY FilesAssumption DEF IInv, Typed, ServerTyped
<1>4. down' \in Seq(Messages) /\ Distinct(up, down')
      /\ \A s : Under(up, down', s) => Under(up, down, s)
  BY <1>1, MessageRead
<1>5. up' \in Seq(Requests)
  BY <1>1, <1>2, <1>3, Appended
<1>6. Distinct(up', down') /\ \A s : Under(up', down', s) => Under(up, down, s)
  <2>1. /\ Distinct(Append(up, paste), down')
        /\ \A s : Under(Append(up, paste), down', s) => Under(up, down', s)
    BY <1>2, <1>3, <1>4, Sent
  <2> QED BY <1>1, <1>4, <2>1
<1>7. ServerTyped'
  BY <1>1, <1>3, <1>4, <1>5 DEF ServerTyped
<1>8. CopiesInv'
  <2> DEFINE n == IF wanted THEN ids + 1 ELSE ids
  <2>1. n \in Nat /\ Counted(down', n + 1, copies) /\ ids \in Nat /\ ids + 1 <= n + 1
    BY <1>1, <1>3, MessageRead DEF BridgeTyped
  <2> HIDE DEF n
  <2>2. Counted(down', ids + 1, copies)
    BY <1>3, <1>4, <2>1, CountedLess
  <2> QED BY <1>1, <2>2 DEF CopiesInv
<1>9. res' \in Results \cup {None}
  BY <1>1, <1>3 DEF WorkerTyped, worker
<1> QED BY <1>1, <1>6, <1>7, <1>8, <1>9, CancelKeeps DEF worker

(* A list that was asked for starts a transfer under a new number.         *)
LEMMA RemoteFileListKeeps ==
  ASSUME IInv, RemoteFileList
  PROVE  IInv'
<1> DEFINE m == Head(down)
<1>1. /\ down # <<>> /\ m.kind = "list" /\ down' = Tail(down) /\ wanted' = FALSE
      /\ UNCHANGED <<offer, up, copies, stale, streams, worker, locals, errors, published,
                     excused, dropped>>
  BY DEF RemoteFileList
<1>2. /\ Typed /\ ServerTyped /\ BridgeTyped /\ WorkerTyped /\ DroppedInv /\ StageInv
      /\ EntryInv /\ StreamInv /\ copies \in 0 .. MaxCopies /\ MaxCopies \in Nat
  BY FilesAssumption DEF IInv, Typed, ServerTyped
<1> DEFINE n == IF wanted THEN ids + 1 ELSE ids
<1>3. /\ m \in Messages /\ down' \in Seq(Messages) /\ Distinct(up, down')
      /\ \A s : Under(up, down', s) => Under(up, down, s)
      /\ n \in Nat /\ n <= copies /\ Counted(down', n, copies)
  BY <1>1, MessageRead
<1>4. m.list \in Lists
  BY <1>1, <1>3, MessageKinds
<1>5. ServerTyped'
  BY <1>1, <1>2, <1>3 DEF ServerTyped
<1>6. StageInv'
  BY <1>1, <1>2 DEF StageInv, worker
<1>7. CASE wanted /\ m.ok
  <2> DEFINE x == [id |-> NextId, entries |-> <<>>, pending |-> None, awaits |-> "prepare"]
  <2>1. /\ ids' = ids + 1 /\ active' = NextId /\ xfer' = x
        /\ Submit([kind |-> "prepare", id |-> NextId, list |-> m.list])
        /\ lists' = Append(lists, m.list)
    BY <1>7 DEF RemoteFileList
  <2>2. ids + 1 \in 1 .. MaxCopies /\ xfer = None /\ ids \in Nat
    BY <1>2, <1>3, <1>7 DEF BridgeTyped
  <2>3. NextId \in Transfers /\ NextId = ids + 1
    BY <2>2 DEF NextId, Transfers
  <2>4. [kind |-> "prepare", id |-> NextId, list |-> m.list] \in Work
    BY <1>4, <2>3 DEF Work
  <2>5. cmd' \in Work \cup {None} /\ deferred' \in Work \cup {None}
    BY <1>2, <2>1, <2>4, SubmitLeaves
  <2>6. WorkerTyped'
    BY <1>1, <1>2, <2>5 DEF WorkerTyped, worker
  <2>7. x \in Transfer
    BY <2>3 DEF Transfer
  <2>8. xfer' # None
    BY <2>1, <2>7, Something
  <2>9. xfer'.id = ids + 1 /\ xfer'.entries = <<>> /\ xfer'.pending = None
    BY <2>1, <2>3
  <2> HIDE DEF x
  <2>10. lists' \in Seq(Lists) /\ Len(lists') = ids'
    BY <1>2, <1>4, <2>1, <2>2, Appended DEF BridgeTyped
  <2>11. BridgeTyped'
    <3>1. ids' \in 0 .. MaxCopies /\ active' = xfer'.id /\ xfer'.id <= ids'
      BY <2>1, <2>2, <2>3, <2>9
    <3> QED BY <1>1, <1>2, <2>1, <2>7, <2>8, <2>10, <3>1 DEF BridgeTyped
  <2>12. CopiesInv'
    BY <1>1, <1>3, <1>7, <2>1 DEF CopiesInv
  <2>13. DroppedInv'
    <3>1. dropped \subseteq 1 .. ids
      BY <1>2 DEF DroppedInv
    <3>2. dropped' \subseteq 1 .. ids' /\ active' \notin dropped'
      BY <1>1, <2>1, <2>2, <2>3, <3>1
    <3> QED BY <1>1, <1>2, <3>2 DEF DroppedInv, worker
  <2>14. EntryInv'
    BY <2>9 DEF EntryInv
  <2>15. StreamInv'
    <3>1. \A s : Known(s) => s \in stale
      BY <2>2 DEF Known
    <3>2. \A s : Under(up, down', s) => s <= streams /\ s \in stale
      BY <1>2, <1>3, <3>1 DEF StreamInv
    <3> QED BY <1>1, <1>3, <3>2 DEF StreamInv, Known
  <2> QED BY <1>5, <1>6, <2>6, <2>11, <2>12, <2>13, <2>14, <2>15 DEF IInv, Typed
<1>8. CASE ~(wanted /\ m.ok)
  <2>1. UNCHANGED <<ids, active, xfer, cmd, deferred, lists>>
    BY <1>8 DEF RemoteFileList
  <2>2. WorkerTyped' /\ BridgeTyped' /\ DroppedInv' /\ EntryInv'
    BY <1>1, <1>2, <2>1 DEF WorkerTyped, BridgeTyped, DroppedInv, EntryInv, worker
  <2>3. CopiesInv'
    <3>1. ids \in Nat /\ ids <= n
      BY <1>2 DEF BridgeTyped
    <3> HIDE DEF n
    <3>2. Counted(down', ids, copies)
      BY <1>2, <1>3, <3>1, CountedLess
    <3> QED BY <1>1, <2>1, <3>2 DEF CopiesInv
  <2>4. StreamInv'
    <3>1. \A s : Known(s)' <=> Known(s)
      BY <1>1, <2>1 DEF Known
    <3> QED BY <1>1, <1>2, <1>3, <3>1 DEF StreamInv
  <2> QED BY <1>5, <1>6, <2>2, <2>3, <2>4 DEF IInv, Typed
<1> QED BY <1>7, <1>8

(* A cancellation that follows from a message.                             *)
LEMMA CancelReading ==
  ASSUME IInv, Cancel, down # <<>>, Head(down).kind # "copy", down' = Tail(down),
         UNCHANGED <<offer, up, copies, wanted, streams, ids, worker, locals, errors, lists,
                     published>>
  PROVE  IInv'
<1>1. /\ down' \in Seq(Messages) /\ Distinct(up, down')
      /\ \A s : Under(up, down', s) => Under(up, down, s)
      /\ Counted(down', IF wanted THEN ids + 1 ELSE ids, copies)
  BY MessageRead
<1>2. ServerTyped'
  BY <1>1 DEF IInv, Typed, ServerTyped
<1>3. CopiesInv'
  BY <1>1 DEF CopiesInv
<1>4. wanted' \in BOOLEAN /\ res' \in Results \cup {None}
  BY DEF IInv, Typed, BridgeTyped, WorkerTyped, worker
<1>5. Distinct(up', down') /\ \A s : Under(up', down', s) => Under(up, down, s)
  BY <1>1
<1> QED BY <1>2, <1>3, <1>4, <1>5, CancelKeeps DEF worker
(* Contents: of a stale stream, of the pending request, or of none.        *)
LEMMA FileContentsKeeps ==
  ASSUME IInv, FileContents
  PROVE  IInv'
<1> DEFINE m == Head(down)
           p == IF xfer = None THEN None ELSE xfer.pending
           mine == IF p = None THEN FALSE ELSE m.stream = p.stream /\ m.ok
           took == [xfer EXCEPT !.pending = None]
<1>1. /\ down # <<>> /\ m.kind = "contents" /\ down' = Tail(down)
      /\ UNCHANGED <<offer, copies, wanted, ids, worker, locals, errors, lists, published>>
  BY DEF FileContents
<1>2. /\ ServerTyped /\ BridgeTyped /\ WorkerTyped /\ DroppedInv /\ StageInv
      /\ EntryInv /\ StreamInv /\ copies \in 0 .. MaxCopies /\ MaxCopies \in Nat
  BY FilesAssumption DEF IInv, Typed, ServerTyped
<1>3. /\ m \in Messages /\ down' \in Seq(Messages) /\ Distinct(up, down')
      /\ \A s : Under(up, down', s) => Under(up, down, s) /\ s # m.stream
      /\ Counted(down', IF wanted THEN ids + 1 ELSE ids, copies)
  BY <1>1, MessageRead
<1>4. CopiesInv' /\ StageInv' /\ res' = res /\ exec' = exec /\ stages' = stages
  BY <1>1, <1>2, <1>3 DEF CopiesInv, StageInv, worker
<1>5. CASE m.stream \in stale
  <2>1. /\ stale' = stale \ {m.stream}
        /\ UNCHANGED <<xfer, active, streams, up, cmd, deferred, excused, dropped>>
    BY <1>5 DEF FileContents
  <2>2. ServerTyped' /\ WorkerTyped' /\ DroppedInv' /\ EntryInv'
    BY <1>1, <1>2, <1>3, <1>4, <2>1 DEF ServerTyped, WorkerTyped, DroppedInv, EntryInv
  <2>3. BridgeTyped'
    BY <1>1, <1>2, <2>1 DEF BridgeTyped
  <2>4. StreamInv'
    <3>1. \A s : Known(s) /\ s # m.stream => Known(s)'
      BY <2>1 DEF Known
    <3>2. \A s : Under(up, down', s) => s <= streams /\ Known(s) /\ s # m.stream
      BY <1>2, <1>3 DEF StreamInv
    <3> QED BY <1>3, <2>1, <3>1, <3>2 DEF StreamInv
  <2> QED BY <1>4, <2>2, <2>3, <2>4 DEF IInv, Typed
<1>6. CASE m.stream \notin stale /\ ~mine
  <2>1. Cancel /\ UNCHANGED <<streams, up>>
    BY <1>6 DEF FileContents
  <2> QED BY <1>1, <2>1, CancelReading
<1>7. CASE m.stream \notin stale /\ mine
  <2>1. /\ xfer # None /\ p = xfer.pending /\ p # None /\ m.stream = p.stream
    BY <1>7
  <2>2. /\ xfer \in Transfer /\ p \in Asked /\ xfer.id \in 1 .. ids /\ ~wanted
        /\ xfer.entries \in Seq(Entry) /\ xfer.id \in Transfers
        /\ lists \in Seq(Lists) /\ Len(lists) = ids
    BY <1>2, <2>1 DEF BridgeTyped, Transfer, Transfers
  <2>3. /\ xfer.entries = <<>> \/ DOMAIN xfer.entries = DOMAIN lists[xfer.id]
        /\ p.index \in DOMAIN xfer.entries /\ xfer.awaits = "nothing"
    BY <1>2, <2>1 DEF EntryInv
  <2>4. UNCHANGED <<active, stale, excused, dropped>>
    BY <1>7 DEF FileContents
  <2>5. took = [id |-> xfer.id, entries |-> xfer.entries, pending |-> None, awaits |-> xfer.awaits]
    BY <2>2 DEF Transfer
  <2>6. \A s : Under(up, down', s) => s <= streams /\ s \in stale
    <3>1. \A s : Known(s) /\ s # m.stream => s \in stale
      BY <2>1 DEF Known
    <3> QED BY <1>2, <1>3, <3>1 DEF StreamInv
  <2>7. CASE p.kind = "size"
    <3> DEFINE size == lists[xfer.id][p.index].size
               entry == [xfer.entries[p.index] EXCEPT !.known = TRUE, !.size = size]
               x == [took EXCEPT !.entries[p.index] = entry]
    <3>1. RequestNext(x)
      BY <1>7, <2>7 DEF FileContents
    <3>2. DOMAIN xfer.entries = DOMAIN lists[xfer.id]
      BY <2>3
    <3>3. size \in Sizes
      <4>1. lists[xfer.id] \in Lists
        BY <2>2
      <4> QED BY <2>3, <3>2, <4>1, ListValues
    <3>4. xfer.entries[p.index] \in Entry
      BY <2>2, <2>3
    <3> HIDE DEF size
    <3>5. entry \in Entry
      BY <3>3, <3>4 DEF Entry
    <3> HIDE DEF entry
    <3>6. x = [id |-> xfer.id, entries |-> [xfer.entries EXCEPT ![p.index] = entry],
               pending |-> None, awaits |-> xfer.awaits]
      <4> DEFINE new == [xfer.entries EXCEPT ![p.index] = entry]
      <4> HIDE DEF took
      <4>1. took.entries = xfer.entries /\ took.id = xfer.id /\ took.pending = None
            /\ took.awaits = xfer.awaits
        BY <2>5
      <4>2. x = [took EXCEPT !.entries = new]
        BY <4>1
      <4> HIDE DEF new, x
      <4>3. x = [id |-> xfer.id, entries |-> new, pending |-> None, awaits |-> xfer.awaits]
        BY <2>5, <4>2
      <4> QED BY <4>3 DEF new
    <3>7. [xfer.entries EXCEPT ![p.index] = entry] \in Seq(Entry)
      BY <2>2, <2>3, <3>5
    <3>8. x \in Transfer
      BY <2>2, <2>3, <3>6, <3>7 DEF Transfer
    <3>9. x.id = xfer.id /\ DOMAIN x.entries = DOMAIN lists[x.id]
      BY <3>2, <3>6
    <3> HIDE DEF x
    <3>10. res' \in Results \cup {None}
      BY <1>2, <1>4 DEF WorkerTyped
    <3>11. \A s : Under(up, down', s) => Under(up, down, s) /\ s \in stale
      BY <1>3, <2>6
    <3> QED BY <1>1, <1>3, <1>4, <2>1, <2>4, <3>1, <3>8, <3>9, <3>10, <3>11, AskKeeps
  <2>8. CASE p.kind # "size"
    <3> DEFINE w == [kind |-> "store", id |-> xfer.id, index |-> p.index, offset |-> p.offset]
    <3>1. /\ Submit(w) /\ xfer' = [took EXCEPT !.pending = Noted(took.pending)]
          /\ UNCHANGED <<streams, up>>
      BY <1>7, <2>8 DEF FileContents
    <3>2. w \in Work
      BY <2>2 DEF Work, Asked
    <3> HIDE DEF w
    <3>3. cmd' \in Work \cup {None} /\ deferred' \in Work \cup {None}
      BY <1>2, <3>1, <3>2, SubmitLeaves
    <3>4. Noted(took.pending) = None
      BY <2>5 DEF Noted
    <3>5. xfer' = [id |-> xfer.id, entries |-> xfer.entries, pending |-> None,
                   awaits |-> xfer.awaits]
      BY <2>5, <3>1, <3>4
    <3>6. xfer' \in Transfer
      BY <2>2, <2>3, <3>5 DEF Transfer
    <3>7. xfer' # None
      BY <3>6, Something
    <3>8. ServerTyped' /\ WorkerTyped'
      BY <1>1, <1>2, <1>3, <1>4, <3>1, <3>3 DEF ServerTyped, WorkerTyped
    <3>9. BridgeTyped'
      <4>1. xfer'.id = xfer.id
        BY <3>5
      <4> QED BY <1>1, <1>2, <2>1, <2>2, <2>4, <3>1, <3>6, <3>7, <4>1 DEF BridgeTyped
    <3>10. DroppedInv'
      BY <1>1, <1>2, <1>4, <2>4 DEF DroppedInv
    <3>11. EntryInv'
      BY <1>1, <2>3, <3>5 DEF EntryInv
    <3>12. StreamInv'
      BY <1>3, <2>4, <2>6, <3>1 DEF StreamInv, Known
    <3> QED BY <1>4, <3>8, <3>9, <3>10, <3>11, <3>12 DEF IInv, Typed
  <2> QED BY <2>7, <2>8
<1> QED BY <1>5, <1>6, <1>7

(* A cancellation or nothing at all, on a result of the worker or the      *)
(* deadline.                                                               *)
LEMMA SilentKeeps ==
  ASSUME IInv, locals' \in 0 .. MaxLocal, res' \in Results \cup {None},
         UNCHANGED <<server, wanted, streams, ids, exec, stages, errors, lists, published>>,
         Cancel \/ UNCHANGED <<xfer, active, stale, cmd, deferred, dropped>>
  PROVE  IInv'
<1>1. /\ ServerTyped /\ BridgeTyped /\ WorkerTyped /\ DroppedInv /\ StageInv
      /\ EntryInv /\ StreamInv /\ CopiesInv
  BY DEF IInv, Typed
<1>2. ServerTyped' /\ CopiesInv'
  BY <1>1 DEF ServerTyped, CopiesInv, server
<1>3. CASE Cancel
  <2>1. wanted' \in BOOLEAN
    BY <1>1 DEF BridgeTyped
  <2>2. Distinct(up', down') /\ \A s : Under(up', down', s) => Under(up, down, s)
    BY <1>1 DEF StreamInv, server
  <2> QED BY <1>2, <1>3, <2>1, <2>2, CancelKeeps
<1>4. CASE UNCHANGED <<xfer, active, stale, cmd, deferred, dropped>>
  <2>1. BridgeTyped' /\ WorkerTyped'
    BY <1>1, <1>4 DEF BridgeTyped, WorkerTyped
  <2>2. DroppedInv' /\ StageInv' /\ EntryInv'
    BY <1>1, <1>4 DEF DroppedInv, StageInv, EntryInv
  <2>3. StreamInv'
    BY <1>1, <1>4 DEF StreamInv, Known, server
  <2> QED BY <1>2, <2>1, <2>2, <2>3 DEF IInv, Typed
<1> QED BY <1>3, <1>4

(* The deadline of a transfer cancels it.                                  *)
LEMMA TimedOutKeeps ==
  ASSUME IInv, TimedOut
  PROVE  IInv'
<1>1. /\ Cancel
      /\ UNCHANGED <<server, wanted, streams, ids, worker, locals, errors, lists, published>>
  BY DEF TimedOut
<1>2. locals' \in 0 .. MaxLocal /\ res' \in Results \cup {None}
  BY <1>1 DEF IInv, Typed, ServerTyped, WorkerTyped, worker
<1> QED BY <1>1, <1>2, SilentKeeps DEF worker

(* A local copy cancels the download, other results change nothing.        *)
LEMMA OtherResultKeeps ==
  ASSUME IInv, NEW c \in BOOLEAN, OtherResult(c)
  PROVE  IInv'
<1>1. /\ res' = None
      /\ UNCHANGED <<server, wanted, streams, ids, exec, stages, errors, lists, published>>
      /\ Cancel \/ UNCHANGED <<xfer, active, stale, cmd, deferred, dropped>>
  BY DEF OtherResult
<1>2. locals' = locals \/ (locals < MaxLocal /\ locals' = locals + 1)
  BY DEF OtherResult
<1>3. locals' \in 0 .. MaxLocal
  <2>1. locals \in 0 .. MaxLocal /\ MaxLocal \in Nat
    BY FilesAssumption DEF IInv, Typed, ServerTyped
  <2> QED BY <1>2, <2>1
<1> QED BY <1>1, <1>3, SilentKeeps

(* The stage is there: the entries of the list are asked for.              *)
LEMMA PreparedKeeps ==
  ASSUME IInv, FilesPrepared
  PROVE  IInv'
<1>1. /\ res.kind = "prepare" /\ res' = None
      /\ UNCHANGED <<offer, down, copies, wanted, ids, exec, stages, locals, errors, lists,
                   published>>
  BY DEF FilesPrepared
<1>2. /\ ServerTyped /\ BridgeTyped /\ WorkerTyped /\ StreamInv /\ EntryInv /\ CopiesInv
      /\ down \in Seq(Messages) /\ locals \in 0 .. MaxLocal
  BY DEF IInv, Typed, ServerTyped
<1>3. CASE Awaits("prepare") /\ res.ok
  <2> DEFINE x == [xfer EXCEPT !.entries = Entries(lists[res.id])]
  <2>1. RequestNext(x) /\ UNCHANGED <<active, stale, excused, dropped>>
    BY <1>3 DEF FilesPrepared
  <2>2. xfer # None /\ xfer.id = res.id /\ xfer.awaits = "prepare"
    BY <1>3 DEF Awaits
  <2>3. /\ xfer \in Transfer /\ xfer.id \in 1 .. ids /\ lists \in Seq(Lists) /\ Len(lists) = ids
        /\ xfer.id \in Transfers /\ xfer.pending = None
    BY <1>2, <2>2 DEF BridgeTyped, Transfer, Transfers, EntryInv
  <2>4. lists[res.id] \in Lists
    BY <2>2, <2>3
  <2>5. /\ Entries(lists[res.id]) \in Seq(Entry)
        /\ DOMAIN Entries(lists[res.id]) = DOMAIN lists[res.id]
    BY <2>4, EntriesTyped
  <2>6. x = [id |-> xfer.id, entries |-> Entries(lists[res.id]), pending |-> None,
             awaits |-> "prepare"]
    BY <2>2, <2>3 DEF Transfer
  <2>7. x \in Transfer
    BY <2>3, <2>5, <2>6 DEF Transfer
  <2>8. x.id = xfer.id /\ DOMAIN x.entries = DOMAIN lists[x.id]
    BY <2>2, <2>5, <2>6
  <2> HIDE DEF x
  <2>9. CopiesInv'
    BY <1>1, <1>2 DEF CopiesInv
  <2>10. \A s : Under(up, down, s) => s \in stale
    BY <1>2, <2>3 DEF StreamInv, Known
  <2>11. /\ down' \in Seq(Messages) /\ Distinct(up, down')
         /\ \A s : Under(up, down', s) => Under(up, down, s) /\ s \in stale
    BY <1>1, <1>2, <2>10 DEF StreamInv
  <2>12. res' \in Results \cup {None}
    BY <1>1
  <2> QED BY <1>1, <2>1, <2>2, <2>7, <2>8, <2>9, <2>11, <2>12, AskKeeps
<1>4. CASE ~(Awaits("prepare") /\ res.ok)
  <2>1. /\ Cancel \/ UNCHANGED <<xfer, active, stale, cmd, deferred, dropped>>
        /\ UNCHANGED <<streams, up>>
    BY <1>4 DEF FilesPrepared, Ignored
  <2> QED BY <1>1, <1>2, <2>1, SilentKeeps DEF server
<1> QED BY <1>3, <1>4

(* No chunk is ever taken for stored: no pending request is so noted.      *)
LEMMA ChunkStoredKeeps ==
  ASSUME IInv, ChunkStored
  PROVE  IInv'
<1>1. /\ res' = None
      /\ UNCHANGED <<offer, down, copies, wanted, ids, exec, stages, locals, errors, lists,
                   published>>
  BY DEF ChunkStored
<1>2. ~(Awaits("nothing") /\ xfer.pending # None /\ xfer.pending.stored)
  BY DEF IInv, EntryInv, Awaits
<1>3. Ignored
  BY <1>2 DEF ChunkStored
<1>4. locals \in 0 .. MaxLocal
  BY DEF IInv, Typed, ServerTyped
<1> QED BY <1>1, <1>3, <1>4, SilentKeeps DEF Ignored, server

(* The result of the publication ends the transfer that awaits it.         *)
LEMMA PublishedKeeps ==
  ASSUME IInv, FilesPublished
  PROVE  IInv'
<1>1. /\ res' = None
      /\ UNCHANGED <<server, wanted, stale, streams, ids, deferred, cmd, exec, stages, locals,
                   errors, lists, published, dropped>>
  BY DEF FilesPublished
<1>2. /\ ServerTyped /\ BridgeTyped /\ WorkerTyped /\ DroppedInv /\ StageInv
      /\ EntryInv /\ StreamInv /\ CopiesInv /\ locals \in 0 .. MaxLocal
  BY DEF IInv, Typed, ServerTyped
<1>3. CASE Awaits("publish")
  <2>1. xfer' = None /\ active' = 0
    BY <1>3 DEF FilesPublished
  <2>2. xfer # None /\ xfer.pending = None
    BY <1>2, <1>3 DEF Awaits, EntryInv
  <2>3. ServerTyped' /\ CopiesInv' /\ WorkerTyped' /\ StageInv' /\ EntryInv'
    BY <1>1, <1>2, <2>1 DEF ServerTyped, CopiesInv, WorkerTyped, StageInv, EntryInv, server
  <2>4. BridgeTyped'
    BY <1>1, <1>2, <2>1 DEF BridgeTyped
  <2>5. DroppedInv'
    <3>1. 0 \notin dropped
      BY <1>2 DEF DroppedInv, BridgeTyped
    <3> QED BY <1>1, <1>2, <2>1, <3>1 DEF DroppedInv
  <2>6. StreamInv'
    <3>1. \A s : Under(up, down, s) => s <= streams /\ s \in stale
      BY <1>2, <2>2 DEF StreamInv, Known
    <3>2. \A s : Under(up', down', s) => s <= streams' /\ s \in stale'
      BY <1>1, <3>1 DEF server
    <3> QED BY <1>1, <1>2, <3>2 DEF StreamInv, Known, server
  <2> QED BY <2>3, <2>4, <2>5, <2>6 DEF IInv, Typed
<1>4. CASE ~Awaits("publish")
  <2>1. UNCHANGED <<xfer, active>>
    BY <1>4 DEF FilesPublished
  <2> QED BY <1>1, <1>2, <2>1, SilentKeeps
<1> QED BY <1>3, <1>4

-----------------------------------------------------------------------------
(* The theorems.                                                           *)

(* The initial state satisfies the inductive invariant.                    *)
LEMMA InitIInv == Init => IInv
<1> SUFFICES ASSUME Init PROVE IInv
  OBVIOUS
<1>1. ServerTyped
  <2>1. offer \in Lists /\ up = <<>> /\ down = <<>> /\ copies = 0 /\ locals = 0 /\ errors = 0
    BY DEF Init
  <2> QED BY <2>1, FilesAssumption DEF ServerTyped
<1>2. BridgeTyped
  <2>1. /\ wanted = FALSE /\ xfer = None /\ stale = {} /\ streams = 0 /\ ids = 0 /\ active = 0
        /\ lists = <<>>
    BY DEF Init
  <2>2. lists \in Seq(Lists) /\ Len(lists) = 0 /\ streams \in Nat /\ stale \subseteq 1 .. streams
    BY <2>1
  <2>3. ids \in 0 .. MaxCopies /\ wanted \in BOOLEAN
    <3>1. MaxCopies \in Nat
      BY FilesAssumption
    <3>2. ids \in 0 .. MaxCopies
      BY <2>1, <3>1
    <3>3. wanted \in BOOLEAN
      BY <2>1
    <3> QED BY <3>2, <3>3
  <2> QED BY <2>1, <2>2, <2>3 DEF BridgeTyped
<1>3. WorkerTyped
  BY DEF Init, WorkerTyped
<1>4. CopiesInv
  <2> DEFINE f == [i \in 0 .. Len(down) |-> 0]
  <2>1. down = <<>> /\ Len(down) = 0 /\ wanted = FALSE /\ ids = 0 /\ copies = 0
    BY DEF Init
  <2>2. f \in [0 .. Len(down) -> Nat] /\ f[0] = 0 /\ \A i \in 0 .. Len(down) : f[i] = 0
    BY <2>1
  <2> HIDE DEF f
  <2>3. Counted(down, 0, 0)
    BY <2>1, <2>2 DEF Counted
  <2> QED BY <2>1, <2>3 DEF CopiesInv
<1>5. DroppedInv /\ StageInv /\ EntryInv
  BY DEF Init, DroppedInv, StageInv, EntryInv, None
<1>6. StreamInv
  BY DEF Init, StreamInv, Distinct, Under, Asks, Answers
<1> QED BY <1>1, <1>2, <1>3, <1>4, <1>5, <1>6 DEF IInv, Typed

(* Every step keeps it: one lemma for each handler or operation.           *)
LEMMA StepIInv == IInv /\ [Next]_vars => IInv'
<1> SUFFICES ASSUME IInv, [Next]_vars PROVE IInv'
  OBVIOUS
<1>1. CASE UNCHANGED vars
  <2>1. WorkerTyped' /\ StageInv' /\ DroppedInv' /\ published' \cap dropped = {}
    BY <1>1 DEF IInv, Typed, WorkerTyped, StageInv, DroppedInv, vars, bridge, worker, history
  <2>2. UNCHANGED <<server, bridge, locals, lists, dropped, errors, exec>>
    BY <1>1 DEF vars, worker, history
  <2>3. errors' \in 0 .. MaxErrors /\ (exec'.kind = "set" => exec'.id \notin dropped)
    BY <2>2, WorkerFacts DEF DroppedInv
  <2> QED BY <2>1, <2>2, <2>3, QuietKeeps
<1>2. CASE Next
  <2>1. CASE \E l \in Lists : ServerCopies(l)
    BY <2>1, ServerCopiesKeeps
  <2>2. CASE \E ok \in BOOLEAN : ServerAnswers(ok)
    BY <2>2, ServerAnswersKeeps
  <2>3. CASE HandleAction
    BY <2>3, RemoteCopyKeeps, RemoteFileListKeeps, FileContentsKeeps DEF HandleAction
  <2>4. CASE HandleResult
    BY <2>4, PreparedKeeps, ChunkStoredKeeps, PublishedKeeps, OtherResultKeeps DEF HandleResult
  <2>5. CASE OtherResult(TRUE) \/ TimedOut
    BY <2>5, OtherResultKeeps, TimedOutKeeps
  <2>6. CASE Retry \/ OtherWork \/ Take
    BY <2>6, QueueSteps
  <2>7. CASE \E ok \in BOOLEAN : PrepareBegins(ok) \/ Store(ok) \/ PublishSets(ok)
    BY <2>7, PrepareKeeps, StoreKeeps, PublishSetsKeeps
  <2>8. CASE Simple \/ PrepareEnds \/ PublishBegins \/ Send
    BY <2>8, SimpleKeeps, StagedKeeps, PublishBeginsKeeps, SendKeeps
  <2> QED BY <1>2, <2>1, <2>2, <2>3, <2>4, <2>5, <2>6, <2>7, <2>8 DEF Next, WorkerStep
<1> QED BY <1>1, <1>2

(* The inductive invariant holds of every behaviour.                       *)
LEMMA Inductive == Spec => []IInv
BY InitIInv, StepIInv, PTL DEF Spec

(* At most one stage: the set has no two elements.                         *)
LEMMA OneAtMost ==
  ASSUME NEW S, \A a, b \in S : a = b
  PROVE  Cardinality(S) <= 1
<1>1. CASE S = {}
  BY <1>1, FS_EmptySet
<1>2. CASE S # {}
  <2>1. PICK a \in S : S = {a}
    BY <1>2
  <2>2. Cardinality({a}) = 1
    BY FS_Singleton
  <2> QED BY <2>1, <2>2
<1> QED BY <1>1, <1>2

(* FilesInv: the state stays well formed, the worker keeps the stage of    *)
(* one transfer, and nothing superseded before the worker's last look at   *)
(* active_transfer reaches the clipboard.                                  *)
THEOREM FilesInvariant == Spec => []FilesInv
<1>1. IInv => FilesInv
  <2> SUFFICES ASSUME IInv PROVE FilesInv
    OBVIOUS
  <2>1. ServerTyped /\ BridgeTyped /\ WorkerTyped /\ StageInv /\ DroppedInv
    BY DEF IInv, Typed
  <2>2. TypeOK
    <3>1. xfer = None \/ /\ xfer.id \in Transfers /\ xfer.entries \in Seq(Entry)
                         /\ xfer.pending \in Asked \cup {None}
                         /\ xfer.awaits \in {"prepare", "publish", "nothing"}
      BY <2>1 DEF BridgeTyped, Transfer
    <3>2. active \in 0 .. ids
      <4>1. CASE xfer = None
        BY <2>1, <4>1 DEF BridgeTyped
      <4>2. CASE xfer # None
        BY <2>1, <4>2 DEF BridgeTyped, Transfer, Transfers
      <4> QED BY <4>1, <4>2
    <3>3. up \in Seq([kind : {"paste"}] \cup Asked)
      BY <2>1 DEF ServerTyped, Requests
    <3>4. offer \in Lists /\ copies \in 0 .. MaxCopies /\ locals \in 0 .. MaxLocal
          /\ errors \in 0 .. MaxErrors
      BY <2>1 DEF ServerTyped
    <3>5. wanted \in BOOLEAN /\ stale \subseteq 1 .. streams /\ streams \in Nat
          /\ ids \in 0 .. MaxCopies
      BY <2>1 DEF BridgeTyped
    <3>6. deferred \in Work \cup {None} /\ cmd \in Work \cup {None}
          /\ \A id \in DOMAIN stages : id \in Transfers
      BY <2>1 DEF WorkerTyped
    <3> QED BY <3>1, <3>2, <3>3, <3>4, <3>5, <3>6 DEF TypeOK
  <2>3. OneStage
    BY <2>1, OneAtMost DEF StageInv, OneStage
  <2>4. SupersededNeverPublished
    BY <2>1 DEF DroppedInv, SupersededNeverPublished
  <2> QED BY <2>2, <2>3, <2>4 DEF FilesInv
<1> QED BY <1>1, Inductive, PTL

(* StaleAnswerHarmless: contents that do not answer the pending request    *)
(* change nothing in the transfer under way.                               *)
THEOREM StaleAnswers == Spec => StaleAnswerHarmless
<1>1. IInv /\ [Next]_vars =>
        [FileContents /\ xfer # None
         /\ (xfer.pending = None \/ Head(down).stream # xfer.pending.stream)
         => UNCHANGED xfer]_vars
  <2> SUFFICES ASSUME IInv, FileContents, xfer # None,
                      xfer.pending = None \/ Head(down).stream # xfer.pending.stream
               PROVE  UNCHANGED xfer
    OBVIOUS
  <2>1. down # <<>> /\ Head(down).kind = "contents"
    BY DEF FileContents
  <2>2. Answers(down, 1) /\ down[1] = Head(down)
    <3>1. down \in Seq(Messages)
      BY DEF IInv, Typed, ServerTyped
    <3>2. Head(down) = down[1] /\ 1 \in DOMAIN down
      BY <2>1, <3>1, Shifted
    <3> QED BY <2>1, <3>2 DEF Answers
  <2>3. Known(Head(down).stream)
    BY <2>2 DEF IInv, StreamInv, Under
  <2>4. Head(down).stream \in stale
    BY <2>3 DEF Known
  <2> QED BY <2>4 DEF FileContents
<1> QED BY <1>1, Inductive, PTL DEF Spec, StaleAnswerHarmless

(* The finding, for every list: no pending request is ever noted as        *)
(* stored, since take() has left nothing to be noted in, so no result of   *)
(* store_remote_chunk is ever recognised and no file with contents gets    *)
(* beyond its first chunk.                                                 *)
NeverNoted ==
  /\ [](xfer # None /\ xfer.pending # None => ~xfer.pending.stored)
  /\ [][ChunkStored => UNCHANGED xfer]_vars

(* NeverNoted, the reason of the finding of run files_download.            *)
THEOREM NothingNoted == Spec => NeverNoted
<1>1. IInv => (xfer # None /\ xfer.pending # None => ~xfer.pending.stored)
  BY DEF IInv, EntryInv
<1>2. IInv /\ [Next]_vars => [ChunkStored => UNCHANGED xfer]_vars
  <2> SUFFICES ASSUME IInv, ChunkStored PROVE UNCHANGED xfer
    OBVIOUS
  <2>1. ~(Awaits("nothing") /\ xfer.pending # None /\ xfer.pending.stored)
    BY DEF IInv, EntryInv, Awaits
  <2>2. Ignored
    BY <2>1 DEF ChunkStored
  <2> QED BY <2>2 DEF Ignored
<1> QED BY <1>1, <1>2, Inductive, PTL DEF Spec, NeverNoted
=============================================================================

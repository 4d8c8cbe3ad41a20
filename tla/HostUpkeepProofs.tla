---------------------------- MODULE HostUpkeepProofs ----------------------------
(***************************************************************************)
(* Theorems about the two programs that keep a host's stack in place:      *)
(* deploy, which installs it, and the session agent, which reconciles it.  *)
(* The two modules share no name; each theorem speaks of one of them.      *)
(*                                                                         *)
(* Deploy.  What holds of a run follows from what its plan no longer       *)
(* contains: with no size check to come the files are right, with no       *)
(* install to come the service is the new one, and so on.  For that the    *)
(* plan must keep its order whatever its first actions did, in the two     *)
(* orders deploy knows: the old stack stopped before the copies, or after  *)
(* them.                                                                   *)
(*                                                                         *)
(* Reconciler.  The invariant holds at every stage of a tick, not between  *)
(* ticks only: a device that left or was replaced stays suspect until the  *)
(* agent compares names, and then a restart is noted (DisplayAction).      *)
(***************************************************************************)
EXTENDS Deploy, Reconciler, SequenceTheorems, TLAPS

-----------------------------------------------------------------------------
(* Plans.                                                                  *)

Plain == {"cable", "quiesced", "mkdir", "sizes", "driver", "audio", "verify", "driver status",
          "record"}
Kinds == Plain \cup {"uninstall", "copy", "install"}

Acts == [do : Plain] \cup [do : {"uninstall"}, version : Layouts]
        \cup [do : {"copy"}, file : File] \cup [do : {"install"}, display : Policies]

\* The place of an action in a plan, in either order.
Orders == {"stop first", "copy first"}
Rank(what, order) ==
  CASE what = "cable" -> 0
    [] what = "uninstall" -> IF order = "stop first" THEN 1 ELSE 6
    [] what = "quiesced" -> IF order = "stop first" THEN 2 ELSE 7
    [] what = "mkdir" -> 3
    [] what = "copy" -> 4
    [] what = "sizes" -> 5
    [] what = "driver" -> 8
    [] what = "install" -> 9
    [] what = "audio" -> 10
    [] what = "verify" -> 11
    [] what = "driver status" -> 12
    [] what = "record" -> 13

Ordered(s, order) ==
  \A i, j \in 1 .. Len(s) : i < j => Rank(s[i].do, order) <= Rank(s[j].do, order)

Has(s, what) == \E i \in 1 .. Len(s) : s[i].do = what

\* No file is copied without the size check after it, the service is neither touched nor the
\* driver installed without an install after it, and a run ends with its record.
Closed(s) ==
  /\ s # <<>> => Has(s, "record")
  /\ Has(s, "copy") => Has(s, "sizes")
  /\ Has(s, "uninstall") \/ Has(s, "driver") => Has(s, "install")

-----------------------------------------------------------------------------
(* The invariant.                                                          *)

\* The types of the host, of the run and of the history: together, TypeOK.
HostTyped ==
  /\ files \in [Layouts -> [File -> {"none", "torn", "stale", "right"}]]
  /\ made \subseteq Layouts /\ source \subseteq made
  /\ service = None \/ service \in [version : Layouts, display : Policies, runs : BOOLEAN]
  /\ worker = None \/ worker \in [version : Layouts, display : Policies, green : BOOLEAN]
  /\ ships \in 1 .. 2 /\ staged \subseteq 1 .. 2 /\ bound \in 0 .. 2
  /\ cable \in {"none", "reboot", "broken", "active"} /\ formats \in BOOLEAN

RunTyped ==
  /\ running \in BOOLEAN /\ success \in BOOLEAN /\ expected \in Policies
  /\ running <=> plan # <<>>

HistoryTyped == lost \in BOOLEAN /\ wish \in Policies /\ breaks \in 0 .. MaxBreaks

\* The host: a worker is the service's, the service's directory exists, the driver store holds
\* the two releases' drivers at most, and the device is bound to one of them.
HostInv ==
  /\ worker # None => service # None /\ worker.version = service.version
  /\ worker # None /\ worker.display = Default => service.display = Default
  /\ service # None => service.version \in made
  /\ staged \subseteq {1, ships} /\ bound \in staged \cup {0}

\* No image of the new release can be open.
Clear == service = None \/ service.version # New

PlanInv ==
  /\ plan \in Seq(Acts) /\ Closed(plan)
  /\ \E order \in Orders :
       /\ Ordered(plan, order)
       /\ Has(plan, "copy") /\ ~(order = "stop first" /\ Has(plan, "quiesced")) => Clear

\* What is done for good once the plan p no longer has it to do.
Done(p) ==
  /\ ~Has(p, "mkdir") => New \in made
  /\ ~Has(p, "sizes") => \A f \in File : files[New][f] = "right"
  /\ ~Has(p, "driver") => ships \in staged
  /\ ~Has(p, "install") => /\ service # None /\ service.version = New
                            /\ bound \in {0, ships}
  /\ ~Has(p, "audio") => formats /\ New \in source

DoneInv == running => Done(plan)

\* The policy a run installs, and the one the next run would read, is the one in force.
DisplayInv ==
  /\ \A i \in 1 .. Len(plan) : plan[i].do = "install" => lost \/ plan[i].display = wish
  /\ ~running /\ ~success => lost \/ EffectiveDisplay = wish

IInv == /\ HostTyped /\ RunTyped /\ HistoryTyped
        /\ HostInv /\ PlanInv /\ DoneInv /\ DisplayInv

-----------------------------------------------------------------------------
(* Sequences of actions.                                                   *)

\* What an action says, by its kind.
LEMMA ActKinds ==
  ASSUME NEW a \in Acts
  PROVE  /\ a.do \in Kinds
         /\ a.do = "uninstall" => a.version \in Layouts
         /\ a.do = "copy" => a.file \in File
         /\ a.do = "install" => a.display \in Policies
<1>1. \/ a \in [do : Plain] \/ a \in [do : {"uninstall"}, version : Layouts]
      \/ a \in [do : {"copy"}, file : File] \/ a \in [do : {"install"}, display : Policies]
  BY DEF Acts
<1>2. CASE a \in [do : Plain]
  BY <1>2 DEF Plain, Kinds
<1>3. CASE a \in [do : {"uninstall"}, version : Layouts]
  BY <1>3 DEF Kinds
<1>4. CASE a \in [do : {"copy"}, file : File]
  BY <1>4 DEF Kinds
<1>5. CASE a \in [do : {"install"}, display : Policies]
  BY <1>5 DEF Kinds
<1> QED
  BY <1>1, <1>2, <1>3, <1>4, <1>5

\* The places, one by one.
LEMMA Ranks ==
  ASSUME NEW order \in Orders
  PROVE  /\ Rank("cable", order) = 0 /\ Rank("mkdir", order) = 3 /\ Rank("copy", order) = 4
         /\ Rank("sizes", order) = 5 /\ Rank("driver", order) = 8
         /\ Rank("install", order) = 9 /\ Rank("audio", order) = 10
         /\ Rank("verify", order) = 11 /\ Rank("driver status", order) = 12
         /\ Rank("record", order) = 13
         /\ order = "stop first" => Rank("uninstall", order) = 1 /\ Rank("quiesced", order) = 2
         /\ order = "copy first" => Rank("uninstall", order) = 6 /\ Rank("quiesced", order) = 7
BY DEF Rank, Orders

\* The places are numbers.
LEMMA RankRange ==
  ASSUME NEW k \in Kinds, NEW order \in Orders
  PROVE  Rank(k, order) \in 0 .. 13
<1> DEFINE R == Rank(k, order)
<1>1. \/ R = 0 \/ R = 1 \/ R = 2 \/ R = 3 \/ R = 4 \/ R = 5 \/ R = 6 \/ R = 7
      \/ R = 8 \/ R = 9 \/ R = 10 \/ R = 11 \/ R = 12 \/ R = 13
  BY Ranks DEF Kinds, Plain, Orders
<1> HIDE DEF R
<1>2. R \in 0 .. 13
  BY <1>1
<1> QED
  BY <1>2 DEF R

\* The record comes last.
LEMMA LastPlace ==
  ASSUME NEW order \in Orders
  PROVE  \A k \in Kinds : k # "record" => Rank(k, order) < Rank("record", order)
<1> TAKE k \in Kinds
<1> SUFFICES ASSUME k # "record" PROVE Rank(k, order) < Rank("record", order)
  OBVIOUS
<1> DEFINE R == Rank(k, order)
<1>1. \/ R = 0 \/ R = 1 \/ R = 2 \/ R = 3 \/ R = 4 \/ R = 5 \/ R = 6 \/ R = 7
      \/ R = 8 \/ R = 9 \/ R = 10 \/ R = 11 \/ R = 12
  BY Ranks DEF Kinds, Plain, Orders
<1>2. Rank("record", order) = 13
  BY Ranks
<1> HIDE DEF R
<1>3. R < 13
  BY <1>1
<1> QED
  BY <1>2, <1>3 DEF R

\* The head of a plan and the rest of it.
LEMMA TailParts ==
  ASSUME NEW s \in Seq(Acts), s # <<>>
  PROVE  /\ Len(s) \in Nat \ {0} /\ Head(s) = s[1] /\ Head(s) \in Acts
         /\ Tail(s) \in Seq(Acts) /\ Len(Tail(s)) = Len(s) - 1
         /\ \A i \in 1 .. Len(s) : s[i] \in Acts
         /\ \A i \in 1 .. Len(s) - 1 : Tail(s)[i] = s[i + 1]
OBVIOUS

\* A plan has what its head is and what the rest has.
LEMMA TailHas ==
  ASSUME NEW s \in Seq(Acts), s # <<>>, NEW x
  PROVE  Has(s, x) <=> Head(s).do = x \/ Has(Tail(s), x)
<1>1. ASSUME Has(s, x) PROVE Head(s).do = x \/ Has(Tail(s), x)
  <2>1. PICK i \in 1 .. Len(s) : s[i].do = x
    BY <1>1 DEF Has
  <2>2. CASE i = 1
    BY <2>1, <2>2, TailParts
  <2>3. CASE i # 1
    <3>1. i - 1 \in 1 .. Len(Tail(s)) /\ Tail(s)[i - 1] = s[i]
      BY <2>3, TailParts
    <3> QED
      BY <2>1, <3>1 DEF Has
  <2> QED
    BY <2>2, <2>3
<1>2. ASSUME Head(s).do = x PROVE Has(s, x)
  BY <1>2, TailParts DEF Has
<1>3. ASSUME Has(Tail(s), x) PROVE Has(s, x)
  <2>1. PICK i \in 1 .. Len(Tail(s)) : Tail(s)[i].do = x
    BY <1>3 DEF Has
  <2>2. i + 1 \in 1 .. Len(s) /\ Tail(s)[i] = s[i + 1]
    BY TailParts
  <2> QED
    BY <2>1, <2>2 DEF Has
<1> QED
  BY <1>1, <1>2, <1>3

\* The rest of a plan in order is in order.
LEMMA OrderedTail ==
  ASSUME NEW s \in Seq(Acts), s # <<>>, NEW order \in Orders, Ordered(s, order)
  PROVE  Ordered(Tail(s), order)
<1> SUFFICES ASSUME NEW i \in 1 .. Len(Tail(s)), NEW j \in 1 .. Len(Tail(s)), i < j
             PROVE  Rank(Tail(s)[i].do, order) <= Rank(Tail(s)[j].do, order)
  BY DEF Ordered
<1>1. /\ i + 1 \in 1 .. Len(s) /\ j + 1 \in 1 .. Len(s) /\ i + 1 < j + 1
      /\ Tail(s)[i] = s[i + 1] /\ Tail(s)[j] = s[j + 1]
  BY TailParts
<1> QED
  BY <1>1 DEF Ordered

\* Nothing in a plan in order has a place before that of its head.
LEMMA HeadFirst ==
  ASSUME NEW s \in Seq(Acts), s # <<>>, NEW order \in Orders, Ordered(s, order),
         NEW x, Has(s, x)
  PROVE  Rank(Head(s).do, order) <= Rank(x, order)
<1>1. PICK i \in 1 .. Len(s) : s[i].do = x
  BY DEF Has
<1>2. Head(s) = s[1] /\ s[1].do \in Kinds /\ 1 \in 1 .. Len(s)
  BY TailParts, ActKinds
<1>3. CASE i = 1
  <2>1. Rank(s[1].do, order) \in 0 .. 13
    BY <1>2, RankRange
  <2> QED
    BY <2>1, <1>1, <1>2, <1>3
<1>4. CASE i # 1
  <2>1. 1 < i
    BY <1>4
  <2> QED
    BY <1>1, <1>2, <2>1 DEF Ordered
<1> QED
  BY <1>3, <1>4

\* Once an action is the head, those of an earlier place are gone.
LEMMA GoneBefore ==
  ASSUME NEW s \in Seq(Acts), s # <<>>, NEW order \in Orders, Ordered(s, order)
  PROVE  \A x \in Kinds : Rank(x, order) < Rank(Head(s).do, order) => ~Has(s, x)
<1> SUFFICES ASSUME NEW x \in Kinds, Rank(x, order) < Rank(Head(s).do, order), Has(s, x)
             PROVE  FALSE
  OBVIOUS
<1>1. Rank(Head(s).do, order) <= Rank(x, order)
  BY HeadFirst
<1>2. Rank(x, order) \in 0 .. 13
  BY RankRange
<1>3. Rank(Head(s).do, order) \in 0 .. 13
  BY RankRange, TailParts, ActKinds
<1> HIDE DEF Rank
<1> QED
  BY <1>1, <1>2, <1>3

\* The rest of a plan that asks for what must follow still does.
LEMMA ClosedTail ==
  ASSUME NEW s \in Seq(Acts), s # <<>>, NEW order \in Orders, Ordered(s, order), Closed(s)
  PROVE  Closed(Tail(s))
<1>1. ASSUME Has(Tail(s), "copy") PROVE Has(Tail(s), "sizes")
  <2>1. Has(s, "copy") /\ Has(s, "sizes")
    BY <1>1, TailHas DEF Closed
  <2>2. Rank("copy", order) < Rank("sizes", order) /\ "copy" \in Kinds
    <3>1. Rank("copy", order) = 4 /\ Rank("sizes", order) = 5
      BY Ranks
    <3> QED
      BY <3>1 DEF Kinds
  <2>3. Head(s).do # "sizes"
    BY <2>1, <2>2, GoneBefore
  <2> QED
    BY <2>1, <2>3, TailHas
<1>2. ASSUME Has(Tail(s), "uninstall") \/ Has(Tail(s), "driver") PROVE Has(Tail(s), "install")
  <2>1. (Has(s, "uninstall") \/ Has(s, "driver")) /\ Has(s, "install")
    BY <1>2, TailHas DEF Closed
  <2>2. /\ Rank("uninstall", order) < Rank("install", order) /\ "uninstall" \in Kinds
        /\ Rank("driver", order) < Rank("install", order) /\ "driver" \in Kinds
    <3>1. Rank("driver", order) = 8 /\ Rank("install", order) = 9
      BY Ranks
    <3>2. Rank("uninstall", order) = 1 \/ Rank("uninstall", order) = 6
      BY Ranks DEF Orders
    <3> QED
      BY <3>1, <3>2 DEF Kinds, Plain
  <2>3. Head(s).do # "install"
    BY <2>1, <2>2, GoneBefore
  <2> QED
    BY <2>1, <2>3, TailHas
<1>3. ASSUME Tail(s) # <<>> PROVE Has(Tail(s), "record")
  <2>1. Has(s, "record")
    BY DEF Closed
  <2>2. CASE Head(s).do # "record"
    BY <2>1, <2>2, TailHas
  <2>3. CASE Head(s).do = "record"
    <3> DEFINE h == Head(Tail(s))
    <3>1. Tail(s) \in Seq(Acts)
      BY TailParts
    <3>2. h \in Acts /\ Has(Tail(s), h.do)
      BY <1>3, <3>1, TailParts, TailHas
    <3>3. h.do \in Kinds /\ Has(s, h.do)
      BY <3>2, ActKinds, TailHas
    <3>4. ~(Rank(h.do, order) < Rank("record", order))
      BY <2>3, <3>3, GoneBefore
    <3>5. h.do = "record"
      <4>1. \A k \in Kinds : k # "record" => Rank(k, order) < Rank("record", order)
        BY LastPlace
      <4> QED
        BY <3>3, <3>4, <4>1
    <3> QED
      BY <3>2, <3>5
  <2> QED
    BY <2>2, <2>3
<1> QED
  BY <1>1, <1>2, <1>3 DEF Closed

-----------------------------------------------------------------------------
(* The plan a run starts with.                                             *)

\* A stretch of a plan: in order, between two places, installing the policy the probe read.
Stretch(s, order, lo, hi) ==
  /\ s \in Seq(Acts) /\ Ordered(s, order)
  /\ \A i \in 1 .. Len(s) : lo <= Rank(s[i].do, order) /\ Rank(s[i].do, order) <= hi
  /\ \A i \in 1 .. Len(s) : s[i].do = "install" => s[i].display = EffectiveDisplay

\* What a plan joined from two is made of.
LEMMA JoinParts ==
  ASSUME NEW s \in Seq(Acts), NEW t \in Seq(Acts)
  PROVE  /\ s \o t \in Seq(Acts) /\ Len(s) \in Nat /\ Len(t) \in Nat
         /\ Len(s \o t) = Len(s) + Len(t)
         /\ \A i \in 1 .. Len(s) : (s \o t)[i] = s[i] /\ s[i] \in Acts
         /\ \A i \in 1 .. Len(t) : (s \o t)[Len(s) + i] = t[i] /\ t[i] \in Acts
OBVIOUS

\* A place in a joined plan is a place in its first stretch or in its second.
LEMMA JoinPlace ==
  ASSUME NEW s \in Seq(Acts), NEW t \in Seq(Acts), NEW i \in 1 .. Len(s \o t)
  PROVE  \/ i \in 1 .. Len(s) /\ (s \o t)[i] = s[i]
         \/ \E j \in 1 .. Len(t) : i = Len(s) + j /\ (s \o t)[i] = t[j]
<1>1. CASE i <= Len(s)
  BY <1>1, JoinParts
<1>2. CASE ~(i <= Len(s))
  <2>1. i - Len(s) \in 1 .. Len(t) /\ i = Len(s) + (i - Len(s))
    BY <1>2, JoinParts
  <2>2. (s \o t)[Len(s) + (i - Len(s))] = t[i - Len(s)]
    BY <2>1, JoinParts
  <2> QED
    BY <2>1, <2>2
<1> QED
  BY <1>1, <1>2

\* A joined plan has what either part has.
LEMMA HasJoin ==
  ASSUME NEW s \in Seq(Acts), NEW t \in Seq(Acts), NEW x
  PROVE  Has(s \o t, x) <=> Has(s, x) \/ Has(t, x)
<1>1. ASSUME Has(s \o t, x) PROVE Has(s, x) \/ Has(t, x)
  <2>1. PICK i \in 1 .. Len(s \o t) : (s \o t)[i].do = x
    BY <1>1 DEF Has
  <2> QED
    BY <2>1, JoinPlace DEF Has
<1>2. ASSUME Has(s, x) PROVE Has(s \o t, x)
  <2>1. PICK i \in 1 .. Len(s) : s[i].do = x
    BY <1>2 DEF Has
  <2>2. i \in 1 .. Len(s \o t) /\ (s \o t)[i] = s[i]
    BY JoinParts
  <2> QED
    BY <2>1, <2>2 DEF Has
<1>3. ASSUME Has(t, x) PROVE Has(s \o t, x)
  <2>1. PICK i \in 1 .. Len(t) : t[i].do = x
    BY <1>3 DEF Has
  <2>2. Len(s) + i \in 1 .. Len(s \o t) /\ (s \o t)[Len(s) + i] = t[i]
    BY JoinParts
  <2> QED
    BY <2>1, <2>2 DEF Has
<1> QED
  BY <1>1, <1>2, <1>3

\* Two stretches, the second after the first, are one.
LEMMA JoinStretch ==
  ASSUME NEW s, NEW t, NEW order \in Orders,
         NEW a \in Nat, NEW b \in Nat, NEW c \in Nat, NEW d \in Nat,
         Stretch(s, order, a, b), Stretch(t, order, c, d), a <= b, b <= c, c <= d
  PROVE  Stretch(s \o t, order, a, d)
<1>1. s \in Seq(Acts) /\ t \in Seq(Acts)
  BY DEF Stretch
<1>2. \A i \in 1 .. Len(s) : Rank(s[i].do, order) \in Nat
  <2> TAKE i \in 1 .. Len(s)
  <2>1. s[i].do \in Kinds
    BY <1>1, JoinParts, ActKinds
  <2>2. Rank(s[i].do, order) \in 0 .. 13
    BY <2>1, RankRange
  <2> QED
    BY <2>2
<1>3. \A i \in 1 .. Len(t) : Rank(t[i].do, order) \in Nat
  <2> TAKE i \in 1 .. Len(t)
  <2>1. t[i].do \in Kinds
    BY <1>1, JoinParts, ActKinds
  <2>2. Rank(t[i].do, order) \in 0 .. 13
    BY <2>1, RankRange
  <2> QED
    BY <2>2
<1>4. \A i \in 1 .. Len(s \o t) :
        /\ a <= Rank((s \o t)[i].do, order) /\ Rank((s \o t)[i].do, order) <= d
        /\ (s \o t)[i].do = "install" => (s \o t)[i].display = EffectiveDisplay
  <2> TAKE i \in 1 .. Len(s \o t)
  <2>1. CASE i \in 1 .. Len(s) /\ (s \o t)[i] = s[i]
    <3>1. a <= Rank(s[i].do, order) /\ Rank(s[i].do, order) <= b
      BY <2>1 DEF Stretch
    <3>2. Rank(s[i].do, order) \in Nat
      BY <1>2, <2>1
    <3>3. Rank(s[i].do, order) <= d
      BY <3>1, <3>2
    <3>4. s[i].do = "install" => s[i].display = EffectiveDisplay
      BY <2>1 DEF Stretch
    <3> QED
      BY <2>1, <3>1, <3>3, <3>4
  <2>2. CASE \E j \in 1 .. Len(t) : i = Len(s) + j /\ (s \o t)[i] = t[j]
    <3>1. PICK j \in 1 .. Len(t) : i = Len(s) + j /\ (s \o t)[i] = t[j]
      BY <2>2
    <3>2. c <= Rank(t[j].do, order) /\ Rank(t[j].do, order) <= d
      BY DEF Stretch
    <3>3. Rank(t[j].do, order) \in Nat
      BY <1>3
    <3>4. a <= Rank(t[j].do, order)
      BY <3>2, <3>3
    <3>5. t[j].do = "install" => t[j].display = EffectiveDisplay
      BY DEF Stretch
    <3> QED
      BY <3>1, <3>2, <3>4, <3>5
  <2> QED
    BY <1>1, <2>1, <2>2, JoinPlace
<1>5. Ordered(s \o t, order)
  <2> SUFFICES ASSUME NEW i \in 1 .. Len(s \o t), NEW j \in 1 .. Len(s \o t), i < j
               PROVE  Rank((s \o t)[i].do, order) <= Rank((s \o t)[j].do, order)
    BY DEF Ordered
  <2>1. CASE j \in 1 .. Len(s) /\ (s \o t)[j] = s[j]
    <3>1. i \in 1 .. Len(s) /\ (s \o t)[i] = s[i]
      BY <1>1, <2>1, JoinParts
    <3> QED
      BY <2>1, <3>1 DEF Stretch, Ordered
  <2>2. CASE /\ i \in 1 .. Len(s) /\ (s \o t)[i] = s[i]
             /\ \E k \in 1 .. Len(t) : j = Len(s) + k /\ (s \o t)[j] = t[k]
    <3>1. PICK k \in 1 .. Len(t) : (s \o t)[j] = t[k]
      BY <2>2
    <3>2. Rank(s[i].do, order) <= b /\ Rank(s[i].do, order) \in Nat
      BY <1>2, <2>2 DEF Stretch
    <3>3. c <= Rank(t[k].do, order) /\ Rank(t[k].do, order) \in Nat
      BY <1>3 DEF Stretch
    <3>4. Rank(s[i].do, order) <= Rank(t[k].do, order)
      BY <3>2, <3>3
    <3> QED
      BY <2>2, <3>1, <3>4
  <2>3. CASE /\ \E k \in 1 .. Len(t) : i = Len(s) + k /\ (s \o t)[i] = t[k]
             /\ \E k \in 1 .. Len(t) : j = Len(s) + k /\ (s \o t)[j] = t[k]
    <3>1. PICK k \in 1 .. Len(t) : i = Len(s) + k /\ (s \o t)[i] = t[k]
      BY <2>3
    <3>2. PICK m \in 1 .. Len(t) : j = Len(s) + m /\ (s \o t)[j] = t[m]
      BY <2>3
    <3>3. k < m
      BY <1>1, <3>1, <3>2, JoinParts
    <3> QED
      BY <3>1, <3>2, <3>3 DEF Stretch, Ordered
  <2> QED
    BY <1>1, <2>1, <2>2, <2>3, JoinPlace
<1> QED
  BY <1>1, <1>4, <1>5, JoinParts DEF Stretch

\* The empty stretch, and that of a single action.
LEMMA NoStretch ==
  ASSUME NEW order \in Orders, NEW a \in Nat, NEW b \in Nat
  PROVE  Stretch(<<>>, order, a, b)
BY DEF Stretch, Ordered

LEMMA OneStretch ==
  ASSUME NEW order \in Orders, NEW x \in Acts, NEW r \in Nat, Rank(x.do, order) = r,
         x.do = "install" => x.display = EffectiveDisplay
  PROVE  /\ Stretch(<<x>>, order, r, r)
         /\ \A k : Has(<<x>>, k) <=> k = x.do
<1>1. <<x>> \in Seq(Acts) /\ Len(<<x>>) = 1 /\ <<x>>[1] = x
  OBVIOUS
<1>2. \A i \in 1 .. Len(<<x>>) : i = 1
  BY <1>1
<1>3. Ordered(<<x>>, order)
  BY <1>2 DEF Ordered
<1>4. r <= Rank(x.do, order) /\ Rank(x.do, order) <= r
  OBVIOUS
<1> QED
  BY <1>1, <1>2, <1>3, <1>4 DEF Stretch, Has

\* The stretch of a single plain action.
LEMMA ActStretch ==
  ASSUME NEW order \in Orders, NEW w \in Plain, NEW r \in Nat, Rank(w, order) = r
  PROVE  Stretch(Act(w), order, r, r) /\ \A k : Has(Act(w), k) <=> k = w
<1>1. [do |-> w] \in Acts /\ [do |-> w].do = w /\ w # "install"
  BY DEF Acts, Plain
<1> QED
  BY <1>1, OneStretch DEF Act

-----------------------------------------------------------------------------
(* The three plans.                                                        *)

\* What the probe reads is a display policy and a layout.
LEMMA ReadTypes ==
  ASSUME HostTyped
  PROVE  /\ EffectiveDisplay \in Policies /\ Executable \in Layouts
         /\ New \in Layouts /\ Default \in Policies
<1>1. New \in Layouts /\ Old \in Layouts /\ Flat \in Layouts /\ Default \in Policies
  BY DEF Layouts, Policies
<1>2. worker # None => worker.display \in Policies
  BY DEF HostTyped
<1>3. service # None => service.display \in Policies /\ service.version \in Layouts
  BY DEF HostTyped
<1>4. FirstExe \in Layouts
  BY <1>1 DEF FirstExe
<1> QED
  BY <1>1, <1>2, <1>3, <1>4 DEF EffectiveDisplay, Executable

\* The stretch that sets the cable up, if it is to be set up.
LEMMA CableStretch ==
  ASSUME NEW order \in Orders
  PROVE  Stretch(Cable, order, 0, 0) /\ \A k : Has(Cable, k) => k = "cable"
<1>1. Rank("cable", order) = 0
  BY Ranks
<1>2. CASE cable = "none"
  <2>1. "cable" \in Plain /\ 0 \in Nat
    BY DEF Plain
  <2>2. Stretch(Act("cable"), order, 0, 0) /\ \A k : Has(Act("cable"), k) <=> k = "cable"
    BY <1>1, <2>1, ActStretch
  <2> QED
    BY <1>2, <2>2 DEF Cable
<1>3. CASE cable # "none"
  <2>1. Cable = <<>> /\ Stretch(<<>>, order, 0, 0)
    BY <1>3, NoStretch DEF Cable
  <2>2. \A k : ~Has(<<>>, k)
    BY DEF Has
  <2> QED
    BY <2>1, <2>2
<1> QED
  BY <1>2, <1>3

\* The three last checks.
LEMMA VerifyStretch ==
  ASSUME NEW order \in Orders
  PROVE  /\ Stretch(Verify, order, 11, 13)
         /\ \A k : Has(Verify, k) <=> k \in {"verify", "driver status", "record"}
<1> DEFINE A == Act("verify")
           B == Act("driver status")
           C == Act("record")
<1>1. /\ Rank("verify", order) = 11 /\ Rank("driver status", order) = 12
      /\ Rank("record", order) = 13
  BY Ranks
<1>a. /\ "verify" \in Plain /\ "driver status" \in Plain /\ "record" \in Plain
      /\ 11 \in Nat /\ 12 \in Nat /\ 13 \in Nat
  BY DEF Plain
<1>c. 11 <= 11 /\ 11 <= 12 /\ 12 <= 12 /\ 12 <= 13 /\ 13 <= 13
  OBVIOUS
<1>2. Stretch(A, order, 11, 11) /\ \A k : Has(A, k) <=> k = "verify"
  <2>1. "verify" \in Plain /\ 11 \in Nat
    BY <1>a
  <2>2. Rank("verify", order) = 11
    BY <1>1
  <2> QED
    BY <2>1, <2>2, ActStretch
<1>3. Stretch(B, order, 12, 12) /\ \A k : Has(B, k) <=> k = "driver status"
  <2>1. "driver status" \in Plain /\ 12 \in Nat
    BY <1>a
  <2>2. Rank("driver status", order) = 12
    BY <1>1
  <2> QED
    BY <2>1, <2>2, ActStretch
<1>4. Stretch(C, order, 13, 13) /\ \A k : Has(C, k) <=> k = "record"
  <2>1. "record" \in Plain /\ 13 \in Nat
    BY <1>a
  <2>2. Rank("record", order) = 13
    BY <1>1
  <2> QED
    BY <2>1, <2>2, ActStretch
<1>5. Verify = (A \o B) \o C
  BY DEF Verify
<1> HIDE DEF A, B, C
<1>b. Stretch(A \o B, order, 11, 12)
  BY <1>2, <1>3, <1>a, <1>c, JoinStretch
<1>6. A \in Seq(Acts) /\ B \in Seq(Acts) /\ C \in Seq(Acts) /\ A \o B \in Seq(Acts)
  BY <1>2, <1>3, <1>4, <1>b DEF Stretch
<1>7. Stretch((A \o B) \o C, order, 11, 13)
  BY <1>4, <1>a, <1>b, <1>c, JoinStretch
<1>8. \A k : Has((A \o B) \o C, k) <=> Has(A, k) \/ Has(B, k) \/ Has(C, k)
  BY <1>6, HasJoin
<1> QED
  BY <1>2, <1>3, <1>4, <1>5, <1>7, <1>8

\* Stopping the old stack: nothing, or an uninstall and the check that it worked.
LEMMA QuiesceStretch ==
  ASSUME HostTyped, NEW order \in Orders
  PROVE  /\ order = "stop first" => Stretch(Quiesce, order, 1, 2)
         /\ order = "copy first" => Stretch(Quiesce, order, 6, 7)
         /\ Quiesce \in Seq(Acts)
         /\ \A k : Has(Quiesce, k) => k \in {"uninstall", "quiesced"}
         /\ service = None \/ Has(Quiesce, "quiesced")
<1> DEFINE u == [do |-> "uninstall", version |-> Executable]
           U == <<u>>
           V == Act("quiesced")
<1>1. CASE service = None /\ AgentExes = {}
  <2>1. Quiesce = <<>> /\ Quiesce \in Seq(Acts)
    BY <1>1 DEF Quiesce
  <2>2. \A k : ~Has(Quiesce, k)
    BY <2>1 DEF Has
  <2> QED
    BY <1>1, <2>1, <2>2, NoStretch
<1>2. CASE ~(service = None /\ AgentExes = {})
  <2>1. u \in Acts /\ u.do = "uninstall" /\ u.do # "install"
    BY ReadTypes DEF Acts
  <2>2. Quiesce = U \o V
    BY <1>2 DEF Quiesce
  <2>3. ASSUME NEW r \in Nat, NEW q \in Nat, Rank("uninstall", order) = r,
               Rank("quiesced", order) = q
        PROVE  /\ Stretch(U, order, r, r) /\ \A k : Has(U, k) <=> k = "uninstall"
               /\ Stretch(V, order, q, q) /\ \A k : Has(V, k) <=> k = "quiesced"
    <3>1. Stretch(U, order, r, r) /\ \A k : Has(U, k) <=> k = "uninstall"
      <4> HIDE DEF u
      <4> QED
        BY <2>1, <2>3, OneStretch
    <3>2. Stretch(V, order, q, q) /\ \A k : Has(V, k) <=> k = "quiesced"
      BY <2>3, ActStretch DEF Plain
    <3> QED
      BY <3>1, <3>2
  <2> HIDE DEF U, V
  <2>4. CASE order = "stop first"
    <3>1. Rank("uninstall", order) = 1 /\ Rank("quiesced", order) = 2
      BY <2>4, Ranks
    <3>2. /\ Stretch(U, order, 1, 1) /\ \A k : Has(U, k) <=> k = "uninstall"
          /\ Stretch(V, order, 2, 2) /\ \A k : Has(V, k) <=> k = "quiesced"
      BY <2>3, <3>1
    <3>a. 1 \in Nat /\ 2 \in Nat /\ 1 <= 1 /\ 1 <= 2 /\ 2 <= 2
      OBVIOUS
    <3>b. Stretch(U \o V, order, 1, 2)
      BY <3>2, <3>a, JoinStretch
    <3>3. Stretch(U \o V, order, 1, 2) /\ U \in Seq(Acts) /\ V \in Seq(Acts)
      BY <3>2, <3>b DEF Stretch
    <3>4. U \o V \in Seq(Acts) /\ \A k : Has(U \o V, k) <=> Has(U, k) \/ Has(V, k)
      BY <3>3, HasJoin DEF Stretch
    <3> QED
      BY <2>2, <2>4, <3>2, <3>3, <3>4
  <2>5. CASE order = "copy first"
    <3>1. Rank("uninstall", order) = 6 /\ Rank("quiesced", order) = 7
      BY <2>5, Ranks
    <3>2. /\ Stretch(U, order, 6, 6) /\ \A k : Has(U, k) <=> k = "uninstall"
          /\ Stretch(V, order, 7, 7) /\ \A k : Has(V, k) <=> k = "quiesced"
      BY <2>3, <3>1
    <3>a. 6 \in Nat /\ 7 \in Nat /\ 6 <= 6 /\ 6 <= 7 /\ 7 <= 7
      OBVIOUS
    <3>b. Stretch(U \o V, order, 6, 7)
      BY <3>2, <3>a, JoinStretch
    <3>3. Stretch(U \o V, order, 6, 7) /\ U \in Seq(Acts) /\ V \in Seq(Acts)
      BY <3>2, <3>b DEF Stretch
    <3>4. U \o V \in Seq(Acts) /\ \A k : Has(U \o V, k) <=> Has(U, k) \/ Has(V, k)
      BY <3>3, HasJoin DEF Stretch
    <3> QED
      BY <2>2, <2>5, <3>2, <3>3, <3>4
  <2> QED
    BY <2>4, <2>5 DEF Orders
<1> QED
  BY <1>1, <1>2

\* The copies.
LEMMA CopiesStretch ==
  ASSUME NEW order \in Orders
  PROVE  Stretch(Copies, order, 4, 4) /\ \A k : Has(Copies, k) <=> k = "copy"
<1>1. DOMAIN Files = 1 .. 3
  BY DEF Files
<1>2. \A i \in 1 .. 3 : Files[i] \in File
  BY <1>1 DEF File
<1>3. \A i \in 1 .. 3 : [do |-> "copy", file |-> Files[i]] \in Acts
  BY <1>2 DEF Acts
<1>4. Copies = [i \in 1 .. 3 |-> [do |-> "copy", file |-> Files[i]]]
  BY <1>1 DEF Copies
<1>5. Copies \in Seq(Acts) /\ Len(Copies) = 3
  BY <1>3, <1>4
<1>6. \A i \in 1 .. Len(Copies) : Copies[i].do = "copy"
  BY <1>4, <1>5
<1>7. Rank("copy", order) = 4
  BY Ranks
<1>8. \A i \in 1 .. Len(Copies) : Rank(Copies[i].do, order) = 4
  BY <1>6, <1>7
<1>9. Ordered(Copies, order)
  BY <1>8 DEF Ordered
<1>10. 1 \in 1 .. Len(Copies)
  BY <1>5
<1>11. \A k : Has(Copies, k) <=> k = "copy"
  BY <1>6, <1>10 DEF Has
<1>12. \A i \in 1 .. Len(Copies) : 4 <= Rank(Copies[i].do, order)
                                  /\ Rank(Copies[i].do, order) <= 4
  BY <1>8
<1>13. \A i \in 1 .. Len(Copies) : Copies[i].do # "install"
  BY <1>6
<1> QED
  BY <1>5, <1>9, <1>11, <1>12, <1>13 DEF Stretch

\* The stretches of single plain actions.
LEMMA PlainStretches ==
  ASSUME NEW order \in Orders
  PROVE  /\ Stretch(Act("mkdir"), order, 3, 3) /\ Has(Act("mkdir"), "mkdir")
         /\ Stretch(Act("sizes"), order, 5, 5) /\ Has(Act("sizes"), "sizes")
         /\ Stretch(Act("driver"), order, 8, 8) /\ Has(Act("driver"), "driver")
         /\ Stretch(Act("audio"), order, 10, 10) /\ Has(Act("audio"), "audio")
<1>1. Stretch(Act("mkdir"), order, 3, 3) /\ Has(Act("mkdir"), "mkdir")
  <2>1. Rank("mkdir", order) = 3
    BY Ranks
  <2>2. "mkdir" \in Plain /\ 3 \in Nat
    BY DEF Plain
  <2> QED
    BY <2>1, <2>2, ActStretch
<1>2. Stretch(Act("sizes"), order, 5, 5) /\ Has(Act("sizes"), "sizes")
  <2>1. Rank("sizes", order) = 5
    BY Ranks
  <2>2. "sizes" \in Plain /\ 5 \in Nat
    BY DEF Plain
  <2> QED
    BY <2>1, <2>2, ActStretch
<1>3. Stretch(Act("driver"), order, 8, 8) /\ Has(Act("driver"), "driver")
  <2>1. Rank("driver", order) = 8
    BY Ranks
  <2>2. "driver" \in Plain /\ 8 \in Nat
    BY DEF Plain
  <2> QED
    BY <2>1, <2>2, ActStretch
<1>4. Stretch(Act("audio"), order, 10, 10) /\ Has(Act("audio"), "audio")
  <2>1. Rank("audio", order) = 10
    BY Ranks
  <2>2. "audio" \in Plain /\ 10 \in Nat
    BY DEF Plain
  <2> QED
    BY <2>1, <2>2, ActStretch
<1> QED
  BY <1>1, <1>2, <1>3, <1>4

\* The same, one step further into a plan.
LEMMA Further ==
  ASSUME NEW order \in Orders, NEW s, NEW t, NEW b \in 0 .. 13, NEW c \in 0 .. 13,
         NEW d \in 0 .. 13, Stretch(s, order, 0, b), Stretch(t, order, c, d), b <= c, c <= d
  PROVE  Stretch(s \o t, order, 0, d)
<1>1. 0 \in Nat /\ b \in Nat /\ c \in Nat /\ d \in Nat /\ 0 <= b
  OBVIOUS
<1> QED
  BY <1>1, JoinStretch

\* The numbers the places of a plan are compared by.
LEMMA Places ==
  /\ 0 \in 0 .. 13 /\ 1 \in 0 .. 13 /\ 2 \in 0 .. 13 /\ 3 \in 0 .. 13 /\ 4 \in 0 .. 13
  /\ 5 \in 0 .. 13 /\ 6 \in 0 .. 13 /\ 7 \in 0 .. 13 /\ 8 \in 0 .. 13 /\ 9 \in 0 .. 13
  /\ 10 \in 0 .. 13 /\ 11 \in 0 .. 13 /\ 13 \in 0 .. 13
  /\ 0 <= 1 /\ 1 <= 2 /\ 2 <= 3 /\ 3 <= 3 /\ 3 <= 4 /\ 4 <= 4 /\ 4 <= 5 /\ 5 <= 5 /\ 5 <= 6
  /\ 6 <= 7 /\ 7 <= 8 /\ 8 <= 8 /\ 8 <= 9 /\ 9 <= 9 /\ 9 <= 10 /\ 10 <= 10 /\ 10 <= 11
  /\ 11 <= 13
OBVIOUS

\* A plan from nothing: in order, and with every action that a plan can do without only when
\* it can.
LEMMA FullStretch ==
  ASSUME HostTyped, NEW order \in Orders, order = "stop first" <=> QuiesceFirst
  PROVE  /\ Stretch(Full, order, 0, 13)
         /\ Has(Full, "mkdir") /\ Has(Full, "copy") /\ Has(Full, "sizes")
         /\ Has(Full, "install") /\ Has(Full, "audio") /\ Has(Full, "record")
         /\ DriverCurrent \/ Has(Full, "driver")
         /\ order = "stop first" => service = None \/ Has(Full, "quiesced")
<1> DEFINE i == [do |-> "install", display |-> EffectiveDisplay]
           A == Cable
           B == IF QuiesceFirst THEN Quiesce ELSE <<>>
           C == Act("mkdir")
           D == Copies
           E == Act("sizes")
           F == IF ~QuiesceFirst THEN Quiesce ELSE <<>>
           G == IF ~DriverCurrent THEN Act("driver") ELSE <<>>
           H == <<i>>
           I == Act("audio")
           J == Verify
<1>1. Full = A \o B \o C \o D \o E \o F \o G \o H \o I \o J
  BY DEF Full
<1>2. 1 \in Nat /\ 2 \in Nat /\ 6 \in Nat /\ 7 \in Nat /\ 8 \in Nat /\ 9 \in Nat
  OBVIOUS
<1>3. Rank("install", order) = 9
  BY Ranks
<1>a. Stretch(A, order, 0, 0)
  BY CableStretch
<1>b. Stretch(B, order, 1, 2) /\ (QuiesceFirst => B = Quiesce)
  <2>1. CASE order = "stop first"
    BY <2>1, QuiesceStretch
  <2>2. CASE order # "stop first"
    BY <1>2, <2>2, NoStretch
  <2> QED
    BY <2>1, <2>2
<1>c. Stretch(C, order, 3, 3) /\ Has(C, "mkdir")
  BY PlainStretches
<1>d. Stretch(D, order, 4, 4) /\ Has(D, "copy")
  BY CopiesStretch
<1>e. Stretch(E, order, 5, 5) /\ Has(E, "sizes")
  BY PlainStretches
<1>f. Stretch(F, order, 6, 7)
  <2>1. CASE order = "stop first"
    BY <1>2, <2>1, NoStretch
  <2>2. CASE order # "stop first"
    <3>1. order = "copy first"
      BY <2>2 DEF Orders
    <3> QED
      BY <2>2, <3>1, QuiesceStretch
  <2> QED
    BY <2>1, <2>2
<1>g. Stretch(G, order, 8, 8) /\ (DriverCurrent \/ Has(G, "driver"))
  <2>1. CASE DriverCurrent
    BY <1>2, <2>1, NoStretch
  <2>2. CASE ~DriverCurrent
    BY <2>2, PlainStretches
  <2> QED
    BY <2>1, <2>2
<1>h. Stretch(H, order, 9, 9) /\ Has(H, "install")
  <2>1. i \in Acts /\ i.do = "install" /\ i.display = EffectiveDisplay
    BY ReadTypes DEF Acts
  <2> HIDE DEF i
  <2>2. Rank(i.do, order) = 9
    BY <1>3, <2>1
  <2> QED
    BY <1>2, <2>1, <2>2, OneStretch
<1>i. Stretch(I, order, 10, 10) /\ Has(I, "audio")
  BY PlainStretches
<1>j. Stretch(J, order, 11, 13) /\ Has(J, "record")
  BY VerifyStretch
<1> HIDE DEF A, B, C, D, E, F, G, H, I, J
<1> DEFINE S2 == A \o B
           S3 == S2 \o C
           S4 == S3 \o D
           S5 == S4 \o E
           S6 == S5 \o F
           S7 == S6 \o G
           S8 == S7 \o H
           S9 == S8 \o I
           S10 == S9 \o J
<1>5. Full = S10
  BY <1>1
<1>6. Stretch(S2, order, 0, 2)
  BY <1>a, <1>b, Places, Further
<1> HIDE DEF S2
<1>7. Stretch(S3, order, 0, 3)
  BY <1>6, <1>c, Places, Further
<1> HIDE DEF S3
<1>8. Stretch(S4, order, 0, 4)
  BY <1>7, <1>d, Places, Further
<1> HIDE DEF S4
<1>9. Stretch(S5, order, 0, 5)
  BY <1>8, <1>e, Places, Further
<1> HIDE DEF S5
<1>10. Stretch(S6, order, 0, 7)
  BY <1>9, <1>f, Places, Further
<1> HIDE DEF S6
<1>11. Stretch(S7, order, 0, 8)
  BY <1>10, <1>g, Places, Further
<1> HIDE DEF S7
<1>12. Stretch(S8, order, 0, 9)
  BY <1>11, <1>h, Places, Further
<1> HIDE DEF S8
<1>13. Stretch(S9, order, 0, 10)
  BY <1>12, <1>i, Places, Further
<1> HIDE DEF S9
<1>14. Stretch(S10, order, 0, 13)
  BY <1>13, <1>j, Places, Further
<1>15. /\ \A k : Has(S2, k) <=> Has(A, k) \/ Has(B, k)
       /\ \A k : Has(S3, k) <=> Has(S2, k) \/ Has(C, k)
       /\ \A k : Has(S4, k) <=> Has(S3, k) \/ Has(D, k)
       /\ \A k : Has(S5, k) <=> Has(S4, k) \/ Has(E, k)
       /\ \A k : Has(S6, k) <=> Has(S5, k) \/ Has(F, k)
       /\ \A k : Has(S7, k) <=> Has(S6, k) \/ Has(G, k)
       /\ \A k : Has(S8, k) <=> Has(S7, k) \/ Has(H, k)
       /\ \A k : Has(S9, k) <=> Has(S8, k) \/ Has(I, k)
       /\ \A k : Has(S10, k) <=> Has(S9, k) \/ Has(J, k)
  <2>1. /\ A \in Seq(Acts) /\ B \in Seq(Acts) /\ C \in Seq(Acts) /\ D \in Seq(Acts)
        /\ E \in Seq(Acts) /\ F \in Seq(Acts) /\ G \in Seq(Acts) /\ H \in Seq(Acts)
        /\ I \in Seq(Acts) /\ J \in Seq(Acts)
    BY <1>a, <1>b, <1>c, <1>d, <1>e, <1>f, <1>g, <1>h, <1>i, <1>j DEF Stretch
  <2>2. /\ S2 \in Seq(Acts) /\ S3 \in Seq(Acts) /\ S4 \in Seq(Acts) /\ S5 \in Seq(Acts)
        /\ S6 \in Seq(Acts) /\ S7 \in Seq(Acts) /\ S8 \in Seq(Acts) /\ S9 \in Seq(Acts)
    BY <1>6, <1>7, <1>8, <1>9, <1>10, <1>11, <1>12, <1>13 DEF Stretch
  <2>3. \A k : Has(S2, k) <=> Has(A, k) \/ Has(B, k)
    BY <2>1, HasJoin DEF S2
  <2>4. \A k : Has(S3, k) <=> Has(S2, k) \/ Has(C, k)
    BY <2>1, <2>2, HasJoin DEF S3
  <2>5. \A k : Has(S4, k) <=> Has(S3, k) \/ Has(D, k)
    BY <2>1, <2>2, HasJoin DEF S4
  <2>6. \A k : Has(S5, k) <=> Has(S4, k) \/ Has(E, k)
    BY <2>1, <2>2, HasJoin DEF S5
  <2>7. \A k : Has(S6, k) <=> Has(S5, k) \/ Has(F, k)
    BY <2>1, <2>2, HasJoin DEF S6
  <2>8. \A k : Has(S7, k) <=> Has(S6, k) \/ Has(G, k)
    BY <2>1, <2>2, HasJoin DEF S7
  <2>9. \A k : Has(S8, k) <=> Has(S7, k) \/ Has(H, k)
    BY <2>1, <2>2, HasJoin DEF S8
  <2>10. \A k : Has(S9, k) <=> Has(S8, k) \/ Has(I, k)
    BY <2>1, <2>2, HasJoin DEF S9
  <2>11. \A k : Has(S10, k) <=> Has(S9, k) \/ Has(J, k)
    BY <2>1, <2>2, HasJoin
  <2> QED
    BY <2>3, <2>4, <2>5, <2>6, <2>7, <2>8, <2>9, <2>10, <2>11
<1> HIDE DEF S10
<1>16. Has(S10, "mkdir") /\ Has(S10, "copy") /\ Has(S10, "sizes")
  BY <1>15, <1>c, <1>d, <1>e
<1>17. Has(S10, "install") /\ Has(S10, "audio") /\ Has(S10, "record")
       /\ (DriverCurrent \/ Has(S10, "driver"))
  BY <1>15, <1>g, <1>h, <1>i, <1>j
<1>18. order = "stop first" => service = None \/ Has(S10, "quiesced")
  BY <1>15, <1>b, QuiesceStretch
<1> QED
  BY <1>5, <1>14, <1>16, <1>17, <1>18

\* A plan for a stack that is in place already: the audio at most, and the last checks.
LEMMA ShortStretch ==
  ASSUME NEW order \in Orders
  PROVE  /\ Stretch(Cable \o Act("audio") \o Verify, order, 0, 13)
         /\ Has(Cable \o Act("audio") \o Verify, "audio")
         /\ Has(Cable \o Act("audio") \o Verify, "record")
         /\ \A k : Has(Cable \o Act("audio") \o Verify, k) =>
              k \in {"cable", "audio", "verify", "driver status", "record"}
<1> DEFINE A == Act("audio")
           S2 == Cable \o A
           S3 == S2 \o Verify
<1>1. Stretch(Cable, order, 0, 0) /\ \A k : Has(Cable, k) => k = "cable"
  BY CableStretch
<1>2. Stretch(A, order, 10, 10) /\ \A k : Has(A, k) <=> k = "audio"
  <2>1. Rank("audio", order) = 10
    BY Ranks
  <2>2. "audio" \in Plain /\ 10 \in Nat
    BY DEF Plain
  <2> QED
    BY <2>1, <2>2, ActStretch
<1>3. /\ Stretch(Verify, order, 11, 13)
      /\ \A k : Has(Verify, k) <=> k \in {"verify", "driver status", "record"}
  BY VerifyStretch
<1>4. 0 \in Nat /\ 10 \in Nat /\ 11 \in Nat /\ 13 \in Nat
  OBVIOUS
<1>5. 0 <= 0 /\ 0 <= 10 /\ 10 <= 10 /\ 10 <= 11 /\ 11 <= 13
  OBVIOUS
<1> HIDE DEF A
<1>6. Stretch(S2, order, 0, 10)
  BY <1>1, <1>2, <1>4, <1>5, JoinStretch
<1>7. \A k : Has(S2, k) <=> Has(Cable, k) \/ Has(A, k)
  <2>1. Cable \in Seq(Acts) /\ A \in Seq(Acts)
    BY <1>1, <1>2 DEF Stretch
  <2> QED
    BY <2>1, HasJoin
<1> HIDE DEF S2
<1>8. Stretch(S3, order, 0, 13)
  BY <1>3, <1>4, <1>5, <1>6, JoinStretch
<1>9. \A k : Has(S3, k) <=> Has(S2, k) \/ Has(Verify, k)
  <2>1. S2 \in Seq(Acts) /\ Verify \in Seq(Acts)
    BY <1>3, <1>6 DEF Stretch
  <2> QED
    BY <2>1, HasJoin
<1> HIDE DEF S3
<1>10. \A k : Has(S3, k) => k \in {"cable", "audio", "verify", "driver status", "record"}
  BY <1>1, <1>2, <1>3, <1>7, <1>9
<1>11. Has(S3, "audio") /\ Has(S3, "record")
  BY <1>2, <1>3, <1>7, <1>9
<1> QED
  BY <1>8, <1>10, <1>11 DEF S3, S2, A

\* The plan of a run that starts in a good state is good.
LEMMA Decided ==
  ASSUME IInv
  PROVE  /\ \E order \in Orders :
              /\ Stretch(Decision, order, 0, 13)
              /\ Has(Decision, "copy") /\ ~(order = "stop first" /\ Has(Decision, "quiesced"))
                   => Clear
         /\ Closed(Decision) /\ Decision # <<>> /\ Done(Decision)
<1>1. HostTyped /\ HostInv
  BY DEF IInv
<1>2. \A p, k : Has(p, k) => p # <<>>
  BY DEF Has
<1>3. DriverCurrent => ships \in staged /\ bound \in {0, ships}
  BY <1>1 DEF DriverCurrent, HostInv, HostTyped
<1>4. CASE ~ExactStack
  <2>1. Decision = Full
    BY <1>4 DEF Decision
  <2>2. PICK order \in Orders : order = "stop first" <=> QuiesceFirst
    BY DEF Orders
  <2>3. /\ Stretch(Full, order, 0, 13)
        /\ Has(Full, "mkdir") /\ Has(Full, "copy") /\ Has(Full, "sizes")
        /\ Has(Full, "install") /\ Has(Full, "audio") /\ Has(Full, "record")
        /\ DriverCurrent \/ Has(Full, "driver")
        /\ order = "stop first" => service = None \/ Has(Full, "quiesced")
    BY <1>1, <2>2, FullStretch
  <2>4. ~QuiesceFirst => Clear
    BY <1>1 DEF QuiesceFirst, Clear, HostInv
  <2>5. ~(order = "stop first" /\ Has(Full, "quiesced")) => Clear
    BY <2>2, <2>3, <2>4 DEF Clear
  <2>6. Closed(Full) /\ Full # <<>>
    BY <1>2, <2>3 DEF Closed
  <2>7. Done(Full)
    BY <1>3, <2>3 DEF Done
  <2> QED
    BY <2>1, <2>3, <2>5, <2>6, <2>7
<1>5. CASE ExactStack
  <2>1. /\ New \in made /\ ships \in staged /\ \A f \in File : files[New][f] = "right"
        /\ service # None /\ service.version = New /\ bound \in {0, ships}
    BY <1>1, <1>3, <1>5 DEF ExactStack, HostInv
  <2>2. PICK order \in Orders : TRUE
    BY DEF Orders
  <2>3. CASE cable = "active" /\ AudioHealthy
    <3>1. Decision = Verify
      BY <1>5, <2>3 DEF Decision
    <3>2. /\ Stretch(Verify, order, 0, 13)
          /\ \A k : Has(Verify, k) <=> k \in {"verify", "driver status", "record"}
      <4>1. Stretch(Verify, order, 11, 13)
            /\ \A k : Has(Verify, k) <=> k \in {"verify", "driver status", "record"}
        BY VerifyStretch
      <4>2. \A r : 11 <= r /\ r \in 0 .. 13 => 0 <= r
        OBVIOUS
      <4>3. \A i \in 1 .. Len(Verify) : Rank(Verify[i].do, order) \in 0 .. 13
        <5> TAKE i \in 1 .. Len(Verify)
        <5>1. Verify \in Seq(Acts)
          BY <4>1 DEF Stretch
        <5>2. Verify[i].do \in Kinds
          BY <5>1, JoinParts, ActKinds
        <5> QED
          BY <5>2, RankRange
      <4> QED
        BY <4>1, <4>2, <4>3 DEF Stretch
    <3>3. /\ Has(Verify, "record") /\ ~Has(Verify, "copy") /\ ~Has(Verify, "uninstall")
          /\ ~Has(Verify, "driver")
      <4>1. /\ "record" \in {"verify", "driver status", "record"}
            /\ "copy" \notin {"verify", "driver status", "record"}
            /\ "uninstall" \notin {"verify", "driver status", "record"}
            /\ "driver" \notin {"verify", "driver status", "record"}
        OBVIOUS
      <4> QED
        BY <3>2, <4>1
    <3>4. Closed(Verify) /\ Verify # <<>>
      BY <1>2, <3>3 DEF Closed
    <3>5. Done(Verify)
      BY <2>1, <2>3 DEF Done, AudioHealthy
    <3> QED
      BY <2>2, <3>1, <3>2, <3>3, <3>4, <3>5
  <2>4. CASE ~(cable = "active" /\ AudioHealthy)
    <3> DEFINE S == Cable \o Act("audio") \o Verify
    <3>1. Decision = S
      BY <1>5, <2>4 DEF Decision
    <3>2. /\ Stretch(S, order, 0, 13) /\ Has(S, "audio") /\ Has(S, "record")
          /\ \A k : Has(S, k) => k \in {"cable", "audio", "verify", "driver status", "record"}
      BY ShortStretch
    <3> HIDE DEF S
    <3>3. ~Has(S, "copy") /\ ~Has(S, "uninstall") /\ ~Has(S, "driver")
      <4>1. /\ "copy" \notin {"cable", "audio", "verify", "driver status", "record"}
            /\ "uninstall" \notin {"cable", "audio", "verify", "driver status", "record"}
            /\ "driver" \notin {"cable", "audio", "verify", "driver status", "record"}
        OBVIOUS
      <4> QED
        BY <3>2, <4>1
    <3>4. Closed(S) /\ S # <<>>
      BY <1>2, <3>2, <3>3 DEF Closed
    <3>5. Done(S)
      BY <2>1, <3>2 DEF Done
    <3> QED
      BY <3>1, <3>2, <3>3, <3>4, <3>5
  <2> QED
    BY <2>3, <2>4
<1> QED
  BY <1>4, <1>5

-----------------------------------------------------------------------------
(* Ways a step can leave the plan.                                         *)

\* The operator starts a run.
LEMMA StartKeeps ==
  ASSUME IInv, NEW force \in BOOLEAN, Start(force)
  PROVE  IInv'
<1>1. HostTyped /\ RunTyped /\ HistoryTyped /\ HostInv /\ PlanInv /\ DoneInv /\ DisplayInv
  BY DEF IInv
<1>2. /\ ~running /\ ~success /\ running' = TRUE /\ plan' = Decision
      /\ expected' = EffectiveDisplay /\ success' = success
      /\ UNCHANGED <<hostVars, ships, history>>
  BY DEF Start
<1>3. /\ \E order \in Orders :
           /\ Stretch(Decision, order, 0, 13)
           /\ Has(Decision, "copy") /\ ~(order = "stop first" /\ Has(Decision, "quiesced"))
                => Clear
      /\ Closed(Decision) /\ Decision # <<>> /\ Done(Decision)
  BY Decided
<1>4. HostTyped' /\ HostInv'
  BY <1>1, <1>2 DEF HostTyped, HostInv, hostVars
<1>5. RunTyped'
  BY <1>1, <1>2, <1>3, ReadTypes DEF RunTyped
<1>6. HistoryTyped'
  BY <1>1, <1>2 DEF HistoryTyped, history
<1>7. PlanInv'
  <2>1. PICK order \in Orders :
           /\ Stretch(Decision, order, 0, 13)
           /\ Has(Decision, "copy") /\ ~(order = "stop first" /\ Has(Decision, "quiesced"))
                => Clear
    BY <1>3
  <2>2. Decision \in Seq(Acts) /\ Ordered(Decision, order)
    BY <2>1 DEF Stretch
  <2>3. Clear' = Clear
    BY <1>2 DEF Clear, hostVars
  <2> QED
    BY <1>2, <1>3, <2>1, <2>2, <2>3 DEF PlanInv
<1>8. DoneInv'
  BY <1>2, <1>3 DEF DoneInv, Done, hostVars
<1>9. DisplayInv'
  <2>1. lost \/ EffectiveDisplay = wish
    BY <1>1, <1>2 DEF DisplayInv
  <2>2. \A i \in 1 .. Len(Decision) :
          Decision[i].do = "install" => Decision[i].display = EffectiveDisplay
    BY <1>3 DEF Stretch
  <2>3. lost' = lost /\ wish' = wish
    BY <1>2 DEF history
  <2> QED
    BY <1>2, <2>1, <2>2, <2>3 DEF DisplayInv
<1> QED
  BY <1>4, <1>5, <1>6, <1>7, <1>8, <1>9 DEF IInv

\* Without a run there is nothing to ask of the plan.
LEMMA EmptyPlan ==
  ASSUME plan' = <<>>
  PROVE  PlanInv'
<1>1. \A k : ~Has(<<>>, k)
  BY DEF Has
<1>2. plan' \in Seq(Acts) /\ Closed(plan')
  BY <1>1 DEF Closed
<1>3. \A order \in Orders : Ordered(plan', order)
  BY DEF Ordered
<1>4. \E order \in Orders : TRUE
  BY DEF Orders
<1> QED
  BY <1>1, <1>2, <1>3, <1>4 DEF PlanInv

\* A run stops: the next one reads the policy in force.
LEMMA StopsKeeps ==
  ASSUME IInv, HostTyped', HostInv', breaks' \in 0 .. MaxBreaks, plan' = <<>>, running' = FALSE,
         lost' \in BOOLEAN, service' = None => lost' \/ success' \/ EffectiveDisplay' = wish',
         WishAfter, expected' = expected, success' = success
  PROVE  IInv'
<1>1. HostTyped /\ RunTyped /\ HistoryTyped
  BY DEF IInv
<1>2. RunTyped'
  BY <1>1 DEF RunTyped
<1>3. service' = None => worker' = None
  BY DEF HostInv
<1>4. /\ service' = None => wish' = wish
      /\ service' # None /\ worker' # None => wish' = worker'.display
      /\ service' # None /\ worker' = None => wish' = service'.display
  BY <1>3 DEF WishAfter
<1>5. wish' \in Policies
  BY <1>1, <1>3, <1>4 DEF HostTyped, HistoryTyped
<1>6. HistoryTyped'
  BY <1>5 DEF HistoryTyped
<1>8. PlanInv'
  BY EmptyPlan
<1>9. DoneInv'
  BY DEF DoneInv
<1>10. DisplayInv'
  <2>1. CASE service' = None
    BY <1>4, <2>1 DEF DisplayInv
  <2>2. CASE service' # None
    <3>1. EffectiveDisplay' = wish'
      BY <1>4, <2>2 DEF EffectiveDisplay, HostInv
    <3> QED
      BY <3>1 DEF DisplayInv
  <2> QED
    BY <2>1, <2>2
<1> QED
  BY <1>2, <1>6, <1>8, <1>9, <1>10 DEF IInv

\* A run under way: its plan, and what is no longer in it, by its head.
LEMMA RunPlan ==
  ASSUME IInv, running
  PROVE  /\ plan \in Seq(Acts) /\ plan # <<>> /\ Head(plan) \in Acts
         /\ Tail(plan) \in Seq(Acts) /\ Closed(Tail(plan))
         /\ \A k : Has(plan, k) <=> Head(plan).do = k \/ Has(Tail(plan), k)
         /\ Done(plan)
<1>1. RunTyped /\ PlanInv /\ DoneInv
  BY DEF IInv
<1>2. plan \in Seq(Acts) /\ plan # <<>>
  BY <1>1 DEF RunTyped, PlanInv
<1>3. Head(plan) \in Acts /\ Tail(plan) \in Seq(Acts)
  BY <1>2, TailParts
<1>4. \A k : Has(plan, k) <=> Head(plan).do = k \/ Has(Tail(plan), k)
  BY <1>2, TailHas
<1>5. Closed(Tail(plan))
  BY <1>1, <1>2, ClosedTail DEF PlanInv
<1>6. Done(plan)
  BY <1>1 DEF DoneInv
<1> QED
  BY <1>2, <1>3, <1>4, <1>5, <1>6

\* What is no longer in the plan, or still is, once a given action is its head.
LEMMA Gone ==
  ASSUME IInv, running
  PROVE  /\ Head(plan).do = "install" => ~Has(plan, "mkdir") /\ ~Has(plan, "copy")
         /\ Head(plan).do = "audio" => ~Has(plan, "mkdir")
         /\ Head(plan).do = "record" => /\ ~Has(plan, "mkdir") /\ ~Has(plan, "sizes")
                                        /\ ~Has(plan, "driver") /\ ~Has(plan, "install")
                                        /\ ~Has(plan, "audio")
         /\ Head(plan).do = "copy" => Has(Tail(plan), "sizes") /\ Clear
         /\ Head(plan).do = "uninstall" => Has(Tail(plan), "install")
<1>1. /\ plan \in Seq(Acts) /\ plan # <<>> /\ Closed(plan)
      /\ \A k : Has(plan, k) <=> Head(plan).do = k \/ Has(Tail(plan), k)
  BY RunPlan DEF IInv, PlanInv
<1>2. PICK order \in Orders :
         /\ Ordered(plan, order)
         /\ Has(plan, "copy") /\ ~(order = "stop first" /\ Has(plan, "quiesced")) => Clear
  BY DEF IInv, PlanInv
<1>3. /\ Rank("mkdir", order) = 3 /\ Rank("copy", order) = 4 /\ Rank("sizes", order) = 5
      /\ Rank("driver", order) = 8 /\ Rank("install", order) = 9 /\ Rank("audio", order) = 10
      /\ Rank("record", order) = 13
  BY Ranks
<1>4. /\ Rank("mkdir", order) < Rank("install", order)
      /\ Rank("copy", order) < Rank("install", order)
      /\ Rank("mkdir", order) < Rank("audio", order)
      /\ Rank("mkdir", order) < Rank("record", order)
      /\ Rank("sizes", order) < Rank("record", order)
      /\ Rank("driver", order) < Rank("record", order)
      /\ Rank("install", order) < Rank("record", order)
      /\ Rank("audio", order) < Rank("record", order)
  BY <1>3
<1>5. /\ "mkdir" \in Kinds /\ "copy" \in Kinds /\ "sizes" \in Kinds /\ "driver" \in Kinds
      /\ "install" \in Kinds /\ "audio" \in Kinds /\ "quiesced" \in Kinds
  BY DEF Kinds, Plain
<1>6. \A x \in Kinds : Rank(x, order) < Rank(Head(plan).do, order) => ~Has(plan, x)
  BY <1>1, <1>2, GoneBefore
<1>7. Head(plan).do = "install" => ~Has(plan, "mkdir") /\ ~Has(plan, "copy")
  BY <1>4, <1>5, <1>6
<1>8. Head(plan).do = "audio" => ~Has(plan, "mkdir")
  BY <1>4, <1>5, <1>6
<1>9. Head(plan).do = "record" => /\ ~Has(plan, "mkdir") /\ ~Has(plan, "sizes")
                                  /\ ~Has(plan, "driver") /\ ~Has(plan, "install")
                                  /\ ~Has(plan, "audio")
  BY <1>4, <1>5, <1>6
<1>10. ASSUME Head(plan).do = "copy" PROVE Has(Tail(plan), "sizes") /\ Clear
  <2>1. Has(Tail(plan), "sizes")
    BY <1>1, <1>10 DEF Closed
  <2>2. ASSUME order = "stop first" PROVE ~Has(plan, "quiesced")
    <3>1. Rank("quiesced", order) = 2
      BY <2>2, Ranks
    <3>2. Rank("quiesced", order) < Rank("copy", order)
      BY <1>3, <3>1
    <3> QED
      BY <1>5, <1>6, <1>10, <3>2
  <2> QED
    BY <1>1, <1>2, <1>10, <2>1, <2>2
<1>11. ASSUME Head(plan).do = "uninstall" PROVE Has(Tail(plan), "install")
  BY <1>1, <1>11 DEF Closed
<1> QED
  BY <1>7, <1>8, <1>9, <1>10, <1>11

\* A run takes a step and has the rest of its plan to do.
LEMMA TailKeeps ==
  ASSUME IInv, running, Head(plan).do # "record",
         plan' = Tail(plan), running' = (Tail(plan) # <<>>), ships' = ships,
         expected' = expected, success' = success, wish' = wish, lost' = lost,
         breaks' \in 0 .. MaxBreaks, HostTyped', HostInv', DoneInv',
         Has(Tail(plan), "copy") /\ Clear => Clear', Head(plan).do = "quiesced" => Clear'
  PROVE  IInv'
<1>1. RunTyped /\ HistoryTyped /\ PlanInv /\ DisplayInv
  BY DEF IInv
<1>2. /\ plan \in Seq(Acts) /\ plan # <<>>
      /\ Tail(plan) \in Seq(Acts) /\ Closed(Tail(plan))
      /\ \A k : Has(plan, k) <=> Head(plan).do = k \/ Has(Tail(plan), k)
  BY RunPlan
<1>3. Tail(plan) # <<>>
  <2>1. Has(Tail(plan), "record")
    BY <1>1, <1>2 DEF PlanInv, Closed
  <2>2. \A p, k : Has(p, k) => p # <<>>
    BY DEF Has
  <2> QED
    BY <2>1, <2>2
<1>4. RunTyped' /\ HistoryTyped'
  <2>1. RunTyped'
    BY <1>1, <1>3 DEF RunTyped
  <2>2. HistoryTyped'
    BY <1>1 DEF HistoryTyped
  <2> QED
    BY <2>1, <2>2
<1>5. PlanInv'
  <2>1. PICK order \in Orders :
           /\ Ordered(plan, order)
           /\ Has(plan, "copy") /\ ~(order = "stop first" /\ Has(plan, "quiesced")) => Clear
    BY <1>1 DEF PlanInv
  <2>2. Ordered(Tail(plan), order)
    BY <1>2, <2>1, OrderedTail
  <2>3. Has(Tail(plan), "copy") /\ ~(order = "stop first" /\ Has(Tail(plan), "quiesced"))
          => Clear'
    <3> SUFFICES ASSUME Has(Tail(plan), "copy"),
                        ~(order = "stop first" /\ Has(Tail(plan), "quiesced"))
                 PROVE  Clear'
      OBVIOUS
    <3>1. CASE Head(plan).do = "quiesced"
      BY <3>1
    <3>2. CASE Head(plan).do # "quiesced"
      <4>1. Clear
        BY <1>2, <2>1, <3>2
      <4> QED
        BY <4>1
    <3> QED
      BY <3>1, <3>2
  <2> QED
    BY <1>2, <2>2, <2>3 DEF PlanInv
<1>7. DisplayInv'
  <2>1. \A i \in 1 .. Len(Tail(plan)) :
          Tail(plan)[i].do = "install" => lost \/ Tail(plan)[i].display = wish
    <3> TAKE i \in 1 .. Len(Tail(plan))
    <3>1. i + 1 \in 1 .. Len(plan) /\ Tail(plan)[i] = plan[i + 1]
      BY <1>2, TailParts
    <3> QED
      BY <1>1, <3>1 DEF DisplayInv
  <2> QED
    BY <1>3, <2>1 DEF DisplayInv
<1> QED
  BY <1>4, <1>5, <1>7 DEF IInv

\* The host moves on while no run acts on it.
LEMMA HostKeeps ==
  ASSUME IInv, UNCHANGED runVars, lost' = lost, breaks' \in 0 .. MaxBreaks, wish' \in Policies,
         HostTyped', HostInv', DoneInv', Clear => Clear', running => wish' = wish,
         ~running /\ ~success => lost \/ EffectiveDisplay' = wish'
  PROVE  IInv'
<1>1. RunTyped /\ HistoryTyped /\ PlanInv /\ DisplayInv
  BY DEF IInv
<1>2. plan' = plan /\ running' = running /\ success' = success /\ expected' = expected
  BY DEF runVars
<1>3. RunTyped' /\ HistoryTyped'
  <2>1. RunTyped'
    BY <1>1, <1>2 DEF RunTyped
  <2>2. HistoryTyped'
    BY <1>1 DEF HistoryTyped
  <2> QED
    BY <2>1, <2>2
<1>4. PlanInv'
  <2>1. PICK order \in Orders :
           /\ Ordered(plan, order)
           /\ Has(plan, "copy") /\ ~(order = "stop first" /\ Has(plan, "quiesced")) => Clear
    BY <1>1 DEF PlanInv
  <2>2. plan \in Seq(Acts) /\ Closed(plan)
    BY <1>1 DEF PlanInv
  <2> QED
    BY <1>2, <2>1, <2>2 DEF PlanInv
<1>5. DisplayInv'
  <2>1. \A i \in 1 .. Len(plan) : plan[i].do = "install" => lost \/ plan[i].display = wish'
    <3>1. CASE running
      BY <1>1, <3>1 DEF DisplayInv
    <3>2. CASE ~running
      <4>1. plan = <<>>
        BY <1>1, <3>2 DEF RunTyped
      <4> QED
        BY <4>1
    <3> QED
      BY <3>1, <3>2
  <2> QED
    BY <1>2, <2>1 DEF DisplayInv
<1> QED
  BY <1>3, <1>4, <1>5 DEF IInv

-----------------------------------------------------------------------------
(* The steps of a run.                                                     *)

\* A copied file is a file.
LEMMA LandsTyped ==
  ASSUME HostTyped, NEW f \in File, NEW content \in {"right", "torn"}, Lands(f, content)
  PROVE  files' \in [Layouts -> [File -> {"none", "torn", "stale", "right"}]]
BY DEF HostTyped, Lands, Layouts

\* The service that an install registers.
LEMMA InstalledService ==
  ASSUME NEW d \in Policies, NEW runs \in BOOLEAN, Installed(d, runs)
  PROVE  /\ service' \in [version : Layouts, display : Policies, runs : BOOLEAN]
         /\ service' # None /\ service'.version = New /\ service'.display = d
         /\ worker' = None /\ bound' = 0
<1>1. New \in Layouts
  BY DEF Layouts
<1>2. service' = [version |-> New, display |-> d, runs |-> runs]
  BY DEF Installed
<1>3. service' \in [version : Layouts, display : Policies, runs : BOOLEAN]
  BY <1>1, <1>2
<1>4. service'.version = New /\ service'.display = d
  BY <1>2
<1>5. service' # None
  BY <1>4 DEF New, None
<1>6. worker' = None /\ bound' = 0
  BY DEF Installed, Quiet
<1> QED
  BY <1>3, <1>4, <1>5, <1>6

\* What a step leaves of the plan: nothing new is missing but its own action.
LEMMA DoneTail ==
  ASSUME IInv, running, plan' = Tail(plan),
         Head(plan).do = "mkdir" \/ New \in made => New \in made',
         Has(Tail(plan), "sizes") \/ /\ Head(plan).do # "sizes" /\ files' = files
                                  \/ \A f \in File : files'[New][f] = "right",
         Head(plan).do = "driver" \/ ships \in staged => ships' \in staged',
         \/ Has(Tail(plan), "install")
         \/ Head(plan).do # "install" /\ service' = service /\ bound' = bound
            /\ ships' = ships
         \/ service' # None /\ service'.version = New /\ bound' \in {0, ships'},
         \/ Head(plan).do # "audio" /\ formats' = formats /\ source' = source
         \/ formats' /\ New \in source'
  PROVE  DoneInv'
<1>1. /\ \A k : Has(plan, k) <=> Head(plan).do = k \/ Has(Tail(plan), k)
      /\ Done(plan)
  BY RunPlan
<1>2. ~Has(Tail(plan), "mkdir") => New \in made'
  BY <1>1 DEF Done
<1>3. ~Has(Tail(plan), "sizes") => \A f \in File : files'[New][f] = "right"
  BY <1>1 DEF Done
<1>4. ~Has(Tail(plan), "driver") => ships' \in staged'
  BY <1>1 DEF Done
<1>5. ~Has(Tail(plan), "install") => /\ service' # None /\ service'.version = New
                                     /\ bound' \in {0, ships'}
  BY <1>1 DEF Done
<1>6. ~Has(Tail(plan), "audio") => formats' /\ New \in source'
  BY <1>1 DEF Done
<1> QED
  BY <1>2, <1>3, <1>4, <1>5, <1>6 DEF DoneInv, Done

\* A step that proceeds keeps the invariant if the host it leaves is a good one.
LEMMA Proceeds ==
  ASSUME IInv, running, Head(plan).do # "record", Proceed, HostTyped', HostInv', DoneInv',
         Has(Tail(plan), "copy") /\ Clear => Clear', Head(plan).do = "quiesced" => Clear'
  PROVE  IInv'
<1>1. /\ plan' = Tail(plan) /\ running' = (Tail(plan) # <<>>) /\ ships' = ships
      /\ expected' = expected /\ success' = success /\ wish' = wish /\ lost' = lost
      /\ breaks' = breaks
  BY DEF Proceed, history
<1>2. breaks' \in 0 .. MaxBreaks
  BY <1>1 DEF IInv, HistoryTyped
<1> QED
  BY <1>1, <1>2, TailKeeps

\* A step that changes nothing of the host but what it checks.
LEMMA ChecksKeep ==
  ASSUME IInv, running, Head(plan).do \notin {"record", "mkdir", "driver", "install", "audio"},
         Proceed, UNCHANGED hostVars,
         Head(plan).do = "sizes" => \A f \in File : files[New][f] = "right",
         Head(plan).do = "quiesced" => service = None
  PROVE  IInv'
<1>1. HostTyped /\ HostInv
  BY DEF IInv
<1>2. /\ UNCHANGED <<files, made, service, worker, staged, bound, cable, formats, source>>
      /\ plan' = Tail(plan) /\ ships' = ships
  BY DEF Proceed, hostVars
<1>3. HostTyped' /\ HostInv'
  <2>1. HostTyped'
    BY <1>1, <1>2 DEF HostTyped
  <2>2. HostInv'
    BY <1>1, <1>2 DEF HostInv
  <2> QED
    BY <2>1, <2>2
<1>4. Clear' = Clear /\ (Head(plan).do = "quiesced" => Clear')
  BY <1>2 DEF Clear
<1>5. DoneInv'
  <2>1. /\ Head(plan).do # "driver" /\ Head(plan).do # "install" /\ Head(plan).do # "audio"
        /\ Head(plan).do # "mkdir" /\ Head(plan).do # "record"
    OBVIOUS
  <2>2. Has(Tail(plan), "sizes") \/ /\ Head(plan).do # "sizes" /\ files' = files
                                    \/ \A f \in File : files'[New][f] = "right"
    BY <1>2
  <2> QED
    BY <1>2, <2>1, <2>2, DoneTail
<1>6. Head(plan).do # "record"
  OBVIOUS
<1> QED
  BY <1>3, <1>4, <1>5, <1>6, Proceeds

\* Each step of a run keeps the invariant.
LEMMA InstallCableKeeps ==
  ASSUME IInv, InstallCable
  PROVE  IInv'
<1>1. HostTyped /\ HostInv /\ running /\ Head(plan).do = "cable" /\ Proceed
  BY DEF IInv, InstallCable, Now
<1>2. /\ UNCHANGED <<files, made, service, worker, staged, bound, formats, source>>
      /\ plan' = Tail(plan) /\ ships' = ships /\ cable' = "active"
  BY DEF InstallCable, Proceed
<1>3. HostTyped'
  BY <1>1, <1>2 DEF HostTyped
<1>4. HostInv'
  BY <1>1, <1>2 DEF HostInv
<1>5. Clear' = Clear
  BY <1>2 DEF Clear
<1>6. DoneInv'
  BY <1>1, <1>2, DoneTail
<1> QED
  BY <1>1, <1>3, <1>4, <1>5, <1>6, Proceeds

LEMMA UninstallKeeps ==
  ASSUME IInv, Uninstall
  PROVE  IInv'
<1>1. HostTyped /\ HostInv /\ running /\ Head(plan).do = "uninstall" /\ Proceed
  BY DEF IInv, Uninstall, Now
<1>2. /\ UNCHANGED <<files, made, staged, cable, formats, source>>
      /\ plan' = Tail(plan) /\ ships' = ships /\ Uninstalled(Head(plan).version)
  BY DEF Uninstall, Proceed
<1>3. \/ service' = service /\ worker' = worker /\ bound' = bound
      \/ service' = None /\ worker' = None /\ bound' = 0
  BY <1>2 DEF Uninstalled, Quiet
<1>4. HostTyped'
  <2>1. service' = None \/ service' \in [version : Layouts, display : Policies, runs : BOOLEAN]
    BY <1>1, <1>3 DEF HostTyped
  <2>2. worker' = None \/ worker' \in [version : Layouts, display : Policies, green : BOOLEAN]
    BY <1>1, <1>3 DEF HostTyped
  <2>3. bound' \in 0 .. 2
    BY <1>1, <1>3 DEF HostTyped
  <2> QED
    BY <1>1, <1>2, <2>1, <2>2, <2>3 DEF HostTyped
<1>5. HostInv'
  BY <1>1, <1>2, <1>3 DEF HostInv
<1>6. Clear => Clear'
  BY <1>3 DEF Clear
<1>7. DoneInv'
  <2>1. Has(Tail(plan), "install")
    BY <1>1, Gone
  <2> QED
    BY <1>1, <1>2, <2>1, DoneTail
<1> QED
  BY <1>1, <1>4, <1>5, <1>6, <1>7, Proceeds

LEMMA VerifyQuiescenceKeeps ==
  ASSUME IInv, VerifyQuiescence
  PROVE  IInv'
<1>1. /\ running /\ Head(plan).do = "quiesced" /\ Proceed /\ service = None
      /\ UNCHANGED hostVars
  BY DEF VerifyQuiescence, Now
<1> QED
  BY <1>1, ChecksKeep

LEMMA MakeDirectoryKeeps ==
  ASSUME IInv, MakeDirectory
  PROVE  IInv'
<1>1. HostTyped /\ HostInv /\ running /\ Head(plan).do = "mkdir" /\ Proceed
  BY DEF IInv, MakeDirectory, Now
<1>2. /\ UNCHANGED <<files, service, worker, staged, bound, cable, formats, source>>
      /\ plan' = Tail(plan) /\ ships' = ships /\ made' = made \cup {New}
  BY DEF MakeDirectory, Proceed
<1>3. HostTyped'
  BY <1>1, <1>2 DEF HostTyped, Layouts
<1>4. HostInv'
  BY <1>1, <1>2 DEF HostInv
<1>5. Clear' = Clear
  BY <1>2 DEF Clear
<1>6. DoneInv'
  BY <1>1, <1>2, DoneTail
<1> QED
  BY <1>1, <1>3, <1>4, <1>5, <1>6, Proceeds

LEMMA CopyKeeps ==
  ASSUME IInv, Copy
  PROVE  IInv'
<1>1. HostTyped /\ HostInv /\ running /\ Head(plan).do = "copy" /\ Proceed
  BY DEF IInv, Copy, Now
<1>2. /\ UNCHANGED <<made, service, worker, staged, bound, cable, formats, source>>
      /\ plan' = Tail(plan) /\ ships' = ships /\ Lands(Head(plan).file, "right")
  BY DEF Copy, Proceed
<1>3. HostTyped'
  <2>1. Head(plan).file \in File
    BY <1>1, RunPlan, ActKinds
  <2>2. files' \in [Layouts -> [File -> {"none", "torn", "stale", "right"}]]
    BY <1>1, <1>2, <2>1, LandsTyped
  <2> QED
    BY <1>1, <1>2, <2>2 DEF HostTyped
<1>4. HostInv'
  BY <1>1, <1>2 DEF HostInv
<1>5. Clear' = Clear
  BY <1>2 DEF Clear
<1>6. DoneInv'
  <2>1. Has(Tail(plan), "sizes")
    BY <1>1, Gone
  <2> QED
    BY <1>1, <1>2, <2>1, DoneTail
<1> QED
  BY <1>1, <1>3, <1>4, <1>5, <1>6, Proceeds

LEMMA CheckSizesKeeps ==
  ASSUME IInv, CheckSizes
  PROVE  IInv'
<1>1. /\ running /\ Head(plan).do = "sizes" /\ Proceed /\ UNCHANGED hostVars
      /\ \A f \in File : files[New][f] = "right"
  BY DEF CheckSizes, Now
<1> QED
  BY <1>1, ChecksKeep

LEMMA InstallDriverKeeps ==
  ASSUME IInv, InstallDriver
  PROVE  IInv'
<1>1. HostTyped /\ HostInv /\ running /\ Head(plan).do = "driver" /\ Proceed
  BY DEF IInv, InstallDriver, Now
<1>2. /\ UNCHANGED <<files, made, service, worker, bound, cable, formats, source>>
      /\ plan' = Tail(plan) /\ ships' = ships /\ staged' = staged \cup {ships}
  BY DEF InstallDriver, Proceed
<1>3. HostTyped'
  BY <1>1, <1>2 DEF HostTyped
<1>4. HostInv'
  BY <1>1, <1>2 DEF HostInv
<1>5. Clear' = Clear
  BY <1>2 DEF Clear
<1>6. DoneInv'
  <2>1. ships' \in staged'
    BY <1>2
  <2> QED
    BY <1>1, <1>2, <2>1, DoneTail
<1> QED
  BY <1>1, <1>3, <1>4, <1>5, <1>6, Proceeds

LEMMA InstallAgentKeeps ==
  ASSUME IInv, InstallAgent
  PROVE  IInv'
<1>1. HostTyped /\ HostInv /\ running /\ Head(plan).do = "install" /\ Proceed
  BY DEF IInv, InstallAgent, Now
<1>2. /\ UNCHANGED <<files, made, staged, cable, formats, source>>
      /\ plan' = Tail(plan) /\ ships' = ships /\ Installed(Head(plan).display, TRUE)
  BY DEF InstallAgent, Proceed
<1>3. Head(plan).display \in Policies
  BY <1>1, RunPlan, ActKinds
<1>4. /\ service' \in [version : Layouts, display : Policies, runs : BOOLEAN]
      /\ service' # None /\ service'.version = New
      /\ worker' = None /\ bound' = 0
  BY <1>2, <1>3, InstalledService
<1>5. New \in made /\ ~Has(plan, "copy")
  BY <1>1, Gone, RunPlan DEF Done
<1>6. HostTyped'
  BY <1>1, <1>2, <1>4 DEF HostTyped
<1>7. HostInv'
  BY <1>1, <1>2, <1>4, <1>5 DEF HostInv
<1>8. ~Has(Tail(plan), "copy")
  BY <1>1, <1>5, RunPlan
<1>9. DoneInv'
  <2>1. bound' \in {0, ships'}
    BY <1>4
  <2> QED
    BY <1>1, <1>2, <1>4, <2>1, DoneTail
<1> QED
  BY <1>1, <1>6, <1>7, <1>8, <1>9, Proceeds

LEMMA ConfigureAudioKeeps ==
  ASSUME IInv, ConfigureAudio
  PROVE  IInv'
<1>1. HostTyped /\ HostInv /\ running /\ Head(plan).do = "audio" /\ Proceed
  BY DEF IInv, ConfigureAudio, Now
<1>2. /\ UNCHANGED <<files, made, service, worker, staged, bound, cable>>
      /\ plan' = Tail(plan) /\ ships' = ships
      /\ formats' = TRUE /\ source' = source \cup {New}
  BY DEF ConfigureAudio, Proceed
<1>3. New \in made
  BY <1>1, Gone, RunPlan DEF Done
<1>4. HostTyped'
  BY <1>1, <1>2, <1>3 DEF HostTyped
<1>5. HostInv'
  BY <1>1, <1>2 DEF HostInv
<1>6. Clear' = Clear
  BY <1>2 DEF Clear
<1>7. DoneInv'
  <2>1. formats' /\ New \in source'
    BY <1>2
  <2> QED
    BY <1>1, <1>2, <2>1, DoneTail
<1> QED
  BY <1>1, <1>4, <1>5, <1>6, <1>7, Proceeds

LEMMA VerifyStatusKeeps ==
  ASSUME IInv, VerifyStatus
  PROVE  IInv'
<1>1. running /\ Head(plan).do = "verify" /\ Proceed /\ UNCHANGED hostVars
  BY DEF VerifyStatus, Now
<1> QED
  BY <1>1, ChecksKeep

LEMMA VerifyDriverKeeps ==
  ASSUME IInv, VerifyDriver
  PROVE  IInv'
<1>1. running /\ Head(plan).do = "driver status" /\ Proceed /\ UNCHANGED hostVars
  BY DEF VerifyDriver, Now
<1> QED
  BY <1>1, ChecksKeep

\* The run's last step: its plan is empty, and it has succeeded.
LEMMA RecordKeeps ==
  ASSUME IInv, Record
  PROVE  IInv'
<1>1. HostTyped /\ RunTyped /\ HistoryTyped /\ HostInv
  BY DEF IInv
<1>2. /\ UNCHANGED <<files, made, service, worker, staged, bound, cable, formats, source>>
      /\ ships' = ships /\ expected' = expected /\ UNCHANGED <<wish, lost, breaks>>
      /\ success' = TRUE /\ plan' = <<>> /\ running' = FALSE
  BY DEF Record, hostVars, history
<1>3. HostTyped'
  BY <1>1, <1>2 DEF HostTyped
<1>4. HostInv'
  BY <1>1, <1>2 DEF HostInv
<1>5. RunTyped' /\ HistoryTyped'
  <2>1. RunTyped'
    BY <1>1, <1>2 DEF RunTyped
  <2>2. HistoryTyped'
    BY <1>1, <1>2 DEF HistoryTyped
  <2> QED
    BY <2>1, <2>2
<1>6. PlanInv'
  BY <1>2, EmptyPlan
<1>7. DoneInv' /\ DisplayInv'
  BY <1>2 DEF DoneInv, DisplayInv
<1> QED
  BY <1>3, <1>4, <1>5, <1>6, <1>7 DEF IInv

-----------------------------------------------------------------------------
(* What goes wrong.                                                        *)

\* A run that stops keeps it if the host it leaves is a good one.
LEMMA StoppedStep ==
  ASSUME IInv, Stops, HostTyped', HostInv', breaks' \in 0 .. MaxBreaks
  PROVE  IInv'
<1>1. /\ plan' = <<>> /\ running' = FALSE /\ lost' = (lost \/ service' = None)
      /\ WishAfter /\ expected' = expected /\ success' = success
  BY DEF Stops
<1>2. lost' \in BOOLEAN
  BY <1>1
<1>3. service' = None => lost'
  BY <1>1
<1> QED
  BY <1>1, <1>2, <1>3, StopsKeeps

\* The count of what went wrong stays within its bound.
LEMMA CountTyped ==
  ASSUME HistoryTyped, Counts
  PROVE  breaks' \in 0 .. MaxBreaks
BY DeployAssumption DEF HistoryTyped, Counts

\* A run that stops leaves a host that the next one can read.
LEMMA FailsKeeps ==
  ASSUME IInv, Fails
  PROVE  IInv'
<1>1. HostTyped /\ HostInv /\ HistoryTyped
  BY DEF IInv
<1>2. /\ UNCHANGED <<files, made, service, worker, staged, bound, cable, formats, source>>
      /\ ships' = ships /\ breaks' = breaks /\ Stops
  BY DEF Fails, Stops, hostVars
<1>3. HostTyped'
  BY <1>1, <1>2 DEF HostTyped
<1>4. HostInv'
  BY <1>1, <1>2 DEF HostInv
<1>5. breaks' \in 0 .. MaxBreaks
  BY <1>1, <1>2 DEF HistoryTyped
<1> QED
  BY <1>2, <1>3, <1>4, <1>5, StoppedStep

LEMMA BreakKeeps ==
  ASSUME IInv, Break
  PROVE  IInv'
<1>1. HostTyped /\ HostInv /\ HistoryTyped
  BY DEF IInv
<1>2. /\ UNCHANGED <<files, made, service, worker, staged, bound, cable, formats, source>>
      /\ ships' = ships /\ Counts /\ Stops
  BY DEF Break, Stops, hostVars
<1>3. HostTyped'
  BY <1>1, <1>2 DEF HostTyped
<1>4. HostInv'
  BY <1>1, <1>2 DEF HostInv
<1>5. breaks' \in 0 .. MaxBreaks
  BY <1>1, <1>2, CountTyped
<1> QED
  BY <1>2, <1>3, <1>4, <1>5, StoppedStep

\* A file cut short is looked at before anything starts from it.
LEMMA CutKeeps ==
  ASSUME IInv, NEW noticed \in BOOLEAN, Cut(noticed)
  PROVE  IInv'
<1>1. HostTyped /\ HostInv /\ HistoryTyped /\ running /\ Head(plan).do = "copy"
  BY DEF IInv, Cut, Now
<1>2. /\ UNCHANGED <<made, service, worker, staged, bound, cable, formats, source>>
      /\ Counts /\ Lands(Head(plan).file, "torn")
      /\ \/ Stops
         \/ plan' = Tail(plan) /\ UNCHANGED <<running, ships, expected, success, wish, lost>>
  BY DEF Cut
<1>3. ships' = ships
  BY <1>2 DEF Stops
<1>4. HostTyped'
  <2>1. Head(plan).file \in File
    BY <1>1, RunPlan, ActKinds
  <2>2. files' \in [Layouts -> [File -> {"none", "torn", "stale", "right"}]]
    BY <1>1, <1>2, <2>1, LandsTyped
  <2> QED
    BY <1>1, <1>2, <1>3, <2>2 DEF HostTyped
<1>5. HostInv'
  BY <1>1, <1>2, <1>3 DEF HostInv
<1>6. breaks' \in 0 .. MaxBreaks
  BY <1>1, <1>2, CountTyped
<1>7. CASE Stops
  BY <1>4, <1>5, <1>6, <1>7, StoppedStep
<1>8. CASE plan' = Tail(plan) /\ UNCHANGED <<running, ships, expected, success, wish, lost>>
  <2>1. Has(Tail(plan), "sizes")
    BY <1>1, Gone
  <2>2. running' = (Tail(plan) # <<>>)
    <3>1. \A p, k : Has(p, k) => p # <<>>
      BY DEF Has
    <3>2. running \in BOOLEAN /\ running' = running
      BY <1>8 DEF IInv, RunTyped
    <3>3. Tail(plan) # <<>>
      BY <2>1, <3>1
    <3> QED
      BY <1>1, <3>2, <3>3
  <2>3. Clear' = Clear
    BY <1>2 DEF Clear
  <2>4. DoneInv'
    BY <1>1, <1>2, <1>8, <2>1, DoneTail
  <2> QED
    BY <1>1, <1>4, <1>5, <1>6, <1>8, <2>2, <2>3, <2>4, TailKeeps
<1> QED
  BY <1>2, <1>7, <1>8

\* A service whose flag changes is the same service.
LEMMA FlagOnly ==
  ASSUME service \in [version : Layouts, display : Policies, runs : BOOLEAN],
         NEW b \in BOOLEAN, service' = [service EXCEPT !.runs = b]
  PROVE  /\ service' \in [version : Layouts, display : Policies, runs : BOOLEAN]
         /\ service'.version = service.version /\ service'.display = service.display
         /\ service # None /\ service' # None
<1>1. /\ service' \in [version : Layouts, display : Policies, runs : BOOLEAN]
      /\ service'.version = service.version /\ service'.display = service.display
  OBVIOUS
<1>2. "none" \notin Layouts
  BY DEF Layouts, Flat, New, Old
<1>3. service.version \in Layouts /\ None.version = "none"
  BY DEF None
<1> QED
  BY <1>1, <1>2, <1>3

\* A service that is stopped half-way is still registered as it was.
LEMMA HalfUninstallKeeps ==
  ASSUME IInv, HalfUninstall
  PROVE  IInv'
<1>1. HostTyped /\ HostInv /\ HistoryTyped
  BY DEF IInv
<1>2. /\ UNCHANGED <<files, made, staged, cable, formats, source>> /\ ships' = ships
      /\ service # None /\ service' = [service EXCEPT !.runs = FALSE]
      /\ worker' = None /\ bound' = 0 /\ Counts /\ Stops
  BY DEF HalfUninstall, Stops, Quiet
<1>3. service \in [version : Layouts, display : Policies, runs : BOOLEAN]
  BY <1>1, <1>2 DEF HostTyped
<1>4. /\ service' \in [version : Layouts, display : Policies, runs : BOOLEAN]
      /\ service'.version = service.version /\ service' # None
  BY <1>2, <1>3, FlagOnly
<1>5. HostTyped'
  BY <1>1, <1>2, <1>4 DEF HostTyped
<1>6. HostInv'
  BY <1>1, <1>2, <1>4 DEF HostInv
<1>7. breaks' \in 0 .. MaxBreaks
  BY <1>1, <1>2, CountTyped
<1> QED
  BY <1>2, <1>5, <1>6, <1>7, StoppedStep

\* A service that is installed half-way is registered as it will be.
LEMMA HalfInstallKeeps ==
  ASSUME IInv, HalfInstall
  PROVE  IInv'
<1>1. HostTyped /\ HostInv /\ HistoryTyped /\ running /\ Head(plan).do = "install"
  BY DEF IInv, HalfInstall, Now
<1>2. /\ UNCHANGED <<files, made, staged, cable, formats, source>> /\ ships' = ships
      /\ Installed(Head(plan).display, FALSE) /\ Counts /\ Stops
  BY DEF HalfInstall, Stops
<1>3. Head(plan).display \in Policies
  BY <1>1, RunPlan, ActKinds
<1>4. /\ service' \in [version : Layouts, display : Policies, runs : BOOLEAN]
      /\ service' # None /\ service'.version = New
      /\ worker' = None /\ bound' = 0
  BY <1>2, <1>3, InstalledService
<1>5. New \in made
  BY <1>1, Gone, RunPlan DEF Done
<1>6. HostTyped'
  BY <1>1, <1>2, <1>4 DEF HostTyped
<1>7. HostInv'
  BY <1>1, <1>2, <1>4, <1>5 DEF HostInv
<1>8. breaks' \in 0 .. MaxBreaks
  BY <1>1, <1>2, CountTyped
<1> QED
  BY <1>2, <1>6, <1>7, <1>8, StoppedStep

LEMMA CableFailsKeeps ==
  ASSUME IInv, CableFails
  PROVE  IInv'
<1>1. HostTyped /\ HostInv /\ HistoryTyped
  BY DEF IInv
<1>2. /\ UNCHANGED <<files, made, service, worker, staged, bound, formats, source>>
      /\ ships' = ships /\ cable' \in {"reboot", "broken"} /\ Counts /\ Stops
  BY DEF CableFails, Stops
<1>3. HostTyped'
  BY <1>1, <1>2 DEF HostTyped
<1>4. HostInv'
  BY <1>1, <1>2 DEF HostInv
<1>5. breaks' \in 0 .. MaxBreaks
  BY <1>1, <1>2, CountTyped
<1> QED
  BY <1>2, <1>3, <1>4, <1>5, StoppedStep

\* A reboot ends the run; the policy of an agent that was down is the service's.
LEMMA RebootKeeps ==
  ASSUME IInv, Reboot
  PROVE  IInv'
<1>1. HostTyped /\ HostInv /\ HistoryTyped /\ DisplayInv /\ RunTyped
  BY DEF IInv
<1>2. /\ UNCHANGED <<files, made, staged, formats, source, ships>>
      /\ breaks' = breaks \/ Counts
      /\ worker' = None /\ bound' = 0 /\ WishAfter
      /\ cable' = "active" \/ cable' = cable
      /\ service' = IF service = None THEN None ELSE [service EXCEPT !.runs = TRUE]
      /\ plan' = <<>> /\ running' = FALSE /\ lost' = (lost \/ (running /\ service = None))
      /\ expected' = expected /\ success' = success
  BY DEF Reboot, Quiet
<1>3. breaks' \in 0 .. MaxBreaks
  <2>1. CASE breaks' = breaks
    BY <1>1, <2>1 DEF HistoryTyped
  <2>2. CASE Counts
    BY <1>1, <2>2, CountTyped
  <2> QED
    BY <1>2, <2>1, <2>2
<1>4. CASE service = None
  <2>1. service' = None
    BY <1>2, <1>4
  <2>2. HostTyped'
    BY <1>1, <1>2, <2>1 DEF HostTyped
  <2>3. HostInv'
    BY <1>1, <1>2, <2>1 DEF HostInv
  <2>4. lost' \in BOOLEAN
    BY <1>2
  <2>5. lost' \/ success' \/ EffectiveDisplay' = wish'
    <3>1. CASE running
      BY <1>2, <1>4, <3>1
    <3>2. CASE ~running
      <4>1. lost \/ success \/ EffectiveDisplay = wish
        BY <1>1, <3>2 DEF DisplayInv
      <4>2. worker = None
        BY <1>1, <1>4 DEF HostInv
      <4>3. EffectiveDisplay = Default /\ EffectiveDisplay' = Default
        BY <1>2, <1>4, <2>1, <4>2 DEF EffectiveDisplay
      <4>4. wish' = wish
        BY <1>2, <2>1 DEF WishAfter
      <4> QED
        BY <1>2, <4>1, <4>3, <4>4
    <3> QED
      BY <3>1, <3>2
  <2> QED
    BY <1>2, <1>3, <2>2, <2>3, <2>4, <2>5, StopsKeeps
<1>5. CASE service # None
  <2>1. service \in [version : Layouts, display : Policies, runs : BOOLEAN]
    BY <1>1, <1>5 DEF HostTyped
  <2>2. /\ service' \in [version : Layouts, display : Policies, runs : BOOLEAN]
        /\ service'.version = service.version /\ service' # None
    <3>1. service' = [service EXCEPT !.runs = TRUE]
      BY <1>2, <1>5
    <3> QED
      BY <2>1, <3>1, FlagOnly
  <2>3. HostTyped'
    BY <1>1, <1>2, <2>2 DEF HostTyped
  <2>4. HostInv'
    BY <1>1, <1>2, <1>5, <2>2 DEF HostInv
  <2>5. lost' \in BOOLEAN
    BY <1>2
  <2> QED
    BY <1>2, <1>3, <2>2, <2>3, <2>4, <2>5, StopsKeeps
<1> QED
  BY <1>4, <1>5

\* While a run has no install to do, a device that comes up takes New's driver.
LEMMA DoneAlone ==
  ASSUME IInv, UNCHANGED <<plan, running, files, made, service, staged, formats, source, ships>>,
         \/ bound' = 0
         \/ bound' = bound
         \/ ships \in staged => bound' = ships
  PROVE  DoneInv'
<1> SUFFICES ASSUME running PROVE Done(plan)'
  BY DEF DoneInv
<1>1. Done(plan) /\ Closed(plan)
  BY RunPlan DEF IInv, PlanInv
<1>2. ~Has(plan, "install") => ~Has(plan, "driver")
  BY <1>1 DEF Closed
<1>3. ~Has(plan, "install") => bound' \in {0, ships'}
  BY <1>1, <1>2 DEF Done
<1>4. /\ ~Has(plan, "mkdir") => New \in made'
      /\ ~Has(plan, "sizes") => \A f \in File : files'[New][f] = "right"
      /\ ~Has(plan, "driver") => ships' \in staged'
      /\ ~Has(plan, "install") => service' # None /\ service'.version = New
      /\ ~Has(plan, "audio") => formats' /\ New \in source'
  BY <1>1 DEF Done
<1>5. plan' = plan
  OBVIOUS
<1> QED
  BY <1>3, <1>4, <1>5 DEF Done

\* An agent may die in a run, or between runs.
LEMMA WorkerDiesKeeps ==
  ASSUME IInv, WorkerDies
  PROVE  IInv'
<1>1. HostTyped /\ HostInv /\ HistoryTyped /\ RunTyped
  BY DEF IInv
<1>2. /\ UNCHANGED <<files, made, service, staged, cable, formats, source, ships, lost>>
      /\ UNCHANGED runVars /\ Counts /\ worker # None /\ worker' = None /\ bound' = 0
      /\ IF running THEN UNCHANGED wish ELSE WishAfter
  BY DEF WorkerDies, Quiet
<1>3. HostTyped'
  BY <1>1, <1>2 DEF HostTyped
<1>4. HostInv'
  BY <1>1, <1>2 DEF HostInv
<1>5. breaks' \in 0 .. MaxBreaks
  BY <1>1, <1>2, CountTyped
<1>6. /\ plan' = plan /\ running' = running /\ expected' = expected /\ success' = success
  BY <1>2 DEF runVars
<1>7. CASE running
  <2>1. DoneInv'
    BY <1>2, <1>6, DoneAlone
  <2>2. Clear' = Clear
    BY <1>2 DEF Clear
  <2>3. wish' = wish /\ wish' \in Policies
    BY <1>1, <1>2, <1>7 DEF HistoryTyped
  <2> QED
    BY <1>2, <1>3, <1>4, <1>5, <1>7, <2>1, <2>2, <2>3, HostKeeps
<1>8. CASE ~running
  <2>1. plan' = <<>> /\ running' = FALSE
    BY <1>1, <1>6, <1>8 DEF RunTyped
  <2>2. lost' \in BOOLEAN
    BY <1>1, <1>2 DEF HistoryTyped
  <2>3. service' # None
    BY <1>1, <1>2 DEF HostInv
  <2>4. WishAfter
    BY <1>2, <1>8
  <2> QED
    BY <1>3, <1>4, <1>5, <1>6, <2>1, <2>2, <2>3, <2>4, StopsKeeps
<1> QED
  BY <1>7, <1>8

\* A worker that is one.
LEMMA WorkerIs ==
  ASSUME NEW w \in [version : Layouts, display : Policies, green : BOOLEAN]
  PROVE  w # None
<1>1. "none" \notin Layouts
  BY DEF Layouts, Flat, New, Old
<1>2. w.version \in Layouts /\ None.version = "none"
  BY DEF None
<1> QED
  BY <1>1, <1>2

\* A launched agent takes the service's policy.
LEMMA LaunchKeeps ==
  ASSUME IInv, Launch
  PROVE  IInv'
<1>1. HostTyped /\ HostInv /\ HistoryTyped /\ DisplayInv
  BY DEF IInv
<1>2. /\ UNCHANGED <<files, made, service, staged, bound, cable, formats, source, ships>>
      /\ UNCHANGED <<runVars, wish, lost, breaks>> /\ service # None /\ worker = None
      /\ worker' = [version |-> service.version, display |-> service.display, green |-> FALSE]
  BY DEF Launch, history
<1>3. service.version \in Layouts /\ service.display \in Policies
  BY <1>1, <1>2 DEF HostTyped
<1>4. /\ worker' \in [version : Layouts, display : Policies, green : BOOLEAN]
      /\ worker'.version = service.version /\ worker'.display = service.display
  BY <1>2, <1>3
<1>5. HostTyped'
  BY <1>1, <1>2, <1>4 DEF HostTyped
<1>6. HostInv'
  BY <1>1, <1>2, <1>4 DEF HostInv
<1>7. DoneInv'
  BY <1>2, DoneAlone DEF runVars
<1>8. Clear' = Clear
  BY <1>2 DEF Clear
<1>9. wish' = wish /\ wish' \in Policies /\ breaks' \in 0 .. MaxBreaks /\ lost' = lost
  BY <1>1, <1>2 DEF HistoryTyped
<1>10. EffectiveDisplay' = EffectiveDisplay
  <2>1. worker' # None
    BY <1>4, WorkerIs
  <2> QED
    BY <1>2, <1>4, <2>1 DEF EffectiveDisplay
<1>11. ~running /\ ~success => lost \/ EffectiveDisplay' = wish'
  BY <1>1, <1>9, <1>10 DEF DisplayInv
<1> QED
  BY <1>2, <1>5, <1>6, <1>7, <1>8, <1>9, <1>11, HostKeeps

\* An agent that comes up changes no policy.
LEMMA ComesUpKeeps ==
  ASSUME IInv, ComesUp
  PROVE  IInv'
<1>1. HostTyped /\ HostInv /\ HistoryTyped /\ DisplayInv
  BY DEF IInv
<1>2. /\ UNCHANGED <<files, made, service, staged, cable, formats, source, ships>>
      /\ UNCHANGED <<runVars, wish, lost, breaks>> /\ worker # None /\ staged # {}
      /\ worker' = [worker EXCEPT !.green = TRUE]
      /\ bound' = IF 2 \in staged THEN 2 ELSE 1
  BY DEF ComesUp, history
<1>3. worker \in [version : Layouts, display : Policies, green : BOOLEAN]
  BY <1>1, <1>2 DEF HostTyped
<1>4. /\ worker' \in [version : Layouts, display : Policies, green : BOOLEAN]
      /\ worker'.version = worker.version /\ worker'.display = worker.display
  BY <1>2, <1>3
<1>5. bound' \in staged /\ bound' \in 0 .. 2 /\ (ships \in staged => bound' = ships)
  BY <1>1, <1>2 DEF HostTyped, HostInv
<1>6. HostTyped'
  BY <1>1, <1>2, <1>4, <1>5 DEF HostTyped
<1>7. worker' # None
  BY <1>4, WorkerIs
<1>8. HostInv'
  BY <1>1, <1>2, <1>4, <1>5 DEF HostInv
<1>9. DoneInv'
  BY <1>2, <1>5, DoneAlone DEF runVars
<1>10. Clear' = Clear
  BY <1>2 DEF Clear
<1>11. wish' = wish /\ wish' \in Policies /\ breaks' \in 0 .. MaxBreaks /\ lost' = lost
  BY <1>1, <1>2 DEF HistoryTyped
<1>12. EffectiveDisplay' = EffectiveDisplay
  BY <1>2, <1>4, <1>7 DEF EffectiveDisplay
<1>13. ~running /\ ~success => lost \/ EffectiveDisplay' = wish'
  BY <1>1, <1>11, <1>12 DEF DisplayInv
<1> QED
  BY <1>2, <1>6, <1>8, <1>9, <1>10, <1>11, <1>13, HostKeeps

\* A client selects the policy in force.
LEMMA SelectKeeps ==
  ASSUME IInv, NEW d \in Displays, Select(d)
  PROVE  IInv'
<1>1. HostTyped /\ HostInv /\ HistoryTyped /\ RunTyped
  BY DEF IInv
<1>2. /\ UNCHANGED <<files, made, service, staged, bound, cable, formats, source, ships>>
      /\ UNCHANGED <<runVars, lost, breaks>> /\ worker # None /\ ~running
      /\ worker' = [worker EXCEPT !.display = d] /\ wish' = d
  BY DEF Select
<1>3. worker \in [version : Layouts, display : Policies, green : BOOLEAN]
  BY <1>1, <1>2 DEF HostTyped
<1>4. d \in Policies /\ d # Default
  BY DeployAssumption DEF Policies
<1>5. /\ worker' \in [version : Layouts, display : Policies, green : BOOLEAN]
      /\ worker'.version = worker.version /\ worker'.display = d
  BY <1>2, <1>3, <1>4
<1>6. HostTyped'
  BY <1>1, <1>2, <1>5 DEF HostTyped
<1>7. worker' # None
  BY <1>5, WorkerIs
<1>8. HostInv'
  BY <1>1, <1>2, <1>4, <1>5 DEF HostInv
<1>9. DoneInv'
  BY <1>2, DoneAlone DEF runVars
<1>10. Clear' = Clear
  BY <1>2 DEF Clear
<1>11. wish' \in Policies /\ breaks' \in 0 .. MaxBreaks /\ lost' = lost
  BY <1>1, <1>2, <1>4 DEF HistoryTyped
<1>12. EffectiveDisplay' = wish'
  BY <1>2, <1>4, <1>5, <1>7 DEF EffectiveDisplay
<1> QED
  BY <1>2, <1>6, <1>8, <1>9, <1>10, <1>11, <1>12, HostKeeps

-----------------------------------------------------------------------------
(* The theorems.                                                           *)

\* The invariant holds of every host a deployment may start from.
LEMMA Initially ==
  ASSUME Init
  PROVE  IInv
<1> DEFINE Contents == {"none", "torn", "stale", "right"}
<1>1. PICK kind \in Hosts, d \in Policies :
         LET v == IF kind = "same" THEN New ELSE Old
         IN  /\ files = [l \in Layouts |->
                           CASE kind = "nothing" -> Holds("none")
                             [] kind # "nothing" /\ l = v ->
                                  Holds(IF v = New THEN "stale" ELSE "right")
                             [] kind = "flat" /\ l = Flat -> Holds("right")
                             [] OTHER -> Holds("none")]
             /\ made = {l \in Layouts : files[l] # Holds("none")}
             /\ wish = IF kind = "nothing" THEN Default ELSE d
             /\ service = IF kind = "nothing" THEN None
                          ELSE [version |-> v, display |-> d, runs |-> TRUE]
             /\ staged = IF kind = "nothing" THEN {} ELSE {1}
             /\ source = IF kind = "nothing" THEN {} ELSE {v}
             /\ cable \in IF kind = "nothing" THEN {"none"} ELSE {"none", "active"}
             /\ formats = (kind # "nothing")
  BY DEF Init
<1>2. /\ worker = None /\ bound = 0 /\ ships \in 1 .. 2
      /\ plan = <<>> /\ running = FALSE /\ expected = Default /\ success = FALSE
      /\ lost = FALSE /\ breaks = 0
  BY DEF Init
<1> DEFINE v == IF kind = "same" THEN New ELSE Old
<1>3. v \in Layouts /\ Default \in Policies
  BY DEF Layouts, Policies
<1>4. \A c \in Contents : Holds(c) \in [File -> Contents]
  BY DEF Holds
<1>5. Holds("stale") # Holds("none") /\ Holds("right") # Holds("none")
  <2>1. "agent" \in File
    <3>1. 1 \in DOMAIN Files /\ Files[1] = "agent"
      BY DEF Files
    <3> QED
      BY <3>1 DEF File
  <2>2. Holds("stale")["agent"] = "stale" /\ Holds("none")["agent"] = "none"
        /\ Holds("right")["agent"] = "right"
    BY <2>1 DEF Holds
  <2>3. "stale" # "none" /\ "right" # "none"
    OBVIOUS
  <2> QED
    BY <2>2, <2>3
<1>6. files \in [Layouts -> [File -> Contents]]
  <2> DEFINE c(l) == CASE kind = "nothing" -> Holds("none")
                       [] kind # "nothing" /\ l = v ->
                            Holds(IF v = New THEN "stale" ELSE "right")
                       [] kind = "flat" /\ l = Flat -> Holds("right")
                       [] OTHER -> Holds("none")
  <2>1. files = [l \in Layouts |-> c(l)]
    BY <1>1
  <2>2. \A l \in Layouts : c(l) \in {Holds("none"), Holds("stale"), Holds("right")}
    OBVIOUS
  <2> HIDE DEF c
  <2>3. \A l \in Layouts : c(l) \in [File -> Contents]
    BY <1>4, <2>2
  <2> QED
    BY <2>1, <2>3
<1>7. made \subseteq Layouts
  BY <1>1
<1>8. kind # "nothing" => v \in made
  <2> SUFFICES ASSUME kind # "nothing" PROVE v \in made
    OBVIOUS
  <2>1. files[v] = Holds(IF v = New THEN "stale" ELSE "right")
    <3>1. v # Flat
      BY DEF New, Old, Flat
    <3>2. files[v] = CASE kind = "nothing" -> Holds("none")
                       [] kind # "nothing" /\ v = v ->
                            Holds(IF v = New THEN "stale" ELSE "right")
                       [] kind = "flat" /\ v = Flat -> Holds("right")
                       [] OTHER -> Holds("none")
      BY <1>1, <1>3
    <3> HIDE DEF v
    <3> QED
      BY <3>1, <3>2
  <2>2. files[v] # Holds("none")
    BY <1>5, <2>1
  <2> QED
    BY <1>1, <1>3, <2>2
<1>9. service = None \/ service = [version |-> v, display |-> d, runs |-> TRUE]
  BY <1>1
<1>10. service # None => kind # "nothing" /\ service.version = v
                         /\ service.display = d
  BY <1>1
<1>11. /\ staged = {} \/ staged = {1}
       /\ source = {} \/ (source = {v} /\ kind # "nothing")
       /\ cable = "none" \/ cable = "active"
       /\ formats \in BOOLEAN
  <2>1. (staged = {} \/ staged = {1}) /\ (cable = "none" \/ cable = "active")
    BY <1>1
  <2>2. source = {} \/ (source = {v} /\ kind # "nothing")
    BY <1>1
  <2>3. formats \in BOOLEAN
    BY <1>1
  <2> QED
    BY <2>1, <2>2, <2>3
<1>12. wish = Default \/ wish = d
  BY <1>1
<1>13. EffectiveDisplay = wish
  <2>1. kind = "nothing" => service = None /\ wish = Default
    BY <1>1
  <2>2. kind # "nothing" => wish = d
    BY <1>1
  <2>3. kind # "nothing" => service = [version |-> v, display |-> d, runs |-> TRUE]
    BY <1>1
  <2>4. kind # "nothing" => service # None
    <3>1. v \in Layouts /\ "none" \notin Layouts
      BY <1>3 DEF Layouts, Flat, New, Old
    <3>2. None.version = "none"
      BY DEF None
    <3> HIDE DEF v
    <3> QED
      BY <2>3, <3>1, <3>2
  <2> QED
    BY <1>2, <1>10, <2>1, <2>2, <2>4 DEF EffectiveDisplay
<1> HIDE DEF v
<1>14. HostTyped
  <2>1. service = None \/ service \in [version : Layouts, display : Policies, runs : BOOLEAN]
    <3>1. [version |-> v, display |-> d, runs |-> TRUE]
            \in [version : Layouts, display : Policies, runs : BOOLEAN]
      BY <1>3
    <3> QED
      BY <1>9, <3>1
  <2>2. source \subseteq made
    BY <1>8, <1>11
  <2>3. staged \subseteq 1 .. 2 /\ bound \in 0 .. 2
    BY <1>2, <1>11
  <2> QED
    BY <1>2, <1>6, <1>7, <1>11, <2>1, <2>2, <2>3 DEF HostTyped
<1>15. RunTyped /\ HistoryTyped
  <2>1. RunTyped
    BY <1>2, <1>3 DEF RunTyped
  <2>2. HistoryTyped
    <3>1. 0 \in 0 .. MaxBreaks
      BY DeployAssumption
    <3> QED
      BY <1>2, <1>3, <1>12, <3>1 DEF HistoryTyped
  <2> QED
    BY <2>1, <2>2
<1>16. HostInv
  <2>1. service # None => service.version \in made
    BY <1>8, <1>10
  <2>2. staged \subseteq {1, ships} /\ bound \in staged \cup {0}
    BY <1>2, <1>11
  <2> QED
    BY <1>2, <2>1, <2>2 DEF HostInv
<1>17. PlanInv
  <2>1. \A k : ~Has(<<>>, k)
    BY DEF Has
  <2>2. plan \in Seq(Acts) /\ Closed(plan)
    BY <1>2, <2>1 DEF Closed
  <2>3. \A order \in Orders : Ordered(plan, order)
    BY <1>2 DEF Ordered
  <2>4. \E order \in Orders : TRUE
    BY DEF Orders
  <2> QED
    BY <1>2, <2>1, <2>2, <2>3, <2>4 DEF PlanInv
<1>18. DoneInv
  BY <1>2 DEF DoneInv
<1>19. DisplayInv
  BY <1>2, <1>13 DEF DisplayInv
<1> QED
  BY <1>14, <1>15, <1>16, <1>17, <1>18, <1>19 DEF IInv

\* A stuttering step keeps it.
LEMMA Stutters ==
  ASSUME IInv, UNCHANGED vars
  PROVE  IInv'
<1>1. /\ UNCHANGED <<files, made, service, worker, staged, bound, cable, formats, source, ships>>
      /\ UNCHANGED <<plan, running, expected, success>> /\ UNCHANGED <<wish, lost, breaks>>
  BY DEF vars, hostVars, runVars, history
<1>2. HostTyped' /\ HostInv'
  <2>1. HostTyped'
    BY <1>1 DEF IInv, HostTyped
  <2>2. HostInv'
    BY <1>1 DEF IInv, HostInv
  <2> QED
    BY <2>1, <2>2
<1>3. DoneInv'
  BY <1>1, DoneAlone
<1>4. Clear' = Clear
  BY <1>1 DEF Clear
<1>5. EffectiveDisplay' = EffectiveDisplay
  BY <1>1 DEF EffectiveDisplay
<1>6. wish' = wish /\ wish' \in Policies /\ breaks' \in 0 .. MaxBreaks /\ lost' = lost
  BY <1>1 DEF IInv, HistoryTyped
<1>7. ~running /\ ~success => lost \/ EffectiveDisplay' = wish'
  BY <1>5, <1>6 DEF IInv, DisplayInv
<1>8. UNCHANGED runVars
  BY <1>1 DEF runVars
<1> QED
  BY <1>2, <1>3, <1>4, <1>6, <1>7, <1>8, HostKeeps

\* The invariant is inductive.
LEMMA Inductive == Spec => []IInv
<1>1. Init => IInv
  BY Initially
<1>2. IInv /\ [Next]_vars => IInv'
  <2> SUFFICES ASSUME IInv, [Next]_vars PROVE IInv'
    OBVIOUS
  <2>1. ASSUME NEW force \in BOOLEAN, Start(force) PROVE IInv'
    BY <2>1, StartKeeps
  <2>2. CASE Step
    BY <2>2, InstallCableKeeps, UninstallKeeps, VerifyQuiescenceKeeps, MakeDirectoryKeeps,
       CopyKeeps, CheckSizesKeeps, InstallDriverKeeps, InstallAgentKeeps, ConfigureAudioKeeps,
       VerifyStatusKeeps, VerifyDriverKeeps, RecordKeeps DEF Step
  <2>3. CASE Fails \/ Break \/ HalfUninstall \/ HalfInstall \/ CableFails
    BY <2>3, FailsKeeps, BreakKeeps, HalfUninstallKeeps, HalfInstallKeeps, CableFailsKeeps
  <2>4. ASSUME NEW noticed \in BOOLEAN, Cut(noticed) PROVE IInv'
    BY <2>4, CutKeeps
  <2>5. CASE Reboot \/ WorkerDies \/ Launch \/ ComesUp
    BY <2>5, RebootKeeps, WorkerDiesKeeps, LaunchKeeps, ComesUpKeeps
  <2>6. ASSUME NEW d \in Displays, Select(d) PROVE IInv'
    BY <2>6, SelectKeeps
  <2>7. CASE UNCHANGED vars
    BY <2>7, Stutters
  <2> QED
    BY <2>1, <2>2, <2>3, <2>4, <2>5, <2>6, <2>7 DEF Next
<1> QED
  BY <1>1, <1>2, PTL DEF Spec

\* The state is well-formed, and no run copies a file over an image that the running agent
\* holds open, whatever broke off before and wherever the host came back up.
THEOREM DeploymentSafe == Spec => []DeployInv
<1>1. IInv => DeployInv
  <2> SUFFICES ASSUME IInv PROVE DeployInv
    OBVIOUS
  <2>1. TypeOK
    BY DEF IInv, HostTyped, RunTyped, HistoryTyped, TypeOK
  <2>2. NeverOverRunning
    <3> SUFFICES ASSUME running, Head(plan).do = "copy", Held PROVE FALSE
      BY DEF NeverOverRunning
    <3>1. Clear
      BY Gone
    <3>2. service # None /\ service.version = New
      BY DEF IInv, HostInv, Held
    <3> QED
      BY <3>1, <3>2 DEF Clear
  <2> QED
    BY <2>1, <2>2 DEF DeployInv
<1> QED
  BY <1>1, Inductive, PTL

\* A run that reports success has the whole release in place: files, service, driver, audio.
THEOREM SuccessInvariant == Spec => SuccessIsReal
<1>1. IInv /\ [Next]_vars => [success' /\ ~success => HostRuns]_vars
  <2> SUFFICES ASSUME IInv, Next, success', ~success PROVE HostRuns
    OBVIOUS
  <2>1. Record
    <3>1. ASSUME success' = success PROVE FALSE
      BY <3>1
    <3>2. ASSUME NEW force \in BOOLEAN, Start(force) PROVE success' = success
      BY <3>2 DEF Start
    <3>3. ASSUME Proceed \/ Stops PROVE success' = success
      BY <3>3 DEF Proceed, Stops
    <3>4. ASSUME Step PROVE Record \/ Proceed
      BY <3>4 DEF Step, InstallCable, Uninstall, VerifyQuiescence, MakeDirectory, Copy,
         CheckSizes, InstallDriver, InstallAgent, ConfigureAudio, VerifyStatus, VerifyDriver
    <3>5. ASSUME Fails \/ Break \/ HalfUninstall \/ HalfInstall \/ CableFails PROVE Stops
      BY <3>5 DEF Fails, Break, HalfUninstall, HalfInstall, CableFails
    <3>6. ASSUME NEW noticed \in BOOLEAN, Cut(noticed) PROVE success' = success
      BY <3>3, <3>6 DEF Cut
    <3>7. ASSUME Reboot \/ WorkerDies \/ Launch \/ ComesUp PROVE success' = success
      BY <3>7 DEF Reboot, WorkerDies, Launch, ComesUp, runVars
    <3>8. ASSUME NEW d \in Displays, Select(d) PROVE success' = success
      BY <3>8 DEF Select, runVars
    <3> QED
      BY <3>1, <3>2, <3>3, <3>4, <3>5, <3>6, <3>7, <3>8 DEF Next
  <2>2. running /\ Head(plan).do = "record"
    BY <2>1 DEF Record, Now
  <2>3. Done(plan)
    BY <2>2, RunPlan
  <2>4. /\ ~Has(plan, "mkdir") /\ ~Has(plan, "sizes") /\ ~Has(plan, "driver")
        /\ ~Has(plan, "install") /\ ~Has(plan, "audio")
    BY <2>2, Gone
  <2>5. HostInv
    BY DEF IInv
  <2> QED
    BY <2>3, <2>4, <2>5 DEF HostRuns, Done, HostInv
<1> QED
  BY <1>1, Inductive, PTL DEF Spec, SuccessIsReal

\* Whatever registers the service registers it with the display policy in force, unless a run
\* ended while no service was registered.
THEOREM DisplayInvariant == Spec => DisplayKept
<1> DEFINE Kept == service' # None /\ service' # service =>
                     lost \/ service'.display = wish \/ service = [service' EXCEPT !.runs = ~@]
<1>1. IInv /\ [Next]_vars => [Kept]_vars
  <2> SUFFICES ASSUME IInv, Next, service' # None, service' # service
               PROVE  lost \/ service'.display = wish
                        \/ service = [service' EXCEPT !.runs = ~@]
    OBVIOUS
  <2>1. service = None \/ service \in [version : Layouts, display : Policies, runs : BOOLEAN]
    BY DEF IInv, HostTyped
  <2>2. ASSUME NEW runs \in BOOLEAN, Now("install"), Installed(Head(plan).display, runs)
        PROVE  lost \/ service'.display = wish
    <3>1. Head(plan) \in Acts /\ Head(plan).do = "install" /\ 1 \in 1 .. Len(plan)
          /\ Head(plan) = plan[1]
      BY <2>2, RunPlan, TailParts DEF Now
    <3>2. lost \/ Head(plan).display = wish
      BY <3>1 DEF IInv, DisplayInv
    <3>3. Head(plan).display \in Policies
      BY <3>1, ActKinds
    <3>4. service'.display = Head(plan).display
      BY <2>2, <3>3, InstalledService
    <3> QED
      BY <3>2, <3>4
  <2>3. ASSUME NEW b \in BOOLEAN, service # None, service' = [service EXCEPT !.runs = b]
        PROVE  service = [service' EXCEPT !.runs = ~@]
    <3>1. service.runs \in BOOLEAN
      BY <2>1, <2>3
    <3>2. service.runs = ~b
      <4>1. service.runs = b => service' = service
        BY <2>1, <2>3
      <4> QED
        BY <3>1, <4>1
    <3>3. service'.runs = b
      BY <2>1, <2>3
    <3>4. service = [service EXCEPT !.runs = ~b]
      BY <2>1, <2>3, <3>2
    <3> QED
      BY <2>1, <2>3, <3>3, <3>4
  <2>4. ASSUME NEW force \in BOOLEAN, Start(force) PROVE FALSE
    BY <2>4 DEF Start, hostVars
  <2>5. ASSUME Step PROVE InstallAgent
    BY <2>5 DEF Step, InstallCable, Uninstall, Uninstalled, VerifyQuiescence, MakeDirectory,
       Copy, CheckSizes, InstallDriver, ConfigureAudio, VerifyStatus, VerifyDriver, Record,
       hostVars
  <2>6. ASSUME InstallAgent PROVE lost \/ service'.display = wish
    BY <2>2, <2>6 DEF InstallAgent
  <2>7. ASSUME HalfInstall PROVE lost \/ service'.display = wish
    BY <2>2, <2>7 DEF HalfInstall
  <2>8. ASSUME HalfUninstall PROVE service = [service' EXCEPT !.runs = ~@]
    BY <2>3, <2>8 DEF HalfUninstall
  <2>9. ASSUME Reboot PROVE service = [service' EXCEPT !.runs = ~@]
    <3>1. service # None /\ service' = [service EXCEPT !.runs = TRUE]
      BY <2>9 DEF Reboot
    <3> QED
      BY <2>3, <3>1
  <2>10. ASSUME Fails \/ Break \/ CableFails \/ WorkerDies \/ Launch \/ ComesUp PROVE FALSE
    BY <2>10 DEF Fails, Break, CableFails, WorkerDies, Launch, ComesUp, hostVars
  <2>11. ASSUME NEW noticed \in BOOLEAN, Cut(noticed) PROVE FALSE
    BY <2>11 DEF Cut
  <2>12. ASSUME NEW d \in Displays, Select(d) PROVE FALSE
    BY <2>12 DEF Select
  <2> QED
    BY <2>4, <2>5, <2>6, <2>7, <2>8, <2>9, <2>10, <2>11, <2>12 DEF Next
<1> QED
  BY <1>1, Inductive, PTL DEF Spec, DisplayKept


-----------------------------------------------------------------------------
(* The reconcile loop of the session agent.                                *)

\* What AgentTypeOK says of the records, named.
Request == [mode : Modes, rescale : BOOLEAN]
Asked == [restart : BOOLEAN, cycle : BOOLEAN, display : Request \cup {Absent}]
ServerProc ==
  [proc : {"none", "running", "exited"}, attach : {"waiting", "live", "dead"},
   born : Modes \cup {DefaultMode, Absent}]
Device == [id : 1..Identities, up : BOOLEAN, owned : BOOLEAN]
Display == [mode : Modes \cup {DefaultMode}, placed : BOOLEAN, scaled : BOOLEAN]

(* A tick keeps the record of a child well formed, takes a child that runs *)
(* or is spawned for running, and never forgets that there was one.        *)
LEMMA TickedTyped ==
  ASSUME NEW s \in Supervised, NEW poll \in {"none", "running", "exited"}, NEW ok \in BOOLEAN
  PROVE  /\ Ticked(s, poll, ok) \in Supervised
         /\ poll = "running" \/ (Spawns(s, poll) /\ ok) => Ticked(s, poll, ok).running
         /\ s.ever \/ (Spawns(s, poll) /\ ok) => Ticked(s, poll, ok).ever
<1> USE ReconcilerAssumption
<1>0. /\ s.running \in BOOLEAN /\ s.ever \in BOOLEAN /\ s.cooldown \in 0..MAX_BACKOFF_TICKS
      /\ s.next \in 1..MAX_BACKOFF_TICKS /\ s.healthy \in 0..HEALTHY_RESET_TICKS
      /\ s = [running |-> s.running, ever |-> s.ever, cooldown |-> s.cooldown,
              next |-> s.next, healthy |-> s.healthy]
  BY DEF Supervised
<1>1. \A n \in 1..MAX_BACKOFF_TICKS : Min2(2 * n, MAX_BACKOFF_TICKS) \in 1..MAX_BACKOFF_TICKS
  BY DEF Min2
<1>2. BackedOff(s) \in Supervised /\ BackedOff(s).ever = s.ever
  <2> DEFINE n == Min2(2 * s.next, MAX_BACKOFF_TICKS)
  <2>1. BackedOff(s) = [s EXCEPT !.running = FALSE, !.healthy = 0, !.cooldown = s.next,
                                 !.next = n]
    BY DEF BackedOff
  <2>2. s.next \in 0..MAX_BACKOFF_TICKS /\ 0 \in 0..HEALTHY_RESET_TICKS
        /\ n \in 1..MAX_BACKOFF_TICKS
    BY <1>0, <1>1
  <2> HIDE DEF n
  <2> QED
    BY <2>1, <2>2 DEF Supervised
<1> DEFINE t == Ticked(s, poll, ok)
<1>3. CASE poll = "running"
  <2> DEFINE h == Min2(s.healthy + 1, HEALTHY_RESET_TICKS)
  <2>1. t = [running |-> TRUE, ever |-> s.ever, cooldown |-> s.cooldown,
             next |-> IF h = HEALTHY_RESET_TICKS THEN 1 ELSE s.next, healthy |-> h]
    BY <1>0, <1>3 DEF Ticked, Spawns
  <2>2. h \in 0..HEALTHY_RESET_TICKS
    BY <1>0 DEF Min2
  <2>3. 1 \in 1..MAX_BACKOFF_TICKS
    OBVIOUS
  <2> HIDE DEF h, t
  <2>4. t \in Supervised /\ t.running /\ t.ever = s.ever
    BY <1>0, <2>1, <2>2, <2>3 DEF Supervised
  <2> QED
    BY <1>3, <2>4 DEF Spawns, t
<1>4. CASE poll = "exited"
  BY <1>2, <1>4 DEF Ticked, Spawns
<1>5. CASE poll = "none" /\ s.cooldown > 0
  <2> DEFINE n == s.cooldown - 1
  <2>1. t = [s EXCEPT !.running = FALSE, !.healthy = 0, !.cooldown = n]
    BY <1>0, <1>5 DEF Ticked, Spawns
  <2>2. n \in 0..MAX_BACKOFF_TICKS /\ 0 \in 0..HEALTHY_RESET_TICKS
    BY <1>0, <1>5
  <2>3. ~Spawns(s, poll)
    BY <1>0, <1>5 DEF Spawns
  <2> HIDE DEF t, n
  <2>4. t \in Supervised /\ t.ever = s.ever
    BY <2>1, <2>2 DEF Supervised
  <2> QED
    BY <1>5, <2>3, <2>4 DEF t
<1>6. CASE Spawns(s, poll)
  <2>1. t = IF ok THEN [s EXCEPT !.running = TRUE, !.ever = TRUE, !.healthy = 0]
            ELSE [BackedOff(s) EXCEPT !.ever = TRUE]
    BY <1>0, <1>6 DEF Ticked, Spawns
  <2>2. 0 \in 0..HEALTHY_RESET_TICKS /\ poll = "none"
    BY <1>6 DEF Spawns
  <2> HIDE DEF t
  <2>3. CASE ok
    BY <1>0, <2>1, <2>2, <2>3 DEF Supervised, t
  <2>4. CASE ~ok
    <3>1. t \in Supervised /\ t.ever
      BY <1>2, <2>1, <2>4 DEF Supervised
    <3> QED
      BY <2>2, <2>4, <3>1 DEF t
  <2> QED
    BY <2>3, <2>4
<1> QED
  BY <1>0, <1>3, <1>4, <1>5, <1>6 DEF Spawns

(* The name of a new device is neither the present one nor the one the     *)
(* agent remembers.                                                        *)
LEMMA NewIdentityFresh ==
  ASSUME dev \in Device
  PROVE  NewIdentity \in 1..Identities /\ NewIdentity \notin {dev.id, last_device_id}
<1>1. 1 \in 1..Identities /\ 2 \in 1..Identities /\ 3 \in 1..Identities
  BY ReconcilerAssumption
<1>2. \E id \in 1..Identities : id \notin {dev.id, last_device_id}
  BY <1>1
<1> QED
  BY <1>2 DEF NewIdentity

(* The parts of the invariant, for use one by one.                         *)
Typed ==
  /\ pc \in {"sleep", "cycle", "creator", "display", "pool", "server"}
  /\ asked \in Asked
  /\ creator \in Supervised /\ server \in Supervised
  /\ desired \in Modes
  /\ last_device_id \in (1..Identities) \cup {Absent}
  /\ mode_ok \in BOOLEAN /\ restart_server_requested \in BOOLEAN
  /\ pool \in (0..Generations) \cup {Absent}
  /\ server_generation \in (1..Generations) \cup {Absent}
  /\ pool_fault_ticks \in 0..(POOL_FAULT_TICKS - 1)
  /\ cycling \in (0..(CYCLE_DEADLINE_TICKS - 1)) \cup {Absent}
  /\ creatorProc \in {"none", "running", "exited"}
  /\ srv \in ServerProc /\ dev \in Device /\ disp \in Display
  /\ gen \in 0..Generations /\ lastGen \in 0..Generations

LEMMA TypedIs == AgentTypeOK <=> Typed
  BY DEF AgentTypeOK, Typed, Asked, Request, ServerProc, Device, Display

LEMMA FieldsTyped ==
  ASSUME Typed
  PROVE  /\ srv.proc \in {"none", "running", "exited"} /\ srv.attach \in {"waiting", "live", "dead"}
         /\ srv.born \in Modes \cup {DefaultMode, Absent}
         /\ dev.id \in 1..Identities /\ dev.up \in BOOLEAN /\ dev.owned \in BOOLEAN
         /\ disp.mode \in Modes \cup {DefaultMode} /\ disp.placed \in BOOLEAN
         /\ disp.scaled \in BOOLEAN
         /\ dev.id # Absent
  BY ReconcilerAssumption DEF Typed, ServerProc, Device, Display

\* What the invariant says of the server.
Fits == ServerFitsRequest /\ OrphanReplaced

NoServerTyped == NoServer \in ServerProc /\ NoServer.proc = "none" /\ NoServer.attach = "waiting"

LEMMA NoServerIs == NoServerTyped
  BY DEF NoServerTyped, NoServer, ServerProc

LEMMA AgentInitHolds == AgentInit => ReconcilerInv
<1> SUFFICES ASSUME AgentInit PROVE ReconcilerInv
  OBVIOUS
<1>1. NewSupervised \in Supervised
  BY ReconcilerAssumption DEF NewSupervised, Supervised
<1>2. Typed
  <2>1. asked \in Asked /\ srv \in ServerProc /\ dev \in Device /\ disp \in Display
    BY NoServerIs, ReconcilerAssumption DEF AgentInit, Asked, NoServerTyped, Device, Display
  <2>2. pool_fault_ticks \in 0..(POOL_FAULT_TICKS - 1) /\ gen \in 0..Generations
        /\ lastGen \in 0..Generations /\ desired \in Modes
    BY ReconcilerAssumption DEF AgentInit
  <2> QED
    BY <1>1, <2>1, <2>2 DEF AgentInit, Typed
<1>3. Fits /\ ChildrenKnown
  BY NoServerIs DEF AgentInit, Fits, ServerFitsRequest, OrphanReplaced, ChildrenKnown, NoServerTyped
<1> QED
  BY <1>2, <1>3, TypedIs DEF ReconcilerInv, Fits

-----------------------------------------------------------------------------
\* The stage of a cycle is reached in a cycle only.
Cycles == pc = "cycle" => cycling # Absent

RInv == Typed /\ Fits /\ ChildrenKnown /\ Cycles

(* The invariant is what the runs check, and the stage of the cycle.       *)
LEMMA RInvIs == RInv <=> ReconcilerInv /\ Cycles
  BY TypedIs DEF ReconcilerInv, RInv, Fits

(* What is asked for waits until a tick begins.                            *)
LEMMA ControlAction == ASSUME RInv, ControlRequest PROVE RInv'
<1>1. asked' \in Asked
  <2>1. asked \in Asked
    BY DEF RInv, Typed
  <2>2. \A m \in Modes, b \in BOOLEAN : [mode |-> m, rescale |-> b] \in Request
    BY DEF Request
  <2>3. CASE asked' = [asked EXCEPT !.restart = TRUE]
    BY <2>1, <2>3 DEF Asked
  <2>4. CASE asked' = [asked EXCEPT !.cycle = TRUE]
    BY <2>1, <2>4 DEF Asked
  <2>5. ASSUME NEW m \in Modes, NEW b \in BOOLEAN,
               asked' = [asked EXCEPT !.display = [mode |-> m, rescale |-> b]]
        PROVE  asked' \in Asked
    <3> DEFINE d == [mode |-> m, rescale |-> b]
    <3>1. d \in Request \cup {Absent} /\ asked' = [asked EXCEPT !.display = d]
      BY <2>2, <2>5
    <3> HIDE DEF d
    <3> QED
      BY <2>1, <3>1 DEF Asked
  <2> QED
    BY <2>3, <2>4, <2>5 DEF ControlRequest
<1> QED
  BY <1>1 DEF RInv, Typed, Fits, ServerFitsRequest, OrphanReplaced, ChildrenKnown, DeviceSuspect,
     Landed, Cycles, ControlRequest, agentVars, worldVars

(* A request that changes the mode or the scale notes a restart.           *)
LEMMA BeginAction == ASSUME RInv, BeginTick PROVE RInv'
<1>1. asked \in Asked /\ disp \in Display
  BY DEF RInv, Typed
<1> DEFINE d == asked.display
           new == d # Absent /\ (d.mode # desired \/ d.rescale)
<1>2. d # Absent => d.mode \in Modes /\ d.rescale \in BOOLEAN
  BY <1>1 DEF Asked, Request
<1>3. /\ asked' = [restart |-> FALSE, cycle |-> FALSE, display |-> Absent]
      /\ cycling' = IF asked.cycle /\ cycling = Absent THEN 0 ELSE cycling
      /\ desired' = IF new THEN d.mode ELSE desired
      /\ mode_ok' = (mode_ok /\ ~new)
      /\ restart_server_requested' = (restart_server_requested \/ asked.restart \/ new)
      /\ disp' = [disp EXCEPT !.scaled = @ /\ ~(new /\ d.rescale)]
      /\ pc' \in {"sleep", "cycle", "creator"}
      /\ UNCHANGED <<creator, server, last_device_id, pool, server_generation,
                     pool_fault_ticks, creatorProc, srv, dev, gen, lastGen>>
  BY DEF BeginTick
<1>4. disp' \in Display /\ disp'.mode = disp.mode /\ disp'.placed = disp.placed
  <2> DEFINE b == disp.scaled /\ ~(new /\ d.rescale)
  <2>1. disp' = [disp EXCEPT !.scaled = b] /\ b \in BOOLEAN
    BY <1>1, <1>3 DEF Display
  <2> HIDE DEF b
  <2> QED
    BY <1>1, <2>1 DEF Display
<1>5. asked' \in Asked /\ asked.restart \in BOOLEAN
  BY <1>1, <1>3 DEF Asked
<1>6. cycling' \in (0..(CYCLE_DEADLINE_TICKS - 1)) \cup {Absent} /\ desired' \in Modes
  BY <1>2, <1>3, ReconcilerAssumption DEF RInv, Typed
<1>10. (restart_server_requested \/ new) => restart_server_requested'
  BY <1>3
<1>11. /\ restart_server_requested' \in BOOLEAN /\ mode_ok' \in BOOLEAN
       /\ ~new => desired' = desired
  BY <1>3
<1> HIDE DEF d, new
<1>7. Typed'
  BY <1>3, <1>4, <1>5, <1>6, <1>11 DEF RInv, Typed
<1>8. ASSUME new PROVE Fits'
  BY <1>8, <1>10 DEF RInv, Fits, ServerFitsRequest, OrphanReplaced, ChildrenKnown, DeviceSuspect
<1>9. ASSUME ~new PROVE Fits'
  BY <1>3, <1>4, <1>9, <1>10, <1>11 DEF RInv, Fits, ServerFitsRequest, OrphanReplaced, ChildrenKnown,
     DeviceSuspect, Landed
<1>12. ChildrenKnown'
  BY <1>3 DEF RInv, ChildrenKnown
<1>13. Cycles'
  BY <1>3 DEF BeginTick, Cycles
<1> QED
  BY <1>7, <1>8, <1>9, <1>12, <1>13 DEF RInv

(* A cycle takes server and creator down.                                  *)
LEMMA CycleAction == ASSUME RInv, CyclePass PROVE RInv'
<1>1. /\ srv' = NoServer /\ creatorProc' = "none" /\ dev' = [dev EXCEPT !.owned = FALSE]
      /\ pool' = gen /\ pc' = "sleep"
      /\ UNCHANGED <<asked, creator, server, desired, mode_ok, restart_server_requested, disp,
                     gen, lastGen>>
  BY DEF CyclePass, CreatorKilled
<1>2. dev' \in Device
  BY <1>1 DEF RInv, Typed, Device
<1>3. /\ last_device_id' \in {last_device_id, Absent}
      /\ server_generation' \in {server_generation, Absent}
      /\ pool_fault_ticks' \in {pool_fault_ticks, 0}
      /\ cycling' = Absent \/ (~CycleOver(cycling) /\ cycling' = cycling + 1)
  BY DEF CyclePass
<1>4. cycling' \in (0..(CYCLE_DEADLINE_TICKS - 1)) \cup {Absent}
  <2> SUFFICES ASSUME ~CycleOver(cycling), cycling' = cycling + 1, cycling # Absent
               PROVE  cycling' \in 0..(CYCLE_DEADLINE_TICKS - 1)
    BY <1>3 DEF CyclePass, RInv, Cycles
  <2> QED
    BY ReconcilerAssumption DEF RInv, Typed, CycleOver
<1>5. Typed'
  <2>1. 0 \in 0..(POOL_FAULT_TICKS - 1)
    BY ReconcilerAssumption
  <2> QED
    BY <1>1, <1>2, <1>3, <1>4, <2>1, NoServerIs DEF RInv, Typed, NoServerTyped
<1> QED
  BY <1>1, <1>5, NoServerIs DEF RInv, Fits, ServerFitsRequest, OrphanReplaced, ChildrenKnown,
     NoServerTyped, Cycles

(* The creator is polled and supervised.                                   *)
LEMMA CreatorAction == ASSUME RInv, CreatorStage PROVE RInv'
<1>1. PICK ok \in BOOLEAN :
        /\ creator' = Ticked(creator, creatorProc, ok)
        /\ IF Spawns(creator, creatorProc)
             THEN creatorProc' = IF ok THEN "running" ELSE "none"
             ELSE creatorProc' = Reaped(creatorProc)
  BY DEF CreatorStage
<1>2. /\ pc' = "display"
      /\ UNCHANGED <<asked, server, desired, last_device_id, mode_ok,
                     restart_server_requested, pool, server_generation, pool_fault_ticks,
                     cycling, srv, dev, disp, gen, lastGen>>
  BY DEF CreatorStage
<1>3. creator \in Supervised /\ creatorProc \in {"none", "running", "exited"}
  BY DEF RInv, Typed
<1>4. /\ creator' \in Supervised
      /\ creatorProc = "running" \/ (Spawns(creator, creatorProc) /\ ok) => creator'.running
      /\ creator.ever \/ (Spawns(creator, creatorProc) /\ ok) => creator'.ever
  BY <1>1, <1>3, TickedTyped
<1>5. creatorProc' \in {"none", "running"} /\
        (creatorProc' = "running" => creatorProc = "running" \/ (Spawns(creator, creatorProc) /\ ok))
  BY <1>1, <1>3 DEF Reaped
<1> QED
  BY <1>2, <1>4, <1>5 DEF RInv, Typed, Fits, ServerFitsRequest, OrphanReplaced, ChildrenKnown,
     DeviceSuspect, Landed, Cycles

(* A device that is away or new is noticed, a display put right under a    *)
(* running server costs it a restart, and one not put right stays wrong.   *)
LEMMA DisplayAction == ASSUME RInv, DisplayStage PROVE RInv'
<1> DEFINE id == IF dev.up THEN dev.id ELSE Absent
<1>1. PICK corrected \in BOOLEAN :
        /\ IF dev.up /\ ~Landed(disp)
             THEN SetDisplayMode(corrected)
             ELSE ~corrected /\ UNCHANGED <<disp, gen, faults>>
        /\ restart_server_requested' =
             (restart_server_requested \/ Replaced(id) \/ Outdated(corrected))
  BY DEF DisplayStage
<1>2. /\ pc' = "pool" /\ last_device_id' = id
      /\ mode_ok' = (dev.up /\ Landed(disp') /\ disp'.scaled)
      /\ UNCHANGED <<asked, creator, server, desired, pool, server_generation,
                     pool_fault_ticks, cycling, creatorProc, srv, dev, lastGen>>
  BY DEF DisplayStage
<1>3. /\ disp \in Display /\ dev.id \in 1..Identities /\ dev.up \in BOOLEAN
      /\ dev.id # Absent /\ desired \in Modes /\ gen \in 0..Generations
      /\ disp.mode \in Modes \cup {DefaultMode} /\ disp.placed \in BOOLEAN
  BY FieldsTyped DEF RInv, Typed
<1>4. gen' \in 0..Generations
  BY <1>1, <1>3, ReconcilerAssumption DEF SetDisplayMode
<1>5. disp' \in Display
  BY <1>1, <1>3 DEF SetDisplayMode, Display
<1>7. ~Landed(disp) => ~dev.up \/ corrected \/ ~Landed(disp')
  <2> SUFFICES ASSUME ~Landed(disp), dev.up, ~corrected PROVE ~Landed(disp')
    OBVIOUS
  <2>1. disp' = disp \/ disp' = [disp EXCEPT !.mode = desired, !.placed = FALSE]
    BY <1>1 DEF SetDisplayMode
  <2>2. CASE disp' = [disp EXCEPT !.mode = desired, !.placed = FALSE]
    BY <1>3, <2>2 DEF Landed, Display
  <2>3. CASE disp' = disp
    BY <2>3, <1>2 DEF Landed
  <2> QED
    BY <2>1, <2>2, <2>3
<1>8. Replaced(id) \in BOOLEAN /\ Outdated(corrected) \in BOOLEAN
      /\ restart_server_requested' \in BOOLEAN /\ mode_ok' \in BOOLEAN
  BY <1>1, <1>2 DEF Replaced, Outdated
<1>9. restart_server_requested \/ Replaced(id) \/ Outdated(corrected) => restart_server_requested'
  BY <1>1
<1>10. id \in (1..Identities) \cup {Absent} /\ (dev.up => id = dev.id) /\ (~dev.up => id = Absent)
  BY <1>3
<1> HIDE DEF id
<1>11. Typed'
  BY <1>2, <1>4, <1>5, <1>8, <1>10 DEF RInv, Typed
<1>12. ASSUME srv.proc = "running", DeviceSuspect PROVE DeviceSuspect'
  <2>1. server.ever
    BY <1>12 DEF RInv, ChildrenKnown
  <2>2. CASE restart_server_requested
    BY <1>9, <2>2 DEF DeviceSuspect
  <2>3. CASE ~dev.up
    BY <1>2, <2>3 DEF DeviceSuspect
  <2>4. CASE dev.up /\ last_device_id # dev.id
    <3>1. Replaced(id)
      BY <1>3, <1>10, <2>1, <2>4 DEF Replaced
    <3> QED
      BY <1>9, <3>1 DEF DeviceSuspect
  <2> QED
    BY <1>12, <2>2, <2>3, <2>4 DEF DeviceSuspect
<1>13. OrphanReplaced'
  BY <1>2, <1>12 DEF RInv, Fits, OrphanReplaced
<1>14. ServerFitsRequest'
  <2> SUFFICES ASSUME srv.proc = "running", srv.born # desired, ~Landed(disp), ~DeviceSuspect
               PROVE  DeviceSuspect' \/ ~Landed(disp')
    BY <1>2, <1>12 DEF RInv, Fits, ServerFitsRequest, Landed
  <2>1. server.running
    BY DEF RInv, ChildrenKnown
  <2>2. corrected => Outdated(corrected)
    BY <2>1 DEF Outdated
  <2>3. dev.up
    BY DEF DeviceSuspect
  <2> QED
    BY <1>7, <1>9, <2>2, <2>3 DEF DeviceSuspect
<1> QED
  BY <1>2, <1>11, <1>13, <1>14 DEF RInv, Fits, ChildrenKnown, Cycles

(* A fault that has lasted is acted on, by a restart of server or creator. *)
LEMMA PoolAction == ASSUME RInv, PoolStage PROVE RInv'
<1>1. PICK r \in {gen, Absent} :
        LET remedy == Remedy(r)
            ticks == IF remedy = "None" THEN 0 ELSE pool_fault_ticks + 1
            act == ticks >= POOL_FAULT_TICKS
        IN  /\ pool' = r
            /\ pool_fault_ticks' = IF act THEN 0 ELSE ticks
            /\ restart_server_requested' =
                 (restart_server_requested \/ (act /\ remedy = "RestartServer"))
            /\ IF act /\ remedy = "RestartCreator"
                 THEN CreatorKilled
                 ELSE UNCHANGED <<creatorProc, dev>>
  BY DEF PoolStage
<1>2. /\ pc' = "server"
      /\ UNCHANGED <<asked, creator, server, desired, last_device_id, mode_ok,
                     server_generation, cycling, srv, disp, gen, lastGen>>
  BY DEF PoolStage
<1> DEFINE ticks == IF Remedy(r) = "None" THEN 0 ELSE pool_fault_ticks + 1
<1>3. ticks \in Nat
  BY ReconcilerAssumption DEF RInv, Typed
<1>4. pool_fault_ticks' \in 0..(POOL_FAULT_TICKS - 1) /\ pool' \in (0..Generations) \cup {Absent}
  <2>1. pool_fault_ticks' = IF ticks >= POOL_FAULT_TICKS THEN 0 ELSE ticks
    BY <1>1
  <2> HIDE DEF ticks
  <2>2. pool_fault_ticks' \in 0..(POOL_FAULT_TICKS - 1)
    BY <1>3, <2>1, ReconcilerAssumption
  <2> QED
    BY <1>1, <2>2 DEF RInv, Typed
<1>5. /\ restart_server_requested => restart_server_requested'
      /\ restart_server_requested' \in BOOLEAN
  BY <1>1 DEF RInv, Typed
<1>6. \/ UNCHANGED <<creatorProc, dev>>
      \/ creatorProc' = "none" /\ dev' = [dev EXCEPT !.owned = FALSE]
  BY <1>1 DEF CreatorKilled
<1>7. /\ dev' \in Device /\ dev'.up = dev.up /\ dev'.id = dev.id
      /\ creatorProc' \in {creatorProc, "none"}
  BY <1>6 DEF RInv, Typed, Device
<1>8. Typed'
  BY <1>2, <1>4, <1>5, <1>7 DEF RInv, Typed
<1> QED
  BY <1>2, <1>5, <1>7, <1>8 DEF RInv, Fits, ServerFitsRequest, OrphanReplaced, ChildrenKnown,
     DeviceSuspect, Landed, Cycles

(* A server that is spawned waits for a pool, and is built for the mode    *)
(* its display has; if that is another by now, the display is not right.   *)
LEMMA ServerAction == ASSUME RInv, ServerStage PROVE RInv'
<1> DEFINE poll == IF restart_server_requested THEN "none" ELSE srv.proc
           left == IF poll = "running" THEN srv ELSE NoServer
           new == [NoServer EXCEPT !.proc = "running", !.born = disp.mode]
<1>1. /\ pc' = "sleep" /\ restart_server_requested' = FALSE
      /\ UNCHANGED <<asked, creator, desired, last_device_id, mode_ok, pool,
                     pool_fault_ticks, cycling, creatorProc, dev, disp, gen, lastGen>>
  BY DEF ServerStage
<1>2. \/ /\ poll = "none"
         /\ srv' = left /\ UNCHANGED <<server, server_generation>>
      \/ \E ok \in BOOLEAN :
           /\ server' = Ticked(server, poll, ok)
           /\ \/ /\ Spawns(server, poll) /\ ok
                 /\ dev.up /\ srv' = new
              \/ srv' = left
           /\ \/ server_generation' \in {server_generation, Absent}
              \/ server_generation' = pool /\ pool \notin {0, Absent}
  BY DEF ServerStage
<1>3. /\ srv \in ServerProc /\ server \in Supervised /\ disp \in Display
      /\ poll \in {"none", "running", "exited"}
      /\ pool \in (0..Generations) \cup {Absent}
      /\ server_generation \in (1..Generations) \cup {Absent}
  BY FieldsTyped DEF RInv, Typed
<1>4. /\ left \in ServerProc
      /\ left.proc = "running" => left = srv /\ poll = "running" /\ ~restart_server_requested
  BY <1>3, NoServerIs DEF NoServerTyped
<1>5. new \in ServerProc /\ new.proc = "running" /\ new.attach = "waiting" /\ new.born = disp.mode
  BY <1>3, NoServerIs DEF NoServerTyped, ServerProc, Display
<1> HIDE DEF left, new
<1>6. /\ server' \in Supervised /\ (srv' = left \/ (srv' = new /\ server'.running /\ server'.ever))
      /\ poll = "running" => server'.running
      /\ server.ever => server'.ever
      /\ server_generation' \in (1..Generations) \cup {Absent}
  <2>1. CASE poll = "none" /\ srv' = left /\ UNCHANGED <<server, server_generation>>
    BY <1>3, <2>1
  <2>2. CASE ~(poll = "none" /\ srv' = left /\ UNCHANGED <<server, server_generation>>)
    <3>0. PICK ok \in BOOLEAN :
            /\ server' = Ticked(server, poll, ok)
            /\ \/ /\ Spawns(server, poll) /\ ok
                  /\ dev.up /\ srv' = new
               \/ srv' = left
            /\ \/ server_generation' \in {server_generation, Absent}
               \/ server_generation' = pool /\ pool \notin {0, Absent}
      BY <1>2, <2>2
    <3>1. /\ server' \in Supervised
          /\ poll = "running" \/ (Spawns(server, poll) /\ ok) => server'.running
          /\ server.ever \/ (Spawns(server, poll) /\ ok) => server'.ever
      BY <1>3, <3>0, TickedTyped
    <3>2. server_generation' \in (1..Generations) \cup {Absent}
      BY <1>3, <3>0, ReconcilerAssumption
    <3> QED
      BY <3>0, <3>1, <3>2
  <2> QED
    BY <2>1, <2>2
<1> HIDE DEF poll
<1>7. Typed'
  BY <1>1, <1>4, <1>5, <1>6 DEF RInv, Typed
<1>8. ASSUME srv' = new PROVE Fits' /\ (srv'.proc = "running" => server'.running /\ server'.ever)
  <2>1. disp.mode # desired => ~Landed(disp)
    BY DEF Landed
  <2>2. server'.running /\ server'.ever
    BY <1>4, <1>5, <1>6, <1>8 DEF RInv, ChildrenKnown
  <2> QED
    BY <1>1, <1>5, <1>8, <2>1, <2>2 DEF Fits, ServerFitsRequest, OrphanReplaced, Landed
<1>9. ASSUME srv' = left PROVE Fits' /\ (srv'.proc = "running" => server'.running /\ server'.ever)
  BY <1>1, <1>4, <1>6, <1>9 DEF RInv, Fits, ServerFitsRequest, OrphanReplaced,
     ChildrenKnown, DeviceSuspect, Landed
<1>10. ChildrenKnown' /\ Fits' /\ Cycles'
  BY <1>1, <1>6, <1>8, <1>9 DEF RInv, ChildrenKnown, Cycles
<1> QED
  BY <1>7, <1>10 DEF RInv

(* A device that goes is away, and one that comes has a new name.          *)
LEMMA DeviceActions ==
  ASSUME RInv, DeviceLeaves \/ DeviceBlinks \/ DeviceArrives
  PROVE  RInv'
<1>1. /\ dev \in Device /\ disp \in Display /\ srv \in ServerProc
      /\ srv.proc \in {"none", "running", "exited"} /\ srv.attach \in {"waiting", "live", "dead"}
      /\ dev.id \in 1..Identities
  BY FieldsTyped DEF RInv, Typed
<1>2. /\ UNCHANGED <<pc, asked, agentVars, creatorProc>>
      /\ UNCHANGED <<creator, server, desired, last_device_id, mode_ok,
                     restart_server_requested, pool, server_generation, pool_fault_ticks,
                     cycling>>
  BY DEF DeviceLeaves, DeviceBlinks, DeviceArrives, agentVars
<1>3. CASE DeviceLeaves \/ DeviceBlinks
  <2>1. /\ dev' = [dev EXCEPT !.up = FALSE, !.owned = FALSE] /\ gen' = 0
        /\ srv' = Orphaned /\ UNCHANGED <<disp, lastGen>>
    BY <1>3 DEF DeviceLeaves, DeviceBlinks, DeviceGone
  <2>2. dev' \in Device /\ ~dev'.up
    BY <1>1, <2>1 DEF Device
  <2>3. srv' \in ServerProc /\ srv'.proc = srv.proc
    <3> DEFINE a == IF srv.attach = "live" THEN "dead" ELSE srv.attach
    <3>1. srv' = [srv EXCEPT !.attach = a]
      BY <1>1, <2>1 DEF Orphaned, ServerProc
    <3>2. a \in {"waiting", "live", "dead"}
      BY <1>1
    <3> HIDE DEF a
    <3> QED
      BY <1>1, <3>1, <3>2 DEF ServerProc
  <2>4. Typed'
    BY <1>2, <2>1, <2>2, <2>3, ReconcilerAssumption DEF RInv, Typed
  <2> QED
    BY <1>2, <2>2, <2>3, <2>4 DEF RInv, Fits, ServerFitsRequest, OrphanReplaced, ChildrenKnown,
       DeviceSuspect, Cycles
<1>4. CASE DeviceArrives
  <2>1. /\ dev' = [id |-> NewIdentity, up |-> TRUE, owned |-> TRUE]
        /\ disp' \in {[mode |-> DefaultMode, placed |-> FALSE, scaled |-> FALSE],
                      [disp EXCEPT !.scaled = FALSE]}
        /\ lastGen' \in {0, lastGen} /\ UNCHANGED <<srv, gen>>
    BY <1>4 DEF DeviceArrives
  <2>2. dev' \in Device /\ dev'.id # last_device_id
    BY <1>1, <2>1, NewIdentityFresh DEF Device
  <2>3. disp' \in Display
    <3>1. CASE disp' = [mode |-> DefaultMode, placed |-> FALSE, scaled |-> FALSE]
      BY <3>1 DEF Display
    <3>2. CASE disp' = [disp EXCEPT !.scaled = FALSE]
      BY <1>1, <3>2 DEF Display
    <3> QED
      BY <2>1, <3>1, <3>2
  <2>4. Typed'
    BY <1>2, <2>1, <2>2, <2>3, ReconcilerAssumption DEF RInv, Typed
  <2> QED
    BY <1>2, <2>1, <2>2, <2>4 DEF RInv, Fits, ServerFitsRequest, OrphanReplaced, ChildrenKnown,
       DeviceSuspect, Cycles
<1> QED
  BY <1>3, <1>4

(* Pools come and go, a display drifts and settles.                        *)
LEMMA DisplayActions ==
  ASSUME RInv, PoolBuilt \/ PoolTornDown \/ DisplayDrifts \/ ScaleSettles
  PROVE  RInv'
<1>1. /\ disp \in Display /\ gen \in 0..Generations /\ lastGen \in 0..Generations
      /\ desired \in Modes
  BY DEF RInv, Typed
<1>2. /\ UNCHANGED <<pc, asked, agentVars, creatorProc, srv, dev>>
      /\ UNCHANGED <<creator, server, desired, last_device_id, mode_ok,
                     restart_server_requested, pool, server_generation, pool_fault_ticks,
                     cycling>>
  BY DEF PoolBuilt, PoolTornDown, DisplayDrifts, ScaleSettles, agentVars
<1>3. gen' \in 0..Generations /\ lastGen' \in 0..Generations
  <2>1. (lastGen % Generations) + 1 \in 0..Generations
    BY <1>1, ReconcilerAssumption
  <2> QED
    BY <1>1, <2>1, ReconcilerAssumption
       DEF PoolBuilt, PoolTornDown, DisplayDrifts, ScaleSettles
<1>4. disp' \in Display /\ (~Landed(disp) => ~Landed(disp'))
  <2>1. CASE disp' = disp
    BY <1>1, <2>1
  <2>2. CASE disp' = [disp EXCEPT !.scaled = TRUE]
    BY <1>1, <2>2 DEF Display, Landed
  <2>3. CASE disp' = [disp EXCEPT !.placed = FALSE]
    BY <1>1, <2>3 DEF Display, Landed
  <2>4. ASSUME NEW m \in (Modes \cup {DefaultMode}) \ {desired, disp.mode},
               disp' = [disp EXCEPT !.mode = m]
        PROVE  disp' \in Display /\ ~Landed(disp')
    BY <1>1, <2>4 DEF Display, Landed
  <2> QED
    BY <2>1, <2>2, <2>3, <2>4 DEF PoolBuilt, PoolTornDown, DisplayDrifts, ScaleSettles
<1>5. Typed'
  BY <1>2, <1>3, <1>4 DEF RInv, Typed
<1> QED
  BY <1>2, <1>4, <1>5 DEF RInv, Fits, ServerFitsRequest, OrphanReplaced, ChildrenKnown,
     DeviceSuspect, Landed, Cycles

(* A server attaches to a pool that is there; a child may die.             *)
LEMMA ChildActions ==
  ASSUME RInv, ServerAttaches \/ ChildDies
  PROVE  RInv'
<1>1. /\ UNCHANGED <<pc, asked, agentVars, disp, gen, lastGen>>
      /\ UNCHANGED <<creator, server, desired, last_device_id, mode_ok,
                     restart_server_requested, pool, server_generation, pool_fault_ticks,
                     cycling>>
  BY DEF ServerAttaches, ChildDies, agentVars
<1>2. dev \in Device /\ srv \in ServerProc
  BY DEF RInv, Typed
<1>3. \/ srv' = [srv EXCEPT !.attach = "live"] /\ UNCHANGED <<creatorProc, dev>>
      \/ srv' = srv /\ creatorProc' = "exited" /\ dev' = [dev EXCEPT !.owned = FALSE]
      \/ srv' = [NoServer EXCEPT !.proc = "exited"] /\ UNCHANGED <<creatorProc, dev>>
  BY DEF ServerAttaches, ChildDies
<1>4. /\ dev' \in Device /\ dev'.id = dev.id /\ dev'.up = dev.up
      /\ creatorProc' \in {creatorProc, "exited"}
  BY <1>2, <1>3 DEF Device
<1>5. /\ srv' \in ServerProc
      /\ \/ srv'.proc = "exited"
         \/ srv'.proc = srv.proc /\ srv'.born = srv.born /\ srv'.attach \in {srv.attach, "live"}
  BY <1>2, <1>3, NoServerIs DEF NoServerTyped, ServerProc
<1>6. Typed'
  BY <1>1, <1>4, <1>5 DEF RInv, Typed
<1> QED
  BY <1>1, <1>4, <1>5, <1>6 DEF RInv, Fits, ServerFitsRequest, OrphanReplaced, ChildrenKnown,
     DeviceSuspect, Landed, Cycles

LEMMA AgentStepHolds == RInv /\ [AgentNext]_allVars => RInv'
<1>1. CASE UNCHANGED allVars
  BY <1>1 DEF allVars, agentVars, worldVars, RInv, Typed, Fits, ServerFitsRequest, OrphanReplaced,
     ChildrenKnown, DeviceSuspect, Landed, Cycles
<1> QED
  BY <1>1, ControlAction, BeginAction, CycleAction, CreatorAction, DisplayAction, PoolAction,
     ServerAction, DeviceActions, DisplayActions, ChildActions DEF AgentNext, Tick, World

(* However readings, requests, deaths and rebuilds interleave: a server    *)
(* built for another mode or left with a dead device is replaced at the    *)
(* latest when the agent next looks, and no child escapes supervision.     *)
THEOREM AgentInvariant == AgentSpec => []ReconcilerInv
<1>1. AgentInit => RInv
  BY AgentInitHolds, RInvIs DEF AgentInit, Cycles
<1>2. RInv => ReconcilerInv
  BY RInvIs
<1> QED
  BY <1>1, <1>2, AgentStepHolds, PTL DEF AgentSpec

=================================================================================

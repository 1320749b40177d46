---------------------------- MODULE FoundationProofs -------------------------
(***************************************************************************)
(* Proofs about what every request rests on: the ids users and groups get  *)
(* (SnowflakeId) and the packets a connection carries (PacketFraming).     *)
(*                                                                         *)
(* First, what the generator guarantees while the clock is never set back, *)
(* for any number of threads, calls and restarts.                          *)
(*                                                                         *)
(* Then that both readers keep in step with the writer, for any length of  *)
(* the header and of the packets and however the stream is cut up, and     *)
(* that the framing implements PacketQueue.  The inductive invariant says  *)
(* that the packets lie end to end in the stream (LaidOut), that the last  *)
(* packet handed over lies before the reader's position (LastTaken), and   *)
(* that the packets between them could not be parsed or came after one of  *)
(* a size out of range (Passed).                                           *)
(***************************************************************************)
EXTENDS SnowflakeId, PacketFraming, TLAPS

\* Where the stamps issued so far stand with respect to the clock and to the
\* generator's last timestamp and sequence.
Past(e) ==
    /\ e.ts <= clock
    /\ up /\ ~Locked => e.ts < clock \/ (e.ts = last /\ e.seq <= sequence)
    /\ Locked => e.ts <= last

\* The clock is not behind the generator, at most one thread holds the mutex, and a
\* thread that waited found the clock past the last timestamp.
Settled ==
    /\ last <= clock
    /\ up \/ ~Locked
    /\ \A t \in Thread : pc[t] = "reread" => last < clock /\ sequence = 0
    /\ \A t \in Thread : pc[t] = "wait" => sequence = 0
    /\ \A t, w \in Thread : pc[t] \in {"wait", "reread"} /\ pc[w] \in {"wait", "reread"}
                              => t = w

AllPast == \A i \in DOMAIN issued : Past(issued[i])

\* The stamps issued so far are in order.
Ordered == \A i, j \in DOMAIN issued : i < j => Before(issued[i], issued[j])

IInv == TypeOK /\ (ClockSteady => Settled /\ AllPast /\ Ordered)

\* The successor of a sequence number is one more unless it wraps.
LEMMA SequenceStep ==
    ASSUME NEW s \in 0..MaxSequence
    PROVE  /\ NextSequence(s) \in 0..MaxSequence
           /\ ~Wraps(s) => NextSequence(s) = s + 1
           /\ Wraps(s) => NextSequence(s) = 0
<1>1. CASE s = MaxSequence
  <2>1. (s + 1) % (MaxSequence + 1) = 0
    BY <1>1, SequenceAssumption
  <2> QED BY <2>1, SequenceAssumption DEF NextSequence, Wraps
<1>2. CASE s # MaxSequence
  <2>1. (s + 1) % (MaxSequence + 1) = s + 1
    BY <1>2, SequenceAssumption
  <2> QED BY <2>1, <1>2, SequenceAssumption DEF NextSequence, Wraps
<1> QED BY <1>1, <1>2

\* The state of the generator has its type after every step.  It holds of
\* every clock, including one that is set back.
THEOREM TypeCorrect == Spec => []TypeOK
<1>1. Init => TypeOK
  BY SequenceAssumption, BoundAssumption DEF Init, TypeOK
<1>2. TypeOK /\ [Next]_vars => TypeOK'
  <2> SUFFICES ASSUME TypeOK, [Next]_vars PROVE TypeOK'
    OBVIOUS
  <2> USE DEF TypeOK
  <2>1. ASSUME NEW t \in Thread, Call(t) PROVE TypeOK'
    BY <2>1, BoundAssumption DEF Call
  <2>2. ASSUME NEW t \in Thread, Generate(t) PROVE TypeOK'
    <3>1. NextSequence(sequence) \in 0..MaxSequence
      BY SequenceStep
    <3>2. ASSUME NEW s \in 0..MaxSequence, Issue(t, s) PROVE
             /\ issued' \in Seq(Stamp) /\ last' \in Nat
             /\ sequence' \in 0..MaxSequence
             /\ pc' \in [Thread -> {"idle", "call", "wait", "reread"}]
      <4>1. [ts |-> clock, seq |-> s] \in Stamp
        BY DEF Stamp
      <4> QED BY <3>2, <4>1 DEF Issue
    <3> QED BY <2>2, <3>1, <3>2, SequenceAssumption DEF Generate
  <2>3. ASSUME NEW t \in Thread, Exhaust(t) PROVE TypeOK'
    BY <2>3, SequenceStep DEF Exhaust
  <2>4. ASSUME NEW t \in Thread, WaitOver(t) PROVE TypeOK'
    BY <2>4 DEF WaitOver
  <2>5. ASSUME NEW t \in Thread, Reread(t) PROVE TypeOK'
    <3>1. [ts |-> clock, seq |-> sequence] \in Stamp
      BY DEF Stamp
    <3> QED BY <2>5, <3>1 DEF Reread, Issue
  <2>6. ASSUME NEW t \in Thread, Throw(t) PROVE TypeOK'
    BY <2>6 DEF Throw, Stop
  <2>7. CASE Crash
    <3>1. crashes' \in 0..MaxCrashes
      BY <2>7, BoundAssumption DEF Crash
    <3> QED BY <2>7, <3>1 DEF Crash, Stop
  <2>8. CASE Restart
    BY <2>8, SequenceAssumption DEF Restart
  <2>9. CASE Tick
    BY <2>9 DEF Tick
  <2>10. CASE SetBack
    BY <2>10, BoundAssumption DEF SetBack
  <2>11. ASSUME UNCHANGED vars PROVE TypeOK'
    BY <2>11 DEF vars
  <2> QED
    BY <2>1, <2>2, <2>3, <2>4, <2>5, <2>6, <2>7, <2>8, <2>9, <2>10, <2>11
    DEF Next, Work, Poll, Rest
<1> QED BY <1>1, <1>2, PTL DEF Spec

\* Handing out a stamp that comes after all the others keeps them in order.
LEMMA IssueLater ==
    ASSUME TypeOK, Ordered, NEW e \in Stamp,
           \A i \in DOMAIN issued : Before(issued[i], e),
           issued' = Append(issued, e)
    PROVE  /\ Ordered'
           /\ DOMAIN issued' = DOMAIN issued \union {Len(issued) + 1}
           /\ \A i \in DOMAIN issued : issued'[i] = issued[i]
           /\ issued'[Len(issued) + 1] = e
<1>1. issued \in Seq(Stamp)
  BY DEF TypeOK
<1>2. /\ DOMAIN issued' = 1..Len(issued) + 1
      /\ DOMAIN issued = 1..Len(issued) /\ Len(issued) \in Nat
      /\ \A i \in 1..Len(issued) : issued'[i] = issued[i]
      /\ issued'[Len(issued) + 1] = e
  BY <1>1
<1>3. Ordered'
  <2> SUFFICES ASSUME NEW i \in DOMAIN issued', NEW j \in DOMAIN issued', i < j
               PROVE  Before(issued'[i], issued'[j])
    BY DEF Ordered, Before
  <2>1. i \in DOMAIN issued /\ issued'[i] = issued[i]
    BY <1>2
  <2>2. CASE j \in DOMAIN issued
    BY <2>1, <2>2, <1>2 DEF Ordered
  <2>3. CASE j = Len(issued) + 1
    BY <2>1, <2>3, <1>2
  <2> QED BY <2>2, <2>3, <1>2
<1> QED BY <1>2, <1>3

\* A step that hands out no stamp leaves their order alone.
LEMMA OrderKept == ASSUME Ordered, UNCHANGED issued PROVE Ordered'
  BY DEF Ordered, Before

\* A stamp issued is a pair of numbers.
LEMMA StampNumbers ==
    ASSUME TypeOK, NEW i \in DOMAIN issued
    PROVE  issued[i].ts \in Nat /\ issued[i].seq \in 0..MaxSequence
<1>1. issued[i] \in Stamp
  BY DEF TypeOK
<1> QED BY <1>1 DEF Stamp

\* What the state says of the past survives a step that issues nothing, keeps
\* the generator and the mutex as they are, and does not set the clock back.
LEMMA PastKept ==
    ASSUME TypeOK, TypeOK', AllPast, UNCHANGED <<issued, last, sequence, up>>,
           clock' >= clock, Locked' <=> Locked
    PROVE  AllPast'
<1> SUFFICES ASSUME NEW i \in DOMAIN issued PROVE Past(issued[i])'
  BY DEF AllPast
<1>1. issued[i].ts \in Nat /\ issued[i].seq \in 0..MaxSequence
  BY StampNumbers
<1>2. Past(issued[i])
  BY DEF AllPast
<1>3. clock \in Nat /\ clock' \in Nat
  BY DEF TypeOK
<1>4. PICK n \in Nat : n = issued[i].ts
  BY <1>1
<1>5. issued'[i] = issued[i] /\ last' = last /\ sequence' = sequence /\ up' = up
  OBVIOUS
<1>6. n <= clock'
  BY <1>2, <1>3, <1>4 DEF Past
<1>7. n < clock => n < clock'
  BY <1>3, <1>4
<1> QED BY <1>2, <1>4, <1>5, <1>6, <1>7 DEF Past

\* Issuing a stamp that is later than the others, at the present clock, leaves
\* it and the others in the past of the generator.
LEMMA Issued ==
    ASSUME TypeOK, TypeOK', Ordered, NEW t \in Thread, NEW s \in 0..MaxSequence,
           Issue(t, s), UNCHANGED <<clock, up>>, ~Locked',
           \A i \in DOMAIN issued : Before(issued[i], [ts |-> clock, seq |-> s])
    PROVE  Ordered' /\ AllPast'
<1>1. [ts |-> clock, seq |-> s] \in Stamp
  BY DEF Stamp, TypeOK
<1>2. /\ Ordered'
      /\ DOMAIN issued' = DOMAIN issued \union {Len(issued) + 1}
      /\ \A i \in DOMAIN issued : issued'[i] = issued[i]
      /\ issued'[Len(issued) + 1] = [ts |-> clock, seq |-> s]
  BY <1>1, IssueLater DEF Issue
<1>3. last' = clock /\ sequence' = s /\ clock' = clock /\ clock \in Nat
  BY DEF Issue, TypeOK
<1>4. ASSUME NEW i \in DOMAIN issued' PROVE Past(issued[i])'
  <2>1. CASE i \in DOMAIN issued
    <3>1. issued[i].ts \in Nat /\ issued[i].seq \in 0..MaxSequence
      BY <2>1, StampNumbers
    <3>2. issued'[i] = issued[i] /\ Before(issued[i], [ts |-> clock, seq |-> s])
      BY <1>2, <2>1
    <3> QED BY <1>3, <3>1, <3>2, SequenceAssumption DEF Past, Before
  <2>2. CASE i = Len(issued) + 1
    BY <1>2, <1>3, <2>2, SequenceAssumption DEF Past
  <2> QED BY <1>2, <2>1, <2>2
<1> QED BY <1>2, <1>4 DEF AllPast

\* IInv is inductive: a step that sets the clock back ends what it says.
LEMMA Inductive ==
    ASSUME IInv, TypeOK', [Next]_vars
    PROVE  IInv'
<1> SUFFICES ASSUME ClockSteady' PROVE Settled' /\ AllPast' /\ Ordered'
  BY DEF IInv
<1>0. /\ ClockSteady /\ TypeOK /\ Settled /\ AllPast /\ Ordered
      /\ clock \in Nat /\ last \in Nat /\ sequence \in 0..MaxSequence
      /\ pc \in [Thread -> {"idle", "call", "wait", "reread"}]
  <2>1. setBacks \in Nat /\ ~SetBack /\ setBacks' = setBacks
    BY DEF ClockSteady, IInv, TypeOK, SetBack, Next, Work, Poll, Rest, Call, Generate,
       Exhaust, WaitOver, Reread, Throw, Crash, Stop, Restart, Tick, vars
  <2> QED BY <2>1 DEF ClockSteady, IInv, TypeOK
<1>1. ASSUME NEW t \in Thread, Call(t) PROVE Settled' /\ AllPast' /\ Ordered'
  <2>1. Locked' <=> Locked
    BY <1>0, <1>1 DEF Call, Locked
  <2>2. AllPast' /\ Ordered'
    BY <1>0, <1>1, <2>1, PastKept, OrderKept DEF Call
  <2>3. Settled'
    BY <1>0, <1>1 DEF Call, Settled
  <2> QED BY <2>2, <2>3
<1>2. ASSUME NEW t \in Thread, Generate(t) PROVE Settled' /\ AllPast' /\ Ordered'
  <2>1. ~Locked /\ ~Locked'
    BY <1>0, <1>2 DEF Generate, Issue, Locked
  <2>2. PICK s \in 0..MaxSequence :
           /\ Issue(t, s)
           /\ clock > last \/ (clock = last /\ s = sequence + 1)
    BY <1>0, <1>2, SequenceStep, SequenceAssumption DEF Generate
  <2>3. ASSUME NEW i \in DOMAIN issued
        PROVE  Before(issued[i], [ts |-> clock, seq |-> s])
    <3>1. issued[i].ts \in Nat /\ issued[i].seq \in 0..MaxSequence
      BY <1>0, StampNumbers
    <3>2. Past(issued[i])
      BY <1>0 DEF AllPast
    <3>3. issued[i].ts < clock \/ (issued[i].ts = last /\ issued[i].seq <= sequence)
      BY <1>2, <2>1, <3>2 DEF Past, Generate
    <3> QED BY <1>0, <2>2, <3>1, <3>3, SequenceAssumption DEF Before
  <2>4. AllPast' /\ Ordered'
    BY <1>0, <1>2, <2>1, <2>2, <2>3, Issued DEF Generate
  <2>5. Settled'
    BY <1>0, <1>2, <2>1, <2>2 DEF Settled, Issue, Generate, Locked
  <2> QED BY <2>4, <2>5
<1>3. ASSUME NEW t \in Thread, Exhaust(t) PROVE Settled' /\ AllPast' /\ Ordered'
  <2>1. ~Locked /\ Locked'
    BY <1>0, <1>3 DEF Exhaust, Locked
  <2>2. ASSUME NEW i \in DOMAIN issued PROVE Past(issued[i])'
    <3>1. issued[i].ts \in Nat
      BY <1>0, StampNumbers
    <3>2. Past(issued[i])
      BY <1>0 DEF AllPast
    <3> QED BY <1>0, <1>3, <2>1, <3>1, <3>2 DEF Past, Exhaust
  <2>3. AllPast' /\ Ordered'
    BY <1>0, <1>3, <2>2, OrderKept DEF AllPast, Exhaust
  <2>4. Settled'
    BY <1>0, <1>3, <2>1, SequenceStep DEF Exhaust, Settled, Locked
  <2> QED BY <2>3, <2>4
<1>4. ASSUME NEW t \in Thread, WaitOver(t) PROVE Settled' /\ AllPast' /\ Ordered'
  <2>1. Locked /\ Locked'
    BY <1>0, <1>4 DEF WaitOver, Waiting, Locked
  <2>2. AllPast' /\ Ordered'
    BY <1>0, <1>4, <2>1, PastKept, OrderKept DEF WaitOver
  <2>3. Settled'
    BY <1>0, <1>4 DEF WaitOver, Waiting, WaitIsOver, Settled
  <2> QED BY <2>2, <2>3
<1>5. ASSUME NEW t \in Thread, Reread(t) PROVE Settled' /\ AllPast' /\ Ordered'
  <2>1. Locked /\ ~Locked'
    BY <1>0, <1>5 DEF Reread, Issue, Locked, Settled
  <2>2. ASSUME NEW i \in DOMAIN issued
        PROVE  Before(issued[i], [ts |-> clock, seq |-> sequence])
    <3>1. issued[i].ts \in Nat
      BY <1>0, StampNumbers
    <3>2. Past(issued[i])
      BY <1>0 DEF AllPast
    <3> QED BY <1>0, <1>5, <2>1, <3>1, <3>2 DEF Past, Before, Settled, Reread
  <2>3. AllPast' /\ Ordered'
    BY <1>0, <1>5, <2>1, <2>2, Issued DEF Reread
  <2>4. Settled'
    BY <1>0, <1>5, <2>1 DEF Settled, Reread, Issue, Locked
  <2> QED BY <2>3, <2>4
<1>6. ASSUME Stop PROVE Settled' /\ AllPast' /\ Ordered'
  <2>1. ~Locked'
    BY <1>6 DEF Stop, Locked
  <2>2. ASSUME NEW i \in DOMAIN issued PROVE Past(issued[i])'
    <3>1. Past(issued[i])
      BY <1>0 DEF AllPast
    <3> QED BY <1>6, <2>1, <3>1 DEF Past, Stop
  <2>3. AllPast' /\ Ordered'
    BY <1>0, <1>6, <2>2, OrderKept DEF AllPast, Stop
  <2>4. Settled'
    BY <1>0, <1>6, <2>1 DEF Stop, Settled
  <2> QED BY <2>3, <2>4
<1>7. CASE Restart
  <2>1. ASSUME NEW i \in DOMAIN issued PROVE Past(issued[i])'
    <3>1. issued[i].ts \in Nat
      BY <1>0, StampNumbers
    <3>2. Past(issued[i])
      BY <1>0 DEF AllPast
    <3>3. ~Locked'
      BY <1>0, <1>7 DEF Restart, Locked, Settled
    <3> QED BY <1>0, <1>7, <3>1, <3>2, <3>3 DEF Past, Restart
  <2>2. AllPast' /\ Ordered'
    BY <1>0, <1>7, <2>1, OrderKept DEF AllPast, Restart
  <2> QED BY <1>0, <1>7, <2>2 DEF Settled, Restart
<1>8. CASE Tick
  <2>1. Locked' <=> Locked
    BY <1>8 DEF Tick, Locked
  <2>2. AllPast' /\ Ordered'
    BY <1>0, <1>8, <2>1, PastKept, OrderKept DEF Tick
  <2>3. Settled'
    BY <1>0, <1>8, <2>1 DEF Tick, Settled
  <2> QED BY <2>2, <2>3
<1>9. CASE SetBack
  BY <1>0, <1>9 DEF SetBack, ClockSteady, TypeOK
<1>10. CASE UNCHANGED vars
  <2>1. Locked' <=> Locked
    BY <1>10 DEF vars, Locked
  <2>2. AllPast' /\ Ordered'
    BY <1>0, <1>10, <2>1, PastKept, OrderKept DEF vars
  <2>3. Settled'
    BY <1>0, <1>10, <2>1 DEF vars, Settled
  <2> QED BY <2>2, <2>3
<1> QED
  BY <1>1, <1>2, <1>3, <1>4, <1>5, <1>6, <1>7, <1>8, <1>9, <1>10
  DEF Next, Work, Poll, Rest, Throw, Crash

\* While the clock is never set back the stamps are handed out in increasing
\* order: no two ids are made from the same one.
THEOREM StampsOrdered == Spec => []StampsIncrease
<1>1. Init => IInv
  BY SequenceAssumption, BoundAssumption
  DEF Init, IInv, TypeOK, Settled, AllPast, Past, Ordered, Locked
<1>2. IInv /\ TypeOK' /\ [Next]_vars => IInv'
  BY Inductive
<1>3. IInv => StampsIncrease
  BY DEF IInv, StampsIncrease, Ordered
<1> QED BY <1>1, <1>2, <1>3, TypeCorrect, PTL DEF Spec

\* Numbers with the same remainder differ by a multiple of the modulus.
LEMMA Quotient ==
    ASSUME NEW a \in Nat, NEW m \in Nat \ {0}
    PROVE  a = m * (a \div m) + (a % m) /\ a \div m \in Nat /\ a % m \in Nat
  BY SMTT(30)

LEMMA MultipleHasNoRemainder ==
    ASSUME NEW q \in Int, NEW m \in Nat \ {0} PROVE (m * q) % m = 0
  BY SMTT(30)

LEMMA MultiplesDiffer ==
    ASSUME NEW p \in Nat, NEW q \in Nat, NEW m \in Nat \ {0}, NEW r \in Nat
    PROVE  (m * q + r) - (m * p + r) = m * (q - p)
  BY SMTT(30)

LEMMA SameRemainder ==
    ASSUME NEW a \in Nat, NEW b \in Nat, NEW m \in Nat \ {0}, a % m = b % m
    PROVE  (b - a) % m = 0
<1> DEFINE q == (b \div m) - (a \div m)
<1>1. a = m * (a \div m) + (a % m) /\ a \div m \in Nat /\ a % m \in Nat
  BY Quotient
<1>2. b = m * (b \div m) + (b % m) /\ b \div m \in Nat
  BY Quotient
<1>3. b - a = m * q
  BY <1>1, <1>2, MultiplesDiffer
<1>4. q \in Int
  BY <1>1, <1>2
<1>5. (m * q) % m = 0
  BY <1>4, MultipleHasNoRemainder
<1> HIDE DEF q
<1> QED BY <1>3, <1>5

LEMMA StampsDiffer ==
    ASSUME NEW x \in Nat, NEW y \in Nat, NEW w \in Nat, NEW n \in Nat,
           NEW s \in Nat, NEW u \in Nat
    PROVE  /\ (y * w + n + u) - (x * w + n + s) = (y - x) * w + (u - s)
           /\ x * w + n + s \in Nat
           /\ y * w + n + u \in Nat
  BY SMTT(30)

\* Of two stamps in order the later one weighs more.
LEMMA LaterWeighsMore ==
    ASSUME NEW d \in Nat, NEW w \in Nat, NEW s \in Int,
           d = 0 => s > 0, d > 0 => w + s > 0
    PROVE  d * w + s > 0
<1>1. CASE d = 0
  BY <1>1
<1>2. CASE d > 0
  <2>1. (d - 1) * w >= 0 /\ d * w = (d - 1) * w + w
    BY <1>2, SMTT(30)
  <2> QED BY <1>2, <2>1
<1> QED BY <1>1, <1>2

\* Two stamps of one Window, in order, make distinct ids, whatever the
\* constants: this is where the cut to eight digits is safe.
LEMMA WindowSafe ==
    ASSUME NEW d \in Stamp, NEW e \in Stamp, Before(d, e), e.ts - d.ts <= Window
    PROVE  Id(d) # Id(e)
<1> DEFINE gap == e.ts - d.ts
           shift == e.seq - d.seq
<1>1. /\ d.ts \in Nat /\ e.ts \in Nat
      /\ d.seq \in 0..MaxSequence /\ e.seq \in 0..MaxSequence
  BY DEF Stamp
<1>2. /\ gap \in 0..Window /\ shift \in -MaxSequence..MaxSequence
      /\ gap = 0 => shift > 0
      /\ gap > 0 => Weight + shift > 0
  BY <1>1, SequenceAssumption, WindowAssumption, IdAssumption DEF Before
<1>3. /\ (e.ts * Weight + Node + e.seq) - (d.ts * Weight + Node + d.seq)
           = gap * Weight + shift
      /\ e.ts * Weight + Node + e.seq \in Nat
      /\ d.ts * Weight + Node + d.seq \in Nat
  BY <1>1, IdAssumption, SequenceAssumption, StampsDiffer
<1> HIDE DEF gap, shift
<1>4. gap * Weight + shift > 0
  BY <1>2, IdAssumption, SequenceAssumption, WindowAssumption, LaterWeighsMore
<1>5. (gap * Weight + shift) % Modulus # 0
  BY <1>2, <1>4, WindowAssumption
<1> SUFFICES ASSUME Id(d) = Id(e) PROVE FALSE
  OBVIOUS
<1>6. ((e.ts * Weight + Node + e.seq) - (d.ts * Weight + Node + d.seq)) % Modulus = 0
  BY <1>3, IdAssumption, SameRemainder DEF Id
<1> QED BY <1>3, <1>5, <1>6

\* While the clock is never set back, the ids handed out within a Window are
\* distinct after the cut as well, over all threads and restarts.
THEOREM IdsDistinctWithinWindow == Spec => []DistinctWithinWindow
<1>1. TypeOK /\ StampsIncrease => DistinctWithinWindow
  <2> SUFFICES ASSUME TypeOK, StampsIncrease, ClockSteady,
                      NEW i \in DOMAIN issued, NEW j \in DOMAIN issued,
                      i < j, issued[j].ts - issued[i].ts <= Window
               PROVE  Id(issued[i]) # Id(issued[j])
    BY DEF DistinctWithinWindow
  <2>1. issued[i] \in Stamp /\ issued[j] \in Stamp
    BY DEF TypeOK
  <2>2. Before(issued[i], issued[j])
    BY DEF StampsIncrease
  <2> QED BY <2>1, <2>2, WindowSafe
<1> QED BY <1>1, StampsOrdered, TypeCorrect, PTL

------------------------------------------------------------------------------
\* The position after packet p.
EndOf(p) == p.at + Header + p.size

\* The packets of s lie end to end in a stream of w bytes.
LaidOut(s, w) ==
    /\ s = <<>> => w = 0
    /\ \A i \in 1..Len(s) : /\ EndOf(s[i]) <= w
                            /\ i = Len(s) => EndOf(s[i]) = w
                            /\ i < Len(s) => s[i + 1].at = EndOf(s[i])
    /\ \A i, j \in 1..Len(s) : i < j => EndOf(s[i]) <= s[j].at

\* The number of the last packet handed over.
LastOf(h) == IF h = <<>> THEN 0 ELSE h[Len(h)]

LastTaken(s, h, b) == h # <<>> => EndOf(s[LastOf(h)]) <= b

Spoiled(s, j) == \E k \in 1..j : ~InRange(s[k].size)

Passed(s, h, b) ==
    \A j \in 1..Len(s) :
        j > LastOf(h) /\ EndOf(s[j]) <= b /\ s[j].parses => Spoiled(s, j)

FramingInv ==
    /\ FramingTypeOK
    /\ LaidOut(sent, written)
    /\ InStep
    /\ LastTaken(sent, handed, taken)
    /\ Passed(sent, handed, taken)

------------------------------------------------------------------------------
\* The fields of a packet that was sent.
LEMMA PacketType ==
  ASSUME NEW s \in Seq(Packet), NEW i \in 1..Len(s)
  PROVE  /\ s[i] \in Packet /\ s[i].at \in Nat /\ s[i].size \in Nat \ {0}
         /\ s[i].size \in Sizes /\ s[i].parses \in BOOLEAN
         /\ EndOf(s[i]) \in Nat /\ EndOf(s[i]) > s[i].at + Header
<1>1. s[i] \in Packet  OBVIOUS
<1>2. s[i].at \in Nat /\ s[i].size \in Sizes /\ s[i].parses \in BOOLEAN
  BY <1>1 DEF Packet
<1>3. s[i].size \in Nat \ {0} /\ Header \in Nat
  BY <1>2, SizesAssumption, HeaderAssumption
<1> QED  BY <1>1, <1>2, <1>3 DEF EndOf

\* The last packet handed over is one that was sent.
LEMMA LastType ==
  ASSUME NEW n \in Nat, NEW h \in Seq(1..n)
  PROVE  LastOf(h) \in 0..n /\ (h # <<>> => LastOf(h) \in 1..n)
<1>1. CASE h = <<>>  BY <1>1 DEF LastOf
<1>2. CASE h # <<>>
  <2>1. Len(h) \in 1..Len(h)  BY <1>2
  <2>2. h[Len(h)] \in 1..n  BY <2>1
  <2> QED  BY <1>2, <2>2 DEF LastOf
<1> QED  BY <1>1, <1>2

\* The packet at a position is the only one there, and those that end at or
\* before it are the earlier ones.
LEMMA Order ==
  ASSUME NEW s \in Seq(Packet), NEW w, LaidOut(s, w),
         NEW i \in 1..Len(s), NEW j \in 1..Len(s)
  PROVE  /\ s[i].at = s[j].at => i = j
         /\ EndOf(s[j]) <= s[i].at <=> j < i
         /\ EndOf(s[j]) <= EndOf(s[i]) <=> j <= i
<1>1. /\ s[i].at \in Nat /\ EndOf(s[i]) \in Nat /\ EndOf(s[i]) > s[i].at + Header
      /\ s[j].at \in Nat /\ EndOf(s[j]) \in Nat /\ EndOf(s[j]) > s[j].at + Header
      /\ Header \in Nat
  BY PacketType, HeaderAssumption
<1>2. /\ i < j => EndOf(s[i]) <= s[j].at
      /\ j < i => EndOf(s[j]) <= s[i].at
  BY DEF LaidOut
<1> HIDE DEF EndOf
<1>7. PICK a \in Nat, b \in Nat, c \in Nat, d \in Nat :
         a = s[i].at /\ b = EndOf(s[i]) /\ c = s[j].at /\ d = EndOf(s[j])
  BY <1>1
<1>8. a < b /\ c < d
  <2>1. PICK h \in Nat : h = Header
    BY <1>1
  <2>2. b > a + h /\ d > c + h
    BY <1>1, <1>7, <2>1
  <2> QED
    BY <2>2
<1>9. (i < j => b <= c) /\ (j < i => d <= a)
  BY <1>2, <1>7
<1>3. i \in Nat /\ j \in Nat
  OBVIOUS
<1>4. CASE i = j
  BY <1>4, <1>7, <1>8
<1>5. CASE i < j
  BY <1>3, <1>5, <1>7, <1>8, <1>9
<1>6. CASE j < i
  BY <1>3, <1>6, <1>7, <1>8, <1>9
<1> QED  BY <1>3, <1>4, <1>5, <1>6

\* Behind a packet is the next one, or the end of the stream.
LEMMA After ==
  ASSUME NEW s \in Seq(Packet), NEW w, LaidOut(s, w), NEW i \in 1..Len(s)
  PROVE  EndOf(s[i]) = w \/ \E j \in 1..Len(s) : s[j].at = EndOf(s[i])
<1>1. CASE i = Len(s)  BY <1>1 DEF LaidOut
<1>2. CASE i # Len(s)
  <2>1. i + 1 \in 1..Len(s) /\ i < Len(s)  BY <1>2
  <2> QED  BY <2>1 DEF LaidOut
<1> QED  BY <1>1, <1>2
\* A length that is read at the front of a packet is its size.
LEMMA LengthHere ==
  ASSUME FramingInv, NEW i \in 1..Len(sent), Here(i), NEW n, Length(n)
  PROVE  n = sent[i].size
BY Order DEF FramingInv, FramingTypeOK, Length, Here, InFrame

\* Out of step there is still a length out of range to blame, before the reader.
LEMMA OutOfStep ==
  ASSUME FramingInv, ~InFrame, NEW n, Length(n)
  PROVE  /\ reader = "client" /\ n \in Misread /\ n \in Int
         /\ \E i \in 1..Len(sent) : sent[i].at < taken /\ ~InRange(sent[i].size)
<1>1. n \in Misread /\ n \in Int  BY SizesAssumption DEF Length, InFrame
<1>2. taken # written
  BY HeaderAssumption DEF Length, Available, FramingInv, FramingTypeOK
<1> QED  BY <1>1, <1>2 DEF FramingInv, InStep

\* Where the packet at the front ends.
LEMMA AtFront ==
  ASSUME FramingInv, NEW i \in 1..Len(sent), Here(i)
  PROVE  /\ EndOf(sent[i]) = taken + Header + sent[i].size
         /\ EndOf(sent[i]) > taken
BY PacketType, HeaderAssumption DEF FramingInv, FramingTypeOK, Here, EndOf

------------------------------------------------------------------------------
\* A new connection, with empty buffers, meets the invariant.
THEOREM FramingInitInv == FramingInit => FramingInv
<1> SUFFICES ASSUME FramingInit PROVE FramingInv  OBVIOUS
<1>1. FramingTypeOK
  <2>1. <<>> \in Seq(Packet) /\ <<>> \in Seq(1..Len(sent))  OBVIOUS
  <2>2. sent = <<>> /\ handed = <<>> /\ written = 0 /\ arrived = 0 /\ taken = 0
    BY DEF FramingInit
  <2>3. sent \in Seq(Packet) /\ handed \in Seq(1..Len(sent))  BY <2>1, <2>2
  <2>4. reader \in {"server", "client"} /\ reading \in BOOLEAN  BY DEF FramingInit
  <2>5. written \in Nat /\ arrived \in 0..written /\ taken \in 0..arrived  BY <2>2
  <2> QED  BY <2>3, <2>4, <2>5 DEF FramingTypeOK
<1>2. LaidOut(sent, written) /\ InStep  BY DEF FramingInit, LaidOut, InStep
<1>3. LastTaken(sent, handed, taken) /\ Passed(sent, handed, taken)
  BY DEF FramingInit, LastTaken, Passed
<1> QED  BY <1>1, <1>2, <1>3 DEF FramingInv

\* A packet more is written at the end of the stream.
LEMMA SendKeeps == ASSUME FramingInv, Send PROVE FramingInv'
<1>1. PICK size \in Sizes, parses \in BOOLEAN :
         /\ sent' = Append(sent, [at |-> written, size |-> size, parses |-> parses])
         /\ written' = written + (Header + size)
  BY DEF Send, Framed
<1> DEFINE p == [at |-> written, size |-> size, parses |-> parses]
           n == Len(sent)
<1>2. UNCHANGED <<reader, arrived, taken, handed, reading>>  BY DEF Send
<1>3. sent \in Seq(Packet) /\ n \in Nat /\ written \in Nat /\ FramingTypeOK
  BY DEF FramingInv, FramingTypeOK
<1>4. p \in Packet /\ size \in Nat \ {0} /\ Header \in Nat
  BY <1>3, SizesAssumption, HeaderAssumption DEF Packet
<1>5. /\ sent' \in Seq(Packet) /\ Len(sent') = n + 1 /\ sent'[n + 1] = p
      /\ sent' # <<>> /\ \A i \in 1..n : sent'[i] = sent[i]
  BY <1>1, <1>3, <1>4
<1>6. p.at = written /\ EndOf(p) = written' /\ written' > written /\ written' \in Nat
  BY <1>1, <1>3, <1>4 DEF EndOf
<1> HIDE DEF p
<1>7. \A i \in 1..n : EndOf(sent'[i]) = EndOf(sent[i]) /\ EndOf(sent[i]) \in Nat
  BY <1>3, <1>5, PacketType
<1>8. FramingTypeOK'
  BY <1>2, <1>3, <1>5, <1>6 DEF FramingTypeOK
<1>9. LaidOut(sent', written')
  <2> HIDE DEF n
  <2>1. LaidOut(sent, written)  BY DEF FramingInv
  <2>2. \A i \in 1..(n + 1) : EndOf(sent'[i]) <= written'
                             /\ (i = n + 1 => EndOf(sent'[i]) = written')
    BY <1>3, <1>5, <1>6, <1>7, <2>1 DEF LaidOut, n
  <2>3. \A i \in 1..n : sent'[i + 1].at = EndOf(sent'[i])
    <3> TAKE i \in 1..n
    <3>1. CASE i = n
      BY <1>3, <1>5, <1>6, <1>7, <2>1, <3>1 DEF LaidOut, n
    <3>2. CASE i # n
      <4>1. i + 1 \in 1..n /\ i < n  BY <1>3, <3>2
      <4> QED  BY <1>5, <1>7, <2>1, <4>1 DEF LaidOut, n
    <3> QED  BY <3>1, <3>2
  <2>4. \A i, j \in 1..(n + 1) : i < j => EndOf(sent'[i]) <= sent'[j].at
    <3> TAKE i, j \in 1..(n + 1)
    <3> HAVE i < j
    <3>1. i \in 1..n  BY <1>3
    <3>2. CASE j = n + 1  BY <1>5, <1>6, <1>7, <2>1, <3>1, <3>2 DEF LaidOut, n
    <3>3. CASE j # n + 1
      <4>1. j \in 1..n  BY <1>3, <3>3
      <4> QED  BY <1>5, <1>7, <2>1, <3>1, <4>1 DEF LaidOut, n
    <3> QED  BY <3>2, <3>3
  <2> QED  BY <1>3, <1>5, <2>2, <2>3, <2>4 DEF LaidOut
<1>10. InStep'
  <2>1. CASE InFrame
    BY <1>2, <1>3, <1>5, <2>1 DEF InFrame, InStep, Here
  <2>2. CASE taken = written
    <3>1. n + 1 \in 1..Len(sent') /\ sent'[n + 1].at = taken'
      BY <1>2, <1>3, <1>5, <1>6, <2>2
    <3> QED  BY <3>1 DEF InFrame, InStep, Here
  <2>3. CASE reader = "client" /\ \E i \in 1..n : sent[i].at < taken /\ ~InRange(sent[i].size)
    BY <1>2, <1>3, <1>5, <2>3 DEF InStep, InRange
  <2> QED  BY <2>1, <2>2, <2>3 DEF FramingInv, InStep
<1>11. LastTaken(sent', handed', taken')
  <2>1. handed # <<>> => LastOf(handed) \in 1..n  BY <1>3, LastType DEF FramingTypeOK
  <2> QED  BY <1>2, <1>7, <2>1 DEF FramingInv, LastTaken
<1>12. Passed(sent', handed', taken')
  <2> SUFFICES ASSUME NEW j \in 1..(n + 1), j > LastOf(handed),
                      EndOf(sent'[j]) <= taken, sent'[j].parses
               PROVE  Spoiled(sent', j)
    BY <1>2, <1>5 DEF Passed
  <2>1. taken <= written /\ taken \in Nat  BY <1>3 DEF FramingTypeOK
  <2>2. j \in 1..n  BY <1>3, <1>5, <1>6, <2>1
  <2>3. Spoiled(sent, j)  BY <1>5, <1>7, <2>2 DEF FramingInv, Passed
  <2> QED  BY <1>3, <1>5, <2>2, <2>3 DEF Spoiled, InRange
<1> QED  BY <1>8, <1>9, <1>10, <1>11, <1>12 DEF FramingInv
\* Bytes arrive, or the callback returns without taking any.
LEMMA StayKeeps ==
  ASSUME FramingInv, UNCHANGED <<reader, sent, written, taken, handed>>,
         arrived' \in arrived..written, reading' \in BOOLEAN
  PROVE  FramingInv'
<1>1. FramingTypeOK'  BY DEF FramingInv, FramingTypeOK
<1>2. InStep'  BY DEF FramingInv, InStep, InFrame, Here, InRange
<1>3. /\ LaidOut(sent', written')
      /\ LastTaken(sent', handed', taken') /\ Passed(sent', handed', taken')
  BY DEF FramingInv
<1> QED  BY <1>1, <1>2, <1>3 DEF FramingInv

\* The reader moves on within what has arrived and hands nothing over.
LEMMA MoveKeeps ==
  ASSUME FramingInv, UNCHANGED <<reader, sent, written, arrived, handed>>,
         taken' \in taken..arrived, reading' \in BOOLEAN, InStep',
         \A j \in 1..Len(sent) :
            EndOf(sent[j]) <= taken' /\ EndOf(sent[j]) > taken /\ sent[j].parses
               => Spoiled(sent, j)
  PROVE  FramingInv'
<1>1. FramingTypeOK'  BY DEF FramingInv, FramingTypeOK
<1>2. /\ sent \in Seq(Packet) /\ taken \in Nat /\ taken' \in Nat /\ taken <= taken'
      /\ handed \in Seq(1..Len(sent))
  BY DEF FramingInv, FramingTypeOK
<1>3. \A j \in 1..Len(sent) : EndOf(sent[j]) \in Nat  BY <1>2, PacketType
<1>4. handed # <<>> => LastOf(handed) \in 1..Len(sent)  BY <1>2, LastType
<1>5. LastTaken(sent', handed', taken')
  BY <1>2, <1>3, <1>4 DEF FramingInv, LastTaken
<1>6. Passed(sent', handed', taken')
  BY <1>2, <1>3 DEF FramingInv, Passed
<1> QED  BY <1>1, <1>5, <1>6 DEF FramingInv

\* A packet out of range was met, and the reader is past its first byte.
LEMMA BlameStays ==
  ASSUME FramingInv, NEW i \in 1..Len(sent), sent[i].at < taken', reader = "client",
         ~InRange(sent[i].size), UNCHANGED <<reader, sent>>
  PROVE  InStep'
BY DEF InStep, InRange

\* What ends after an out of range packet's first byte comes after it.
LEMMA BlameSpoils ==
  ASSUME FramingInv, NEW i \in 1..Len(sent), sent[i].at <= taken, ~InRange(sent[i].size),
         NEW j \in 1..Len(sent), EndOf(sent[j]) > taken
  PROVE  Spoiled(sent, j)
<1>1. sent \in Seq(Packet) /\ taken \in Nat  BY DEF FramingInv, FramingTypeOK
<1>2. EndOf(sent[j]) \in Nat /\ sent[i].at \in Nat  BY <1>1, PacketType
<1>3. ~(EndOf(sent[j]) <= sent[i].at)  BY <1>1, <1>2
<1>4. ~(j < i)  BY <1>1, <1>3, Order DEF FramingInv
<1> QED  BY <1>4 DEF Spoiled

\* Behind a packet taken from the front the reader is in step again.
LEMMA BehindInStep ==
  ASSUME FramingInv, NEW i \in 1..Len(sent), taken' = EndOf(sent[i]),
         UNCHANGED <<sent, written>>
  PROVE  InStep'
<1>1. EndOf(sent[i]) = written \/ \E j \in 1..Len(sent) : sent[j].at = EndOf(sent[i])
  BY After DEF FramingInv, FramingTypeOK
<1> HIDE DEF EndOf
<1> QED  BY <1>1 DEF InStep, InFrame, Here

\* A packet is taken out and handed over.
LEMMA HandOverKeeps == ASSUME FramingInv, HandOver PROVE FramingInv'
<1>1. PICK i \in 1..Len(sent) :
         /\ Here(i) /\ Length(sent[i].size)
         /\ Complete(sent[i].size) /\ InRange(sent[i].size)
         /\ sent[i].parses
         /\ taken' = taken + Header + sent[i].size
         /\ handed' = Append(handed, i)
  BY DEF HandOver, TakenWith
<1>2. UNCHANGED <<reader, sent, written, arrived>> /\ reading' = TRUE
  BY DEF HandOver, Goes
<1>3. FramingTypeOK /\ sent \in Seq(Packet) /\ taken \in Nat /\ arrived \in Nat
      /\ handed \in Seq(1..Len(sent))
  BY DEF FramingInv, FramingTypeOK
<1>4. sent[i].size \in Nat \ {0} /\ Header \in Nat
  BY <1>3, PacketType, HeaderAssumption
<1>5. taken' = EndOf(sent[i])  BY <1>1, AtFront
<1>6. taken' \in taken..arrived
  <2>1. arrived - taken >= Header + sent[i].size  BY <1>1 DEF Complete, Available
  <2>2. PICK n \in Nat : n = Header + sent[i].size  BY <1>4
  <2>3. arrived - taken >= n  BY <2>1, <2>2
  <2>4. taken' = taken + n
    <3>1. taken' = taken + Header + sent[i].size  BY <1>1
    <3>2. PICK k \in Nat : k = sent[i].size  BY <1>4
    <3> QED  BY <1>3, <1>4, <2>2, <3>1, <3>2
  <2> QED  BY <1>3, <2>3, <2>4
<1>7. handed' \in Seq(1..Len(sent)) /\ handed' # <<>> /\ LastOf(handed') = i
  BY <1>1, <1>3 DEF LastOf
<1>8. FramingTypeOK'  BY <1>2, <1>3, <1>6, <1>7 DEF FramingTypeOK
<1>9. LastTaken(sent', handed', taken')
  BY <1>2, <1>3, <1>5, <1>6, <1>7 DEF LastTaken
<1>10. Passed(sent', handed', taken')
  <2> SUFFICES ASSUME NEW j \in 1..Len(sent), j > i, EndOf(sent[j]) <= EndOf(sent[i])
               PROVE  FALSE
    BY <1>2, <1>5, <1>7 DEF Passed
  <2> QED  BY <1>3, Order DEF FramingInv
<1>11. InStep'  BY <1>2, <1>5, BehindInStep
<1> QED  BY <1>2, <1>8, <1>9, <1>10, <1>11 DEF FramingInv

\* A packet is taken out, or a piece of one, and dropped.
LEMMA DiscardKeeps == ASSUME FramingInv, Discard PROVE FramingInv'
<1>1. PICK n \in Sizes \union Misread :
         /\ Length(n) /\ Complete(n) /\ InRange(n)
         /\ \A i \in 1..Len(sent) : Here(i) => ~sent[i].parses
         /\ taken' = taken + Header + n
  BY DEF Discard, TakenWith
<1>2. UNCHANGED <<reader, sent, written, arrived, handed>> /\ reading' \in BOOLEAN
  BY DEF Discard
<1>3. sent \in Seq(Packet) /\ taken \in Nat /\ arrived \in Nat /\ Header \in Nat
      /\ n \in Int /\ n > 0
  BY <1>1, HeaderAssumption, SizesAssumption DEF FramingInv, FramingTypeOK, InRange
<1>4. taken' \in taken..arrived
  BY <1>1, <1>3 DEF Complete, Available
<1>5. CASE InFrame
  <2>1. PICK i \in 1..Len(sent) : Here(i)  BY <1>5 DEF InFrame
  <2>2. n = sent[i].size  BY <1>1, <2>1, LengthHere
  <2>3. taken' = EndOf(sent[i])  BY <1>1, <2>1, <2>2, AtFront
  <2>4. InStep'  BY <1>2, <2>3, BehindInStep
  <2>5. ASSUME NEW j \in 1..Len(sent), EndOf(sent[j]) <= taken',
               EndOf(sent[j]) > taken, sent[j].parses
        PROVE  FALSE
    <3>1. j <= i  BY <1>3, <2>3, <2>5, Order DEF FramingInv
    <3>2. ~(j < i)
      <4>1. sent[i].at = taken /\ EndOf(sent[j]) \in Nat  BY <1>3, <2>1, PacketType DEF Here
      <4> QED  BY <1>3, <2>5, <4>1, Order DEF FramingInv
    <3>3. j = i  BY <3>1, <3>2
    <3> QED  BY <1>1, <2>1, <2>5, <3>3
  <2> QED  BY <1>2, <1>4, <2>4, <2>5, MoveKeeps
<1>6. CASE ~InFrame
  <2>1. PICK i \in 1..Len(sent) : sent[i].at < taken /\ ~InRange(sent[i].size)
    BY <1>1, <1>6, OutOfStep
  <2>2. reader = "client"  BY <1>1, <1>6, OutOfStep
  <2>3. sent[i].at \in Nat  BY <1>3, PacketType
  <2>4. InStep'  BY <1>2, <1>3, <1>4, <2>1, <2>2, <2>3, BlameStays
  <2>5. \A j \in 1..Len(sent) : EndOf(sent[j]) > taken => Spoiled(sent, j)
    BY <1>3, <2>1, <2>3, BlameSpoils
  <2> QED  BY <1>2, <1>4, <2>4, <2>5, MoveKeeps
<1> QED  BY <1>5, <1>6
\* The client skips the length only; the server stays.
LEMMA RejectKeeps == ASSUME FramingInv, Reject PROVE FramingInv'
<1>1. PICK n \in Sizes \union Misread : Length(n) /\ Complete(n) /\ ~InRange(n)
  BY DEF Reject
<1>2. /\ UNCHANGED <<reader, sent, written, arrived, handed>>
      /\ reading' \in BOOLEAN
      /\ taken' = Rejected
  BY DEF Reject
<1>3. sent \in Seq(Packet) /\ taken \in Nat /\ arrived \in Nat /\ Header \in Nat \ {0}
  BY HeaderAssumption DEF FramingInv, FramingTypeOK
<1>4. CASE reader # "client"
  <2>1. taken' = taken /\ arrived' \in arrived..written
    BY <1>2, <1>4 DEF Rejected, FramingInv, FramingTypeOK
  <2> QED  BY <1>2, <2>1, StayKeeps
<1>5. CASE reader = "client"
  <2>1. taken' = taken + Header  BY <1>2, <1>5 DEF Rejected
  <2>2. taken' \in taken..arrived /\ taken' > taken
    <3>1. arrived - taken >= Header  BY <1>1 DEF Length, Available
    <3> QED  BY <1>3, <2>1, <3>1
  <2>3. \E i \in 1..Len(sent) : sent[i].at <= taken /\ ~InRange(sent[i].size)
    <3>1. CASE InFrame
      <4>1. PICK i \in 1..Len(sent) : Here(i)  BY <3>1 DEF InFrame
      <4>2. n = sent[i].size  BY <1>1, <4>1, LengthHere
      <4> QED  BY <1>1, <1>3, <4>1, <4>2 DEF Here
    <3>2. CASE ~InFrame
      <4>1. PICK i \in 1..Len(sent) : sent[i].at < taken /\ ~InRange(sent[i].size)
        BY <1>1, <3>2, OutOfStep
      <4> QED  BY <1>3, <4>1, PacketType
    <3> QED  BY <3>1, <3>2
  <2>4. PICK i \in 1..Len(sent) : sent[i].at <= taken /\ ~InRange(sent[i].size)
    BY <2>3
  <2>5. sent[i].at \in Nat  BY <1>3, PacketType
  <2>6. sent[i].at < taken'  BY <1>3, <2>2, <2>4, <2>5
  <2>7. InStep'  BY <1>2, <1>5, <2>4, <2>6, BlameStays
  <2>8. \A j \in 1..Len(sent) : EndOf(sent[j]) > taken => Spoiled(sent, j)
    BY <2>4, BlameSpoils
  <2> QED  BY <1>2, <2>2, <2>7, <2>8, MoveKeeps
<1> QED  BY <1>4, <1>5

\* Writing, arrival and each way a callback goes on keep it.
THEOREM FramingNextInv == FramingInv /\ [FramingNext]_framingVars => FramingInv'
<1> SUFFICES ASSUME FramingInv, [FramingNext]_framingVars PROVE FramingInv'  OBVIOUS
<1>1. arrived \in Nat /\ written \in Nat /\ arrived <= written /\ reading \in BOOLEAN
  BY DEF FramingInv, FramingTypeOK
<1>2. CASE Send  BY <1>2, SendKeeps
<1>3. CASE Arrive
  BY <1>1, <1>3, StayKeeps DEF Arrive
<1>4. CASE Wait
  <2>1. arrived' \in arrived..written  BY <1>1, <1>4 DEF Wait
  <2> QED  BY <1>4, <2>1, StayKeeps DEF Wait
<1>5. CASE HandOver  BY <1>5, HandOverKeeps
<1>6. CASE Discard  BY <1>6, DiscardKeeps
<1>7. CASE Reject  BY <1>7, RejectKeeps
<1>8. CASE Quiet \/ UNCHANGED framingVars
  <2>1. UNCHANGED framingVars  BY <1>8 DEF Quiet
  <2> QED  BY <1>1, <2>1, StayKeeps DEF framingVars
<1> QED  BY <1>2, <1>3, <1>4, <1>5, <1>6, <1>7, <1>8 DEF FramingNext, Read

\* The invariant holds in every state, for either reader.
THEOREM FramingInductive == FramingSpec => []FramingInv
<1> QED  BY FramingInitInv, FramingNextInv, PTL DEF FramingSpec

\* The positions of writer and reader keep their types: the reader never takes
\* more than has arrived.
THEOREM FramingTypeCorrect == FramingSpec => []FramingTypeOK
<1>1. FramingInv => FramingTypeOK  BY DEF FramingInv
<1> QED  BY <1>1, FramingInductive, PTL

\* However the stream is cut up, the server reads a length only where one was
\* written, and the client does until it meets a length out of range.
THEOREM ReaderInStep == FramingSpec => []InStep
<1>1. FramingInv => InStep  BY DEF FramingInv
<1> QED  BY <1>1, FramingInductive, PTL
------------------------------------------------------------------------------
\* What PacketQueue sees of the packets sent.
KindsOf(s) == [i \in 1..Len(s) |-> Kind(s[i])]

\* Kind of a packet, and of a sequence of them.
LEMMA KindType == ASSUME NEW p PROVE Kind(p) \in Queue!Kinds
BY DEF Kind, Queue!Kinds

\* One kind to each packet.
LEMMA KindsType ==
  ASSUME NEW s \in Seq(Packet)
  PROVE  /\ KindsOf(s) \in Seq(Queue!Kinds) /\ Len(KindsOf(s)) = Len(s)
         /\ \A i \in 1..Len(s) : KindsOf(s)[i] = Kind(s[i])
BY KindType DEF KindsOf

\* A packet more is a kind more.
LEMMA KindsAppend ==
  ASSUME NEW s \in Seq(Packet), NEW p \in Packet
  PROVE  KindsOf(Append(s, p)) = Append(KindsOf(s), Kind(p))
<1> DEFINE r == Append(s, p)
<1>1. r \in Seq(Packet) /\ Len(r) = Len(s) + 1 /\ r[Len(s) + 1] = p
      /\ \A i \in 1..Len(s) : r[i] = s[i]
  OBVIOUS
<1>2. Len(s) \in Nat  OBVIOUS
<1> HIDE DEF r
<1> DEFINE k == KindsOf(s)   q == KindsOf(r)   a == Append(k, Kind(p))
<1>3. k \in Seq(Queue!Kinds) /\ Len(k) = Len(s) /\ \A i \in 1..Len(s) : k[i] = Kind(s[i])
  BY KindsType
<1>4. q \in Seq(Queue!Kinds) /\ Len(q) = Len(s) + 1
      /\ \A i \in 1..(Len(s) + 1) : q[i] = Kind(r[i])
  BY <1>1, KindsType
<1> HIDE DEF k, q
<1>5. a \in Seq(Queue!Kinds) /\ Len(a) = Len(s) + 1 /\ a[Len(s) + 1] = Kind(p)
      /\ \A i \in 1..Len(s) : a[i] = k[i]
  BY <1>3, KindType
<1> HIDE DEF a
<1>6. \A i \in 1..(Len(s) + 1) : q[i] = a[i]
  <2> TAKE i \in 1..(Len(s) + 1)
  <2>1. CASE i = Len(s) + 1  BY <1>1, <1>2, <1>4, <1>5, <2>1
  <2>2. CASE i \in 1..Len(s)  BY <1>1, <1>2, <1>3, <1>4, <1>5, <2>2
  <2> QED  BY <1>2, <2>1, <2>2
<1>7. q = a  BY <1>2, <1>4, <1>5, <1>6
<1> QED  BY <1>7 DEF q, a, k, r

\* A write is a packet sent.
LEMMA SendIsSend == ASSUME FramingInv, Send PROVE Queue!Send
<1>1. PICK p \in Packet : sent' = Append(sent, p)
  <2>1. PICK size \in Sizes, parses \in BOOLEAN :
           sent' = Append(sent, [at |-> written, size |-> size, parses |-> parses])
    BY DEF Send
  <2>2. [at |-> written, size |-> size, parses |-> parses] \in Packet
    BY DEF FramingInv, FramingTypeOK, Packet
  <2> QED  BY <2>1, <2>2
<1>2. sent \in Seq(Packet) /\ Len(sent) < MaxPackets /\ UNCHANGED handed
  BY DEF FramingInv, FramingTypeOK, Send
<1>3. Len(KindsOf(sent)) < MaxPackets  BY <1>2, KindsType
<1>4. KindsOf(sent)' = Append(KindsOf(sent), Kind(p))
  <2>1. KindsOf(sent') = Append(KindsOf(sent), Kind(p))  BY <1>1, <1>2, KindsAppend
  <2> QED  BY <2>1 DEF KindsOf, Kind, InRange
<1> QED  BY <1>2, <1>3, <1>4, KindType DEF Queue!Send, KindsOf

\* What is passed over when packet i is handed over ends before the reader's
\* position and was not handed over: Passed says why.
LEMMA HandOverIsHandOver ==
  ASSUME FramingInv, HandOver PROVE \E i \in 1..Len(KindsOf(sent)) : Queue!HandOver(i)
<1>1. PICK i \in 1..Len(sent) :
         /\ Here(i) /\ InRange(sent[i].size) /\ sent[i].parses
         /\ handed' = Append(handed, i)
  BY DEF HandOver
<1>2. sent \in Seq(Packet) /\ taken \in Nat /\ handed \in Seq(1..Len(sent))
      /\ UNCHANGED sent
  BY DEF FramingInv, FramingTypeOK, HandOver
<1>3. i \in 1..Len(KindsOf(sent)) /\ KindsOf(sent)[i] = "good"
  BY <1>1, <1>2, KindsType DEF Kind
<1>4. Queue!Last = LastOf(handed)  BY DEF Queue!Last, LastOf
<1>5. LastOf(handed) \in 0..Len(sent) /\ i \in Nat /\ Len(sent) \in Nat
  BY <1>2, LastType
<1>6. i > LastOf(handed)
  <2>1. CASE handed = <<>>  BY <1>5, <2>1 DEF LastOf
  <2>2. CASE handed # <<>>
    <3>1. LastOf(handed) \in 1..Len(sent)  BY <1>2, <2>2, LastType
    <3>2. EndOf(sent[LastOf(handed)]) <= sent[i].at
      BY <1>1, <2>2 DEF FramingInv, LastTaken, Here
    <3> QED  BY <1>2, <1>5, <3>1, <3>2, Order DEF FramingInv
  <2> QED  BY <2>1, <2>2
<1>7. ASSUME NEW j \in (LastOf(handed) + 1)..(i - 1), KindsOf(sent)[j] = "good"
      PROVE  \E k \in 1..j : KindsOf(sent)[k] = "oversized"
  <2>1. j \in 1..Len(sent) /\ j < i /\ j > LastOf(handed)  BY <1>5, <1>7
  <2>2. EndOf(sent[j]) <= taken  BY <1>1, <1>2, <2>1, Order DEF FramingInv, Here
  <2>3. sent[j].parses  BY <1>2, <1>7, <2>1, KindsType DEF Kind
  <2>4. Spoiled(sent, j)  BY <2>1, <2>2, <2>3 DEF FramingInv, Passed
  <2>5. PICK k \in 1..j : ~InRange(sent[k].size)  BY <2>4 DEF Spoiled
  <2>6. KindsOf(sent)[k] = "oversized"
    <3>1. k \in 1..Len(sent)  BY <1>5, <2>1
    <3> QED  BY <1>2, <2>5, <3>1, KindsType DEF Kind
  <2> QED  BY <2>6
<1>8. KindsOf(sent)' = KindsOf(sent)  BY <1>2 DEF KindsOf, Kind, InRange
<1> QED
  BY <1>1, <1>3, <1>4, <1>6, <1>7, <1>8
     DEF Queue!HandOver, Queue!PassedOver, KindsOf

\* Both readers implement the queue: packets are handed over in the order they
\* were sent and each at most once, and what is passed over could not be parsed
\* or came after a length out of range.
THEOREM ImplementsQueue == FramingSpec => IsPacketQueue
<1>1. FramingInit => Queue!Init
  <2> SUFFICES ASSUME FramingInit PROVE KindsOf(sent) = <<>> /\ handed = <<>>
    BY DEF Queue!Init, KindsOf
  <2>1. sent = <<>> /\ <<>> \in Seq(Packet) /\ Len(<<>>) = 0  BY DEF FramingInit
  <2>2. KindsOf(sent) \in Seq(Queue!Kinds) /\ Len(KindsOf(sent)) = 0
    BY <2>1, KindsType
  <2> HIDE DEF KindsOf
  <2> QED  BY <2>2 DEF FramingInit
<1>2. ASSUME FramingInv, [FramingNext]_framingVars
      PROVE  [Queue!Next]_<<KindsOf(sent), handed>>
  <2>1. CASE Send  BY <1>2, <2>1, SendIsSend DEF Queue!Next
  <2>2. CASE HandOver
    BY <1>2, <2>2, HandOverIsHandOver DEF Queue!Next, KindsOf
  <2>3. CASE Arrive \/ Wait \/ Discard \/ Reject \/ Quiet \/ UNCHANGED framingVars
    <3>1. UNCHANGED <<sent, handed>>
      BY <2>3 DEF Arrive, Wait, Discard, Reject, Quiet, framingVars
    <3> QED  BY <3>1 DEF KindsOf, Kind, InRange
  <2> QED  BY <1>2, <2>1, <2>2, <2>3 DEF FramingNext, Read
<1> QED
  BY <1>1, <1>2, FramingInductive, PTL DEF FramingSpec, IsPacketQueue, Queue!QueueSpec, KindsOf
==============================================================================

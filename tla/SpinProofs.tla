------------------------------ MODULE SpinProofs ------------------------------
(***************************************************************************)
(* The two ring buffers of the spin detector implement the sliding window  *)
(* of SlidingWindow, for any size, any thresholds and any log.             *)
(*                                                                         *)
(* A ring that is not full has used its slots from 0 on, and its head is   *)
(* the next; a full one may have its head anywhere.  This is what RingOK   *)
(* adds to the type: from it follows that recording an item rotates the    *)
(* slots read in order, and that the slots below count hold each of the    *)
(* remembered items once, so that counting over slots, as the code does,   *)
(* is counting over the window.                                            *)
(*                                                                         *)
(* The cost window is the end of everything that was ever charged; what it *)
(* lacks is too old as long as timestamps go forward.                      *)
(***************************************************************************)
EXTENDS Spin, FiniteSetTheorems, SequenceTheorems, WellFoundedInduction, TLAPS

\* A ring whose slots below count hold members of S.
RingOK(ring, S) ==
    /\ ring \in Ring(S \cup {NoText})
    /\ \A i \in 0..(ring.count - 1) : ring.slots[i] \in S
    /\ ring.count < WindowSize => ring.head = ring.count

\* The slot of the k-th item remembered.
Slot(ring, k) == (ring.head - ring.count + k - 1) % WindowSize

\* What % does on the numbers that occur here.
LEMMA Wrapped ==
  ASSUME NEW n \in Nat \ {0}, NEW x \in (-n)..n
  PROVE  x % n = IF x < 0 THEN x + n ELSE IF x = n THEN 0 ELSE x
<1>1. CASE x < 0
  BY <1>1
<1>2. CASE x = n
  BY <1>2
<1>3. CASE x \in 0..(n-1)
  BY <1>3
<1>. QED
  BY <1>1, <1>2, <1>3

\* The slots of a ring in good order: from 0 on while it is not full, from the
\* head and round when it is.
LEMMA SlotOf ==
  ASSUME NEW S, NEW ring, RingOK(ring, S), NEW k \in 1..ring.count
  PROVE  /\ Slot(ring, k) \in 0..(ring.count - 1)
         /\ Slot(ring, k) =
              IF ring.count < WindowSize THEN k - 1
              ELSE IF ring.head + k - 1 < WindowSize THEN ring.head + k - 1
              ELSE ring.head + k - 1 - WindowSize
<1>1. ring.head \in 0..(WindowSize - 1) /\ ring.count \in 0..WindowSize /\ WindowSize \in Nat \ {0}
  BY SpinAssumption DEF RingOK, Ring
<1> DEFINE x == ring.head - ring.count + k - 1
<1>2. x \in (-WindowSize)..WindowSize /\ x # WindowSize
  BY <1>1
<1>. HIDE DEF x
<1>3. x % WindowSize = IF x < 0 THEN x + WindowSize ELSE x
  BY <1>1, <1>2, Wrapped
<1>. USE DEF x
<1>4. Slot(ring, k) = IF x < 0 THEN x + WindowSize ELSE x
  BY <1>3 DEF Slot
<1>. QED
  BY <1>1, <1>4 DEF RingOK

\* Recording keeps a ring in good order.
LEMMA RecordOK ==
  ASSUME NEW S, NEW ring, RingOK(ring, S), NEW item \in S
  PROVE  RingOK(Record(ring, item), S)
<1>1. ring.head \in 0..(WindowSize - 1) /\ ring.count \in 0..WindowSize /\ WindowSize \in Nat \ {0}
  BY SpinAssumption DEF RingOK, Ring
<1>2. ring.slots \in [0..(WindowSize - 1) -> S \cup {NoText}]
  BY DEF RingOK, Ring
<1>3. (ring.head + 1) % WindowSize = IF ring.head + 1 = WindowSize THEN 0 ELSE ring.head + 1
  BY <1>1, Wrapped
<1>4. Record(ring, item) \in Ring(S \cup {NoText})
  BY <1>1, <1>2, <1>3 DEF Record, Ring
<1>5. \A i \in 0..(Record(ring, item).count - 1) : Record(ring, item).slots[i] \in S
  BY <1>1, <1>2 DEF Record, RingOK
<1>6. Record(ring, item).count < WindowSize => Record(ring, item).head = Record(ring, item).count
  BY <1>1, <1>3 DEF Record, RingOK
<1>. QED
  BY <1>4, <1>5, <1>6 DEF RingOK

\* What a ring remembers is a sequence of items.
LEMMA UnrolledType ==
  ASSUME NEW S, NEW ring, RingOK(ring, S)
  PROVE  /\ Unrolled(ring) \in Seq(S)
         /\ Len(Unrolled(ring)) = ring.count
         /\ \A k \in 1..ring.count : Unrolled(ring)[k] = ring.slots[Slot(ring, k)]
<1>1. ring.count \in Nat
  BY SpinAssumption DEF RingOK, Ring
<1>2. \A k \in 1..ring.count : ring.slots[Slot(ring, k)] \in S
  BY SlotOf DEF RingOK
<1>3. Unrolled(ring) \in [1..ring.count -> S]
  BY <1>2 DEF Unrolled, Slot
<1>4. Unrolled(ring) \in Seq(S) /\ Len(Unrolled(ring)) = ring.count
  <2>. HIDE DEF Unrolled
  <2>. QED
    BY <1>1, <1>3
<1>5. \A k \in 1..ring.count : Unrolled(ring)[k] = ring.slots[Slot(ring, k)]
  BY DEF Unrolled, Slot
<1>. QED
  BY <1>4, <1>5

\* Recording an item appends it to what is remembered, and forgets the oldest
\* when that is too much.
LEMMA RecordSlides ==
  ASSUME NEW S, NEW ring, RingOK(ring, S), NEW item \in S
  PROVE  Unrolled(Record(ring, item)) = ToolsSeen!Latest(Append(Unrolled(ring), item))
<1> DEFINE new == Record(ring, item)
           s   == Append(Unrolled(ring), item)
           t   == ToolsSeen!Latest(s)
<1>1. RingOK(new, S)
  BY RecordOK
<1>2. ring.head \in 0..(WindowSize - 1) /\ ring.count \in 0..WindowSize /\ WindowSize \in Nat \ {0}
  BY SpinAssumption DEF RingOK, Ring
<1>3. ring.slots \in [0..(WindowSize - 1) -> S \cup {NoText}]
  BY DEF RingOK, Ring
<1>4. /\ new.slots = [ring.slots EXCEPT ![ring.head] = item]
      /\ new.count = IF ring.count < WindowSize THEN ring.count + 1 ELSE WindowSize
      /\ new.head = IF ring.head + 1 = WindowSize THEN 0 ELSE ring.head + 1
  BY <1>2, Wrapped DEF Record
<1>5. /\ s \in Seq(S) /\ Len(s) = ring.count + 1
      /\ \A k \in 1..ring.count : s[k] = ring.slots[Slot(ring, k)]
      /\ s[ring.count + 1] = item
  BY UnrolledType, AppendProperties
<1>6. /\ t \in Seq(S) /\ Len(t) = new.count
      /\ \A k \in 1..new.count : t[k] = IF ring.count < WindowSize THEN s[k] ELSE s[k + 1]
  <2>. HIDE DEF new, s
  <2>1. CASE ring.count < WindowSize
    BY <1>2, <1>4, <1>5, <2>1 DEF ToolsSeen!Latest
  <2>2. CASE ring.count = WindowSize
    <3>1. t = SubSeq(s, 2, WindowSize + 1)
      BY <1>2, <1>5, <2>2 DEF ToolsSeen!Latest
    <3>2. /\ SubSeq(s, 2, WindowSize + 1) \in Seq(S)
          /\ Len(SubSeq(s, 2, WindowSize + 1)) = WindowSize
          /\ \A k \in 1..WindowSize : SubSeq(s, 2, WindowSize + 1)[k] = s[k + 1]
      BY <1>2, <1>5, <2>2, SubSeqProperties
    <3>. QED
      BY <1>2, <1>4, <2>2, <3>1, <3>2
  <2>. QED
    BY <1>2, <2>1, <2>2
<1>7. ASSUME NEW k \in 1..new.count
      PROVE  Unrolled(new)[k] = t[k]
  <2>1. Unrolled(new)[k] = new.slots[Slot(new, k)]
    BY <1>1, UnrolledType
  <2>2. Slot(new, k) = IF new.count < WindowSize THEN k - 1
                       ELSE IF new.head + k - 1 < WindowSize THEN new.head + k - 1
                       ELSE new.head + k - 1 - WindowSize
    BY <1>1, SlotOf
  <2>3. CASE ring.count < WindowSize
    <3>1. ring.head = ring.count
      BY <2>3 DEF RingOK
    <3>2. Slot(new, k) = k - 1
      BY <1>2, <1>4, <2>2, <2>3, <3>1
    <3>3. k <= ring.count => Slot(ring, k) = k - 1
      BY <1>2, <2>3, SlotOf
    <3>. QED
      BY <1>2, <1>3, <1>4, <1>5, <1>6, <2>1, <2>3, <3>1, <3>2, <3>3
  <2>4. CASE ring.count = WindowSize
    <3>1. k < WindowSize => /\ Slot(ring, k + 1) = Slot(new, k)
                            /\ Slot(new, k) # ring.head
      BY <1>2, <1>4, <2>2, <2>4, SlotOf
    <3>2. k = WindowSize => Slot(new, k) = ring.head
      BY <1>2, <1>4, <2>2, <2>4
    <3>3. Slot(new, k) \in 0..(WindowSize - 1)
      BY <1>1, <1>2, <1>4, <2>4, SlotOf
    <3>. QED
      BY <1>2, <1>3, <1>4, <1>5, <1>6, <2>1, <2>4, <3>1, <3>2, <3>3
  <2>. QED
    BY <1>2, <2>3, <2>4
<1>8. Unrolled(new) \in Seq(S) /\ Len(Unrolled(new)) = new.count
  BY <1>1, UnrolledType
<1>. QED
  BY <1>6, <1>7, <1>8, SeqEqual

\* Each remembered item has a slot of its own below count, and each of those slots
\* holds one.
LEMMA SlotsAreAll ==
  ASSUME NEW S, NEW ring, RingOK(ring, S)
  PROVE  /\ \A j, k \in 1..ring.count : Slot(ring, j) = Slot(ring, k) => j = k
         /\ \A i \in 0..(ring.count - 1) : \E k \in 1..ring.count : Slot(ring, k) = i
<1>1. ring.head \in 0..(WindowSize - 1) /\ ring.count \in 0..WindowSize /\ WindowSize \in Nat \ {0}
  BY SpinAssumption DEF RingOK, Ring
<1>2. ASSUME NEW j \in 1..ring.count, NEW k \in 1..ring.count, Slot(ring, j) = Slot(ring, k)
      PROVE  j = k
  BY <1>1, <1>2, SlotOf
<1>3. ASSUME NEW i \in 0..(ring.count - 1)
      PROVE  \E k \in 1..ring.count : Slot(ring, k) = i
  <2> DEFINE k == IF ring.count < WindowSize THEN i + 1
                  ELSE IF i >= ring.head THEN i - ring.head + 1
                  ELSE i - ring.head + 1 + WindowSize
  <2>1. k \in 1..ring.count
    BY <1>1
  <2>2. Slot(ring, k) = i
    BY <1>1, <2>1, SlotOf
  <2>. QED
    BY <2>1, <2>2
<1>. QED
  BY <1>2, <1>3

\* Counting over slots is counting over what is remembered.
LEMMA CountIsOccurrences ==
  ASSUME NEW S, NEW ring, RingOK(ring, S), NEW x
  PROVE  /\ Count(ring, x) = ToolsSeen!Occurrences(Unrolled(ring), x)
         /\ Count(ring, x) \in Nat /\ Count(ring, x) <= ring.count
         /\ Count(ring, x) > 0 => \E i \in 0..(ring.count - 1) : ring.slots[i] = x
<1> DEFINE A == {k \in 1..ring.count : ring.slots[Slot(ring, k)] = x}
           B == {i \in 0..(ring.count - 1) : ring.slots[i] = x}
           f == [k \in A |-> Slot(ring, k)]
<1>1. ring.count \in Nat
  BY SpinAssumption DEF RingOK, Ring
<1>2. f \in [A -> B]
  BY SlotOf
<1>3. f \in Injection(A, B)
  BY <1>2, SlotsAreAll DEF Injection, IsInjective
<1>4. f \in Surjection(A, B)
  BY <1>2, SlotsAreAll DEF Surjection
<1>5. ExistsBijection(A, B)
  BY <1>3, <1>4 DEF ExistsBijection, Bijection
<1>6. IsFiniteSet(A)
  <2>1. IsFiniteSet(1..ring.count)
    BY <1>1, FS_Interval
  <2>. QED
    BY <2>1, FS_Subset
<1>7. Cardinality(A) = Cardinality(B)
  BY <1>5, <1>6, FS_Bijection
<1>8. {k \in DOMAIN Unrolled(ring) : Unrolled(ring)[k] = x} = A
  BY UnrolledType DEF Unrolled
<1>9. IsFiniteSet(B) /\ Cardinality(B) \in Nat /\ Cardinality(B) <= ring.count
  <2> DEFINE last == ring.count - 1
  <2>1. last \in Int
    BY <1>1
  <2>2. IsFiniteSet(0..last) /\ Cardinality(0..last) = IF 0 > last THEN 0 ELSE last + 1
    <3>. HIDE DEF last
    <3>. QED
      BY <2>1, FS_Interval
  <2>3. IsFiniteSet(B) /\ Cardinality(B) <= Cardinality(0..last)
    BY <2>2, FS_Subset
  <2>. QED
    BY <1>1, <2>2, <2>3, FS_CardinalityType
<1>10. Cardinality(B) > 0 => B # {}
  BY FS_EmptySet
<1>11. Count(ring, x) = Cardinality(B)
  BY DEF Count
<1>12. ToolsSeen!Occurrences(Unrolled(ring), x) = Cardinality(A)
  <2>1. ToolsSeen!Cardinality(A) = Cardinality(A)
    BY DEF ToolsSeen!Cardinality, Cardinality, ToolsSeen!IsFiniteSet, IsFiniteSet
  <2>. QED
    BY <1>8, <2>1 DEF ToolsSeen!Occurrences
<1>. HIDE DEF A
<1>. QED
  BY <1>7, <1>9, <1>10, <1>11, <1>12

\* What checkRepeatedTools and checkErrorEcho look for is what the window's alarm
\* is about.
LEMMA RepeatsIsAlarm ==
  ASSUME NEW S, NEW ring, RingOK(ring, S), NEW threshold \in Nat \ {0}
  PROVE  Repeats(ring, threshold) <=>
           \E y \in S \ {NoText} : ToolsSeen!Occurrences(Unrolled(ring), y) >= threshold
<1>1. ring.count \in Nat
  BY SpinAssumption DEF RingOK, Ring
<1>2. ASSUME Repeats(ring, threshold)
      PROVE  \E y \in S \ {NoText} : ToolsSeen!Occurrences(Unrolled(ring), y) >= threshold
  <2>1. PICK i \in 0..(ring.count - 1) :
           ring.slots[i] # NoText /\ Count(ring, ring.slots[i]) >= threshold
    BY <1>2 DEF Repeats
  <2>2. ring.slots[i] \in S
    BY DEF RingOK
  <2>. QED
    BY <2>1, <2>2, CountIsOccurrences
<1>3. ASSUME NEW y \in S \ {NoText}, ToolsSeen!Occurrences(Unrolled(ring), y) >= threshold
      PROVE  Repeats(ring, threshold)
  <2>1. /\ Count(ring, y) >= threshold
        /\ Count(ring, y) \in Nat /\ Count(ring, y) <= ring.count
    BY <1>3, CountIsOccurrences
  <2>2. PICK i \in 0..(ring.count - 1) : ring.slots[i] = y
    BY <2>1, CountIsOccurrences
  <2>. QED
    BY <1>1, <2>1, <2>2 DEF Repeats
<1>. QED
  BY <1>2, <1>3

----------------------------------------------------------------------------
(* The reasons Check gives.                                                *)

Has(s, x) == \E i \in DOMAIN s : s[i] = x

Reason == Heuristic \cup {"stall"}

\* A concatenation has what its parts have.
LEMMA HasConcat ==
  ASSUME NEW s \in Seq(Reason), NEW t \in Seq(Reason), NEW x
  PROVE  /\ s \o t \in Seq(Reason)
         /\ Has(s \o t, x) <=> Has(s, x) \/ Has(t, x)
<1>1. /\ s \o t \in Seq(Reason) /\ Len(s \o t) = Len(s) + Len(t)
      /\ \A i \in 1..(Len(s) + Len(t)) :
           (s \o t)[i] = IF i <= Len(s) THEN s[i] ELSE t[i - Len(s)]
  BY ConcatProperties
<1>2. /\ Len(s) \in Nat /\ DOMAIN s = 1..Len(s)
      /\ Len(t) \in Nat /\ DOMAIN t = 1..Len(t)
      /\ DOMAIN (s \o t) = 1..Len(s \o t)
  BY <1>1, LenProperties
<1>3. Has(s \o t, x) => Has(s, x) \/ Has(t, x)
  <2>1. SUFFICES ASSUME NEW i \in 1..(Len(s) + Len(t)), (s \o t)[i] = x
                 PROVE  Has(s, x) \/ Has(t, x)
    BY <1>1, <1>2 DEF Has
  <2>2. CASE i <= Len(s)
    BY <1>1, <1>2, <2>1, <2>2 DEF Has
  <2>3. CASE i > Len(s)
    <3>1. i - Len(s) \in DOMAIN t /\ t[i - Len(s)] = x
      BY <1>1, <1>2, <2>1, <2>3
    <3>. QED
      BY <3>1 DEF Has
  <2>. QED
    BY <1>2, <2>2, <2>3
<1>4. ASSUME NEW i \in DOMAIN s, s[i] = x
      PROVE  Has(s \o t, x)
  BY <1>1, <1>2, <1>4 DEF Has
<1>5. ASSUME NEW i \in DOMAIN t, t[i] = x
      PROVE  Has(s \o t, x)
  <2>1. Len(s) + i \in DOMAIN (s \o t) /\ (s \o t)[Len(s) + i] = x
    BY <1>1, <1>2, <1>5
  <2>. QED
    BY <2>1 DEF Has
<1>. QED
  BY <1>1, <1>3, <1>4, <1>5 DEF Has

\* One reason, given on a condition.
LEMMA HasIf ==
  ASSUME NEW c \in BOOLEAN, NEW r \in Reason, NEW x
  PROVE  If(c, r) \in Seq(Reason) /\ (Has(If(c, r), x) <=> c /\ r = x)
<1>1. CASE c
  <2>1. If(c, r) = <<r>>
    BY <1>1 DEF If
  <2>2. <<r>> \in Seq(Reason) /\ Len(<<r>>) = 1 /\ <<r>>[1] = r
    OBVIOUS
  <2>3. DOMAIN <<r>> = 1..1
    BY <2>2, LenProperties
  <2>4. Has(<<r>>, x) <=> r = x
    <3>. \A i \in DOMAIN <<r>> : i = 1
      BY <2>3
    <3>. 1 \in DOMAIN <<r>>
      BY <2>3
    <3>. QED
      BY <2>2 DEF Has
  <2>. QED
    BY <1>1, <2>1, <2>2, <2>4
<1>2. CASE ~c
  <2>1. If(c, r) = <<>>
    BY <1>2 DEF If
  <2>2. <<>> \in Seq(Reason) /\ DOMAIN <<>> = {}
    OBVIOUS
  <2>. QED
    BY <1>2, <2>1, <2>2 DEF Has
<1>. QED
  BY <1>1, <1>2

\* Of the five reasons, each is given exactly on its own condition.
LEMMA EachForItself ==
  ASSUME NEW a \in BOOLEAN, NEW b \in BOOLEAN, NEW c \in BOOLEAN,
         NEW d \in BOOLEAN, NEW e \in BOOLEAN, NEW x
  PROVE  LET all == (If(a, "repeated_tool_calls") \o If(b, "error_echo"))
                      \o If(c, "stall")
                      \o (If(d, "cost_velocity") \o If(e, "context_bloat"))
         IN  /\ all \in Seq(Reason)
             /\ Has(all, x) <=> \/ a /\ x = "repeated_tool_calls"
                                \/ b /\ x = "error_echo"
                                \/ c /\ x = "stall"
                                \/ d /\ x = "cost_velocity"
                                \/ e /\ x = "context_bloat"
<1> DEFINE A == If(a, "repeated_tool_calls")
           B == If(b, "error_echo")
           C == If(c, "stall")
           D == If(d, "cost_velocity")
           E == If(e, "context_bloat")
<1>1. /\ A \in Seq(Reason) /\ B \in Seq(Reason) /\ C \in Seq(Reason)
      /\ D \in Seq(Reason) /\ E \in Seq(Reason)
      /\ Has(A, x) <=> a /\ x = "repeated_tool_calls"
      /\ Has(B, x) <=> b /\ x = "error_echo"
      /\ Has(C, x) <=> c /\ x = "stall"
      /\ Has(D, x) <=> d /\ x = "cost_velocity"
      /\ Has(E, x) <=> e /\ x = "context_bloat"
  <2>0. {"repeated_tool_calls", "error_echo", "stall", "cost_velocity", "context_bloat"}
           \subseteq Reason
    BY DEF Reason, Heuristic
  <2>1. \A p \in BOOLEAN, r \in Reason :
          If(p, r) \in Seq(Reason) /\ (Has(If(p, r), x) <=> p /\ r = x)
    BY HasIf
  <2>. QED
    BY <2>0, <2>1
<1>. HIDE DEF A, B, C, D, E
<1>2. A \o B \in Seq(Reason) /\ (Has(A \o B, x) <=> Has(A, x) \/ Has(B, x))
  BY <1>1, HasConcat
<1>3. D \o E \in Seq(Reason) /\ (Has(D \o E, x) <=> Has(D, x) \/ Has(E, x))
  BY <1>1, HasConcat
<1>4. /\ (A \o B) \o C \in Seq(Reason)
      /\ Has((A \o B) \o C, x) <=> Has(A \o B, x) \/ Has(C, x)
  BY <1>1, <1>2, HasConcat
<1>5. /\ (A \o B) \o C \o (D \o E) \in Seq(Reason)
      /\ Has((A \o B) \o C \o (D \o E), x) <=> Has((A \o B) \o C, x) \/ Has(D \o E, x)
  BY <1>3, <1>4, HasConcat
<1>. QED
  BY <1>1, <1>2, <1>3, <1>4, <1>5 DEF A, B, C, D, E

\* Check gives the repetition reasons and the velocity on their own conditions.
LEMMA ReasonsOfCheck ==
  ASSUME NEW e \in Event, Check(e)
  PROVE  /\ result'.reasons \in Seq(Reason)
         /\ Says("cost_velocity")' <=> CostSoFar + e.cost > 0 /\ TooFast(costWindow')
         /\ Says("repeated_tool_calls")' <=>
              e.kind = "tool_use" /\ Repeats(tools', RepeatedCalls)
         /\ Says("error_echo")' <=>
              e.kind = "error" /\ Repeats(errors', ErrorEcho)
<1> DEFINE
      now    == TimeOf(e)
      cost   == CostSoFar + e.cost
      edit   == IF e.kind = "tool_use" /\ e.edits THEN now ELSE lastFileEdit
      active == hasActivity \/ e.input > 0 \/ e.cost > 0
      model  == IF e.input > 0 /\ ContextFillPercent > 0 /\ e.model # NoModel
                THEN e.model ELSE lastModel
      a == e.kind = "tool_use" /\ Repeats(tools', RepeatedCalls)
      b == e.kind = "error" /\ Repeats(errors', ErrorEcho)
      c == Stalled(now, active, edit)
      d == cost > 0 /\ TooFast(costWindow')
      f == e.input > 0 /\ Bloated(e, model)
      all == (If(a, "repeated_tool_calls") \o If(b, "error_echo"))
                \o If(c, "stall")
                \o (If(d, "cost_velocity") \o If(f, "context_bloat"))
<1>1. result'.reasons = all
  BY DEF Check
<1>2. {a, b, c, d, f} \subseteq BOOLEAN
  BY DEF Stalled
<1>. HIDE DEF a, b, c, d, f
<1>0. all \in Seq(Reason)
  BY <1>2, EachForItself
<1>3. \A x : Has(all, x) <=> \/ a /\ x = "repeated_tool_calls"
                             \/ b /\ x = "error_echo"
                             \/ c /\ x = "stall"
                             \/ d /\ x = "cost_velocity"
                             \/ f /\ x = "context_bloat"
  BY <1>2, EachForItself
<1>4. /\ Says("repeated_tool_calls")' <=> a
      /\ Says("error_echo")' <=> b
      /\ Says("cost_velocity")' <=> d
  <2>1. (Says("repeated_tool_calls")' <=> Has(all, "repeated_tool_calls"))
    BY <1>1 DEF Says, Has
  <2>2. (Says("error_echo")' <=> Has(all, "error_echo"))
    BY <1>1 DEF Says, Has
  <2>3. (Says("cost_velocity")' <=> Has(all, "cost_velocity"))
    BY <1>1 DEF Says, Has
  <2>. HIDE DEF all
  <2>. QED
    BY <1>3, <2>1, <2>2, <2>3
<1>. QED
  BY <1>0, <1>1, <1>4 DEF a, b, d

----------------------------------------------------------------------------
\* Both rings are in good order.
RingsOK == RingOK(tools, Call) /\ RingOK(errors, ErrorText)

\* They are when the session starts, remembering nothing.
LEMMA InitRings ==
  ASSUME Init
  PROVE  /\ RingsOK
         /\ Unrolled(tools) = <<>> /\ Unrolled(errors) = <<>>
         /\ ~Says("repeated_tool_calls") /\ ~Says("error_echo")
<1>1. /\ tools = [slots |-> [i \in 0..(WindowSize - 1) |-> NoText], head |-> 0, count |-> 0]
      /\ errors = tools /\ result.reasons = <<>>
  BY DEF Init
<1>2. RingOK(tools, Call) /\ RingOK(tools, ErrorText)
  BY <1>1, SpinAssumption DEF RingOK, Ring
<1>3. Unrolled(tools) = <<>>
  BY <1>1 DEF Unrolled
<1>4. ~Says("repeated_tool_calls") /\ ~Says("error_echo")
  BY <1>1 DEF Says
<1>. QED
  BY <1>1, <1>2, <1>3, <1>4 DEF RingsOK

\* And after every event.
LEMMA StepKeepsRings == RingsOK /\ [Next]_vars => RingsOK'
<1>1. ASSUME RingsOK, NEW e \in Event, Check(e)
      PROVE  RingsOK'
  <2>1. /\ e.kind = "tool_use" => e.item \in Call
        /\ e.kind = "error" => e.item \in ErrorText
    BY SpinAssumption
  <2>2. /\ tools' = IF e.kind = "tool_use" THEN Record(tools, e.item) ELSE tools
        /\ errors' = IF e.kind = "error" THEN Record(errors, e.item) ELSE errors
    BY <1>1 DEF Check
  <2>3. RingOK(tools', Call) /\ RingOK(errors', ErrorText)
    BY <1>1, <2>1, <2>2, RecordOK DEF RingsOK
  <2>. QED
    BY <2>3 DEF RingsOK, RingOK
<1>2. ASSUME RingsOK, UNCHANGED vars
      PROVE  RingsOK'
  BY <1>2 DEF RingsOK, RingOK, vars
<1>. QED
  BY <1>1, <1>2 DEF Next

\* A tool call is a report to the window of tool calls, and any other event is none.
LEMMA StepSlidesTools ==
  ASSUME RingsOK, [Next]_vars
  PROVE  [ToolsSeen!Next]_<<Unrolled(tools), Says("repeated_tool_calls")>>
<1>1. ASSUME NEW e \in Event, Check(e), e.kind = "tool_use"
      PROVE  ToolsSeen!Report(e.item) /\ e.item \in Call
  <2>1. e.item \in Call /\ tools' = Record(tools, e.item)
    BY <1>1, SpinAssumption DEF Check
  <2>2. RingOK(tools', Call)
    BY <2>1, RecordOK DEF RingsOK
  <2>3. Unrolled(tools') = ToolsSeen!Latest(Append(Unrolled(tools), e.item))
    BY <2>1, RecordSlides DEF RingsOK
  <2>4. Says("repeated_tool_calls")' <=>
          \E y \in Call \ {NoText} : ToolsSeen!Occurrences(Unrolled(tools'), y) >= RepeatedCalls
    BY <1>1, <2>2, ReasonsOfCheck, RepeatsIsAlarm, SpinAssumption
  <2>5. Call \ {NoText} = Call \ {}
    BY SpinAssumption
  <2>6. Unrolled(tools)' = ToolsSeen!Latest(Append(Unrolled(tools), e.item))
    BY <2>3, <2>5 DEF Unrolled
  <2>7. \A y : ToolsSeen!Occurrences(Unrolled(tools)', y) = ToolsSeen!Occurrences(Unrolled(tools'), y)
    BY <2>5 DEF Unrolled
  <2>8. Says("repeated_tool_calls")' <=>
          \E y \in Call \ {} : ToolsSeen!Occurrences(Unrolled(tools)', y) >= RepeatedCalls
    BY <2>4, <2>5, <2>7
  <2>. QED
    BY <2>1, <2>6, <2>8 DEF ToolsSeen!Report, Says
<1>2. ASSUME NEW e \in Event, Check(e), e.kind # "tool_use"
      PROVE  ToolsSeen!Other
  <2>1. tools' = tools
    BY <1>2 DEF Check
  <2>2. ~Says("repeated_tool_calls")'
    BY <1>2, ReasonsOfCheck
  <2>. QED
    BY <2>1, <2>2 DEF ToolsSeen!Other, Unrolled
<1>3. ASSUME UNCHANGED vars
      PROVE  UNCHANGED <<Unrolled(tools), Says("repeated_tool_calls")>>
  BY <1>3 DEF vars, Unrolled, Says
<1>. QED
  BY <1>1, <1>2, <1>3 DEF Next, ToolsSeen!Next

\* So is an error to the window of errors.
LEMMA StepSlidesErrors ==
  ASSUME RingsOK, [Next]_vars
  PROVE  [ErrorsSeen!Next]_<<Unrolled(errors), Says("error_echo")>>
<1>1. ASSUME NEW e \in Event, Check(e), e.kind = "error"
      PROVE  ErrorsSeen!Report(e.item) /\ e.item \in ErrorText
  <2>1. e.item \in ErrorText /\ errors' = Record(errors, e.item)
    BY <1>1, SpinAssumption DEF Check
  <2>2. RingOK(errors', ErrorText)
    BY <2>1, RecordOK DEF RingsOK
  <2>3. Unrolled(errors') = ToolsSeen!Latest(Append(Unrolled(errors), e.item))
    BY <2>1, RecordSlides DEF RingsOK
  <2>4. Says("error_echo")' <=>
          \E y \in ErrorText \ {NoText} : ToolsSeen!Occurrences(Unrolled(errors'), y) >= ErrorEcho
    BY <1>1, <2>2, ReasonsOfCheck, RepeatsIsAlarm, SpinAssumption
  <2>5. /\ \A q : ErrorsSeen!Latest(q) = ToolsSeen!Latest(q)
        /\ \A q, y : ErrorsSeen!Occurrences(q, y) = ToolsSeen!Occurrences(q, y)
    BY DEF ErrorsSeen!Latest, ToolsSeen!Latest, ErrorsSeen!Occurrences, ToolsSeen!Occurrences,
           ErrorsSeen!Cardinality, ToolsSeen!Cardinality
  <2>6. Unrolled(errors)' = ErrorsSeen!Latest(Append(Unrolled(errors), e.item))
    BY <2>3, <2>5 DEF Unrolled
  <2>7. \A y : ErrorsSeen!Occurrences(Unrolled(errors)', y) = ToolsSeen!Occurrences(Unrolled(errors'), y)
    BY <2>5 DEF Unrolled
  <2>8. Says("error_echo")' <=>
          \E y \in ErrorText \ {NoText} : ErrorsSeen!Occurrences(Unrolled(errors)', y) >= ErrorEcho
    BY <2>4, <2>5, <2>7
  <2>. QED
    BY <2>1, <2>6, <2>8 DEF ErrorsSeen!Report, Says
<1>2. ASSUME NEW e \in Event, Check(e), e.kind # "error"
      PROVE  ErrorsSeen!Other
  <2>1. errors' = errors
    BY <1>2 DEF Check
  <2>2. ~Says("error_echo")'
    BY <1>2, ReasonsOfCheck
  <2>. QED
    BY <2>1, <2>2 DEF ErrorsSeen!Other, Unrolled
<1>3. ASSUME UNCHANGED vars
      PROVE  UNCHANGED <<Unrolled(errors), Says("error_echo")>>
  BY <1>3 DEF vars, Unrolled, Says
<1>. QED
  BY <1>1, <1>2, <1>3 DEF Next, ErrorsSeen!Next

----------------------------------------------------------------------------
\* The ring of tool calls is the sliding window it stands for: whatever the size,
\* the thresholds and the log, and however often the ring has wrapped round, a call
\* is reported exactly when it is among the last WindowSize calls too often.
THEOREM ToolRingIsWindow == Spec => ToolWindow
<1>1. Init => RingsOK /\ ToolsSeen!Init
  BY InitRings DEF ToolsSeen!Init
<1>2. RingsOK /\ [Next]_vars =>
        [ToolsSeen!Next]_<<Unrolled(tools), Says("repeated_tool_calls")>>
  BY StepSlidesTools
<1>. QED
  BY <1>1, <1>2, StepKeepsRings, PTL DEF Spec, ToolWindow, ToolsSeen!Spec

\* So is the ring of error messages, in which an empty message never counts.
THEOREM ErrorRingIsWindow == Spec => ErrorWindow
<1>1. Init => RingsOK /\ ErrorsSeen!Init
  BY InitRings DEF ErrorsSeen!Init
<1>2. RingsOK /\ [Next]_vars =>
        [ErrorsSeen!Next]_<<Unrolled(errors), Says("error_echo")>>
  BY StepSlidesErrors
<1>. QED
  BY <1>1, <1>2, StepKeepsRings, PTL DEF Spec, ErrorWindow, ErrorsSeen!Spec
----------------------------------------------------------------------------
(* The cost window.                                                        *)

InOrder == \A i, j \in DOMAIN spending : i < j => spending[i].time <= spending[j].time

\* How many charges have been trimmed.
Trimmed == Len(spending) - Len(costWindow)

\* The cost window is the end of all there was; what it lacks, while timestamps are in
\* order, is too old.
WindowInv ==
    /\ spending \in Seq(Charge) /\ costWindow \in Seq(Charge) /\ clock \in Int
    /\ Trimmed \in Nat
    /\ \A i \in 1..Len(costWindow) : costWindow[i] = spending[Trimmed + i]
    /\ spending # <<>> =>
         /\ costWindow # <<>> /\ CostSoFar > 0
         /\ costWindow[1].time >= costWindow[Len(costWindow)].time - VelocitySpan
    /\ InOrder =>
         \A i \in 1..Trimmed : spending[i].time < spending[Len(spending)].time - VelocitySpan

\* The velocity is reported when it is too high in the window.
ReportInv == Says("cost_velocity") <=> (costWindow # <<>> /\ TooFast(costWindow))

\* A set of natural numbers with a member has a least one.
LEMMA MinOf ==
  ASSUME NEW T \in SUBSET Nat, T # {}
  PROVE  /\ Min(T) \in T
         /\ \A y \in T : Min(T) <= y
<1> DEFINE R == OpToRel(<, Nat)
<1>1. \A x, y \in Nat : <<y, x>> \in R <=> y < x
  BY DEF OpToRel
<1>2. PICK x \in T : \A y \in T : ~(<<y, x>> \in R)
  BY NatLessThanWellFounded, WFMin
<1> HIDE DEF R
<1>3. ASSUME NEW y \in T PROVE x <= y
  <2>1. x \in Nat /\ y \in Nat /\ ~(y < x)
    BY <1>1, <1>2
  <2> QED BY <2>1
<1> QED BY <1>2, <1>3 DEF Min

\* What a sequence of charges is.
LEMMA ChargesAre ==
  ASSUME NEW s \in Seq(Charge)
  PROVE  /\ Len(s) \in Nat /\ DOMAIN s = 1..Len(s)
         /\ s = <<>> <=> Len(s) = 0
         /\ \A i \in 1..Len(s) : s[i] \in Charge /\ s[i].time \in Int /\ s[i].cost \in Nat
<1>1. /\ Len(s) \in Nat /\ DOMAIN s = 1..Len(s)
      /\ \A i \in 1..Len(s) : s[i] \in Charge
  BY LenProperties, ElementOfSeq
<1>2. s = <<>> <=> Len(s) = 0
  BY EmptySeq
<1>3. \A c \in Charge : c.time \in Int /\ c.cost \in Nat
  BY DEF Charge
<1> QED BY <1>1, <1>2, <1>3

\* The first charge of a window that is recent.
FirstRecent(window, now) ==
    Min({i \in DOMAIN window : window[i].time >= now - VelocitySpan})

Trim(window, now) == SubSeq(window, FirstRecent(window, now), Len(window))

\* The first of the window stays if it is recent: what is trimmed comes before the
\* first charge that is.
LEMMA Trimming ==
  ASSUME NEW window \in Seq(Charge), NEW now \in Int, window # <<>>,
         window[Len(window)].time = now
  PROVE  /\ FirstRecent(window, now) \in 1..Len(window)
         /\ window[FirstRecent(window, now)].time >= now - VelocitySpan
         /\ \A i \in 1..(FirstRecent(window, now) - 1) :
              window[i].time < now - VelocitySpan
         /\ Trim(window, now) \in Seq(Charge)
         /\ Len(Trim(window, now)) = Len(window) - FirstRecent(window, now) + 1
         /\ \A i \in 1..Len(Trim(window, now)) :
              Trim(window, now)[i] = window[FirstRecent(window, now) - 1 + i]
<1> DEFINE n == Len(window)
           T == {i \in DOMAIN window : window[i].time >= now - VelocitySpan}
           k == FirstRecent(window, now)
           rest == Trim(window, now)
<1>0. k = Min(T) /\ rest = SubSeq(window, k, n)
  BY DEF FirstRecent, Trim
<1> HIDE DEF k, rest
<1>1. /\ n \in Nat \ {0} /\ DOMAIN window = 1..n
      /\ \A i \in 1..n : window[i] \in Charge /\ window[i].time \in Int
  BY ChargesAre
<1>2. VelocitySpan \in Nat
  BY SpinAssumption
<1>3. n \in T /\ T \subseteq 1..n
  BY <1>1, <1>2
<1>4. k \in T /\ \A y \in T : k <= y
  <2> HIDE DEF T, n
  <2>1. T \in SUBSET Nat /\ T # {}
    BY <1>1, <1>3
  <2> QED BY <1>0, <2>1, MinOf
<1>5. k \in 1..n /\ window[k].time >= now - VelocitySpan
  BY <1>3, <1>4
<1>6. \A i \in 1..(k - 1) : window[i].time < now - VelocitySpan
  BY <1>1, <1>2, <1>4, <1>5
<1>7. \A i \in k..n : window[i] \in Charge
  BY <1>1, <1>5
<1>8. /\ rest \in Seq(Charge) /\ Len(rest) = n - k + 1
      /\ \A i \in 1..(n - k + 1) : rest[i] = window[k + i - 1]
  <2>1. k \in Int /\ n \in Int /\ k <= n
    BY <1>1, <1>5
  <2> HIDE DEF n
  <2>2. /\ SubSeq(window, k, n) \in Seq(Charge)
        /\ Len(SubSeq(window, k, n)) = IF k <= n THEN n - k + 1 ELSE 0
        /\ \A i \in 1..(n - k + 1) : SubSeq(window, k, n)[i] = window[k + i - 1]
    BY <1>7, <2>1, SubSeqProperties
  <2> QED BY <1>0, <2>1, <2>2
<1>9. \A i \in 1..Len(rest) : rest[i] = window[k - 1 + i]
  <2> SUFFICES ASSUME NEW i \in 1..Len(rest) PROVE rest[i] = window[k - 1 + i]
    OBVIOUS
  <2>1. k + i - 1 = k - 1 + i /\ i \in 1..(n - k + 1)
    BY <1>1, <1>5, <1>8
  <2> QED BY <1>8, <2>1
<1> QED BY <1>5, <1>6, <1>8, <1>9 DEF k, rest

LEMMA InitWindow == Init => WindowInv /\ ReportInv
<1> SUFFICES ASSUME Init PROVE WindowInv /\ ReportInv
  OBVIOUS
<1>1. spending = <<>> /\ costWindow = <<>> /\ clock \in Int /\ result.reasons = <<>>
  BY SpinAssumption DEF Init
<1>2. <<>> \in Seq(Charge) /\ Len(<<>>) = 0
  BY EmptySeq
<1>3. ~Says("cost_velocity")
  BY <1>1 DEF Says
<1> QED BY <1>1, <1>2, <1>3 DEF WindowInv, ReportInv, Trimmed

\* What an event costs, and when it is.
LEMMA EventIs ==
  ASSUME NEW e \in Event, clock \in Int
  PROVE  e.cost \in Nat /\ e.input \in Nat /\ TimeOf(e) \in Int
         /\ (e.after = Unstamped \/ clock + e.after \in Int)
<1>1. e \in EventType
  BY SpinAssumption
<1> QED BY <1>1 DEF EventType, TimeOf

\* A charge enters both, the window and what there was; the window is trimmed at most
\* up to it.
LEMMA ChargeKeepsWindow ==
  ASSUME NEW now \in Int, NEW cost \in Nat \ {0}
  PROVE  /\ WindowInv /\ clock' \in Int
         /\ costWindow' = RecordCost(now, cost)
         /\ spending' = Append(spending, [time |-> now, cost |-> cost])
         => WindowInv'
<1> DEFINE charge == [time |-> now, cost |-> cost]
           n == Len(spending)
           m == Len(costWindow)
           d == n - m
           window == Append(costWindow, charge)
           k == FirstRecent(window, now)
<1>a. SUFFICES ASSUME WindowInv, clock' \in Int, costWindow' = RecordCost(now, cost),
                      spending' = Append(spending, charge)
               PROVE  WindowInv'
  OBVIOUS
<1>1. /\ n \in Nat /\ m \in Nat /\ d \in Nat /\ DOMAIN spending = 1..n
      /\ charge \in Charge /\ charge.time = now /\ charge.cost = cost
      /\ VelocitySpan \in Nat
      /\ \A i \in 1..n : spending[i].time \in Int
  <2>1. spending \in Seq(Charge) /\ costWindow \in Seq(Charge) /\ d \in Nat
    BY <1>a DEF WindowInv, Trimmed
  <2>2. charge \in Charge
    BY DEF Charge
  <2> QED BY <2>1, <2>2, ChargesAre, SpinAssumption
<1>2. /\ window \in Seq(Charge) /\ Len(window) = m + 1 /\ window # <<>>
      /\ window[m + 1] = charge
      /\ \A i \in 1..m : window[i] = costWindow[i]
  BY <1>a, <1>1, AppendProperties, EmptySeq DEF WindowInv
<1>3. /\ spending' \in Seq(Charge) /\ Len(spending') = n + 1 /\ spending' # <<>>
      /\ spending'[n + 1] = charge
      /\ \A i \in 1..n : spending'[i] = spending[i]
      /\ DOMAIN spending' = 1..(n + 1)
  BY <1>a, <1>1, AppendProperties, EmptySeq, LenProperties DEF WindowInv
<1>4. \A i \in 1..(m + 1) : window[i] = spending'[d + i]
  <2> SUFFICES ASSUME NEW i \in 1..(m + 1) PROVE window[i] = spending'[d + i]
    OBVIOUS
  <2>1. CASE i = m + 1
    BY <1>1, <1>2, <1>3, <2>1
  <2>2. CASE i # m + 1
    <3>1. i \in 1..m /\ d + i \in 1..n
      BY <1>1, <2>2
    <3>2. costWindow[i] = spending[d + i]
      BY <1>a, <3>1 DEF WindowInv, Trimmed
    <3> QED BY <1>2, <1>3, <3>1, <3>2
  <2> QED BY <2>1, <2>2
<1>5. window[Len(window)].time = now
  BY <1>1, <1>2
<1>6. costWindow' = Trim(window, now)
  BY <1>a DEF RecordCost, FirstRecent, Trim
<1> HIDE DEF window, charge, k, d, m, n
<1>7. /\ k \in 1..Len(window) /\ window[k].time >= now - VelocitySpan
      /\ \A i \in 1..(k - 1) : window[i].time < now - VelocitySpan
      /\ costWindow' \in Seq(Charge) /\ Len(costWindow') = Len(window) - k + 1
      /\ \A i \in 1..Len(costWindow') : costWindow'[i] = window[k - 1 + i]
  BY <1>2, <1>5, <1>6, Trimming DEF k
<1>8. /\ k \in 1..(m + 1) /\ Len(costWindow') = m + 2 - k
      /\ Trimmed' = d + k - 1 /\ Trimmed' \in Nat
  <2>1. k \in 1..(m + 1) /\ Len(costWindow') = m + 2 - k
    BY <1>1, <1>2, <1>7
  <2>2. Trimmed' = Len(spending') - Len(costWindow')
    BY DEF Trimmed
  <2>3. Len(spending') = n + 1
    BY <1>3
  <2> QED BY <1>1, <2>1, <2>2, <2>3 DEF d
<1>9. \A i \in 1..Len(costWindow') : costWindow'[i] = spending'[Trimmed' + i]
  <2> SUFFICES ASSUME NEW i \in 1..Len(costWindow')
               PROVE  costWindow'[i] = spending'[Trimmed' + i]
    OBVIOUS
  <2>1. k - 1 + i \in 1..(m + 1) /\ d + (k - 1 + i) = Trimmed' + i
    BY <1>1, <1>8
  <2> QED BY <1>4, <1>7, <2>1
<1>10. /\ costWindow' # <<>> /\ CostSoFar' > 0
       /\ costWindow'[1].time >= costWindow'[Len(costWindow')].time - VelocitySpan
  <2>1. Len(costWindow') >= 1
    BY <1>1, <1>8
  <2>2. costWindow' # <<>>
    BY <2>1, EmptySeq
  <2>3. CostSoFar' = cost
    BY <1>1, <1>3 DEF CostSoFar, charge
  <2>4. costWindow'[1] = window[k] /\ costWindow'[Len(costWindow')] = charge
    BY <1>1, <1>2, <1>7, <1>8, <2>1
  <2> QED BY <1>1, <1>7, <2>2, <2>3, <2>4
<1>11. ASSUME InOrder', NEW i \in 1..Trimmed'
       PROVE  spending'[i].time < spending'[n + 1].time - VelocitySpan
  <2>0. \A x, y \in 1..(n + 1) : x < y => spending'[x].time <= spending'[y].time
    BY <1>3, <1>11 DEF InOrder
  <2>1. spending'[n + 1].time = now
    BY <1>1, <1>3
  <2>2. CASE i > d
    <3>1. i - d \in 1..(k - 1) /\ i - d \in 1..(m + 1) /\ d + (i - d) = i
      BY <1>1, <1>8, <2>2
    <3>2. window[i - d] = spending'[i]
      BY <1>4, <3>1
    <3> QED BY <1>7, <2>1, <3>1, <3>2
  <2>3. CASE i <= d
    <3>1. i \in 1..d /\ i \in 1..n /\ n \in 1..n
      BY <1>1, <2>3 DEF d
    <3>2. InOrder
      <4> SUFFICES ASSUME NEW x \in 1..n, NEW y \in 1..n, x < y
                   PROVE  spending[x].time <= spending[y].time
        BY <1>1 DEF InOrder
      <4>1. spending'[x].time <= spending'[y].time
        BY <1>1, <2>0
      <4> QED BY <1>3, <4>1
    <3>3. spending[i].time < spending[n].time - VelocitySpan
      BY <1>a, <3>1, <3>2 DEF WindowInv, Trimmed, d, m, n
    <3>4. spending'[n].time <= spending'[n + 1].time
      BY <1>1, <2>0, <3>1
    <3> QED BY <1>1, <1>3, <2>1, <3>1, <3>3, <3>4
  <2>4. i \in Int /\ d \in Int
    BY <1>1, <1>8
  <2> QED BY <2>2, <2>3, <2>4
<1>12. InOrder' => \A i \in 1..Trimmed' :
                     spending'[i].time < spending'[Len(spending')].time - VelocitySpan
  BY <1>3, <1>11
<1> QED BY <1>a, <1>3, <1>7, <1>8, <1>9, <1>10, <1>12 DEF WindowInv

LEMMA StepKeepsWindow == WindowInv /\ ReportInv /\ [Next]_vars => WindowInv' /\ ReportInv'
<1> SUFFICES ASSUME WindowInv, ReportInv, [Next]_vars PROVE WindowInv' /\ ReportInv'
  OBVIOUS
<1>1. ASSUME NEW e \in Event, Check(e) PROVE WindowInv' /\ ReportInv'
  <2> DEFINE now == TimeOf(e)
             cost == CostSoFar + e.cost
  <2>1. CostSoFar \in Nat /\ cost \in Nat /\ now \in Int /\ clock' \in Int
    <3>1. CostSoFar \in Nat
      BY ChargesAre DEF CostSoFar, WindowInv
    <3>2. e.cost \in Nat /\ now \in Int /\ clock \in Int
      BY EventIs DEF WindowInv
    <3>3. clock' = IF e.after = Unstamped THEN clock ELSE now
      BY <1>1 DEF Check
    <3> HIDE DEF now
    <3> QED BY <3>1, <3>2, <3>3
  <2>2. CASE cost > 0
    <3>1. /\ costWindow' = RecordCost(now, cost)
          /\ spending' = Append(spending, [time |-> now, cost |-> cost])
      BY <1>1, <2>2 DEF Check
    <3>2. WindowInv'
      BY <2>1, <2>2, <3>1, ChargeKeepsWindow
    <3>3. spending' # <<>>
      <4> HIDE DEF now, cost
      <4>1. [time |-> now, cost |-> cost] \in Charge
        BY <2>1 DEF Charge
      <4>2. Len(spending') = Len(spending) + 1 /\ Len(spending) \in Nat
        BY <3>1, <4>1, AppendProperties, LenProperties DEF WindowInv
      <4>3. Len(<<>>) = 0
        BY EmptySeq
      <4> QED BY <4>2, <4>3
    <3>4. costWindow' # <<>>
      BY <3>2, <3>3 DEF WindowInv
    <3>5. Says("cost_velocity")' <=> TooFast(costWindow')
      BY <1>1, <2>2, ReasonsOfCheck
    <3>6. TooFast(costWindow') = TooFast(costWindow)'
      BY DEF TooFast
    <3> QED BY <3>2, <3>4, <3>5, <3>6 DEF ReportInv
  <2>3. CASE ~(cost > 0)
    <3>1. costWindow' = costWindow /\ spending' = spending
      BY <1>1, <2>3 DEF Check
    <3>2. WindowInv'
      BY <2>1, <3>1 DEF WindowInv, InOrder, Trimmed, CostSoFar
    <3>3. CostSoFar = 0
      <4>1. e.cost \in Nat
        BY EventIs DEF WindowInv
      <4> QED BY <2>1, <2>3, <4>1
    <3>4. spending = <<>>
      BY <3>3 DEF WindowInv
    <3>5. costWindow = <<>>
      BY <3>4, LenProperties, EmptySeq DEF WindowInv, Trimmed
    <3>6. ~Says("cost_velocity")'
      BY <1>1, <2>3, ReasonsOfCheck
    <3> QED BY <3>1, <3>2, <3>5, <3>6 DEF ReportInv
  <2> QED BY <2>2, <2>3
<1>2. CASE UNCHANGED vars
  BY <1>2 DEF vars, WindowInv, ReportInv, InOrder, Trimmed, CostSoFar, Says, TooFast
<1> QED BY <1>1, <1>2 DEF Next

\* What the window says of what there was.
LEMMA WindowMeasures == WindowInv /\ ReportInv => VelocityIsMeasured
<1> SUFFICES ASSUME WindowInv, ReportInv PROVE VelocityIsMeasured
  OBVIOUS
<1> DEFINE n == Len(spending)
           m == Len(costWindow)
           f == Trimmed + 1
<1>1. /\ n \in Nat /\ m \in Nat /\ DOMAIN spending = 1..n /\ DOMAIN costWindow = 1..m
      /\ \A i \in 1..n : spending[i].time \in Int /\ spending[i].cost \in Nat
      /\ VelocitySpan \in Nat \ {0} /\ Trimmed = n - m /\ Trimmed \in Nat
  BY ChargesAre, SpinAssumption DEF WindowInv, Trimmed
<1>2. costWindow # <<>> => spending # <<>>
  BY <1>1, EmptySeq, LenProperties DEF WindowInv
<1>3. ASSUME spending # <<>>
      PROVE  /\ f \in 1..n /\ m \in Nat \ {0} /\ n \in Nat \ {0}
             /\ costWindow # <<>>
             /\ costWindow[1] = spending[f] /\ costWindow[m] = spending[n]
             /\ Elapsed(f) <= VelocitySpan
             /\ CostSoFar = spending[n].cost
  <2>1. costWindow # <<>>
    BY <1>3 DEF WindowInv
  <2>2. m \in Nat \ {0}
    BY <2>1, EmptySeq DEF WindowInv
  <2>3. f \in 1..n /\ n \in Nat \ {0} /\ 1 \in 1..m /\ m \in 1..m /\ Trimmed + m = n
    BY <1>1, <2>2
  <2>4. costWindow[1] = spending[f] /\ costWindow[m] = spending[n]
    BY <2>3 DEF WindowInv
  <2>5. costWindow[1].time >= costWindow[m].time - VelocitySpan
    BY <1>3 DEF WindowInv
  <2> HIDE DEF f
  <2>6. Elapsed(f) <= VelocitySpan
    BY <1>1, <2>3, <2>4, <2>5 DEF Elapsed
  <2> QED BY <1>3, <2>1, <2>2, <2>3, <2>4, <2>6 DEF CostSoFar
<1>4. ASSUME spending # <<>>
      PROVE  TooFast(costWindow) <=>
               /\ m >= 2 /\ Elapsed(f) >= 1
               /\ CostSoFar - spending[f].cost > CostVelocityPerMin * Elapsed(f)
  BY <1>3, <1>4 DEF TooFast, Elapsed
<1>5. ASSUME Says("cost_velocity") PROVE \E i \in DOMAIN spending : Rushed(i)
  <2>1. costWindow # <<>> /\ TooFast(costWindow)
    BY <1>5 DEF ReportInv
  <2>2. spending # <<>>
    BY <1>2, <2>1
  <2>3. f \in 1..n /\ Elapsed(f) \in Int
    BY <1>1, <1>3, <2>2 DEF Elapsed
  <2> HIDE DEF f
  <2>4. Elapsed(f) \in 1..VelocitySpan
    BY <1>1, <1>3, <1>4, <2>1, <2>2, <2>3
  <2>5. Rushed(f)
    BY <1>4, <2>1, <2>2, <2>4 DEF Rushed
  <2> QED BY <1>1, <2>3, <2>5
<1>6. ASSUME spending # <<>>, InOrder, Rushed(Min(Recent)) PROVE Says("cost_velocity")
  <2> HIDE DEF f
  <2>1. f \in Recent
    BY <1>1, <1>3, <1>6 DEF Recent
  <2>2. \A i \in Recent : f <= i
    <3> SUFFICES ASSUME NEW i \in 1..n, i < f PROVE ~(Elapsed(i) <= VelocitySpan)
      BY <1>1, <1>3, <1>6 DEF Recent
    <3>1. i \in 1..Trimmed
      BY <1>1 DEF f
    <3>2. spending[i].time < spending[n].time - VelocitySpan
      BY <1>6, <3>1 DEF WindowInv
    <3>3. n \in 1..n
      BY <1>3, <1>6
    <3> QED BY <1>1, <3>2, <3>3 DEF Elapsed
  <2>3. Recent \subseteq Nat
    BY <1>1 DEF Recent
  <2>4. Min(Recent) \in Recent /\ Min(Recent) <= f
    BY <2>1, <2>3, MinOf
  <2>5. Min(Recent) = f
    <3>1. f <= Min(Recent) /\ Min(Recent) \in Nat /\ f \in Nat
      BY <2>1, <2>2, <2>3, <2>4
    <3> QED BY <2>4, <3>1
  <2>6. /\ Elapsed(f) \in 1..VelocitySpan
        /\ CostSoFar - spending[f].cost > CostVelocityPerMin * Elapsed(f)
    BY <1>6, <2>5 DEF Rushed
  <2>7. m >= 2
    <3> HIDE DEF m, n
    <3> SUFFICES ASSUME m = 1 PROVE FALSE
      BY <1>3, <1>6
    <3>1. f = n
      BY <1>1 DEF f
    <3>2. Elapsed(f) = 0
      BY <1>1, <1>3, <1>6, <3>1 DEF Elapsed
    <3> QED BY <2>6, <3>2
  <2>8. TooFast(costWindow)
    BY <1>4, <1>6, <2>6, <2>7
  <2> QED BY <1>3, <1>6, <2>8 DEF ReportInv
<1> QED BY <1>5, <1>6 DEF VelocityIsMeasured, InOrder

\* A cost velocity that is reported was real, and while timestamps are in order none is
\* missed, whatever has been trimmed from the window (recordCost, checkCostVelocity).
THEOREM VelocityIsReal == Spec => []VelocityIsMeasured
BY InitWindow, StepKeepsWindow, WindowMeasures, PTL DEF Spec
----------------------------------------------------------------------------
(* Type correctness.                                                       *)

\* What TypeOK says beyond the rings and the window.
RestOK ==
    /\ lastFileEdit \in Int /\ hasActivity \in BOOLEAN
    /\ lastModel \in DOMAIN ContextWindow \cup {NoModel}
    /\ result.reasons \in Seq(Reason)
    /\ result.heuristic \in Heuristic \cup {"none"}
    /\ seen \in 0..MaxEvents

\* The first of some heuristics, or of none.
LEMMA HeadIsHeuristic ==
  ASSUME NEW a \in BOOLEAN, NEW b \in BOOLEAN, NEW d \in BOOLEAN, NEW f \in BOOLEAN
  PROVE  Head((If(a, "repeated_tool_calls") \o If(b, "error_echo"))
                \o (If(d, "cost_velocity") \o If(f, "context_bloat"))
                \o <<"none">>) \in Heuristic \cup {"none"}
<1> DEFINE H == Heuristic \cup {"none"}
           A == If(a, "repeated_tool_calls")
           B == If(b, "error_echo")
           D == If(d, "cost_velocity")
           F == If(f, "context_bloat")
           N == <<"none">>
<1>1. /\ A \in Seq(H) /\ B \in Seq(H) /\ D \in Seq(H) /\ F \in Seq(H)
      /\ N \in Seq(H) /\ Len(N) = 1
  <2>1. \A c \in BOOLEAN, x \in H : If(c, x) \in Seq(H)
    <3> SUFFICES ASSUME NEW c \in BOOLEAN, NEW x \in H PROVE If(c, x) \in Seq(H)
      OBVIOUS
    <3>1. <<x>> \in Seq(H) /\ <<>> \in Seq(H)
      OBVIOUS
    <3> QED BY <3>1 DEF If
  <2>2. {"repeated_tool_calls", "error_echo", "cost_velocity", "context_bloat", "none"}
          \subseteq H
    BY DEF Heuristic
  <2> HIDE DEF H
  <2> QED BY <2>1, <2>2
<1> HIDE DEF H, A, B, D, F, N
<1>2. A \o B \in Seq(H) /\ D \o F \in Seq(H)
  BY <1>1, ConcatProperties
<1> DEFINE S == (A \o B) \o (D \o F)
<1>3. S \in Seq(H)
  BY <1>2, ConcatProperties
<1> HIDE DEF S
<1>4. S \o N \in Seq(H) /\ Len(S \o N) = Len(S) + Len(N)
  BY <1>1, <1>3, ConcatProperties
<1>5. S \o N # <<>>
  <2>1. Len(S) \in Nat /\ Len(N) = 1 /\ Len(<<>>) = 0
    BY <1>1, <1>3, LenProperties, EmptySeq
  <2>2. Len(S \o N) # Len(<<>>)
    BY <1>4, <2>1
  <2> QED BY <2>2
<1>6. Head(S \o N) \in H
  BY <1>4, <1>5, HeadTailProperties
<1> QED BY <1>6 DEF A, B, D, F, H, N, S

LEMMA InitRest == Init => RestOK
<1> SUFFICES ASSUME Init PROVE RestOK
  OBVIOUS
<1>1. result.reasons \in Seq(Reason)
  BY EmptySeq DEF Init
<1>2. /\ lastFileEdit = 0 /\ lastModel = NoModel /\ seen = 0 /\ result.heuristic = "none"
      /\ hasActivity \in BOOLEAN
  BY DEF Init
<1>3. 0 \in 0..MaxEvents
  BY SpinAssumption
<1> QED BY <1>1, <1>2, <1>3 DEF RestOK

LEMMA StepKeepsRest == RestOK /\ WindowInv /\ [Next]_vars => RestOK'
<1> SUFFICES ASSUME RestOK, WindowInv, [Next]_vars PROVE RestOK'
  OBVIOUS
<1>1. ASSUME NEW e \in Event, Check(e), seen < MaxEvents, seen' = seen + 1 PROVE RestOK'
  <2> DEFINE now    == TimeOf(e)
             edit   == IF e.kind = "tool_use" /\ e.edits THEN now ELSE lastFileEdit
             active == hasActivity \/ e.input > 0 \/ e.cost > 0
             model  == IF e.input > 0 /\ ContextFillPercent > 0 /\ e.model # NoModel
                       THEN e.model ELSE lastModel
             a == e.kind = "tool_use" /\ Repeats(tools', RepeatedCalls)
             b == e.kind = "error" /\ Repeats(errors', ErrorEcho)
             d == CostSoFar + e.cost > 0 /\ TooFast(costWindow')
             f == e.input > 0 /\ Bloated(e, model)
  <2>1. /\ lastFileEdit' = edit /\ hasActivity' = active /\ lastModel' = model
        /\ result'.heuristic =
             Head((If(a, "repeated_tool_calls") \o If(b, "error_echo"))
                    \o (If(d, "cost_velocity") \o If(f, "context_bloat"))
                    \o <<"none">>)
    BY <1>1 DEF Check
  <2>2. e.model \in DOMAIN ContextWindow \cup {NoModel} /\ e.edits \in BOOLEAN
    <3>1. e \in EventType
      BY SpinAssumption
    <3> QED BY <3>1 DEF EventType
  <2>3. now \in Int
    BY EventIs DEF WindowInv
  <2>4. {a, b, d, f} \subseteq BOOLEAN /\ active \in BOOLEAN
    OBVIOUS
  <2> HIDE DEF a, b, d, f, now, active
  <2>5. result'.heuristic \in Heuristic \cup {"none"}
    <3>1. a \in BOOLEAN /\ b \in BOOLEAN /\ d \in BOOLEAN /\ f \in BOOLEAN
      BY <2>4
    <3>2. Head((If(a, "repeated_tool_calls") \o If(b, "error_echo"))
                 \o (If(d, "cost_velocity") \o If(f, "context_bloat"))
                 \o <<"none">>) \in Heuristic \cup {"none"}
      BY <3>1, HeadIsHeuristic
    <3> QED BY <2>1, <3>2
  <2>6. lastFileEdit' \in Int /\ lastModel' \in DOMAIN ContextWindow \cup {NoModel}
    BY <2>1, <2>2, <2>3 DEF RestOK
  <2>7. result'.reasons \in Seq(Reason)
    BY <1>1, ReasonsOfCheck
  <2>8. seen' \in 0..MaxEvents
    BY <1>1, SpinAssumption DEF RestOK
  <2> QED BY <2>1, <2>4, <2>5, <2>6, <2>7, <2>8 DEF RestOK
<1>2. CASE UNCHANGED vars
  BY <1>2 DEF vars, RestOK
<1> QED BY <1>1, <1>2 DEF Next

LEMMA TypesAreOK == RingsOK /\ WindowInv /\ RestOK => TypeOK
<1> SUFFICES ASSUME RingsOK, WindowInv, RestOK PROVE TypeOK
  OBVIOUS
<1>1. tools \in Ring(Call \cup {NoText}) /\ errors \in Ring(ErrorText \cup {NoText})
  BY DEF RingsOK, RingOK
<1>2. ErrorText \cup {NoText} = ErrorText
  BY SpinAssumption
<1>3. costWindow \in Seq(Charge) /\ clock \in Int
  BY DEF WindowInv
<1>4. costWindow # <<>> =>
        costWindow[1].time >= costWindow[Len(costWindow)].time - VelocitySpan
  <2>1. costWindow # <<>> => spending # <<>>
    <3>1. /\ Len(spending) \in Nat /\ Len(costWindow) \in Nat
          /\ Len(spending) - Len(costWindow) \in Nat
          /\ spending = <<>> <=> Len(spending) = 0
          /\ costWindow = <<>> <=> Len(costWindow) = 0
      BY ChargesAre DEF WindowInv, Trimmed
    <3> QED BY <3>1
  <2> QED BY <2>1 DEF WindowInv
<1>5. errors \in Ring(ErrorText)
  BY <1>1, <1>2
<1> QED BY <1>1, <1>3, <1>4, <1>5 DEF TypeOK, RestOK, Reason

\* Every variable of a detector has its type: neither ring runs over, and the cost window
\* never reaches further back than the span (recordTool, recordError, recordCost).
THEOREM SpinTypeCorrect == Spec => []TypeOK
<1>1. Init => RingsOK /\ WindowInv /\ ReportInv /\ RestOK
  BY InitRings, InitWindow, InitRest
<1>2. (RingsOK /\ WindowInv /\ ReportInv /\ RestOK) /\ [Next]_vars
        => (RingsOK /\ WindowInv /\ ReportInv /\ RestOK)'
  BY StepKeepsRings, StepKeepsWindow, StepKeepsRest
<1> QED BY <1>1, <1>2, TypesAreOK, PTL DEF Spec
=============================================================================

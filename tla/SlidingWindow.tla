---------------------------- MODULE SlidingWindow ----------------------------
(***************************************************************************)
(* What a repetition check of LoopGuard promises, without the ring buffer  *)
(* it is made of: of the items reported to it, it remembers the last Size, *)
(* and the report of an item raises the alarm exactly when some item that  *)
(* counts occurs at least Threshold times among those.                     *)
(***************************************************************************)
EXTENDS Integers, Sequences, FiniteSets

CONSTANTS Item, Size, Threshold, Ignored

VARIABLES
    recent,  \* the items remembered, the oldest first
    alarm    \* the last report raised the alarm

Latest(s) == IF Len(s) > Size THEN SubSeq(s, Len(s) - Size + 1, Len(s)) ELSE s
Occurrences(s, x) == Cardinality({i \in DOMAIN s : s[i] = x})

Init == recent = <<>> /\ alarm = FALSE

Report(x) ==
    /\ recent' = Latest(Append(recent, x))
    /\ alarm' = \E y \in Item \ Ignored : Occurrences(recent', y) >= Threshold

\* Whatever else the detector is told is no report and no alarm.
Other == alarm' = FALSE /\ UNCHANGED recent

Next == Other \/ \E x \in Item : Report(x)

Spec == Init /\ [][Next]_<<recent, alarm>>
=============================================================================

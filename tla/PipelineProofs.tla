--------------------------- MODULE PipelineProofs ---------------------------
(***************************************************************************)
(* Types, the conservation of batches and of pause alerts, and the order   *)
(* in which Shutdown takes the daemon apart, for any number of files,      *)
(* goroutines and channel slots.                                           *)
(***************************************************************************)
EXTENDS Pipeline, FiniteSetTheorems, SequenceTheorems, TLAPS

----------------------------------------------------------------------------
(* Types.  A file whose bound of batches is reached has nothing fresh, so  *)
(* that what is read of a file is always a batch, and so is what the event *)
(* loop works on.                                                          *)

BatchInv ==
    /\ \A p \in fresh : readCount[p] < MaxBatch
    /\ loop.pc \in {"process", "emit"} => loop.batch \in Batch

PlaceInv == TypeOK /\ BatchInv

LEMMA InitPlaceInv == Init => PlaceInv
<1> SUFFICES ASSUME Init PROVE PlaceInv
  OBVIOUS
<1>1. /\ events \in Seq(Batch) /\ Len(events) = 0
      /\ alerts \in Seq({"warn", "pause"}) /\ Len(alerts) = 0
  BY DEF Init
<1>2. EventCap \in Nat /\ AlertCap \in Nat /\ 0 \in 0..MaxBatch /\ 0 \in 0..MaxTrips
  BY PipelineAssumption
<1>3. Len(events) <= EventCap /\ Len(alerts) <= AlertCap
  BY <1>1, <1>2
<1>4. TypeOK
  BY <1>1, <1>2, <1>3 DEF Init, TypeOK
<1> QED BY <1>4 DEF Init, PlaceInv, BatchInv

\* A read of a fresh file returns a batch, and leaves nothing fresh in it.
LEMMA ReadIsBatch ==
  ASSUME PlaceInv, NEW p \in fresh, Read(p)
  PROVE  /\ NextBatch(p) \in Batch /\ NextBatch(p) # NoBatch
         /\ fresh' \subseteq Path /\ readCount' \in [Path -> 0..MaxBatch]
         /\ \A q \in fresh' : readCount'[q] < MaxBatch
<1>1. p \in Path /\ readCount[p] \in 0..MaxBatch /\ readCount[p] < MaxBatch
  BY DEF PlaceInv, TypeOK, BatchInv
<1>2. readCount[p] + 1 \in 1..MaxBatch /\ readCount[p] + 1 \in 0..MaxBatch
  BY <1>1, PipelineAssumption
<1>3. NextBatch(p) \in Batch /\ NextBatch(p) \in Path \X Nat
  BY <1>1, <1>2, PipelineAssumption DEF NextBatch, Batch
<1>4. fresh' \subseteq Path /\ readCount' \in [Path -> 0..MaxBatch]
  BY <1>1, <1>2 DEF Read, PlaceInv, TypeOK
<1>5. \A q \in fresh' : readCount'[q] < MaxBatch
  BY <1>1 DEF Read, PlaceInv, TypeOK, BatchInv
<1> QED BY <1>3, <1>4, <1>5, PipelineAssumption

\* A channel with room takes one more and has no more than its capacity.
LEMMA SendType ==
  ASSUME NEW S, NEW s \in Seq(S), NEW x \in S, NEW n \in Nat, Len(s) < n
  PROVE  Append(s, x) \in Seq(S) /\ Len(Append(s, x)) <= n
  BY AppendProperties

\* So has one from which something is received.
LEMMA ReceiveType ==
  ASSUME NEW S, NEW s \in Seq(S), NEW n \in Nat, Len(s) <= n, s # <<>>
  PROVE  Head(s) \in S /\ Tail(s) \in Seq(S) /\ Len(Tail(s)) <= n
  BY HeadTailProperties

\* What the senders and the two receivers do to the channels.
LEMMA SendsType ==
  ASSUME TypeOK, NEW b \in Batch, Sends(b)
  PROVE  events' \in Seq(Batch) /\ Len(events') <= EventCap
<1>1. events \in Seq(Batch) /\ Len(events) <= EventCap /\ EventCap \in Nat
  BY PipelineAssumption DEF TypeOK
<1>2. CASE Len(events) < EventCap /\ events' = Append(events, b)
  BY <1>1, <1>2, SendType
<1>3. CASE UNCHANGED events
  BY <1>1, <1>3
<1> QED BY <1>2, <1>3 DEF Sends

LEMMA EmitType ==
  ASSUME TypeOK, NEW level \in {"warn", "pause"},
         (Len(alerts) < AlertCap /\ alerts' = Append(alerts, level)) \/ UNCHANGED alerts
  PROVE  alerts' \in Seq({"warn", "pause"}) /\ Len(alerts') <= AlertCap
<1>1. alerts \in Seq({"warn", "pause"}) /\ Len(alerts) <= AlertCap /\ AlertCap \in Nat
  BY PipelineAssumption DEF TypeOK
<1>2. CASE Len(alerts) < AlertCap /\ alerts' = Append(alerts, level)
  BY <1>1, <1>2, SendType
<1>3. CASE UNCHANGED alerts
  BY <1>1, <1>3
<1> QED BY <1>2, <1>3

\* The fields of a goroutine's place.
LEMMA PlaceType ==
  ASSUME TypeOK
  PROVE  /\ loop.pc \in {"select", "process", "emit", "exited"}
         /\ loop.batch \in Batch \cup {NoBatch} /\ loop.left \in 0..MaxTrips
         /\ loop.left > 0 => loop.left - 1 \in 0..MaxTrips
         /\ \A w \in WatchLoop : /\ watch[w].todo \subseteq Path
                                 /\ watch[w].held \in Batch \cup {NoBatch}
<1>1. loop.left \in 0..MaxTrips /\ MaxTrips \in Nat
  BY PipelineAssumption DEF TypeOK
<1>2. loop.left > 0 => loop.left - 1 \in 0..MaxTrips
  BY <1>1
<1> QED BY <1>1, <1>2 DEF TypeOK

LEMMA ReadersKeepPlaceInv ==
  ASSUME PlaceInv,
         \/ \E p \in Path : WriteLog(p) \/ WatchNotify(p)
         \/ \E w \in WatchLoop : WatchStep(w) \/ WatchExit(w)
         \/ CallbackStep
  PROVE  PlaceInv'
<1>0. TypeOK /\ BatchInv /\ EventCap \in Nat
  BY PipelineAssumption DEF PlaceInv
<1>1. ASSUME NEW p \in Path, WriteLog(p) PROVE PlaceInv'
  BY <1>0, <1>1 DEF WriteLog, PlaceInv, TypeOK, BatchInv, consumer, tally, stopping
<1>2. ASSUME NEW p \in Path, WatchNotify(p) PROVE PlaceInv'
  BY <1>0, <1>2 DEF WatchNotify, PlaceInv, TypeOK, BatchInv, consumer, tally, stopping
<1>3. ASSUME NEW w \in WatchLoop, PollTick(w) PROVE PlaceInv'
  BY <1>0, <1>3 DEF PollTick, PlaceInv, TypeOK, BatchInv, consumer, tally, stopping
<1>4. ASSUME NEW w \in WatchLoop, NEW p \in Path, PollFile(w, p) PROVE PlaceInv'
  <2>1. CASE watcherDone \/ p \notin fresh
    <3>1. watch' = [watch EXCEPT ![w].todo = @ \ {p}]
          /\ watch[w].todo \ {p} \in SUBSET Path
      BY <1>0, <1>4, <2>1, PlaceType DEF PollFile
    <3>2. watch' \in [WatchLoop -> [pc: {"select", "poll", "exited"}, todo: SUBSET Path,
                                   held: Batch \cup {NoBatch}]]
      BY <1>0, <3>1 DEF TypeOK
    <3> QED BY <1>0, <1>4, <2>1, <3>2 DEF PollFile, PlaceInv, TypeOK, BatchInv,
                                          consumer, tally, stopping
  <2>2. CASE p \in fresh /\ Read(p)
    <3>1. NextBatch(p) \in Batch /\ fresh' \subseteq Path
          /\ readCount' \in [Path -> 0..MaxBatch]
          /\ \A q \in fresh' : readCount'[q] < MaxBatch
      BY <2>2, ReadIsBatch
    <3>2. watch' \in [WatchLoop -> [pc: {"select", "poll", "exited"}, todo: SUBSET Path,
                                   held: Batch \cup {NoBatch}]]
      <4>1. watch[w].todo \ {p} \in SUBSET Path
        BY <1>0, PlaceType
      <4> DEFINE polled == [watch EXCEPT ![w].todo = @ \ {p}]
      <4>2. polled \in [WatchLoop -> [pc: {"select", "poll", "exited"}, todo: SUBSET Path,
                                     held: Batch \cup {NoBatch}]]
        BY <1>0, <4>1 DEF TypeOK
      <4>3. watch' = [polled EXCEPT ![w].held = NextBatch(p)] \/ watch' = polled
        BY <1>4 DEF PollFile
      <4> HIDE DEF polled
      <4> QED BY <3>1, <4>2, <4>3
    <3> QED BY <1>0, <1>4, <3>1, <3>2 DEF PollFile, PlaceInv, TypeOK, BatchInv,
                                             consumer, tally, stopping
  <2> QED BY <1>4, <2>1, <2>2 DEF PollFile
<1>5. ASSUME NEW w \in WatchLoop, PollReturn(w) PROVE PlaceInv'
  BY <1>0, <1>5 DEF PollReturn, PlaceInv, TypeOK, BatchInv, consumer, tally, stopping
<1>6. ASSUME NEW w \in WatchLoop, PollSend(w) PROVE PlaceInv'
  <2>1. watch[w].held \in Batch
    BY <1>0, <1>6 DEF PollSend, TypeOK
  <2>2. events' \in Seq(Batch) /\ Len(events') <= EventCap
    BY <1>0, <1>6, <2>1, SendsType DEF PollSend
  <2> QED BY <1>0, <1>6, <2>2 DEF PollSend, PlaceInv, TypeOK, BatchInv, consumer, tally, stopping
<1>7. ASSUME NEW w \in WatchLoop, WatchExit(w) PROVE PlaceInv'
  BY <1>0, <1>7 DEF WatchExit, PlaceInv, TypeOK, BatchInv, consumer, tally, stopping
<1>8. ASSUME NEW p \in Path, DebounceFire(p) PROVE PlaceInv'
  <2>1. CASE watcherDone \/ p \notin fresh
    BY <1>0, <1>8, <2>1 DEF DebounceFire, PlaceInv, TypeOK, BatchInv, consumer, tally, stopping
  <2>2. CASE ~(watcherDone \/ p \notin fresh)
    <3>1. p \in fresh /\ Read(p) /\ callbacks' = callbacks \cup {NextBatch(p)}
      BY <1>8, <2>2 DEF DebounceFire
    <3>2. NextBatch(p) \in Batch /\ fresh' \subseteq Path
          /\ readCount' \in [Path -> 0..MaxBatch]
          /\ \A q \in fresh' : readCount'[q] < MaxBatch
      BY <3>1, ReadIsBatch
    <3> QED BY <1>0, <1>8, <3>1, <3>2 DEF DebounceFire, PlaceInv, TypeOK, BatchInv,
                                             consumer, tally, stopping
  <2> QED BY <2>1, <2>2
<1>9. ASSUME NEW b \in Batch, CallbackSend(b) PROVE PlaceInv'
  <2>1. events' \in Seq(Batch) /\ Len(events') <= EventCap
    BY <1>0, <1>9, SendsType DEF CallbackSend
  <2> QED BY <1>0, <1>9, <2>1 DEF CallbackSend, PlaceInv, TypeOK, BatchInv, consumer, tally, stopping
<1> QED BY <1>1, <1>2, <1>3, <1>4, <1>5, <1>6, <1>7, <1>8, <1>9 DEF WatchStep, CallbackStep

LEMMA LoopKeepsPlaceInv ==
  ASSUME PlaceInv, LoopStep \/ LoopExit \/ HandlerStep \/ HandlerExit
  PROVE  PlaceInv'
<1>0. /\ TypeOK /\ BatchInv
      /\ EventCap \in Nat /\ AlertCap \in Nat /\ MaxTrips \in Nat /\ 0 \in 0..MaxTrips
      /\ raised \in Nat /\ handled \in Nat
  <2>1. TypeOK /\ BatchInv
    BY DEF PlaceInv
  <2>2. raised \in Nat /\ handled \in Nat
    BY <2>1 DEF TypeOK
  <2> QED BY <2>1, <2>2, PipelineAssumption
<1>1. CASE LoopTake
  <2>1. Head(events) \in Batch /\ events' \in Seq(Batch) /\ Len(events') <= EventCap
    BY <1>0, <1>1, ReceiveType DEF LoopTake, TypeOK
  <2>2. loop' \in [pc: {"process"}, batch: Batch, left: 0..MaxTrips]
    BY <1>1, <2>1 DEF LoopTake
  <2> QED BY <1>0, <1>1, <2>1, <2>2 DEF LoopTake, PlaceInv, TypeOK, BatchInv, readers, tally, stopping
<1>2. CASE EmitWarn
  <2>1. alerts' \in Seq({"warn", "pause"}) /\ Len(alerts') <= AlertCap
    BY <1>0, <1>2, EmitType DEF EmitWarn
  <2>2. loop.left - 1 \in 0..MaxTrips
    BY <1>0, <1>2, PlaceType DEF EmitWarn
  <2> QED BY <1>0, <1>2, <2>1, <2>2 DEF EmitWarn, PlaceInv, TypeOK, BatchInv, readers, tally, stopping
<1>3. CASE RaisePause
  <2>1. loop.left - 1 \in 0..MaxTrips
    BY <1>0, <1>3, PlaceType DEF RaisePause
  <2>2. raised' \in Nat /\ loop.batch \in Batch
    BY <1>0, <1>3 DEF RaisePause, BatchInv
  <2>3. loop' \in [pc: {"emit"}, batch: Batch, left: 0..MaxTrips]
    BY <1>0, <1>3, <2>1, <2>2 DEF RaisePause, TypeOK
  <2> QED BY <1>0, <1>3, <2>2, <2>3 DEF RaisePause, PlaceInv, TypeOK, BatchInv, readers, stopping
<1>4. CASE EmitPause
  <2>1. alerts' \in Seq({"warn", "pause"}) /\ Len(alerts') <= AlertCap
    BY <1>0, <1>4, EmitType DEF EmitPause
  <2> QED BY <1>0, <1>4, <2>1 DEF EmitPause, PlaceInv, TypeOK, BatchInv, readers, tally, stopping
<1>5. CASE LoopFinish
  <2>1. loop.batch \in Batch
    BY <1>0, <1>5 DEF LoopFinish, BatchInv
  <2> QED BY <1>0, <1>5, <2>1 DEF LoopFinish, PlaceInv, TypeOK, BatchInv, readers, tally, stopping
<1>6. CASE LoopExit
  BY <1>0, <1>6 DEF LoopExit, PlaceInv, TypeOK, BatchInv, readers, tally, stopping
<1>7. CASE HandlerTake
  <2>1. alerts' \in Seq({"warn", "pause"}) /\ Len(alerts') <= AlertCap
    BY <1>0, <1>7, ReceiveType DEF HandlerTake, TypeOK
  <2>2. handled' \in Nat
    BY <1>0, <1>7 DEF HandlerTake
  <2> QED BY <1>0, <1>7, <2>1, <2>2 DEF HandlerTake, PlaceInv, TypeOK, BatchInv, readers, consumer, stopping
<1>8. CASE HandlerReturn \/ HandlerExit
  BY <1>0, <1>8 DEF HandlerReturn, HandlerExit, PlaceInv, TypeOK, BatchInv, readers, consumer,
                    tally, stopping
<1> QED BY <1>1, <1>2, <1>3, <1>4, <1>5, <1>6, <1>7, <1>8 DEF LoopStep, HandlerStep

LEMMA StepKeepsPlaceInv == PlaceInv /\ [Next]_vars => PlaceInv'
<1> SUFFICES ASSUME PlaceInv, [Next]_vars PROVE PlaceInv'
  OBVIOUS
<1>0. TypeOK /\ BatchInv
  BY DEF PlaceInv
<1>1. CASE (\E h \in Housekeeper : HousekeeperExit(h)) \/ Interrupt \/ ShutdownCancel
           \/ ShutdownStep
  BY <1>0, <1>1 DEF HousekeeperExit, Interrupt, ShutdownCancel, ShutdownStep, ShutdownWaited,
                    AnalyzerStop, WatcherClose, ShutdownDone, PlaceInv, TypeOK, BatchInv,
                    readers, consumer, tally
<1>2. CASE UNCHANGED vars
  BY <1>0, <1>2 DEF vars, PlaceInv, TypeOK, BatchInv, readers, consumer, tally, stopping
<1> QED BY <1>1, <1>2, ReadersKeepPlaceInv, LoopKeepsPlaceInv DEF Next

\* Every variable has its type: no channel ever holds more than its capacity, and what
\* the tailers return, pass on and analyse are batches of the files (watcher.go,
\* analyzer.go's emit).
THEOREM TypeCorrect == Spec => []TypeOK
<1>1. PlaceInv => TypeOK
  BY DEF PlaceInv
<1> QED BY <1>1, InitPlaceInv, StepKeepsPlaceInv, PTL DEF Spec

----------------------------------------------------------------------------
(* Pause alerts.                                                           *)

PauseIn(s) == {i \in DOMAIN s : s[i] = "pause"}

LEMMA PausesAreFinite ==
  ASSUME NEW S, NEW s \in Seq(S)
  PROVE  IsFiniteSet(PauseIn(s)) /\ Cardinality(PauseIn(s)) \in Nat
<1>1. Len(s) \in Nat /\ DOMAIN s = 1..Len(s)
  BY LenProperties
<1>2. IsFiniteSet(1..Len(s)) /\ PauseIn(s) \in SUBSET (1..Len(s))
  BY <1>1, FS_Interval DEF PauseIn
<1> QED BY <1>2, FS_Subset, FS_CardinalityType

\* One that is sent is one more in the channel.
LEMMA SendCounts ==
  ASSUME NEW S, NEW s \in Seq(S), NEW x \in S
  PROVE  Cardinality(PauseIn(Append(s, x))) =
           Cardinality(PauseIn(s)) + (IF x = "pause" THEN 1 ELSE 0)
<1> DEFINE n == Len(s) + 1
<1>1. /\ Len(s) \in Nat /\ DOMAIN s = 1..Len(s) /\ DOMAIN Append(s, x) = 1..n
      /\ \A i \in 1..Len(s) : Append(s, x)[i] = s[i]
      /\ Append(s, x)[n] = x
  BY AppendProperties, LenProperties
<1>2. PauseIn(Append(s, x)) = IF x = "pause" THEN PauseIn(s) \cup {n} ELSE PauseIn(s)
  BY <1>1 DEF PauseIn
<1>3. n \notin PauseIn(s)
  BY <1>1 DEF PauseIn
<1>4. IsFiniteSet(PauseIn(s)) /\ Cardinality(PauseIn(s)) \in Nat
  BY PausesAreFinite
<1> HIDE DEF n
<1>5. Cardinality(PauseIn(s) \cup {n}) = Cardinality(PauseIn(s)) + 1
  BY <1>3, <1>4, FS_AddElement
<1> QED BY <1>2, <1>4, <1>5

\* One that is received is one less: those behind it move up by one place.
LEMMA ReceiveCounts ==
  ASSUME NEW S, NEW s \in Seq(S), s # <<>>
  PROVE  Cardinality(PauseIn(Tail(s))) =
           Cardinality(PauseIn(s)) - (IF Head(s) = "pause" THEN 1 ELSE 0)
<1> DEFINE A == PauseIn(Tail(s))
           B == PauseIn(s) \ {1}
           f == [i \in A |-> i + 1]
<1>1. /\ Len(s) \in Nat \ {0} /\ DOMAIN s = 1..Len(s) /\ Head(s) = s[1]
      /\ DOMAIN Tail(s) = 1..(Len(s) - 1)
      /\ \A i \in 1..(Len(s) - 1) : Tail(s)[i] = s[i + 1]
  BY HeadTailProperties, LenProperties, EmptySeq
<1>2. \A i \in A : i \in Int /\ i + 1 \in B
  BY <1>1 DEF PauseIn
<1>3. \A j \in B : j \in Int /\ j - 1 \in A
  BY <1>1 DEF PauseIn
<1>4. IsFiniteSet(A) /\ IsFiniteSet(PauseIn(s)) /\ Cardinality(PauseIn(s)) \in Nat
  BY <1>1, PausesAreFinite, HeadTailProperties
<1>5. 1 \in PauseIn(s) <=> Head(s) = "pause"
  BY <1>1 DEF PauseIn
<1>6. Cardinality(A) = Cardinality(B)
  <2> HIDE DEF A, B
  <2>1. f \in [A -> B]
    BY <1>2
  <2>2. \A i, k \in A : f[i] = f[k] => i = k
    BY <1>2
  <2>3. \A j \in B : \E i \in A : f[i] = j
    <3>1. ASSUME NEW j \in B PROVE j - 1 \in A /\ f[j - 1] = j
      BY <1>3
    <3> QED BY <3>1
  <2>4. f \in Bijection(A, B)
    <3>1. f \in Injection(A, B)
      BY <2>1, <2>2 DEF Injection, IsInjective
    <3>2. f \in Surjection(A, B)
      BY <2>1, <2>3 DEF Surjection
    <3> QED BY <3>1, <3>2 DEF Bijection
  <2> QED BY <1>4, <2>4, FS_Bijection DEF ExistsBijection
<1>7. Cardinality(B) = IF 1 \in PauseIn(s) THEN Cardinality(PauseIn(s)) - 1
                       ELSE Cardinality(PauseIn(s))
  BY <1>4, FS_RemoveElement
<1> QED BY <1>4, <1>5, <1>6, <1>7

\* NoPauseAlertLost, in terms of the lemmas.
AlertInv ==
    ~analyzerDone => raised = handled + Cardinality(PauseIn(alerts))
                              + (IF loop.pc = "emit" THEN 1 ELSE 0)

LEMMA LoopKeepsAlertInv ==
  ASSUME PlaceInv, AlertInv, LoopStep \/ LoopExit \/ HandlerStep \/ HandlerExit
  PROVE  AlertInv'
<1>0. /\ raised \in Nat /\ handled \in Nat /\ alerts \in Seq({"warn", "pause"})
      /\ loop \in [pc: {"select", "process", "emit", "exited"},
                   batch: Batch \cup {NoBatch}, left: 0..MaxTrips]
  BY DEF PlaceInv, TypeOK
<1>1. Cardinality(PauseIn(alerts)) \in Nat
  BY <1>0, PausesAreFinite
<1>2. CASE LoopTake \/ LoopFinish \/ LoopExit \/ HandlerReturn \/ HandlerExit
  BY <1>0, <1>2 DEF LoopTake, LoopFinish, LoopExit, HandlerReturn, HandlerExit, AlertInv,
                    tally, stopping, consumer
<1>3. CASE EmitWarn
  <2>1. Cardinality(PauseIn(alerts')) = Cardinality(PauseIn(alerts))
    BY <1>0, <1>1, <1>3, SendCounts DEF EmitWarn
  <2> QED BY <1>0, <1>3, <2>1 DEF EmitWarn, AlertInv, tally, stopping
<1>4. CASE RaisePause
  BY <1>0, <1>1, <1>4 DEF RaisePause, AlertInv, stopping
<1>5. CASE EmitPause
  <2>1. CASE alerts' = Append(alerts, "pause")
    <3>1. Cardinality(PauseIn(alerts')) = Cardinality(PauseIn(alerts)) + 1
      BY <1>0, <1>1, <2>1, SendCounts
    <3> QED BY <1>0, <1>1, <1>5, <3>1 DEF EmitPause, AlertInv, tally, stopping
  <2>2. CASE analyzerDone
    BY <1>5, <2>2 DEF EmitPause, AlertInv, stopping
  <2> QED BY <1>5, <2>1, <2>2 DEF EmitPause
<1>6. CASE HandlerTake
  <2>1. Cardinality(PauseIn(alerts')) =
          Cardinality(PauseIn(alerts)) - (IF Head(alerts) = "pause" THEN 1 ELSE 0)
    BY <1>0, <1>6, ReceiveCounts DEF HandlerTake
  <2> QED BY <1>0, <1>1, <1>6, <2>1 DEF HandlerTake, AlertInv, consumer, stopping
<1> QED BY <1>2, <1>3, <1>4, <1>5, <1>6 DEF LoopStep, HandlerStep

\* Every pause alert that the analyzer raises is in the emitting goroutine's hands, in
\* the channel or with the handler, until the analyzer is stopped: only warnings are
\* dropped when the channel is full (emit, handleAlerts).
THEOREM PauseAlertsAreKept == Spec => []NoPauseAlertLost
<1>1. Init => AlertInv
  <2>1. Cardinality(PauseIn(<<>>)) = 0
    BY FS_EmptySet DEF PauseIn
  <2> QED BY <2>1 DEF Init, AlertInv
<1>2. ASSUME PlaceInv, AlertInv, [Next]_vars PROVE AlertInv'
  <2>1. CASE LoopStep \/ LoopExit \/ HandlerStep \/ HandlerExit
    BY <1>2, <2>1, LoopKeepsAlertInv
  <2>2. ASSUME UNCHANGED <<raised, handled, alerts, loop>>, analyzerDone => analyzerDone'
        PROVE  AlertInv'
    BY <1>2, <2>2 DEF AlertInv
  <2>3. CASE \E p \in Path : WriteLog(p) \/ WatchNotify(p)
    BY <2>2, <2>3 DEF WriteLog, WatchNotify, consumer, tally, stopping
  <2>4. CASE \E w \in WatchLoop : WatchStep(w) \/ WatchExit(w)
    <3>1. PICK w \in WatchLoop : WatchStep(w) \/ WatchExit(w)
      BY <2>4
    <3>2. CASE PollTick(w) \/ PollReturn(w) \/ PollSend(w) \/ WatchExit(w)
      BY <2>2, <3>2 DEF PollTick, PollReturn, PollSend, WatchExit, consumer, tally, stopping
    <3>3. CASE \E p \in Path : PollFile(w, p)
      BY <2>2, <3>3 DEF PollFile, consumer, tally, stopping
    <3> QED BY <3>1, <3>2, <3>3 DEF WatchStep
  <2>5. CASE CallbackStep
    BY <2>2, <2>5 DEF CallbackStep, DebounceFire, CallbackSend, consumer, tally, stopping
  <2>6. CASE (\E h \in Housekeeper : HousekeeperExit(h)) \/ Interrupt \/ ShutdownCancel
    BY <2>2, <2>6 DEF HousekeeperExit, Interrupt, ShutdownCancel, consumer, tally
  <2>7. CASE ShutdownStep
    BY <2>2, <2>7 DEF ShutdownStep, ShutdownWaited, AnalyzerStop, WatcherClose, ShutdownDone,
                      consumer, tally
  <2>8. CASE UNCHANGED vars
    BY <2>2, <2>8 DEF vars, consumer, tally, stopping
  <2> QED BY <1>2, <2>1, <2>3, <2>4, <2>5, <2>6, <2>7, <2>8 DEF Next
<1>3. AlertInv => NoPauseAlertLost
  BY DEF AlertInv, NoPauseAlertLost, PauseIn
<1> QED BY <1>1, <1>2, <1>3, InitPlaceInv, StepKeepsPlaceInv, PTL DEF Spec

----------------------------------------------------------------------------
(* Batches.  The union of the places says that no batch is lost; that the   *)
(* places hold as many batches as there are says that none is in two.       *)

Taken == {b \in Batch : b[2] <= readCount[b[1]]}
Polling == {w \in WatchLoop : watch[w].held # NoBatch}
Looping == IF loop.batch = NoBatch THEN 0 ELSE 1
Holders == Cardinality(callbacks) + Len(events) + Cardinality(processed)
           + Cardinality(Polling) + Looping
Holdings == (Held \cup Queued \cup processed) \ {NoBatch}

\* What the goroutines hold is finite, even when there is no bound on the files,
\* and neither the event loop nor a Watch loop has anything in its hands when it
\* asks for more.
HandsInv ==
    /\ IsFiniteSet(callbacks) /\ IsFiniteSet(processed) /\ IsFiniteSet(Polling)
    /\ loop.pc = "select" => loop.batch = NoBatch
    /\ \A w \in WatchLoop : watch[w].pc = "select" => watch[w].held = NoBatch

OnePlace == Taken = Holdings /\ Holders = Cardinality(Taken)
PlacesInv == HandsInv /\ (~watcherDone => OnePlace)

LEMMA OnePlaceIsProperty == PlacesInv => EveryBatchInOnePlace
  BY DEF PlacesInv, OnePlace, Taken, Holdings, Holders, Polling, Looping, EveryBatchInOnePlace

\* The counts that are added up are numbers.
LEMMA CountsAreNumbers ==
  ASSUME PlaceInv, HandsInv
  PROVE  /\ Cardinality(callbacks) \in Nat /\ Cardinality(processed) \in Nat
         /\ Cardinality(Polling) \in Nat /\ Len(events) \in Nat /\ Looping \in Nat
<1>1. events \in Seq(Batch)
  BY DEF PlaceInv, TypeOK
<1> QED BY <1>1, FS_CardinalityType, LenProperties DEF HandsInv, Looping

\* A channel that one is sent to, and one that one is received from.
Ran(s) == {s[i] : i \in DOMAIN s}

LEMMA SendRan ==
  ASSUME NEW S, NEW s \in Seq(S), NEW x \in S
  PROVE  Ran(Append(s, x)) = Ran(s) \cup {x} /\ Len(Append(s, x)) = Len(s) + 1
<1>1. /\ Len(s) \in Nat /\ DOMAIN s = 1..Len(s) /\ DOMAIN Append(s, x) = 1..(Len(s) + 1)
      /\ \A i \in 1..Len(s) : Append(s, x)[i] = s[i]
      /\ Append(s, x)[Len(s) + 1] = x /\ Len(Append(s, x)) = Len(s) + 1
  BY AppendProperties, LenProperties
<1>2. \A i \in 1..(Len(s) + 1) : i \in 1..Len(s) \/ i = Len(s) + 1
  BY <1>1
<1>3. \A i \in 1..Len(s) : i \in 1..(Len(s) + 1)
  BY <1>1
<1>4. Len(s) + 1 \in 1..(Len(s) + 1)
  BY <1>1
<1> QED BY <1>1, <1>2, <1>3, <1>4 DEF Ran

LEMMA ReceiveRan ==
  ASSUME NEW S, NEW s \in Seq(S), s # <<>>
  PROVE  Ran(s) = Ran(Tail(s)) \cup {Head(s)} /\ Len(Tail(s)) = Len(s) - 1
<1>1. /\ Len(s) \in Nat \ {0} /\ DOMAIN s = 1..Len(s) /\ Head(s) = s[1]
      /\ DOMAIN Tail(s) = 1..(Len(s) - 1) /\ Len(Tail(s)) = Len(s) - 1
      /\ \A i \in 1..(Len(s) - 1) : Tail(s)[i] = s[i + 1]
  BY HeadTailProperties, LenProperties, EmptySeq
<1>2. ASSUME NEW i \in 1..Len(s) PROVE s[i] \in Ran(Tail(s)) \cup {Head(s)}
  <2>1. CASE i = 1
    BY <1>1, <2>1
  <2>2. CASE i # 1
    <3>1. i - 1 \in 1..(Len(s) - 1) /\ (i - 1) + 1 = i
      BY <1>1, <2>2
    <3>2. Tail(s)[i - 1] = s[i]
      BY <1>1, <3>1
    <3> QED BY <1>1, <3>1, <3>2 DEF Ran
  <2> QED BY <2>1, <2>2
<1>3. ASSUME NEW i \in 1..(Len(s) - 1) PROVE Tail(s)[i] \in Ran(s)
  <2>1. i + 1 \in 1..Len(s)
    BY <1>1
  <2> QED BY <1>1, <2>1 DEF Ran
<1>4. Head(s) \in Ran(s)
  BY <1>1 DEF Ran
<1> QED BY <1>1, <1>2, <1>3, <1>4 DEF Ran

\* As many distinct batches at most as the channel is long.
LEMMA RanIsBounded ==
  ASSUME NEW S, NEW s \in Seq(S)
  PROVE  IsFiniteSet(Ran(s)) /\ Cardinality(Ran(s)) <= Len(s)
<1>1. Len(s) \in Nat /\ DOMAIN s = 1..Len(s)
  BY LenProperties
<1>2. IsFiniteSet(1..Len(s)) /\ Cardinality(1..Len(s)) = Len(s)
  BY <1>1, FS_Interval
<1>3. s \in Surjection(1..Len(s), Ran(s))
  BY <1>1, SeqDef DEF Surjection, Ran
<1> QED BY <1>2, <1>3, FS_Surjection

\* Of two finite sets together there are at most as many as of each.
LEMMA UnionIsBounded ==
  ASSUME NEW S, IsFiniteSet(S), NEW T, IsFiniteSet(T)
  PROVE  /\ IsFiniteSet(S \cup T)
         /\ Cardinality(S \cup T) \in Nat
         /\ Cardinality(S \cup T) <= Cardinality(S) + Cardinality(T)
<1>1. IsFiniteSet(S \cap T) /\ IsFiniteSet(S \cup T)
  BY FS_Intersection, FS_Union
<1>2. Cardinality(S \cap T) \in Nat /\ Cardinality(S) \in Nat /\ Cardinality(T) \in Nat
      /\ Cardinality(S \cup T) \in Nat
  BY <1>1, FS_CardinalityType
<1>3. Cardinality(S \cup T) = Cardinality(S) + Cardinality(T) - Cardinality(S \cap T)
  BY FS_Union
<1> QED BY <1>1, <1>2, <1>3

\* The batches in the goroutines' hands, without the empty hands.
Inhand == {watch[w].held : w \in Polling}
InLoop == {loop.batch} \ {NoBatch}

LEMMA HoldingsAreUnion ==
  ASSUME PlaceInv
  PROVE  Holdings = callbacks \cup Inhand \cup InLoop \cup Ran(events) \cup processed
<1>1. NoBatch \notin Batch
  BY PipelineAssumption DEF Batch
<1>2. Ran(events) \subseteq Batch
  <2>1. events \in Seq(Batch)
    BY DEF PlaceInv, TypeOK
  <2> QED BY <2>1, LenProperties, ElementOfSeq DEF Ran
<1>3. callbacks \subseteq Batch /\ processed \subseteq Batch
  BY DEF PlaceInv, TypeOK
<1>4. Inhand = {watch[w].held : w \in WatchLoop} \ {NoBatch}
  BY DEF Inhand, Polling
<1>5. Queued = Ran(events)
  BY DEF Queued, Ran
<1> QED BY <1>1, <1>2, <1>3, <1>4, <1>5 DEF Holdings, Held, InLoop

\* No more batches than holders, wherever the batches are.
LEMMA HoldersBound ==
  ASSUME PlaceInv, HandsInv
  PROVE  /\ IsFiniteSet(Holdings) /\ Cardinality(Holdings) \in Nat
         /\ Cardinality(Holdings) <= Holders
<1> DEFINE A == callbacks \cup Inhand
           B == A \cup InLoop
           C == B \cup Ran(events)
<1>1. /\ Cardinality(callbacks) \in Nat /\ Cardinality(processed) \in Nat
      /\ Cardinality(Polling) \in Nat /\ Len(events) \in Nat /\ Looping \in Nat
  BY CountsAreNumbers
<1>2. IsFiniteSet(Inhand) /\ Cardinality(Inhand) <= Cardinality(Polling)
  <2>1. [w \in Polling |-> watch[w].held] \in Surjection(Polling, Inhand)
    BY DEF Surjection, Inhand
  <2> QED BY <2>1, FS_Surjection DEF HandsInv
<1>3. IsFiniteSet(InLoop) /\ Cardinality(InLoop) = Looping
  <2>1. InLoop = IF loop.batch = NoBatch THEN {} ELSE {loop.batch}
    BY DEF InLoop
  <2> QED BY <2>1, FS_EmptySet, FS_Singleton DEF Looping
<1>4. IsFiniteSet(Ran(events)) /\ Cardinality(Ran(events)) <= Len(events)
  BY RanIsBounded DEF PlaceInv, TypeOK
<1>5. IsFiniteSet(callbacks) /\ IsFiniteSet(processed)
  BY DEF HandsInv
<1>6. /\ Cardinality(Inhand) \in Nat /\ Cardinality(InLoop) \in Nat
      /\ Cardinality(Ran(events)) \in Nat
  BY <1>2, <1>3, <1>4, FS_CardinalityType
<1>7. IsFiniteSet(A) /\ Cardinality(A) \in Nat
      /\ Cardinality(A) <= Cardinality(callbacks) + Cardinality(Inhand)
  BY <1>2, <1>5, UnionIsBounded
<1>8. IsFiniteSet(B) /\ Cardinality(B) \in Nat
      /\ Cardinality(B) <= Cardinality(A) + Cardinality(InLoop)
  <2> HIDE DEF A
  <2> QED BY <1>3, <1>7, UnionIsBounded
<1>9. IsFiniteSet(C) /\ Cardinality(C) \in Nat
      /\ Cardinality(C) <= Cardinality(B) + Cardinality(Ran(events))
  <2> HIDE DEF B
  <2> QED BY <1>4, <1>8, UnionIsBounded
<1>10. IsFiniteSet(C \cup processed) /\ Cardinality(C \cup processed) \in Nat
       /\ Cardinality(C \cup processed) <= Cardinality(C) + Cardinality(processed)
  <2> HIDE DEF C
  <2> QED BY <1>5, <1>9, UnionIsBounded
<1>11. Holdings = C \cup processed
  BY HoldingsAreUnion
<1> HIDE DEF A, B, C
<1> QED BY <1>1, <1>2, <1>3, <1>4, <1>6, <1>7, <1>8, <1>9, <1>10, <1>11 DEF Holders

\* A step that passes batches on, and has no more holders after it than before:
\* it cannot have fewer either, as each batch needs one.
LEMMA PassingOn ==
  ASSUME PlaceInv', HandsInv', OnePlace, Holders \in Nat, Holders' \in Nat,
         Taken' = Taken, Holdings' = Holdings, Holders' <= Holders
  PROVE  OnePlace'
<1>1. Cardinality(Holdings') \in Nat /\ Cardinality(Holdings') <= Holders'
  <2>1. (PlaceInv /\ HandsInv => /\ IsFiniteSet(Holdings) /\ Cardinality(Holdings) \in Nat
                                  /\ Cardinality(Holdings) <= Holders)'
    BY HoldersBound, PTL
  <2> QED BY <2>1
<1> QED BY <1>1 DEF OnePlace

\* A read takes the next batch of a file, which nobody holds yet.
LEMMA ReadTakes ==
  ASSUME PlaceInv, NEW p \in fresh, Read(p)
  PROVE  /\ NextBatch(p) \in Batch /\ NextBatch(p) # NoBatch
         /\ NextBatch(p) \notin Taken /\ Taken' = Taken \cup {NextBatch(p)}
<1>1. NextBatch(p) \in Batch /\ NextBatch(p) # NoBatch
  BY ReadIsBatch
<1>2. p \in Path /\ readCount \in [Path -> 0..MaxBatch] /\ MaxBatch \in Nat
  BY PipelineAssumption DEF PlaceInv, TypeOK
<1>3. NextBatch(p) = <<p, readCount[p] + 1>> /\ readCount' = [readCount EXCEPT ![p] = @ + 1]
  BY DEF NextBatch, Read
<1>4. NextBatch(p) \notin Taken
  BY <1>2, <1>3 DEF Taken
<1>5. ASSUME NEW b \in Batch
      PROVE  b[2] <= readCount'[b[1]] <=> b[2] <= readCount[b[1]] \/ b = NextBatch(p)
  <2>1. b = <<b[1], b[2]>> /\ b[1] \in Path /\ b[2] \in 1..MaxBatch
    BY DEF Batch
  <2>2. CASE b[1] # p
    BY <1>2, <1>3, <2>1, <2>2
  <2>3. CASE b[1] = p
    <3>1. readCount'[b[1]] = readCount[p] + 1 /\ readCount[p] \in Nat /\ b[2] \in Nat
      BY <1>2, <1>3, <2>1, <2>3
    <3>2. b = NextBatch(p) <=> b[2] = readCount[p] + 1
      BY <1>3, <2>1, <2>3
    <3> QED BY <2>3, <3>1, <3>2
  <2> QED BY <2>2, <2>3
<1> QED BY <1>1, <1>4, <1>5 DEF Taken

LEMMA InitPlacesInv == Init => PlacesInv
<1> SUFFICES ASSUME Init PROVE PlacesInv
  OBVIOUS
<1>1. Polling = {} /\ Taken = {} /\ Holdings = {}
  <2>1. Polling = {}
    BY DEF Init, Polling
  <2>2. Taken = {}
    BY PipelineAssumption DEF Init, Taken, Batch
  <2>3. Holdings = {}
    BY DEF Init, Holdings, Held, Queued
  <2> QED BY <2>1, <2>2, <2>3
<1>2. IsFiniteSet({}) /\ Cardinality({}) = 0
  BY FS_EmptySet
<1>3. callbacks = {} /\ processed = {} /\ Len(events) = 0 /\ Looping = 0 /\ loop.batch = NoBatch
  BY DEF Init, Looping
<1>4. HandsInv
  BY <1>1, <1>2, <1>3 DEF HandsInv, Init
<1>5. Holders = 0
  BY <1>1, <1>2, <1>3 DEF Holders
<1> QED BY <1>1, <1>2, <1>4, <1>5 DEF PlacesInv, OnePlace

\* A debounce callback reads, or finds nothing new.
LEMMA FireKeepsPlaces ==
  ASSUME PlaceInv, PlacesInv, NEW p \in Path, DebounceFire(p)
  PROVE  PlacesInv'
<1>1. CASE watcherDone \/ p \notin fresh
  BY <1>1 DEF DebounceFire, PlacesInv, HandsInv, OnePlace, Taken, Holdings, Holders, Polling,
              Looping, Held, Queued, consumer, stopping
<1>2. CASE ~(watcherDone \/ p \notin fresh)
  <2> DEFINE nb == NextBatch(p)
  <2>1. /\ Read(p) /\ p \in fresh /\ callbacks' = callbacks \cup {nb}
        /\ UNCHANGED <<watch, events, loop, processed, watcherDone>>
    BY <1>2 DEF DebounceFire, consumer, stopping
  <2>2. nb # NoBatch /\ nb \notin Taken /\ Taken' = Taken \cup {nb}
    BY <2>1, ReadTakes
  <2>3. OnePlace /\ HandsInv
    BY <1>2 DEF PlacesInv
  <2>4. Polling' = Polling /\ Looping' = Looping
    BY <2>1 DEF Polling, Looping
  <2> HIDE DEF nb
  <2>5. Holdings' = Holdings \cup {nb}
    BY <2>1, <2>2 DEF Holdings, Held, Queued
  <2>6. nb \notin callbacks
    BY <2>2, <2>3 DEF OnePlace, Holdings, Held
  <2>7. IsFiniteSet(callbacks') /\ Cardinality(callbacks') = Cardinality(callbacks) + 1
    BY <2>1, <2>3, <2>6, FS_AddElement DEF HandsInv
  <2>8. IsFiniteSet(Taken) /\ Cardinality(Taken) \in Nat
    BY <2>3, HoldersBound DEF OnePlace
  <2>9. Cardinality(Taken') = Cardinality(Taken) + 1
    BY <2>2, <2>8, FS_AddElement
  <2>10. Holders' = Holders + 1
    BY <2>1, <2>3, <2>4, <2>7, CountsAreNumbers DEF Holders
  <2> QED BY <2>1, <2>2, <2>3, <2>4, <2>5, <2>7, <2>9, <2>10 DEF PlacesInv, HandsInv, OnePlace
<1> QED BY <1>1, <1>2

\* A Watch loop that polls does the same, and holds the batch itself.
LEMMA PollKeepsPlaces ==
  ASSUME PlaceInv, PlacesInv, NEW w \in WatchLoop, NEW p \in Path, PollFile(w, p)
  PROVE  PlacesInv'
<1>0. /\ UNCHANGED <<callbacks, events, loop, processed, watcherDone>>
      /\ watch[w].held = NoBatch /\ Looping' = Looping
  BY DEF PollFile, consumer, stopping, Looping
<1>1. watch \in [WatchLoop -> [pc: {"select", "poll", "exited"}, todo: SUBSET Path,
                               held: Batch \cup {NoBatch}]]
  BY DEF PlaceInv, TypeOK
<1>4. \A v \in WatchLoop : watch'[v].pc = "select" => watch'[v].held = NoBatch
  <2>1. watch'[w].pc = "poll"
    BY <1>1 DEF PollFile
  <2>2. \A v \in WatchLoop \ {w} : watch'[v] = watch[v]
    BY <1>1 DEF PollFile
  <2> QED BY <2>1, <2>2 DEF PlacesInv, HandsInv
<1>2. CASE watcherDone \/ p \notin fresh
  <2>1. watch' = [watch EXCEPT ![w].todo = @ \ {p}] /\ UNCHANGED readCount
    BY <1>2 DEF PollFile
  <2>2. \A v \in WatchLoop : watch'[v].held = watch[v].held
    BY <1>1, <2>1
  <2>3. Polling' = Polling /\ Held' = Held
    BY <1>0, <2>2 DEF Polling, Held
  <2> QED BY <1>0, <1>4, <2>1, <2>3 DEF PlacesInv, HandsInv, OnePlace, Taken, Holdings, Holders, Queued
<1>3. CASE ~(watcherDone \/ p \notin fresh)
  <2> DEFINE nb == NextBatch(p)
  <2>1. /\ Read(p) /\ p \in fresh
        /\ watch' = [watch EXCEPT ![w].todo = @ \ {p}, ![w].held = nb]
    BY <1>3 DEF PollFile
  <2>2. nb # NoBatch /\ nb \notin Taken /\ Taken' = Taken \cup {nb}
    BY <2>1, ReadTakes
  <2>3. OnePlace /\ HandsInv
    BY <1>3 DEF PlacesInv
  <2> HIDE DEF nb
  <2>4. watch'[w].held = nb /\ \A v \in WatchLoop \ {w} : watch'[v].held = watch[v].held
    BY <1>1, <2>1
  <2>5. Polling' = Polling \cup {w} /\ w \notin Polling
    BY <1>0, <2>2, <2>4 DEF Polling
  <2>6. {watch'[v].held : v \in WatchLoop} \ {NoBatch}
          = ({watch[v].held : v \in WatchLoop} \ {NoBatch}) \cup {nb}
    BY <1>0, <2>2, <2>4
  <2>7. Holdings' = Holdings \cup {nb}
    BY <1>0, <2>2, <2>6 DEF Holdings, Held, Queued
  <2>8. IsFiniteSet(Polling') /\ Cardinality(Polling') = Cardinality(Polling) + 1
    BY <2>3, <2>5, FS_AddElement DEF HandsInv
  <2>9. IsFiniteSet(Taken) /\ Cardinality(Taken) \in Nat
    BY <2>3, HoldersBound DEF OnePlace
  <2>10. Cardinality(Taken') = Cardinality(Taken) + 1
    BY <2>2, <2>9, FS_AddElement
  <2>11. Holders' = Holders + 1
    BY <1>0, <2>3, <2>8, CountsAreNumbers DEF Holders
  <2> QED BY <1>0, <1>4, <2>2, <2>3, <2>7, <2>8, <2>10, <2>11 DEF PlacesInv, HandsInv, OnePlace
<1> QED BY <1>2, <1>3

\* A batch that is sent moves from a hand to the channel; only a closed watcher
\* lets it be given up.
LEMMA SendKeepsPlaces ==
  ASSUME PlaceInv, PlacesInv,
         \/ \E b \in Batch : CallbackSend(b)
         \/ \E w \in WatchLoop : PollSend(w)
  PROVE  PlacesInv'
<1>0. HandsInv /\ events \in Seq(Batch) /\ EventCap \in Nat
  BY PipelineAssumption DEF PlacesInv, PlaceInv, TypeOK
<1>1. ASSUME NEW b \in Batch, CallbackSend(b) PROVE PlacesInv'
  <2>1. /\ b \in callbacks /\ Sends(b) /\ callbacks' = callbacks \ {b}
        /\ UNCHANGED <<watch, readCount, loop, processed, watcherDone>>
    BY <1>1 DEF CallbackSend, consumer, stopping
  <2>2. Polling' = Polling /\ Looping' = Looping /\ Taken' = Taken
    BY <2>1 DEF Polling, Looping, Taken
  <2>3. IsFiniteSet(callbacks') /\ Cardinality(callbacks') = Cardinality(callbacks) - 1
    BY <1>0, <2>1, FS_RemoveElement DEF HandsInv
  <2>4. HandsInv'
    BY <1>0, <2>1, <2>2, <2>3 DEF HandsInv
  <2>5. CASE watcherDone
    BY <2>1, <2>4, <2>5 DEF PlacesInv
  <2>6. CASE ~watcherDone
    <3>1. events' = Append(events, b)
      BY <2>1, <2>6 DEF Sends
    <3>2. Ran(events') = Ran(events) \cup {b} /\ Len(events') = Len(events) + 1
      BY <1>0, <3>1, SendRan
    <3>3. Holdings' = Holdings
      BY <2>1, <3>2 DEF Holdings, Held, Queued, Ran
    <3>4. Holders' = Holders
      BY <1>0, <2>1, <2>2, <2>3, <3>2, CountsAreNumbers DEF Holders
    <3> QED BY <2>1, <2>2, <2>4, <2>6, <3>3, <3>4 DEF PlacesInv, OnePlace
  <2> QED BY <2>5, <2>6
<1>2. ASSUME NEW w \in WatchLoop, PollSend(w) PROVE PlacesInv'
  <2> DEFINE b == watch[w].held
  <2>1. /\ b # NoBatch /\ Sends(b) /\ watch' = [watch EXCEPT ![w].held = NoBatch]
        /\ UNCHANGED <<callbacks, readCount, loop, processed, watcherDone>>
    BY <1>2 DEF PollSend, consumer, stopping
  <2>2. watch \in [WatchLoop -> [pc: {"select", "poll", "exited"}, todo: SUBSET Path,
                                 held: Batch \cup {NoBatch}]]
    BY DEF PlaceInv, TypeOK
  <2>3. watch'[w].held = NoBatch /\ \A v \in WatchLoop \ {w} : watch'[v].held = watch[v].held
    BY <2>1, <2>2
  <2>4. Looping' = Looping /\ Taken' = Taken
    BY <2>1 DEF Looping, Taken
  <2>5. Polling' = Polling \ {w} /\ w \in Polling
    BY <2>1, <2>3 DEF Polling
  <2>6. IsFiniteSet(Polling') /\ Cardinality(Polling') = Cardinality(Polling) - 1
    BY <1>0, <2>5, FS_RemoveElement DEF HandsInv
  <2>7. HandsInv'
    <3>1. \A v \in WatchLoop \ {w} : watch'[v] = watch[v]
      BY <2>1, <2>2
    <3> QED BY <1>0, <2>1, <2>3, <2>6, <3>1 DEF HandsInv
  <2>8. CASE watcherDone
    BY <2>1, <2>7, <2>8 DEF PlacesInv
  <2>9. CASE ~watcherDone
    <3>1. events' = Append(events, b) /\ b \in Batch
      BY <2>1, <2>2, <2>9 DEF Sends
    <3>2. Ran(events') = Ran(events) \cup {b} /\ Len(events') = Len(events) + 1
      BY <1>0, <3>1, SendRan
    <3>3. ({watch'[v].held : v \in WatchLoop} \cup {b}) \ {NoBatch}
            = {watch[v].held : v \in WatchLoop} \ {NoBatch}
      BY <2>1, <2>3
    <3>4. Holdings' = Holdings
      <4> HIDE DEF b
      <4> QED BY <2>1, <3>2, <3>3 DEF Holdings, Held, Queued, Ran
    <3>5. Holders' = Holders
      BY <1>0, <2>1, <2>4, <2>6, <3>2, CountsAreNumbers DEF Holders
    <3> QED BY <2>1, <2>4, <2>7, <2>9, <3>4, <3>5 DEF PlacesInv, OnePlace
  <2> QED BY <2>8, <2>9
<1> QED BY <1>1, <1>2

\* The event loop takes a batch from the channel into its hands.
LEMMA TakeKeepsPlaces ==
  ASSUME PlaceInv, PlacesInv, LoopTake
  PROVE  PlacesInv'
<1>1. /\ loop.pc = "select" /\ events # <<>> /\ events' = Tail(events)
      /\ loop'.pc = "process" /\ loop'.batch = Head(events)
      /\ UNCHANGED <<callbacks, watch, readCount, processed, watcherDone>>
  BY DEF LoopTake, readers, stopping
<1>2. HandsInv /\ loop.batch = NoBatch /\ events \in Seq(Batch)
  BY <1>1 DEF PlacesInv, HandsInv, PlaceInv, TypeOK
<1>3. Ran(events) = Ran(events') \cup {Head(events)} /\ Len(events') = Len(events) - 1
  BY <1>1, <1>2, ReceiveRan
<1>4. Head(events) \in Batch /\ NoBatch \notin Batch
  <2>1. Head(events) \in Batch
    BY <1>1, <1>2, HeadTailProperties
  <2>2. NoBatch \notin Batch
    BY PipelineAssumption DEF Batch
  <2> QED BY <2>1, <2>2
<1>5. Polling' = Polling /\ Taken' = Taken /\ Looping' = Looping + 1
  BY <1>1, <1>2, <1>4 DEF Polling, Taken, Looping
<1>6. Holdings' = Holdings
  BY <1>1, <1>2, <1>3 DEF Holdings, Held, Queued, Ran
<1>7. Holders' = Holders
  BY <1>1, <1>2, <1>3, <1>5, CountsAreNumbers DEF Holders
<1>8. HandsInv'
  BY <1>1, <1>2, <1>5 DEF HandsInv
<1> QED BY <1>1, <1>5, <1>6, <1>7, <1>8 DEF PlacesInv, OnePlace

\* It finishes with a batch that it alone held: nobody else had it, and it was not
\* among the processed ones, because there are no more batches than holders.
LEMMA FinishKeepsPlaces ==
  ASSUME PlaceInv, PlacesInv, PlaceInv', LoopFinish
  PROVE  PlacesInv'
<1>1. /\ loop.pc = "process" /\ processed' = processed \cup {loop.batch}
      /\ loop'.pc = "select" /\ loop'.batch = NoBatch
      /\ UNCHANGED <<callbacks, watch, readCount, events, watcherDone>>
  BY DEF LoopFinish, readers, stopping
<1>2. HandsInv /\ loop.batch \in Batch /\ NoBatch \notin Batch
  <2>1. HandsInv /\ loop.batch \in Batch
    BY <1>1 DEF PlacesInv, PlaceInv, BatchInv
  <2>2. NoBatch \notin Batch
    BY PipelineAssumption DEF Batch
  <2> QED BY <2>1, <2>2
<1>3. /\ IsFiniteSet(processed')
      /\ Cardinality(processed') \in Nat
      /\ Cardinality(processed') <= Cardinality(processed) + 1
  <2>1. IsFiniteSet(processed) /\ Cardinality(processed) \in Nat
    BY <1>2, FS_CardinalityType DEF HandsInv
  <2>2. /\ IsFiniteSet(processed')
        /\ Cardinality(processed') = IF loop.batch \in processed THEN Cardinality(processed)
                                     ELSE Cardinality(processed) + 1
    BY <1>1, <2>1, FS_AddElement
  <2> QED BY <2>1, <2>2
<1>4. Polling' = Polling /\ Taken' = Taken /\ Looping = 1 /\ Looping' = 0
  BY <1>1, <1>2 DEF Polling, Taken, Looping
<1>5. HandsInv'
  BY <1>1, <1>2, <1>3, <1>4 DEF HandsInv
<1>6. Holdings' = Holdings
  BY <1>1, <1>2 DEF Holdings, Held, Queued
<1>7. Holders \in Nat /\ Holders' \in Nat /\ Holders' <= Holders
  BY <1>1, <1>2, <1>3, <1>4, CountsAreNumbers DEF Holders
<1>8. OnePlace => OnePlace'
  BY <1>4, <1>5, <1>6, <1>7, PassingOn
<1> QED BY <1>1, <1>5, <1>8 DEF PlacesInv

LEMMA OthersKeepPlaces ==
  ASSUME PlaceInv, PlacesInv,
         \/ \E p \in Path : WriteLog(p) \/ WatchNotify(p)
         \/ \E w \in WatchLoop : PollTick(w) \/ PollReturn(w) \/ WatchExit(w)
         \/ EmitWarn \/ RaisePause \/ EmitPause \/ LoopExit
         \/ HandlerStep \/ HandlerExit
         \/ \E h \in Housekeeper : HousekeeperExit(h)
         \/ Interrupt \/ ShutdownCancel \/ ShutdownStep
         \/ UNCHANGED vars
  PROVE  PlacesInv'
<1>1. ASSUME UNCHANGED <<callbacks, readCount, events, processed, loop, watcherDone>>,
             \A w \in WatchLoop : watch'[w].held = watch[w].held,
             \A w \in WatchLoop : watch'[w].pc = "select" => watch'[w].held = NoBatch
      PROVE  PlacesInv'
  <2>1. Polling' = Polling /\ Held' = Held
    BY <1>1 DEF Polling, Held
  <2> QED BY <1>1, <2>1 DEF PlacesInv, HandsInv, OnePlace, Taken, Holdings, Holders, Looping,
                            Queued
<1>2. ASSUME UNCHANGED <<callbacks, readCount, watch, events, processed>>,
             loop'.batch = loop.batch, loop'.pc = "select" => loop.pc = "select",
             watcherDone => watcherDone'
      PROVE  PlacesInv'
  <2>1. Polling' = Polling /\ Held' = Held /\ Looping' = Looping
    BY <1>2 DEF Polling, Held, Looping
  <2> QED BY <1>2, <2>1 DEF PlacesInv, HandsInv, OnePlace, Taken, Holdings, Holders, Queued
<1>3. /\ watch \in [WatchLoop -> [pc: {"select", "poll", "exited"}, todo: SUBSET Path,
                                  held: Batch \cup {NoBatch}]]
      /\ loop \in [pc: {"select", "process", "emit", "exited"},
                   batch: Batch \cup {NoBatch}, left: 0..MaxTrips]
  BY DEF PlaceInv, TypeOK
<1>4. CASE \E p \in Path : WriteLog(p) \/ WatchNotify(p)
  BY <1>2, <1>4 DEF WriteLog, WatchNotify, consumer, stopping
<1>5. ASSUME NEW w \in WatchLoop, PollTick(w) \/ PollReturn(w) \/ WatchExit(w)
      PROVE  PlacesInv'
  <2>1. UNCHANGED <<callbacks, readCount, events, processed, loop, watcherDone>>
    BY <1>5 DEF PollTick, PollReturn, WatchExit, consumer, stopping
  <2>2. watch[w].held = NoBatch /\ watch'[w].held = NoBatch
    BY <1>3, <1>5 DEF PollTick, PollReturn, WatchExit, PlacesInv, HandsInv
  <2>3. \A v \in WatchLoop \ {w} : watch'[v] = watch[v]
    BY <1>3, <1>5 DEF PollTick, PollReturn, WatchExit
  <2> QED BY <1>1, <2>1, <2>2, <2>3 DEF PlacesInv, HandsInv
<1>6. CASE EmitWarn \/ RaisePause \/ EmitPause \/ LoopExit
  <2>1. loop'.batch = loop.batch /\ loop'.pc # "select"
    BY <1>3, <1>6 DEF EmitWarn, RaisePause, EmitPause, LoopExit
  <2> QED BY <1>2, <1>6, <2>1 DEF EmitWarn, RaisePause, EmitPause, LoopExit, readers, stopping
<1>7. CASE HandlerStep \/ HandlerExit
  BY <1>2, <1>7 DEF HandlerStep, HandlerTake, HandlerReturn, HandlerExit, readers, consumer,
                    stopping
<1>8. CASE (\E h \in Housekeeper : HousekeeperExit(h)) \/ Interrupt \/ ShutdownCancel
  BY <1>2, <1>8 DEF HousekeeperExit, Interrupt, ShutdownCancel, readers, consumer
<1>9. CASE ShutdownStep
  BY <1>2, <1>9 DEF ShutdownStep, ShutdownWaited, AnalyzerStop, WatcherClose, ShutdownDone,
                    readers, consumer
<1>10. CASE UNCHANGED vars
  BY <1>2, <1>10 DEF vars, readers, consumer, stopping
<1> QED BY <1>4, <1>5, <1>6, <1>7, <1>8, <1>9, <1>10

\* No batch is lost or delivered twice, however full the channel and whoever read it:
\* from the read that moves the tailer's offset until the analyzer has finished with it,
\* it is in exactly one place (readAndEmit, processEvents), until the watcher is closed.
THEOREM BatchesAreConserved == Spec => []EveryBatchInOnePlace
<1>1. ASSUME PlaceInv, PlacesInv, [Next]_vars PROVE PlacesInv'
  <2>1. ASSUME NEW p \in Path, DebounceFire(p) PROVE PlacesInv'
    BY <1>1, <2>1, FireKeepsPlaces
  <2>2. ASSUME NEW w \in WatchLoop, NEW p \in Path, PollFile(w, p) PROVE PlacesInv'
    BY <1>1, <2>2, PollKeepsPlaces
  <2>3. CASE (\E b \in Batch : CallbackSend(b)) \/ \E w \in WatchLoop : PollSend(w)
    BY <1>1, <2>3, SendKeepsPlaces
  <2>4. CASE LoopTake
    BY <1>1, <2>4, TakeKeepsPlaces
  <2>5. CASE LoopFinish
    BY <1>1, <2>5, StepKeepsPlaceInv, FinishKeepsPlaces
  <2>6. CASE \/ \E p \in Path : WriteLog(p) \/ WatchNotify(p)
             \/ \E w \in WatchLoop : PollTick(w) \/ PollReturn(w) \/ WatchExit(w)
             \/ EmitWarn \/ RaisePause \/ EmitPause \/ LoopExit
             \/ HandlerStep \/ HandlerExit
             \/ \E h \in Housekeeper : HousekeeperExit(h)
             \/ Interrupt \/ ShutdownCancel \/ ShutdownStep
             \/ UNCHANGED vars
    BY <1>1, <2>6, OthersKeepPlaces
  <2> QED BY <1>1, <2>1, <2>2, <2>3, <2>4, <2>5, <2>6 DEF Next, WatchStep, CallbackStep, LoopStep
<1> QED BY <1>1, InitPlaceInv, StepKeepsPlaceInv, InitPlacesInv, OnePlaceIsProperty, PTL DEF Spec

----------------------------------------------------------------------------
(* The shutdown.                                                           *)

\* How far Shutdown is tells who has stopped: the handler before the analyzer,
\* the analyzer before the watcher.
ShutdownOrder ==
    /\ shutdown \in {"no", "wait", "stop analyzer", "close watcher", "join", "done"}
    /\ shutdown \in {"stop analyzer", "close watcher", "join", "done"} => handler = "exited"
    /\ analyzerDone <=> shutdown \in {"close watcher", "join", "done"}
    /\ watcherDone <=> shutdown \in {"join", "done"}

\* A daemon that has just been started is not being stopped.
LEMMA InitOrder == Init => ShutdownOrder
  BY DEF Init, ShutdownOrder

\* Only the handler's own steps change what it does, and none brings an exited
\* handler back.
LEMMA HandlerKeepsOrder ==
  ASSUME ShutdownOrder, HandlerStep \/ HandlerExit
  PROVE  ShutdownOrder'
<1>1. CASE HandlerTake
  BY <1>1 DEF HandlerTake, ShutdownOrder, stopping
<1>2. CASE HandlerReturn
  BY <1>2 DEF HandlerReturn, ShutdownOrder, stopping
<1>3. CASE HandlerExit
  BY <1>3 DEF HandlerExit, ShutdownOrder, stopping
<1>. QED
  BY <1>1, <1>2, <1>3 DEF HandlerStep

\* Each step of Shutdown does what its place in the order says.
LEMMA ShutdownKeepsOrder ==
  ASSUME ShutdownOrder, ShutdownCancel \/ ShutdownStep
  PROVE  ShutdownOrder'
<1>1. CASE ShutdownCancel
  BY <1>1 DEF ShutdownCancel, ShutdownOrder
<1>2. CASE ShutdownWaited
  BY <1>2 DEF ShutdownWaited, WaitGroupDone, ShutdownOrder
<1>3. CASE AnalyzerStop
  BY <1>3 DEF AnalyzerStop, ShutdownOrder
<1>4. CASE WatcherClose
  BY <1>4 DEF WatcherClose, ShutdownOrder
<1>5. CASE ShutdownDone
  BY <1>5 DEF ShutdownDone, ShutdownOrder
<1>. QED
  BY <1>1, <1>2, <1>3, <1>4, <1>5 DEF ShutdownStep

\* The variables the order speaks of.
order == <<handler, shutdown, analyzerDone, watcherDone>>

\* All the other goroutines leave them alone.
LEMMA OthersKeepOrder ==
  ASSUME Next, ~HandlerStep, ~HandlerExit, ~ShutdownCancel, ~ShutdownStep
  PROVE  UNCHANGED order
<1>1. CASE \E p \in Path : WriteLog(p) \/ WatchNotify(p)
  BY <1>1 DEF WriteLog, WatchNotify, order, stopping
<1>2. CASE \E w \in WatchLoop : WatchStep(w) \/ WatchExit(w)
  <2>1. PICK w \in WatchLoop : WatchStep(w) \/ WatchExit(w)
    BY <1>2
  <2>2. CASE PollTick(w) \/ PollReturn(w) \/ PollSend(w)
    BY <2>2 DEF PollTick, PollReturn, PollSend, order, stopping
  <2>3. CASE \E p \in Path : PollFile(w, p)
    BY <2>3 DEF PollFile, order, stopping
  <2>4. CASE WatchExit(w)
    BY <2>4 DEF WatchExit, order, stopping
  <2>. QED
    BY <2>1, <2>2, <2>3, <2>4 DEF WatchStep
<1>3. CASE CallbackStep
  BY <1>3 DEF CallbackStep, DebounceFire, CallbackSend, order, stopping
<1>4. CASE LoopStep \/ LoopExit
  BY <1>4 DEF LoopStep, LoopTake, EmitWarn, RaisePause, EmitPause, LoopFinish, LoopExit,
              order, stopping
<1>5. CASE \E h \in Housekeeper : HousekeeperExit(h)
  BY <1>5 DEF HousekeeperExit, order
<1>6. CASE Interrupt
  BY <1>6 DEF Interrupt, order
<1>. QED
  BY <1>1, <1>2, <1>3, <1>4, <1>5, <1>6 DEF Next

\* Shutdown takes the daemon apart in the order in which its parts depend on one
\* another: whatever the goroutines are doing, the analyzer is stopped, and so
\* drops pause alerts, only when no handler is left, and the watcher is closed,
\* and so drops batches, only after that.
THEOREM AnalyzerIsStoppedLast == Spec => []AnalyzerOutlivesHandler
<1>1. ASSUME ShutdownOrder, [Next]_vars
      PROVE  ShutdownOrder'
  <2>1. CASE HandlerStep \/ HandlerExit
    BY <1>1, <2>1, HandlerKeepsOrder
  <2>2. CASE ShutdownCancel \/ ShutdownStep
    BY <1>1, <2>2, ShutdownKeepsOrder
  <2>3. CASE UNCHANGED vars
    BY <1>1, <2>3 DEF vars, stopping, ShutdownOrder
  <2>4. CASE Next /\ ~HandlerStep /\ ~HandlerExit /\ ~ShutdownCancel /\ ~ShutdownStep
    <3>1. UNCHANGED order
      BY <2>4, OthersKeepOrder
    <3>. QED
      BY <1>1, <3>1 DEF order, ShutdownOrder
  <2>. QED
    BY <1>1, <2>1, <2>2, <2>3, <2>4
<1>2. ShutdownOrder => AnalyzerOutlivesHandler
  BY DEF ShutdownOrder, AnalyzerOutlivesHandler
<1>. QED
  BY InitOrder, <1>1, <1>2, PTL DEF Spec
=============================================================================

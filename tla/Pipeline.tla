------------------------------ MODULE Pipeline ------------------------------
(***************************************************************************)
(* From a log file to an executed alert, and how the daemon stops.         *)
(*                                                                         *)
(*   Watch loops and debounce callbacks --events--> processEvents          *)
(*       --alerts--> handleAlerts                                          *)
(*                                                                         *)
(* Both arrows are bounded channels.  A batch is what one ReadNewLines of  *)
(* a file returned; the n-th batch of file p is <<p, n>>.  Shutdown runs   *)
(* in the main goroutine after Run has returned (mode "foreground", root.go)*)
(* or in a goroutine of its own while Run is still going ("service").      *)
(***************************************************************************)
EXTENDS Integers, Sequences, FiniteSets

CONSTANTS
    Path,          \* the session files, each with a tailer
    WatchLoop,     \* one Watch goroutine for each discoverer's base path
    HomeOf,        \* the Watch goroutine whose base path a file lies under
    Housekeeper,   \* the goroutines of Run that wait for nothing but ctx
    EventCap,      \* bound: capacity of Watcher.events (256 in the code)
    AlertCap,      \* bound: capacity of Analyzer.alerts (64 in the code)
    MaxBatch,      \* bound: batches read of one file
    MaxTrips,      \* bound: alerts one batch raises
    Modes,         \* how the daemon may be started: "foreground", "service"
    NoBatch

ASSUME PipelineAssumption ==
    /\ HomeOf \in [Path -> WatchLoop]
    /\ EventCap \in Nat \ {0} /\ AlertCap \in Nat \ {0}
    /\ MaxBatch \in Nat /\ MaxTrips \in Nat
    /\ Modes \subseteq {"foreground", "service"}
    /\ NoBatch \notin Path \X Nat

VARIABLES
    fresh,       \* files with lines that no ReadNewLines has returned
    notified,    \* files with an fsnotify event their Watch loop has not taken
    armed,       \* files with a debounce timer
    readCount,   \* batches read of each file
    callbacks,   \* batches held by debounce callbacks that wait to send them
    watch,       \* each Watch loop: pc, the files left to poll, a held batch
    events,      \* Watcher.events
    loop,        \* processEvents: pc, its batch, the alerts the batch still raises
    processed,   \* batches processEvents has finished with
    alerts,      \* Analyzer.alerts
    handler,     \* handleAlerts: "select", "execute" or "exited"
    raised,      \* pause alerts emit was called with
    handled,     \* pause alerts executeAlert was called with
    housekeeping,\* the Housekeepers that have not returned
    cancelled,   \* d.ctx is done
    watcherDone, \* Watcher.done is closed
    analyzerDone,\* Analyzer.done is closed
    shutdown,    \* how far Shutdown is
    mode         \* how the daemon was started

readers  == <<fresh, notified, armed, readCount, callbacks, watch>>
consumer == <<loop, processed>>
tally    == <<raised, handled>>
stopping == <<housekeeping, cancelled, watcherDone, analyzerDone, shutdown, mode>>
vars == <<readers, events, consumer, alerts, handler, tally, stopping>>

Batch == Path \X (1..MaxBatch)

\* Every variable has its type, and neither channel holds more than its capacity.
TypeOK ==
    /\ fresh \subseteq Path /\ notified \subseteq Path /\ armed \subseteq Path
    /\ readCount \in [Path -> 0..MaxBatch]
    /\ callbacks \subseteq Batch
    /\ watch \in [WatchLoop -> [pc: {"select", "poll", "exited"}, todo: SUBSET Path,
                                held: Batch \cup {NoBatch}]]
    /\ events \in Seq(Batch) /\ Len(events) <= EventCap
    /\ loop \in [pc: {"select", "process", "emit", "exited"},
                 batch: Batch \cup {NoBatch}, left: 0..MaxTrips]
    /\ processed \subseteq Batch
    /\ alerts \in Seq({"warn", "pause"}) /\ Len(alerts) <= AlertCap
    /\ handler \in {"select", "execute", "exited"}
    /\ raised \in Nat /\ handled \in Nat
    /\ housekeeping \subseteq Housekeeper
    /\ {cancelled, watcherDone, analyzerDone} \subseteq BOOLEAN
    /\ shutdown \in {"no", "wait", "stop analyzer", "close watcher", "join", "done"}
    /\ mode \in Modes

----------------------------------------------------------------------------
(* Log files and the watcher.                                              *)

\* An agent appends to its log.  fsnotify may drop the event when its queue
\* overflows; the poll of every five seconds is what catches that.
WriteLog(p) ==
    /\ p \notin fresh /\ readCount[p] < MaxBatch
    /\ fresh' = fresh \cup {p}
    /\ notified' \in {notified, notified \cup {p}}
    /\ UNCHANGED <<armed, readCount, callbacks, watch, events, consumer, alerts,
                   handler, tally, stopping>>

\* Watch: debouncer.Trigger restarts the timer of the file.
WatchNotify(p) ==
    /\ p \in notified /\ watch[HomeOf[p]].pc = "select"
    /\ notified' = notified \ {p}
    /\ armed' = armed \cup {p}
    /\ UNCHANGED <<fresh, readCount, callbacks, watch, events, consumer, alerts,
                   handler, tally, stopping>>

\* ReadNewLines: one caller at a time gets all that is new, as a batch.
NextBatch(p) == <<p, readCount[p] + 1>>
Read(p) == /\ fresh' = fresh \ {p}
           /\ readCount' = [readCount EXCEPT ![p] = @ + 1]

\* The timer fires and its goroutine runs readAndEmit up to the send.
DebounceFire(p) ==
    /\ p \in armed /\ armed' = armed \ {p}
    /\ IF watcherDone \/ p \notin fresh
       THEN UNCHANGED <<fresh, readCount, callbacks>>
       ELSE Read(p) /\ callbacks' = callbacks \cup {NextBatch(p)}
    /\ UNCHANGED <<notified, watch, events, consumer, alerts, handler, tally, stopping>>

\* Mutant: only fsnotify triggers a read.
PollTick_Off(w) == FALSE /\ UNCHANGED vars

\* Every Watch loop polls the tailers of all files, not only of its own.  (A
\* poll that finds nothing new in any of them leaves everything as it is.)
PollTick(w) ==
    /\ watch[w].pc = "select" /\ fresh # {}
    /\ watch' = [watch EXCEPT ![w] = [pc |-> "poll", todo |-> Path, held |-> NoBatch]]
    /\ UNCHANGED <<fresh, notified, armed, readCount, callbacks, events, consumer,
                   alerts, handler, tally, stopping>>

PollFile(w, p) ==
    /\ watch[w].pc = "poll" /\ watch[w].held = NoBatch /\ p \in watch[w].todo
    /\ IF watcherDone \/ p \notin fresh
       THEN /\ watch' = [watch EXCEPT ![w].todo = @ \ {p}]
            /\ UNCHANGED <<fresh, readCount>>
       ELSE /\ watch' = [watch EXCEPT ![w].todo = @ \ {p}, ![w].held = NextBatch(p)]
            /\ Read(p)
    /\ UNCHANGED <<notified, armed, callbacks, events, consumer, alerts, handler,
                   tally, stopping>>

PollReturn(w) ==
    /\ watch[w].pc = "poll" /\ watch[w].held = NoBatch /\ watch[w].todo = {}
    /\ watch' = [watch EXCEPT ![w].pc = "select"]
    /\ UNCHANGED <<fresh, notified, armed, readCount, callbacks, events, consumer,
                   alerts, handler, tally, stopping>>

\* Mutant: a select with a default case.
Sends_DropsWhenFull(b) ==
    events' = IF Len(events) < EventCap THEN Append(events, b) ELSE events

\* readAndEmit's select: send, or give the batch up once the watcher is closed.
\* Cancelling the context does not end it.
Sends(b) ==
    \/ Len(events) < EventCap /\ events' = Append(events, b)
    \/ watcherDone /\ UNCHANGED events

CallbackSend(b) ==
    /\ b \in callbacks /\ Sends(b)
    /\ callbacks' = callbacks \ {b}
    /\ UNCHANGED <<fresh, notified, armed, readCount, watch, consumer, alerts, handler,
                   tally, stopping>>

PollSend(w) ==
    /\ watch[w].held # NoBatch /\ Sends(watch[w].held)
    /\ watch' = [watch EXCEPT ![w].held = NoBatch]
    /\ UNCHANGED <<fresh, notified, armed, readCount, callbacks, consumer, alerts,
                   handler, tally, stopping>>

WatchExit(w) ==
    /\ cancelled /\ watch[w].pc = "select"
    /\ watch' = [watch EXCEPT ![w].pc = "exited"]
    /\ UNCHANGED <<fresh, notified, armed, readCount, callbacks, events, consumer,
                   alerts, handler, tally, stopping>>

----------------------------------------------------------------------------
(* processEvents.  Its lines are parsed and analysed one by one; what      *)
(* matters here is how many alerts they raise, and of which level.         *)

LoopTake ==
    /\ loop.pc = "select" /\ events # <<>>
    /\ events' = Tail(events)
    /\ \E n \in 0..MaxTrips :
         loop' = [pc |-> "process", batch |-> Head(events), left |-> n]
    /\ UNCHANGED <<readers, processed, alerts, handler, tally, stopping>>

\* emit drops a warning that finds the channel full.
EmitWarn ==
    /\ loop.pc = "process" /\ loop.left > 0
    /\ loop' = [loop EXCEPT !.left = @ - 1]
    /\ alerts' = IF Len(alerts) < AlertCap THEN Append(alerts, "warn") ELSE alerts
    /\ UNCHANGED <<readers, events, processed, handler, tally, stopping>>

RaisePause ==
    /\ loop.pc = "process" /\ loop.left > 0
    /\ loop' = [loop EXCEPT !.pc = "emit", !.left = @ - 1]
    /\ raised' = raised + 1
    /\ UNCHANGED <<readers, events, processed, alerts, handler, handled, stopping>>

\* Mutant: a pause alert does not wait for room.
EmitPause_DropsWhenFull ==
    /\ loop.pc = "emit"
    /\ alerts' = IF Len(alerts) < AlertCap THEN Append(alerts, "pause") ELSE alerts
    /\ loop' = [loop EXCEPT !.pc = "process"]
    /\ UNCHANGED <<readers, events, processed, handler, tally, stopping>>

\* Mutant: pause alerts go to an unbounded list.
EmitPause_Unbounded ==
    /\ loop.pc = "emit" /\ alerts' = Append(alerts, "pause")
    /\ loop' = [loop EXCEPT !.pc = "process"]
    /\ UNCHANGED <<readers, events, processed, handler, tally, stopping>>

\* emit waits with a pause alert until there is room or the analyzer stops.
EmitPause ==
    /\ loop.pc = "emit"
    /\ \/ Len(alerts) < AlertCap /\ alerts' = Append(alerts, "pause")
       \/ analyzerDone /\ UNCHANGED alerts
    /\ loop' = [loop EXCEPT !.pc = "process"]
    /\ UNCHANGED <<readers, events, processed, handler, tally, stopping>>

LoopFinish ==
    /\ loop.pc = "process" /\ loop.left = 0
    /\ processed' = processed \cup {loop.batch}
    /\ loop' = [pc |-> "select", batch |-> NoBatch, left |-> 0]
    /\ UNCHANGED <<readers, events, alerts, handler, tally, stopping>>

\* select chooses either way when the context is done and events are waiting.
LoopExit ==
    /\ cancelled /\ loop.pc = "select"
    /\ loop' = [loop EXCEPT !.pc = "exited"]
    /\ UNCHANGED <<readers, events, processed, alerts, handler, tally, stopping>>

----------------------------------------------------------------------------
(* handleAlerts.                                                           *)

HandlerTake ==
    /\ handler = "select" /\ alerts # <<>>
    /\ alerts' = Tail(alerts) /\ handler' = "execute"
    /\ handled' = IF Head(alerts) = "pause" THEN handled + 1 ELSE handled
    /\ UNCHANGED <<readers, events, consumer, raised, stopping>>

\* Mutant: a notification command that hangs is not given up after five seconds.
HandlerReturn_Hangs ==
    /\ handler = "execute" /\ cancelled /\ handler' = "select"
    /\ UNCHANGED <<readers, events, consumer, alerts, tally, stopping>>

HandlerReturn ==
    /\ handler = "execute" /\ handler' = "select"
    /\ UNCHANGED <<readers, events, consumer, alerts, tally, stopping>>

HandlerExit ==
    /\ cancelled /\ handler = "select" /\ handler' = "exited"
    /\ UNCHANGED <<readers, events, consumer, alerts, tally, stopping>>

----------------------------------------------------------------------------
(* Stopping.                                                               *)

HousekeeperExit(h) ==
    /\ cancelled /\ h \in housekeeping
    /\ housekeeping' = housekeeping \ {h}
    /\ UNCHANGED <<readers, events, consumer, alerts, handler, tally, cancelled,
                   watcherDone, analyzerDone, shutdown, mode>>

\* SIGINT or SIGTERM: signal.NotifyContext cancels the parent of d.ctx.
Interrupt ==
    /\ mode = "foreground" /\ ~cancelled /\ cancelled' = TRUE
    /\ UNCHANGED <<readers, events, consumer, alerts, handler, tally, housekeeping,
                   watcherDone, analyzerDone, shutdown, mode>>

\* Shutdown: the deferred call of runDaemon, or the service manager's Stop.
ShutdownCancel ==
    /\ shutdown = "no" /\ shutdown' = "wait"
    /\ mode = "foreground" => loop.pc = "exited"
    /\ cancelled' = TRUE
    /\ UNCHANGED <<readers, events, consumer, alerts, handler, tally, housekeeping,
                   watcherDone, analyzerDone, mode>>

\* wg.Wait: all of Run's goroutines, but neither processEvents, which runs in
\* Run's own, nor the debounce callbacks.
WaitGroupDone == /\ \A w \in WatchLoop : watch[w].pc = "exited"
                 /\ handler = "exited" /\ housekeeping = {}

\* Mutant: Shutdown does not wait for the goroutines.
ShutdownWaited_AtOnce ==
    /\ shutdown = "wait" /\ shutdown' = "stop analyzer"
    /\ UNCHANGED <<readers, events, consumer, alerts, handler, tally, housekeeping,
                   cancelled, watcherDone, analyzerDone, mode>>

ShutdownWaited ==
    /\ shutdown = "wait" /\ WaitGroupDone
    /\ shutdown' = "stop analyzer"
    /\ UNCHANGED <<readers, events, consumer, alerts, handler, tally, housekeeping,
                   cancelled, watcherDone, analyzerDone, mode>>

\* Mutant: Shutdown does not stop the analyzer.
AnalyzerStop_Skipped ==
    /\ shutdown = "stop analyzer" /\ shutdown' = "close watcher"
    /\ UNCHANGED <<readers, events, consumer, alerts, handler, tally, housekeeping,
                   cancelled, watcherDone, analyzerDone, mode>>

AnalyzerStop ==
    /\ shutdown = "stop analyzer" /\ shutdown' = "close watcher"
    /\ analyzerDone' = TRUE
    /\ UNCHANGED <<readers, events, consumer, alerts, handler, tally, housekeeping,
                   cancelled, watcherDone, mode>>

\* Watcher.Close also stops the debounce timers.
WatcherClose ==
    /\ shutdown = "close watcher" /\ shutdown' = "join"
    /\ watcherDone' = TRUE /\ armed' = {}
    /\ UNCHANGED <<fresh, notified, readCount, callbacks, watch, events, consumer,
                   alerts, handler, tally, housekeeping, cancelled, analyzerDone, mode>>

\* service.go's Stop waits for Run; in the foreground Run has returned.
ShutdownDone ==
    /\ shutdown = "join" /\ loop.pc = "exited" /\ shutdown' = "done"
    /\ UNCHANGED <<readers, events, consumer, alerts, handler, tally, housekeeping,
                   cancelled, watcherDone, analyzerDone, mode>>

----------------------------------------------------------------------------
Init ==
    /\ fresh = {} /\ notified = {} /\ armed = {} /\ callbacks = {}
    /\ readCount = [p \in Path |-> 0]
    /\ watch = [w \in WatchLoop |-> [pc |-> "select", todo |-> {}, held |-> NoBatch]]
    /\ events = <<>> /\ alerts = <<>> /\ processed = {}
    /\ loop = [pc |-> "select", batch |-> NoBatch, left |-> 0]
    /\ handler = "select" /\ raised = 0 /\ handled = 0
    /\ housekeeping = Housekeeper
    /\ cancelled = FALSE /\ watcherDone = FALSE /\ analyzerDone = FALSE
    /\ shutdown = "no" /\ mode \in Modes

WatchStep(w) == \/ PollTick(w) \/ PollReturn(w) \/ PollSend(w)
                \/ \E p \in Path : PollFile(w, p)
CallbackStep == (\E p \in Path : DebounceFire(p)) \/ \E b \in Batch : CallbackSend(b)
LoopStep     == LoopTake \/ EmitWarn \/ RaisePause \/ EmitPause \/ LoopFinish
HandlerStep  == HandlerTake \/ HandlerReturn
ShutdownStep == ShutdownWaited \/ AnalyzerStop \/ WatcherClose \/ ShutdownDone

Next ==
    \/ \E p \in Path : WriteLog(p) \/ WatchNotify(p)
    \/ \E w \in WatchLoop : WatchStep(w) \/ WatchExit(w)
    \/ CallbackStep
    \/ LoopStep \/ LoopExit
    \/ HandlerStep \/ HandlerExit
    \/ \E h \in Housekeeper : HousekeeperExit(h)
    \/ Interrupt \/ ShutdownCancel \/ ShutdownStep

\* Every goroutine that can take a step takes one in the end; a select with a
\* done context does not choose its other cases for ever.  Nothing makes an
\* agent write or anybody stop the daemon, except that Run, once it has
\* returned, is followed by the deferred Shutdown.
Fairness ==
    /\ \A w \in WatchLoop : WF_vars(WatchStep(w)) /\ SF_vars(WatchExit(w))
    /\ WF_vars(CallbackStep)
    /\ WF_vars(LoopStep) /\ SF_vars(LoopExit)
    /\ WF_vars(HandlerStep) /\ SF_vars(HandlerExit)
    /\ \A h \in Housekeeper : WF_vars(HousekeeperExit(h))
    /\ WF_vars(ShutdownStep) /\ WF_vars(ShutdownCancel /\ loop.pc = "exited")

Spec == Init /\ [][Next]_vars /\ Fairness

----------------------------------------------------------------------------
(* Properties.                                                             *)

Held == callbacks \cup {watch[w].held : w \in WatchLoop} \cup {loop.batch}
Queued == {events[i] : i \in DOMAIN events}

\* No batch is lost or delivered twice between the tailer, whose offset has
\* moved past it, and the analyzer: however full the channel and whoever read
\* it, it is in exactly one place, until Shutdown closes the watcher.
EveryBatchInOnePlace ==
    LET batches == {b \in Batch : b[2] <= readCount[b[1]]}
        holders == Cardinality(callbacks) + Len(events) + Cardinality(processed)
                   + Cardinality({w \in WatchLoop : watch[w].held # NoBatch})
                   + (IF loop.batch = NoBatch THEN 0 ELSE 1)
    IN  ~watcherDone =>
          /\ batches = (Held \cup Queued \cup processed) \ {NoBatch}
          /\ holders = Cardinality(batches)

\* A pause alert is not lost either, before Shutdown stops the analyzer: only
\* warnings are dropped when the channel is full.
NoPauseAlertLost ==
    LET queued == Cardinality({i \in DOMAIN alerts : alerts[i] = "pause"})
    IN  ~analyzerDone =>
          raised = handled + queued + (IF loop.pc = "emit" THEN 1 ELSE 0)

\* Shutdown stops the analyzer, which makes emit drop alerts, only when nobody
\* is left to execute them, and closes the watcher only after that.
AnalyzerOutlivesHandler ==
    /\ analyzerDone => handler = "exited"
    /\ watcherDone => analyzerDone

\* While the daemon is not stopped, what an agent writes is analysed in the end.
LinesAreProcessed ==
    \A p \in Path :
      p \in fresh ~> (p \notin fresh /\ <<p, readCount[p]>> \in processed) \/ cancelled

\* While the daemon is not stopped, a pause alert is executed in the end.
PauseIsExecuted == raised > handled ~> raised = handled \/ cancelled

\* Once it is told to stop, the daemon stops.
StopsWhenTold == cancelled ~> shutdown = "done"

\* A stop requested by the service manager hangs only if the events channel is
\* left full: a Watch loop may then wait for ever in readAndEmit, whose select
\* knows w.done but not the context, and w.done is closed after wg.Wait.
OnlyFullChannelHangs ==
    mode = "service" /\ <>cancelled
      => <>(shutdown = "done") \/ <>[](Len(events) = EventCap)
=============================================================================

--------------------------------- MODULE Spin ---------------------------------
(***************************************************************************)
(* The spin detector of one session (spin.go) and what Analyzer.Process    *)
(* makes of its result.  Each parsed event of the session's log goes       *)
(* through Check once, in the order of the log; the event's timestamp is   *)
(* what the log says, so that it may go back, or be missing (0).           *)
(*                                                                         *)
(* Time is in minutes, costs are whole cents.  A detector keeps the        *)
(* configuration it was made with, whatever is reloaded.                   *)
(***************************************************************************)
EXTENDS Integers, Sequences, FiniteSets, FiniteSetsExt

CONSTANTS
    Call,            \* fingerprints: a tool's name with its input
    ErrorText,       \* normalised error messages; NoText is the empty one
    Event,           \* the parsed events the session's log may hold
    RepeatedCalls, ErrorEcho, StallMinutes, CostVelocityPerMin,
    ContextFillPercent, WindowSize,
    VelocitySpan,    \* minutes the cost window goes back (5 in the code)
    ContextWindow,   \* the known models, with the size of their windows
    FallbackContextWindow,
    Start,           \* the time at which the session starts
    MaxEvents,       \* bound: events of the session
    NoText, NoModel, Unstamped

\* An event: kind of content, fingerprint or message, whether the tool is one of
\* Edit, Write and NotebookEdit, minutes since the event before (or Unstamped),
\* cost, input tokens, and the model named, if any.
EventType ==
    [kind : {"tool_use", "tool_result", "error", "text"}, item : Call \cup ErrorText,
     edits : BOOLEAN, after : Int \cup {Unstamped}, cost : Nat, input : Nat,
     model : DOMAIN ContextWindow \cup {NoModel}]

\* The configuration is validated: no threshold is below 1.
ASSUME SpinAssumption ==
    /\ Event \subseteq EventType
    /\ \A e \in Event : /\ e.kind = "tool_use" => e.item \in Call
                        /\ e.kind = "error" => e.item \in ErrorText
    /\ NoText \in ErrorText /\ NoText \notin Call
    /\ RepeatedCalls \in Nat \ {0} /\ ErrorEcho \in Nat \ {0}
    /\ StallMinutes \in Nat \ {0} /\ CostVelocityPerMin \in Nat
    /\ ContextFillPercent \in Nat /\ WindowSize \in Nat \ {0}
    /\ VelocitySpan \in Nat \ {0}
    /\ \A m \in DOMAIN ContextWindow : ContextWindow[m] \in Nat \ {0}
    /\ FallbackContextWindow \in Nat \ {0} /\ NoModel \notin DOMAIN ContextWindow
    /\ Start \in Nat \ {0} /\ MaxEvents \in Nat

VARIABLES
    tools,         \* recentTools, toolHead and toolCount
    errors,        \* recentErrors, errorHead and errorCount
    lastFileEdit,  \* 0: the zero time
    hasActivity,
    costWindow,    \* of [time, cost], the session's cost up to that event
    lastModel,
    result,        \* SpinResult of the last Check: its reasons, its heuristic
    clock,         \* the timestamp of the last event that had one
    seen,          \* how many events there have been
    spending       \* history: every [time, cost] there was

vars == <<tools, errors, lastFileEdit, hasActivity, costWindow, lastModel, result,
          clock, seen, spending>>

Heuristic == {"repeated_tool_calls", "error_echo", "cost_velocity", "context_bloat"}
Ring(S) == [slots : [0..(WindowSize - 1) -> S], head : 0..(WindowSize - 1),
            count : 0..WindowSize]
Charge == [time : Int, cost : Nat]

\* Every variable has its type: the rings do not run over, and the cost window
\* starts no more than VelocitySpan before the charge it ends with.
TypeOK ==
    /\ tools \in Ring(Call \cup {NoText}) /\ errors \in Ring(ErrorText)
    /\ lastFileEdit \in Int /\ hasActivity \in BOOLEAN
    /\ costWindow \in Seq(Charge)
    /\ costWindow # <<>> =>
         costWindow[1].time >= costWindow[Len(costWindow)].time - VelocitySpan
    /\ lastModel \in DOMAIN ContextWindow \cup {NoModel}
    /\ result.reasons \in Seq(Heuristic \cup {"stall"})
    /\ result.heuristic \in Heuristic \cup {"none"}
    /\ clock \in Int /\ seen \in 0..MaxEvents

----------------------------------------------------------------------------
(* The two ring buffers.                                                   *)

\* Mutant: the head wraps a slot too early.
Record_WrapsEarly(ring, item) ==
    [slots |-> [ring.slots EXCEPT ![ring.head] = item],
     head  |-> IF ring.head + 1 >= WindowSize - 1 THEN 0 ELSE ring.head + 1,
     count |-> IF ring.count < WindowSize THEN ring.count + 1 ELSE ring.count]

\* recordTool and recordError.
Record(ring, item) ==
    [slots |-> [ring.slots EXCEPT ![ring.head] = item],
     head  |-> (ring.head + 1) % WindowSize,
     count |-> IF ring.count < WindowSize THEN ring.count + 1 ELSE ring.count]

Count(ring, item) == Cardinality({i \in 0..(ring.count - 1) : ring.slots[i] = item})

\* Mutant: empty slots and empty messages count.
Repeats_CountsEmpty(ring, threshold) ==
    /\ ring.count >= threshold
    /\ \E i \in 0..(ring.count - 1) : Count(ring, ring.slots[i]) >= threshold

\* checkRepeatedTools and checkErrorEcho.
Repeats(ring, threshold) ==
    /\ ring.count >= threshold
    /\ \E i \in 0..(ring.count - 1) :
         ring.slots[i] # NoText /\ Count(ring, ring.slots[i]) >= threshold

----------------------------------------------------------------------------
(* Stall, cost velocity, context.                                          *)

Stalled(now, active, edit) == active /\ edit # 0 /\ now - edit > StallMinutes

\* Mutant: the cost window is not trimmed.
RecordCost_KeepsAll(now, cost) == Append(costWindow, [time |-> now, cost |-> cost])

\* The window without the charges before the first that is recent enough.
RecordCost(now, cost) ==
    LET window == Append(costWindow, [time |-> now, cost |-> cost])
        recent == {i \in DOMAIN window : window[i].time >= now - VelocitySpan}
    IN  SubSeq(window, Min(recent), Len(window))

\* Mutant: the session's whole cost counts as spent in the window.
TooFast_FromZero(window) ==
    LET last    == window[Len(window)]
        elapsed == last.time - window[1].time
    IN  /\ Len(window) >= 2 /\ elapsed >= 1
        /\ last.cost > CostVelocityPerMin * elapsed

TooFast(window) ==
    LET first   == window[1]
        last    == window[Len(window)]
        elapsed == last.time - first.time
    IN  /\ Len(window) >= 2 /\ elapsed >= 1
        /\ last.cost - first.cost > CostVelocityPerMin * elapsed

WindowOf(model) ==
    IF model = NoModel THEN FallbackContextWindow ELSE ContextWindow[model]

Bloated(e, model) ==
    /\ ContextFillPercent > 0
    /\ (e.input * 100) \div WindowOf(model) >= ContextFillPercent

----------------------------------------------------------------------------
\* Check, on the next event of the log.
TimeOf(e) == IF e.after = Unstamped THEN 0 ELSE clock + e.after
CostSoFar == IF spending = <<>> THEN 0 ELSE spending[Len(spending)].cost

If(condition, reason) == IF condition THEN <<reason>> ELSE <<>>

Check(e) ==
    LET now     == TimeOf(e)
        cost    == CostSoFar + e.cost
        edit    == IF e.kind = "tool_use" /\ e.edits THEN now ELSE lastFileEdit
        active  == hasActivity \/ e.input > 0 \/ e.cost > 0
        model   == IF e.input > 0 /\ ContextFillPercent > 0 /\ e.model # NoModel
                   THEN e.model ELSE lastModel
        spinning == If(e.kind = "tool_use" /\ Repeats(tools', RepeatedCalls),
                       "repeated_tool_calls")
                    \o If(e.kind = "error" /\ Repeats(errors', ErrorEcho), "error_echo")
        rushing  == If(cost > 0 /\ TooFast(costWindow'), "cost_velocity")
                    \o If(e.input > 0 /\ Bloated(e, model), "context_bloat")
    IN  /\ tools'  = IF e.kind = "tool_use" THEN Record(tools, e.item) ELSE tools
        /\ errors' = IF e.kind = "error" THEN Record(errors, e.item) ELSE errors
        /\ lastFileEdit' = edit /\ hasActivity' = active /\ lastModel' = model
        /\ costWindow' = IF cost > 0 THEN RecordCost(now, cost) ELSE costWindow
        /\ result' = [reasons   |-> spinning \o If(Stalled(now, active, edit), "stall")
                                      \o rushing,
                      heuristic |-> Head(spinning \o rushing \o <<"none">>)]
        /\ clock' = IF e.after = Unstamped THEN clock ELSE now
        /\ spending' = IF cost > 0 THEN Append(spending, [time |-> now, cost |-> cost])
                       ELSE spending

Init ==
    /\ tools  = [slots |-> [i \in 0..(WindowSize - 1) |-> NoText], head |-> 0, count |-> 0]
    /\ errors = tools
    /\ lastFileEdit = 0 /\ hasActivity = FALSE
    /\ costWindow = <<>> /\ lastModel = NoModel
    /\ result = [reasons |-> <<>>, heuristic |-> "none"]
    /\ clock = Start /\ seen = 0 /\ spending = <<>>

Next == seen < MaxEvents /\ seen' = seen + 1 /\ \E e \in Event : Check(e)

Spec == Init /\ [][Next]_vars

----------------------------------------------------------------------------
(* Properties.                                                             *)

Says(reason) == \E i \in DOMAIN result.reasons : result.reasons[i] = reason

\* The items of a ring in the order they were recorded.
Unrolled(ring) ==
    [k \in 1..ring.count |-> ring.slots[(ring.head - ring.count + k - 1) % WindowSize]]

ToolsSeen == INSTANCE SlidingWindow WITH
    Item <- Call, Size <- WindowSize, Threshold <- RepeatedCalls, Ignored <- {},
    recent <- Unrolled(tools), alarm <- Says("repeated_tool_calls")

ErrorsSeen == INSTANCE SlidingWindow WITH
    Item <- ErrorText, Size <- WindowSize, Threshold <- ErrorEcho, Ignored <- {NoText},
    recent <- Unrolled(errors), alarm <- Says("error_echo")

\* The ring of tool calls, once it wraps round as before, is the sliding window of
\* the last WindowSize calls: a call is reported exactly when one of them is there
\* RepeatedCalls times, however many others came in between.
ToolWindow == ToolsSeen!Spec

\* So is the ring of errors, in which an empty message counts for nothing.
ErrorWindow == ErrorsSeen!Spec

\* The rate between the i-th charge there was and the last.
Elapsed(i) == spending[Len(spending)].time - spending[i].time
Rushed(i)  == /\ Elapsed(i) \in 1..VelocitySpan
              /\ CostSoFar - spending[i].cost > CostVelocityPerMin * Elapsed(i)
Recent     == {i \in DOMAIN spending : Elapsed(i) <= VelocitySpan}

\* The cost velocity reported is one the session really had, over at least one
\* minute and at most the span, however its timestamps are ordered; and while
\* they are in order, it is reported whenever the rate since the oldest charge of
\* the span is too high, whatever was trimmed before.
VelocityIsMeasured ==
    LET inOrder == \A i, j \in DOMAIN spending : i < j => spending[i].time <= spending[j].time
    IN  /\ Says("cost_velocity") => \E i \in DOMAIN spending : Rushed(i)
        /\ spending # <<>> /\ inOrder /\ Rushed(Min(Recent)) => Says("cost_velocity")
=============================================================================

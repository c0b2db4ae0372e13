------------------------------- MODULE Budget -------------------------------
(***************************************************************************)
(* What Analyzer.Process does with a line that has tokens: it charges the  *)
(* session, checks three limits and raises alerts (analyzer.go, budget.go).*)
(* The steps are those between which the locks are free, so that a reload  *)
(* of the configuration can come in between.                               *)
(*                                                                         *)
(* Costs and limits are whole cents, time is a number of minutes.          *)
(***************************************************************************)
EXTENDS Integers, Sequences, FiniteSets, FiniteSetsExt

CONSTANTS
    Session,
    Cost,          \* what a line may cost
    Limits,        \* the limits a configuration may set, as [LimitName -> Nat]; 0: none
    WarnAt,        \* warn_at_percent
    Hour, Day,     \* the length of an hour and of a day (60 and 1440 in the code)
    MaxTime,       \* bound: the clock
    MaxCharges,    \* bound: lines with tokens
    MaxReloads,    \* bound: reloads of the configuration
    NoLimit

LimitName == {"per_session", "per_hour", "per_day"}

ASSUME BudgetAssumption ==
    /\ Cost \subseteq Nat /\ Limits \subseteq [LimitName -> Nat] /\ Limits # {}
    /\ WarnAt \in 0..100
    /\ Hour \in Nat \ {0} /\ Day \in Nat \ {0}
    /\ MaxTime \in Nat /\ MaxCharges \in Nat /\ MaxReloads \in Nat
    /\ NoLimit \notin LimitName /\ Session # {}

VARIABLES
    now,           \* the clock
    sessions,      \* Analyzer.sessions: the cost of each session
    limits,        \* BudgetEnforcer.perSession, perHour and perDay
    sessionCosts,  \* BudgetEnforcer.sessionCosts
    hourlyCosts,   \* BudgetEnforcer.hourlyCosts
    dailyCost, dayStart,
    warned,        \* Analyzer.warned: <<session, limit>>
    proc,          \* Process: pc, its session, the cost, the limit that is worst,
                   \* whether it is exceeded, and the alerts it has raised
    reload,        \* UpdateBudget: "no", or "limits" when only those are updated
    reloads,
    charges,       \* history: every cost recorded
    told           \* history: <<session, limit>> of every warning raised

history == <<charges, told>>
enforcer == <<limits, sessionCosts, hourlyCosts, dailyCost, dayStart>>
vars == <<now, sessions, enforcer, warned, proc, reload, reloads, history>>

Idle == [pc |-> "idle", session |-> CHOOSE s \in Session : TRUE, cost |-> 0,
         worst |-> NoLimit, exceeded |-> FALSE, alerts |-> {}]

Alert == {"warn", "pause"} \X {"budget_warning", "budget_exceeded", "spin_detected"}

\* Every variable has its type; the hourly costs are in the order of time and
\* go back no further than an hour, so that they do not grow for ever.
TypeOK ==
    /\ now \in 0..MaxTime
    /\ sessions \in [Session -> Nat] /\ sessionCosts \in [Session -> Nat]
    /\ limits \in Limits
    /\ hourlyCosts \in Seq([time : 0..MaxTime, cost : Cost])
    /\ \A i, j \in DOMAIN hourlyCosts :
         i < j => hourlyCosts[j].time - hourlyCosts[i].time \in 0..Hour
    /\ dailyCost \in Nat /\ dayStart \in 0..(MaxTime \div Day)
    /\ warned \subseteq Session \X LimitName
    /\ proc \in [pc : {"idle", "record", "budget", "spin", "done"}, session : Session,
                 cost : Cost \cup {0}, worst : LimitName \cup {NoLimit},
                 exceeded : BOOLEAN, alerts : SUBSET Alert]
    /\ reload \in {"no", "limits"} /\ reloads \in 0..MaxReloads
    /\ \A c \in charges : c.cost \in Cost
    /\ told \subseteq Session \X LimitName

----------------------------------------------------------------------------
(* BudgetEnforcer.                                                         *)

Today(t) == t \div Day

\* Mutant: nothing is trimmed.
Trim_Never(costs) == costs

\* What remains without the entries before the first that is at most an hour old.
Trim(costs) ==
    LET young == {i \in DOMAIN costs : costs[i].time >= now - Hour}
    IN  IF young = {} THEN <<>> ELSE SubSeq(costs, Min(young), Len(costs))

TotalOf(costs) == MapThenSumSet(LAMBDA i : costs[i].cost, DOMAIN costs)

\* check: a limit of 0 is none; exceeded when reached; a warning from WarnAt on.
Reached(total, l)  == limits[l] > 0 /\ total[l] >= limits[l]
InWarning(total, l) == limits[l] > 0 /\ ~Reached(total, l)
                       /\ 100 * total[l] >= WarnAt * limits[l]
Found(total) == {l \in LimitName : Reached(total, l) \/ InWarning(total, l)}

\* The most severe result: exceeded before warning, then the greater percentage.
MoreSevere(total, l, m) ==
    \/ Reached(total, l) /\ ~Reached(total, m)
    \/ /\ Reached(total, l) = Reached(total, m)
       /\ total[l] * limits[m] > total[m] * limits[l]

Rank(l) == CASE l = "per_session" -> 1 [] l = "per_hour" -> 2 [] l = "per_day" -> 3

\* Mutant: the first result there is (FINDINGS.md, H1).
Worst_First(total) ==
    IF Found(total) = {} THEN NoLimit
    ELSE CHOOSE l \in Found(total) : \A m \in Found(total) : Rank(l) <= Rank(m)

Worst(total) ==
    IF Found(total) = {} THEN NoLimit
    ELSE CHOOSE l \in Found(total) : \A m \in Found(total) \ {l} :
           MoreSevere(total, l, m) \/ (Rank(l) < Rank(m) /\ ~MoreSevere(total, m, l))

\* The daily counter is reset by the first line of a new day.
SpentToday(cost) == (IF Today(now) > dayStart THEN 0 ELSE dailyCost) + cost

RecordCost ==
    /\ proc.pc = "record"
    /\ LET s      == proc.session
           hourly == Trim(Append(hourlyCosts, [time |-> now, cost |-> proc.cost]))
           spent  == SpentToday(proc.cost)
           total  == [l \in LimitName |->
                        CASE l = "per_session" -> sessionCosts[s] + proc.cost
                          [] l = "per_hour"    -> TotalOf(hourly)
                          [] l = "per_day"     -> spent]
           worst  == Worst(total)
       IN  /\ sessionCosts' = [sessionCosts EXCEPT ![s] = @ + proc.cost]
           /\ hourlyCosts' = hourly
           /\ dailyCost' = spent
           /\ dayStart' = IF Today(now) > dayStart THEN Today(now) ELSE dayStart
           /\ proc' = [proc EXCEPT !.pc = "budget", !.worst = worst,
                         !.exceeded = worst # NoLimit /\ Reached(total, worst)]
           /\ charges' = charges \cup {[id |-> Cardinality(charges), time |-> now,
                                        session |-> s, cost |-> proc.cost]}
    /\ UNCHANGED <<now, sessions, limits, warned, reload, reloads, told>>

----------------------------------------------------------------------------
(* Analyzer.Process.                                                       *)

\* Mutant: every line makes a new sessionState.
ProcessLine_NewState(s, c) ==
    /\ proc.pc = "idle" /\ Cardinality(charges) < MaxCharges
    /\ sessions' = [sessions EXCEPT ![s] = c]
    /\ proc' = [Idle EXCEPT !.pc = "record", !.session = s, !.cost = c]
    /\ UNCHANGED <<now, enforcer, warned, reload, reloads, history>>

ProcessLine(s, c) ==
    /\ proc.pc = "idle" /\ Cardinality(charges) < MaxCharges
    /\ sessions' = [sessions EXCEPT ![s] = @ + c]
    /\ proc' = [Idle EXCEPT !.pc = "record", !.session = s, !.cost = c]
    /\ UNCHANGED <<now, enforcer, warned, reload, reloads, history>>

Pass == proc' = [proc EXCEPT !.pc = "spin"] /\ UNCHANGED told
Pause == /\ proc' = [proc EXCEPT !.pc = "spin", !.alerts = {<<"pause", "budget_exceeded">>}]
         /\ UNCHANGED told
Warn(key) == /\ proc' = [proc EXCEPT !.pc = "spin", !.alerts = {<<"warn", "budget_warning">>}]
             /\ told' = told \cup {key}

NothingToReport ==
    /\ proc.pc = "budget" /\ proc.worst = NoLimit
    /\ Pass
    /\ UNCHANGED <<now, sessions, enforcer, warned, reload, reloads, charges>>

\* Mutant: an exceeded limit is reported once, like a warning.
BudgetExceeded_Once ==
    /\ proc.pc = "budget" /\ proc.worst # NoLimit /\ proc.exceeded
    /\ LET key == <<proc.session, proc.worst>>
       IN  /\ IF key \in warned THEN Pass ELSE Pause
           /\ warned' = warned \cup {key}
    /\ UNCHANGED <<now, sessions, enforcer, reload, reloads, charges>>

BudgetExceeded ==
    /\ proc.pc = "budget" /\ proc.worst # NoLimit /\ proc.exceeded
    /\ Pause
    /\ UNCHANGED <<now, sessions, enforcer, warned, reload, reloads, charges>>

\* Mutant: the key of a warning is the limit alone.
BudgetWarning_AnySession ==
    /\ proc.pc = "budget" /\ proc.worst # NoLimit /\ ~proc.exceeded
    /\ IF \E s \in Session : <<s, proc.worst>> \in warned
       THEN Pass ELSE Warn(<<proc.session, proc.worst>>)
    /\ warned' = warned \cup {<<proc.session, proc.worst>>}
    /\ UNCHANGED <<now, sessions, enforcer, reload, reloads, charges>>

\* A session is warned once of each limit, until the configuration is reloaded.
BudgetWarning ==
    /\ proc.pc = "budget" /\ proc.worst # NoLimit /\ ~proc.exceeded
    /\ LET key == <<proc.session, proc.worst>>
       IN  /\ IF key \in warned THEN Pass ELSE Warn(key)
           /\ warned' = warned \cup {key}
    /\ UNCHANGED <<now, sessions, enforcer, reload, reloads, charges>>

\* The spin detectors of the session, whatever they say.
SpinCheck(spinning) ==
    /\ proc.pc = "spin"
    /\ proc' = [proc EXCEPT !.pc = "done", !.alerts =
                  IF spinning THEN @ \cup {<<"pause", "spin_detected">>} ELSE @]
    /\ UNCHANGED <<now, sessions, enforcer, warned, reload, reloads, history>>

ProcessReturn ==
    /\ proc.pc = "done" /\ proc' = Idle
    /\ UNCHANGED <<now, sessions, enforcer, warned, reload, reloads, history>>

----------------------------------------------------------------------------
(* UpdateBudget, called by reloadConfig in a timer's goroutine.            *)

UpdateLimits(new) ==
    /\ reload = "no" /\ reloads < MaxReloads
    /\ limits' = new /\ reload' = "limits" /\ reloads' = reloads + 1
    /\ UNCHANGED <<now, sessions, sessionCosts, hourlyCosts, dailyCost, dayStart,
                   warned, proc, history>>

ForgetWarnings ==
    /\ reload = "limits" /\ reload' = "no"
    /\ warned' = {}
    /\ UNCHANGED <<now, sessions, enforcer, proc, reloads, history>>

Tick ==
    /\ now < MaxTime /\ now' = now + 1
    /\ UNCHANGED <<sessions, enforcer, warned, proc, reload, reloads, history>>

----------------------------------------------------------------------------
Init ==
    /\ now = 0 /\ dayStart = 0
    /\ sessions = [s \in Session |-> 0] /\ sessionCosts = [s \in Session |-> 0]
    /\ limits \in Limits
    /\ hourlyCosts = <<>> /\ dailyCost = 0
    /\ warned = {} /\ proc = Idle /\ reload = "no" /\ reloads = 0
    /\ charges = {} /\ told = {}

Next ==
    \/ \E s \in Session, c \in Cost : ProcessLine(s, c)
    \/ RecordCost \/ NothingToReport \/ BudgetExceeded \/ BudgetWarning
    \/ \E spinning \in BOOLEAN : SpinCheck(spinning)
    \/ ProcessReturn
    \/ \E new \in Limits : UpdateLimits(new)
    \/ ForgetWarnings \/ Tick

Spec == Init /\ [][Next]_vars

----------------------------------------------------------------------------
(* Properties.                                                             *)

Spent(S) == MapThenSumSet(LAMBDA c : c.cost, S)

\* What the limits are about, from the whole history of charges: a session's
\* costs, those of the last hour, those of the calendar day.
Due(l, s, t) ==
    CASE l = "per_session" -> Spent({c \in charges : c.session = s})
      [] l = "per_hour"    -> Spent({c \in charges : c.time >= t - Hour})
      [] l = "per_day"     -> Spent({c \in charges : Today(c.time) = Today(t)})

\* The two running totals of a session, one in the analyzer and one in the
\* enforcer, agree with each other and with the history whenever no line is
\* between them, whatever was reloaded.
TotalsAgree ==
    \A s \in Session :
      /\ sessionCosts[s] = Due("per_session", s, now)
      /\ proc.pc = "idle" => sessions[s] = sessionCosts[s]

\* RecordCost reports an exceeded limit if and only if the history of charges
\* reaches one of the limits in force, across trimming, midnight and reloads: no
\* warning hides an overspent limit.
OverspendIsSeen ==
    [][ proc.pc = "record" /\ proc'.pc = "budget" =>
          (proc'.exceeded <=>
             \E l \in LimitName : limits[l] > 0 /\ Due(l, proc.session, now)' >= limits[l])
      ]_vars

\* Every line that is charged to a limit which the history of charges reaches has
\* raised a pause alert when it is done, not only the first such line: the session
\* may have been resumed in the meantime.  (A reload may raise the limit.)
OverspendPauses ==
    proc.pc \in {"spin", "done"} /\ reloads = 0
    /\ (\E l \in LimitName : limits[l] > 0 /\ Due(l, proc.session, now) >= limits[l])
      => <<"pause", "budget_exceeded">> \in proc.alerts

\* What suppresses the next warning of a limit is a warning of it that this very
\* session has had, in the order of its own lines.
WarnedMeansTold == warned \subseteq told
=============================================================================

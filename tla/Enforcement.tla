----------------------------- MODULE Enforcement -----------------------------
(***************************************************************************)
(* The circuit breaker of LoopGuard: how alerts become stopped agents, and *)
(* how stopped agents are resumed, killed or given up for dead.  Five      *)
(* kinds of goroutine share the session registry, the map of paused        *)
(* sessions, the sentinel files and the agents' processes:                 *)
(*   - the event loop (daemon.go processEvents), which registers sessions  *)
(*     it has never seen and emits alerts,                                 *)
(*   - the alert handler (handleAlerts / executeAlert),                    *)
(*   - the API's request goroutines (ResumeSession, KillSession),          *)
(*   - the rediscovery loop (discoverSessions every 60 s),                 *)
(*   - the reaper (checkPausedSessions every 15 s).                        *)
(* A step of the model is the code between two accesses to shared state:   *)
(* the registry and the paused map have a lock each, and no operation      *)
(* holds both.                                                             *)
(***************************************************************************)
EXTENDS Integers, Sequences, FiniteSets

CONSTANTS
    Session,           \* session IDs; each names one agent and its log file
    Client,            \* API requests that may be in progress at one time
    Dir,               \* directories a sentinel file may be written to
    FoundDir,          \* the ProjectDir a discoverer gives a session
    AutoDir,           \* the ProjectDir inferSessionInfo gives a session
    Writable,          \* the directories where os.WriteFile succeeds
    SentinelFallback,  \* enforcement.sentinel_fallback
    AlertCap,          \* bound: capacity of the alerts channel (64 in the code)
    MaxInc,            \* bound: processes one session's agent may go through
    Environment,       \* what the agents, users and the machine may do
    NoSession, NoDir   \* the fields of a goroutine that holds no session

\* late_start: agents start while the daemon runs.   agent_exit: agents end.
\* pid_missed: pgrep and lsof may miss a live agent. daemon_stop: it stops.
\* external_cont: a user sends SIGCONT by hand.  resume, kill: API requests.
EnvironmentEvent ==
    {"late_start", "agent_exit", "pid_missed", "daemon_stop",
     "external_cont", "resume", "kill"}

Handler == "alert handler"
Reaper  == "reaper"
Thread  == Client \cup {Handler, Reaper}

ASSUME EnforcementAssumption ==
    /\ FoundDir \in [Session -> Dir] /\ AutoDir \in [Session -> Dir]
    /\ Writable \subseteq Dir /\ SentinelFallback \in BOOLEAN
    /\ AlertCap \in Nat \ {0} /\ MaxInc \in Nat \ {0}
    /\ Environment \subseteq EnvironmentEvent
    /\ NoSession \notin Session /\ NoDir \notin Dir
    /\ Handler \notin Client /\ Reaper \notin Client

VARIABLES
    up,          \* the daemon runs
    session,     \* Registry.sessions
    paused,      \* Daemon.paused
    alerts,      \* the pause alerts queued in Analyzer.alerts
    frame,       \* what each goroutine is doing, with the fields it has read
    reapTodo,    \* pausedIDs still to be visited by checkPausedSessions
    found,       \* the PID Discover saw for a session that is yet to be added
    sentinel,    \* directories that hold a .loopguard-stop file
    lastRecord,  \* the last action history.jsonl has for a session
    proc,        \* the state of each session's current agent process
    inc,         \* how many processes the session has had: the current PID
    term         \* sessions whose process has a SIGTERM it has not acted on

agent == <<proc, inc, term>>
vars  == <<up, session, paused, alerts, frame, reapTodo, found, sentinel,
           lastRecord, agent>>

Pid == 0..MaxInc     \* 0: not known.  PIDs are never reused by another agent
Unscanned == -1
Unknown == [known |-> FALSE, pid |-> 0, dir |-> NoDir,
            active |-> FALSE, terminated |-> FALSE]
Idle == [pc |-> "idle", s |-> NoSession, pid |-> 0, dir |-> NoDir]

HandlerPc == {"check", "pause", "mark", "deactivate", "record"}
ClientPc  == {"resume_check", "resume_signal", "resume_unpause", "resume_activate",
              "kill_signal", "kill_deactivate", "kill_unpause", "kill_record"}
ReaperPc  == {"reap_unpause", "reap_terminate", "reap_sweep", "reap_record"}

Entry == [known: BOOLEAN, pid: Pid, dir: Dir \cup {NoDir},
          active: BOOLEAN, terminated: BOOLEAN]
Frame == [pc: {"idle"} \cup HandlerPc \cup ClientPc \cup ReaperPc,
          s: Session \cup {NoSession}, pid: Pid, dir: Dir \cup {NoDir}]

\* Every variable has its type; in particular a goroutine is in one of its own
\* places, and a PID is 0 or that of a process the agent really had.
TypeOK ==
    /\ up \in BOOLEAN
    /\ session \in [Session -> Entry]
    /\ paused \subseteq Session
    /\ alerts \in Seq(Session)
    /\ frame \in [Thread -> Frame]
    /\ reapTodo \subseteq Session
    /\ found \in [Session -> Pid \cup {Unscanned}]
    /\ sentinel \subseteq Dir
    /\ lastRecord \in [Session -> {"none", "paused", "killed", "terminated"}]
    /\ proc \in [Session -> {"dead", "running", "stopped"}]
    /\ inc \in [Session -> Pid]
    /\ term \subseteq Session

----------------------------------------------------------------------------
(* Helpers: goroutines, processes, registry.  A definition named X_Y is X  *)
(* with the mistake Y in it: a mutant, not part of the specification.      *)

Call(t, pc, s) ==
    frame' = [frame EXCEPT ![t] = [pc |-> pc, s |-> s, pid |-> session[s].pid,
                                   dir |-> session[s].dir]]
Goto(t, pc) == frame' = [frame EXCEPT ![t].pc = pc]
Return(t)   == frame' = [frame EXCEPT ![t] = Idle]

\* validatePID and ProcessAlive: signal 0 reaches the process.
Alive(s, pid) == pid > 0 /\ pid = inc[s] /\ proc[s] # "dead"

\* findSessionPID: 0 when neither pgrep nor lsof shows the agent.
FoundPid(s) ==
    {IF proc[s] = "dead" THEN 0 ELSE inc[s]}
      \cup (IF "pid_missed" \in Environment THEN {0} ELSE {})

\* Mutant: a PID that was not found is not 0, as every use of it expects.
Discovered_PidUnread(s, pid) ==
    [known |-> TRUE, pid |-> IF pid = 0 THEN -1 ELSE pid, dir |-> FoundDir[s],
     active |-> pid > 0, terminated |-> FALSE]

\* The record a discoverer builds, and the one processEvents builds.
Discovered(s, pid) == [known |-> TRUE, pid |-> pid, dir |-> FoundDir[s],
                       active |-> pid > 0, terminated |-> FALSE]
Inferred(s) == [known |-> TRUE, pid |-> 0, dir |-> AutoDir[s],
                active |-> TRUE, terminated |-> FALSE]

----------------------------------------------------------------------------
(* The agents and their users.                                             *)

AgentStart(s) ==
    /\ proc[s] = "dead" /\ inc[s] < MaxInc
    /\ up => "late_start" \in Environment
    /\ proc' = [proc EXCEPT ![s] = "running"]
    /\ inc' = [inc EXCEPT ![s] = @ + 1]
    /\ term' = term \ {s}
    /\ UNCHANGED <<up, session, paused, alerts, frame, reapTodo, found,
                   sentinel, lastRecord>>

AgentDies(s) ==
    /\ "agent_exit" \in Environment /\ proc[s] # "dead"
    /\ proc' = [proc EXCEPT ![s] = "dead"]
    /\ term' = term \ {s}
    /\ UNCHANGED <<up, session, paused, alerts, frame, reapTodo, found,
                   sentinel, lastRecord, inc>>

\* A stopped process keeps a SIGTERM pending until it is continued.
TermDelivered(s) ==
    /\ s \in term /\ proc[s] = "running"
    /\ proc' = [proc EXCEPT ![s] = "dead"]
    /\ term' = term \ {s}
    /\ UNCHANGED <<up, session, paused, alerts, frame, reapTodo, found,
                   sentinel, lastRecord, inc>>

ExternalCont(s) ==
    /\ "external_cont" \in Environment /\ proc[s] = "stopped"
    /\ proc' = [proc EXCEPT ![s] = "running"]
    /\ UNCHANGED <<up, session, paused, alerts, frame, reapTodo, found,
                   sentinel, lastRecord, inc, term>>

----------------------------------------------------------------------------
(* The daemon comes up, discovering what is there, and goes down, losing   *)
(* everything but the sentinel files and the history.                      *)

Start ==
    /\ ~up /\ up' = TRUE
    /\ \E pids \in [Session -> Pid] :
         /\ \A s \in Session : pids[s] \in FoundPid(s)
         /\ session' = [s \in Session |-> IF inc[s] = 0 THEN Unknown
                                          ELSE Discovered(s, pids[s])]
    /\ UNCHANGED <<paused, alerts, frame, reapTodo, found, sentinel,
                   lastRecord, agent>>

Stop ==
    /\ up /\ "daemon_stop" \in Environment
    /\ up' = FALSE
    /\ session' = [s \in Session |-> Unknown]
    /\ paused' = {} /\ alerts' = <<>> /\ reapTodo' = {}
    /\ frame' = [t \in Thread |-> Idle]
    /\ found' = [s \in Session |-> Unscanned]
    /\ UNCHANGED <<sentinel, lastRecord, agent>>

----------------------------------------------------------------------------
(* The event loop: log lines of a session arrive.                          *)

\* Mutant: Add instead of TryAdd, without a look at what is there.
AutoRegister_Overwrites(s) ==
    /\ up /\ inc[s] > 0
    /\ session' = [session EXCEPT ![s] = Inferred(s)]
    /\ UNCHANGED <<up, paused, alerts, frame, reapTodo, found, sentinel,
                   lastRecord, agent>>

\* TryAdd: the event loop found no entry, and adds one if there is still none.
AutoRegister(s) ==
    /\ up /\ inc[s] > 0 /\ ~session[s].known
    /\ session' = [session EXCEPT ![s] = Inferred(s)]
    /\ UNCHANGED <<up, paused, alerts, frame, reapTodo, found, sentinel,
                   lastRecord, agent>>

\* The analyzer trips on a line of the session and emit queues a pause alert;
\* it blocks while the channel is full.
EmitPause(s) ==
    /\ up /\ session[s].known /\ Len(alerts) < AlertCap
    /\ alerts' = Append(alerts, s)
    /\ UNCHANGED <<up, session, paused, frame, reapTodo, found, sentinel,
                   lastRecord, agent>>

----------------------------------------------------------------------------
(* The alert handler: executeAlert for an AlertPause.                      *)

AlertTake ==
    /\ up /\ frame[Handler].pc = "idle" /\ alerts # <<>>
    /\ alerts' = Tail(alerts)
    /\ Call(Handler, "check", Head(alerts))
    /\ UNCHANGED <<up, session, paused, reapTodo, found, sentinel, lastRecord, agent>>

\* Mutant: executeAlert does not ask whether the session is paused already.
AlertCheck_Skipped ==
    /\ frame[Handler].pc = "check"
    /\ Goto(Handler, "pause")
    /\ UNCHANGED <<up, session, paused, alerts, reapTodo, found, sentinel,
                   lastRecord, agent>>

AlertCheck ==
    /\ frame[Handler].pc = "check"
    /\ IF frame[Handler].s \in paused THEN Return(Handler) ELSE Goto(Handler, "pause")
    /\ UNCHANGED <<up, session, paused, alerts, reapTodo, found, sentinel,
                   lastRecord, agent>>

\* Mutant: no sentinel file when the signal cannot be sent.
AlertPause_NoFallback ==
    LET s == frame[Handler].s
        alive == Alive(s, frame[Handler].pid)
    IN  /\ frame[Handler].pc = "pause"
        /\ proc' = IF alive THEN [proc EXCEPT ![s] = "stopped"] ELSE proc
        /\ IF alive THEN Goto(Handler, "mark") ELSE Return(Handler)
        /\ UNCHANGED <<up, session, paused, alerts, reapTodo, found, sentinel,
                       lastRecord, inc, term>>

\* Enforcer.pause: SIGSTOP, else the sentinel file, else give up.
AlertPause ==
    LET s == frame[Handler].s
        dir == frame[Handler].dir
        canWrite == SentinelFallback /\ dir \in Writable
        alive == Alive(s, frame[Handler].pid)
    IN  /\ frame[Handler].pc = "pause"
        /\ proc' = IF alive THEN [proc EXCEPT ![s] = "stopped"] ELSE proc
        /\ sentinel' = IF ~alive /\ canWrite THEN sentinel \cup {dir} ELSE sentinel
        /\ IF alive \/ canWrite THEN Goto(Handler, "mark") ELSE Return(Handler)
        /\ UNCHANGED <<up, session, paused, alerts, reapTodo, found, lastRecord,
                       inc, term>>

AlertMark ==
    /\ frame[Handler].pc = "mark"
    /\ paused' = paused \cup {frame[Handler].s}
    /\ Goto(Handler, "deactivate")
    /\ UNCHANGED <<up, session, alerts, reapTodo, found, sentinel, lastRecord, agent>>

AlertDeactivate ==
    /\ frame[Handler].pc = "deactivate"
    /\ session' = [session EXCEPT ![frame[Handler].s].active = FALSE]
    /\ Goto(Handler, "record")
    /\ UNCHANGED <<up, paused, alerts, reapTodo, found, sentinel, lastRecord, agent>>

AlertRecord ==
    /\ frame[Handler].pc = "record"
    /\ lastRecord' = [lastRecord EXCEPT ![frame[Handler].s] = "paused"]
    /\ Return(Handler)
    /\ UNCHANGED <<up, session, paused, alerts, reapTodo, found, sentinel, agent>>

----------------------------------------------------------------------------
(* API requests.  A request that is refused without touching shared state  *)
(* is a guard of the first step.                                           *)

ResumeGet(c, s) ==
    /\ up /\ "resume" \in Environment /\ frame[c].pc = "idle"
    /\ session[s].known /\ ~session[s].terminated
    /\ Call(c, "resume_check", s)
    /\ UNCHANGED <<up, session, paused, alerts, reapTodo, found, sentinel,
                   lastRecord, agent>>

ResumeCheck(c) ==
    /\ frame[c].pc = "resume_check"
    /\ IF frame[c].s \in paused THEN Goto(c, "resume_signal") ELSE Return(c)
    /\ UNCHANGED <<up, session, paused, alerts, reapTodo, found, sentinel,
                   lastRecord, agent>>

\* Mutant: Resume removes the sentinel file but sends no SIGCONT.
ResumeSignal_SentinelOnly(c) ==
    /\ frame[c].pc = "resume_signal"
    /\ sentinel' = sentinel \ {frame[c].dir}
    /\ Goto(c, "resume_unpause")
    /\ UNCHANGED <<up, session, paused, alerts, reapTodo, found, lastRecord, agent>>

\* Enforcer.Resume: SIGCONT if the PID is valid, and the sentinel goes anyway.
ResumeSignal(c) ==
    LET s == frame[c].s
    IN  /\ frame[c].pc = "resume_signal"
        /\ proc' = IF Alive(s, frame[c].pid) THEN [proc EXCEPT ![s] = "running"] ELSE proc
        /\ sentinel' = sentinel \ {frame[c].dir}
        /\ Goto(c, "resume_unpause")
        /\ UNCHANGED <<up, session, paused, alerts, reapTodo, found, lastRecord,
                       inc, term>>

ResumeUnpause(c) ==
    /\ frame[c].pc = "resume_unpause"
    /\ paused' = paused \ {frame[c].s}
    /\ Goto(c, "resume_activate")
    /\ UNCHANGED <<up, session, alerts, reapTodo, found, sentinel, lastRecord, agent>>

ResumeActivate(c) ==
    /\ frame[c].pc = "resume_activate"
    /\ session' = [session EXCEPT ![frame[c].s].active = TRUE]
    /\ Return(c)
    /\ UNCHANGED <<up, paused, alerts, reapTodo, found, sentinel, lastRecord, agent>>

KillGet(c, s) ==
    /\ up /\ "kill" \in Environment /\ frame[c].pc = "idle"
    /\ session[s].known
    /\ Call(c, "kill_signal", s)
    /\ UNCHANGED <<up, session, paused, alerts, reapTodo, found, sentinel,
                   lastRecord, agent>>

\* Enforcer.kill: SIGTERM; an invalid PID fails the request.
KillSignal(c) ==
    LET s == frame[c].s
        alive == Alive(s, frame[c].pid)
    IN  /\ frame[c].pc = "kill_signal"
        /\ term' = IF alive THEN term \cup {s} ELSE term
        /\ IF alive THEN Goto(c, "kill_deactivate") ELSE Return(c)
        /\ UNCHANGED <<up, session, paused, alerts, reapTodo, found, sentinel,
                       lastRecord, proc, inc>>

\* The goroutine that waits five seconds and then sends SIGKILL.  It ends when
\* the request's context does, and net/http cancels that when the handler
\* returns: it can only fire while the request is still in progress.
KillFollowUp(c) ==
    LET s == frame[c].s
    IN  /\ frame[c].pc \in {"kill_deactivate", "kill_unpause", "kill_record"}
        /\ Alive(s, frame[c].pid)
        /\ proc' = [proc EXCEPT ![s] = "dead"]
        /\ term' = term \ {s}
        /\ UNCHANGED <<up, session, paused, alerts, frame, reapTodo, found,
                       sentinel, lastRecord, inc>>

KillDeactivate(c) ==
    /\ frame[c].pc = "kill_deactivate"
    /\ session' = [session EXCEPT ![frame[c].s].active = FALSE]
    /\ Goto(c, "kill_unpause")
    /\ UNCHANGED <<up, paused, alerts, reapTodo, found, sentinel, lastRecord, agent>>

KillUnpause(c) ==
    /\ frame[c].pc = "kill_unpause"
    /\ paused' = paused \ {frame[c].s}
    /\ Goto(c, "kill_record")
    /\ UNCHANGED <<up, session, alerts, reapTodo, found, sentinel, lastRecord, agent>>

KillRecord(c) ==
    /\ frame[c].pc = "kill_record"
    /\ lastRecord' = [lastRecord EXCEPT ![frame[c].s] = "killed"]
    /\ Return(c)
    /\ UNCHANGED <<up, session, paused, alerts, reapTodo, found, sentinel, agent>>

----------------------------------------------------------------------------
(* The rediscovery loop.  Discover returns records built at some moment    *)
(* before Add overwrites the entries; which sessions it returns depends on *)
(* the age of their files.  One goroutine runs it.                         *)

RediscoverScan(s) ==
    /\ up /\ inc[s] > 0 /\ found[s] = Unscanned
    /\ \E pid \in FoundPid(s) : found' = [found EXCEPT ![s] = pid]
    /\ UNCHANGED <<up, session, paused, alerts, frame, reapTodo, sentinel,
                   lastRecord, agent>>

RediscoverAdd(s) ==
    /\ found[s] # Unscanned
    /\ session' = [session EXCEPT ![s] = Discovered(s, found[s])]
    /\ found' = [found EXCEPT ![s] = Unscanned]
    /\ UNCHANGED <<up, paused, alerts, frame, reapTodo, sentinel, lastRecord, agent>>

----------------------------------------------------------------------------
(* The reaper: checkPausedSessions visits a copy of the paused map.        *)

ReapTick ==
    /\ up /\ frame[Reaper].pc = "idle" /\ reapTodo = {}
    /\ paused # {} /\ reapTodo' = paused
    /\ UNCHANGED <<up, session, paused, alerts, frame, found, sentinel,
                   lastRecord, agent>>

\* Mutant: the reaper does not ask whether the process is alive.
ReapVisit_NoLiveness(s) ==
    /\ frame[Reaper].pc = "idle" /\ s \in reapTodo
    /\ reapTodo' = reapTodo \ {s}
    /\ Call(Reaper, "reap_unpause", s)
    /\ UNCHANGED <<up, session, paused, alerts, found, sentinel, lastRecord, agent>>

\* Mutant: a session with a PID is taken to be alive.
ReapVisit_TrustsPid(s) ==
    /\ frame[Reaper].pc = "idle" /\ s \in reapTodo
    /\ reapTodo' = reapTodo \ {s}
    /\ IF session[s].pid > 0 THEN UNCHANGED frame ELSE Call(Reaper, "reap_unpause", s)
    /\ UNCHANGED <<up, session, paused, alerts, found, sentinel, lastRecord, agent>>

ReapVisit(s) ==
    /\ frame[Reaper].pc = "idle" /\ s \in reapTodo
    /\ reapTodo' = reapTodo \ {s}
    /\ IF Alive(s, session[s].pid) THEN UNCHANGED frame ELSE Call(Reaper, "reap_unpause", s)
    /\ UNCHANGED <<up, session, paused, alerts, found, sentinel, lastRecord, agent>>

ReapUnpause ==
    /\ frame[Reaper].pc = "reap_unpause"
    /\ paused' = paused \ {frame[Reaper].s}
    /\ Goto(Reaper, "reap_terminate")
    /\ UNCHANGED <<up, session, alerts, reapTodo, found, sentinel, lastRecord, agent>>

\* Mutant: a reaped session is removed from the registry.
ReapTerminate_Removes ==
    /\ frame[Reaper].pc = "reap_terminate"
    /\ session' = [session EXCEPT ![frame[Reaper].s] = Unknown]
    /\ Goto(Reaper, "reap_sweep")
    /\ UNCHANGED <<up, paused, alerts, reapTodo, found, sentinel, lastRecord, agent>>

ReapTerminate ==
    /\ frame[Reaper].pc = "reap_terminate"
    /\ session' = [session EXCEPT ![frame[Reaper].s].active = FALSE,
                                  ![frame[Reaper].s].terminated = TRUE]
    /\ Goto(Reaper, "reap_sweep")
    /\ UNCHANGED <<up, paused, alerts, reapTodo, found, sentinel, lastRecord, agent>>

\* Mutant: the sentinel file of a reaped session is left.
ReapSweep_Forgets ==
    /\ frame[Reaper].pc = "reap_sweep"
    /\ Goto(Reaper, "reap_record")
    /\ UNCHANGED <<up, session, paused, alerts, reapTodo, found, sentinel,
                   lastRecord, agent>>

ReapSweep ==
    /\ frame[Reaper].pc = "reap_sweep"
    /\ sentinel' = sentinel \ {frame[Reaper].dir}
    /\ Goto(Reaper, "reap_record")
    /\ UNCHANGED <<up, session, paused, alerts, reapTodo, found, lastRecord, agent>>

ReapRecord ==
    /\ frame[Reaper].pc = "reap_record"
    /\ lastRecord' = [lastRecord EXCEPT ![frame[Reaper].s] = "terminated"]
    /\ Return(Reaper)
    /\ UNCHANGED <<up, session, paused, alerts, reapTodo, found, sentinel, agent>>

----------------------------------------------------------------------------
Init ==
    /\ up = FALSE
    /\ session = [s \in Session |-> Unknown]
    /\ paused = {} /\ alerts = <<>> /\ reapTodo = {} /\ sentinel = {} /\ term = {}
    /\ frame = [t \in Thread |-> Idle]
    /\ found = [s \in Session |-> Unscanned]
    /\ lastRecord = [s \in Session |-> "none"]
    /\ proc = [s \in Session |-> "dead"]
    /\ inc = [s \in Session |-> 0]

AgentStep(s) == AgentStart(s) \/ AgentDies(s) \/ TermDelivered(s) \/ ExternalCont(s)
EventStep(s) == AutoRegister(s) \/ EmitPause(s)
HandlerStep  == \/ AlertTake \/ AlertCheck \/ AlertPause
                \/ AlertMark \/ AlertDeactivate \/ AlertRecord
Request(c)   == \E s \in Session : ResumeGet(c, s) \/ KillGet(c, s)
RequestStep(c) == \/ ResumeCheck(c) \/ ResumeSignal(c) \/ ResumeUnpause(c)
                  \/ ResumeActivate(c)
                  \/ KillSignal(c) \/ KillDeactivate(c) \/ KillUnpause(c) \/ KillRecord(c)
RediscoverStep(s) == RediscoverScan(s) \/ RediscoverAdd(s)
ReaperStep   == \/ ReapTick \/ (\E s \in Session : ReapVisit(s))
                \/ ReapUnpause \/ ReapTerminate \/ ReapSweep \/ ReapRecord

Next ==
    \/ Start \/ Stop
    \/ \E s \in Session : AgentStep(s) \/ EventStep(s) \/ RediscoverStep(s)
    \/ \E c \in Client : Request(c) \/ RequestStep(c) \/ KillFollowUp(c)
    \/ HandlerStep
    \/ ReaperStep

\* Every goroutine that has something to do is scheduled, the tickers fire, and
\* a running process acts on SIGTERM.  Nothing is assumed of agents or users.
Fairness ==
    /\ WF_vars(HandlerStep) /\ WF_vars(ReaperStep)
    /\ \A c \in Client : WF_vars(RequestStep(c)) /\ WF_vars(KillFollowUp(c))
    /\ \A s \in Session : WF_vars(RediscoverAdd(s)) /\ WF_vars(TermDelivered(s))

Spec == Init /\ [][Next]_vars /\ Fairness

----------------------------------------------------------------------------
(* Properties.                                                             *)

\* The thread has read the entry of s and is not done with it.
Busy(t, s) == frame[t].s = s

\* executeAlert's "already paused" check still holds when it stops the agent
\* and when it writes the paused map: requests and the reaper only take
\* sessions out of that map.
PausesOnlyUnpaused ==
    frame[Handler].pc \in {"pause", "mark"} => frame[Handler].s \notin paused

\* Every session in the paused map has a registry entry, so the reaper never
\* meets one without (daemon.go:592) and a resume never answers "not found".
PausedIsKnown == \A s \in paused : session[s].known

\* An agent LoopGuard froze is one it knows to be frozen: it is in the paused
\* map, from which alone a resume can thaw it, or executeAlert is about to put
\* it there.  (A SIGTERM a stopped agent has not seen is the business of kill.)
StoppedIsHeld ==
    \A s \in Session :
      up /\ proc[s] = "stopped" /\ s \notin term =>
        s \in paused \/ (Busy(Handler, s) /\ frame[Handler].pc = "mark")

\* A sentinel file is never left behind: it belongs to a paused session, or
\* the handler or the reaper is still at work on a session of that directory.
SentinelIsOwned ==
    \A d \in sentinel :
      up => \/ \E s \in paused : session[s].dir = d
            \/ frame[Handler].pc = "mark" /\ frame[Handler].dir = d
            \/ frame[Reaper].pc \in ReaperPc \ {"reap_record"} /\ frame[Reaper].dir = d

\* The reaper gives up only sessions whose process no longer exists.
OnlyDeadAreReaped ==
    [][\A s \in Session :
         ~session[s].terminated /\ session'[s].terminated => proc[s] = "dead"]_vars

\* While its process lives, the PID the registry has for a session is not
\* replaced, neither by a rediscovery nor by an auto-registration: it is what
\* SIGSTOP, SIGCONT and the reaper's liveness check go by.
LivePidIsKept ==
    [][\A s \in Session :
         up /\ up' /\ session[s].known /\ Alive(s, session[s].pid) =>
           session'[s].pid = session[s].pid]_vars

\* A queued pause alert gets its session into the paused map.
AlertTakesEffect ==
    \A s \in Session : (\E i \in DOMAIN alerts : alerts[i] = s) ~> s \in paused

\* A paused session whose agent is gone is reported as terminated, unless a
\* resume request takes it out of the paused map first.
DeadPausedIsReported ==
    \A s \in Session :
      s \in paused /\ proc[s] = "dead"
        ~> \/ lastRecord[s] = "terminated"
           \/ \E c \in Client : Busy(c, s) /\ frame[c].pc = "resume_activate"

\* A session that is killed through the API ends.
KillEnds ==
    \A s \in Session :
      (\E c \in Client : frame[c].pc = "kill_deactivate" /\ frame[c].s = s)
        ~> proc[s] = "dead"
=============================================================================

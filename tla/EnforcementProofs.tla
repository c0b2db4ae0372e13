------------------------- MODULE EnforcementProofs -------------------------
(***************************************************************************)
(* What holds of the circuit breaker for any number of sessions, clients,  *)
(* directories and queued alerts.                                          *)
(*                                                                         *)
(* PausedIsKnown and PausesOnlyUnpaused are not inductive by themselves: a *)
(* goroutine acts on a session it looked up some steps ago, so IndInv also *)
(* says that every session a goroutine, the alert queue or the reaper's    *)
(* list refers to is in the registry, and that nothing of this survives a  *)
(* stop of the daemon.                                                     *)
(*                                                                         *)
(* What LoopGuard has done to processes and directories is more than its   *)
(* own data: OrderlyInv says what the reaper knows of a process it has     *)
(* found dead, HoldInv who will put a stopped agent into the paused map    *)
(* and who may still take it out, DirInv which goroutine answers for a     *)
(* sentinel file.  Each holds under assumptions on the agents, the users   *)
(* and the requests that its theorem names.                                *)
(***************************************************************************)
EXTENDS Enforcement, SequenceTheorems, TLAPS

\* The places a goroutine's code has.
OwnPc(t) == IF t = Handler THEN HandlerPc ELSE IF t = Reaper THEN ReaperPc ELSE ClientPc
AnyPc == HandlerPc \cup ClientPc \cup ReaperPc

\* A goroutine at work is in its own code, on a session the registry knows.
FramesOK ==
    \A t \in Thread : frame[t].pc # "idle" =>
      frame[t].pc \in OwnPc(t) /\ frame[t].s \in Session /\ session[frame[t].s].known

\* A daemon that is down has no paused map, no queue and no goroutine at work.
DownIsEmpty ==
    ~up => /\ paused = {} /\ alerts = <<>> /\ reapTodo = {}
           /\ \A t \in Thread : frame[t].pc = "idle"
           /\ \A s \in Session : found[s] = Unscanned

\* Sessions with a queued alert, and those the reaper has yet to visit, are known.
QueuedIsKnown == \A i \in DOMAIN alerts : session[alerts[i]].known
TodoIsKnown == \A s \in reapTodo : session[s].known

\* The inductive invariant.
IndInv ==
    /\ TypeOK /\ FramesOK /\ DownIsEmpty
    /\ PausedIsKnown /\ QueuedIsKnown /\ TodoIsKnown /\ PausesOnlyUnpaused

\* Goto moves one goroutine and no other.
LEMMA GotoFrame ==
  ASSUME frame \in [Thread -> Frame], NEW t \in Thread, NEW pc \in AnyPc, Goto(t, pc)
  PROVE /\ frame' \in [Thread -> Frame]
        /\ frame'[t].pc = pc /\ frame'[t].s = frame[t].s /\ frame'[t].dir = frame[t].dir
        /\ \A u \in Thread \ {t} : frame'[u] = frame[u]
  BY DEF Goto, Frame, AnyPc

\* Call starts a goroutine on a session and touches no other.
LEMMA CallFrame ==
  ASSUME frame \in [Thread -> Frame], session \in [Session -> Entry],
         NEW t \in Thread, NEW s \in Session, NEW pc \in AnyPc, Call(t, pc, s)
  PROVE /\ frame' \in [Thread -> Frame]
        /\ frame'[t].pc = pc /\ frame'[t].s = s
        /\ \A u \in Thread \ {t} : frame'[u] = frame[u]
  BY DEF Call, Frame, Entry, AnyPc

\* Return makes a goroutine idle and touches no other.
LEMMA ReturnFrame ==
  ASSUME frame \in [Thread -> Frame], NEW t \in Thread, Return(t)
  PROVE /\ frame' \in [Thread -> Frame]
        /\ frame'[t].pc = "idle"
        /\ \A u \in Thread \ {t} : frame'[u] = frame[u]
  BY EnforcementAssumption DEF Return, Frame, Idle, Pid

\* Update of Active (daemon.go) keeps every session known.
LEMMA EntryActive ==
  ASSUME session \in [Session -> Entry], NEW s \in Session, NEW b \in BOOLEAN,
         session' = [session EXCEPT ![s].active = b]
  PROVE /\ session' \in [Session -> Entry]
        /\ \A x \in Session : session[x].known <=> session'[x].known
  BY DEF Entry

\* So does the update with which the reaper terminates a session.
LEMMA EntryTerminated ==
  ASSUME session \in [Session -> Entry], NEW s \in Session,
         session' = [session EXCEPT ![s].active = FALSE, ![s].terminated = TRUE]
  PROVE /\ session' \in [Session -> Entry]
        /\ \A x \in Session : session[x].known <=> session'[x].known
  BY DEF Entry

\* Every step of every goroutine, agent and user keeps the invariant.
LEMMA StepKeepsIndInv == IndInv /\ [Next]_vars => IndInv'
<1> SUFFICES ASSUME IndInv, [Next]_vars PROVE IndInv'
  OBVIOUS
<1> USE EnforcementAssumption DEF IndInv, agent
<1>1. ASSUME NEW s \in Session, AgentStart(s) PROVE IndInv'
  <2>1. TypeOK' /\ FramesOK'
    BY <1>1 DEF AgentStart, TypeOK, FramesOK, Pid
  <2>2. QED
    BY <1>1, <2>1 DEF AgentStart, TypeOK, DownIsEmpty, PausedIsKnown, QueuedIsKnown, TodoIsKnown, PausesOnlyUnpaused
<1>2. ASSUME NEW s \in Session, AgentDies(s) PROVE IndInv'
  <2>1. TypeOK' /\ FramesOK'
    BY <1>2 DEF AgentDies, TypeOK, FramesOK
  <2>2. QED
    BY <1>2, <2>1 DEF AgentDies, TypeOK, DownIsEmpty, PausedIsKnown, QueuedIsKnown, TodoIsKnown, PausesOnlyUnpaused
<1>3. ASSUME NEW s \in Session, TermDelivered(s) PROVE IndInv'
  <2>1. TypeOK' /\ FramesOK'
    BY <1>3 DEF TermDelivered, TypeOK, FramesOK
  <2>2. QED
    BY <1>3, <2>1 DEF TermDelivered, TypeOK, DownIsEmpty, PausedIsKnown, QueuedIsKnown, TodoIsKnown, PausesOnlyUnpaused
<1>4. ASSUME NEW s \in Session, ExternalCont(s) PROVE IndInv'
  <2>1. TypeOK' /\ FramesOK'
    BY <1>4 DEF ExternalCont, TypeOK, FramesOK
  <2>2. QED
    BY <1>4, <2>1 DEF ExternalCont, TypeOK, DownIsEmpty, PausedIsKnown, QueuedIsKnown, TodoIsKnown, PausesOnlyUnpaused
<1>5. ASSUME NEW s \in Session, EmitPause(s) PROVE IndInv'
  <2>1. TypeOK' /\ FramesOK'
    BY <1>5 DEF EmitPause, TypeOK, FramesOK
  <2>2. QED
    BY <1>5, <2>1 DEF EmitPause, TypeOK, DownIsEmpty, PausedIsKnown, QueuedIsKnown, TodoIsKnown, PausesOnlyUnpaused
<1>6. ASSUME NEW s \in Session, RediscoverScan(s) PROVE IndInv'
  <2>1. TypeOK' /\ FramesOK'
    BY <1>6 DEF RediscoverScan, TypeOK, FramesOK, FoundPid, Pid
  <2>2. QED
    BY <1>6, <2>1 DEF RediscoverScan, TypeOK, DownIsEmpty, PausedIsKnown, QueuedIsKnown, TodoIsKnown, PausesOnlyUnpaused
<1>7. ASSUME NEW s \in Session, AutoRegister(s) PROVE IndInv'
  <2>1. /\ session' \in [Session -> Entry]
        /\ \A x \in Session : session[x].known => session'[x].known
    BY <1>7 DEF AutoRegister, Inferred, TypeOK, Entry, Pid
  <2>2. TypeOK' /\ FramesOK'
    BY <1>7, <2>1 DEF AutoRegister, TypeOK, FramesOK
  <2>3. QED
    BY <1>7, <2>1, <2>2 DEF AutoRegister, TypeOK, DownIsEmpty, PausedIsKnown, QueuedIsKnown, TodoIsKnown, PausesOnlyUnpaused
<1>8. ASSUME NEW s \in Session, RediscoverAdd(s) PROVE IndInv'
  <2>1. /\ session' \in [Session -> Entry]
        /\ \A x \in Session : session[x].known => session'[x].known
    BY <1>8 DEF RediscoverAdd, Discovered, TypeOK, Entry, Pid, Unscanned
  <2>2. TypeOK' /\ FramesOK'
    BY <1>8, <2>1 DEF RediscoverAdd, TypeOK, FramesOK
  <2>3. QED
    BY <1>8, <2>1, <2>2 DEF RediscoverAdd, TypeOK, DownIsEmpty, PausedIsKnown, QueuedIsKnown, TodoIsKnown, PausesOnlyUnpaused
<1>9. ASSUME ReapTick PROVE IndInv'
  <2>1. TypeOK' /\ FramesOK'
    BY <1>9 DEF ReapTick, TypeOK, FramesOK
  <2>2. QED
    BY <1>9, <2>1 DEF ReapTick, TypeOK, DownIsEmpty, PausedIsKnown, QueuedIsKnown, TodoIsKnown, PausesOnlyUnpaused
<1>10. ASSUME Start PROVE IndInv'
  <2>1. session' \in [Session -> Entry]
    BY <1>10 DEF Start, Discovered, Unknown, Entry, Pid
  <2>2. TypeOK' /\ FramesOK'
    BY <1>10, <2>1 DEF Start, TypeOK, FramesOK, DownIsEmpty
  <2>3. QED
    BY <1>10, <2>1, <2>2 DEF Start, TypeOK, DownIsEmpty, PausedIsKnown, QueuedIsKnown, TodoIsKnown, PausesOnlyUnpaused
<1>11. ASSUME Stop PROVE IndInv'
  <2>1. session' \in [Session -> Entry] /\ frame' \in [Thread -> Frame]
    BY <1>11 DEF Stop, Unknown, Idle, Entry, Frame, Pid
  <2>2. \A t \in Thread : frame'[t].pc = "idle"
    BY <1>11 DEF Stop, Idle
  <2>3. TypeOK' /\ FramesOK'
    <3>1. TypeOK'
      <4>1. found' \in [Session -> Pid \cup {Unscanned}]
        BY <1>11 DEF Stop
      <4>2. /\ sentinel' \subseteq Dir /\ term' \subseteq Session
            /\ lastRecord' \in [Session -> {"none", "paused", "killed", "terminated"}]
            /\ proc' \in [Session -> {"dead", "running", "stopped"}]
            /\ inc' \in [Session -> Pid]
        BY <1>11 DEF Stop, TypeOK
      <4>3. up' \in BOOLEAN /\ paused' \subseteq Session /\ reapTodo' \subseteq Session
        BY <1>11 DEF Stop
      <4>4. alerts' \in Seq(Session)
        BY <1>11, EmptySeq DEF Stop
      <4>5. QED
        BY <2>1, <4>1, <4>2, <4>3, <4>4 DEF TypeOK
    <3>2. FramesOK'
      BY <2>2 DEF FramesOK
    <3>3. QED
      BY <3>1, <3>2
  <2>4. QED
    BY <1>11, <2>1, <2>2, <2>3 DEF Stop, TypeOK, Thread, DownIsEmpty, PausedIsKnown, QueuedIsKnown, TodoIsKnown, PausesOnlyUnpaused
<1>12. ASSUME NEW c \in Client, NEW s \in Session, ResumeGet(c, s) PROVE IndInv'
  <2>0. c \in Thread /\ c # Handler /\ c # Reaper
    BY DEF Thread
  <2>1. session[s].known /\ up
    BY <1>12 DEF ResumeGet
  <2>2. /\ frame' \in [Thread -> Frame]
        /\ frame'[c].pc = "resume_check" /\ frame'[c].s = s
        /\ \A u \in Thread \ {c} : frame'[u] = frame[u]
    BY <1>12, <2>0, <2>1, CallFrame DEF ResumeGet, TypeOK, AnyPc, ClientPc
  <2>4. TypeOK'
    BY <1>12, <2>1, <2>2 DEF ResumeGet, TypeOK, agent
  <2>5. FramesOK'
    BY <1>12, <2>0, <2>1, <2>2 DEF ResumeGet, TypeOK, FramesOK, OwnPc, ClientPc
  <2>6. QED
    BY <1>12, <2>0, <2>1, <2>2, <2>4, <2>5 DEF ResumeGet, TypeOK, Thread, DownIsEmpty, PausedIsKnown, QueuedIsKnown, TodoIsKnown, PausesOnlyUnpaused
<1>13. ASSUME NEW c \in Client, ResumeCheck(c) PROVE IndInv'
  <2>0. c \in Thread /\ c # Handler /\ c # Reaper
    BY DEF Thread
  <2>1. frame[c].s \in Session /\ session[frame[c].s].known /\ up /\ frame[c].pc # "idle"
    BY <1>13, <2>0 DEF ResumeCheck, FramesOK, DownIsEmpty
  <2>2. /\ frame' \in [Thread -> Frame]
        /\ \/ frame'[c].pc = "idle"
           \/ frame'[c].pc = "resume_signal" /\ frame'[c].s = frame[c].s
        /\ \A u \in Thread \ {c} : frame'[u] = frame[u]
    BY <1>13, <2>0, <2>1, GotoFrame, ReturnFrame DEF ResumeCheck, TypeOK, AnyPc, ClientPc
  <2>4. TypeOK'
    BY <1>13, <2>1, <2>2 DEF ResumeCheck, TypeOK, agent
  <2>5. FramesOK'
    BY <1>13, <2>0, <2>1, <2>2 DEF ResumeCheck, TypeOK, FramesOK, OwnPc, ClientPc
  <2>6. QED
    BY <1>13, <2>0, <2>1, <2>2, <2>4, <2>5 DEF ResumeCheck, TypeOK, Thread, DownIsEmpty, PausedIsKnown, QueuedIsKnown, TodoIsKnown, PausesOnlyUnpaused
<1>14. ASSUME NEW c \in Client, ResumeSignal(c) PROVE IndInv'
  <2>0. c \in Thread /\ c # Handler /\ c # Reaper
    BY DEF Thread
  <2>1. frame[c].s \in Session /\ session[frame[c].s].known /\ up /\ frame[c].pc # "idle"
    BY <1>14, <2>0 DEF ResumeSignal, FramesOK, DownIsEmpty
  <2>2. /\ frame' \in [Thread -> Frame]
        /\ frame'[c].pc = "resume_unpause" /\ frame'[c].s = frame[c].s
        /\ \A u \in Thread \ {c} : frame'[u] = frame[u]
    BY <1>14, <2>0, <2>1, GotoFrame DEF ResumeSignal, TypeOK, AnyPc, ClientPc
  <2>4. TypeOK'
    BY <1>14, <2>1, <2>2 DEF ResumeSignal, TypeOK, agent
  <2>5. FramesOK'
    BY <1>14, <2>0, <2>1, <2>2 DEF ResumeSignal, TypeOK, FramesOK, OwnPc, ClientPc
  <2>6. QED
    BY <1>14, <2>0, <2>1, <2>2, <2>4, <2>5 DEF ResumeSignal, TypeOK, Thread, DownIsEmpty, PausedIsKnown, QueuedIsKnown, TodoIsKnown, PausesOnlyUnpaused
<1>15. ASSUME NEW c \in Client, ResumeUnpause(c) PROVE IndInv'
  <2>0. c \in Thread /\ c # Handler /\ c # Reaper
    BY DEF Thread
  <2>1. frame[c].s \in Session /\ session[frame[c].s].known /\ up /\ frame[c].pc # "idle"
    BY <1>15, <2>0 DEF ResumeUnpause, FramesOK, DownIsEmpty
  <2>2. /\ frame' \in [Thread -> Frame]
        /\ frame'[c].pc = "resume_activate" /\ frame'[c].s = frame[c].s
        /\ \A u \in Thread \ {c} : frame'[u] = frame[u]
    BY <1>15, <2>0, <2>1, GotoFrame DEF ResumeUnpause, TypeOK, AnyPc, ClientPc
  <2>4. TypeOK'
    BY <1>15, <2>1, <2>2 DEF ResumeUnpause, TypeOK, agent
  <2>5. FramesOK'
    BY <1>15, <2>0, <2>1, <2>2 DEF ResumeUnpause, TypeOK, FramesOK, OwnPc, ClientPc
  <2>6. QED
    BY <1>15, <2>0, <2>1, <2>2, <2>4, <2>5 DEF ResumeUnpause, TypeOK, Thread, DownIsEmpty, PausedIsKnown, QueuedIsKnown, TodoIsKnown, PausesOnlyUnpaused
<1>16. ASSUME NEW c \in Client, ResumeActivate(c) PROVE IndInv'
  <2>0. c \in Thread /\ c # Handler /\ c # Reaper
    BY DEF Thread
  <2>1. frame[c].s \in Session /\ session[frame[c].s].known /\ up /\ frame[c].pc # "idle"
    BY <1>16, <2>0 DEF ResumeActivate, FramesOK, DownIsEmpty
  <2>2. /\ frame' \in [Thread -> Frame]
        /\ frame'[c].pc = "idle"
        /\ \A u \in Thread \ {c} : frame'[u] = frame[u]
    BY <1>16, <2>0, <2>1, ReturnFrame DEF ResumeActivate, TypeOK
  <2>3. /\ session' \in [Session -> Entry]
        /\ \A x \in Session : session[x].known <=> session'[x].known
    BY <1>16, <2>1, EntryActive DEF ResumeActivate, TypeOK
  <2>4. TypeOK'
    BY <1>16, <2>1, <2>2, <2>3 DEF ResumeActivate, TypeOK, agent
  <2>5. FramesOK'
    BY <1>16, <2>0, <2>1, <2>2, <2>3 DEF ResumeActivate, TypeOK, FramesOK, OwnPc, ClientPc
  <2>6. QED
    BY <1>16, <2>0, <2>1, <2>2, <2>4, <2>5, <2>3 DEF ResumeActivate, TypeOK, Thread, DownIsEmpty, PausedIsKnown, QueuedIsKnown, TodoIsKnown, PausesOnlyUnpaused
<1>17. ASSUME NEW c \in Client, NEW s \in Session, KillGet(c, s) PROVE IndInv'
  <2>0. c \in Thread /\ c # Handler /\ c # Reaper
    BY DEF Thread
  <2>1. session[s].known /\ up
    BY <1>17 DEF KillGet
  <2>2. /\ frame' \in [Thread -> Frame]
        /\ frame'[c].pc = "kill_signal" /\ frame'[c].s = s
        /\ \A u \in Thread \ {c} : frame'[u] = frame[u]
    BY <1>17, <2>0, <2>1, CallFrame DEF KillGet, TypeOK, AnyPc, ClientPc
  <2>4. TypeOK'
    BY <1>17, <2>1, <2>2 DEF KillGet, TypeOK, agent
  <2>5. FramesOK'
    BY <1>17, <2>0, <2>1, <2>2 DEF KillGet, TypeOK, FramesOK, OwnPc, ClientPc
  <2>6. QED
    BY <1>17, <2>0, <2>1, <2>2, <2>4, <2>5 DEF KillGet, TypeOK, Thread, DownIsEmpty, PausedIsKnown, QueuedIsKnown, TodoIsKnown, PausesOnlyUnpaused
<1>18. ASSUME NEW c \in Client, KillSignal(c) PROVE IndInv'
  <2>0. c \in Thread /\ c # Handler /\ c # Reaper
    BY DEF Thread
  <2>1. frame[c].s \in Session /\ session[frame[c].s].known /\ up /\ frame[c].pc # "idle"
    BY <1>18, <2>0 DEF KillSignal, FramesOK, DownIsEmpty
  <2>2. /\ frame' \in [Thread -> Frame]
        /\ \/ frame'[c].pc = "idle"
           \/ frame'[c].pc = "kill_deactivate" /\ frame'[c].s = frame[c].s
        /\ \A u \in Thread \ {c} : frame'[u] = frame[u]
    BY <1>18, <2>0, <2>1, GotoFrame, ReturnFrame DEF KillSignal, TypeOK, AnyPc, ClientPc
  <2>4. TypeOK'
    BY <1>18, <2>1, <2>2 DEF KillSignal, TypeOK, agent
  <2>5. FramesOK'
    BY <1>18, <2>0, <2>1, <2>2 DEF KillSignal, TypeOK, FramesOK, OwnPc, ClientPc
  <2>6. QED
    BY <1>18, <2>0, <2>1, <2>2, <2>4, <2>5 DEF KillSignal, TypeOK, Thread, DownIsEmpty, PausedIsKnown, QueuedIsKnown, TodoIsKnown, PausesOnlyUnpaused
<1>19. ASSUME NEW c \in Client, KillDeactivate(c) PROVE IndInv'
  <2>0. c \in Thread /\ c # Handler /\ c # Reaper
    BY DEF Thread
  <2>1. frame[c].s \in Session /\ session[frame[c].s].known /\ up /\ frame[c].pc # "idle"
    BY <1>19, <2>0 DEF KillDeactivate, FramesOK, DownIsEmpty
  <2>2. /\ frame' \in [Thread -> Frame]
        /\ frame'[c].pc = "kill_unpause" /\ frame'[c].s = frame[c].s
        /\ \A u \in Thread \ {c} : frame'[u] = frame[u]
    BY <1>19, <2>0, <2>1, GotoFrame DEF KillDeactivate, TypeOK, AnyPc, ClientPc
  <2>3. /\ session' \in [Session -> Entry]
        /\ \A x \in Session : session[x].known <=> session'[x].known
    BY <1>19, <2>1, EntryActive DEF KillDeactivate, TypeOK
  <2>4. TypeOK'
    BY <1>19, <2>1, <2>2, <2>3 DEF KillDeactivate, TypeOK, agent
  <2>5. FramesOK'
    BY <1>19, <2>0, <2>1, <2>2, <2>3 DEF KillDeactivate, TypeOK, FramesOK, OwnPc, ClientPc
  <2>6. QED
    BY <1>19, <2>0, <2>1, <2>2, <2>4, <2>5, <2>3 DEF KillDeactivate, TypeOK, Thread, DownIsEmpty, PausedIsKnown, QueuedIsKnown, TodoIsKnown, PausesOnlyUnpaused
<1>20. ASSUME NEW c \in Client, KillUnpause(c) PROVE IndInv'
  <2>0. c \in Thread /\ c # Handler /\ c # Reaper
    BY DEF Thread
  <2>1. frame[c].s \in Session /\ session[frame[c].s].known /\ up /\ frame[c].pc # "idle"
    BY <1>20, <2>0 DEF KillUnpause, FramesOK, DownIsEmpty
  <2>2. /\ frame' \in [Thread -> Frame]
        /\ frame'[c].pc = "kill_record" /\ frame'[c].s = frame[c].s
        /\ \A u \in Thread \ {c} : frame'[u] = frame[u]
    BY <1>20, <2>0, <2>1, GotoFrame DEF KillUnpause, TypeOK, AnyPc, ClientPc
  <2>4. TypeOK'
    BY <1>20, <2>1, <2>2 DEF KillUnpause, TypeOK, agent
  <2>5. FramesOK'
    BY <1>20, <2>0, <2>1, <2>2 DEF KillUnpause, TypeOK, FramesOK, OwnPc, ClientPc
  <2>6. QED
    BY <1>20, <2>0, <2>1, <2>2, <2>4, <2>5 DEF KillUnpause, TypeOK, Thread, DownIsEmpty, PausedIsKnown, QueuedIsKnown, TodoIsKnown, PausesOnlyUnpaused
<1>21. ASSUME NEW c \in Client, KillRecord(c) PROVE IndInv'
  <2>0. c \in Thread /\ c # Handler /\ c # Reaper
    BY DEF Thread
  <2>1. frame[c].s \in Session /\ session[frame[c].s].known /\ up /\ frame[c].pc # "idle"
    BY <1>21, <2>0 DEF KillRecord, FramesOK, DownIsEmpty
  <2>2. /\ frame' \in [Thread -> Frame]
        /\ frame'[c].pc = "idle"
        /\ \A u \in Thread \ {c} : frame'[u] = frame[u]
    BY <1>21, <2>0, <2>1, ReturnFrame DEF KillRecord, TypeOK
  <2>4. TypeOK'
    BY <1>21, <2>1, <2>2 DEF KillRecord, TypeOK, agent
  <2>5. FramesOK'
    BY <1>21, <2>0, <2>1, <2>2 DEF KillRecord, TypeOK, FramesOK, OwnPc, ClientPc
  <2>6. QED
    BY <1>21, <2>0, <2>1, <2>2, <2>4, <2>5 DEF KillRecord, TypeOK, Thread, DownIsEmpty, PausedIsKnown, QueuedIsKnown, TodoIsKnown, PausesOnlyUnpaused
<1>22. ASSUME NEW c \in Client, KillFollowUp(c) PROVE IndInv'
  <2>1. TypeOK' /\ FramesOK'
    BY <1>22 DEF KillFollowUp, TypeOK, FramesOK
  <2>2. QED
    BY <1>22, <2>1 DEF KillFollowUp, TypeOK, DownIsEmpty, PausedIsKnown, QueuedIsKnown, TodoIsKnown, PausesOnlyUnpaused
<1>23. ASSUME AlertTake PROVE IndInv'
  <2>0. Handler \in Thread /\ Handler \notin Client /\ Handler # Reaper
    BY DEF Thread, Handler, Reaper
  <2>1. Head(alerts) \in Session /\ session[Head(alerts)].known /\ up
    BY <1>23 DEF AlertTake, TypeOK, QueuedIsKnown
  <2>2. /\ frame' \in [Thread -> Frame]
        /\ frame'[Handler].pc = "check" /\ frame'[Handler].s = Head(alerts)
        /\ \A u \in Thread \ {Handler} : frame'[u] = frame[u]
    BY <1>23, <2>0, <2>1, CallFrame DEF AlertTake, TypeOK, AnyPc, HandlerPc
  <2>4. TypeOK'
    BY <1>23, <2>1, <2>2 DEF AlertTake, TypeOK, agent
  <2>5. FramesOK'
    BY <1>23, <2>0, <2>1, <2>2 DEF AlertTake, TypeOK, FramesOK, OwnPc, HandlerPc
  <2>6. QED
    BY <1>23, <2>0, <2>1, <2>2, <2>4, <2>5 DEF AlertTake, TypeOK, Thread, DownIsEmpty, PausedIsKnown, QueuedIsKnown, TodoIsKnown, PausesOnlyUnpaused
<1>24. ASSUME AlertCheck PROVE IndInv'
  <2>0. Handler \in Thread /\ Handler \notin Client /\ Handler # Reaper
    BY DEF Thread, Handler, Reaper
  <2>1. frame[Handler].s \in Session /\ session[frame[Handler].s].known /\ up /\ frame[Handler].pc # "idle"
    BY <1>24, <2>0 DEF AlertCheck, FramesOK, DownIsEmpty
  <2>2. /\ frame' \in [Thread -> Frame]
        /\ \/ frame'[Handler].pc = "idle"
           \/ /\ frame'[Handler].pc = "pause" /\ frame'[Handler].s = frame[Handler].s
              /\ frame[Handler].s \notin paused
        /\ \A u \in Thread \ {Handler} : frame'[u] = frame[u]
    BY <1>24, <2>0, <2>1, GotoFrame, ReturnFrame DEF AlertCheck, TypeOK, AnyPc, HandlerPc
  <2>4. TypeOK'
    BY <1>24, <2>1, <2>2 DEF AlertCheck, TypeOK, agent
  <2>5. FramesOK'
    BY <1>24, <2>0, <2>1, <2>2 DEF AlertCheck, TypeOK, FramesOK, OwnPc, HandlerPc
  <2>6. QED
    BY <1>24, <2>0, <2>1, <2>2, <2>4, <2>5 DEF AlertCheck, TypeOK, Thread, DownIsEmpty, PausedIsKnown, QueuedIsKnown, TodoIsKnown, PausesOnlyUnpaused
<1>25. ASSUME AlertPause PROVE IndInv'
  <2>0. Handler \in Thread /\ Handler \notin Client /\ Handler # Reaper
    BY DEF Thread, Handler, Reaper
  <2>1. frame[Handler].s \in Session /\ session[frame[Handler].s].known /\ up /\ frame[Handler].pc # "idle"
    BY <1>25, <2>0 DEF AlertPause, FramesOK, DownIsEmpty
  <2>2. /\ frame' \in [Thread -> Frame]
        /\ \/ frame'[Handler].pc = "idle"
           \/ frame'[Handler].pc = "mark" /\ frame'[Handler].s = frame[Handler].s
        /\ \A u \in Thread \ {Handler} : frame'[u] = frame[u]
    BY <1>25, <2>0, <2>1, GotoFrame, ReturnFrame DEF AlertPause, TypeOK, AnyPc, HandlerPc
  <2>4. TypeOK'
    BY <1>25, <2>1, <2>2 DEF AlertPause, TypeOK, agent
  <2>5. FramesOK'
    BY <1>25, <2>0, <2>1, <2>2 DEF AlertPause, TypeOK, FramesOK, OwnPc, HandlerPc
  <2>6. QED
    BY <1>25, <2>0, <2>1, <2>2, <2>4, <2>5 DEF AlertPause, TypeOK, Thread, DownIsEmpty, PausedIsKnown, QueuedIsKnown, TodoIsKnown, PausesOnlyUnpaused
<1>26. ASSUME AlertMark PROVE IndInv'
  <2>0. Handler \in Thread /\ Handler \notin Client /\ Handler # Reaper
    BY DEF Thread, Handler, Reaper
  <2>1. frame[Handler].s \in Session /\ session[frame[Handler].s].known /\ up /\ frame[Handler].pc # "idle"
    BY <1>26, <2>0 DEF AlertMark, FramesOK, DownIsEmpty
  <2>2. /\ frame' \in [Thread -> Frame]
        /\ frame'[Handler].pc = "deactivate" /\ frame'[Handler].s = frame[Handler].s
        /\ \A u \in Thread \ {Handler} : frame'[u] = frame[u]
    BY <1>26, <2>0, <2>1, GotoFrame DEF AlertMark, TypeOK, AnyPc, HandlerPc
  <2>4. TypeOK'
    BY <1>26, <2>1, <2>2 DEF AlertMark, TypeOK, agent
  <2>5. FramesOK'
    BY <1>26, <2>0, <2>1, <2>2 DEF AlertMark, TypeOK, FramesOK, OwnPc, HandlerPc
  <2>6. QED
    BY <1>26, <2>0, <2>1, <2>2, <2>4, <2>5 DEF AlertMark, TypeOK, Thread, DownIsEmpty, PausedIsKnown, QueuedIsKnown, TodoIsKnown, PausesOnlyUnpaused
<1>27. ASSUME AlertDeactivate PROVE IndInv'
  <2>0. Handler \in Thread /\ Handler \notin Client /\ Handler # Reaper
    BY DEF Thread, Handler, Reaper
  <2>1. frame[Handler].s \in Session /\ session[frame[Handler].s].known /\ up /\ frame[Handler].pc # "idle"
    BY <1>27, <2>0 DEF AlertDeactivate, FramesOK, DownIsEmpty
  <2>2. /\ frame' \in [Thread -> Frame]
        /\ frame'[Handler].pc = "record" /\ frame'[Handler].s = frame[Handler].s
        /\ \A u \in Thread \ {Handler} : frame'[u] = frame[u]
    BY <1>27, <2>0, <2>1, GotoFrame DEF AlertDeactivate, TypeOK, AnyPc, HandlerPc
  <2>3. /\ session' \in [Session -> Entry]
        /\ \A x \in Session : session[x].known <=> session'[x].known
    BY <1>27, <2>1, EntryActive DEF AlertDeactivate, TypeOK
  <2>4. TypeOK'
    BY <1>27, <2>1, <2>2, <2>3 DEF AlertDeactivate, TypeOK, agent
  <2>5. FramesOK'
    BY <1>27, <2>0, <2>1, <2>2, <2>3 DEF AlertDeactivate, TypeOK, FramesOK, OwnPc, HandlerPc
  <2>6. QED
    BY <1>27, <2>0, <2>1, <2>2, <2>4, <2>5, <2>3 DEF AlertDeactivate, TypeOK, Thread, DownIsEmpty, PausedIsKnown, QueuedIsKnown, TodoIsKnown, PausesOnlyUnpaused
<1>28. ASSUME AlertRecord PROVE IndInv'
  <2>0. Handler \in Thread /\ Handler \notin Client /\ Handler # Reaper
    BY DEF Thread, Handler, Reaper
  <2>1. frame[Handler].s \in Session /\ session[frame[Handler].s].known /\ up /\ frame[Handler].pc # "idle"
    BY <1>28, <2>0 DEF AlertRecord, FramesOK, DownIsEmpty
  <2>2. /\ frame' \in [Thread -> Frame]
        /\ frame'[Handler].pc = "idle"
        /\ \A u \in Thread \ {Handler} : frame'[u] = frame[u]
    BY <1>28, <2>0, <2>1, ReturnFrame DEF AlertRecord, TypeOK
  <2>4. TypeOK'
    BY <1>28, <2>1, <2>2 DEF AlertRecord, TypeOK, agent
  <2>5. FramesOK'
    BY <1>28, <2>0, <2>1, <2>2 DEF AlertRecord, TypeOK, FramesOK, OwnPc, HandlerPc
  <2>6. QED
    BY <1>28, <2>0, <2>1, <2>2, <2>4, <2>5 DEF AlertRecord, TypeOK, Thread, DownIsEmpty, PausedIsKnown, QueuedIsKnown, TodoIsKnown, PausesOnlyUnpaused
<1>29. ASSUME NEW s \in Session, ReapVisit(s) PROVE IndInv'
  <2>0. Reaper \in Thread /\ Reaper \notin Client /\ Handler # Reaper
    BY DEF Thread, Handler, Reaper
  <2>1. session[s].known /\ up
    BY <1>29 DEF ReapVisit, TodoIsKnown, DownIsEmpty
  <2>2. /\ frame' \in [Thread -> Frame]
        /\ \/ frame'[Reaper].pc = "idle"
           \/ frame'[Reaper].pc = "reap_unpause" /\ frame'[Reaper].s = s
        /\ \A u \in Thread \ {Reaper} : frame'[u] = frame[u]
    <3>1. CASE Alive(s, session[s].pid)
      BY <1>29, <3>1 DEF ReapVisit, TypeOK
    <3>2. CASE ~Alive(s, session[s].pid)
      BY <1>29, <3>2, <2>0, CallFrame DEF ReapVisit, TypeOK, AnyPc, ReaperPc
    <3>3. QED
      BY <3>1, <3>2
  <2>4. TypeOK'
    BY <1>29, <2>1, <2>2 DEF ReapVisit, TypeOK, agent
  <2>5. FramesOK'
    BY <1>29, <2>0, <2>1, <2>2 DEF ReapVisit, TypeOK, FramesOK, OwnPc, ReaperPc
  <2>6. QED
    BY <1>29, <2>0, <2>1, <2>2, <2>4, <2>5 DEF ReapVisit, TypeOK, Thread, DownIsEmpty, PausedIsKnown, QueuedIsKnown, TodoIsKnown, PausesOnlyUnpaused
<1>30. ASSUME ReapUnpause PROVE IndInv'
  <2>0. Reaper \in Thread /\ Reaper \notin Client /\ Handler # Reaper
    BY DEF Thread, Handler, Reaper
  <2>1. frame[Reaper].s \in Session /\ session[frame[Reaper].s].known /\ up /\ frame[Reaper].pc # "idle"
    BY <1>30, <2>0 DEF ReapUnpause, FramesOK, DownIsEmpty
  <2>2. /\ frame' \in [Thread -> Frame]
        /\ frame'[Reaper].pc = "reap_terminate" /\ frame'[Reaper].s = frame[Reaper].s
        /\ \A u \in Thread \ {Reaper} : frame'[u] = frame[u]
    BY <1>30, <2>0, <2>1, GotoFrame DEF ReapUnpause, TypeOK, AnyPc, ReaperPc
  <2>4. TypeOK'
    BY <1>30, <2>1, <2>2 DEF ReapUnpause, TypeOK, agent
  <2>5. FramesOK'
    BY <1>30, <2>0, <2>1, <2>2 DEF ReapUnpause, TypeOK, FramesOK, OwnPc, ReaperPc
  <2>6. QED
    BY <1>30, <2>0, <2>1, <2>2, <2>4, <2>5 DEF ReapUnpause, TypeOK, Thread, DownIsEmpty, PausedIsKnown, QueuedIsKnown, TodoIsKnown, PausesOnlyUnpaused
<1>31. ASSUME ReapTerminate PROVE IndInv'
  <2>0. Reaper \in Thread /\ Reaper \notin Client /\ Handler # Reaper
    BY DEF Thread, Handler, Reaper
  <2>1. frame[Reaper].s \in Session /\ session[frame[Reaper].s].known /\ up /\ frame[Reaper].pc # "idle"
    BY <1>31, <2>0 DEF ReapTerminate, FramesOK, DownIsEmpty
  <2>2. /\ frame' \in [Thread -> Frame]
        /\ frame'[Reaper].pc = "reap_sweep" /\ frame'[Reaper].s = frame[Reaper].s
        /\ \A u \in Thread \ {Reaper} : frame'[u] = frame[u]
    BY <1>31, <2>0, <2>1, GotoFrame DEF ReapTerminate, TypeOK, AnyPc, ReaperPc
  <2>3. /\ session' \in [Session -> Entry]
        /\ \A x \in Session : session[x].known <=> session'[x].known
    BY <1>31, <2>1, EntryTerminated DEF ReapTerminate, TypeOK
  <2>4. TypeOK'
    BY <1>31, <2>1, <2>2, <2>3 DEF ReapTerminate, TypeOK, agent
  <2>5. FramesOK'
    BY <1>31, <2>0, <2>1, <2>2, <2>3 DEF ReapTerminate, TypeOK, FramesOK, OwnPc, ReaperPc
  <2>6. QED
    BY <1>31, <2>0, <2>1, <2>2, <2>4, <2>5, <2>3 DEF ReapTerminate, TypeOK, Thread, DownIsEmpty, PausedIsKnown, QueuedIsKnown, TodoIsKnown, PausesOnlyUnpaused
<1>32. ASSUME ReapSweep PROVE IndInv'
  <2>0. Reaper \in Thread /\ Reaper \notin Client /\ Handler # Reaper
    BY DEF Thread, Handler, Reaper
  <2>1. frame[Reaper].s \in Session /\ session[frame[Reaper].s].known /\ up /\ frame[Reaper].pc # "idle"
    BY <1>32, <2>0 DEF ReapSweep, FramesOK, DownIsEmpty
  <2>2. /\ frame' \in [Thread -> Frame]
        /\ frame'[Reaper].pc = "reap_record" /\ frame'[Reaper].s = frame[Reaper].s
        /\ \A u \in Thread \ {Reaper} : frame'[u] = frame[u]
    BY <1>32, <2>0, <2>1, GotoFrame DEF ReapSweep, TypeOK, AnyPc, ReaperPc
  <2>4. TypeOK'
    BY <1>32, <2>1, <2>2 DEF ReapSweep, TypeOK, agent
  <2>5. FramesOK'
    BY <1>32, <2>0, <2>1, <2>2 DEF ReapSweep, TypeOK, FramesOK, OwnPc, ReaperPc
  <2>6. QED
    BY <1>32, <2>0, <2>1, <2>2, <2>4, <2>5 DEF ReapSweep, TypeOK, Thread, DownIsEmpty, PausedIsKnown, QueuedIsKnown, TodoIsKnown, PausesOnlyUnpaused
<1>33. ASSUME ReapRecord PROVE IndInv'
  <2>0. Reaper \in Thread /\ Reaper \notin Client /\ Handler # Reaper
    BY DEF Thread, Handler, Reaper
  <2>1. frame[Reaper].s \in Session /\ session[frame[Reaper].s].known /\ up /\ frame[Reaper].pc # "idle"
    BY <1>33, <2>0 DEF ReapRecord, FramesOK, DownIsEmpty
  <2>2. /\ frame' \in [Thread -> Frame]
        /\ frame'[Reaper].pc = "idle"
        /\ \A u \in Thread \ {Reaper} : frame'[u] = frame[u]
    BY <1>33, <2>0, <2>1, ReturnFrame DEF ReapRecord, TypeOK
  <2>4. TypeOK'
    BY <1>33, <2>1, <2>2 DEF ReapRecord, TypeOK, agent
  <2>5. FramesOK'
    BY <1>33, <2>0, <2>1, <2>2 DEF ReapRecord, TypeOK, FramesOK, OwnPc, ReaperPc
  <2>6. QED
    BY <1>33, <2>0, <2>1, <2>2, <2>4, <2>5 DEF ReapRecord, TypeOK, Thread, DownIsEmpty, PausedIsKnown, QueuedIsKnown, TodoIsKnown, PausesOnlyUnpaused
<1>34. CASE UNCHANGED vars
  BY <1>34 DEF vars, TypeOK, FramesOK, DownIsEmpty, PausedIsKnown, QueuedIsKnown, TodoIsKnown, PausesOnlyUnpaused
<1>35. QED
  BY <1>1, <1>2, <1>3, <1>4, <1>5, <1>6, <1>7, <1>8, <1>9, <1>10, <1>11, <1>12, <1>13, <1>14, <1>15, <1>16, <1>17, <1>18, <1>19, <1>20, <1>21, <1>22, <1>23, <1>24, <1>25, <1>26, <1>27, <1>28, <1>29, <1>30, <1>31, <1>32, <1>33, <1>34 DEF Next, AgentStep, EventStep, HandlerStep, Request, RequestStep,
         RediscoverStep, ReaperStep

\* It holds before the daemon is first started.
LEMMA InitIsInductive == Init => IndInv
<1> SUFFICES ASSUME Init PROVE IndInv
  OBVIOUS
<1> USE EnforcementAssumption
<1>1. session \in [Session -> Entry] /\ frame \in [Thread -> Frame]
  BY DEF Init, Unknown, Idle, Entry, Frame, Pid
<1>2. TypeOK
  <2>1. /\ inc \in [Session -> Pid]
        /\ found \in [Session -> Pid \cup {Unscanned}]
        /\ proc \in [Session -> {"dead", "running", "stopped"}]
        /\ lastRecord \in [Session -> {"none", "paused", "killed", "terminated"}]
    BY DEF Init, Pid
  <2>2. alerts \in Seq(Session)
    BY EmptySeq DEF Init
  <2>3. /\ up \in BOOLEAN /\ sentinel \subseteq Dir
        /\ paused \subseteq Session /\ reapTodo \subseteq Session /\ term \subseteq Session
    BY DEF Init
  <2>4. QED
    BY <1>1, <2>1, <2>2, <2>3 DEF TypeOK
<1>3. \A t \in Thread : frame[t].pc = "idle"
  BY DEF Init, Idle
<1>4. FramesOK
  BY <1>3 DEF FramesOK
<1>5. PausesOnlyUnpaused
  BY <1>3 DEF PausesOnlyUnpaused, Thread
<1>6. DownIsEmpty /\ PausedIsKnown /\ QueuedIsKnown /\ TodoIsKnown
  BY <1>3 DEF Init, DownIsEmpty, PausedIsKnown, QueuedIsKnown, TodoIsKnown
<1>7. QED
  BY <1>2, <1>4, <1>5, <1>6 DEF IndInv

\* IndInv is an invariant of the specification.
THEOREM Inductive == Spec => []IndInv
<1>1. QED
  BY InitIsInductive, StepKeepsIndInv, PTL DEF Spec

\* The registry, the paused map, the goroutines and the agents always have their
\* types: no operation writes a PID, a directory or a place of its own making.
THEOREM TypeCorrect == Spec => []TypeOK
<1>1. IndInv => TypeOK
  BY DEF IndInv
<1>2. QED
  BY <1>1, Inductive, PTL

\* When executeAlert stops an agent and when it marks it paused, its check that
\* the session was not paused yet still holds, however the requests, the reaper
\* and the rediscovery loop interleave: the handler is the only one to add to the
\* paused map.
THEOREM PausesOnlyUnpausedSessions == Spec => []PausesOnlyUnpaused
<1>1. IndInv => PausesOnlyUnpaused
  BY DEF IndInv
<1>2. QED
  BY <1>1, Inductive, PTL

\* Every paused session is in the registry: nothing takes an entry out of it while
\* the daemon runs, so checkPausedSessions never takes its "not found" branch.
THEOREM PausedSessionsAreKnown == Spec => []PausedIsKnown
<1>1. IndInv => PausedIsKnown
  BY DEF IndInv
<1>2. QED
  BY <1>1, Inductive, PTL
----------------------------------------------------------------------------
(* The registry keeps the PID of a live agent.                             *)

\* A PID in the registry, or on its way there, is of a process that existed;
\* and what the rediscovery loop has seen of a session whose registered
\* process lives is that process: nothing else could have been seen since.
PidInv ==
    \A s \in Session :
      /\ session[s].pid <= inc[s] /\ found[s] <= inc[s]
      /\ found[s] # Unscanned /\ session[s].known /\ Alive(s, session[s].pid)
           => found[s] = session[s].pid

\* What every step does that is not one of the registry's or an agent's start.
PidsUntouched ==
    /\ \A s \in Session : /\ session'[s].pid = session[s].pid
                          /\ session'[s].known = session[s].known
                          /\ session'[s].dir = session[s].dir
                          /\ proc'[s] # "dead" => proc[s] # "dead"
    /\ found' = found /\ inc' = inc

\* The steps that have to do with PIDs.
PidStep ==
    \/ Start \/ Stop
    \/ \E s \in Session : AgentStart(s) \/ AutoRegister(s) \/ RediscoverStep(s)

\* Only starts, auto-registration and rediscovery have to do with PIDs.
LEMMA OtherStepsTouchNoPid == IndInv /\ [Next]_vars => PidsUntouched \/ PidStep
<1> SUFFICES ASSUME IndInv, [Next]_vars, ~PidStep PROVE PidsUntouched
  OBVIOUS
<1> USE DEF IndInv, agent, PidsUntouched
<1>1. ASSUME NEW s \in Session, AgentDies(s) \/ TermDelivered(s) \/ ExternalCont(s)
      PROVE PidsUntouched
  BY <1>1 DEF AgentDies, TermDelivered, ExternalCont, TypeOK
<1>2. ASSUME NEW s \in Session, EmitPause(s) \/ ReapVisit(s) PROVE PidsUntouched
  BY <1>2 DEF EmitPause, ReapVisit, TypeOK
<1>3. ASSUME NEW c \in Client, Request(c) PROVE PidsUntouched
  BY <1>3 DEF Request, ResumeGet, KillGet
<1>4. ASSUME NEW c \in Client, RequestStep(c) \/ KillFollowUp(c) PROVE PidsUntouched
  <2>1. c \in Thread
    BY DEF Thread
  <2>2. ASSUME frame[c].pc # "idle" PROVE frame[c].s \in Session
    BY <2>1, <2>2 DEF FramesOK
  <2>3. CASE ResumeCheck(c) \/ ResumeUnpause(c) \/ KillSignal(c) \/ KillUnpause(c) \/ KillRecord(c)
    BY <2>3 DEF ResumeCheck, ResumeUnpause, KillSignal, KillUnpause, KillRecord
  <2>4. CASE ResumeSignal(c)
    BY <2>2, <2>4 DEF ResumeSignal, TypeOK, Alive
  <2>5. CASE KillFollowUp(c)
    BY <2>2, <2>5 DEF KillFollowUp, TypeOK
  <2>6. CASE ResumeActivate(c) \/ KillDeactivate(c)
    <3>1. PICK b \in BOOLEAN : session' = [session EXCEPT ![frame[c].s].active = b]
      BY <2>6 DEF ResumeActivate, KillDeactivate
    <3>2. frame[c].s \in Session
      BY <2>2, <2>6 DEF ResumeActivate, KillDeactivate
    <3>3. \A s \in Session : /\ session'[s].pid = session[s].pid
                               /\ session'[s].known = session[s].known
                               /\ session'[s].dir = session[s].dir
      BY <3>1, <3>2 DEF TypeOK, Entry
    <3>4. QED
      BY <2>6, <3>3 DEF ResumeActivate, KillDeactivate
  <2>7. QED
    BY <1>4, <2>3, <2>4, <2>5, <2>6 DEF RequestStep
<1>5. ASSUME HandlerStep PROVE PidsUntouched
  <2>1. Handler \in Thread
    BY DEF Thread
  <2>2. ASSUME frame[Handler].pc # "idle" PROVE frame[Handler].s \in Session
    BY <2>1, <2>2 DEF FramesOK
  <2>3. CASE AlertTake \/ AlertCheck \/ AlertMark \/ AlertRecord
    BY <2>3 DEF AlertTake, AlertCheck, AlertMark, AlertRecord
  <2>4. CASE AlertPause
    BY <2>2, <2>4 DEF AlertPause, TypeOK, Alive
  <2>5. CASE AlertDeactivate
    <3>1. \A s \in Session : /\ session'[s].pid = session[s].pid
                               /\ session'[s].known = session[s].known
                               /\ session'[s].dir = session[s].dir
      BY <2>2, <2>5 DEF AlertDeactivate, TypeOK, Entry
    <3>2. QED
      BY <2>5, <3>1 DEF AlertDeactivate
  <2>6. QED
    BY <1>5, <2>3, <2>4, <2>5 DEF HandlerStep
<1>6. ASSUME ReapTick \/ ReapUnpause \/ ReapSweep \/ ReapRecord PROVE PidsUntouched
  BY <1>6 DEF ReapTick, ReapUnpause, ReapSweep, ReapRecord
<1>7. ASSUME ReapTerminate PROVE PidsUntouched
  <2>1. Reaper \in Thread
    BY DEF Thread
  <2>2. frame[Reaper].s \in Session
    BY <1>7, <2>1 DEF FramesOK, ReapTerminate
  <2>3. \A s \in Session : /\ session'[s].pid = session[s].pid
                               /\ session'[s].known = session[s].known
                               /\ session'[s].dir = session[s].dir
    BY <1>7, <2>2 DEF ReapTerminate, TypeOK, Entry
  <2>4. QED
    BY <1>7, <2>3 DEF ReapTerminate
<1>8. CASE UNCHANGED vars
  BY <1>8 DEF vars
<1>9. QED
  BY <1>1, <1>2, <1>3, <1>4, <1>5, <1>6, <1>7, <1>8
     DEF Next, PidStep, AgentStep, EventStep, RediscoverStep, ReaperStep

\* No step gives the registry another PID for a session whose process lives.
LivePidStep ==
    \A s \in Session :
      up /\ up' /\ session[s].known /\ Alive(s, session[s].pid) =>
        session'[s].pid = session[s].pid

\* Every step keeps PidInv, and LivePidStep describes it, if no agent is missed.
LEMMA StepKeepsPidInv ==
  ASSUME "pid_missed" \notin Environment, IndInv, PidInv, [Next]_vars
  PROVE PidInv' /\ LivePidStep
<1> USE EnforcementAssumption DEF Alive, Pid, Unscanned
<1>1. /\ \A s \in Session : inc[s] \in Nat /\ session[s].pid \in Nat /\ found[s] \in Int
      /\ session \in [Session -> Entry] /\ found \in [Session -> Pid \cup {Unscanned}]
      /\ inc \in [Session -> Pid] /\ proc \in [Session -> {"dead", "running", "stopped"}]
  BY DEF IndInv, TypeOK, Entry
<1>2. CASE PidsUntouched
  BY <1>1, <1>2 DEF PidsUntouched, PidInv, LivePidStep
<1>3. ASSUME NEW s \in Session, AgentStart(s) PROVE PidInv' /\ LivePidStep
  BY <1>1, <1>3 DEF AgentStart, PidInv, LivePidStep
<1>4. CASE Stop
  BY <1>1, <1>4 DEF Stop, PidInv, LivePidStep, Unknown, agent
<1>5. CASE Start
  <2>1. \A s \in Session : found[s] = Unscanned
    BY <1>5 DEF IndInv, DownIsEmpty, Start
  <2>2. \A s \in Session : session'[s].pid <= inc[s]
    BY <1>1, <1>5 DEF Start, FoundPid, Discovered, Unknown
  <2>3. QED
    BY <1>1, <1>5, <2>1, <2>2 DEF Start, PidInv, LivePidStep, agent
<1>6. ASSUME NEW s \in Session, AutoRegister(s) PROVE PidInv' /\ LivePidStep
  BY <1>1, <1>6 DEF AutoRegister, Inferred, PidInv, LivePidStep, agent
<1>7. ASSUME NEW s \in Session, RediscoverScan(s) PROVE PidInv' /\ LivePidStep
  BY <1>1, <1>7 DEF RediscoverScan, FoundPid, PidInv, LivePidStep, agent
<1>8. ASSUME NEW s \in Session, RediscoverAdd(s) PROVE PidInv' /\ LivePidStep
  BY <1>1, <1>8 DEF RediscoverAdd, Discovered, PidInv, LivePidStep, agent
<1>9. QED
  BY OtherStepsTouchNoPid, <1>2, <1>3, <1>4, <1>5, <1>6, <1>7, <1>8 DEF PidStep, RediscoverStep

\* Before the first start the registry has no PIDs.
LEMMA InitHasPidInv == Init => PidInv
  BY EnforcementAssumption DEF Init, PidInv, Unknown, Unscanned, Alive, Pid

\* What LivePidIsKept promises holds whenever the discoverers find every live
\* agent: neither the copy a scan made of the processes nor the event loop's
\* TryAdd can set a live PID back.
THEOREM LivePidsAreKept ==
  ASSUME "pid_missed" \notin Environment
  PROVE  Spec => LivePidIsKept
<1>1. PidInv /\ IndInv /\ [Next]_vars => PidInv' /\ [LivePidStep]_vars
  BY StepKeepsPidInv
<1>2. Spec => [](PidInv /\ IndInv)
  BY InitHasPidInv, Inductive, <1>1, PTL DEF Spec
<1>3. Spec => [][LivePidStep]_vars
  BY <1>1, <1>2, PTL DEF Spec
<1>4. QED
  BY <1>3 DEF LivePidIsKept, LivePidStep

----------------------------------------------------------------------------
(* What a goroutine holds.  It works on what the registry said when it     *)
(* looked a session up, so what it holds is no better than that was.       *)

\* The goroutine goes on with the fields it has read.
Holds(t) == /\ frame[t].pc # "idle"
            /\ frame'[t].s = frame[t].s /\ frame'[t].pid = frame[t].pid
            /\ frame'[t].dir = frame[t].dir

\* It begins, with what the registry has; the reaper only if the session's process
\* does not live.
Begins(t) == LET s == frame'[t].s
             IN  /\ s \in Session /\ session[s].known
                 /\ frame'[t].pid = session[s].pid /\ frame'[t].dir = session[s].dir
                 /\ t = Reaper => ~Alive(s, session[s].pid)

FramesFollow == \A t \in Thread : frame'[t].pc = "idle" \/ Holds(t) \/ Begins(t)

\* A step of a working goroutine, and of it alone.
LEMMA WorkingFrame ==
  ASSUME frame \in [Thread -> Frame], NEW t \in Thread, frame[t].pc # "idle",
         Return(t) \/ \E pc \in AnyPc : Goto(t, pc)
  PROVE  FramesFollow
<1>1. CASE Return(t)
  BY <1>1 DEF Return, Idle, FramesFollow, Holds
<1>2. ASSUME NEW pc \in AnyPc, Goto(t, pc) PROVE FramesFollow
  BY <1>2 DEF Goto, Frame, FramesFollow, Holds
<1> QED BY <1>1, <1>2

\* A goroutine that begins to work on a session.
LEMMA BeginningFrame ==
  ASSUME frame \in [Thread -> Frame], NEW t \in Thread, NEW s \in Session, NEW pc \in AnyPc,
         session[s].known, Call(t, pc, s), t = Reaper => ~Alive(s, session[s].pid)
  PROVE  FramesFollow
  BY DEF Call, Frame, FramesFollow, Holds, Begins

LEMMA StepFollows == IndInv /\ [Next]_vars => FramesFollow
<1> SUFFICES ASSUME IndInv, [Next]_vars PROVE FramesFollow
  OBVIOUS
<1>0. /\ TypeOK /\ FramesOK /\ frame \in [Thread -> Frame]
      /\ Handler \in Thread /\ Reaper \in Thread /\ Client \subseteq Thread
      /\ Handler # Reaper /\ Reaper \notin Client
  BY EnforcementAssumption DEF IndInv, TypeOK, Thread, Handler, Reaper
<1>1. ASSUME UNCHANGED frame PROVE FramesFollow
  BY <1>1 DEF FramesFollow, Holds
<1>2. CASE Start \/ UNCHANGED vars
  BY <1>1, <1>2 DEF Start, vars
<1>3. CASE Stop
  BY <1>3 DEF Stop, Idle, FramesFollow
<1>4. ASSUME NEW s \in Session, AgentStep(s) \/ EventStep(s) \/ RediscoverStep(s)
      PROVE  FramesFollow
  BY <1>1, <1>4 DEF AgentStep, AgentStart, AgentDies, TermDelivered, ExternalCont, EventStep,
                    AutoRegister, EmitPause, RediscoverStep, RediscoverScan, RediscoverAdd
<1>5. ASSUME NEW c \in Client, Request(c) PROVE FramesFollow
  <2>1. PICK s \in Session : ResumeGet(c, s) \/ KillGet(c, s)
    BY <1>5 DEF Request
  <2> QED BY <1>0, <2>1, BeginningFrame DEF ResumeGet, KillGet, AnyPc, ClientPc
<1>6. ASSUME NEW c \in Client, RequestStep(c) PROVE FramesFollow
  <2>1. frame[c].pc # "idle" /\ (Return(c) \/ \E pc \in AnyPc : Goto(c, pc))
    BY <1>6 DEF RequestStep, ResumeCheck, ResumeSignal, ResumeUnpause, ResumeActivate, KillSignal,
                KillDeactivate, KillUnpause, KillRecord, AnyPc, ClientPc
  <2> QED BY <1>0, <2>1, WorkingFrame
<1>7. ASSUME NEW c \in Client, KillFollowUp(c) PROVE FramesFollow
  BY <1>1, <1>7 DEF KillFollowUp
<1>8. CASE HandlerStep
  <2>1. CASE AlertTake
    <3>1. Head(alerts) \in Session /\ session[Head(alerts)].known
      BY <2>1 DEF AlertTake, IndInv, TypeOK, QueuedIsKnown
    <3> QED BY <1>0, <2>1, <3>1, BeginningFrame DEF AlertTake, AnyPc, HandlerPc
  <2>2. CASE AlertCheck \/ AlertPause \/ AlertMark \/ AlertDeactivate \/ AlertRecord
    <3>1. frame[Handler].pc # "idle" /\ (Return(Handler) \/ \E pc \in AnyPc : Goto(Handler, pc))
      BY <2>2 DEF AlertCheck, AlertPause, AlertMark, AlertDeactivate, AlertRecord, AnyPc, HandlerPc
    <3> QED BY <1>0, <3>1, WorkingFrame
  <2> QED BY <1>8, <2>1, <2>2 DEF HandlerStep
<1>9. CASE ReaperStep
  <2>1. CASE ReapTick
    BY <1>1, <2>1 DEF ReapTick
  <2>2. ASSUME NEW s \in Session, ReapVisit(s) PROVE FramesFollow
    <3>1. session[s].known
      BY <2>2 DEF ReapVisit, IndInv, TodoIsKnown
    <3> QED BY <1>0, <1>1, <2>2, <3>1, BeginningFrame DEF ReapVisit, AnyPc, ReaperPc
  <2>3. CASE ReapUnpause \/ ReapTerminate \/ ReapSweep \/ ReapRecord
    <3>1. frame[Reaper].pc # "idle" /\ (Return(Reaper) \/ \E pc \in AnyPc : Goto(Reaper, pc))
      BY <2>3 DEF ReapUnpause, ReapTerminate, ReapSweep, ReapRecord, AnyPc, ReaperPc
    <3> QED BY <1>0, <3>1, WorkingFrame
  <2> QED BY <1>9, <2>1, <2>2, <2>3 DEF ReaperStep
<1> QED BY <1>2, <1>3, <1>4, <1>5, <1>6, <1>7, <1>8, <1>9 DEF Next

----------------------------------------------------------------------------
(* A machine on which the agents were started before the daemon.  Nothing  *)
(* is auto-registered there, so every PID the daemon goes by is that of    *)
(* the agent, as long as the agent lives.                                  *)

\* All agents are registered, with their PIDs; these are what the rediscovery loop
\* has seen and what the goroutines hold; and what the reaper gives up is dead.
OrderlyInv ==
    /\ \A s \in Session :
         /\ up /\ inc[s] > 0 => session[s].known
         /\ ~up => ~session[s].known
         /\ proc[s] # "dead" => inc[s] > 0
         /\ session[s].known /\ proc[s] # "dead" => session[s].pid = inc[s]
         /\ found[s] # Unscanned /\ proc[s] # "dead" => found[s] = inc[s]
    /\ \A t \in Thread : frame[t].pc # "idle" /\ proc[frame[t].s] # "dead"
                           => frame[t].pid = inc[frame[t].s]
    /\ frame[Reaper].pc # "idle" => proc[frame[Reaper].s] = "dead"

LEMMA InitIsOrderly == Init => OrderlyInv
<1> SUFFICES ASSUME Init PROVE OrderlyInv
  OBVIOUS
<1>1. \A t \in Thread : frame[t].pc = "idle"
  BY DEF Init, Idle
<1>2. Reaper \in Thread
  BY DEF Thread
<1> QED BY <1>1, <1>2 DEF Init, OrderlyInv, Unknown

\* What a registered session's PID is worth: SIGSTOP and SIGCONT reach its process,
\* or it has none.
LEMMA OrderlyAlive ==
  ASSUME IndInv, OrderlyInv, NEW t \in Thread, frame[t].pc # "idle"
  PROVE  Alive(frame[t].s, frame[t].pid) <=> proc[frame[t].s] # "dead"
<1>1. frame[t].s \in Session
  BY DEF IndInv, FramesOK
<1> QED BY <1>1 DEF OrderlyInv, Alive

\* Steps that have nothing to do with PIDs.
LEMMA UntouchedKeepsOrderly ==
  ASSUME IndInv, OrderlyInv, [Next]_vars, PidsUntouched, up' = up
  PROVE  OrderlyInv'
<1>1. FramesFollow
  BY StepFollows
<1>2. \A t \in Thread : frame[t].pc # "idle" => frame[t].s \in Session
  BY DEF IndInv, FramesOK
<1>3. \A s \in Session :
         /\ up' /\ inc'[s] > 0 => session'[s].known
         /\ ~up' => ~session'[s].known
         /\ proc'[s] # "dead" => inc'[s] > 0
         /\ session'[s].known /\ proc'[s] # "dead" => session'[s].pid = inc'[s]
         /\ found'[s] # Unscanned /\ proc'[s] # "dead" => found'[s] = inc'[s]
  BY DEF OrderlyInv, PidsUntouched
<1>4. ASSUME NEW t \in Thread, frame'[t].pc # "idle"
      PROVE  /\ proc'[frame'[t].s] # "dead" => frame'[t].pid = inc'[frame'[t].s]
             /\ t = Reaper => proc'[frame'[t].s] = "dead"
  <2>1. CASE Holds(t)
    BY <1>2, <2>1 DEF Holds, OrderlyInv, PidsUntouched
  <2>2. CASE Begins(t)
    BY <2>2 DEF Begins, OrderlyInv, PidsUntouched, Alive
  <2> QED BY <1>1, <1>4, <2>1, <2>2 DEF FramesFollow
<1>5. Reaper \in Thread
  BY DEF Thread
<1> QED BY <1>3, <1>4, <1>5 DEF OrderlyInv

\* Starts, stops and the rediscovery loop.
LEMMA PidStepKeepsOrderly ==
  ASSUME "late_start" \notin Environment, "pid_missed" \notin Environment,
         IndInv, OrderlyInv, PidStep
  PROVE  OrderlyInv'
<1>1. /\ session \in [Session -> Entry] /\ found \in [Session -> Pid \cup {Unscanned}]
      /\ inc \in [Session -> Pid] /\ proc \in [Session -> {"dead", "running", "stopped"}]
      /\ Reaper \in Thread
      /\ \A s \in Session : inc[s] \in Nat
  BY EnforcementAssumption DEF IndInv, TypeOK, Thread, Pid
<1>2. \A t \in Thread : frame[t].pc # "idle" => frame[t].s \in Session /\ up
  BY DEF IndInv, FramesOK, DownIsEmpty
<1>3. CASE Stop
  <2>1. \A t \in Thread : frame'[t].pc = "idle"
    BY <1>3 DEF Stop, Idle
  <2> QED BY <1>1, <1>3, <2>1 DEF Stop, OrderlyInv, Unknown, agent
<1>4. CASE Start
  <2>1. \A t \in Thread : frame'[t].pc = "idle"
    BY <1>2, <1>4 DEF Start
  <2>2. \A s \in Session : found'[s] = Unscanned
    BY <1>4 DEF Start, IndInv, DownIsEmpty
  <2>3. ASSUME NEW s \in Session
        PROVE  session'[s].known <=> inc[s] # 0
    BY <1>1, <1>4 DEF Start, Discovered, Unknown
  <2>4. ASSUME NEW s \in Session, session'[s].known, proc[s] # "dead"
        PROVE  session'[s].pid = inc[s]
    BY <1>1, <1>4, <2>4 DEF Start, Discovered, Unknown, FoundPid
  <2> QED BY <1>1, <1>4, <2>1, <2>2, <2>3, <2>4 DEF Start, OrderlyInv, agent
<1>5. ASSUME NEW s \in Session, AgentStart(s) PROVE OrderlyInv'
  <2>1. ~up
    BY <1>5 DEF AgentStart
  <2>2. \A t \in Thread : frame'[t].pc = "idle"
    BY <1>2, <1>5, <2>1 DEF AgentStart
  <2>3. \A x \in Session : found[x] = Unscanned
    BY <2>1 DEF IndInv, DownIsEmpty
  <2> QED BY <1>1, <1>5, <2>1, <2>2, <2>3 DEF AgentStart, OrderlyInv
<1>6. ASSUME NEW s \in Session, AutoRegister(s) PROVE FALSE
  BY <1>6 DEF AutoRegister, OrderlyInv
<1>7. ASSUME NEW s \in Session, RediscoverScan(s) PROVE OrderlyInv'
  <2>1. FoundPid(s) = {IF proc[s] = "dead" THEN 0 ELSE inc[s]}
    BY DEF FoundPid
  <2> QED BY <1>1, <1>7, <2>1 DEF RediscoverScan, OrderlyInv, agent
<1>8. ASSUME NEW s \in Session, RediscoverAdd(s) PROVE OrderlyInv'
  <2>1. up
    BY <1>8 DEF RediscoverAdd, IndInv, DownIsEmpty
  <2> QED BY <1>1, <1>8, <2>1 DEF RediscoverAdd, Discovered, OrderlyInv, agent
<1> QED BY <1>3, <1>4, <1>5, <1>6, <1>7, <1>8 DEF PidStep, RediscoverStep

\* Only starts and stops change whether the daemon runs.
LEMMA UpIsKept == [Next]_vars => up' = up \/ Start \/ Stop
<1> SUFFICES ASSUME Next, ~Start, ~Stop PROVE up' = up
  BY DEF vars
<1>1. ASSUME NEW s \in Session, AgentStep(s) \/ EventStep(s) \/ RediscoverStep(s)
      PROVE  up' = up
  BY <1>1 DEF AgentStep, AgentStart, AgentDies, TermDelivered, ExternalCont, EventStep,
              AutoRegister, EmitPause, RediscoverStep, RediscoverScan, RediscoverAdd
<1>2. ASSUME NEW c \in Client, Request(c) \/ RequestStep(c) \/ KillFollowUp(c) PROVE up' = up
  BY <1>2 DEF Request, ResumeGet, KillGet, RequestStep, ResumeCheck, ResumeSignal, ResumeUnpause,
              ResumeActivate, KillSignal, KillDeactivate, KillUnpause, KillRecord, KillFollowUp
<1>3. CASE HandlerStep
  BY <1>3 DEF HandlerStep, AlertTake, AlertCheck, AlertPause, AlertMark, AlertDeactivate,
              AlertRecord
<1>4. CASE ReaperStep
  BY <1>4 DEF ReaperStep, ReapTick, ReapVisit, ReapUnpause, ReapTerminate, ReapSweep, ReapRecord
<1> QED BY <1>1, <1>2, <1>3, <1>4 DEF Next

LEMMA StepKeepsOrderly ==
  ASSUME "late_start" \notin Environment, "pid_missed" \notin Environment,
         IndInv, OrderlyInv, [Next]_vars
  PROVE  OrderlyInv'
<1>1. CASE PidStep
  BY <1>1, PidStepKeepsOrderly
<1>2. CASE ~PidStep
  BY <1>2, UpIsKept, OtherStepsTouchNoPid, UntouchedKeepsOrderly DEF PidStep
<1> QED BY <1>1, <1>2

\* Nobody but the reaper terminates a session, and that the one it works on.
LEMMA OnlyReaperTerminates ==
  ASSUME IndInv, [Next]_vars, NEW s \in Session,
         ~session[s].terminated, session'[s].terminated
  PROVE  frame[Reaper].pc # "idle" /\ frame[Reaper].s = s
<1>1. session \in [Session -> Entry] /\ frame \in [Thread -> Frame]
  BY DEF IndInv, TypeOK
<1>2. ASSUME UNCHANGED session PROVE FALSE
  BY <1>2
<1>3. ASSUME NEW x, NEW b, session' = [session EXCEPT ![x].active = b] PROVE FALSE
  BY <1>1, <1>3 DEF Entry
<1>4. ASSUME NEW x \in Session, NEW e, e.terminated = FALSE, session' = [session EXCEPT ![x] = e]
      PROVE  FALSE
  BY <1>1, <1>4
<1>5. CASE Start
  BY <1>5 DEF Start, Discovered, Unknown
<1>6. CASE Stop
  BY <1>6 DEF Stop, Unknown
<1>7. ASSUME NEW x \in Session, AgentStep(x) \/ EmitPause(x) \/ RediscoverScan(x) PROVE FALSE
  BY <1>2, <1>7 DEF AgentStep, AgentStart, AgentDies, TermDelivered, ExternalCont, EmitPause,
                    RediscoverScan
<1>8. ASSUME NEW x \in Session, AutoRegister(x) \/ RediscoverAdd(x) PROVE FALSE
  BY <1>4, <1>8 DEF AutoRegister, RediscoverAdd, Inferred, Discovered
<1>9. ASSUME NEW c \in Client, Request(c) \/ RequestStep(c) \/ KillFollowUp(c) PROVE FALSE
  <2>1. CASE ResumeActivate(c) \/ KillDeactivate(c)
    BY <1>3, <2>1 DEF ResumeActivate, KillDeactivate
  <2>2. CASE ~ResumeActivate(c) /\ ~KillDeactivate(c)
    BY <1>2, <1>9, <2>2 DEF Request, ResumeGet, KillGet, RequestStep, ResumeCheck, ResumeSignal,
                            ResumeUnpause, KillSignal, KillUnpause, KillRecord, KillFollowUp
  <2> QED BY <2>1, <2>2
<1>10. CASE HandlerStep
  BY <1>2, <1>3, <1>10 DEF HandlerStep, AlertTake, AlertCheck, AlertPause, AlertMark,
                           AlertDeactivate, AlertRecord
<1>11. CASE ReaperStep
  <2>1. CASE ReapTerminate
    BY <1>1, <2>1 DEF ReapTerminate, Entry
  <2>2. CASE ~ReapTerminate
    BY <1>2, <1>11, <2>2 DEF ReaperStep, ReapTick, ReapVisit, ReapUnpause, ReapSweep, ReapRecord
  <2> QED BY <2>1, <2>2
<1>12. CASE UNCHANGED vars
  BY <1>2, <1>12 DEF vars
<1> QED BY <1>5, <1>6, <1>7, <1>8, <1>9, <1>10, <1>11, <1>12
        DEF Next, EventStep, RediscoverStep

\* What the reaper may do in one step.
ReapedStep ==
    \A s \in Session : ~session[s].terminated /\ session'[s].terminated => proc[s] = "dead"

\* The reaper (checkPausedSessions) reports only sessions whose process no longer
\* exists as terminated, where every agent was started before the daemon and the
\* discoverers find it: between its look at the process and the report, and whatever
\* the rediscovery loop writes to the registry meanwhile, no agent comes back.
THEOREM OnlyTheDeadAreReaped ==
  ASSUME "late_start" \notin Environment, "pid_missed" \notin Environment
  PROVE  Spec => OnlyDeadAreReaped
<1>1. IndInv /\ OrderlyInv /\ [Next]_vars => OrderlyInv' /\ [ReapedStep]_vars
  <2> SUFFICES ASSUME IndInv, OrderlyInv, [Next]_vars PROVE OrderlyInv' /\ ReapedStep
    OBVIOUS
  <2>1. OrderlyInv'
    BY StepKeepsOrderly
  <2>2. ReapedStep
    BY OnlyReaperTerminates DEF ReapedStep, OrderlyInv
  <2> QED BY <2>1, <2>2
<1>2. Spec => [](OrderlyInv /\ IndInv)
  BY InitIsOrderly, Inductive, <1>1, PTL DEF Spec
<1>3. Spec => [][ReapedStep]_vars
  BY <1>1, <1>2, PTL DEF Spec
<1> QED BY <1>3 DEF OnlyDeadAreReaped, ReapedStep

----------------------------------------------------------------------------
(* Frozen agents.                                                          *)

\* What a request that takes a session out of the paused map knows of its agent: a
\* resume has continued it, and it cannot be stopped again before it is out, as the
\* handler passes over paused sessions; a kill has sent it a SIGTERM.
RequestInv ==
    \A c \in Client :
      LET s == frame[c].s
      IN  /\ frame[c].pc \in {"resume_signal", "resume_unpause"}
               => s \in paused \/ proc[s] = "dead"
          /\ frame[c].pc = "resume_unpause" => proc[s] # "stopped"
          /\ frame[c].pc \in {"kill_deactivate", "kill_unpause", "kill_record"}
               => s \in term \/ proc[s] = "dead"

HoldInv ==
    /\ ~up => \A s \in Session : proc[s] # "stopped"
    /\ StoppedIsHeld
    /\ RequestInv

LEMMA InitHolds == Init => HoldInv
<1> SUFFICES ASSUME Init PROVE HoldInv
  OBVIOUS
<1>1. \A c \in Client : frame[c].pc = "idle"
  BY DEF Init, Idle, Thread
<1> QED BY <1>1 DEF Init, HoldInv, StoppedIsHeld, RequestInv

\* Steps that leave the processes, the paused map and the requests alone.
LEMMA QuietKeepsHold ==
  ASSUME HoldInv, UNCHANGED <<up, proc, term, paused>>,
         \A c \in Client : frame'[c] = frame[c],
         \/ frame'[Handler] = frame[Handler]
         \/ frame[Handler].pc # "mark"
  PROVE  HoldInv'
  BY DEF HoldInv, StoppedIsHeld, RequestInv, Busy

\* The agents' own steps: one that stops being stopped, or dies, needs nobody.
LEMMA AgentKeepsHold ==
  ASSUME "late_start" \notin Environment, IndInv, HoldInv, NEW s \in Session, AgentStep(s)
  PROVE  HoldInv'
<1>1. /\ proc \in [Session -> {"dead", "running", "stopped"}]
      /\ \A c \in Client : c \in Thread /\ (frame[c].pc # "idle" => up /\ frame[c].s \in Session)
  BY DEF IndInv, TypeOK, FramesOK, DownIsEmpty, Thread
<1>2. CASE AgentStart(s)
  <2>1. ~up /\ ~up'
    BY <1>2 DEF AgentStart
  <2>2. \A c \in Client : frame'[c].pc = "idle"
    BY <1>1, <1>2, <2>1 DEF AgentStart
  <2> QED BY <1>1, <1>2, <2>1, <2>2 DEF AgentStart, HoldInv, StoppedIsHeld, RequestInv
<1>3. CASE AgentDies(s)
  BY <1>1, <1>3 DEF AgentDies, HoldInv, StoppedIsHeld, RequestInv, Busy
<1>4. CASE TermDelivered(s)
  BY <1>1, <1>4 DEF TermDelivered, HoldInv, StoppedIsHeld, RequestInv, Busy
<1>5. CASE ExternalCont(s)
  BY <1>1, <1>5 DEF ExternalCont, HoldInv, StoppedIsHeld, RequestInv, Busy
<1> QED BY <1>2, <1>3, <1>4, <1>5 DEF AgentStep

\* The handler stops an agent that is not paused, and then marks it.
LEMMA HandlerKeepsHold ==
  ASSUME IndInv, OrderlyInv, HoldInv, HandlerStep
  PROVE  HoldInv'
<1>1. /\ proc \in [Session -> {"dead", "running", "stopped"}] /\ frame \in [Thread -> Frame]
      /\ session \in [Session -> Entry]
      /\ Handler \in Thread /\ \A c \in Client : c \in Thread /\ c # Handler
      /\ \A t \in Thread : frame[t].pc # "idle" => up /\ frame[t].s \in Session
      /\ PausesOnlyUnpaused
  BY EnforcementAssumption DEF IndInv, TypeOK, FramesOK, DownIsEmpty, Thread
<1>2. CASE AlertTake
  <2>1. \A c \in Client : frame'[c] = frame[c]
    BY <1>1, <1>2 DEF AlertTake, Call
  <2> QED BY <1>2, <2>1, QuietKeepsHold DEF AlertTake, agent
<1>3. CASE AlertCheck \/ AlertDeactivate \/ AlertRecord
  <2>1. \A c \in Client : frame'[c] = frame[c]
    BY <1>1, <1>3 DEF AlertCheck, AlertDeactivate, AlertRecord, Goto, Return
  <2> QED BY <1>3, <2>1, QuietKeepsHold DEF AlertCheck, AlertDeactivate, AlertRecord, agent
<1>4. CASE AlertPause
  <2> DEFINE s == frame[Handler].s
  <2>1. /\ s \in Session /\ up /\ s \notin paused
        /\ UNCHANGED <<up, term, paused>>
        /\ \A c \in Client : frame'[c] = frame[c]
    BY <1>1, <1>4 DEF AlertPause, PausesOnlyUnpaused, Goto, Return
  <2>2. CASE Alive(s, frame[Handler].pid)
    <3>1. proc' = [proc EXCEPT ![s] = "stopped"] /\ proc[s] # "dead"
          /\ frame'[Handler].pc = "mark" /\ frame'[Handler].s = s
      BY <1>1, <1>4, <2>2 DEF AlertPause, Goto, Alive, Frame
    <3>2. ASSUME NEW c \in Client,
                 frame[c].pc \in {"resume_signal", "resume_unpause"}
          PROVE  frame[c].s # s
      BY <2>1, <3>1, <3>2 DEF HoldInv, RequestInv
    <3>3. StoppedIsHeld'
      BY <1>1, <1>4, <2>1, <3>1 DEF AlertPause, HoldInv, StoppedIsHeld, Busy
    <3>4. RequestInv'
      BY <1>1, <2>1, <3>1, <3>2 DEF HoldInv, RequestInv
    <3> QED BY <2>1, <3>3, <3>4 DEF HoldInv
  <2>3. CASE ~Alive(s, frame[Handler].pid)
    <3>1. UNCHANGED proc
      BY <1>4, <2>3 DEF AlertPause
    <3> QED BY <1>4, <2>1, <3>1, QuietKeepsHold DEF AlertPause
  <2> QED BY <2>2, <2>3
<1>5. CASE AlertMark
  <2>1. /\ paused' = paused \cup {frame[Handler].s}
        /\ UNCHANGED <<up, proc, term>>
        /\ \A c \in Client : frame'[c] = frame[c]
    BY <1>1, <1>5 DEF AlertMark, Goto, agent
  <2> QED BY <2>1 DEF HoldInv, StoppedIsHeld, RequestInv, Busy
<1> QED BY <1>2, <1>3, <1>4, <1>5 DEF HandlerStep

\* The reaper takes only dead sessions out of the paused map.
LEMMA ReaperKeepsHold ==
  ASSUME IndInv, OrderlyInv, HoldInv, ReaperStep
  PROVE  HoldInv'
<1>1. /\ frame \in [Thread -> Frame] /\ session \in [Session -> Entry]
      /\ Reaper \in Thread /\ Handler \in Thread /\ Handler # Reaper
      /\ \A c \in Client : c \in Thread /\ c # Reaper
  BY EnforcementAssumption DEF IndInv, TypeOK, Thread, Handler, Reaper
<1>2. \A t \in Thread \ {Reaper} : frame'[t] = frame[t]
  BY <1>1 DEF ReaperStep, ReapTick, ReapVisit, ReapUnpause, ReapTerminate, ReapSweep, ReapRecord,
              Call, Goto, Return
<1>3. CASE ReapUnpause
  <2>1. /\ paused' = paused \ {frame[Reaper].s} /\ proc[frame[Reaper].s] = "dead"
        /\ UNCHANGED <<up, proc, term>>
    BY <1>3 DEF ReapUnpause, OrderlyInv, agent
  <2> QED BY <1>1, <1>2, <2>1 DEF HoldInv, StoppedIsHeld, RequestInv, Busy
<1>4. CASE ~ReapUnpause
  <2>1. UNCHANGED <<up, proc, term, paused>>
    BY <1>4 DEF ReaperStep, ReapTick, ReapVisit, ReapTerminate, ReapSweep, ReapRecord, agent
  <2> QED BY <1>1, <1>2, <2>1, QuietKeepsHold
<1> QED BY <1>3, <1>4

\* A request, when there is no other.
LEMMA RequestKeepsHold ==
  ASSUME \A c, d \in Client : c = d,
         IndInv, OrderlyInv, HoldInv, NEW c \in Client,
         Request(c) \/ RequestStep(c) \/ KillFollowUp(c)
  PROVE  HoldInv'
<1> DEFINE s == frame[c].s
<1>1. /\ proc \in [Session -> {"dead", "running", "stopped"}] /\ frame \in [Thread -> Frame]
      /\ session \in [Session -> Entry]
      /\ Handler \in Thread /\ c \in Thread /\ c # Handler
      /\ \A d \in Client : d = c
      /\ frame[c].pc # "idle" => up /\ s \in Session
  BY EnforcementAssumption DEF IndInv, TypeOK, FramesOK, DownIsEmpty, Thread
<1>2. frame'[Handler] = frame[Handler] /\ up' = up
  BY <1>1 DEF Request, ResumeGet, KillGet, RequestStep, ResumeCheck, ResumeSignal, ResumeUnpause,
              ResumeActivate, KillSignal, KillDeactivate, KillUnpause, KillRecord, KillFollowUp,
              Call, Goto, Return
<1>3. ASSUME UNCHANGED <<proc, term, paused>>, frame'[c].pc \in {"idle", "resume_check", "kill_signal", "resume_activate"}
      PROVE  HoldInv'
  BY <1>1, <1>2, <1>3 DEF HoldInv, StoppedIsHeld, RequestInv, Busy
<1>4. CASE Request(c)
  BY <1>1, <1>3, <1>4 DEF Request, ResumeGet, KillGet, Call, agent
<1>5. CASE ResumeCheck(c)
  <2>1. UNCHANGED <<proc, term, paused>>
    BY <1>5 DEF ResumeCheck, agent
  <2>2. CASE s \in paused
    <3>1. frame'[c].pc = "resume_signal" /\ frame'[c].s = s
      BY <1>1, <1>5, <2>2 DEF ResumeCheck, Goto, Frame
    <3> QED BY <1>1, <1>2, <2>1, <2>2, <3>1 DEF HoldInv, StoppedIsHeld, RequestInv, Busy
  <2>3. CASE s \notin paused
    <3>1. frame'[c].pc = "idle"
      BY <1>1, <1>5, <2>3 DEF ResumeCheck, Return, Idle
    <3> QED BY <1>3, <2>1, <3>1
  <2> QED BY <2>2, <2>3
<1>6. CASE ResumeSignal(c)
  <2>1. /\ s \in Session /\ frame'[c].pc = "resume_unpause" /\ frame'[c].s = s
        /\ UNCHANGED <<term, paused>> /\ (s \in paused \/ proc[s] = "dead")
    BY <1>1, <1>6 DEF ResumeSignal, Goto, Frame, HoldInv, RequestInv
  <2>2. Alive(s, frame[c].pid) <=> proc[s] # "dead"
    BY <1>1, <1>6, OrderlyAlive DEF ResumeSignal
  <2>3. /\ proc' = IF proc[s] # "dead" THEN [proc EXCEPT ![s] = "running"] ELSE proc
        /\ proc'[s] # "stopped" /\ (proc'[s] = "dead" <=> proc[s] = "dead")
    BY <1>1, <1>6, <2>1, <2>2 DEF ResumeSignal
  <2>4. \A x \in Session : proc'[x] = "stopped" => proc[x] = "stopped"
    BY <1>1, <2>1, <2>3
  <2> QED BY <1>1, <1>2, <2>1, <2>3, <2>4 DEF HoldInv, StoppedIsHeld, RequestInv, Busy
<1>7. CASE ResumeUnpause(c)
  <2>1. /\ proc[s] # "stopped" /\ paused' = paused \ {s} /\ UNCHANGED <<proc, term>>
        /\ frame'[c].pc = "resume_activate"
    BY <1>1, <1>7 DEF ResumeUnpause, Goto, Frame, HoldInv, RequestInv, agent
  <2> QED BY <1>1, <1>2, <2>1 DEF HoldInv, StoppedIsHeld, RequestInv, Busy
<1>8. CASE ResumeActivate(c) \/ KillRecord(c)
  BY <1>1, <1>3, <1>8 DEF ResumeActivate, KillRecord, Return, Idle, agent
<1>9. CASE KillSignal(c)
  <2>1. CASE Alive(s, frame[c].pid)
    <3>1. /\ s \in Session /\ term' = term \cup {s} /\ UNCHANGED <<proc, paused>>
          /\ frame'[c].pc = "kill_deactivate" /\ frame'[c].s = s
      BY <1>1, <1>9, <2>1 DEF KillSignal, Goto, Frame
    <3> QED BY <1>1, <1>2, <3>1 DEF HoldInv, StoppedIsHeld, RequestInv, Busy
  <2>2. CASE ~Alive(s, frame[c].pid)
    BY <1>1, <1>3, <1>9, <2>2 DEF KillSignal, Return, Idle
  <2> QED BY <2>1, <2>2
<1>10. CASE KillDeactivate(c)
  <2>1. /\ UNCHANGED <<proc, term, paused>> /\ (s \in term \/ proc[s] = "dead")
        /\ frame'[c].pc = "kill_unpause" /\ frame'[c].s = s
    BY <1>1, <1>10 DEF KillDeactivate, Goto, Frame, HoldInv, RequestInv, agent
  <2> QED BY <1>1, <1>2, <2>1 DEF HoldInv, StoppedIsHeld, RequestInv, Busy
<1>11. CASE KillUnpause(c)
  <2>1. /\ paused' = paused \ {s} /\ UNCHANGED <<proc, term>> /\ (s \in term \/ proc[s] = "dead")
        /\ frame'[c].pc = "kill_record" /\ frame'[c].s = s
    BY <1>1, <1>11 DEF KillUnpause, Goto, Frame, HoldInv, RequestInv, agent
  <2> QED BY <1>1, <1>2, <2>1 DEF HoldInv, StoppedIsHeld, RequestInv, Busy
<1>12. CASE KillFollowUp(c)
  <2>1. /\ s \in Session /\ proc' = [proc EXCEPT ![s] = "dead"] /\ term' = term \ {s}
        /\ UNCHANGED <<paused, frame>>
    BY <1>1, <1>12 DEF KillFollowUp
  <2> QED BY <1>1, <1>2, <2>1 DEF HoldInv, StoppedIsHeld, RequestInv, Busy
<1> QED BY <1>4, <1>5, <1>6, <1>7, <1>8, <1>9, <1>10, <1>11, <1>12 DEF RequestStep

\* An agent that LoopGuard froze is in the paused map, from which alone a resume can
\* thaw it, or about to get there: whatever pauses, resumes or kills interleave with
\* the reaper and the rediscovery loop.  Besides the hypotheses on the agents this
\* takes a daemon that is not stopped, since the map is in memory only, and requests
\* that come one at a time: of two that resume the same session, the later may take
\* it out of the map after the handler has stopped it again.
THEOREM FrozenAgentsAreHeld ==
  ASSUME "late_start" \notin Environment, "pid_missed" \notin Environment,
         "daemon_stop" \notin Environment, \A c, d \in Client : c = d
  PROVE  Spec => []StoppedIsHeld
<1>1. IndInv /\ OrderlyInv /\ HoldInv /\ [Next]_vars => OrderlyInv' /\ HoldInv'
  <2> SUFFICES ASSUME IndInv, OrderlyInv, HoldInv, [Next]_vars PROVE HoldInv'
    BY StepKeepsOrderly
  <2>1. CASE Start
    <3>1. \A t \in Thread : frame'[t].pc = "idle"
      BY <2>1 DEF Start, IndInv, DownIsEmpty
    <3> QED BY <2>1, <3>1 DEF Start, HoldInv, StoppedIsHeld, RequestInv, Thread, agent
  <2>2. CASE Stop
    BY <2>2 DEF Stop
  <2>3. ASSUME NEW s \in Session, AgentStep(s) PROVE HoldInv'
    BY <2>3, AgentKeepsHold
  <2>4. ASSUME NEW s \in Session, EventStep(s) \/ RediscoverStep(s) PROVE HoldInv'
    BY <2>4, QuietKeepsHold DEF EventStep, AutoRegister, EmitPause, RediscoverStep, RediscoverScan,
                                RediscoverAdd, agent
  <2>5. ASSUME NEW c \in Client, Request(c) \/ RequestStep(c) \/ KillFollowUp(c) PROVE HoldInv'
    BY <2>5, RequestKeepsHold
  <2>6. CASE HandlerStep \/ ReaperStep
    BY <2>6, HandlerKeepsHold, ReaperKeepsHold
  <2>7. CASE UNCHANGED vars
    BY <2>7, QuietKeepsHold DEF vars, agent
  <2> QED BY <2>1, <2>2, <2>3, <2>4, <2>5, <2>6, <2>7 DEF Next
<1>2. HoldInv => StoppedIsHeld
  BY DEF HoldInv
<1>3. Init => OrderlyInv /\ HoldInv
  BY InitIsOrderly, InitHolds
<1> QED BY <1>1, <1>2, <1>3, Inductive, PTL DEF Spec

----------------------------------------------------------------------------
(* Sentinel files.  They are removed by directory, and a directory is all   *)
(* that relates one to the session it was written for.                     *)

\* Wherever a goroutine or the registry has the directory of a session, it is the
\* one its discoverer gives it; nobody resumes or kills; and a sentinel file is
\* owned.
DirInv ==
    /\ ~up => sentinel = {}
    /\ \A s \in Session : session[s].known => session[s].dir = FoundDir[s]
    /\ \A t \in Thread : frame[t].pc # "idle" => frame[t].dir = FoundDir[frame[t].s]
    /\ \A c \in Client : frame[c].pc = "idle"
    /\ SentinelIsOwned

LEMMA InitHasDirInv == Init => DirInv
<1> SUFFICES ASSUME Init PROVE DirInv
  OBVIOUS
<1>1. \A t \in Thread : frame[t].pc = "idle"
  BY DEF Init, Idle
<1> QED BY <1>1 DEF Init, DirInv, Unknown, SentinelIsOwned, Thread

\* Where the sessions have their directories does not change.
LEMMA StepKeepsDirs ==
  ASSUME FoundDir = AutoDir, IndInv, DirInv, [Next]_vars
  PROVE  /\ \A s \in Session : session'[s].known => session'[s].dir = FoundDir[s]
         /\ \A t \in Thread : frame'[t].pc # "idle" => frame'[t].dir = FoundDir[frame'[t].s]
<1>1. ASSUME NEW s \in Session, session'[s].known PROVE session'[s].dir = FoundDir[s]
  <2>1. session \in [Session -> Entry] /\ found \in [Session -> Pid \cup {Unscanned}]
    BY DEF IndInv, TypeOK
  <2>2. CASE PidsUntouched
    BY <1>1, <2>2 DEF PidsUntouched, DirInv
  <2>3. CASE Start
    BY <1>1, <2>3 DEF Start, Discovered, Unknown
  <2>4. CASE Stop
    BY <1>1, <2>4 DEF Stop, Unknown
  <2>5. ASSUME NEW x \in Session, AgentStart(x) \/ RediscoverScan(x)
        PROVE  session'[s].dir = FoundDir[s]
    BY <1>1, <2>5 DEF AgentStart, RediscoverScan, DirInv
  <2>6. ASSUME NEW x \in Session, AutoRegister(x) \/ RediscoverAdd(x)
        PROVE  session'[s].dir = FoundDir[s]
    BY <1>1, <2>1, <2>6 DEF AutoRegister, RediscoverAdd, Inferred, Discovered, DirInv
  <2> QED BY OtherStepsTouchNoPid, <2>2, <2>3, <2>4, <2>5, <2>6 DEF PidStep, RediscoverStep
<1>2. ASSUME NEW t \in Thread, frame'[t].pc # "idle"
      PROVE  frame'[t].dir = FoundDir[frame'[t].s]
  <2>1. CASE Holds(t)
    BY <2>1 DEF Holds, DirInv
  <2>2. CASE Begins(t)
    BY <2>2 DEF Begins, DirInv
  <2> QED BY <1>2, <2>1, <2>2, StepFollows DEF FramesFollow
<1> QED BY <1>1, <1>2

\* The handler writes a sentinel file, and keeps hold of it until its session is in
\* the paused map.
LEMMA HandlerKeepsSentinels ==
  ASSUME IndInv, DirInv, HandlerStep
  PROVE  SentinelIsOwned'
<1>1. /\ frame \in [Thread -> Frame] /\ session \in [Session -> Entry]
      /\ Handler \in Thread /\ Reaper \in Thread /\ Handler # Reaper
      /\ \A t \in Thread : frame[t].pc # "idle" => up /\ frame[t].s \in Session
                                                   /\ session[frame[t].s].known
  BY EnforcementAssumption DEF IndInv, TypeOK, FramesOK, DownIsEmpty, Thread, Handler, Reaper
<1>2. frame'[Reaper] = frame[Reaper] /\ up' = up
  BY <1>1 DEF HandlerStep, AlertTake, AlertCheck, AlertPause, AlertMark, AlertDeactivate,
              AlertRecord, Call, Goto, Return
<1>3. ASSUME frame[Handler].pc # "mark", UNCHANGED <<paused, sentinel>>,
             \A s \in Session : session'[s].dir = session[s].dir
      PROVE  SentinelIsOwned'
  <2>1. paused \subseteq Session
    BY DEF IndInv, TypeOK
  <2> QED BY <1>2, <1>3, <2>1 DEF DirInv, SentinelIsOwned
<1>4. CASE AlertTake \/ AlertCheck \/ AlertRecord
  BY <1>3, <1>4 DEF AlertTake, AlertCheck, AlertRecord
<1>5. CASE AlertDeactivate
  BY <1>1, <1>3, <1>5 DEF AlertDeactivate, Entry
<1>6. CASE AlertPause
  <2>1. UNCHANGED <<paused, session>> /\ frame[Handler].pc = "pause"
    BY <1>6 DEF AlertPause
  <2>2. CASE sentinel' = sentinel
    BY <1>2, <2>1, <2>2 DEF DirInv, SentinelIsOwned
  <2>3. CASE sentinel' # sentinel
    <3>1. /\ sentinel' = sentinel \cup {frame[Handler].dir}
          /\ frame'[Handler].pc = "mark" /\ frame'[Handler].dir = frame[Handler].dir
      BY <1>1, <1>6, <2>3 DEF AlertPause, Goto, Frame
    <3> QED BY <1>2, <2>1, <3>1 DEF DirInv, SentinelIsOwned
  <2> QED BY <2>2, <2>3
<1>7. CASE AlertMark
  <2>1. /\ UNCHANGED <<session, sentinel>> /\ paused' = paused \cup {frame[Handler].s}
        /\ session[frame[Handler].s].dir = frame[Handler].dir
    BY <1>1, <1>7 DEF AlertMark, DirInv
  <2> QED BY <1>2, <2>1 DEF DirInv, SentinelIsOwned
<1> QED BY <1>4, <1>5, <1>6, <1>7 DEF HandlerStep

\* The reaper keeps hold of the file of a session that it takes out of the map, until
\* it has removed it.
LEMMA ReaperKeepsSentinels ==
  ASSUME IndInv, DirInv, ReaperStep
  PROVE  SentinelIsOwned'
<1>1. /\ frame \in [Thread -> Frame] /\ session \in [Session -> Entry] /\ paused \subseteq Session
      /\ Handler \in Thread /\ Reaper \in Thread /\ Handler # Reaper
      /\ \A t \in Thread : frame[t].pc # "idle" => up /\ frame[t].s \in Session
                                                   /\ session[frame[t].s].known
  BY EnforcementAssumption DEF IndInv, TypeOK, FramesOK, DownIsEmpty, Thread, Handler, Reaper
<1>2. frame'[Handler] = frame[Handler] /\ up' = up
  BY <1>1 DEF ReaperStep, ReapTick, ReapVisit, ReapUnpause, ReapTerminate, ReapSweep, ReapRecord,
              Call, Goto, Return
<1>3. CASE ReapTick
  BY <1>3 DEF ReapTick, DirInv, SentinelIsOwned
<1>4. ASSUME NEW s \in Session, ReapVisit(s) PROVE SentinelIsOwned'
  <2>1. UNCHANGED <<up, session, paused, sentinel>> /\ frame[Reaper].pc = "idle"
    BY <1>4 DEF ReapVisit
  <2> QED BY <1>2, <2>1 DEF DirInv, SentinelIsOwned, ReaperPc
<1>5. CASE ReapUnpause
  <2>1. /\ UNCHANGED <<session, sentinel>> /\ paused' = paused \ {frame[Reaper].s}
        /\ session[frame[Reaper].s].dir = frame[Reaper].dir
        /\ frame'[Reaper].pc = "reap_terminate" /\ frame'[Reaper].dir = frame[Reaper].dir
    BY <1>1, <1>5 DEF ReapUnpause, Goto, Frame, DirInv
  <2> QED BY <1>2, <2>1 DEF DirInv, SentinelIsOwned, ReaperPc
<1>6. CASE ReapTerminate
  <2>1. /\ UNCHANGED <<paused, sentinel>>
        /\ \A s \in Session : session'[s].dir = session[s].dir
        /\ frame'[Reaper].pc = "reap_sweep" /\ frame'[Reaper].dir = frame[Reaper].dir
    BY <1>1, <1>6 DEF ReapTerminate, Goto, Frame, Entry
  <2> QED BY <1>1, <1>2, <2>1 DEF DirInv, SentinelIsOwned, ReaperPc
<1>7. CASE ReapSweep
  <2>1. UNCHANGED <<session, paused>> /\ sentinel' = sentinel \ {frame[Reaper].dir}
    BY <1>7 DEF ReapSweep
  <2> QED BY <1>2, <2>1 DEF DirInv, SentinelIsOwned
<1>8. CASE ReapRecord
  <2>1. UNCHANGED <<session, paused, sentinel>> /\ frame[Reaper].pc = "reap_record"
    BY <1>8 DEF ReapRecord
  <2> QED BY <1>2, <2>1 DEF DirInv, SentinelIsOwned
<1> QED BY <1>3, <1>4, <1>5, <1>6, <1>7, <1>8 DEF ReaperStep

\* No sentinel file is left behind where agents are left to LoopGuard alone: until the
\* reaper removes it, a session of its directory is paused, however often agents start
\* and die, are missed by the discoverers or share a directory.  A discoverer has to
\* find a session where inferSessionInfo does, or the file is looked for elsewhere.
THEOREM SentinelsAreOwned ==
  ASSUME FoundDir = AutoDir,
         Environment \cap {"resume", "kill", "daemon_stop"} = {}
  PROVE  Spec => []SentinelIsOwned
<1>1. IndInv /\ DirInv /\ [Next]_vars => DirInv'
  <2> SUFFICES ASSUME IndInv, DirInv, [Next]_vars PROVE DirInv'
    OBVIOUS
  <2>0. /\ paused \subseteq Session /\ session \in [Session -> Entry]
        /\ found \in [Session -> Pid \cup {Unscanned}]
        /\ Handler \in Thread /\ Reaper \in Thread /\ Client \subseteq Thread
        /\ \A t \in Thread : frame[t].pc # "idle" => up
        /\ Handler \notin Client /\ Reaper \notin Client
    BY EnforcementAssumption DEF IndInv, TypeOK, DownIsEmpty, Thread
  <2>1. /\ \A s \in Session : session'[s].known => session'[s].dir = FoundDir[s]
        /\ \A t \in Thread : frame'[t].pc # "idle" => frame'[t].dir = FoundDir[frame'[t].s]
    BY StepKeepsDirs
  <2>2. \A s \in paused : session[s].known
    BY DEF IndInv, PausedIsKnown
  <2>3. ASSUME UNCHANGED <<up, paused, frame, sentinel>>,
               \A s \in paused : session'[s].dir = session[s].dir
        PROVE  DirInv'
    BY <2>0, <2>1, <2>3 DEF DirInv, SentinelIsOwned
  <2>4. CASE Start
    <3>1. paused = {} /\ sentinel' = {} /\ frame' = frame /\ up'
      BY <2>4 DEF Start, IndInv, DownIsEmpty, DirInv
    <3> QED BY <2>1, <3>1 DEF DirInv, SentinelIsOwned
  <2>5. CASE Stop
    BY <2>5 DEF Stop
  <2>6. ASSUME NEW s \in Session, AgentStep(s) \/ EmitPause(s) \/ RediscoverScan(s)
        PROVE  DirInv'
    BY <2>3, <2>6 DEF AgentStep, AgentStart, AgentDies, TermDelivered, ExternalCont, EmitPause,
                      RediscoverScan, agent
  <2>7. ASSUME NEW s \in Session, AutoRegister(s) PROVE DirInv'
    BY <2>0, <2>2, <2>3, <2>7 DEF AutoRegister, agent
  <2>8. ASSUME NEW s \in Session, RediscoverAdd(s) PROVE DirInv'
    BY <2>0, <2>2, <2>3, <2>8 DEF RediscoverAdd, Discovered, DirInv, agent
  <2>9. ASSUME NEW c \in Client, Request(c) \/ RequestStep(c) \/ KillFollowUp(c) PROVE FALSE
    <3>1. frame[c].pc = "idle"
      BY DEF DirInv
    <3> QED BY <2>9, <3>1 DEF Request, ResumeGet, KillGet, RequestStep, ResumeCheck, ResumeSignal,
                ResumeUnpause, ResumeActivate, KillSignal, KillDeactivate, KillUnpause, KillRecord,
                KillFollowUp
  <2>10. ASSUME HandlerStep \/ ReaperStep PROVE DirInv'
    <3>1. SentinelIsOwned'
      BY <2>10, HandlerKeepsSentinels, ReaperKeepsSentinels
    <3>2. \A c \in Client : frame'[c] = frame[c]
      BY <2>0, <2>10 DEF HandlerStep, AlertTake, AlertCheck, AlertPause, AlertMark,
           AlertDeactivate, AlertRecord, ReaperStep, ReapTick, ReapVisit, ReapUnpause,
           ReapTerminate, ReapSweep, ReapRecord, Call, Goto, Return, IndInv, TypeOK
    <3>3. up' = up /\ (up \/ sentinel' = sentinel)
      BY <2>0, <2>10 DEF HandlerStep, AlertTake, AlertCheck, AlertPause, AlertMark,
           AlertDeactivate, AlertRecord, ReaperStep, ReapTick, ReapVisit, ReapUnpause,
           ReapTerminate, ReapSweep, ReapRecord
    <3> QED BY <2>1, <3>1, <3>2, <3>3 DEF DirInv
  <2>11. CASE UNCHANGED vars
    BY <2>3, <2>11 DEF vars
  <2> QED BY <2>4, <2>5, <2>6, <2>7, <2>8, <2>9, <2>10, <2>11 DEF Next, EventStep, RediscoverStep
<1>2. DirInv => SentinelIsOwned
  BY DEF DirInv
<1> QED BY <1>1, <1>2, InitHasDirInv, Inductive, PTL DEF Spec
=============================================================================

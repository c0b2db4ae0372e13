------------------------------- MODULE Reload -------------------------------
(***************************************************************************)
(* Hot reload: config.Load and Validate, watchConfig with its debounce     *)
(* timer, and reloadConfig, which runs in the goroutine of the timer.      *)
(*                                                                         *)
(* A configuration is five settings that are treated differently, each     *)
(* for its like: per_session and per_day for limits (an environment        *)
(* variable beats the file), warn_at and repeated_calls for settings that  *)
(* get their default when they are not positive, desktop for the           *)
(* notifications; and the price overrides.                                 *)
(***************************************************************************)
EXTENDS Pricing

CONSTANTS
    Document,      \* contents of a file: [ok, keys], keys the settings it has
    EmptyDocument, \* a file of length 0
    NoFile,        \* there is none
    NoDocument,    \* nobody is writing
    Default,       \* config.Default
    Env,           \* the settings environment variables give
    Models,        \* the models lines may name
    Reloader,      \* goroutines of timers
    MaxEdits       \* bound: changes of the file

ASSUME ReloadAssumption ==
    /\ EmptyDocument \in Document /\ {NoFile, NoDocument} \cap Document = {}
    /\ Models \subseteq Seq(Char)
    /\ MaxEdits \in Nat

VARIABLES
    file, saving,  \* what the file is, and what is being written to it
    watching,      \* watchConfig watches the directory
    events,        \* fsnotify's queue, for events of the file
    timer,         \* the debounce timer is armed
    reload,        \* reloadConfig: pc, newCfg, and whether it has been alone (history)
    cfg,           \* Daemon.cfg
    budget, spin, notify, \* the settings the sub-components go by
    calc,          \* CostCalculator: pricing and sorted
    edits,
    missed,        \* history: the last edit was before the watch
    tidy           \* history: the last reload that replaced anything was alone

environment == <<file, saving, edits, missed>>
components == <<budget, spin, notify, calc>>
vars == <<environment, watching, events, timer, reload, cfg, components, tidy>>

----------------------------------------------------------------------------
(* config.go                                                               *)

Unmarshalled(doc) == doc.keys @@ Default

Positive(value, default) == IF value <= 0 THEN default ELSE value

ApplyDefaults(c) ==
    [c EXCEPT !.warn_at = Positive(@, Default.warn_at),
              !.repeated_calls = Positive(@, Default.repeated_calls)]

ApplyEnv(c) == Env @@ c

Loads(f) == f # NoFile => f.ok

Load(f) == ApplyEnv(IF f = NoFile THEN Default ELSE ApplyDefaults(Unmarshalled(f)))

Valid(c) ==
    /\ c.per_session >= 0 /\ c.per_day >= 0
    /\ c.warn_at \in 0..100 /\ c.repeated_calls >= 1

\* What there is to run with; every configuration has all settings.
Config == {Default} \cup {Load(f) : f \in {g \in Document \cup {NoFile} : Loads(g)}}

ASSUME ConfigAssumption ==
    \A c \in Config : DOMAIN c = DOMAIN Default /\ IsTable(c.pricing)

\* The four numbers UpdateBudget takes, of which three.
BudgetOf(c) == [per_session |-> c.per_session, per_day |-> c.per_day, warn_at |-> c.warn_at]

\* GetConfig: what `loopguard config show` reports.
Shown == [budget |-> BudgetOf(cfg), spin |-> cfg.repeated_calls, notify |-> cfg.desktop]

----------------------------------------------------------------------------
(* Whoever edits the file.                                                 *)

Notice(kind) ==
    /\ events' = IF watching THEN Append(events, kind) ELSE events
    /\ missed' = ~watching

Edit(new, kind) ==
    /\ saving = NoDocument /\ edits < MaxEdits
    /\ file' = new /\ edits' = edits + 1
    /\ Notice(kind)
    /\ UNCHANGED <<watching, timer, reload, cfg, components, tidy>>

\* An editor that saves in place, `cp`, or `config init`: open, then write.
Open(doc) ==
    /\ Edit(EmptyDocument, IF file = NoFile THEN "create" ELSE "write")
    /\ saving' = doc

Write ==
    /\ saving # NoDocument
    /\ file' = saving /\ saving' = NoDocument
    /\ Notice("write")
    /\ UNCHANGED <<watching, timer, reload, cfg, components, edits, tidy>>

\* An editor that writes another file and renames it.
RenameOver(doc) == Edit(doc, "create") /\ UNCHANGED saving

RenameAway == file # NoFile /\ Edit(NoFile, "rename") /\ UNCHANGED saving

Delete == file # NoFile /\ Edit(NoFile, "remove") /\ UNCHANGED saving

----------------------------------------------------------------------------
(* watchConfig                                                             *)

Watch ==
    /\ ~watching /\ watching' = TRUE
    /\ UNCHANGED <<environment, events, timer, reload, cfg, components, tidy>>

\* Mutant: only writes count.
Relevant_WriteOnly == {"write"}

Relevant == {"write", "create", "rename"}

\* The timer is stopped and a new one started: what has fired already runs on.
TakeEvent ==
    /\ events # <<>> /\ events' = Tail(events)
    /\ timer' = (timer \/ Head(events) \in Relevant)
    /\ UNCHANGED <<environment, watching, reload, cfg, components, tidy>>

----------------------------------------------------------------------------
(* reloadConfig                                                            *)

Idle == [pc |-> "idle", newCfg |-> Default, alone |-> TRUE]
Running == {r \in Reloader : reload[r].pc # "idle"}

At(r, pc) == reload[r].pc = pc
Goto(r, pc) == reload' = [reload EXCEPT ![r].pc = pc]

TimerFires(r) ==
    /\ timer /\ At(r, "idle") /\ timer' = FALSE
    /\ reload' = [x \in Reloader |->
         IF x = r THEN [Idle EXCEPT !.pc = "load", !.alone = (Running = {})]
         ELSE IF x \in Running THEN [reload[x] EXCEPT !.alone = FALSE]
         ELSE reload[x]]
    /\ UNCHANGED <<environment, watching, events, cfg, components, tidy>>

\* Mutant: what is loaded is not validated.
ReloadLoad_Unvalidated(r) ==
    /\ At(r, "load")
    /\ reload' = [reload EXCEPT ![r] =
         IF Loads(file) THEN [@ EXCEPT !.pc = "swap", !.newCfg = Load(file)] ELSE Idle]
    /\ UNCHANGED <<environment, watching, events, timer, cfg, components, tidy>>

ReloadLoad(r) ==
    /\ At(r, "load")
    /\ reload' = [reload EXCEPT ![r] =
         IF Loads(file) /\ Valid(Load(file))
         THEN [@ EXCEPT !.pc = "swap", !.newCfg = Load(file)] ELSE Idle]
    /\ UNCHANGED <<environment, watching, events, timer, cfg, components, tidy>>

\* Mutant: a file with the limits in force changes nothing.
ReloadSwap_SameLimits(r) ==
    /\ At(r, "swap")
    /\ cfg' = reload[r].newCfg
    /\ IF BudgetOf(cfg) = BudgetOf(cfg')
       THEN reload' = [reload EXCEPT ![r] = Idle] /\ tidy' = reload[r].alone
       ELSE Goto(r, "budget") /\ UNCHANGED tidy
    /\ UNCHANGED <<environment, watching, events, timer, components>>

ReloadSwap(r) ==
    /\ At(r, "swap") /\ Goto(r, "budget")
    /\ cfg' = reload[r].newCfg
    /\ UNCHANGED <<environment, watching, events, timer, components, tidy>>

ReloadBudget(r) ==
    /\ At(r, "budget") /\ Goto(r, "spin")
    /\ budget' = BudgetOf(reload[r].newCfg)
    /\ UNCHANGED <<environment, watching, events, timer, cfg, spin, notify, calc, tidy>>

ReloadSpin(r) ==
    /\ At(r, "spin") /\ Goto(r, "notify")
    /\ spin' = reload[r].newCfg.repeated_calls
    /\ UNCHANGED <<environment, watching, events, timer, cfg, budget, notify, calc, tidy>>

ReloadNotify(r) ==
    /\ At(r, "notify") /\ Goto(r, "prices")
    /\ notify' = reload[r].newCfg.desktop
    /\ UNCHANGED <<environment, watching, events, timer, cfg, budget, spin, calc, tidy>>

\* Mutant: the table is replaced, the sorted entries are not.
UpdatePricing_TableOnly(overrides) ==
    calc' = [calc EXCEPT !.pricing = Merged(overrides)]

UpdatePricing(overrides) == calc' \in Calculators(overrides)

\* Without overrides the prices stay what they are.
ReloadPrices(r) ==
    /\ At(r, "prices")
    /\ LET overrides == reload[r].newCfg.pricing
       IN  IF DOMAIN overrides # {} THEN UpdatePricing(overrides) ELSE UNCHANGED calc
    /\ tidy' = reload[r].alone
    /\ reload' = [reload EXCEPT ![r] = Idle]
    /\ UNCHANGED <<environment, watching, events, timer, cfg, budget, spin, notify>>

ReloadStep(r) ==
    \/ ReloadLoad(r) \/ ReloadSwap(r) \/ ReloadBudget(r)
    \/ ReloadSpin(r) \/ ReloadNotify(r) \/ ReloadPrices(r)

----------------------------------------------------------------------------
\* The daemon starts with what it can load, whether it is valid or not; the
\* directory is watched only after the first discovery.
Init ==
    /\ file \in Document \cup {NoFile} /\ Loads(file)
    /\ cfg = Load(file)
    /\ budget = BudgetOf(cfg) /\ spin = cfg.repeated_calls /\ notify = cfg.desktop
    /\ calc \in Calculators(cfg.pricing)
    /\ saving = NoDocument /\ edits = 0 /\ missed = FALSE /\ tidy = TRUE
    /\ watching = FALSE /\ events = <<>> /\ timer = FALSE
    /\ reload = [r \in Reloader |-> Idle]

Next ==
    \/ \E doc \in Document : Open(doc) \/ RenameOver(doc)
    \/ Write \/ RenameAway \/ Delete \/ Watch \/ TakeEvent
    \/ \E r \in Reloader : TimerFires(r) \/ ReloadStep(r)

Fairness ==
    /\ WF_vars(Watch) /\ WF_vars(TakeEvent)
    /\ WF_vars(\E r \in Reloader : TimerFires(r))
    /\ \A r \in Reloader : WF_vars(ReloadStep(r))

Spec == Init /\ [][Next]_vars /\ Fairness

----------------------------------------------------------------------------
(* Properties.                                                             *)

\* Every variable has its type; what a reload is about to put in force has been
\* validated.
TypeOK ==
    /\ file \in Document \cup {NoFile} /\ saving \in Document \cup {NoDocument}
    /\ watching \in BOOLEAN /\ timer \in BOOLEAN /\ missed \in BOOLEAN /\ tidy \in BOOLEAN
    /\ events \in Seq({"write", "create", "rename", "remove"})
    /\ edits \in 0..MaxEdits
    /\ DOMAIN cfg = DOMAIN Default
    /\ \A r \in Reloader :
         /\ reload[r].pc \in {"idle", "load", "swap", "budget", "spin", "notify", "prices"}
         /\ reload[r].pc \notin {"idle", "load"} => Valid(reload[r].newCfg)
    /\ IsTable(calc.pricing)

\* Every sub-component goes by the configuration c.  Prices are kept when c has none.
InForce(c) ==
    /\ budget = BudgetOf(c) /\ spin = c.repeated_calls /\ notify = c.desktop
    /\ DOMAIN c.pricing # {} => calc.pricing = Merged(c.pricing)

\* Whatever reloads that overlapped have left of two configurations, the next one that
\* runs alone repairs: when it is done, all sub-components go by the configuration
\* that `loopguard config show` reports.
LoneReloadRepairs ==
    Running = {} /\ tidy =>
      /\ Shown = [budget |-> budget, spin |-> spin, notify |-> notify]
      /\ DOMAIN cfg.pricing # {} => calc.pricing = Merged(cfg.pricing)

\* Whatever was reloaded, and at any moment, every model a line may name is priced by
\* the longest name in the table that is a prefix of it: the table and the sorted entries
\* are of the same configuration, and the order of a map does not matter.
PriceIsLongestPrefix ==
    \A model \in Models : Resolve(calc, model) = PriceOf(calc.pricing, model)

\* A valid file that is left as it is gets into force in the end, however it was saved,
\* if the directory was watched when it was and no two reloads overlap.
EditTakesEffect ==
    \A doc \in {d \in Document : d.ok /\ Valid(Load(d))} :
      [](Cardinality(Running) <= 1) /\ <>[](file = doc /\ ~missed)
        => <>[](cfg = Load(doc) /\ InForce(cfg))
=============================================================================

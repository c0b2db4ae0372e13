------------------------------ MODULE Sessions ------------------------------
(***************************************************************************)
(* Which session a line of a log is charged to.  The watcher keeps two     *)
(* maps, of tailers and of session IDs; pollers and debounce callbacks     *)
(* read files and name their sessions from them; discovery fills them and  *)
(* the registry, at startup and every minute; processEvents looks the      *)
(* session up, or registers it, and so chooses the parser.                 *)
(*                                                                         *)
(* A file is a number of lines: how it is read is in Tailer, how a channel *)
(* and a timer behave in Pipeline.                                         *)
(***************************************************************************)
EXTENDS Integers, Sequences, FiniteSets

CONSTANTS
    File,
    Agent,         \* whose log a file is: "claude", "codex", "gemini" or "custom"
    Dir,           \* the name of its directory
    Stem,          \* its own name without .jsonl, as a sequence of parts
    SessionPrefix, \* the part "session-"
    Unsafe, Underscore, \* parts that are not safe in an ID, and what replaces them
    Discoverers,   \* the agents whose discoverers there are, in their order
    Poller, Callback, \* goroutines that read files
    NoId,
    Capacity,      \* of the channel of events (256 in the code)
    MaxLines,      \* bound: lines of each file
    Deletable      \* the files somebody may delete

Agents == {"claude", "codex", "gemini", "custom"}
Reader == Poller \cup Callback
Tailer == 1..(Cardinality(File) + Cardinality(Reader))

\* readAndEmit's name for the session of a file it knows nothing about.
NameId(f) == Stem[f]

\* What the discoverers call it.
CodexId(f) == <<Dir[f]>>
GeminiId(f) == Tail(Stem[f])
CustomId(f) ==
    [i \in DOMAIN Stem[f] |-> IF Stem[f][i] \in Unsafe THEN Underscore ELSE Stem[f][i]]

FoundId(f) ==
    CASE Agent[f] = "claude" -> Stem[f]
      [] Agent[f] = "codex"  -> CodexId(f)
      [] Agent[f] = "gemini" -> GeminiId(f)
      [] Agent[f] = "custom" -> CustomId(f)

IdsOf(f) == {FoundId(f), NameId(f)}
SessionId == UNION {IdsOf(f) : f \in File}

\* An ID is of one agent only, and that of a Codex or Gemini session is not the name
\* of any of its agent's files.
ASSUME SessionsAssumption ==
    /\ IsFiniteSet(File) /\ File # {} /\ IsFiniteSet(Reader)
    /\ Agent \in [File -> Agents] /\ Discoverers \in Seq(Agents)
    /\ \A f \in File : Stem[f] # <<>>
    /\ \A f, g \in File : IdsOf(f) \cap IdsOf(g) # {} => Agent[f] = Agent[g]
    /\ \A f, g \in File : Agent[f] \in {"codex", "gemini"} => FoundId(g) # NameId(f)
    /\ NoId \notin SessionId
    /\ Capacity \in Nat \ {0} /\ MaxLines \in [File -> Nat] /\ Deletable \subseteq File

VARIABLES
    lines,         \* the lines of a file, or Absent
    notice,        \* the files with a debounce timer about to fire
    tailers,       \* Watcher.tailers: a tailer, or NoTailer
    offset,        \* the lines each tailer has read
    ids,           \* Watcher.sessionIDs: the ID, or NoId
    reader,        \* readAndEmit in each goroutine: pc, file, tailer, the lines read
    todo,          \* pollAll: the files a poller still has to visit
    events,        \* the channel of events
    registry,      \* Registry.sessions: [agent, pid], pid whether it has a PID
    scan,          \* discoverSessions: pc, discoverers to come, the files found
    loop,          \* processEvents: pc, its event, its parser
    up,            \* Run has got beyond the first discovery
    gone,          \* the files that have been deleted
    early,         \* history: files found by the first discovery
    sent           \* history: the lines sent, and under which IDs

history == <<gone, early, sent>>
watcher == <<tailers, offset, ids>>
vars == <<lines, notice, watcher, reader, todo, events, registry, scan, loop, up, history>>

Absent == -1
NoTailer == 0
Exists(f) == lines[f] # Absent

Event == [file : File, id : SessionId]

\* Every variable has its type; a tailer has read no more than it may have, an ID
\* is kept for files that have a tailer only.
TypeOK ==
    /\ \A f \in File : lines[f] \in Absent..MaxLines[f]
    /\ lines \in [File -> Int] /\ gone \subseteq Deletable /\ notice \subseteq File
    /\ offset \in [Tailer -> Nat]
    /\ tailers \in [File -> Tailer \cup {NoTailer}]
    /\ ids \in [File -> SessionId \cup {NoId}]
    /\ \A f \in File : tailers[f] = NoTailer => ids[f] = NoId
    /\ \A r \in Reader :
         /\ reader[r].pc \in {"idle", "read", "forget", "send"}
         /\ reader[r].file \in File /\ reader[r].tailer \in Tailer \cup {NoTailer}
         /\ reader[r].new \subseteq 1..MaxLines[reader[r].file]
    /\ todo \in [Poller -> SUBSET File] /\ events \in Seq(Event)
    /\ DOMAIN registry \subseteq SessionId
    /\ \A id \in DOMAIN registry :
         registry[id].agent \in Agents /\ registry[id].pid \in BOOLEAN
    /\ scan.pc \in {"idle", "discover", "add", "file"} /\ scan.found \subseteq File
    /\ loop.pc \in {"idle", "register", "parse"} /\ loop.parser \in Agents
    /\ up \in BOOLEAN

----------------------------------------------------------------------------
(* The logs.                                                               *)

\* fsnotify watches the directories below the base paths; a custom base path is a
\* pattern.  What it misses is a timer that never fires.
Watched(f) == up /\ Agent[f] # "custom"

Notify(f) == notice' = IF Watched(f) THEN notice \cup {f} ELSE notice

Append1(f) ==
    /\ Exists(f) /\ lines[f] < MaxLines[f]
    /\ lines' = [lines EXCEPT ![f] = @ + 1]
    /\ Notify(f)
    /\ UNCHANGED <<watcher, reader, todo, events, registry, scan, loop, up, history>>

Create(f) ==
    /\ ~Exists(f) /\ f \notin gone /\ MaxLines[f] > 0
    /\ lines' = [lines EXCEPT ![f] = 1]
    /\ Notify(f)
    /\ UNCHANGED <<watcher, reader, todo, events, registry, scan, loop, up, history>>

\* A log that is deleted does not come back: its name is new.
Delete(f) ==
    /\ Exists(f) /\ f \in Deletable
    /\ lines' = [lines EXCEPT ![f] = Absent]
    /\ gone' = gone \cup {f}
    /\ UNCHANGED <<notice, watcher, reader, todo, events, registry, scan, loop, up,
                   early, sent>>

----------------------------------------------------------------------------
(* readAndEmit                                                             *)

NoFrame == [pc |-> "idle", file |-> CHOOSE f \in File : TRUE, tailer |-> NoTailer, new |-> {}]

\* The tailers that something refers to; the others are garbage.
InUse == {tailers[f] : f \in File} \cup {reader[r].tailer : r \in Reader}
Keep(o) == offset' = [t \in Tailer |-> IF t \in InUse' THEN o[t] ELSE 0]

NewTailer(f, start) ==
    LET t == CHOOSE t \in Tailer \ InUse : TRUE
    IN  offset' = [offset EXCEPT ![t] = start] /\ tailers' = [tailers EXCEPT ![f] = t]

\* Under w.mu: the tailer of the file, or a new one.
GetTailer(r, f) ==
    /\ reader[r].pc = "idle"
    /\ IF tailers[f] = NoTailer THEN NewTailer(f, 0) ELSE UNCHANGED <<tailers, offset>>
    /\ reader' = [reader EXCEPT ![r] = [pc |-> "read", file |-> f, tailer |-> tailers'[f],
                                       new |-> {}]]

\* pollAll takes all files there are tailers of, whatever its base path.
PollTick(p) ==
    /\ up /\ reader[p].pc = "idle" /\ todo[p] = {}
    /\ todo' = [todo EXCEPT ![p] = {f \in File : tailers[f] # NoTailer}]
    /\ UNCHANGED <<lines, notice, watcher, reader, events, registry, scan, loop, up, history>>

PollFile(p, f) ==
    /\ f \in todo[p] /\ todo' = [todo EXCEPT ![p] = @ \ {f}]
    /\ GetTailer(p, f)
    /\ UNCHANGED <<lines, notice, ids, events, registry, scan, loop, up, history>>

DebounceFire(c, f) ==
    /\ f \in notice /\ notice' = notice \ {f}
    /\ GetTailer(c, f)
    /\ UNCHANGED <<lines, ids, todo, events, registry, scan, loop, up, history>>

ReadNothing(r) ==
    /\ reader[r].pc = "read" /\ lines[reader[r].file] \in 0..offset[reader[r].tailer]
    /\ reader' = [reader EXCEPT ![r] = NoFrame]
    /\ UNCHANGED tailers /\ Keep(offset)
    /\ UNCHANGED <<lines, notice, ids, todo, events, registry, scan, loop, up, history>>

ReadMissing(r) ==
    /\ reader[r].pc = "read" /\ ~Exists(reader[r].file)
    /\ reader' = [reader EXCEPT ![r] =
         [pc |-> "forget", file |-> @.file, tailer |-> NoTailer, new |-> {}]]
    /\ UNCHANGED tailers /\ Keep(offset)
    /\ UNCHANGED <<lines, notice, ids, todo, events, registry, scan, loop, up, history>>

ReadNewLines(r) ==
    LET f == reader[r].file  t == reader[r].tailer
    IN  /\ reader[r].pc = "read" /\ lines[f] > offset[t]
        /\ reader' = [reader EXCEPT ![r] =
             [pc |-> "send", file |-> f, tailer |-> NoTailer, new |-> (offset[t] + 1)..lines[f]]]
        /\ UNCHANGED tailers /\ Keep([offset EXCEPT ![t] = lines[f]])
        /\ UNCHANGED <<lines, notice, ids, todo, events, registry, scan, loop, up, history>>

\* Mutant: the session ID is kept.
ForgetFile_KeepsId(r) ==
    /\ reader[r].pc = "forget"
    /\ tailers' = [tailers EXCEPT ![reader[r].file] = NoTailer]
    /\ reader' = [reader EXCEPT ![r] = NoFrame]
    /\ Keep(offset)
    /\ UNCHANGED <<lines, notice, ids, todo, events, registry, scan, loop, up, history>>

\* Whichever tailer the map has by now.
ForgetFile(r) ==
    /\ reader[r].pc = "forget"
    /\ tailers' = [tailers EXCEPT ![reader[r].file] = NoTailer]
    /\ ids' = [ids EXCEPT ![reader[r].file] = NoId]
    /\ reader' = [reader EXCEPT ![r] = NoFrame]
    /\ Keep(offset)
    /\ UNCHANGED <<lines, notice, todo, events, registry, scan, loop, up, history>>

IdOf(f) == IF ids[f] = NoId THEN NameId(f) ELSE ids[f]

SendLines(r) ==
    LET f == reader[r].file
    IN  /\ reader[r].pc = "send"
        /\ Len(events) < Capacity
        /\ events' = Append(events, [file |-> f, id |-> IdOf(f)])
        /\ sent' = [sent EXCEPT ![f] = [lines |-> @.lines \cup reader[r].new,
                                        ids   |-> @.ids \cup {IdOf(f)}]]
        /\ reader' = [reader EXCEPT ![r] = NoFrame]
        /\ UNCHANGED <<lines, notice, watcher, todo, registry, scan, loop, up,
                       gone, early>>

----------------------------------------------------------------------------
(* discoverSessions, with the first of the discoverers still to come.      *)

LogsOf(agent) == {f \in File : Agent[f] = agent /\ Exists(f)}

\* Of the Gemini files with one ID the one that was modified last.
OnePerId ==
    LET chats == {f \in LogsOf("gemini") : Head(Stem[f]) = SessionPrefix}
    IN  {S \in SUBSET chats : \A f \in chats : \E g \in S :
           S \cap {h \in chats : GeminiId(h) = GeminiId(f)} = {g}}

Discovered(agent) == IF agent = "gemini" THEN OnePerId ELSE {LogsOf(agent)}

Discover ==
    /\ scan.pc = "discover" /\ scan.agents # <<>>
    /\ \E found \in Discovered(Head(scan.agents)) :
         /\ scan' = [scan EXCEPT !.pc = IF found = {} THEN "discover" ELSE "add",
                                !.agents = Tail(@), !.found = found]
         /\ early' = IF up THEN early ELSE early \cup found
    /\ UNCHANGED <<lines, notice, watcher, reader, todo, events, registry, loop, up,
                   gone, sent>>

\* registry.Add, and TryAdd once it has found the ID free.
Add(id, record) ==
    registry' = [i \in DOMAIN registry \cup {id} |->
                   IF i = id THEN record ELSE registry[i]]

\* Mutant: a session that is known stays as it is.
AddSession_TryAdd(f) ==
    /\ scan.pc = "add" /\ f \in scan.found
    /\ scan' = [scan EXCEPT !.pc = "file", !.at = f]
    /\ IF FoundId(f) \in DOMAIN registry THEN UNCHANGED registry
       ELSE Add(FoundId(f), [agent |-> Agent[f], pid |-> TRUE])
    /\ UNCHANGED <<lines, notice, watcher, reader, todo, events, loop, up, history>>

\* The process runs, and is found.
AddSession(f) ==
    /\ scan.pc = "add" /\ f \in scan.found
    /\ scan' = [scan EXCEPT !.pc = "file", !.at = f]
    /\ Add(FoundId(f), [agent |-> Agent[f], pid |-> TRUE])
    /\ UNCHANGED <<lines, notice, watcher, reader, todo, events, loop, up, history>>

NextFound ==
    scan' = [scan EXCEPT !.found = @ \ {scan.at}, !.at = NoFrame.file,
                         !.pc = IF scan.found = {scan.at} THEN "discover" ELSE "add"]

\* Mutant: the tailer is replaced by one at the end of the file.
AddFile_Replaces ==
    /\ scan.pc = "file"
    /\ NewTailer(scan.at, IF Exists(scan.at) THEN lines[scan.at] ELSE 0)
    /\ ids' = [ids EXCEPT ![scan.at] = FoundId(scan.at)]
    /\ NextFound
    /\ UNCHANGED <<lines, notice, reader, todo, events, registry, loop, up, history>>

\* Mutant: the ID is set even if there is a tailer.
AddFile_Renames ==
    /\ scan.pc = "file"
    /\ IF tailers[scan.at] # NoTailer THEN UNCHANGED <<tailers, offset>>
       ELSE NewTailer(scan.at, IF Exists(scan.at) THEN lines[scan.at] ELSE 0)
    /\ ids' = [ids EXCEPT ![scan.at] = FoundId(scan.at)]
    /\ NextFound
    /\ UNCHANGED <<lines, notice, reader, todo, events, registry, loop, up, history>>

\* A file that has a tailer keeps it, and the ID it goes by.
AddFile ==
    /\ scan.pc = "file"
    /\ IF tailers[scan.at] # NoTailer THEN UNCHANGED watcher
       ELSE /\ NewTailer(scan.at, IF Exists(scan.at) THEN lines[scan.at] ELSE 0)
            /\ ids' = [ids EXCEPT ![scan.at] = FoundId(scan.at)]
    /\ NextFound
    /\ UNCHANGED <<lines, notice, reader, todo, events, registry, loop, up, history>>

ScanDone ==
    /\ scan.pc = "discover" /\ scan.agents = <<>>
    /\ scan' = [scan EXCEPT !.pc = "idle"]
    /\ up' = TRUE
    /\ UNCHANGED <<lines, notice, watcher, reader, todo, events, registry, loop, history>>

Rediscover ==
    /\ scan.pc = "idle"
    /\ scan' = [scan EXCEPT !.pc = "discover", !.agents = Discoverers]
    /\ UNCHANGED <<lines, notice, watcher, reader, todo, events, registry, loop, up, history>>

----------------------------------------------------------------------------
(* processEvents                                                           *)

\* There is no parser of custom logs.
ParserOf(agent) == IF agent = "custom" THEN "claude" ELSE agent

\* inferSessionInfo: a custom log is below no base path.
Inferred(f) == IF Agent[f] = "custom" THEN "claude" ELSE Agent[f]

NoEvent == [pc |-> "idle", parser |-> "claude",
            event |-> [file |-> NoFrame.file, id |-> NameId(NoFrame.file)]]

LoopTake ==
    /\ up /\ loop.pc = "idle" /\ events # <<>>
    /\ events' = Tail(events)
    /\ LET e == Head(events)
       IN  loop' = IF e.id \in DOMAIN registry
                   THEN [pc |-> "parse", event |-> e,
                         parser |-> ParserOf(registry[e.id].agent)]
                   ELSE [pc |-> "register", event |-> e, parser |-> "claude"]
    /\ UNCHANGED <<lines, notice, watcher, reader, todo, registry, scan, up, history>>

\* Mutant: a session registered from the watcher is a Claude session.
TryAdd_Claude ==
    /\ loop.pc = "register" /\ loop.event.id \notin DOMAIN registry
    /\ Add(loop.event.id, [agent |-> "claude", pid |-> FALSE])
    /\ loop' = [loop EXCEPT !.pc = "parse"]
    /\ UNCHANGED <<lines, notice, watcher, reader, todo, events, scan, up, history>>

TryAdd ==
    /\ loop.pc = "register" /\ loop.event.id \notin DOMAIN registry
    /\ LET agent == Inferred(loop.event.file)
       IN  /\ Add(loop.event.id, [agent |-> agent, pid |-> FALSE])
           /\ loop' = [loop EXCEPT !.pc = "parse", !.parser = ParserOf(agent)]
    /\ UNCHANGED <<lines, notice, watcher, reader, todo, events, scan, up, history>>

\* Somebody has added the session in the meantime: the parser stays the default.
TryAddFails ==
    /\ loop.pc = "register" /\ loop.event.id \in DOMAIN registry
    /\ loop' = [loop EXCEPT !.pc = "parse"]
    /\ UNCHANGED <<lines, notice, watcher, reader, todo, events, registry, scan, up, history>>

Parse ==
    /\ loop.pc = "parse"
    /\ loop' = NoEvent
    /\ UNCHANGED <<lines, notice, watcher, reader, todo, events, registry, scan, up, history>>

----------------------------------------------------------------------------
Init ==
    /\ lines \in [File -> {Absent, 1}] /\ (\A f \in File : lines[f] <= MaxLines[f])
    /\ notice = {}
    /\ tailers = [f \in File |-> NoTailer] /\ offset = [t \in Tailer |-> 0]
    /\ ids = [f \in File |-> NoId]
    /\ reader = [r \in Reader |-> NoFrame] /\ todo = [p \in Poller |-> {}]
    /\ events = <<>> /\ registry = <<>>
    /\ scan = [pc |-> "discover", agents |-> Discoverers, found |-> {},
               at |-> NoFrame.file]
    /\ loop = NoEvent
    /\ up = FALSE
    /\ gone = {} /\ early = {} /\ sent = [f \in File |-> [lines |-> {}, ids |-> {}]]

ReadStep(r) ==
    \/ ReadNothing(r) \/ ReadMissing(r) \/ ReadNewLines(r)
    \/ ForgetFile(r) \/ SendLines(r)

ScanStep ==
    \/ Discover \/ (\E f \in File : AddSession(f)) \/ AddFile \/ ScanDone \/ Rediscover

LoopStep == LoopTake \/ TryAdd \/ TryAddFails \/ Parse

Next ==
    \/ \E f \in File : Append1(f) \/ Create(f) \/ Delete(f)
    \/ \E p \in Poller : PollTick(p) \/ \E f \in File : PollFile(p, f)
    \/ \E c \in Callback, f \in File : DebounceFire(c, f)
    \/ \E r \in Reader : ReadStep(r)
    \/ ScanStep \/ LoopStep

Spec == Init /\ [][Next]_vars /\ WF_vars(ScanStep)

----------------------------------------------------------------------------
(* Properties, of files that have not been deleted.                        *)

\* All lines of a file are sent under one session ID, whatever order discovery and its
\* readers come in; and that is its discoverer's if the file was found at startup.
OneSessionPerFile ==
    \A f \in File \ gone :
      /\ Cardinality(sent[f].ids) <= 1
      /\ f \in early => sent[f].ids \subseteq {FoundId(f)}

\* No line is read twice, by however many readers and rediscoveries at once: what a
\* reader has in its hands nobody has sent, or has in his.
LinesOnce ==
    \A r \in Reader :
      /\ reader[r].new \cap sent[reader[r].file].lines = {}
      /\ \A q \in Reader \ {r} :
           reader[q].file = reader[r].file => reader[q].new \cap reader[r].new = {}

\* Every line is parsed by the parser of its own agent: a session that discovery adds
\* while the event loop registers it is one for which the default is right.
ParsedByOwnAgent == loop.pc = "parse" => loop.parser = ParserOf(Agent[loop.event.file])

\* A session that is charged under the ID its discoverer gives it has its PID in the end,
\* even if it was registered from its file, without one.
ChargedIsFound ==
    \A f \in File :
      loop.pc = "parse" /\ loop.event = [file |-> f, id |-> FoundId(f)]
        ~> (f \in gone \/ (FoundId(f) \in DOMAIN registry /\ registry[FoundId(f)].pid))
=============================================================================

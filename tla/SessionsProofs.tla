--------------------------- MODULE SessionsProofs ---------------------------
(***************************************************************************)
(* For any files, agents, readers and bounds: each line is parsed by the   *)
(* parser of its agent, a file has one session, no line is sent twice.     *)
(***************************************************************************)
EXTENDS Sessions, FiniteSetTheorems, TLAPS

Frame == [pc : {"idle", "read", "forget", "send"}, file : File,
          tailer : Tailer \cup {NoTailer}, new : SUBSET Int]

Scan == [pc : {"idle", "discover", "add", "file"}, agents : Seq(Agents),
         found : SUBSET File, at : File]

\* What the proofs need of the types.
TypeInv ==
    /\ lines \in [File -> Nat \cup {Absent}] /\ notice \subseteq File
    /\ tailers \in [File -> Tailer \cup {NoTailer}]
    /\ ids \in [File -> SessionId \cup {NoId}]
    /\ reader \in [Reader -> Frame]
    /\ todo \in [Poller -> SUBSET File] /\ events \in Seq(Event)
    /\ DOMAIN registry \subseteq SessionId
    /\ \A id \in DOMAIN registry : registry[id].agent \in Agents
    /\ scan \in Scan
    /\ loop \in [pc : {"idle", "register", "parse"}, parser : Agents, event : Event]
    /\ up \in BOOLEAN /\ gone \subseteq File /\ early \subseteq File
    /\ sent \in [File -> [lines : SUBSET Int, ids : SUBSET SessionId]]

----------------------------------------------------------------------------
(* The parts.                                                              *)

LEMMA IdsAreSessionIds ==
  /\ NoFrame.file \in File /\ NoFrame.pc = "idle"
  /\ NoFrame.tailer = NoTailer /\ NoFrame.new = {}
  /\ NoTailer \notin Tailer /\ NoId \notin SessionId
  /\ \A f \in File : NameId(f) \in SessionId /\ FoundId(f) \in SessionId
<1>1. (CHOOSE f \in File : TRUE) \in File
  BY SessionsAssumption
<1>2. \A f \in File : NameId(f) \in SessionId /\ FoundId(f) \in SessionId
  BY DEF SessionId, IdsOf
<1> QED BY <1>1, <1>2, SessionsAssumption DEF NoFrame, NoTailer, Tailer

\* An image is no larger than what it is an image of.
LEMMA ImageIsSmall ==
  ASSUME NEW S, IsFiniteSet(S), NEW f, DOMAIN f = S
  PROVE  IsFiniteSet({f[x] : x \in S}) /\ Cardinality({f[x] : x \in S}) <= Cardinality(S)
<1> DEFINE T == {f[x] : x \in S}
           g == [x \in S |-> f[x]]
<1>1. g \in Surjection(S, T)
  BY DEF Surjection
<1> QED BY <1>1, FS_Surjection

\* There is always a tailer for one more file.
LEMMA TailerLeft ==
  ASSUME TypeInv, NEW f \in File, tailers[f] = NoTailer
  PROVE  Tailer \ InUse # {}
<1> DEFINE held == {tailers[g] : g \in File \ {f}}
           read == {reader[r].tailer : r \in Reader}
           n == Cardinality(File)
           m == Cardinality(Reader)
<1>1. n \in Nat /\ m \in Nat /\ IsFiniteSet(File \ {f}) /\ Cardinality(File \ {f}) = n - 1
  BY SessionsAssumption, FS_CardinalityType, FS_RemoveElement
<1>2. IsFiniteSet(held) /\ Cardinality(held) <= n - 1
  <2> DEFINE g == [x \in File \ {f} |-> tailers[x]]
  <2>1. held = {g[x] : x \in File \ {f}} /\ DOMAIN g = File \ {f}
    OBVIOUS
  <2> HIDE DEF g, held, n, m
  <2>2. Cardinality(held) <= Cardinality(File \ {f}) /\ IsFiniteSet(held)
    BY <1>1, <2>1, ImageIsSmall
  <2> QED BY <1>1, <2>2
<1>3. IsFiniteSet(read) /\ Cardinality(read) <= m
  <2> DEFINE g == [r \in Reader |-> reader[r].tailer]
  <2>1. read = {g[r] : r \in Reader} /\ DOMAIN g = Reader
    OBVIOUS
  <2> HIDE DEF g, read
  <2> QED BY <2>1, ImageIsSmall, SessionsAssumption
<1> HIDE DEF held, read, n, m
<1>4. /\ IsFiniteSet(held \cup read)
      /\ Cardinality(held \cup read) <= n + m - 1
  <2>1. /\ Cardinality(held) \in Nat /\ Cardinality(read) \in Nat
        /\ Cardinality(held \cap read) \in Nat
    BY <1>2, <1>3, FS_CardinalityType, FS_Intersection
  <2>2. IsFiniteSet(held \cup read)
        /\ Cardinality(held \cup read) =
             Cardinality(held) + Cardinality(read) - Cardinality(held \cap read)
    BY <1>2, <1>3, FS_Union
  <2> QED BY <1>1, <1>2, <1>3, <2>1, <2>2
<1>5. IsFiniteSet(Tailer) /\ Cardinality(Tailer) = n + m
  <2>1. Tailer = 1..(n + m)
    BY DEF Tailer, n, m
  <2> QED BY <1>1, <2>1, FS_Interval
<1>6. ~(Tailer \subseteq held \cup read)
  <2> SUFFICES ASSUME Tailer \subseteq held \cup read PROVE FALSE
    OBVIOUS
  <2>1. Cardinality(Tailer) <= Cardinality(held \cup read)
    BY <1>4, FS_Subset
  <2>2. Cardinality(held \cup read) \in Nat
    BY <1>4, FS_CardinalityType
  <2> QED BY <1>1, <1>4, <1>5, <2>1, <2>2
<1>7. InUse \subseteq held \cup read \cup {NoTailer}
  BY DEF InUse, held, read
<1> QED BY <1>6, <1>7, IdsAreSessionIds

\* A new tailer is one, and replaces none of the others.
LEMMA NewTailerIsOne ==
  ASSUME TypeInv, NEW f \in File, NEW start, tailers[f] = NoTailer, NewTailer(f, start)
  PROVE  /\ tailers' \in [File -> Tailer \cup {NoTailer}]
         /\ tailers'[f] # NoTailer
         /\ \A g \in File \ {f} : tailers'[g] = tailers[g]
<1>1. PICK t \in Tailer : tailers' = [tailers EXCEPT ![f] = t]
  BY TailerLeft DEF NewTailer
<1> QED BY <1>1, IdsAreSessionIds DEF TypeInv

\* A goroutine that begins to read has the tailer of the map, old or new.
LEMMA GetTailerIsOne ==
  ASSUME TypeInv, NEW r \in Reader, NEW f \in File, GetTailer(r, f)
  PROVE  /\ tailers' \in [File -> Tailer \cup {NoTailer}]
         /\ tailers'[f] # NoTailer
         /\ \A g \in File : tailers[g] # NoTailer => tailers'[g] = tailers[g]
         /\ \A g \in File \ {f} : tailers'[g] = tailers[g]
         /\ reader[r].pc = "idle" /\ reader'[r].pc = "read" /\ reader'[r].file = f
         /\ \A q \in Reader \ {r} : reader'[q] = reader[q]
         /\ reader' \in [Reader -> Frame]
<1>1. /\ tailers' \in [File -> Tailer \cup {NoTailer}]
      /\ tailers'[f] # NoTailer
      /\ \A g \in File : tailers[g] # NoTailer => tailers'[g] = tailers[g]
      /\ \A g \in File \ {f} : tailers'[g] = tailers[g]
  BY NewTailerIsOne DEF GetTailer, TypeInv
<1> QED BY <1>1 DEF GetTailer, TypeInv, Frame

----------------------------------------------------------------------------
(* Type correctness.                                                       *)

LEMMA NoEventIsIdle ==
  NoEvent \in [pc : {"idle", "register", "parse"}, parser : Agents, event : Event]
  /\ NoEvent.pc = "idle"
BY IdsAreSessionIds DEF NoEvent, Event, Agents

LEMMA NoFrameIsFrame == NoFrame \in Frame
BY IdsAreSessionIds DEF NoFrame, Frame

LEMMA InitTypeInv == Init => TypeInv
<1> SUFFICES ASSUME Init PROVE TypeInv
  OBVIOUS
<1>1. lines \in [File -> Nat \cup {Absent}]
  BY DEF Init
<1>2. /\ tailers \in [File -> Tailer \cup {NoTailer}]
      /\ ids \in [File -> SessionId \cup {NoId}]
      /\ reader \in [Reader -> Frame] /\ todo \in [Poller -> SUBSET File]
  BY NoFrameIsFrame DEF Init
<1>3. scan \in Scan
  BY IdsAreSessionIds, SessionsAssumption DEF Init, Scan
<1>4. DOMAIN registry = {} /\ events \in Seq(Event)
  BY DEF Init
<1>5. sent \in [File -> [lines : SUBSET Int, ids : SUBSET SessionId]]
  BY DEF Init
<1> QED BY <1>1, <1>2, <1>3, <1>4, <1>5, NoEventIsIdle DEF Init, TypeInv

LEMMA LogKeepsTypeInv ==
  ASSUME TypeInv, NEW f \in File, Append1(f) \/ Create(f) \/ Delete(f)
  PROVE  TypeInv'
<1>1. CASE Append1(f)
  <2>1. lines' \in [File -> Nat \cup {Absent}]
    BY <1>1 DEF Append1, Exists, TypeInv, Absent
  <2> QED BY <1>1, <2>1 DEF Append1, Notify, TypeInv, watcher, history
<1>2. CASE Create(f)
  BY <1>2 DEF Create, Notify, TypeInv, watcher, history
<1>3. CASE Delete(f)
  BY <1>3 DEF Delete, TypeInv, watcher
<1> QED BY <1>1, <1>2, <1>3

LEMMA PollKeepsTypeInv ==
  ASSUME TypeInv, NEW p \in Poller, PollTick(p) \/ \E f \in File : PollFile(p, f)
  PROVE  TypeInv'
<1>1. CASE PollTick(p)
  BY <1>1 DEF PollTick, TypeInv, watcher, history
<1>2. ASSUME NEW f \in File, PollFile(p, f) PROVE TypeInv'
  <2>1. p \in Reader
    BY DEF Reader
  <2> QED BY <1>2, <2>1, GetTailerIsOne DEF PollFile, TypeInv, history
<1> QED BY <1>1, <1>2

LEMMA FireKeepsTypeInv ==
  ASSUME TypeInv, NEW c \in Callback, NEW f \in File, DebounceFire(c, f)
  PROVE  TypeInv'
<1>1. c \in Reader
  BY DEF Reader
<1> QED BY <1>1, GetTailerIsOne DEF DebounceFire, TypeInv, history

LEMMA IdOfIsSessionId ==
  ASSUME TypeInv, NEW f \in File
  PROVE  IdOf(f) \in SessionId
BY IdsAreSessionIds DEF IdOf, TypeInv

LEMMA ReadKeepsTypeInv ==
  ASSUME TypeInv, NEW r \in Reader, ReadStep(r)
  PROVE  TypeInv'
<1> USE IdsAreSessionIds
<1>1. CASE ReadNothing(r)
  <2>1. reader' \in [Reader -> Frame]
    BY <1>1, NoFrameIsFrame DEF ReadNothing, TypeInv
  <2> QED BY <1>1, <2>1 DEF ReadNothing, TypeInv, history
<1>2. CASE ReadMissing(r)
  <2>1. reader[r].file \in File
    BY DEF TypeInv, Frame
  <2>2. reader' \in [Reader -> Frame]
    BY <1>2, <2>1 DEF ReadMissing, TypeInv, Frame
  <2> QED BY <1>2, <2>2 DEF ReadMissing, TypeInv, history
<1>3. CASE ReadNewLines(r)
  <2> DEFINE new == (offset[reader[r].tailer] + 1)..lines[reader[r].file]
  <2>1. new \in SUBSET Int /\ reader[r].file \in File
    BY DEF TypeInv, Frame
  <2>2. reader' = [reader EXCEPT ![r] =
                     [pc |-> "send", file |-> reader[r].file, tailer |-> NoTailer,
                      new |-> new]]
    BY <1>3 DEF ReadNewLines
  <2> HIDE DEF new
  <2>3. reader' \in [Reader -> Frame]
    BY <2>1, <2>2 DEF TypeInv, Frame
  <2> QED BY <1>3, <2>3 DEF ReadNewLines, TypeInv, history
<1>4. CASE ForgetFile(r)
  <2>1. reader' \in [Reader -> Frame] /\ reader[r].file \in File
    BY <1>4, NoFrameIsFrame DEF ForgetFile, TypeInv, Frame
  <2> QED BY <1>4, <2>1 DEF ForgetFile, TypeInv, history
<1>5. CASE SendLines(r)
  <2> DEFINE f == reader[r].file
  <2>1. f \in File /\ reader[r].new \subseteq Int
    BY DEF TypeInv, Frame
  <2>2. [file |-> f, id |-> IdOf(f)] \in Event
    BY <2>1, IdOfIsSessionId DEF Event
  <2>3. events' \in Seq(Event)
    BY <1>5, <2>2 DEF SendLines, TypeInv
  <2>4. sent' \in [File -> [lines : SUBSET Int, ids : SUBSET SessionId]]
    BY <1>5, <2>1, IdOfIsSessionId DEF SendLines, TypeInv
  <2>5. reader' \in [Reader -> Frame]
    BY <1>5, NoFrameIsFrame DEF SendLines, TypeInv
  <2> QED BY <1>5, <2>3, <2>4, <2>5 DEF SendLines, TypeInv, watcher
<1> QED BY <1>1, <1>2, <1>3, <1>4, <1>5 DEF ReadStep

LEMMA FoundAreFiles ==
  ASSUME NEW agent, NEW found \in Discovered(agent)
  PROVE  found \subseteq LogsOf(agent)
<1>1. CASE agent = "gemini"
  BY <1>1 DEF Discovered, OnePerId
<1>2. CASE agent # "gemini"
  BY <1>2 DEF Discovered
<1> QED BY <1>1, <1>2

LEMMA ScanKeepsTypeInv ==
  ASSUME TypeInv, ScanStep
  PROVE  TypeInv'
<1> USE IdsAreSessionIds
<1>1. CASE Discover
  <2>1. PICK found \in Discovered(Head(scan.agents)) :
          /\ scan' = [scan EXCEPT !.pc = IF found = {} THEN "discover" ELSE "add",
                                  !.agents = Tail(@), !.found = found]
          /\ early' = IF up THEN early ELSE early \cup found
    BY <1>1 DEF Discover
  <2>2. found \subseteq File
    BY FoundAreFiles DEF LogsOf
  <2>3. scan' \in Scan
    <3>1. Tail(scan.agents) \in Seq(Agents)
      BY <1>1 DEF Discover, TypeInv, Scan
    <3> QED BY <2>1, <2>2, <3>1 DEF TypeInv, Scan
  <2> QED BY <1>1, <2>1, <2>2, <2>3 DEF Discover, TypeInv, watcher
<1>2. ASSUME NEW f \in File, AddSession(f) PROVE TypeInv'
  <2>1. scan' \in Scan /\ FoundId(f) \in SessionId /\ Agent[f] \in Agents
    BY <1>2, SessionsAssumption DEF AddSession, TypeInv, Scan
  <2>2. /\ DOMAIN registry' \subseteq SessionId
        /\ \A id \in DOMAIN registry' : registry'[id].agent \in Agents
    BY <1>2, <2>1 DEF AddSession, Add, TypeInv
  <2> QED BY <1>2, <2>1, <2>2 DEF AddSession, TypeInv, watcher, history
<1>3. CASE AddFile
  <2>1. scan' \in Scan
    BY <1>3 DEF AddFile, NextFound, TypeInv, Scan
  <2>2. scan.at \in File /\ FoundId(scan.at) \in SessionId
    BY DEF TypeInv, Scan
  <2>3. ids' \in [File -> SessionId \cup {NoId}]
    BY <1>3, <2>2 DEF AddFile, TypeInv, watcher
  <2>4. tailers' \in [File -> Tailer \cup {NoTailer}]
    <3>1. CASE tailers[scan.at] # NoTailer
      BY <1>3, <3>1 DEF AddFile, TypeInv, watcher
    <3>2. CASE tailers[scan.at] = NoTailer
      BY <1>3, <2>2, <3>2, NewTailerIsOne DEF AddFile
    <3> QED BY <3>1, <3>2
  <2> QED BY <1>3, <2>1, <2>3, <2>4 DEF AddFile, TypeInv, history
<1>4. CASE ScanDone
  BY <1>4 DEF ScanDone, TypeInv, Scan, watcher, history
<1>5. CASE Rediscover
  BY <1>5, SessionsAssumption DEF Rediscover, TypeInv, Scan, watcher, history
<1> QED BY <1>1, <1>2, <1>3, <1>4, <1>5 DEF ScanStep

LEMMA ParserIsAgent ==
  ASSUME NEW f \in File
  PROVE  /\ Agent[f] \in Agents
         /\ Inferred(f) \in Agents /\ ParserOf(Inferred(f)) = ParserOf(Agent[f])
         /\ ParserOf(Agent[f]) \in Agents
BY SessionsAssumption DEF ParserOf, Inferred, Agents

LEMMA LoopKeepsTypeInv ==
  ASSUME TypeInv, LoopStep
  PROVE  TypeInv'
<1>1. CASE LoopTake
  <2>1. Head(events) \in Event /\ events' \in Seq(Event)
    BY <1>1 DEF LoopTake, TypeInv
  <2>2. \A agent \in Agents : ParserOf(agent) \in Agents
    BY DEF ParserOf, Agents
  <2>3. loop' \in [pc : {"idle", "register", "parse"}, parser : Agents, event : Event]
    BY <1>1, <2>1, <2>2 DEF LoopTake, TypeInv, Agents
  <2> QED BY <1>1, <2>1, <2>3 DEF LoopTake, TypeInv, watcher, history
<1>2. CASE TryAdd
  <2>1. /\ loop.event.file \in File /\ loop.event.id \in SessionId
        /\ loop.event \in Event
    BY DEF TypeInv, Event
  <2>2. /\ DOMAIN registry' \subseteq SessionId
        /\ \A id \in DOMAIN registry' : registry'[id].agent \in Agents
    BY <1>2, <2>1, ParserIsAgent DEF TryAdd, Add, TypeInv
  <2>3. ParserOf(Inferred(loop.event.file)) \in Agents
    BY <2>1, ParserIsAgent
  <2> QED BY <1>2, <2>1, <2>2, <2>3 DEF TryAdd, TypeInv, watcher, history
<1>3. CASE TryAddFails
  BY <1>3 DEF TryAddFails, TypeInv, watcher, history
<1>4. CASE Parse
  BY <1>4, NoEventIsIdle DEF Parse, TypeInv, watcher, history
<1> QED BY <1>1, <1>2, <1>3, <1>4 DEF LoopStep

LEMMA StepKeepsTypeInv == TypeInv /\ [Next]_vars => TypeInv'
<1> SUFFICES ASSUME TypeInv, [Next]_vars PROVE TypeInv'
  OBVIOUS
<1>1. CASE UNCHANGED vars
  BY <1>1 DEF vars, TypeInv, watcher, history
<1> QED BY <1>1, LogKeepsTypeInv, PollKeepsTypeInv, FireKeepsTypeInv, ReadKeepsTypeInv,
           ScanKeepsTypeInv, LoopKeepsTypeInv DEF Next

----------------------------------------------------------------------------
(* Whose parser.                                                           *)

\* An event goes by the name of its file, or by an ID that is registered.
Named(e) == e.id = NameId(e.file) \/ (e.id = FoundId(e.file) /\ e.id \in DOMAIN registry)

\* The IDs the watcher has been given are registered, and a registered ID is of the
\* agent of all files that may go by it.
RegistryInv ==
    /\ \A f \in File :
         ids[f] # NoId => ids[f] = FoundId(f) /\ FoundId(f) \in DOMAIN registry
    /\ scan.pc = "file" => FoundId(scan.at) \in DOMAIN registry
    /\ \A id \in DOMAIN registry, f \in File :
         id \in IdsOf(f) => ParserOf(registry[id].agent) = ParserOf(Agent[f])

\* If the session has been added since the event loop found it missing, its agent is one
\* that has the default parser.
LoopInv ==
    /\ \A i \in DOMAIN events : Named(events[i])
    /\ loop.pc = "register" =>
         /\ loop.parser = "claude" /\ loop.event.id = NameId(loop.event.file)
         /\ loop.event.id \in DOMAIN registry => ParserOf(Agent[loop.event.file]) = "claude"
    /\ ParsedByOwnAgent

ParserInv == TypeInv /\ RegistryInv /\ LoopInv

LEMMA InitParserInv == Init => ParserInv
<1> SUFFICES ASSUME Init PROVE ParserInv
  OBVIOUS
<1>1. DOMAIN registry = {} /\ DOMAIN events = {} /\ loop.pc = "idle" /\ scan.pc = "discover"
  BY NoEventIsIdle DEF Init
<1>2. \A f \in File : ids[f] = NoId
  BY DEF Init
<1> QED BY <1>1, <1>2, InitTypeInv DEF ParserInv, RegistryInv, LoopInv, ParsedByOwnAgent

\* What concerns none of these.
LEMMA OthersKeepParserInv ==
  ASSUME ParserInv, TypeInv', UNCHANGED <<ids, events, registry, loop>>,
         scan'.pc = "file" => scan' = scan
  PROVE  ParserInv'
BY DEF ParserInv, RegistryInv, LoopInv, ParsedByOwnAgent, Named

LEMMA AddIsOfAgent ==
  ASSUME ParserInv, NEW f \in File, NEW id \in IdsOf(f), NEW record, Add(id, record),
         ParserOf(record.agent) = ParserOf(Agent[f])
  PROVE  /\ DOMAIN registry' = DOMAIN registry \cup {id}
         /\ \A i \in DOMAIN registry', g \in File :
              i \in IdsOf(g) => ParserOf(registry'[i].agent) = ParserOf(Agent[g])
<1>1. \A g \in File : id \in IdsOf(g) => Agent[g] = Agent[f]
  BY SessionsAssumption
<1> QED BY <1>1 DEF Add, ParserInv, RegistryInv

LEMMA ReadKeepsParserInv ==
  ASSUME ParserInv, NEW r \in Reader, ReadStep(r)
  PROVE  ParserInv'
<1>0. TypeInv /\ TypeInv'
  BY ReadKeepsTypeInv DEF ParserInv
<1>1. CASE ReadNothing(r) \/ ReadMissing(r) \/ ReadNewLines(r)
  BY <1>0, <1>1, OthersKeepParserInv DEF ReadNothing, ReadMissing, ReadNewLines
<1>2. CASE ForgetFile(r)
  <2>1. \A f \in File : ids'[f] # NoId => ids'[f] = ids[f]
    BY <1>0, <1>2 DEF ForgetFile, TypeInv
  <2>2. RegistryInv'
    BY <1>2, <2>1 DEF ForgetFile, ParserInv, RegistryInv
  <2>3. LoopInv'
    BY <1>2 DEF ForgetFile, ParserInv, LoopInv, ParsedByOwnAgent, Named
  <2> QED BY <1>0, <2>2, <2>3 DEF ParserInv
<1>3. CASE SendLines(r)
  <2> DEFINE f == reader[r].file
             e == [file |-> f, id |-> IdOf(f)]
  <2>1. f \in File
    BY <1>0 DEF TypeInv, Frame
  <2>2. Named(e)
    BY <2>1 DEF Named, IdOf, ParserInv, RegistryInv
  <2>3. events' = Append(events, e) /\ events \in Seq(Event) /\ e \in Event
    BY <1>0, <1>3, <2>1, IdOfIsSessionId DEF SendLines, TypeInv, Event
  <2>4. \A i \in DOMAIN events' : events'[i] = e \/ (i \in DOMAIN events /\ events'[i] = events[i])
    BY <2>3
  <2>5. UNCHANGED <<ids, registry, scan, loop>>
    BY <1>3 DEF SendLines, watcher
  <2> HIDE DEF e
  <2>6. \A i \in DOMAIN events' : Named(events[i])'
    BY <2>2, <2>4, <2>5 DEF ParserInv, LoopInv, Named
  <2> QED BY <1>0, <2>5, <2>6 DEF ParserInv, RegistryInv, LoopInv, ParsedByOwnAgent
<1> QED BY <1>1, <1>2, <1>3 DEF ReadStep

LEMMA ScanKeepsParserInv ==
  ASSUME ParserInv, ScanStep
  PROVE  ParserInv'
<1>0. TypeInv /\ TypeInv'
  BY ScanKeepsTypeInv DEF ParserInv
<1>1. CASE Discover
  BY <1>0, <1>1, OthersKeepParserInv DEF Discover, watcher, TypeInv, Scan
<1>2. ASSUME NEW f \in File, AddSession(f) PROVE ParserInv'
  <2>1. /\ DOMAIN registry' = DOMAIN registry \cup {FoundId(f)}
        /\ \A i \in DOMAIN registry', g \in File :
             i \in IdsOf(g) => ParserOf(registry'[i].agent) = ParserOf(Agent[g])
    BY <1>2, AddIsOfAgent DEF AddSession, IdsOf
  <2>2. scan'.at = f /\ UNCHANGED <<ids, events, loop>>
    BY <1>0, <1>2 DEF AddSession, TypeInv, Scan, watcher
  <2>3. RegistryInv'
    BY <2>1, <2>2 DEF ParserInv, RegistryInv
  <2>4. loop.pc = "register" /\ loop.event.id = FoundId(f) =>
          ParserOf(Agent[loop.event.file]) = "claude"
    <3> SUFFICES ASSUME loop.pc = "register", loop.event.id = FoundId(f)
                 PROVE  Agent[loop.event.file] \in {"claude", "custom"}
      BY DEF ParserOf
    <3>1. loop.event.file \in File /\ loop.event.id = NameId(loop.event.file)
      BY <1>0 DEF ParserInv, LoopInv, TypeInv, Event
    <3>2. Agent[loop.event.file] \in Agents
      BY <3>1, ParserIsAgent
    <3> QED BY <3>1, <3>2, SessionsAssumption DEF Agents
  <2>5. LoopInv'
    BY <2>1, <2>2, <2>4 DEF ParserInv, LoopInv, ParsedByOwnAgent, Named
  <2> QED BY <1>0, <2>3, <2>5 DEF ParserInv
<1>3. CASE AddFile
  <2>1. scan.pc = "file" /\ scan'.pc # "file" /\ UNCHANGED <<events, registry, loop>>
    BY <1>0, <1>3 DEF AddFile, NextFound, TypeInv, Scan
  <2>2. \A f \in File : ids'[f] = ids[f] \/ (f = scan.at /\ ids'[f] = FoundId(f))
    BY <1>0, <1>3 DEF AddFile, TypeInv, watcher
  <2>3. RegistryInv'
    BY <2>1, <2>2 DEF ParserInv, RegistryInv
  <2>4. LoopInv'
    BY <2>1 DEF ParserInv, LoopInv, ParsedByOwnAgent, Named
  <2> QED BY <1>0, <2>3, <2>4 DEF ParserInv
<1>4. CASE ScanDone \/ Rediscover
  BY <1>0, <1>4, OthersKeepParserInv DEF ScanDone, Rediscover, watcher, TypeInv, Scan
<1> QED BY <1>1, <1>2, <1>3, <1>4 DEF ScanStep

LEMMA LoopKeepsParserInv ==
  ASSUME ParserInv, LoopStep
  PROVE  ParserInv'
<1>0. TypeInv /\ TypeInv' /\ loop.event.file \in File /\ RegistryInv
  BY LoopKeepsTypeInv DEF ParserInv, TypeInv, Event
<1>1. CASE LoopTake
  <2> DEFINE e == Head(events)
  <2>1. /\ e \in Event /\ Named(e) /\ UNCHANGED <<ids, registry, scan>>
        /\ \A i \in DOMAIN events' : i + 1 \in DOMAIN events /\ events'[i] = events[i + 1]
    BY <1>0, <1>1 DEF LoopTake, TypeInv, ParserInv, LoopInv, watcher
  <2>2. e.file \in File /\ e.id \in IdsOf(e.file)
    BY <2>1 DEF Event, Named, IdsOf
  <2>3. \A i \in DOMAIN events' : Named(events[i])'
    BY <2>1 DEF ParserInv, LoopInv, Named
  <2>4. CASE e.id \in DOMAIN registry
    <3>1. loop' = [pc |-> "parse", event |-> e, parser |-> ParserOf(registry[e.id].agent)]
      BY <1>1, <2>4 DEF LoopTake
    <3>2. ParserOf(registry[e.id].agent) = ParserOf(Agent[e.file])
      BY <1>0, <2>2, <2>4 DEF RegistryInv
    <3> QED BY <1>0, <2>1, <2>3, <3>1, <3>2
            DEF ParserInv, RegistryInv, LoopInv, ParsedByOwnAgent
  <2>5. CASE e.id \notin DOMAIN registry
    <3>1. loop' = [pc |-> "register", event |-> e, parser |-> "claude"]
      BY <1>1, <2>5 DEF LoopTake
    <3>2. e.id = NameId(e.file)
      BY <2>1, <2>5 DEF Named
    <3> QED BY <1>0, <2>1, <2>3, <2>5, <3>1, <3>2
            DEF ParserInv, RegistryInv, LoopInv, ParsedByOwnAgent
  <2> QED BY <2>4, <2>5
<1>2. CASE TryAdd
  <2> DEFINE f == loop.event.file
  <2>1. /\ loop.event.id = NameId(f) /\ UNCHANGED <<ids, events, scan>>
        /\ loop'.pc = "parse" /\ loop'.event = loop.event
        /\ loop'.parser = ParserOf(Inferred(f))
    BY <1>0, <1>2 DEF TryAdd, ParserInv, LoopInv, TypeInv, watcher
  <2>2. ParserOf(Inferred(f)) = ParserOf(Agent[f])
    BY <1>0, ParserIsAgent
  <2>3. /\ DOMAIN registry' = DOMAIN registry \cup {NameId(f)}
        /\ \A i \in DOMAIN registry', g \in File :
             i \in IdsOf(g) => ParserOf(registry'[i].agent) = ParserOf(Agent[g])
    <3>1. loop.event.id \in IdsOf(f)
      BY <2>1 DEF IdsOf
    <3>2. Add(loop.event.id, [agent |-> Inferred(f), pid |-> FALSE])
      BY <1>2 DEF TryAdd
    <3> QED BY <1>0, <2>1, <2>2, <3>1, <3>2, AddIsOfAgent
  <2>4. RegistryInv'
    BY <2>1, <2>3 DEF ParserInv, RegistryInv
  <2>5. LoopInv'
    BY <2>1, <2>2, <2>3 DEF ParserInv, LoopInv, ParsedByOwnAgent, Named
  <2> QED BY <1>0, <2>4, <2>5 DEF ParserInv
<1>3. CASE TryAddFails
  <2>1. /\ loop.pc = "register" /\ loop.event.id \in DOMAIN registry
        /\ loop'.pc = "parse" /\ loop'.event = loop.event /\ loop'.parser = loop.parser
        /\ UNCHANGED <<ids, events, registry, scan>>
    BY <1>0, <1>3 DEF TryAddFails, TypeInv, watcher
  <2> QED BY <1>0, <2>1 DEF ParserInv, RegistryInv, LoopInv, ParsedByOwnAgent, Named
<1>4. CASE Parse
  <2>1. loop'.pc = "idle" /\ UNCHANGED <<ids, events, registry, scan>>
    BY <1>4, NoEventIsIdle DEF Parse, watcher
  <2> QED BY <1>0, <2>1 DEF ParserInv, RegistryInv, LoopInv, ParsedByOwnAgent, Named
<1> QED BY <1>1, <1>2, <1>3, <1>4 DEF LoopStep

LEMMA StepKeepsParserInv == ParserInv /\ [Next]_vars => ParserInv'
<1> SUFFICES ASSUME ParserInv, [Next]_vars PROVE ParserInv'
  OBVIOUS
<1>0. TypeInv'
  BY StepKeepsTypeInv DEF ParserInv
<1>1. ASSUME NEW f \in File, Append1(f) \/ Create(f) \/ Delete(f) PROVE ParserInv'
  BY <1>0, <1>1, OthersKeepParserInv DEF Append1, Create, Delete, watcher
<1>2. ASSUME NEW p \in Poller, PollTick(p) \/ \E f \in File : PollFile(p, f)
      PROVE  ParserInv'
  BY <1>0, <1>2, OthersKeepParserInv DEF PollTick, PollFile, watcher
<1>3. ASSUME NEW c \in Callback, NEW f \in File, DebounceFire(c, f) PROVE ParserInv'
  BY <1>0, <1>3, OthersKeepParserInv DEF DebounceFire
<1>4. CASE UNCHANGED vars
  BY <1>0, <1>4, OthersKeepParserInv DEF vars, watcher
<1> QED BY <1>1, <1>2, <1>3, <1>4, ReadKeepsParserInv, ScanKeepsParserInv,
           LoopKeepsParserInv DEF Next

\* Every line is parsed by the parser of its own agent: when the event loop finds that a
\* session has been added since it looked, the parser it has chosen is the right one
\* (processEvents, inferSessionInfo).
THEOREM LinesAreParsedByOwnAgent == Spec => []ParsedByOwnAgent
<1>1. ParserInv => ParsedByOwnAgent
  BY DEF ParserInv, LoopInv
<1> QED BY <1>1, InitParserInv, StepKeepsParserInv, PTL DEF Spec

----------------------------------------------------------------------------
(* Whose session.                                                          *)

Known(f) == Exists(f) \/ f \in gone

\* Nobody deals with a file that has never been there; only deleted files are forgotten.
KnownInv ==
    /\ \A f \in File : Exists(f) => f \notin gone
    /\ \A f \in File : f \in notice \/ tailers[f] # NoTailer => Known(f)
    /\ \A p \in Poller : \A f \in todo[p] : Known(f)
    /\ \A r \in Reader : reader[r].pc # "idle" => Known(reader[r].file)
    /\ \A r \in Reader : reader[r].pc = "forget" => reader[r].file \in gone
    /\ \A f \in scan.found : Known(f)

\* A file that is read or has been has a tailer, and goes by one ID from then on.
NameInv ==
    /\ \A r \in Reader :
         reader[r].pc # "idle" /\ reader[r].file \notin gone
           => tailers[reader[r].file] # NoTailer
    /\ \A f \in File \ gone : sent[f].ids # {} => tailers[f] # NoTailer
    /\ \A f \in File \ gone : sent[f].ids \subseteq {IdOf(f)}

\* Until the first discovery is done nobody but it gives a file a tailer.
StartInv ==
    /\ scan.pc \in {"discover", "idle"} => scan.found = {}
    /\ scan.pc = "file" => scan.at \in scan.found
    /\ ~up => /\ notice = {}
              /\ \A p \in Poller : todo[p] = {}
              /\ \A r \in Reader : reader[r].pc = "idle"
              /\ scan.pc # "idle"
              /\ \A f \in File : tailers[f] # NoTailer => ids[f] = FoundId(f)
    /\ \A f \in early \ gone : ids[f] = FoundId(f) \/ (~up /\ f \in scan.found)

SessionInv == TypeInv /\ KnownInv /\ NameInv /\ StartInv

LEMMA InitSessionInv == Init => SessionInv
<1> SUFFICES ASSUME Init PROVE SessionInv
  OBVIOUS
<1>1. /\ \A r \in Reader : reader[r].pc = "idle"
      /\ \A f \in File : tailers[f] = NoTailer /\ sent[f].ids = {}
      /\ scan.found = {} /\ scan.pc = "discover"
      /\ gone = {} /\ early = {} /\ notice = {} /\ \A p \in Poller : todo[p] = {}
  BY IdsAreSessionIds DEF Init
<1> QED BY <1>1, InitTypeInv DEF SessionInv, KnownInv, NameInv, StartInv

\* With one ID there is no more than one.
LEMMA AtMostOne ==
  ASSUME NEW x, NEW S \in SUBSET {x}
  PROVE  Cardinality(S) <= 1
<1>1. IsFiniteSet({x}) /\ Cardinality({x}) = 1
  BY FS_Singleton
<1>2. Cardinality(S) <= Cardinality({x})
  BY <1>1, FS_Subset
<1> QED BY <1>1, <1>2

LEMMA OneIdEach == SessionInv => OneSessionPerFile
<1> SUFFICES ASSUME SessionInv, NEW f \in File \ gone
             PROVE  /\ Cardinality(sent[f].ids) <= 1
                    /\ f \in early => sent[f].ids \subseteq {FoundId(f)}
  BY DEF OneSessionPerFile
<1>1. sent[f].ids \subseteq {IdOf(f)}
  BY DEF SessionInv, NameInv
<1>2. ASSUME f \in early PROVE sent[f].ids \subseteq {FoundId(f)}
  <2>1. CASE ids[f] = FoundId(f)
    BY <1>1, <2>1, IdsAreSessionIds DEF IdOf
  <2>2. CASE ids[f] # FoundId(f)
    <3>1. ~up
      BY <1>2, <2>2 DEF SessionInv, StartInv
    <3>2. tailers[f] = NoTailer
      BY <2>2, <3>1 DEF SessionInv, StartInv
    <3> QED BY <3>2 DEF SessionInv, NameInv
  <2> QED BY <2>1, <2>2
<1> QED BY <1>1, <1>2, AtMostOne

LEMMA LogKeepsSessionInv ==
  ASSUME SessionInv, NEW f \in File, Append1(f) \/ Create(f) \/ Delete(f)
  PROVE  SessionInv'
<1>0. TypeInv /\ TypeInv'
  BY LogKeepsTypeInv DEF SessionInv
<1> USE DEF Known, Exists
<1>1. ASSUME Append1(f) \/ Create(f) PROVE SessionInv'
  <2>1. /\ lines'[f] # Absent /\ \A g \in File \ {f} : lines'[g] = lines[g]
        /\ f \notin gone
        /\ notice' = IF Watched(f) THEN notice \cup {f} ELSE notice
        /\ UNCHANGED <<watcher, reader, todo, scan, up, history>>
    BY <1>0, <1>1 DEF Append1, Create, Notify, TypeInv, Absent, SessionInv, KnownInv
  <2>2. KnownInv'
    <3>1. \A g \in File : Known(g) => Known(g)'
      BY <2>1 DEF history
    <3>2. \A g \in File : Exists(g)' => g \notin gone'
      BY <2>1 DEF SessionInv, KnownInv, history
    <3>3. Known(f)'
      BY <2>1
    <3> HIDE DEF Known, Exists
    <3> QED BY <1>0, <2>1, <3>1, <3>2, <3>3
            DEF SessionInv, KnownInv, TypeInv, Scan, Frame, watcher, history
  <2>3. NameInv'
    BY <2>1 DEF SessionInv, NameInv, IdOf, watcher, history
  <2>4. StartInv'
    BY <2>1 DEF SessionInv, StartInv, Watched, watcher, history
  <2> QED BY <1>0, <2>2, <2>3, <2>4 DEF SessionInv
<1>2. ASSUME Delete(f) PROVE SessionInv'
  <2>1. /\ lines' = [lines EXCEPT ![f] = Absent] /\ gone' = gone \cup {f}
        /\ UNCHANGED <<notice, watcher, reader, todo, scan, up, early, sent>>
    BY <1>2 DEF Delete
  <2>2. \A g \in File : Known(g) => Known(g)'
    BY <1>0, <2>1 DEF TypeInv
  <2>3. \A g \in File : Exists(g)' => g \notin gone'
    BY <1>0, <2>1 DEF SessionInv, KnownInv, TypeInv
  <2>4. KnownInv'
    <3> HIDE DEF Known, Exists
    <3> QED BY <1>0, <2>1, <2>2, <2>3
            DEF SessionInv, KnownInv, TypeInv, Scan, Frame, watcher
  <2>5. NameInv'
    BY <2>1 DEF SessionInv, NameInv, IdOf, watcher
  <2>6. StartInv'
    BY <2>1 DEF SessionInv, StartInv, watcher
  <2> QED BY <1>0, <2>4, <2>5, <2>6 DEF SessionInv
<1> QED BY <1>1, <1>2

\* A goroutine that begins to read a known file, once the daemon is up.
LEMMA GetTailerKeepsSessionInv ==
  ASSUME SessionInv, TypeInv', NEW r \in Reader, NEW f \in File, GetTailer(r, f),
         Known(f), up, notice' \subseteq notice,
         \A p \in Poller : todo'[p] \subseteq todo[p],
         UNCHANGED <<lines, ids, scan, up, history>>
  PROVE  SessionInv'
<1>1. /\ \A g \in File : tailers'[g] = tailers[g] \/ (g = f /\ tailers'[g] # NoTailer)
      /\ reader'[r].pc = "read" /\ reader'[r].file = f /\ tailers'[f] # NoTailer
      /\ \A q \in Reader \ {r} : reader'[q] = reader[q]
  BY GetTailerIsOne DEF SessionInv
<1>2. \A g \in File : Known(g)' <=> Known(g)
  BY DEF Known, Exists, history
<1>3. KnownInv'
  <2>1. \A q \in Reader : reader[q].file \in File /\ reader'[q].file \in File
    BY DEF SessionInv, TypeInv, Frame
  <2>2. \A g \in File : (Exists(g)' => g \notin gone')
                       /\ (g \in notice' \/ tailers'[g] # NoTailer => Known(g)')
    BY <1>1, <1>2 DEF SessionInv, KnownInv, Exists, history
  <2>3. \A p \in Poller : \A g \in todo'[p] : Known(g)'
    BY <1>2 DEF SessionInv, KnownInv, TypeInv
  <2>4. (\A q \in Reader : reader[q].pc # "idle" => Known(reader[q].file))'
    <3>1. ASSUME NEW q \in Reader, reader'[q].pc # "idle" PROVE Known(reader'[q].file)
      BY <1>1, <2>1, <3>1 DEF SessionInv, KnownInv
    <3> QED BY <1>2, <2>1, <3>1 DEF Known, Exists, history
  <2>5. (\A q \in Reader : reader[q].pc = "forget" => reader[q].file \in gone)'
    BY <1>1 DEF SessionInv, KnownInv, history
  <2>6. \A g \in scan'.found : Known(g)'
    BY <1>2 DEF SessionInv, KnownInv, TypeInv, Scan
  <2>7. /\ (\A g \in File : Exists(g) => g \notin gone)'
        /\ (\A g \in File : g \in notice \/ tailers[g] # NoTailer => Known(g))'
    BY <2>2
  <2> QED BY <2>3, <2>4, <2>5, <2>6, <2>7 DEF KnownInv
<1>4. NameInv'
  <2>1. \A q \in Reader : reader[q].file \in File
    BY DEF SessionInv, TypeInv, Frame
  <2> QED BY <1>1, <2>1 DEF SessionInv, NameInv, IdOf, history
<1>5. StartInv'
  BY <1>1 DEF SessionInv, StartInv, history
<1> QED BY <1>3, <1>4, <1>5 DEF SessionInv

LEMMA PollKeepsSessionInv ==
  ASSUME SessionInv, NEW p \in Poller, PollTick(p) \/ \E f \in File : PollFile(p, f)
  PROVE  SessionInv'
<1>0. TypeInv /\ TypeInv'
  BY PollKeepsTypeInv DEF SessionInv
<1>1. CASE PollTick(p)
  <2>1. /\ up /\ todo' = [todo EXCEPT ![p] = {f \in File : tailers[f] # NoTailer}]
        /\ UNCHANGED <<lines, notice, watcher, reader, scan, up, history>>
    BY <1>1 DEF PollTick
  <2>2. KnownInv'
    <3>1. \A f \in File : Known(f)' <=> Known(f)
      BY <2>1 DEF Known, Exists, history
    <3>2. \A q \in Poller : \A f \in todo'[q] : f \in File /\ Known(f)
      BY <1>0, <2>1 DEF SessionInv, KnownInv, TypeInv
    <3>3. \A q \in Reader : reader[q].file \in File
      BY <1>0 DEF TypeInv, Frame
    <3>4. scan.found \subseteq File
      BY <1>0 DEF TypeInv, Scan
    <3>5. \A q \in Poller : \A f \in todo'[q] : Known(f)'
      BY <3>1, <3>2
    <3>6. UNCHANGED <<lines, notice, tailers, reader, scan, gone>>
      BY <2>1 DEF watcher, history
    <3>7. \A f \in File : (Exists(f)' => f \notin gone')
                         /\ (f \in notice' \/ tailers'[f] # NoTailer => Known(f)')
      BY <3>6 DEF SessionInv, KnownInv, Known, Exists
    <3>8. \A r \in Reader : /\ reader'[r].pc # "idle" => Known(reader[r].file)'
                            /\ reader'[r].pc = "forget" => reader'[r].file \in gone'
      BY <3>6 DEF SessionInv, KnownInv, Known, Exists
    <3>9. \A f \in scan'.found : Known(f)'
      BY <3>6 DEF SessionInv, KnownInv, Known, Exists
    <3> HIDE DEF Known
    <3> QED BY <3>5, <3>6, <3>7, <3>8, <3>9 DEF KnownInv
  <2>3. NameInv'
    BY <2>1 DEF SessionInv, NameInv, IdOf, watcher, history
  <2>4. StartInv'
    BY <2>1 DEF SessionInv, StartInv, watcher, history
  <2> QED BY <1>0, <2>2, <2>3, <2>4 DEF SessionInv
<1>2. ASSUME NEW f \in File, PollFile(p, f) PROVE SessionInv'
  <2>1. /\ f \in todo[p] /\ GetTailer(p, f) /\ p \in Reader
        /\ UNCHANGED <<lines, notice, ids, scan, up, history>>
    BY <1>2 DEF PollFile, Reader
  <2>2. Known(f) /\ up
    BY <1>0, <2>1 DEF SessionInv, KnownInv, StartInv, TypeInv
  <2>3. \A q \in Poller : todo'[q] \subseteq todo[q]
    BY <1>0, <1>2 DEF PollFile, TypeInv
  <2> QED BY <1>0, <2>1, <2>2, <2>3, GetTailerKeepsSessionInv
<1> QED BY <1>1, <1>2

LEMMA FireKeepsSessionInv ==
  ASSUME SessionInv, NEW c \in Callback, NEW f \in File, DebounceFire(c, f)
  PROVE  SessionInv'
<1>0. TypeInv /\ TypeInv'
  BY FireKeepsTypeInv DEF SessionInv
<1>1. /\ f \in notice /\ notice' = notice \ {f} /\ GetTailer(c, f) /\ c \in Reader
      /\ UNCHANGED <<lines, ids, todo, scan, up, history>>
  BY DEF DebounceFire, Reader
<1>2. Known(f) /\ up
  BY <1>0, <1>1 DEF SessionInv, KnownInv, StartInv, TypeInv
<1> QED BY <1>0, <1>1, <1>2, GetTailerKeepsSessionInv

LEMMA ReadKeepsSessionInv ==
  ASSUME SessionInv, NEW r \in Reader, ReadStep(r)
  PROVE  SessionInv'
<1> DEFINE f == reader[r].file
<1>0. TypeInv /\ TypeInv' /\ f \in File /\ KnownInv /\ NameInv /\ StartInv
  BY ReadKeepsTypeInv DEF SessionInv, TypeInv, Frame
<1>1. /\ UNCHANGED <<lines, notice, todo, scan, up, gone, early>>
      /\ \A g \in File : (Known(g)' <=> Known(g)) /\ (Exists(g)' <=> Exists(g))
  BY DEF ReadStep, ReadNothing, ReadMissing, ReadNewLines, ForgetFile, SendLines, Known,
         Exists, history
<1>2. reader[r].pc # "idle" /\ up
  BY <1>0 DEF ReadStep, ReadNothing, ReadMissing, ReadNewLines, ForgetFile, SendLines, StartInv
<1>3. \A q \in Reader \ {r} : reader'[q] = reader[q]
  BY <1>0 DEF ReadStep, ReadNothing, ReadMissing, ReadNewLines, ForgetFile, SendLines, TypeInv
<1>4. reader'[r].pc \in {"idle", "forget", "send"}
      /\ (reader'[r].pc # "idle" => reader'[r].file = f)
  BY <1>0, IdsAreSessionIds
     DEF ReadStep, ReadNothing, ReadMissing, ReadNewLines, ForgetFile, SendLines, TypeInv
<1>5. reader'[r].pc = "forget" => f \in gone
  <2>1. reader'[r].pc = "forget" => ReadMissing(r)
    BY <1>0, IdsAreSessionIds
       DEF ReadStep, ReadNothing, ReadNewLines, ForgetFile, SendLines, TypeInv
  <2>2. ReadMissing(r) => ~Exists(f)
    BY DEF ReadMissing
  <2>3. Known(f)
    BY <1>0, <1>2 DEF KnownInv
  <2> QED BY <2>1, <2>2, <2>3 DEF Known
<1>6. \A g \in File \ gone : tailers'[g] = tailers[g] /\ ids'[g] = ids[g]
  BY <1>0 DEF ReadStep, ReadNothing, ReadMissing, ReadNewLines, ForgetFile, SendLines, TypeInv,
              KnownInv, watcher
<1>7. \A g \in File : tailers'[g] # NoTailer => tailers[g] # NoTailer
  BY <1>0 DEF ReadStep, ReadNothing, ReadMissing, ReadNewLines, ForgetFile, SendLines, TypeInv,
              watcher
<1>8. \A g \in File : \/ sent'[g] = sent[g]
                      \/ g = f /\ sent'[g].ids = sent[g].ids \cup {IdOf(f)}
  BY <1>0 DEF ReadStep, ReadNothing, ReadMissing, ReadNewLines, ForgetFile, SendLines, TypeInv,
              history
<1>9. \A q \in Reader : reader[q].file \in File
  BY <1>0 DEF TypeInv, Frame
<1>10. KnownInv'
  <2>1. /\ \A g \in File : Exists(g)' => g \notin gone'
        /\ \A g \in File : g \in notice' \/ tailers'[g] # NoTailer => Known(g)'
        /\ \A p \in Poller : \A g \in todo'[p] : Known(g)'
        /\ \A g \in scan'.found : Known(g)'
    BY <1>0, <1>1, <1>7 DEF KnownInv, TypeInv, Scan
  <2>2. ASSUME NEW q \in Reader
        PROVE  /\ (reader[q].pc # "idle" => Known(reader[q].file))'
               /\ (reader[q].pc = "forget" => reader[q].file \in gone)'
    <3>1. CASE q = r
      BY <1>0, <1>1, <1>2, <1>4, <1>5, <3>1 DEF KnownInv, Known, Exists
    <3>2. CASE q # r
      <4>1. reader'[q] = reader[q] /\ reader[q].file \in File
        BY <1>3, <1>9, <3>2
      <4> QED BY <1>0, <1>1, <4>1 DEF KnownInv, Known, Exists
    <3> QED BY <3>1, <3>2
  <2> QED BY <2>1, <2>2 DEF KnownInv
<1>11. NameInv'
  <2>1. \A q \in Reader : reader'[q].pc # "idle" =>
          reader[q].pc # "idle" /\ reader'[q].file = reader[q].file
    BY <1>2, <1>3, <1>4
  <2>2. \A g \in File \ gone : IdOf(g)' = IdOf(g)
    BY <1>6 DEF IdOf
  <2>3. f \notin gone => tailers[f] # NoTailer
    BY <1>0, <1>2 DEF NameInv
  <2> QED BY <1>0, <1>1, <1>6, <1>8, <1>9, <2>1, <2>2, <2>3 DEF NameInv
<1>12. StartInv'
  BY <1>0, <1>1, <1>2, <1>6 DEF StartInv, TypeInv
<1> QED BY <1>0, <1>10, <1>11, <1>12 DEF SessionInv

LEMMA ScanKeepsSessionInv ==
  ASSUME SessionInv, ScanStep
  PROVE  SessionInv'
<1>0. /\ TypeInv /\ TypeInv' /\ scan.at \in File /\ scan.found \subseteq File
      /\ KnownInv /\ NameInv /\ StartInv
  BY ScanKeepsTypeInv DEF SessionInv, TypeInv, Scan
<1>1. CASE Discover
  <2>1. PICK found \in Discovered(Head(scan.agents)) :
          /\ scan' = [scan EXCEPT !.pc = IF found = {} THEN "discover" ELSE "add",
                                  !.agents = Tail(@), !.found = found]
          /\ early' = IF up THEN early ELSE early \cup found
    BY <1>1 DEF Discover
  <2>2. \A f \in found : f \in File /\ Exists(f)
    BY FoundAreFiles DEF LogsOf
  <2>3. /\ scan.found = {} /\ scan'.found = found
        /\ scan'.pc = IF found = {} THEN "discover" ELSE "add"
        /\ UNCHANGED <<lines, notice, tailers, ids, reader, todo, up, gone, sent>>
    BY <1>0, <1>1, <2>1 DEF Discover, StartInv, TypeInv, Scan, watcher
  <2>4. KnownInv'
    BY <1>0, <2>2, <2>3 DEF KnownInv, Known, Exists
  <2>5. NameInv'
    BY <1>0, <2>3 DEF NameInv, IdOf
  <2>6. StartInv'
    BY <1>0, <2>1, <2>3 DEF StartInv
  <2> QED BY <1>0, <2>4, <2>5, <2>6 DEF SessionInv
<1>2. ASSUME NEW f \in File, AddSession(f) PROVE SessionInv'
  <2>1. /\ f \in scan.found /\ scan'.pc = "file" /\ scan'.at = f /\ scan'.found = scan.found
        /\ UNCHANGED <<lines, notice, tailers, ids, reader, todo, up, gone, early, sent>>
    BY <1>0, <1>2 DEF AddSession, TypeInv, Scan, watcher, history
  <2>2. KnownInv' /\ NameInv' /\ StartInv'
    BY <1>0, <2>1 DEF KnownInv, NameInv, StartInv, Known, Exists, IdOf
  <2> QED BY <1>0, <2>2 DEF SessionInv
<1>3. CASE AddFile
  <2> DEFINE f == scan.at
  <2>1. /\ scan.pc = "file" /\ scan'.found = scan.found \ {f}
        /\ scan'.pc = IF scan.found = {f} THEN "discover" ELSE "add"
        /\ UNCHANGED <<lines, notice, reader, todo, up, gone, early, sent>>
    BY <1>0, <1>3 DEF AddFile, NextFound, TypeInv, Scan, history
  <2>2. f \in scan.found /\ Known(f)
    BY <1>0, <2>1 DEF StartInv, KnownInv
  <2>3. \/ tailers[f] # NoTailer /\ UNCHANGED <<tailers, ids>>
        \/ /\ tailers[f] = NoTailer /\ tailers'[f] # NoTailer /\ ids'[f] = FoundId(f)
           /\ \A g \in File \ {f} : tailers'[g] = tailers[g] /\ ids'[g] = ids[g]
    <3>1. CASE tailers[f] # NoTailer
      BY <1>3, <3>1 DEF AddFile, watcher
    <3>2. CASE tailers[f] = NoTailer
      BY <1>0, <1>3, <3>2, NewTailerIsOne DEF AddFile, TypeInv
    <3> QED BY <3>1, <3>2
  <2>4. KnownInv'
    BY <1>0, <2>1, <2>2, <2>3 DEF KnownInv, Known, Exists
  <2>5. NameInv'
    <3>1. \A r \in Reader : reader[r].file \in File
      BY <1>0 DEF TypeInv, Frame
    <3>2. \A g \in File : tailers[g] # NoTailer => tailers'[g] # NoTailer /\ ids'[g] = ids[g]
      BY <2>3
    <3>3. \A g \in File : sent[g].ids # {} /\ g \notin gone => ids'[g] = ids[g]
      BY <1>0, <3>2 DEF NameInv
    <3> QED BY <1>0, <2>1, <3>1, <3>2, <3>3 DEF NameInv, IdOf
  <2>6. StartInv'
    <3>1. ~up => \A g \in File : tailers'[g] # NoTailer => ids'[g] = FoundId(g)
      BY <1>0, <2>3 DEF StartInv
    <3>2. \A g \in early \ gone : ids'[g] = FoundId(g) \/ (~up /\ g \in scan.found \ {f})
      <4> SUFFICES ASSUME NEW g \in early \ gone
                   PROVE  ids'[g] = FoundId(g) \/ (~up /\ g \in scan.found \ {f})
        OBVIOUS
      <4>1. g \in File
        BY <1>0 DEF TypeInv
      <4>2. CASE ids[g] = FoundId(g)
        BY <2>3, <4>1, <4>2
      <4>3. CASE ids[g] # FoundId(g)
        <5>1. ~up /\ g \in scan.found
          BY <1>0, <4>3 DEF StartInv
        <5>2. tailers[g] = NoTailer
          BY <1>0, <4>1, <4>3, <5>1 DEF StartInv
        <5> QED BY <2>3, <5>1, <5>2
      <4> QED BY <4>2, <4>3
    <3>3. scan'.pc \in {"discover", "idle"} => scan'.found = {}
      BY <2>1
    <3> QED BY <1>0, <2>1, <3>1, <3>2, <3>3 DEF StartInv
  <2> QED BY <1>0, <2>4, <2>5, <2>6 DEF SessionInv
<1>4. CASE ScanDone
  <2>1. /\ scan.pc = "discover" /\ scan'.pc = "idle" /\ scan'.found = scan.found /\ up'
        /\ UNCHANGED <<lines, notice, tailers, ids, reader, todo, gone, early, sent>>
    BY <1>0, <1>4 DEF ScanDone, TypeInv, Scan, watcher, history
  <2>2. KnownInv' /\ NameInv' /\ StartInv'
    BY <1>0, <2>1 DEF KnownInv, NameInv, StartInv, Known, Exists, IdOf
  <2> QED BY <1>0, <2>2 DEF SessionInv
<1>5. CASE Rediscover
  <2>1. /\ scan.pc = "idle" /\ scan'.pc = "discover" /\ scan'.found = scan.found
        /\ UNCHANGED <<lines, notice, tailers, ids, reader, todo, up, gone, early, sent>>
    BY <1>0, <1>5 DEF Rediscover, TypeInv, Scan, watcher, history
  <2>2. KnownInv' /\ NameInv' /\ StartInv'
    BY <1>0, <2>1 DEF KnownInv, NameInv, StartInv, Known, Exists, IdOf
  <2> QED BY <1>0, <2>2 DEF SessionInv
<1> QED BY <1>1, <1>2, <1>3, <1>4, <1>5 DEF ScanStep

LEMMA StepKeepsSessionInv == SessionInv /\ [Next]_vars => SessionInv'
<1> SUFFICES ASSUME SessionInv, [Next]_vars PROVE SessionInv'
  OBVIOUS
<1>1. ASSUME UNCHANGED <<lines, notice, watcher, reader, todo, scan, up, history>>, TypeInv'
      PROVE  SessionInv'
  BY <1>1 DEF SessionInv, KnownInv, NameInv, StartInv, Known, Exists, IdOf, watcher, history
<1>2. CASE LoopStep
  <2>1. UNCHANGED <<lines, notice, watcher, reader, todo, scan, up, history>>
    BY <1>2 DEF LoopStep, LoopTake, TryAdd, TryAddFails, Parse
  <2> QED BY <1>1, <1>2, <2>1, LoopKeepsTypeInv DEF SessionInv
<1>3. CASE UNCHANGED vars
  BY <1>1, <1>3, StepKeepsTypeInv DEF vars, SessionInv
<1> QED BY <1>2, <1>3, LogKeepsSessionInv, PollKeepsSessionInv, FireKeepsSessionInv,
           ReadKeepsSessionInv, ScanKeepsSessionInv DEF Next

\* All lines of a file are charged to one session, its discoverer's if it was found at
\* startup, however discovery and its readers interleave (AddFile, readAndEmit).
THEOREM FilesHaveOneSession == Spec => []OneSessionPerFile
BY OneIdEach, InitSessionInv, StepKeepsSessionInv, PTL DEF Spec
----------------------------------------------------------------------------
(* Each line once.                                                         *)

\* How far the tailer of a file has read.
ReadOf(f) == IF tailers[f] = NoTailer THEN 0 ELSE offset[tailers[f]]

\* A tailer is of one file, and whoever reads a file that is there has the map's.
TailerInv ==
    /\ offset \in [Tailer -> Nat]
    /\ \A f, g \in File : tailers[f] = tailers[g] /\ tailers[f] # NoTailer => f = g
    /\ \A r \in Reader : reader[r].pc = "read" <=> reader[r].tailer # NoTailer
    /\ \A r \in Reader :
         reader[r].pc = "read" /\ reader[r].file \notin gone
           => reader[r].tailer = tailers[reader[r].file]

\* What somebody has in his hands, or has sent, the tailer has read.
HandsInv ==
    /\ \A r \in Reader : reader[r].pc # "send" => reader[r].new = {}
    /\ \A r \in Reader :
         reader[r].file \notin gone => reader[r].new \subseteq 1..ReadOf(reader[r].file)
    /\ \A f \in File \ gone : sent[f].lines \subseteq 1..ReadOf(f)

LinesInv == SessionInv /\ TailerInv /\ HandsInv /\ LinesOnce

LEMMA InitLinesInv == Init => LinesInv
<1> SUFFICES ASSUME Init PROVE LinesInv
  OBVIOUS
<1>1. /\ \A r \in Reader : /\ reader[r].pc = "idle" /\ reader[r].new = {}
                           /\ reader[r].tailer = NoTailer
      /\ \A f \in File : tailers[f] = NoTailer /\ sent[f].lines = {}
      /\ offset \in [Tailer -> Nat]
  BY IdsAreSessionIds DEF Init
<1> QED BY <1>1, InitSessionInv DEF LinesInv, TailerInv, HandsInv, LinesOnce

\* A new tailer is one that nothing refers to.
LEMMA NewTailerIsFree ==
  ASSUME TypeInv, TailerInv, NEW f \in File, NEW start \in Nat, tailers[f] = NoTailer,
         NewTailer(f, start)
  PROVE  /\ offset' \in [Tailer -> Nat] /\ tailers'[f] # NoTailer
         /\ \A g \in File \ {f} : tailers'[g] = tailers[g] /\ tailers'[g] # tailers'[f]
         /\ \A r \in Reader : reader[r].tailer # tailers'[f]
         /\ \A t \in Tailer : t # tailers'[f] => offset'[t] = offset[t]
<1>1. PICK t \in Tailer \ InUse : /\ tailers' = [tailers EXCEPT ![f] = t]
                                  /\ offset' = [offset EXCEPT ![t] = start]
  BY TailerLeft DEF NewTailer
<1>2. tailers \in [File -> Tailer \cup {NoTailer}] /\ offset \in [Tailer -> Nat]
  BY DEF TypeInv, TailerInv
<1>3. tailers'[f] = t
  BY <1>1, <1>2
<1>4. /\ \A g \in File : tailers[g] # t
      /\ \A r \in Reader : reader[r].tailer # t
  BY <1>1 DEF InUse
<1> QED BY <1>1, <1>2, <1>3, <1>4, IdsAreSessionIds

\* The tailers of the map are kept.
LEMMA KeepKeeps ==
  ASSUME NEW o \in [Tailer -> Nat], Keep(o)
  PROVE  /\ offset' \in [Tailer -> Nat]
         /\ \A f \in File : tailers'[f] \in Tailer => offset'[tailers'[f]] = o[tailers'[f]]
         /\ \A r \in Reader :
              reader'[r].tailer \in Tailer => offset'[reader'[r].tailer] = o[reader'[r].tailer]
<1>1. \A t \in Tailer : offset'[t] = IF t \in InUse' THEN o[t] ELSE 0
  BY DEF Keep
<1>2. /\ \A f \in File : tailers'[f] \in InUse'
      /\ \A r \in Reader : reader'[r].tailer \in InUse'
  BY DEF InUse
<1>3. offset' \in [Tailer -> Nat]
  BY DEF Keep
<1> QED BY <1>1, <1>2, <1>3

\* As long as nobody takes or sends lines the tailers only need to go forward.
LEMMA IdleKeepsLines ==
  ASSUME LinesInv, TypeInv', sent' = sent, gone \subseteq gone',
         \A f \in File \ gone' : ReadOf(f) <= ReadOf(f)',
         \A f \in File \ gone' : ReadOf(f) \in Nat /\ ReadOf(f)' \in Nat,
         \A r \in Reader : \/ reader'[r].new = {}
                           \/ /\ reader'[r].pc = "send" /\ reader[r].pc = "send"
                              /\ reader'[r].new = reader[r].new
                              /\ reader'[r].file = reader[r].file
  PROVE  HandsInv' /\ LinesOnce'
<1>1. \A r \in Reader : reader[r].file \in File
  BY DEF LinesInv, SessionInv, TypeInv, Frame
<1>2. \A f \in File \ gone' : 1..ReadOf(f) \subseteq 1..ReadOf(f)'
  OBVIOUS
<1>3. (\A r \in Reader : reader[r].pc # "send" => reader[r].new = {})'
  BY DEF LinesInv, HandsInv
<1>4. (\A r \in Reader :
         reader[r].file \notin gone => reader[r].new \subseteq 1..ReadOf(reader[r].file))'
  <2> SUFFICES ASSUME NEW r \in Reader, reader'[r].file \notin gone', reader'[r].new # {}
               PROVE  reader'[r].new \subseteq 1..ReadOf(reader[r].file)'
    OBVIOUS
  <2>1. reader'[r].new = reader[r].new /\ reader'[r].file = reader[r].file
    OBVIOUS
  <2>2. reader[r].new \subseteq 1..ReadOf(reader[r].file)
    BY <2>1 DEF LinesInv, HandsInv
  <2>3. \A f \in File : f = reader'[r].file => ReadOf(f)' = ReadOf(reader[r].file)'
    BY DEF ReadOf
  <2> QED BY <1>1, <1>2, <2>1, <2>2, <2>3
<1>5. (\A f \in File \ gone : sent[f].lines \subseteq 1..ReadOf(f))'
  BY <1>2 DEF LinesInv, HandsInv
<1>6. LinesOnce'
  BY DEF LinesInv, LinesOnce
<1> QED BY <1>3, <1>4, <1>5, <1>6 DEF HandsInv
LEMMA ReadOfIsNat ==
  ASSUME TypeInv, TailerInv, NEW f \in File
  PROVE  ReadOf(f) \in Nat
BY DEF ReadOf, TypeInv, TailerInv

\* What concerns none of these.
LEMMA OthersKeepLinesInv ==
  ASSUME LinesInv, SessionInv', UNCHANGED <<tailers, offset, reader, sent>>,
         gone \subseteq gone'
  PROVE  LinesInv'
<1>1. TypeInv /\ TypeInv' /\ TailerInv /\ TailerInv'
  BY DEF LinesInv, SessionInv, TailerInv
<1>2. \A f \in File : ReadOf(f)' = ReadOf(f) /\ ReadOf(f) \in Nat
  BY <1>1, ReadOfIsNat DEF ReadOf
<1>3. \A r \in Reader : reader[r].new # {} => reader[r].pc = "send"
  BY DEF LinesInv, HandsInv
<1>4. HandsInv' /\ LinesOnce'
  BY <1>1, <1>2, <1>3, IdleKeepsLines
<1> QED BY <1>1, <1>4 DEF LinesInv

\* A new tailer starts anywhere: nothing of its file has been read.
LEMMA NewTailerKeepsLines ==
  ASSUME LinesInv, NEW f \in File, NEW start \in Nat, tailers[f] = NoTailer,
         NewTailer(f, start)
  PROVE  \A g \in File : /\ ReadOf(g) \in Nat /\ ReadOf(g)' \in Nat
                         /\ ReadOf(g) <= ReadOf(g)'
<1>1. TypeInv /\ TailerInv
  BY DEF LinesInv, SessionInv
<1>2. \A g \in File : ReadOf(g) \in Nat
  BY <1>1, ReadOfIsNat
<1>3. ReadOf(f) = 0 /\ ReadOf(f)' \in Nat
  BY <1>1, NewTailerIsFree, NewTailerIsOne DEF ReadOf
<1>4. \A g \in File \ {f} : ReadOf(g)' = ReadOf(g)
  <2> SUFFICES ASSUME NEW g \in File \ {f} PROVE ReadOf(g)' = ReadOf(g)
    OBVIOUS
  <2>1. /\ tailers'[g] = tailers[g] /\ tailers'[g] # tailers'[f]
        /\ tailers[g] \in Tailer => offset'[tailers[g]] = offset[tailers[g]]
    BY <1>1, NewTailerIsFree
  <2>2. tailers[g] # NoTailer => tailers[g] \in Tailer
    BY <1>1 DEF TypeInv
  <2> QED BY <2>1, <2>2 DEF ReadOf
<1> QED BY <1>2, <1>3, <1>4

LEMMA GetTailerKeepsLinesInv ==
  ASSUME LinesInv, SessionInv', NEW r \in Reader, NEW f \in File, GetTailer(r, f),
         UNCHANGED history
  PROVE  LinesInv'
<1>1. TypeInv /\ TypeInv' /\ TailerInv /\ UNCHANGED <<gone, sent>>
  BY DEF LinesInv, SessionInv, history
<1>2. /\ tailers'[f] # NoTailer
      /\ reader[r].pc = "idle"
      /\ \A q \in Reader \ {r} : reader'[q] = reader[q]
      /\ reader'[r] = [pc |-> "read", file |-> f, tailer |-> tailers'[f], new |-> {}]
  BY <1>1, GetTailerIsOne DEF GetTailer, TypeInv
<1>3. /\ \A g \in File : /\ ReadOf(g) \in Nat /\ ReadOf(g)' \in Nat
                         /\ ReadOf(g) <= ReadOf(g)'
      /\ offset' \in [Tailer -> Nat]
      /\ \A g \in File \ {f} : /\ tailers'[g] = tailers[g]
                               /\ tailers'[g] # tailers'[f] \/ tailers'[f] = tailers[f]
      /\ tailers[f] # NoTailer => tailers'[f] = tailers[f]
  <2>1. CASE tailers[f] = NoTailer
    <3>1. NewTailer(f, 0)
      BY <2>1 DEF GetTailer
    <3> QED BY <1>1, <2>1, <3>1, NewTailerKeepsLines, NewTailerIsFree
  <2>2. CASE tailers[f] # NoTailer
    <3>1. UNCHANGED <<tailers, offset>>
      BY <2>2 DEF GetTailer
    <3>2. \A g \in File : ReadOf(g)' = ReadOf(g) /\ ReadOf(g) \in Nat
      BY <1>1, <3>1, ReadOfIsNat DEF ReadOf
    <3>3. offset' \in [Tailer -> Nat]
      BY <1>1, <3>1 DEF TailerInv
    <3> QED BY <3>1, <3>2, <3>3
  <2> QED BY <2>1, <2>2
<1>4. TailerInv'
  <2>1. \A g, h \in File : tailers'[g] = tailers'[h] /\ tailers'[g] # NoTailer => g = h
    BY <1>1, <1>3 DEF TailerInv
  <2>2. \A q \in Reader : reader'[q].pc = "read" <=> reader'[q].tailer # NoTailer
    BY <1>1, <1>2 DEF TailerInv
  <2>3. ASSUME NEW q \in Reader, reader'[q].pc = "read", reader'[q].file \notin gone'
        PROVE  reader'[q].tailer = tailers'[reader'[q].file]
    <3>1. CASE q = r
      BY <1>2, <3>1
    <3>2. CASE q # r
      <4>1. reader'[q] = reader[q] /\ reader[q].file \in File
        BY <1>1, <1>2, <3>2 DEF TypeInv, Frame
      <4>2. reader[q].tailer = tailers[reader[q].file] /\ reader[q].tailer # NoTailer
        BY <1>1, <2>3, <4>1 DEF TailerInv
      <4> QED BY <1>3, <4>1, <4>2
    <3> QED BY <3>1, <3>2
  <2> QED BY <1>3, <2>1, <2>2, <2>3 DEF TailerInv
<1>5. \A q \in Reader : \/ reader'[q].new = {}
                        \/ /\ reader'[q].pc = "send" /\ reader[q].pc = "send"
                           /\ reader'[q].new = reader[q].new
                           /\ reader'[q].file = reader[q].file
  BY <1>2 DEF LinesInv, HandsInv
<1>6. HandsInv' /\ LinesOnce'
  BY <1>1, <1>3, <1>5, IdleKeepsLines
<1> QED BY <1>4, <1>6 DEF LinesInv

LEMMA AddFileKeepsLinesInv ==
  ASSUME LinesInv, SessionInv', AddFile
  PROVE  LinesInv'
<1> DEFINE f == scan.at
<1>1. /\ TypeInv /\ TypeInv' /\ TailerInv /\ UNCHANGED <<reader, gone, sent>>
      /\ f \in File
  BY DEF LinesInv, SessionInv, AddFile, history, TypeInv, Scan
<1>2. CASE tailers[f] # NoTailer
  BY <1>1, <1>2, OthersKeepLinesInv DEF AddFile, watcher
<1>3. CASE tailers[f] = NoTailer
  <2>1. PICK start \in Nat : NewTailer(f, start)
    <3>1. (IF Exists(f) THEN lines[f] ELSE 0) \in Nat
      BY <1>1 DEF Exists, TypeInv
    <3> QED BY <1>3, <3>1 DEF AddFile
  <2>2. /\ offset' \in [Tailer -> Nat]
        /\ \A g \in File \ {f} : tailers'[g] = tailers[g] /\ tailers'[g] # tailers'[f]
        /\ \A g \in File : /\ ReadOf(g) \in Nat /\ ReadOf(g)' \in Nat
                           /\ ReadOf(g) <= ReadOf(g)'
    BY <1>1, <1>3, <2>1, NewTailerIsFree, NewTailerKeepsLines
  <2>3. TailerInv'
    <3>1. ASSUME NEW q \in Reader, reader[q].pc = "read", reader[q].file \notin gone
          PROVE  reader[q].tailer = tailers'[reader[q].file]
      <4>1. reader[q].file \in File
        BY <1>1 DEF TypeInv, Frame
      <4>2. reader[q].tailer = tailers[reader[q].file] /\ reader[q].tailer # NoTailer
        BY <1>1, <3>1 DEF TailerInv
      <4> QED BY <1>3, <2>2, <4>1, <4>2
    <3>2. \A g, h \in File : tailers'[g] = tailers'[h] /\ tailers'[g] # NoTailer => g = h
      BY <1>1, <2>2 DEF TailerInv
    <3> QED BY <1>1, <2>2, <3>1, <3>2 DEF TailerInv
  <2>4. \A r \in Reader : reader[r].new # {} => reader[r].pc = "send"
    BY DEF LinesInv, HandsInv
  <2>5. HandsInv' /\ LinesOnce'
    BY <1>1, <2>2, <2>4, IdleKeepsLines
  <2> QED BY <2>3, <2>5 DEF LinesInv
<1> QED BY <1>2, <1>3
\* A read that finds nothing, or no file; and the file that was not there.
LEMMA NoReadKeepsLinesInv ==
  ASSUME LinesInv, SessionInv', NEW r \in Reader,
         ReadNothing(r) \/ ReadMissing(r) \/ ForgetFile(r)
  PROVE  LinesInv'
<1> DEFINE f == reader[r].file
<1>1. /\ TypeInv /\ TypeInv' /\ TailerInv /\ KnownInv /\ f \in File /\ UNCHANGED <<gone, sent>>
      /\ Keep(offset) /\ offset \in [Tailer -> Nat]
  BY DEF LinesInv, SessionInv, TailerInv, TypeInv, Frame, ReadNothing, ReadMissing, ForgetFile,
         history
<1>2. /\ reader'[r].pc # "read" /\ reader'[r].tailer = NoTailer /\ reader'[r].new = {}
      /\ \A q \in Reader \ {r} : reader'[q] = reader[q]
  BY <1>1, IdsAreSessionIds DEF ReadNothing, ReadMissing, ForgetFile, TypeInv
<1>3. \A g \in File : \/ tailers'[g] = tailers[g]
                      \/ g \in gone /\ tailers'[g] = NoTailer
  BY <1>1 DEF ReadNothing, ReadMissing, ForgetFile, TypeInv, KnownInv
<1>4. /\ offset' \in [Tailer -> Nat]
      /\ \A g \in File : tailers'[g] \in Tailer => offset'[tailers'[g]] = offset[tailers'[g]]
  BY <1>1, KeepKeeps
<1>5. \A g \in File \ gone : ReadOf(g) \in Nat /\ ReadOf(g)' = ReadOf(g)
  <2> SUFFICES ASSUME NEW g \in File \ gone PROVE ReadOf(g) \in Nat /\ ReadOf(g)' = ReadOf(g)
    OBVIOUS
  <2>1. tailers'[g] = tailers[g] /\ (tailers[g] # NoTailer => tailers[g] \in Tailer)
    BY <1>1, <1>3 DEF TypeInv
  <2> QED BY <1>1, <1>4, <2>1, ReadOfIsNat DEF ReadOf
<1>6. TailerInv'
  <2>1. \A g, h \in File : tailers'[g] = tailers'[h] /\ tailers'[g] # NoTailer => g = h
    BY <1>1, <1>3 DEF TailerInv
  <2>2. \A q \in Reader : reader'[q].pc = "read" <=> reader'[q].tailer # NoTailer
    BY <1>1, <1>2 DEF TailerInv
  <2>3. ASSUME NEW q \in Reader, reader'[q].pc = "read", reader'[q].file \notin gone'
        PROVE  reader'[q].tailer = tailers'[reader'[q].file]
    <3>1. reader'[q] = reader[q] /\ reader[q].file \in File \ gone
      BY <1>1, <1>2, <2>3 DEF TypeInv, Frame
    <3>2. reader[q].tailer = tailers[reader[q].file]
      BY <1>1, <2>3, <3>1 DEF TailerInv
    <3> QED BY <1>3, <3>1, <3>2
  <2> QED BY <1>4, <2>1, <2>2, <2>3 DEF TailerInv
<1>7. \A q \in Reader : \/ reader'[q].new = {}
                        \/ /\ reader'[q].pc = "send" /\ reader[q].pc = "send"
                           /\ reader'[q].new = reader[q].new
                           /\ reader'[q].file = reader[q].file
  BY <1>2 DEF LinesInv, HandsInv
<1>8. HandsInv' /\ LinesOnce'
  BY <1>1, <1>5, <1>7, IdleKeepsLines
<1> QED BY <1>6, <1>8 DEF LinesInv

\* The lines that are read are beyond all that have been.
LEMMA ReadNewKeepsLinesInv ==
  ASSUME LinesInv, SessionInv', NEW r \in Reader, ReadNewLines(r),
         NEW f, f = reader[r].file
  PROVE  LinesInv'
<1> DEFINE t == reader[r].tailer
           o == [offset EXCEPT ![t] = lines[f]]
           new == (offset[t] + 1)..lines[f]
<1>1. /\ TypeInv /\ TypeInv' /\ TailerInv /\ HandsInv /\ LinesOnce /\ KnownInv
      /\ f \in File /\ UNCHANGED <<tailers, gone, sent>>
      /\ reader[r].pc = "read"
  BY DEF LinesInv, SessionInv, TypeInv, Frame, ReadNewLines, history
<1>2. t \in Tailer /\ offset[t] \in Nat /\ lines[f] > offset[t]
      /\ lines[f] \in Nat /\ f \notin gone /\ t = tailers[f]
  <2>1. t # NoTailer /\ t \in Tailer
    BY <1>1 DEF TailerInv, TypeInv, Frame
  <2>2. offset[t] \in Nat /\ lines[f] > offset[t] /\ lines[f] \in Nat \cup {Absent}
    BY <1>1, <2>1 DEF TailerInv, ReadNewLines, TypeInv
  <2>3. lines[f] # Absent
    BY <2>2 DEF Absent
  <2>4. f \notin gone
    BY <1>1, <2>3 DEF KnownInv, Exists
  <2> QED BY <1>1, <2>1, <2>2, <2>3, <2>4 DEF TailerInv
<1>3. /\ reader'[r] = [pc |-> "send", file |-> f, tailer |-> NoTailer, new |-> new]
      /\ \A q \in Reader \ {r} : reader'[q] = reader[q]
      /\ Keep(o)
  BY <1>1 DEF ReadNewLines, TypeInv
<1>4. o \in [Tailer -> Nat] /\ o[t] = lines[f]
      /\ \A u \in Tailer \ {t} : o[u] = offset[u]
  BY <1>1, <1>2 DEF TailerInv
<1> HIDE DEF o
<1>5. /\ offset' \in [Tailer -> Nat]
      /\ \A g \in File : tailers[g] \in Tailer => offset'[tailers[g]] = o[tailers[g]]
  BY <1>1, <1>3, <1>4, KeepKeeps
<1>6. ReadOf(f)' = lines[f] /\ ReadOf(f) = offset[t]
  BY <1>1, <1>2, <1>4, <1>5, IdsAreSessionIds DEF ReadOf
<1>7. \A g \in File \ {f} : ReadOf(g)' = ReadOf(g)
  <2> SUFFICES ASSUME NEW g \in File \ {f}, tailers[g] # NoTailer
               PROVE  offset'[tailers[g]] = offset[tailers[g]]
    BY <1>1 DEF ReadOf
  <2>1. tailers[g] \in Tailer \ {t}
    BY <1>1, <1>2 DEF TypeInv, TailerInv
  <2> QED BY <1>4, <1>5, <2>1
<1>8. TailerInv'
  <2>1. ASSUME NEW q \in Reader
        PROVE  /\ reader'[q].pc = "read" <=> reader'[q].tailer # NoTailer
               /\ reader'[q].pc = "read" /\ reader'[q].file \notin gone'
                    => reader'[q].tailer = tailers'[reader'[q].file]
    BY <1>1, <1>3 DEF TailerInv
  <2> QED BY <1>1, <1>5, <2>1 DEF TailerInv
<1>9. \A q \in Reader \ {r} : reader[q].file = f => reader[q].new \subseteq 1..offset[t]
  BY <1>1, <1>2, <1>6 DEF HandsInv
<1>10. /\ new \subseteq 1..lines[f] /\ 1..offset[t] \subseteq 1..lines[f]
       /\ new \cap (1..offset[t]) = {}
  BY <1>2
<1> HIDE DEF new
<1>11. sent[f].lines \subseteq 1..offset[t]
  BY <1>1, <1>2, <1>6 DEF HandsInv
<1>12. HandsInv'
  <2>1. ASSUME NEW q \in Reader, reader'[q].file \notin gone
        PROVE  reader'[q].new \subseteq 1..ReadOf(reader[q].file)'
    <3>1. CASE q = r
      <4>1. reader'[q].file = f /\ reader'[q].new = new
        BY <1>3, <3>1
      <4> QED BY <1>6, <1>10, <4>1, <1>3, <3>1 DEF ReadOf
    <3>2. CASE q # r
      <4>1. reader'[q] = reader[q] /\ reader[q].file \in File
        BY <1>1, <1>3, <3>2 DEF TypeInv, Frame
      <4>2. reader[q].new \subseteq 1..ReadOf(reader[q].file)
        BY <1>1, <2>1, <4>1 DEF HandsInv
      <4>3. CASE reader[q].file = f
        BY <1>6, <1>9, <1>10, <3>2, <4>1, <4>3 DEF ReadOf
      <4>4. CASE reader[q].file # f
        BY <1>7, <4>1, <4>2, <4>4 DEF ReadOf
      <4> QED BY <4>3, <4>4
    <3> QED BY <3>1, <3>2
  <2>2. \A g \in File \ gone : sent[g].lines \subseteq 1..ReadOf(g)'
    BY <1>1, <1>6, <1>7, <1>10, <1>11 DEF HandsInv
  <2>3. \A q \in Reader : reader'[q].pc # "send" => reader'[q].new = {}
    BY <1>1, <1>3 DEF HandsInv
  <2> QED BY <1>1, <2>1, <2>2, <2>3 DEF HandsInv
<1>13. LinesOnce'
  <2>1. new \cap sent[f].lines = {}
        /\ \A q \in Reader \ {r} : reader[q].file = f => reader[q].new \cap new = {}
    BY <1>9, <1>10, <1>11
  <2> QED BY <1>1, <1>3, <2>1 DEF LinesOnce
<1> QED BY <1>8, <1>12, <1>13 DEF LinesInv

\* The lines go from the hands to the channel.
LEMMA SendKeepsLinesInv ==
  ASSUME LinesInv, SessionInv', NEW r \in Reader, SendLines(r)
  PROVE  LinesInv'
<1> DEFINE f == reader[r].file
<1>1. /\ TypeInv /\ TailerInv /\ HandsInv /\ LinesOnce /\ f \in File
      /\ UNCHANGED <<tailers, offset, gone>> /\ reader[r].pc = "send"
  BY DEF LinesInv, SessionInv, TypeInv, Frame, SendLines, watcher
<1>2. /\ reader'[r].pc = "idle" /\ reader'[r].tailer = NoTailer /\ reader'[r].new = {}
      /\ \A q \in Reader \ {r} : reader'[q] = reader[q]
      /\ sent'[f].lines = sent[f].lines \cup reader[r].new
      /\ \A g \in File \ {f} : sent'[g] = sent[g]
  BY <1>1, IdsAreSessionIds DEF SendLines, TypeInv
<1>3. TailerInv'
  <2>1. ASSUME NEW q \in Reader
        PROVE  /\ reader'[q].pc = "read" <=> reader'[q].tailer # NoTailer
               /\ reader'[q].pc = "read" /\ reader'[q].file \notin gone'
                    => reader'[q].tailer = tailers'[reader'[q].file]
    BY <1>1, <1>2 DEF TailerInv
  <2> QED BY <1>1, <2>1 DEF TailerInv
<1>4. HandsInv'
  <2>1. \A q \in Reader : reader'[q].new # {} => reader'[q] = reader[q]
    BY <1>2
  <2>2. \A g \in File : ReadOf(g)' = ReadOf(g)
    BY <1>1 DEF ReadOf
  <2>3. (\A q \in Reader :
           reader[q].file \notin gone => reader[q].new \subseteq 1..ReadOf(reader[q].file))'
    BY <1>1, <2>1 DEF HandsInv, ReadOf
  <2>4. \A g \in File \ gone : sent'[g].lines \subseteq 1..ReadOf(g)'
    BY <1>1, <1>2, <2>2 DEF HandsInv
  <2>5. \A q \in Reader : reader'[q].pc # "send" => reader'[q].new = {}
    BY <1>1, <1>2 DEF HandsInv
  <2> QED BY <1>1, <2>3, <2>4, <2>5 DEF HandsInv
<1>5. LinesOnce'
  <2>1. ASSUME NEW q \in Reader
        PROVE  /\ reader'[q].new \cap sent'[reader'[q].file].lines = {}
               /\ \A p \in Reader \ {q} :
                    reader'[p].file = reader'[q].file => reader'[p].new \cap reader'[q].new = {}
    <3>1. CASE q = r
      BY <1>2, <3>1
    <3>2. CASE q # r
      <4>1. reader'[q] = reader[q] /\ reader[q].file \in File
        BY <1>1, <1>2, <3>2 DEF TypeInv, Frame
      <4>2. reader[q].new \cap sent[reader[q].file].lines = {}
            /\ (reader[q].file = f => reader[q].new \cap reader[r].new = {})
        BY <1>1, <3>2 DEF LinesOnce
      <4>3. reader[q].new \cap sent'[reader[q].file].lines = {}
        BY <1>2, <4>1, <4>2
      <4>4. \A p \in Reader \ {q} :
              reader'[p].file = reader[q].file => reader'[p].new \cap reader[q].new = {}
        BY <1>1, <1>2 DEF LinesOnce
      <4> QED BY <4>1, <4>3, <4>4
    <3> QED BY <3>1, <3>2
  <2> QED BY <2>1 DEF LinesOnce
<1> QED BY <1>3, <1>4, <1>5 DEF LinesInv

LEMMA StepKeepsLinesInv == LinesInv /\ [Next]_vars => LinesInv'
<1> SUFFICES ASSUME LinesInv, [Next]_vars PROVE LinesInv'
  OBVIOUS
<1>0. SessionInv'
  BY StepKeepsSessionInv DEF LinesInv
<1>1. ASSUME NEW f \in File, Append1(f) \/ Create(f) \/ Delete(f) PROVE LinesInv'
  BY <1>0, <1>1, OthersKeepLinesInv DEF Append1, Create, Delete, watcher, history
<1>2. ASSUME NEW p \in Poller, PollTick(p) PROVE LinesInv'
  BY <1>0, <1>2, OthersKeepLinesInv DEF PollTick, watcher, history
<1>3. ASSUME NEW p \in Poller, NEW f \in File, PollFile(p, f) PROVE LinesInv'
  <2>1. p \in Reader
    BY DEF Reader
  <2> QED BY <1>0, <1>3, <2>1, GetTailerKeepsLinesInv DEF PollFile
<1>4. ASSUME NEW c \in Callback, NEW f \in File, DebounceFire(c, f) PROVE LinesInv'
  <2>1. c \in Reader
    BY DEF Reader
  <2> QED BY <1>0, <1>4, <2>1, GetTailerKeepsLinesInv DEF DebounceFire
<1>5. ASSUME NEW r \in Reader, ReadStep(r) PROVE LinesInv'
  BY <1>0, <1>5, NoReadKeepsLinesInv, ReadNewKeepsLinesInv, SendKeepsLinesInv DEF ReadStep
<1>6. CASE ScanStep
  <2>1. ASSUME NEW f \in File, AddSession(f) PROVE LinesInv'
    BY <1>0, <2>1, OthersKeepLinesInv DEF AddSession, watcher, history
  <2>2. CASE Discover \/ ScanDone \/ Rediscover
    BY <1>0, <2>2, OthersKeepLinesInv DEF Discover, ScanDone, Rediscover, watcher, history
  <2> QED BY <1>0, <1>6, <2>1, <2>2, AddFileKeepsLinesInv DEF ScanStep
<1>7. CASE LoopStep
  <2>1. UNCHANGED <<tailers, offset, reader, sent, gone>>
    BY <1>7 DEF LoopStep, LoopTake, TryAdd, TryAddFails, Parse, watcher, history
  <2> QED BY <1>0, <2>1, OthersKeepLinesInv
<1>8. CASE UNCHANGED vars
  BY <1>0, <1>8, OthersKeepLinesInv DEF vars, watcher, history
<1> QED BY <1>1, <1>2, <1>3, <1>4, <1>5, <1>6, <1>7, <1>8 DEF Next

\* No line of a file is sent twice, whoever reads it and however often it is found
\* again: all readers of a file share the map's tailer, and no other file has it
\* (readAndEmit, AddFile, Tailer.ReadNewLines).
THEOREM LinesAreSentOnce == Spec => []LinesOnce
<1>1. LinesInv => LinesOnce
  BY DEF LinesInv
<1> QED BY <1>1, InitLinesInv, StepKeepsLinesInv, PTL DEF Spec
\* What TypeOK says beyond that.
BoundsInv ==
    /\ \A f \in File : lines[f] <= MaxLines[f]
    /\ gone \subseteq Deletable
    /\ \A f \in File : tailers[f] = NoTailer => ids[f] = NoId
    /\ \A r \in Reader : reader[r].new \subseteq 1..MaxLines[reader[r].file]
    /\ \A id \in DOMAIN registry : registry[id].pid \in BOOLEAN

LEMMA InitBoundsInv == Init => BoundsInv
<1> SUFFICES ASSUME Init PROVE BoundsInv
  OBVIOUS
<1>1. \A r \in Reader : reader[r].new = {}
  BY IdsAreSessionIds DEF Init
<1> QED BY <1>1 DEF Init, BoundsInv

LEMMA ReadKeepsBoundsInv ==
  ASSUME BoundsInv, LinesInv, NEW r \in Reader, ReadStep(r)
  PROVE  BoundsInv'
<1>1. /\ TypeInv /\ TailerInv /\ reader[r].file \in File
      /\ UNCHANGED <<lines, registry, gone>>
  BY DEF LinesInv, SessionInv, TypeInv, Frame, ReadStep, ReadNothing, ReadMissing, ReadNewLines,
         ForgetFile, SendLines, history
<1>2. \A f \in File : tailers'[f] = NoTailer => ids'[f] = NoId
  BY <1>1 DEF ReadStep, ReadNothing, ReadMissing, ReadNewLines, ForgetFile, SendLines, TypeInv,
              BoundsInv, watcher
<1>3. \A q \in Reader \ {r} : reader'[q] = reader[q]
  BY <1>1 DEF ReadStep, ReadNothing, ReadMissing, ReadNewLines, ForgetFile, SendLines, TypeInv
<1>4. reader'[r].new \subseteq 1..MaxLines[reader'[r].file]
  <2>1. CASE ~ReadNewLines(r)
    <3>1. reader'[r].new = {}
      BY <1>1, <2>1, IdsAreSessionIds
         DEF ReadStep, ReadNothing, ReadMissing, ForgetFile, SendLines, TypeInv
    <3> QED BY <3>1
  <2>2. CASE ReadNewLines(r)
    <3> DEFINE f == reader[r].file
               t == reader[r].tailer
    <3>1. reader'[r].file = f /\ reader'[r].new = (offset[t] + 1)..lines[f]
      BY <1>1, <2>2 DEF ReadNewLines, TypeInv
    <3>2. t \in Tailer /\ offset[t] \in Nat
      BY <1>1, <2>2 DEF ReadNewLines, TypeInv, Frame, TailerInv
    <3>3. lines[f] \in Int /\ MaxLines[f] \in Nat /\ lines[f] <= MaxLines[f]
      BY <1>1, SessionsAssumption DEF TypeInv, Absent, BoundsInv
    <3>4. (offset[t] + 1)..lines[f] \subseteq 1..MaxLines[f]
      BY <3>2, <3>3
    <3> HIDE DEF f, t
    <3> QED BY <3>1, <3>4
  <2> QED BY <2>1, <2>2
<1>5. \A q \in Reader : reader'[q].new \subseteq 1..MaxLines[reader'[q].file]
  BY <1>3, <1>4 DEF BoundsInv
<1> QED BY <1>1, <1>2, <1>5 DEF BoundsInv

LEMMA StepKeepsBoundsInv == BoundsInv /\ LinesInv /\ [Next]_vars => BoundsInv'
<1> SUFFICES ASSUME BoundsInv, LinesInv, [Next]_vars PROVE BoundsInv'
  OBVIOUS
<1>0. TypeInv
  BY DEF LinesInv, SessionInv
<1>1. ASSUME NEW f \in File, Append1(f) \/ Create(f) \/ Delete(f) PROVE BoundsInv'
  <2>1. \A g \in File : lines'[g] <= MaxLines[g]
    <3>1. MaxLines[f] \in Nat /\ lines[f] \in Int
      BY <1>0, SessionsAssumption DEF TypeInv, Absent
    <3>2. lines'[f] <= MaxLines[f] /\ \A g \in File \ {f} : lines'[g] = lines[g]
      BY <1>0, <1>1, <3>1 DEF Append1, Create, Delete, TypeInv, Absent
    <3> QED BY <3>2 DEF BoundsInv
  <2>2. gone' \subseteq Deletable
    BY <1>1 DEF Append1, Create, Delete, BoundsInv, history
  <2>3. UNCHANGED <<tailers, ids, reader, registry>>
    BY <1>1 DEF Append1, Create, Delete, watcher
  <2> QED BY <2>1, <2>2, <2>3 DEF BoundsInv
<1>2. ASSUME NEW r \in Reader, NEW f \in File, GetTailer(r, f),
             UNCHANGED <<lines, ids, registry, history>>
      PROVE  BoundsInv'
  <2>1. /\ \A q \in Reader \ {r} : reader'[q] = reader[q]
        /\ reader'[r].new = {}
        /\ \A g \in File : tailers'[g] = NoTailer => tailers[g] = NoTailer
    BY <1>0, <1>2, GetTailerIsOne DEF GetTailer, TypeInv
  <2>2. \A q \in Reader : reader'[q].new \subseteq 1..MaxLines[reader'[q].file]
    BY <2>1 DEF BoundsInv
  <2> QED BY <1>2, <2>1, <2>2 DEF BoundsInv, history
<1>3. ASSUME NEW p \in Poller, PollTick(p) \/ \E f \in File : PollFile(p, f)
      PROVE  BoundsInv'
  <2>1. p \in Reader
    BY DEF Reader
  <2> QED BY <1>2, <1>3, <2>1 DEF PollTick, PollFile, BoundsInv, watcher, history
<1>4. ASSUME NEW c \in Callback, NEW f \in File, DebounceFire(c, f) PROVE BoundsInv'
  <2>1. c \in Reader
    BY DEF Reader
  <2> QED BY <1>2, <1>4, <2>1 DEF DebounceFire
<1>5. CASE ScanStep
  <2>1. ASSUME NEW f \in File, AddSession(f) PROVE BoundsInv'
    <3>1. \A id \in DOMAIN registry' : registry'[id].pid \in BOOLEAN
      BY <2>1 DEF AddSession, Add, BoundsInv
    <3> QED BY <2>1, <3>1 DEF AddSession, BoundsInv, watcher, history
  <2>2. CASE AddFile
    <3>1. scan.at \in File /\ UNCHANGED <<lines, reader, registry, gone>>
      BY <1>0, <2>2 DEF AddFile, TypeInv, Scan, history
    <3>2. CASE tailers[scan.at] # NoTailer
      BY <2>2, <3>1, <3>2 DEF AddFile, BoundsInv, watcher
    <3>3. CASE tailers[scan.at] = NoTailer
      <4>1. /\ \A g \in File \ {scan.at} : tailers'[g] = tailers[g] /\ ids'[g] = ids[g]
            /\ tailers'[scan.at] # NoTailer
        BY <1>0, <2>2, <3>1, <3>3, NewTailerIsOne DEF AddFile, TypeInv
      <4> QED BY <3>1, <4>1 DEF BoundsInv
    <3> QED BY <3>2, <3>3
  <2>3. CASE Discover \/ ScanDone \/ Rediscover
    BY <2>3 DEF Discover, ScanDone, Rediscover, BoundsInv, watcher, history
  <2> QED BY <1>5, <2>1, <2>2, <2>3 DEF ScanStep
<1>6. CASE LoopStep
  <2>1. UNCHANGED <<lines, tailers, ids, reader, gone>>
    BY <1>6 DEF LoopStep, LoopTake, TryAdd, TryAddFails, Parse, watcher, history
  <2>2. \A id \in DOMAIN registry' : registry'[id].pid \in BOOLEAN
    <3>1. CASE TryAdd
      <4>1. PICK id, agent : Add(id, [agent |-> agent, pid |-> FALSE])
        BY <3>1 DEF TryAdd
      <4> QED BY <4>1 DEF Add, BoundsInv
    <3>2. CASE LoopTake \/ TryAddFails \/ Parse
      BY <3>2 DEF LoopTake, TryAddFails, Parse, BoundsInv
    <3> QED BY <1>6, <3>1, <3>2 DEF LoopStep
  <2> QED BY <2>1, <2>2 DEF BoundsInv
<1>7. CASE UNCHANGED vars
  BY <1>7 DEF vars, BoundsInv, watcher, history
<1> QED BY <1>1, <1>3, <1>4, <1>5, <1>6, <1>7, ReadKeepsBoundsInv DEF Next

LEMMA TypesAreOK == LinesInv /\ BoundsInv => TypeOK
<1> SUFFICES ASSUME LinesInv, BoundsInv PROVE TypeOK
  OBVIOUS
<1>1. TypeInv /\ TailerInv
  BY DEF LinesInv, SessionInv
<1>2. \A f \in File : lines[f] \in Absent..MaxLines[f]
  <2> SUFFICES ASSUME NEW f \in File PROVE lines[f] \in Absent..MaxLines[f]
    OBVIOUS
  <2>1. /\ lines[f] \in Nat \cup {Absent} /\ MaxLines[f] \in Nat /\ lines[f] <= MaxLines[f]
    BY <1>1, SessionsAssumption DEF TypeInv, BoundsInv
  <2> QED BY <2>1 DEF Absent
<1>3. lines \in [File -> Int]
  BY <1>1 DEF TypeInv, Absent
<1>4. \A r \in Reader :
        /\ reader[r].pc \in {"idle", "read", "forget", "send"}
        /\ reader[r].file \in File /\ reader[r].tailer \in Tailer \cup {NoTailer}
        /\ reader[r].new \subseteq 1..MaxLines[reader[r].file]
  BY <1>1 DEF TypeInv, Frame, BoundsInv
<1> QED BY <1>1, <1>2, <1>3, <1>4 DEF TypeOK, TypeInv, TailerInv, BoundsInv, Scan

\* Every variable has its type: a reader's lines are lines of its file, an ID is kept for
\* files that have a tailer only (Watcher.tailers, Watcher.sessionIDs).
THEOREM SessionsTypeCorrect == Spec => []TypeOK
<1>1. Init => LinesInv /\ BoundsInv
  BY InitLinesInv, InitBoundsInv
<1>2. (LinesInv /\ BoundsInv) /\ [Next]_vars => (LinesInv /\ BoundsInv)'
  BY StepKeepsLinesInv, StepKeepsBoundsInv
<1> QED BY <1>1, <1>2, TypesAreOK, PTL DEF Spec
=============================================================================

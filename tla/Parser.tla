-------------------------------- MODULE Parser --------------------------------
(***************************************************************************)
(* How the parsers turn lines of the agents' logs into events, and which   *)
(* lines' token usage they let through (claude.go, codex.go, gemini.go).   *)
(*                                                                         *)
(* An agent writes the usage of one request on several lines, a line may   *)
(* be delivered again (a log that is truncated or created anew is read     *)
(* from its beginning), and Gemini's old format delivers the whole         *)
(* conversation each time.  So each parser remembers what it has charged,  *)
(* in a bounded memory.  The daemon has one parser of each kind for all    *)
(* sessions; processEvents alone calls it, a line at a time.               *)
(*                                                                         *)
(* A behaviour is the life of one of the three parsers.                    *)
(***************************************************************************)
EXTENDS Integers, Sequences, FiniteSets, FiniteSetsExt, SequencesExt

CONSTANTS
    Agents,           \* the parsers considered: "claude", "codex", "gemini"
    Request,          \* the IDs of requests, inferences and updates
    NoRequest,        \* the empty ID
    Conversation,     \* the sessions Gemini keeps in its old format
    Contents,         \* the contents a Claude line may have: sequences of blocks
    Messages,         \* the n-th message a conversation may hold
    maxSeenRequests,  \* 10000 in the code
    MaxLines,         \* bound: lines parsed
    MaxGen            \* bound: how often a conversation begins anew

Block == {"tool_use", "text", "thinking", "tool_result", "bad"}
Part  == {"call", "response", "text", "empty"}
Kind  == {"tool_use", "text", "thinking", "tool_result"}

ASSUME ParserAssumption ==
    /\ Agents \subseteq {"claude", "codex", "gemini"}
    /\ NoRequest \notin Request
    /\ Contents \subseteq Seq(Block)
    /\ Messages \in Seq([parts : Seq(Part), usage : BOOLEAN])
    /\ (Request \cup {NoRequest}) \cap (Conversation \X Nat \X Nat) = {}
    /\ maxSeenRequests \in Nat /\ MaxLines \in Nat /\ MaxGen \in Nat

VARIABLES
    agent,       \* whose parser this is
    current,     \* currentGen, or seenRequests, or seenUpdates
    previous,    \* previousGen (ClaudeParser only)
    count,       \* currentCount, or seenCount, or seenUpdatesCount
    legacySeen,  \* how many messages of a conversation have been emitted
    events,      \* what the last Parse returned: kinds, and which carries usage
    lines,       \* how many lines there have been
    file,        \* each conversation: its generation and its length, when delivered
    first,       \* history: the requests in the order they were remembered
    charges,     \* history: what has been charged, and after how many of first
    missed       \* history: conversations that began anew without getting shorter

memory  == <<current, previous, count>>
history == <<first, charges, missed>>
vars == <<agent, memory, legacySeen, events, lines, file, history>>

Message == DOMAIN Messages

\* Every variable has its type; what the parsers remember of requests is bounded.
TypeOK ==
    /\ agent \in Agents
    /\ current \subseteq Request /\ previous \subseteq Request
    /\ count \in 0..maxSeenRequests /\ Cardinality(current) = count
    /\ Cardinality(previous) <= maxSeenRequests + 1
    /\ legacySeen \in [Conversation -> {0} \cup Message]
    /\ events \in Seq([kind : Kind, usage : BOOLEAN])
    /\ lines \in 0..MaxLines
    /\ file \in [Conversation -> [gen : 0..MaxGen, len : {0} \cup Message]]
    /\ first \in Seq(Request)
    /\ missed \subseteq Conversation

----------------------------------------------------------------------------
(* What the lines of the three agents become.                              *)

Event(kind, usage) == [kind |-> kind, usage |-> usage]

\* The elements of s that are in K, as the parsers' loops come upon them.  (A
\* recursive function, which unlike SelectSeq can be reasoned about.)
Keep(s, K) ==
    LET kept[i \in 0..Len(s)] ==
          IF i = 0 THEN <<>>
          ELSE IF s[i] \in K THEN Append(kept[i - 1], s[i]) ELSE kept[i - 1]
    IN  kept[Len(s)]

\* parseAssistant: every block that can be parsed is an event, and the first of
\* them carries the usage.  (An unknown type of block is like text here.)
AssistantEvents(content, usage) ==
    LET blocks == Keep(content, Kind)
    IN  [i \in DOMAIN blocks |-> Event(blocks[i], usage /\ i = 1)]

\* parseUser: tool results only.
UserEvents(content) ==
    LET results == Keep(content, {"tool_result"})
    IN  [i \in DOMAIN results |-> Event("tool_result", FALSE)]

\* parseLegacyMessage: the first call or text carries the usage, and if there is
\* none an event of its own does.
LegacyEvents(message) ==
    LET kindOf  == [call |-> "tool_use", response |-> "tool_result", text |-> "text"]
        parts   == Keep(message.parts, DOMAIN kindOf)
        bearers == {i \in DOMAIN parts : parts[i] # "response"}
    IN  [i \in DOMAIN parts |->
           Event(kindOf[parts[i]], message.usage /\ bearers # {} /\ i = Min(bearers))]
        \o (IF message.usage /\ bearers = {} THEN <<Event("text", TRUE)>> ELSE <<>>)

Bears(evs) == \E i \in DOMAIN evs : evs[i].usage

Charge(keys) ==
    charges' = charges \cup {[key |-> k, after |-> Len(first'),
                              nth |-> Cardinality({c \in charges : c.key = k}) + 1] : k \in keys}

----------------------------------------------------------------------------
(* ClaudeParser.                                                           *)

Known(r) == r \in current \cup previous

\* Mutant: a full memory is emptied, as in the other two parsers.
RememberClaude_Empties(r) ==
    /\ current' = IF count + 1 > maxSeenRequests THEN {} ELSE current \cup {r}
    /\ count' = IF count + 1 > maxSeenRequests THEN 0 ELSE count + 1
    /\ first' = Append(first, r)
    /\ UNCHANGED previous

\* Two generations: a full one becomes the older, and the older is forgotten.
RememberClaude(r) ==
    /\ IF count + 1 > maxSeenRequests
       THEN previous' = current \cup {r} /\ current' = {} /\ count' = 0
       ELSE current' = current \cup {r} /\ count' = count + 1 /\ UNCHANGED previous
    /\ first' = Append(first, r)

\* An "assistant" line.  Its request is remembered whether or not the line has
\* usage and content to carry it.
ClaudeAssistant(r, content, usage) ==
    LET countTokens == r # NoRequest /\ ~Known(r)
    IN  /\ IF countTokens THEN RememberClaude(r) ELSE UNCHANGED <<memory, first>>
        /\ events' = AssistantEvents(content, usage /\ countTokens)
        /\ Charge(IF Bears(events') THEN {r} ELSE {})
        /\ UNCHANGED <<legacySeen, file, missed>>

ClaudeUser(content) ==
    /\ events' = UserEvents(content)
    /\ UNCHANGED <<memory, legacySeen, file, history>>

----------------------------------------------------------------------------
(* CodexParser, and GeminiParser on lines of the current format.           *)

\* Mutant: the memory is never emptied.
Remember_All(r) ==
    /\ current' = current \cup {r} /\ count' = count + 1
    /\ first' = Append(first, r)
    /\ UNCHANGED previous

\* A full memory is emptied, of the request just seen as well.
Remember(r) ==
    /\ current' = IF count + 1 > maxSeenRequests THEN {} ELSE current \cup {r}
    /\ count' = IF count + 1 > maxSeenRequests THEN 0 ELSE count + 1
    /\ first' = Append(first, r)
    /\ UNCHANGED previous

\* inference_completed, and message_update with tokens.
Usage(r) ==
    /\ IF r \in current
       THEN events' = <<>> /\ UNCHANGED <<memory, first, charges>>
       ELSE /\ events' = <<Event("text", TRUE)>>
            /\ IF r = NoRequest THEN UNCHANGED <<memory, first>> ELSE Remember(r)
            /\ Charge({r})
    /\ UNCHANGED <<legacySeen, file, missed>>

\* A tool call or its result in Codex; the parts of a turn in Gemini; or a line
\* of another type, which is skipped.
NoUsage(kinds) ==
    /\ events' = [i \in DOMAIN kinds |-> Event(kinds[i], FALSE)]
    /\ UNCHANGED <<memory, legacySeen, file, history>>

----------------------------------------------------------------------------
(* GeminiParser on a file of the old format.                               *)

\* Mutant: what was emitted is counted on, whatever the conversation's length.
SkippedMessages_Always(c, len) == IF legacySeen[c] > len THEN len ELSE legacySeen[c]

\* A conversation that has become shorter is emitted from its beginning.
SkippedMessages(c, len) == IF legacySeen[c] > len THEN 0 ELSE legacySeen[c]

\* The agent has rewritten the file since it was delivered, perhaps many times:
\* the conversation has grown, or a new one has begun under the same session ID.
LegacyRewrite(c, gen, len) ==
    LET skipped == SkippedMessages(c, len)
        fresh   == (skipped + 1)..len
        bearing == {i \in fresh : Bears(LegacyEvents(Messages[i]))}
    IN  /\ \/ gen = file[c].gen /\ len >= file[c].len
           \/ gen = file[c].gen + 1
        /\ file' = [file EXCEPT ![c] = [gen |-> gen, len |-> len]]
        /\ events' = FlattenSeq([k \in 1..(len - skipped) |->
                                   LegacyEvents(Messages[skipped + k])])
        /\ legacySeen' = [legacySeen EXCEPT ![c] = len]
        /\ UNCHANGED <<memory, first>>
        /\ Charge({<<c, gen, i>> : i \in bearing})
        /\ missed' = IF gen = file[c].gen THEN missed
                     ELSE IF file[c].len \in 1..len THEN missed \cup {c} ELSE missed \ {c}

----------------------------------------------------------------------------
Init ==
    /\ agent \in Agents
    /\ current = {} /\ previous = {} /\ count = 0
    /\ legacySeen = [c \in Conversation |-> 0]
    /\ events = <<>> /\ lines = 0
    /\ file = [c \in Conversation |-> [gen |-> 0, len |-> 0]]
    /\ first = <<>> /\ charges = {} /\ missed = {}

Line == lines < MaxLines /\ lines' = lines + 1 /\ UNCHANGED agent

ClaudeLine ==
    /\ agent = "claude" /\ Line
    /\ \E content \in Contents :
         \/ ClaudeUser(content)
         \/ \E r \in Request \cup {NoRequest}, usage \in BOOLEAN :
              ClaudeAssistant(r, content, usage)

CodexLine ==
    /\ agent = "codex" /\ Line
    /\ \/ \E r \in Request \cup {NoRequest} : Usage(r)
       \/ \E kinds \in {<<"tool_use">>, <<"tool_result">>, <<>>} : NoUsage(kinds)

GeminiLine ==
    /\ agent = "gemini" /\ Line
    /\ \/ \E r \in Request \cup {NoRequest} : Usage(r)
       \/ \E kinds \in {<<"tool_use", "text">>, <<"tool_result">>, <<>>} : NoUsage(kinds)
       \/ \E c \in Conversation, gen \in 0..MaxGen, len \in Message \cup {0} :
            LegacyRewrite(c, gen, len)

Next == ClaudeLine \/ CodexLine \/ GeminiLine

Spec == Init /\ [][Next]_vars

----------------------------------------------------------------------------
(* Properties.                                                             *)

Generation(charge) == (charge.after - 1) \div (maxSeenRequests + 1)

\* However the lines of a request are spread, delivered again and mixed with those
\* of other sessions, its usage is not charged a second time while the parser
\* remembers it: in Claude's, that is for at least one whole generation of requests
\* after its own; in the other two, no longer than its own lasts.
ReplayIsRemembered ==
    \A c, d \in charges :
      c.key \in Request /\ c.key = d.key /\ c.nth < d.nth =>
        Generation(d) - Generation(c) > (IF agent = "claude" THEN 1 ELSE 0)

\* Each message of a conversation in the old format is charged exactly once if it
\* bears usage, whichever versions of the file are delivered: unless the
\* conversation has begun anew and is no shorter than what was there before.
LegacyIsExact ==
    \A c \in Conversation \ missed : \A i \in 1..file[c].len :
      Cardinality({d \in charges : d.key = <<c, file[c].gen, i>>})
        = IF Messages[i].usage THEN 1 ELSE 0
=============================================================================

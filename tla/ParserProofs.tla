---------------------------- MODULE ParserProofs ----------------------------
(***************************************************************************)
(* How long the parsers remember a request, and that Gemini's old format   *)
(* is charged exactly, for any size of their memory and any lines.         *)
(*                                                                         *)
(* The n-th request remembered is of generation (n - 1) \div Size.  The    *)
(* current generation is in current, whole; so is, in ClaudeParser, the    *)
(* one before it in previous.  A request that is charged again is in       *)
(* neither, so the last charge of it is older.                             *)
(*                                                                         *)
(* Of a conversation in the old format, what has been emitted is what the  *)
(* file held when it was last delivered, and nothing has been charged to   *)
(* what is still to come (EmittedInv); a message with usage has exactly    *)
(* one event that bears it, by what the parsers' loops compute.            *)
(***************************************************************************)
EXTENDS Parser, FiniteSetTheorems, SequenceTheorems, WellFoundedInduction, TLAPS

Size == maxSeenRequests + 1

\* The generation of the request that is remembered after n others.
GenAfter(n) == n \div Size

\* A generation more when the one before is full.
LEMMA GenSteps ==
  ASSUME NEW n \in Nat
  PROVE  /\ GenAfter(n) \in Nat /\ GenAfter(n + 1) \in Nat
         /\ n % Size \in 0..maxSeenRequests
         /\ n % Size < maxSeenRequests =>
              GenAfter(n + 1) = GenAfter(n) /\ (n + 1) % Size = (n % Size) + 1
         /\ n % Size = maxSeenRequests =>
              GenAfter(n + 1) = GenAfter(n) + 1 /\ (n + 1) % Size = 0
<1> DEFINE q == n \div Size
           k == n % Size
           p == (n + 1) \div Size
           j == (n + 1) % Size
<1>1. Size \in Nat \ {0} /\ maxSeenRequests = Size - 1 /\ maxSeenRequests \in Nat
  BY ParserAssumption DEF Size
<1>2. q \in Int /\ k \in 0..(Size - 1) /\ n = Size * q + k
  BY <1>1
<1>3. p \in Int /\ j \in 0..(Size - 1) /\ n + 1 = Size * p + j
  BY <1>1
<1> HIDE DEF q, k, p, j
<1>4. q \in Nat /\ p \in Nat
  BY <1>1, <1>2, <1>3
<1>5. Size * (p - q) = k + 1 - j /\ p - q \in Int
  BY <1>1, <1>2, <1>3
<1>6. p - q = 0 \/ p - q = 1
  <2>1. k + 1 - j \in (2 - Size)..Size
    BY <1>1, <1>2, <1>3
  <2>2. p - q < 2
    BY <1>1, <1>5, <2>1
  <2>3. p - q > -1
    BY <1>1, <1>5, <2>1
  <2> QED BY <1>5, <2>2, <2>3
<1>7. (p = q /\ j = k + 1) \/ (p = q + 1 /\ j = k + 1 - Size)
  BY <1>1, <1>2, <1>3, <1>4, <1>5, <1>6
<1>8. /\ k < maxSeenRequests => p = q /\ j = k + 1
      /\ k = maxSeenRequests => p = q + 1 /\ j = 0
  BY <1>1, <1>2, <1>3, <1>4, <1>7
<1> QED BY <1>1, <1>2, <1>4, <1>8 DEF GenAfter, q, k, p, j

----------------------------------------------------------------------------
(* The memory.                                                             *)

MemoryInv ==
    /\ agent \in {"claude", "codex", "gemini"}
    /\ first \in Seq(Request) /\ count = Len(first) % Size
    /\ \A i \in 1..Len(first) :
         /\ GenAfter(i - 1) <= GenAfter(Len(first))
         /\ GenAfter(i - 1) = GenAfter(Len(first)) => first[i] \in current
         /\ agent = "claude" /\ GenAfter(i - 1) = GenAfter(Len(first)) - 1
              => first[i] \in previous

\* A request that the parser does not know was remembered long ago, or never.
LEMMA UnknownIsOld ==
  ASSUME MemoryInv, NEW i \in 1..Len(first), first[i] \notin current,
         agent = "claude" => first[i] \notin previous
  PROVE  GenAfter(Len(first)) - GenAfter(i - 1) > (IF agent = "claude" THEN 1 ELSE 0)
<1>1. Len(first) \in Nat /\ i - 1 \in Nat
  BY DEF MemoryInv
<1>2. GenAfter(Len(first)) \in Nat /\ GenAfter(i - 1) \in Nat
  BY <1>1, GenSteps
<1> QED BY <1>2 DEF MemoryInv

\* Remembering one more keeps the memory in order.
LEMMA RememberKeepsMemoryInv ==
  ASSUME MemoryInv, NEW r \in Request, UNCHANGED agent,
         \/ agent = "claude" /\ RememberClaude(r)
         \/ agent # "claude" /\ Remember(r)
  PROVE  MemoryInv'
<1> DEFINE n == Len(first)
<1>1. n \in Nat /\ count = n % Size /\ first \in Seq(Request)
  BY DEF MemoryInv
<1>2. /\ first' \in Seq(Request) /\ Len(first') = n + 1 /\ first'[n + 1] = r
      /\ \A i \in 1..n : first'[i] = first[i]
  BY <1>1, AppendProperties DEF RememberClaude, Remember
<1>3. /\ GenAfter(n) \in Nat /\ GenAfter(n + 1) \in Nat
      /\ n % Size \in 0..maxSeenRequests
      /\ n % Size < maxSeenRequests =>
           GenAfter(n + 1) = GenAfter(n) /\ (n + 1) % Size = (n % Size) + 1
      /\ n % Size = maxSeenRequests =>
           GenAfter(n + 1) = GenAfter(n) + 1 /\ (n + 1) % Size = 0
  BY <1>1, GenSteps
<1>4. ASSUME NEW i \in 1..n PROVE i - 1 \in Nat /\ GenAfter(i - 1) \in Nat
  <2>1. i - 1 \in Nat
    BY <1>1
  <2> QED BY <2>1, GenSteps
<1>5. \A i \in 1..(n + 1) : i \in 1..n \/ (i = n + 1 /\ GenAfter(i - 1) = GenAfter(n))
  BY <1>1
<1>6. maxSeenRequests \in Nat
  BY ParserAssumption
<1>7. CASE count < maxSeenRequests
  <2>1. /\ current' = current \cup {r} /\ count' = count + 1 /\ previous' = previous
    BY <1>1, <1>3, <1>6, <1>7 DEF RememberClaude, Remember
  <2>2. GenAfter(n + 1) = GenAfter(n) /\ count' = (n + 1) % Size
    BY <1>1, <1>3, <1>7, <2>1
  <2> HIDE DEF n
  <2>3. ASSUME NEW i \in 1..(n + 1)
        PROVE  /\ GenAfter(i - 1) <= GenAfter(n + 1)
               /\ GenAfter(i - 1) = GenAfter(n + 1) => first'[i] \in current'
               /\ agent = "claude" /\ GenAfter(i - 1) = GenAfter(n + 1) - 1
                    => first'[i] \in previous'
    <3>1. CASE i \in 1..n
      BY <1>2, <2>1, <2>2, <3>1 DEF MemoryInv, n
    <3>2. CASE i = n + 1 /\ GenAfter(i - 1) = GenAfter(n)
      BY <1>2, <1>3, <2>1, <2>2, <3>2
    <3> QED BY <1>5, <3>1, <3>2
  <2> QED BY <1>2, <2>2, <2>3 DEF MemoryInv
<1>8. CASE count = maxSeenRequests
  <2>1. /\ current' = {} /\ count' = 0
        /\ agent = "claude" => previous' = current \cup {r}
    BY <1>1, <1>3, <1>6, <1>8 DEF RememberClaude, Remember
  <2>2. GenAfter(n + 1) = GenAfter(n) + 1 /\ count' = (n + 1) % Size
    BY <1>1, <1>3, <1>8, <2>1
  <2> HIDE DEF n
  <2>3. ASSUME NEW i \in 1..(n + 1)
        PROVE  /\ GenAfter(i - 1) <= GenAfter(n + 1)
               /\ GenAfter(i - 1) = GenAfter(n + 1) => first'[i] \in current'
               /\ agent = "claude" /\ GenAfter(i - 1) = GenAfter(n + 1) - 1
                    => first'[i] \in previous'
    <3>1. CASE i \in 1..n
      <4>1. /\ GenAfter(i - 1) \in Nat /\ GenAfter(i - 1) <= GenAfter(n)
            /\ GenAfter(i - 1) = GenAfter(n) => first[i] \in current
        BY <1>4, <3>1 DEF MemoryInv, n
      <4> QED BY <1>2, <1>3, <2>1, <2>2, <3>1, <4>1
    <3>2. CASE i = n + 1 /\ GenAfter(i - 1) = GenAfter(n)
      BY <1>2, <1>3, <2>1, <2>2, <3>2
    <3> QED BY <1>5, <3>1, <3>2
  <2> QED BY <1>2, <2>2, <2>3 DEF MemoryInv
<1> QED BY <1>1, <1>3, <1>6, <1>7, <1>8

----------------------------------------------------------------------------
(* The charges.                                                            *)

ChargesOf(r) == {c \in charges : c.key = r}

\* A charge of a request was made when the request was remembered; the charges of one
\* request are numbered in their order.
ChargeInv ==
    \A r \in Request :
      /\ IsFiniteSet(ChargesOf(r))
      /\ \A c \in ChargesOf(r) :
           /\ c.after \in 1..Len(first) /\ first[c.after] = r
           /\ c.nth \in Nat /\ c.nth <= Cardinality(ChargesOf(r))

ReplayInv == MemoryInv /\ ChargeInv /\ ReplayIsRemembered

\* Charging a request that has just been remembered, and was not known before.
LEMMA ChargeKeepsReplayInv ==
  ASSUME ReplayInv, NEW r \in Request, UNCHANGED agent, first' = Append(first, r),
         r \notin current, agent = "claude" => r \notin previous,
         MemoryInv',
         charges' = charges \cup
           {[key |-> r, after |-> Len(first'), nth |-> Cardinality(ChargesOf(r)) + 1]}
  PROVE  ReplayInv'
<1> DEFINE n == Len(first)
           C == Cardinality(ChargesOf(r))
           e == [key |-> r, after |-> n + 1, nth |-> C + 1]
<1>1. /\ n \in Nat /\ Len(first') = n + 1 /\ first'[n + 1] = r
      /\ \A i \in 1..n : first'[i] = first[i]
  BY AppendProperties DEF ReplayInv, MemoryInv
<1>2. IsFiniteSet(ChargesOf(r)) /\ C \in Nat
  BY FS_CardinalityType DEF ReplayInv, ChargeInv
<1>3. e.key = r /\ e.after = n + 1 /\ e.nth = C + 1 /\ charges' = charges \cup {e}
  BY <1>1
<1> HIDE DEF e
<1>4. ChargesOf(r)' = ChargesOf(r) \cup {e}
      /\ \A s \in Request \ {r} : ChargesOf(s)' = ChargesOf(s)
  BY <1>3 DEF ChargesOf
<1>5. e \notin ChargesOf(r)
  BY <1>2, <1>3 DEF ReplayInv, ChargeInv
<1>6. IsFiniteSet(ChargesOf(r)') /\ Cardinality(ChargesOf(r)') = C + 1
  BY <1>2, <1>4, <1>5, FS_AddElement
<1>7. ChargeInv'
  <2>1. ASSUME NEW s \in Request
        PROVE  /\ IsFiniteSet(ChargesOf(s)')
               /\ \A c \in ChargesOf(s)' :
                    /\ c.after \in 1..Len(first') /\ first'[c.after] = s
                    /\ c.nth \in Nat /\ c.nth <= Cardinality(ChargesOf(s)')
    <3>1. \A c \in ChargesOf(s) :
            /\ c.after \in 1..n /\ first[c.after] = s
            /\ c.nth \in Nat /\ c.nth <= Cardinality(ChargesOf(s))
      BY DEF ReplayInv, ChargeInv
    <3>2. \A c \in ChargesOf(s) : c.after \in 1..(n + 1) /\ first'[c.after] = s
      BY <1>1, <3>1
    <3>3. CASE s = r
      <4>1. e.after \in 1..(n + 1) /\ first'[e.after] = r /\ e.nth \in Nat /\ e.nth <= C + 1
        BY <1>1, <1>2, <1>3
      <4>2. \A c \in ChargesOf(r) : c.nth \in Nat /\ c.nth <= C + 1
        BY <1>2, <3>1, <3>3
      <4> QED BY <1>1, <1>4, <1>6, <3>2, <3>3, <4>1, <4>2
    <3>4. CASE s # r
      BY <1>1, <1>4, <3>1, <3>2, <3>4 DEF ReplayInv, ChargeInv
    <3> QED BY <3>3, <3>4
  <2> QED BY <2>1 DEF ChargeInv
<1>8. ReplayIsRemembered'
  <2>1. ASSUME NEW c \in charges', NEW d \in charges', c.key \in Request, c.key = d.key,
               c.nth < d.nth
        PROVE  Generation(d) - Generation(c) > (IF agent = "claude" THEN 1 ELSE 0)
    <3>1. CASE c \in charges /\ d \in charges
      BY <2>1, <3>1 DEF ReplayInv, ReplayIsRemembered
    <3>2. CASE c = e
      <4>1. d \in ChargesOf(r)'
        BY <1>3, <2>1, <3>2 DEF ChargesOf
      <4>2. d.nth \in Nat /\ d.nth <= C + 1
        BY <1>6, <1>7, <4>1 DEF ChargeInv
      <4> QED BY <1>2, <1>3, <2>1, <3>2, <4>2
    <3>3. CASE c \in charges /\ d = e
      <4>1. c \in ChargesOf(r)
        BY <1>3, <2>1, <3>3 DEF ChargesOf
      <4>2. c.after \in 1..n /\ first[c.after] = r
        BY <4>1 DEF ReplayInv, ChargeInv
      <4>3. GenAfter(n) - GenAfter(c.after - 1) > (IF agent = "claude" THEN 1 ELSE 0)
        BY <4>2, UnknownIsOld DEF ReplayInv
      <4>4. Generation(c) = GenAfter(c.after - 1) /\ Generation(d) = GenAfter(n)
        BY <1>1, <1>3, <3>3 DEF Generation, GenAfter, Size
      <4> QED BY <4>3, <4>4
    <3> QED BY <1>3, <2>1, <3>1, <3>2, <3>3
  <2> QED BY <2>1 DEF ReplayIsRemembered, Generation
<1> QED BY <1>7, <1>8 DEF ReplayInv

\* Anything else that is charged, or nothing.
LEMMA OthersKeepReplayInv ==
  ASSUME ReplayInv, MemoryInv', UNCHANGED agent,
         UNCHANGED first \/ \E r \in Request : first' = Append(first, r),
         charges \subseteq charges', \A c \in charges' \ charges : c.key \notin Request
  PROVE  ReplayInv'
<1>1. /\ Len(first) \in Nat /\ Len(first') \in Nat /\ Len(first') >= Len(first)
      /\ \A i \in 1..Len(first) : first'[i] = first[i]
  BY AppendProperties DEF ReplayInv, MemoryInv
<1>2. \A r \in Request : ChargesOf(r)' = ChargesOf(r)
  BY DEF ChargesOf
<1>3. ChargeInv'
  <2>1. ASSUME NEW s \in Request
        PROVE  /\ IsFiniteSet(ChargesOf(s)')
               /\ \A c \in ChargesOf(s)' :
                    /\ c.after \in 1..Len(first') /\ first'[c.after] = s
                    /\ c.nth \in Nat /\ c.nth <= Cardinality(ChargesOf(s)')
    BY <1>1, <1>2 DEF ReplayInv, ChargeInv
  <2> QED BY <2>1 DEF ChargeInv
<1>4. ReplayIsRemembered'
  BY DEF ReplayInv, ReplayIsRemembered, Generation
<1> QED BY <1>3, <1>4 DEF ReplayInv

LEMMA ClaudeKeepsReplayInv == ReplayInv /\ ClaudeLine => ReplayInv'
<1> SUFFICES ASSUME ReplayInv, ClaudeLine PROVE ReplayInv'
  OBVIOUS
<1>0. agent = "claude" /\ UNCHANGED agent /\ MemoryInv
  BY DEF ClaudeLine, Line, ReplayInv
<1>1. ASSUME NEW content \in Contents, ClaudeUser(content) PROVE ReplayInv'
  <2>1. UNCHANGED <<current, previous, count, first, charges>>
    BY <1>1 DEF ClaudeUser, memory, history
  <2>2. MemoryInv'
    BY <1>0, <2>1 DEF MemoryInv
  <2> QED BY <1>0, <2>1, <2>2, OthersKeepReplayInv
<1>2. ASSUME NEW content \in Contents, NEW r \in Request \cup {NoRequest}, NEW usage \in BOOLEAN,
             ClaudeAssistant(r, content, usage)
      PROVE  ReplayInv'
  <2>1. CASE r # NoRequest /\ ~Known(r)
    <3>1. r \in Request /\ RememberClaude(r) /\ r \notin current /\ r \notin previous
      BY <1>2, <2>1 DEF ClaudeAssistant, Known
    <3>2. MemoryInv' /\ first' = Append(first, r)
      BY <1>0, <3>1, RememberKeepsMemoryInv DEF RememberClaude
    <3>3. CASE Bears(events')
      <4>1. Charge({r})
        BY <1>2, <3>3 DEF ClaudeAssistant
      <4>2. charges' = charges \cup
              {[key |-> r, after |-> Len(first'), nth |-> Cardinality(ChargesOf(r)) + 1]}
        BY <4>1 DEF Charge, ChargesOf
      <4> QED BY <1>0, <3>1, <3>2, <4>2, ChargeKeepsReplayInv
    <3>4. CASE ~Bears(events')
      <4>1. charges' = charges
        BY <1>2, <3>4 DEF ClaudeAssistant, Charge
      <4> QED BY <1>0, <3>1, <3>2, <4>1, OthersKeepReplayInv
    <3> QED BY <3>3, <3>4
  <2>2. CASE ~(r # NoRequest /\ ~Known(r))
    <3>1. UNCHANGED <<current, previous, count, first>>
          /\ events' = AssistantEvents(content, FALSE)
      BY <1>2, <2>2 DEF ClaudeAssistant, memory
    <3>2. ~Bears(events')
      BY <3>1 DEF Bears, AssistantEvents, Event
    <3>3. charges' = charges
      BY <1>2, <3>2 DEF ClaudeAssistant, Charge
    <3>4. MemoryInv'
      BY <1>0, <3>1 DEF MemoryInv
    <3> QED BY <1>0, <3>1, <3>3, <3>4, OthersKeepReplayInv
  <2> QED BY <2>1, <2>2
<1> QED BY <1>1, <1>2 DEF ClaudeLine

LEMMA UsageKeepsReplayInv ==
  ASSUME ReplayInv, agent # "claude", UNCHANGED agent,
         NEW r \in Request \cup {NoRequest}, Usage(r)
  PROVE  ReplayInv'
<1>0. MemoryInv
  BY DEF ReplayInv
<1>1. CASE r \in current
  <2>1. UNCHANGED <<current, previous, count, first, charges>>
    BY <1>1 DEF Usage, memory
  <2>2. MemoryInv'
    BY <1>0, <2>1 DEF MemoryInv
  <2> QED BY <2>1, <2>2, OthersKeepReplayInv
<1>2. CASE r \notin current /\ r = NoRequest
  <2>1. UNCHANGED <<current, previous, count, first>> /\ Charge({r})
    BY <1>2 DEF Usage, memory
  <2>2. MemoryInv'
    BY <1>0, <2>1 DEF MemoryInv
  <2>3. charges \subseteq charges' /\ \A c \in charges' \ charges : c.key \notin Request
    BY <1>2, <2>1, ParserAssumption DEF Charge
  <2> QED BY <2>1, <2>2, <2>3, OthersKeepReplayInv
<1>3. CASE r \notin current /\ r # NoRequest
  <2>1. r \in Request /\ Remember(r) /\ Charge({r})
    BY <1>3 DEF Usage
  <2>2. MemoryInv' /\ first' = Append(first, r)
    BY <1>0, <2>1, RememberKeepsMemoryInv DEF Remember
  <2>3. charges' = charges \cup
          {[key |-> r, after |-> Len(first'), nth |-> Cardinality(ChargesOf(r)) + 1]}
    BY <2>1 DEF Charge, ChargesOf
  <2> QED BY <1>3, <2>1, <2>2, <2>3, ChargeKeepsReplayInv
<1> QED BY <1>1, <1>2, <1>3

LEMMA NoUsageKeepsReplayInv ==
  ASSUME ReplayInv, UNCHANGED agent, NEW kinds, NoUsage(kinds)
  PROVE  ReplayInv'
<1>1. UNCHANGED <<current, previous, count, first, charges>>
  BY DEF NoUsage, memory, history
<1>2. MemoryInv'
  BY <1>1 DEF ReplayInv, MemoryInv
<1> QED BY <1>1, <1>2, OthersKeepReplayInv

\* How many messages have been emitted is a number.
LegacyInv == legacySeen \in [Conversation -> Nat]

LEMMA StepKeepsLegacyInv == LegacyInv /\ [Next]_vars => LegacyInv'
<1> SUFFICES ASSUME LegacyInv, [Next]_vars PROVE LegacyInv'
  OBVIOUS
<1>1. ASSUME NEW c \in Conversation, NEW gen \in 0..MaxGen, NEW len \in Message \cup {0},
             LegacyRewrite(c, gen, len)
      PROVE  LegacyInv'
  <2>1. len \in Nat
    BY ParserAssumption DEF Message
  <2>2. legacySeen' = [legacySeen EXCEPT ![c] = len]
    BY <1>1 DEF LegacyRewrite
  <2> QED BY <2>1, <2>2 DEF LegacyInv
<1>2. ASSUME UNCHANGED legacySeen PROVE LegacyInv'
  BY <1>2 DEF LegacyInv
<1> QED BY <1>1, <1>2 DEF Next, ClaudeLine, CodexLine, GeminiLine, ClaudeUser, ClaudeAssistant,
                          Usage, NoUsage, vars

LEMMA LegacyKeepsReplayInv ==
  ASSUME ReplayInv, LegacyInv, UNCHANGED agent, NEW c \in Conversation, NEW gen \in 0..MaxGen,
         NEW len \in Message \cup {0}, LegacyRewrite(c, gen, len)
  PROVE  ReplayInv'
<1>1. UNCHANGED <<current, previous, count, first>>
  BY DEF LegacyRewrite, memory
<1>2. MemoryInv'
  BY <1>1 DEF ReplayInv, MemoryInv
<1>3. PICK fresh \in SUBSET Nat : Charge({<<c, gen, i>> : i \in fresh})
  <2> DEFINE fresh == {i \in (SkippedMessages(c, len) + 1)..len : Bears(LegacyEvents(Messages[i]))}
  <2>1. Charge({<<c, gen, i>> : i \in fresh})
    BY DEF LegacyRewrite
  <2>2. SkippedMessages(c, len) \in Nat /\ len \in Nat
    BY ParserAssumption DEF SkippedMessages, LegacyInv, Message
  <2>3. fresh \in SUBSET Nat
    BY <2>2
  <2> HIDE DEF fresh
  <2> QED BY <2>1, <2>3
<1>4. charges \subseteq charges' /\ \A d \in charges' \ charges : d.key \notin Request
  <2> DEFINE keys == {<<c, gen, i>> : i \in fresh}
  <2>1. \A k \in keys : k \in Conversation \X Nat \X Nat
    BY ParserAssumption
  <2>2. \A k \in keys : k \notin Request
    BY <2>1, ParserAssumption
  <2>3. Charge(keys)
    BY <1>3
  <2> DEFINE nth(k) == Cardinality({d \in charges : d.key = k}) + 1
             new == {[key |-> k, after |-> Len(first'), nth |-> nth(k)] : k \in keys}
  <2>. charges' = charges \cup new
    BY <2>3 DEF Charge
  <2> HIDE DEF keys, nth
  <2>4. \A d \in new : \E k \in keys : d.key = k
    OBVIOUS
  <2> HIDE DEF new
  <2>5. charges \subseteq charges' /\ charges' \ charges \subseteq new
    OBVIOUS
  <2> QED BY <2>2, <2>4, <2>5
<1> QED BY <1>1, <1>2, <1>4, OthersKeepReplayInv

\* However the lines of a request are spread and delivered again, it is not charged a
\* second time in the generation of requests in which it was charged, nor, by
\* ClaudeParser, in the next one, whatever the size of the memory (claude.go's two
\* generations; codex.go and gemini.go, which empty theirs).
THEOREM RequestsAreRemembered == Spec => []ReplayIsRemembered
<1>1. Init => ReplayInv
  <2> SUFFICES ASSUME Init PROVE ReplayInv
    OBVIOUS
  <2>1. first = <<>> /\ charges = {} /\ count = 0 /\ agent \in {"claude", "codex", "gemini"}
    BY ParserAssumption DEF Init
  <2>2. Len(first) = 0 /\ 0 % Size = 0
    BY <2>1, ParserAssumption DEF Size
  <2>3. MemoryInv
    BY <2>1, <2>2 DEF MemoryInv
  <2>4. \A r \in Request : ChargesOf(r) = {}
    BY <2>1 DEF ChargesOf
  <2> QED BY <2>1, <2>3, <2>4, FS_EmptySet DEF ReplayInv, ChargeInv, ReplayIsRemembered
<1>2. ASSUME ReplayInv, LegacyInv, [Next]_vars PROVE ReplayInv'
  <2>1. CASE ClaudeLine
    BY <1>2, <2>1, ClaudeKeepsReplayInv
  <2>2. CASE CodexLine
    <3>1. agent # "claude" /\ UNCHANGED agent
      BY <2>2 DEF CodexLine, Line
    <3> QED BY <1>2, <2>2, <3>1, UsageKeepsReplayInv, NoUsageKeepsReplayInv DEF CodexLine
  <2>3. CASE GeminiLine
    <3>1. agent # "claude" /\ UNCHANGED agent
      BY <2>3 DEF GeminiLine, Line
    <3> QED BY <1>2, <2>3, <3>1, UsageKeepsReplayInv, NoUsageKeepsReplayInv,
               LegacyKeepsReplayInv DEF GeminiLine
  <2>4. CASE UNCHANGED vars
    <3>1. UNCHANGED <<agent, current, previous, count, first, charges>>
      BY <2>4 DEF vars, memory, history
    <3>2. MemoryInv'
      BY <1>2, <3>1 DEF ReplayInv, MemoryInv
    <3> QED BY <1>2, <3>1, <3>2, OthersKeepReplayInv
  <2> QED BY <1>2, <2>1, <2>2, <2>3, <2>4 DEF Next
<1>3. ReplayInv => ReplayIsRemembered
  BY DEF ReplayInv
<1>4. Init => LegacyInv
  BY DEF Init, LegacyInv
<1> QED BY <1>1, <1>2, <1>3, <1>4, StepKeepsLegacyInv, PTL DEF Spec

----------------------------------------------------------------------------
(* Loops.  A recursive function over a sequence exists, and its values     *)
(* have a type that each step keeps.                                       *)

LEMMA Induction ==
  ASSUME NEW Good, 0 \in Good, \A n \in Nat : n \in Good => n + 1 \in Good
  PROVE  \A n \in Nat : n \in Good
<1> SUFFICES ASSUME ~(Nat \subseteq Good) PROVE FALSE
  OBVIOUS
<1> DEFINE T == Nat \ Good
           R == OpToRel(<, Nat)
<1>1. IsWellFoundedOn(R, Nat)
  BY NatLessThanWellFounded
<1>2. T \subseteq Nat /\ T # {}
  OBVIOUS
<1>3. \A x, y \in Nat : <<y, x>> \in R <=> y < x
  BY DEF OpToRel
<1> HIDE DEF R, T
<1>4. PICK x \in T : \A y \in T : ~(<<y, x>> \in R)
  BY <1>1, <1>2, WFMin
<1>5. x \in Nat /\ x \notin Good
  BY DEF T
<1>6. x # 0 /\ x - 1 \in Nat /\ x - 1 < x
  BY <1>5
<1>7. x - 1 \in Good
  BY <1>3, <1>4, <1>5, <1>6 DEF T
<1> QED BY <1>5, <1>6, <1>7

\* f[i] is the value after i steps from v.
Steps(f, n, V, v, step) ==
    /\ f \in [0..n -> V] /\ f[0] = v
    /\ \A i \in 1..n : f[i] = step[<<i, f[i - 1]>>]

LEMMA RecursionExists ==
  ASSUME NEW n \in Nat, NEW V, NEW v \in V, NEW step \in [(1..n) \X V -> V]
  PROVE  \E f : Steps(f, n, V, v, step)
<1> DEFINE Runs(f, m) == f \in [0..m -> V] /\ f[0] = v
                         /\ \A i \in 1..m : f[i] = step[<<i, f[i - 1]>>]
           Good == {m \in Nat : m <= n => \E f : Runs(f, m)}
<1>1. 0 \in Good
  <2>1. Runs([i \in 0..0 |-> v], 0)
    OBVIOUS
  <2> QED BY <2>1
<1>2. ASSUME NEW m \in Nat, m \in Good PROVE m + 1 \in Good
  <2> SUFFICES ASSUME m + 1 <= n PROVE \E f : Runs(f, m + 1)
    OBVIOUS
  <2>1. PICK f : Runs(f, m)
    BY <1>2
  <2> DEFINE g == [i \in 0..(m + 1) |-> IF i = m + 1 THEN step[<<m + 1, f[m]>>] ELSE f[i]]
  <2>2. m + 1 \in 1..n /\ f[m] \in V /\ step[<<m + 1, f[m]>>] \in V
    BY <2>1
  <2>3. g \in [0..(m + 1) -> V] /\ g[0] = v
    BY <2>1, <2>2
  <2>4. ASSUME NEW i \in 1..(m + 1) PROVE g[i] = step[<<i, g[i - 1]>>]
    <3>1. i - 1 \in 0..m /\ i - 1 # m + 1 /\ g[i - 1] = f[i - 1]
      OBVIOUS
    <3>2. CASE i = m + 1
      <4>1. g[m + 1] = step[<<m + 1, f[m]>>] /\ i - 1 = m
        BY <3>2
      <4> QED BY <3>1, <3>2, <4>1
    <3>3. CASE i # m + 1
      BY <2>1, <3>1, <3>3
    <3> QED BY <3>2, <3>3
  <2>5. Runs(g, m + 1)
    BY <2>3, <2>4
  <2> QED BY <2>5
<1> HIDE DEF Good
<1>3. n \in Good
  BY <1>1, <1>2, Induction
<1> QED BY <1>3 DEF Good, Steps

LEMMA KeepIs ==
  ASSUME NEW S, NEW K, NEW s \in Seq(S)
  PROVE  Keep(s, K) \in Seq(S \cap K)
<1> DEFINE n == Len(s)
           V == Seq(S \cap K)
           Body(f, i) == IF i = 0 THEN <<>>
                         ELSE IF s[i] \in K THEN Append(f[i - 1], s[i]) ELSE f[i - 1]
           kept == CHOOSE f : f = [i \in 0..n |-> Body(f, i)]
           step == [p \in (1..n) \X V |-> IF s[p[1]] \in K THEN Append(p[2], s[p[1]]) ELSE p[2]]
<1>1. n \in Nat /\ <<>> \in V /\ \A i \in 1..n : s[i] \in S
  OBVIOUS
<1>2. step \in [(1..n) \X V -> V]
  <2>1. ASSUME NEW i \in 1..n, NEW a \in V
        PROVE  (IF s[i] \in K THEN Append(a, s[i]) ELSE a) \in V
    BY <1>1
  <2> QED BY <2>1
<1>3. \A i \in 1..n, a \in V : step[<<i, a>>] = IF s[i] \in K THEN Append(a, s[i]) ELSE a
  OBVIOUS
<1> HIDE DEF step, V, n
<1>9. PICK f : Steps(f, n, V, <<>>, step)
  BY <1>1, <1>2, RecursionExists
<1>4. f \in [0..n -> V] /\ f[0] = <<>> /\ \A i \in 1..n : f[i] = step[<<i, f[i - 1]>>]
  BY <1>9 DEF Steps
<1>5. f = [i \in 0..n |-> Body(f, i)]
  <2>1. ASSUME NEW i \in 0..n PROVE f[i] = Body(f, i)
    <3>1. CASE i = 0
      BY <1>4, <3>1
    <3>2. CASE i # 0
      <4>1. i \in 1..n /\ i - 1 \in 0..n /\ f[i - 1] \in V
        BY <1>1, <1>4, <3>2
      <4> QED BY <1>3, <1>4, <3>2, <4>1
    <3> QED BY <3>1, <3>2
  <2> HIDE DEF Body
  <2> QED BY <1>4, <2>1
<1>6. kept = [i \in 0..n |-> Body(kept, i)]
  <2> HIDE DEF Body
  <2> QED BY <1>5
<1> HIDE DEF kept
<1>7. \A i \in Nat : i <= n => kept[i] \in V
  <2> DEFINE Good == {i \in Nat : i <= n => kept[i] \in V}
  <2>1. 0 \in Good
    BY <1>1, <1>6
  <2>2. ASSUME NEW i \in Nat, i \in Good PROVE i + 1 \in Good
    <3> SUFFICES ASSUME i + 1 <= n PROVE kept[i + 1] \in V
      OBVIOUS
    <3>1. kept[i] \in V /\ i + 1 \in 1..n /\ i + 1 \in 0..n /\ s[i + 1] \in S
      BY <1>1, <2>2
    <3>2. kept[i + 1] = IF s[i + 1] \in K THEN Append(kept[i], s[i + 1]) ELSE kept[i]
      <4>1. kept[i + 1] = Body(kept, i + 1)
        <5> HIDE DEF Body
        <5> QED BY <1>6, <3>1
      <4>2. i + 1 # 0 /\ (i + 1) - 1 = i
        OBVIOUS
      <4> QED BY <4>1, <4>2
    <3> QED BY <3>1, <3>2 DEF V
  <2> HIDE DEF Good
  <2>3. \A i \in Nat : i \in Good
    BY <2>1, <2>2, Induction
  <2> QED BY <2>3 DEF Good
<1>8. Keep(s, K) = kept[n]
  BY DEF Keep, kept, n
<1> QED BY <1>1, <1>7, <1>8 DEF V

LEMMA FlattenIs ==
  ASSUME NEW E, NEW q \in Seq(Seq(E))
  PROVE  FlattenSeq(q) \in Seq(E)
<1> DEFINE n == Len(q)
           V == Seq(E)
           Body(f, i) == IF i = 1 THEN q[i] ELSE f[i - 1] \o q[i]
           flatten == CHOOSE f : f = [i \in 1..n |-> Body(f, i)]
           step == [p \in (1..n) \X V |-> IF p[1] = 1 THEN q[p[1]] ELSE p[2] \o q[p[1]]]
<1>1. n \in Nat /\ <<>> \in V /\ \A i \in 1..n : q[i] \in V
  OBVIOUS
<1>0. CASE n = 0
  BY <1>0 DEF FlattenSeq
<1>2. step \in [(1..n) \X V -> V]
  <2>1. ASSUME NEW i \in 1..n, NEW a \in V
        PROVE  (IF i = 1 THEN q[i] ELSE a \o q[i]) \in V
    BY <1>1
  <2> QED BY <2>1
<1>3. \A i \in 1..n, a \in V : step[<<i, a>>] = IF i = 1 THEN q[i] ELSE a \o q[i]
  OBVIOUS
<1> HIDE DEF step, V, n
<1>9. PICK h : Steps(h, n, V, <<>>, step)
  BY <1>1, <1>2, RecursionExists
<1>4. h \in [0..n -> V] /\ h[0] = <<>> /\ \A i \in 1..n : h[i] = step[<<i, h[i - 1]>>]
  BY <1>9 DEF Steps
<1> DEFINE f == [i \in 1..n |-> h[i]]
<1>5. f = [i \in 1..n |-> Body(f, i)]
  <2>1. ASSUME NEW i \in 1..n PROVE f[i] = Body(f, i)
    <3>1. i - 1 \in 0..n /\ h[i - 1] \in V /\ f[i] = h[i]
      BY <1>1, <1>4
    <3>2. f[i] = IF i = 1 THEN q[i] ELSE h[i - 1] \o q[i]
      BY <1>3, <1>4, <3>1
    <3>3. i # 1 => f[i - 1] = h[i - 1]
      BY <1>1
    <3> HIDE DEF f
    <3> QED BY <3>2, <3>3
  <2>2. f = [i \in 1..n |-> f[i]]
    OBVIOUS
  <2> HIDE DEF Body, f
  <2> QED BY <2>1, <2>2
<1> HIDE DEF f
<1>6. flatten = [i \in 1..n |-> Body(flatten, i)]
  <2> HIDE DEF Body
  <2> QED BY <1>5
<1> HIDE DEF flatten
<1>7. \A i \in Nat : i \in 1..n => flatten[i] \in V
  <2> DEFINE Good == {i \in Nat : i \in 1..n => flatten[i] \in V}
  <2>1. 0 \in Good
    OBVIOUS
  <2>2. ASSUME NEW i \in Nat, i \in Good PROVE i + 1 \in Good
    <3> SUFFICES ASSUME i + 1 \in 1..n PROVE flatten[i + 1] \in V
      OBVIOUS
    <3>1. flatten[i + 1] = Body(flatten, i + 1)
      <4> HIDE DEF Body
      <4> QED BY <1>6
    <3>4. (i + 1) - 1 = i /\ (i + 1 = 1 <=> i = 0)
      OBVIOUS
    <3>2. CASE i = 0
      BY <1>1, <3>1, <3>2, <3>4
    <3>3. CASE i # 0
      <4>1. i \in 1..n
        BY <1>1, <3>3
      <4>2. flatten[i] \in V /\ q[i + 1] \in V
        BY <1>1, <2>2, <4>1
      <4> QED BY <3>1, <3>3, <3>4, <4>2 DEF V
    <3> QED BY <3>2, <3>3
  <2> HIDE DEF Good
  <2>3. \A i \in Nat : i \in Good
    BY <2>1, <2>2, Induction
  <2> QED BY <2>3 DEF Good
<1>8. CASE n # 0
  <2>1. FlattenSeq(q) = flatten[n]
    BY <1>8 DEF FlattenSeq, flatten, n
  <2>2. n \in 1..n
    BY <1>1, <1>8
  <2> QED BY <1>1, <1>7, <2>1, <2>2 DEF V
<1> QED BY <1>0, <1>8

----------------------------------------------------------------------------
(* What a line becomes.                                                    *)

Events == Seq([kind : Kind, usage : BOOLEAN])

LEMMA MinIsLeast ==
  ASSUME NEW S \in SUBSET Nat, S # {}
  PROVE  Min(S) \in S
<1> DEFINE R == OpToRel(<, Nat)
<1>1. \A x, y \in Nat : <<y, x>> \in R <=> y < x
  BY DEF OpToRel
<1>2. PICK x \in S : \A y \in S : ~(<<y, x>> \in R)
  BY NatLessThanWellFounded, WFMin
<1> HIDE DEF R
<1>3. ASSUME NEW y \in S PROVE x <= y
  <2>1. x \in Nat /\ y \in Nat /\ ~(y < x)
    BY <1>1, <1>2
  <2> QED BY <2>1
<1> QED BY <1>2, <1>3 DEF Min

LEMMA AssistantEventsAre ==
  ASSUME NEW content \in Seq(Block), NEW usage \in BOOLEAN
  PROVE  AssistantEvents(content, usage) \in Events
<1> DEFINE blocks == Keep(content, Kind)
<1>1. blocks \in Seq(Block \cap Kind)
  BY KeepIs
<1> HIDE DEF blocks
<1>2. Len(blocks) \in Nat /\ DOMAIN blocks = 1..Len(blocks)
      /\ \A i \in 1..Len(blocks) : blocks[i] \in Kind
  BY <1>1
<1>3. \A i \in 1..Len(blocks) :
        Event(blocks[i], usage /\ i = 1) \in [kind : Kind, usage : BOOLEAN]
  BY <1>2 DEF Event
<1>4. [i \in 1..Len(blocks) |-> Event(blocks[i], usage /\ i = 1)] \in Events
  BY <1>2, <1>3 DEF Events
<1> QED BY <1>2, <1>4 DEF AssistantEvents, blocks

LEMMA UserEventsAre ==
  ASSUME NEW content \in Seq(Block)
  PROVE  UserEvents(content) \in Events
<1> DEFINE results == Keep(content, {"tool_result"})
<1>1. results \in Seq(Block \cap {"tool_result"})
  BY KeepIs
<1> HIDE DEF results
<1>2. Len(results) \in Nat /\ DOMAIN results = 1..Len(results)
  BY <1>1
<1>3. \A i \in 1..Len(results) :
        Event("tool_result", FALSE) \in [kind : Kind, usage : BOOLEAN]
  BY DEF Event, Kind
<1>4. [i \in 1..Len(results) |-> Event("tool_result", FALSE)] \in Events
  <2> DEFINE n == Len(results)
             e == Event("tool_result", FALSE)
             E == [kind : Kind, usage : BOOLEAN]
  <2>1. n \in Nat /\ [i \in 1..n |-> e] \in [1..n -> E]
    BY <1>2, <1>3
  <2> HIDE DEF n, e, E
  <2>2. [i \in 1..n |-> e] \in Seq(E)
    BY <2>1, SeqDef
  <2> QED BY <2>2 DEF n, e, E, Events
<1> QED BY <1>2, <1>4 DEF UserEvents, results

\* The usage of a message is carried by its events if it has any: by a call or a text,
\* or else by an event of its own.
LEMMA LegacyEventsAre ==
  ASSUME NEW message \in [parts : Seq(Part), usage : BOOLEAN]
  PROVE  /\ LegacyEvents(message) \in Events
         /\ Bears(LegacyEvents(message)) <=> message.usage
<1> DEFINE kindOf  == [call |-> "tool_use", response |-> "tool_result", text |-> "text"]
           parts   == Keep(message.parts, DOMAIN kindOf)
           bearers == {i \in DOMAIN parts : parts[i] # "response"}
           bears(i) == message.usage /\ bearers # {} /\ i = Min(bearers)
           evs     == [i \in DOMAIN parts |-> Event(kindOf[parts[i]], bears(i))]
           more    == IF message.usage /\ bearers = {} THEN <<Event("text", TRUE)>> ELSE <<>>
           n == Len(parts)
<1>1. DOMAIN kindOf = {"call", "response", "text"}
      /\ \A p \in DOMAIN kindOf : kindOf[p] \in Kind
  BY DEF Kind
<1>2. message.parts \in Seq(Part) /\ message.usage \in BOOLEAN
  OBVIOUS
<1>3. parts \in Seq(Part \cap DOMAIN kindOf)
  BY <1>2, KeepIs
<1>4. LegacyEvents(message) = evs \o more
  BY DEF LegacyEvents
<1> HIDE DEF kindOf, parts
<1>5. n \in Nat /\ DOMAIN parts = 1..n /\ \A i \in 1..n : kindOf[parts[i]] \in Kind
  BY <1>1, <1>3
<1>6. bearers \in SUBSET Nat /\ bearers \subseteq 1..n
  BY <1>5
<1>7. bearers # {} => Min(bearers) \in bearers
  BY <1>6, MinIsLeast
<1> HIDE DEF n, bearers
<1>8. \A i \in 1..n : bears(i) \in BOOLEAN
  BY <1>2
<1> HIDE DEF bears
<1>9. /\ evs \in Events /\ Len(evs) = n
      /\ \A i \in 1..n : evs[i].usage = bears(i)
  <2>1. \A i \in 1..n : Event(kindOf[parts[i]], bears(i)) \in [kind : Kind, usage : BOOLEAN]
    BY <1>5, <1>8 DEF Event
  <2>2. evs = [i \in 1..n |-> Event(kindOf[parts[i]], bears(i))]
    BY <1>5
  <2> QED BY <1>5, <2>1, <2>2 DEF Events, Event
<1>10. more \in Events /\ (message.usage /\ bearers = {} => Len(more) = 1 /\ more[1].usage)
       /\ (~(message.usage /\ bearers = {}) => more = <<>>)
  <2> DEFINE e == Event("text", TRUE)
  <2>1. e \in [kind : Kind, usage : BOOLEAN] /\ e.usage
    BY DEF Event, Kind
  <2> HIDE DEF e
  <2>2. <<e>> \in Events /\ <<>> \in Events /\ Len(<<e>>) = 1 /\ <<e>>[1].usage
    BY <2>1 DEF Events
  <2> QED BY <2>2 DEF e
<1> HIDE DEF evs, more
<1>11. /\ evs \o more \in Events /\ Len(evs \o more) = n + Len(more)
       /\ \A i \in 1..n : (evs \o more)[i] = evs[i]
       /\ message.usage /\ bearers = {} => (evs \o more)[n + 1] = more[1]
  <2>1. /\ evs \o more \in Events /\ Len(evs \o more) = n + Len(more)
        /\ \A i \in 1..(n + Len(more)) :
             (evs \o more)[i] = IF i <= n THEN evs[i] ELSE more[i - n]
    <3> DEFINE E == [kind : Kind, usage : BOOLEAN]
    <3>1. evs \in Seq(E) /\ more \in Seq(E) /\ Len(evs) = n
      BY <1>9, <1>10 DEF Events
    <3> HIDE DEF E
    <3>2. /\ evs \o more \in Seq(E) /\ Len(evs \o more) = n + Len(more)
          /\ \A i \in 1..(n + Len(more)) :
               (evs \o more)[i] = IF i <= n THEN evs[i] ELSE more[i - n]
      BY <3>1, ConcatProperties
    <3> QED BY <3>2 DEF E, Events
  <2>2. Len(more) \in Nat
    BY <1>10 DEF Events
  <2>3. ASSUME message.usage, bearers = {} PROVE (evs \o more)[n + 1] = more[1]
    <3>0. Len(more) = 1
      BY <1>10, <2>3
    <3>1. n + 1 \in 1..(n + Len(more)) /\ ~(n + 1 <= n) /\ (n + 1) - n = 1
      BY <1>5, <3>0
    <3> QED BY <2>1, <3>1
  <2>4. \A i \in 1..n : i \in 1..(n + Len(more)) /\ i <= n
    BY <1>5, <2>2
  <2> QED BY <2>1, <2>3, <2>4
<1>12. ASSUME message.usage PROVE Bears(evs \o more)
  <2>1. CASE bearers = {}
    <3>1. n + 1 \in DOMAIN (evs \o more) /\ (evs \o more)[n + 1].usage
      <4>0. Len(more) = 1 /\ Len(evs \o more) = n + 1
        BY <1>10, <1>11, <1>12, <2>1
      <4>1. DOMAIN (evs \o more) = 1..(n + 1)
        BY <1>11, <4>0 DEF Events
      <4>2. n + 1 \in 1..(n + 1)
        BY <1>5
      <4> QED BY <1>10, <1>11, <1>12, <2>1, <4>1, <4>2
    <3> QED BY <3>1 DEF Bears
  <2>2. CASE bearers # {}
    <3> DEFINE m == Min(bearers)
    <3>1. m \in 1..n
      BY <1>6, <1>7, <2>2
    <3>2. bears(m)
      BY <1>12, <2>2 DEF bears
    <3>3. Len(more) \in Nat /\ DOMAIN (evs \o more) = 1..(n + Len(more))
      BY <1>10, <1>11 DEF Events
    <3> HIDE DEF m
    <3>4. m \in DOMAIN (evs \o more) /\ (evs \o more)[m].usage
      BY <1>5, <1>9, <1>11, <3>1, <3>2, <3>3
    <3> QED BY <3>4 DEF Bears
  <2> QED BY <2>1, <2>2
<1>13. ASSUME ~message.usage PROVE ~Bears(evs \o more)
  <2>1. more = <<>> /\ Len(more) = 0
    BY <1>10, <1>13
  <2>2. DOMAIN (evs \o more) = 1..n
    BY <1>5, <1>11, <2>1 DEF Events
  <2>3. \A i \in 1..n : ~(evs \o more)[i].usage
    BY <1>9, <1>11, <1>13 DEF bears
  <2> QED BY <2>2, <2>3 DEF Bears
<1> QED BY <1>4, <1>11, <1>12, <1>13

----------------------------------------------------------------------------
(* Conversations in the old format.                                        *)

ChargesAt(k) == {d \in charges : d.key = k}

Exact ==
    \A c \in Conversation \ missed : \A i \in 1..file[c].len :
      Cardinality(ChargesAt(<<c, file[c].gen, i>>)) = IF Messages[i].usage THEN 1 ELSE 0

\* What has been emitted of a conversation is what the file held when it was last
\* delivered, and nothing has been charged to messages that are still to come.
EmittedInv ==
    /\ file \in [Conversation -> [gen : 0..MaxGen, len : {0} \cup Message]]
    /\ legacySeen \in [Conversation -> {0} \cup Message] /\ missed \subseteq Conversation
    /\ \A c \in Conversation : legacySeen[c] = file[c].len
    /\ \A c \in Conversation, g \in Nat, i \in Nat :
         g > file[c].gen \/ (g = file[c].gen /\ i > file[c].len) => ChargesAt(<<c, g, i>>) = {}
    /\ Exact

LEMMA MessagesAre ==
  /\ \A n \in {0} \cup Message : n \in Nat /\ \A i \in 1..n : i \in Message
  /\ \A i \in Message : Messages[i] \in [parts : Seq(Part), usage : BOOLEAN] /\ i \in Nat
  /\ \A g \in 0..MaxGen : g \in Nat
<1>1. /\ Messages \in Seq([parts : Seq(Part), usage : BOOLEAN]) /\ MaxGen \in Nat
  BY ParserAssumption
<1>2. /\ Len(Messages) \in Nat /\ Message = 1..Len(Messages)
      /\ \A i \in 1..Len(Messages) : Messages[i] \in [parts : Seq(Part), usage : BOOLEAN]
  <2> DEFINE E == [parts : Seq(Part), usage : BOOLEAN]
  <2>1. Messages \in Seq(E)
    BY <1>1
  <2> HIDE DEF E
  <2>2. /\ Len(Messages) \in Nat /\ DOMAIN Messages = 1..Len(Messages)
        /\ \A i \in 1..Len(Messages) : Messages[i] \in E
    BY <2>1
  <2> QED BY <2>2 DEF E, Message
<1>3. \A n \in {0} \cup Message : n \in Nat /\ \A i \in 1..n : i \in Message
  BY <1>2
<1>4. \A i \in Message : Messages[i] \in [parts : Seq(Part), usage : BOOLEAN] /\ i \in Nat
  BY <1>2
<1> QED BY <1>1, <1>3, <1>4

\* A charge of a key is one charge more of it, and none of another.
LEMMA ChargeAdds ==
  ASSUME NEW keys, Charge(keys)
  PROVE  /\ \A k : k \notin keys => ChargesAt(k)' = ChargesAt(k)
         /\ \A k \in keys : ChargesAt(k) = {} => Cardinality(ChargesAt(k)') = 1
<1> DEFINE n(k) == Cardinality({c \in charges : c.key = k}) + 1
           r(k) == [key |-> k, after |-> Len(first'), nth |-> n(k)]
<1>1. charges' = charges \cup {r(k) : k \in keys}
  BY DEF Charge
<1>2. \A k : r(k).key = k
  OBVIOUS
<1> HIDE DEF r
<1>3. ASSUME NEW k, k \notin keys PROVE ChargesAt(k)' = ChargesAt(k)
  BY <1>1, <1>2, <1>3 DEF ChargesAt
<1>4. ASSUME NEW k \in keys, ChargesAt(k) = {} PROVE Cardinality(ChargesAt(k)') = 1
  <2>1. ChargesAt(k)' = {r(k)}
    BY <1>1, <1>2, <1>4 DEF ChargesAt
  <2> QED BY <2>1, FS_Singleton
<1> QED BY <1>3, <1>4

\* What charges no message keeps the invariant.
LEMMA OthersKeepEmitted ==
  ASSUME EmittedInv, UNCHANGED <<file, legacySeen, missed>>,
         UNCHANGED charges \/ \E keys \in SUBSET (Request \cup {NoRequest}) : Charge(keys)
  PROVE  EmittedInv'
<1>1. ASSUME NEW c \in Conversation, NEW g \in Nat, NEW i \in Nat
      PROVE  ChargesAt(<<c, g, i>>)' = ChargesAt(<<c, g, i>>)
  <2>1. <<c, g, i>> \notin Request \cup {NoRequest}
    BY ParserAssumption
  <2>2. CASE UNCHANGED charges
    BY <2>2 DEF ChargesAt
  <2>3. ASSUME NEW keys \in SUBSET (Request \cup {NoRequest}), Charge(keys)
        PROVE  ChargesAt(<<c, g, i>>)' = ChargesAt(<<c, g, i>>)
    BY <2>1, <2>3, ChargeAdds
  <2> QED BY <2>2, <2>3
<1>2. \A c \in Conversation : file[c].gen \in Nat /\ \A i \in 1..file[c].len : i \in Nat
  BY MessagesAre DEF EmittedInv
<1>3. Exact'
  <2>1. ASSUME NEW c \in Conversation \ missed, NEW i \in 1..file[c].len, NEW g, g = file[c].gen
        PROVE  Cardinality(ChargesAt(<<c, g, i>>)') = IF Messages[i].usage THEN 1 ELSE 0
    <3>1. Cardinality(ChargesAt(<<c, g, i>>)) = IF Messages[i].usage THEN 1 ELSE 0
      BY <2>1 DEF EmittedInv, Exact
    <3> QED BY <1>1, <1>2, <2>1, <3>1
  <2> QED BY <2>1 DEF Exact
<1>4. \A c \in Conversation, g \in Nat, i \in Nat :
        g > file[c].gen \/ (g = file[c].gen /\ i > file[c].len) => ChargesAt(<<c, g, i>>)' = {}
  <2> TAKE c \in Conversation, g \in Nat, i \in Nat
  <2>1. g > file[c].gen \/ (g = file[c].gen /\ i > file[c].len) => ChargesAt(<<c, g, i>>) = {}
    BY DEF EmittedInv
  <2> QED BY <1>1, <2>1
<1>5. /\ file' \in [Conversation -> [gen : 0..MaxGen, len : {0} \cup Message]]
      /\ legacySeen' \in [Conversation -> {0} \cup Message] /\ missed' \subseteq Conversation
      /\ \A c \in Conversation : legacySeen'[c] = file'[c].len
  BY DEF EmittedInv
<1> QED BY <1>3, <1>4, <1>5 DEF EmittedInv

LEMMA RewriteKeepsEmitted ==
  ASSUME EmittedInv, NEW c \in Conversation, NEW gen \in 0..MaxGen,
         NEW len \in Message \cup {0}, LegacyRewrite(c, gen, len)
  PROVE  EmittedInv'
<1> DEFINE g0   == file[c].gen
           old  == file[c].len
           skip == SkippedMessages(c, len)
           bearing == {i \in (skip + 1)..len : Bears(LegacyEvents(Messages[i]))}
           keys == {<<c, gen, i>> : i \in bearing}
<1>1. /\ (gen = g0 /\ len >= old) \/ gen = g0 + 1
      /\ file' = [file EXCEPT ![c] = [gen |-> gen, len |-> len]]
      /\ legacySeen' = [legacySeen EXCEPT ![c] = len]
      /\ Charge(keys)
      /\ missed' = IF gen = g0 THEN missed
                   ELSE IF old \in 1..len THEN missed \cup {c} ELSE missed \ {c}
  BY DEF LegacyRewrite
<1>2. /\ g0 \in Nat /\ gen \in Nat /\ old \in Nat /\ len \in Nat
      /\ skip = (IF old > len THEN 0 ELSE old)
      /\ file[c] \in [gen : 0..MaxGen, len : {0} \cup Message]
  BY MessagesAre DEF EmittedInv, SkippedMessages
<1>3. /\ \A d \in Conversation \ {c} : file'[d] = file[d] /\ legacySeen'[d] = legacySeen[d]
      /\ file'[c].gen = gen /\ file'[c].len = len /\ legacySeen'[c] = len
      /\ file' \in [Conversation -> [gen : 0..MaxGen, len : {0} \cup Message]]
      /\ legacySeen' \in [Conversation -> {0} \cup Message]
      /\ missed' \subseteq Conversation
      /\ \A d \in Conversation \ {c} : d \in missed' <=> d \in missed
  BY <1>1 DEF EmittedInv
<1>4. ASSUME NEW i \in Nat
      PROVE  <<c, gen, i>> \in keys <=> i \in (skip + 1)..len /\ Messages[i].usage
  <2>1. <<c, gen, i>> \in keys <=> i \in bearing
    OBVIOUS
  <2>2. i \in (skip + 1)..len => i \in 1..len
    BY <1>2
  <2>3. i \in 1..len => (Bears(LegacyEvents(Messages[i])) <=> Messages[i].usage)
    BY MessagesAre, LegacyEventsAre
  <2> QED BY <2>1, <2>2, <2>3
<1>5. \A d, g, i : d # c \/ g # gen => <<d, g, i>> \notin keys
  OBVIOUS
<1> HIDE DEF keys, skip, bearing, old, g0
<1>6. \A k : k \notin keys => ChargesAt(k)' = ChargesAt(k)
  BY <1>1, ChargeAdds
<1>7. \A k \in keys : ChargesAt(k) = {} => Cardinality(ChargesAt(k)') = 1
  BY <1>1, ChargeAdds
<1>8. \A g, i \in Nat : g > g0 \/ (g = g0 /\ i > old) => ChargesAt(<<c, g, i>>) = {}
  BY DEF EmittedInv, g0, old
\* Of this conversation: nothing is charged to what is still to come ...
<1>9. \A g, i \in Nat : g > gen \/ (g = gen /\ i > len) => ChargesAt(<<c, g, i>>)' = {}
  <2> TAKE g, i \in Nat
  <2> SUFFICES ASSUME g > gen \/ (g = gen /\ i > len) PROVE ChargesAt(<<c, g, i>>)' = {}
    OBVIOUS
  <2>1. <<c, g, i>> \notin keys
    BY <1>2, <1>4, <1>5
  <2>2. g > g0 \/ (g = g0 /\ i > old)
    BY <1>1, <1>2
  <2> QED BY <1>6, <1>8, <2>1, <2>2
\* ... and each message is charged once.
<1>10. ASSUME c \notin missed', NEW i \in 1..len
       PROVE  Cardinality(ChargesAt(<<c, gen, i>>)') = IF Messages[i].usage THEN 1 ELSE 0
  <2>0. i \in Nat /\ Messages[i].usage \in BOOLEAN
    BY MessagesAre
  <2>1. CASE gen = g0 /\ i <= old
    <3>1. i \notin (skip + 1)..len
      BY <1>1, <1>2, <2>0, <2>1
    <3>2. ChargesAt(<<c, gen, i>>)' = ChargesAt(<<c, gen, i>>)
      BY <1>4, <1>6, <2>0, <3>1
    <3>3. c \in Conversation \ missed /\ i \in 1..file[c].len /\ gen = file[c].gen
      BY <1>1, <1>2, <1>10, <2>0, <2>1 DEF g0, old
    <3> QED BY <3>2, <3>3 DEF EmittedInv, Exact
  <2>2. CASE ~(gen = g0 /\ i <= old)
    <3>1. i \in (skip + 1)..len
      BY <1>1, <1>2, <1>10, <2>0, <2>2
    <3>2. ChargesAt(<<c, gen, i>>) = {}
      BY <1>1, <1>2, <1>8, <2>0, <2>2
    <3>3. CASE Messages[i].usage
      BY <1>4, <1>7, <2>0, <3>1, <3>2, <3>3
    <3>4. CASE ~Messages[i].usage
      <4>1. ChargesAt(<<c, gen, i>>)' = {}
        BY <1>4, <1>6, <2>0, <3>2, <3>4
      <4> QED BY <3>4, <4>1, FS_EmptySet
    <3> QED BY <3>3, <3>4
  <2> QED BY <2>1, <2>2
<1>11. ASSUME NEW d \in Conversation \ {c}, NEW g, NEW i
       PROVE  ChargesAt(<<d, g, i>>)' = ChargesAt(<<d, g, i>>)
  BY <1>5, <1>6
<1>12. Exact'
  <2>1. ASSUME NEW d \in Conversation \ missed', NEW i \in 1..file'[d].len,
               NEW g, g = file'[d].gen
        PROVE  Cardinality(ChargesAt(<<d, g, i>>)') = IF Messages[i].usage THEN 1 ELSE 0
    <3>1. CASE d = c
      <4>1. g = gen /\ i \in 1..len /\ c \notin missed'
        BY <1>3, <2>1, <3>1
      <4> QED BY <1>10, <3>1, <4>1
    <3>2. CASE d # c
      <4>1. d \in Conversation \ missed /\ i \in 1..file[d].len /\ g = file[d].gen
        BY <1>3, <2>1, <3>2
      <4>2. Cardinality(ChargesAt(<<d, g, i>>)) = IF Messages[i].usage THEN 1 ELSE 0
        BY <4>1 DEF EmittedInv, Exact
      <4> QED BY <1>11, <3>2, <4>2
    <3> QED BY <3>1, <3>2
  <2> QED BY <2>1 DEF Exact
<1>13. \A d \in Conversation, g \in Nat, i \in Nat :
         g > file'[d].gen \/ (g = file'[d].gen /\ i > file'[d].len)
           => ChargesAt(<<d, g, i>>)' = {}
  <2> TAKE d \in Conversation, g \in Nat, i \in Nat
  <2>1. CASE d = c
    BY <1>3, <1>9, <2>1
  <2>2. CASE d # c
    BY <1>3, <1>11, <2>2 DEF EmittedInv
  <2> QED BY <2>1, <2>2
<1>14. \A d \in Conversation : legacySeen'[d] = file'[d].len
  BY <1>3 DEF EmittedInv
<1> QED BY <1>3, <1>12, <1>13, <1>14 DEF EmittedInv

LEMMA StepKeepsEmitted == EmittedInv /\ [Next]_vars => EmittedInv'
<1> SUFFICES ASSUME EmittedInv, [Next]_vars PROVE EmittedInv'
  OBVIOUS
<1>1. ASSUME NEW content, ClaudeUser(content) \/ NoUsage(content) PROVE EmittedInv'
  BY <1>1, OthersKeepEmitted DEF ClaudeUser, NoUsage, history
<1>2. ASSUME NEW content, NEW r \in Request \cup {NoRequest}, NEW usage \in BOOLEAN,
             ClaudeAssistant(r, content, usage)
      PROVE  EmittedInv'
  <2>1. /\ \E keys \in SUBSET (Request \cup {NoRequest}) : Charge(keys)
        /\ UNCHANGED <<legacySeen, file, missed>>
    BY <1>2 DEF ClaudeAssistant
  <2> QED BY <2>1, OthersKeepEmitted
<1>3. ASSUME NEW r \in Request \cup {NoRequest}, Usage(r) PROVE EmittedInv'
  <2>1. /\ UNCHANGED charges \/ \E keys \in SUBSET (Request \cup {NoRequest}) : Charge(keys)
        /\ UNCHANGED <<legacySeen, file, missed>>
    BY <1>3 DEF Usage
  <2> QED BY <2>1, OthersKeepEmitted
<1>4. CASE UNCHANGED vars
  BY <1>4, OthersKeepEmitted DEF vars, history
<1> QED BY <1>1, <1>2, <1>3, <1>4, RewriteKeepsEmitted
    DEF Next, ClaudeLine, CodexLine, GeminiLine

LEMMA EmittedAlways == Spec => []EmittedInv
<1>1. Init => EmittedInv
  <2> SUFFICES ASSUME Init PROVE EmittedInv
    OBVIOUS
  <2>1. /\ file = [c \in Conversation |-> [gen |-> 0, len |-> 0]]
        /\ legacySeen = [c \in Conversation |-> 0] /\ charges = {} /\ missed = {}
    BY DEF Init
  <2>2. 0 \in 0..MaxGen
    BY ParserAssumption
  <2> QED BY <2>1, <2>2 DEF EmittedInv, Exact, ChargesAt
<1> QED BY <1>1, StepKeepsEmitted, PTL DEF Spec

\* Each message of a conversation in Gemini's old format is charged exactly once if it
\* bears usage, for any messages and any versions of the file that are delivered, unless
\* the conversation has begun anew and is no shorter than before
\* (parseLegacyConversation).
THEOREM LegacyIsAlwaysExact == Spec => []LegacyIsExact
<1>1. EmittedInv => LegacyIsExact
  BY DEF EmittedInv, Exact, LegacyIsExact, ChargesAt
<1> QED BY EmittedAlways, <1>1, PTL

----------------------------------------------------------------------------
(* Types, and how much is remembered.                                      *)

\* What the parser remembers is bounded.
SizeInv ==
    /\ agent \in Agents /\ first \in Seq(Request)
    /\ current \subseteq Request /\ previous \subseteq Request
    /\ IsFiniteSet(current) /\ Cardinality(current) = count /\ count \in 0..maxSeenRequests
    /\ IsFiniteSet(previous) /\ Cardinality(previous) <= maxSeenRequests + 1

LEMMA RememberKeepsSize ==
  ASSUME SizeInv, NEW r \in Request, r \notin current, UNCHANGED agent,
         RememberClaude(r) \/ Remember(r)
  PROVE  SizeInv'
<1>1. maxSeenRequests \in Nat /\ count \in Nat /\ count <= maxSeenRequests
  BY ParserAssumption DEF SizeInv
<1>2. /\ IsFiniteSet(current \cup {r}) /\ Cardinality(current \cup {r}) = count + 1
      /\ IsFiniteSet({}) /\ Cardinality({}) = 0
  BY FS_AddElement, FS_EmptySet DEF SizeInv
<1>3. first' \in Seq(Request)
  BY AppendProperties DEF SizeInv, RememberClaude, Remember
<1>4. CASE count + 1 > maxSeenRequests
  <2>1. /\ current' = {} /\ count' = 0
        /\ previous' = current \cup {r} \/ previous' = previous
    BY <1>4 DEF RememberClaude, Remember
  <2>2. count + 1 <= maxSeenRequests + 1
    BY <1>1
  <2>3. IsFiniteSet(previous') /\ Cardinality(previous') <= maxSeenRequests + 1
    BY <1>2, <2>1, <2>2 DEF SizeInv
  <2> QED BY <1>1, <1>2, <1>3, <2>1, <2>3 DEF SizeInv
<1>5. CASE ~(count + 1 > maxSeenRequests)
  <2>1. /\ current' = current \cup {r} /\ count' = count + 1 /\ previous' = previous
    BY <1>5 DEF RememberClaude, Remember
  <2>2. count + 1 \in 0..maxSeenRequests
    BY <1>1, <1>5
  <2> QED BY <1>2, <1>3, <2>1, <2>2 DEF SizeInv
<1> QED BY <1>4, <1>5

LEMMA StepKeepsSize == SizeInv /\ [Next]_vars => SizeInv'
<1> SUFFICES ASSUME SizeInv, [Next]_vars PROVE SizeInv'
  OBVIOUS
<1>1. UNCHANGED agent
  BY DEF Next, ClaudeLine, CodexLine, GeminiLine, Line, vars
<1>2. ASSUME UNCHANGED <<current, previous, count, first>> PROVE SizeInv'
  BY <1>1, <1>2 DEF SizeInv
<1>3. ASSUME NEW content, NEW r \in Request \cup {NoRequest}, NEW usage \in BOOLEAN,
             ClaudeAssistant(r, content, usage)
      PROVE  SizeInv'
  <2>1. CASE r # NoRequest /\ ~Known(r)
    <3>1. r \in Request /\ r \notin current /\ RememberClaude(r)
      BY <1>3, <2>1 DEF ClaudeAssistant, Known
    <3> QED BY <1>1, <3>1, RememberKeepsSize
  <2>2. CASE ~(r # NoRequest /\ ~Known(r))
    <3>1. UNCHANGED <<current, previous, count, first>>
      BY <1>3, <2>2 DEF ClaudeAssistant, memory
    <3> QED BY <1>2, <3>1
  <2> QED BY <2>1, <2>2
<1>4. ASSUME NEW r \in Request \cup {NoRequest}, Usage(r) PROVE SizeInv'
  <2>1. CASE r \in current \/ r = NoRequest
    <3>1. UNCHANGED <<current, previous, count, first>>
      BY <1>4, <2>1 DEF Usage, memory
    <3> QED BY <1>2, <3>1
  <2>2. CASE ~(r \in current \/ r = NoRequest)
    <3>1. r \in Request /\ r \notin current /\ Remember(r)
      BY <1>4, <2>2 DEF Usage
    <3> QED BY <1>1, <3>1, RememberKeepsSize
  <2> QED BY <2>1, <2>2
<1>5. ASSUME NEW c, NEW gen, NEW len, LegacyRewrite(c, gen, len) PROVE SizeInv'
  BY <1>2, <1>5 DEF LegacyRewrite, memory
<1>6. ASSUME NEW kinds, ClaudeUser(kinds) \/ NoUsage(kinds) PROVE SizeInv'
  BY <1>2, <1>6 DEF ClaudeUser, NoUsage, memory, history
<1>7. CASE UNCHANGED vars
  BY <1>2, <1>7 DEF vars, memory, history
<1> QED BY <1>3, <1>4, <1>5, <1>6, <1>7 DEF Next, ClaudeLine, CodexLine, GeminiLine

LineInv == lines \in 0..MaxLines /\ events \in Events

LEMMA StepKeepsLine == EmittedInv /\ LineInv /\ [Next]_vars => LineInv'
<1> SUFFICES ASSUME EmittedInv, LineInv, [Next]_vars PROVE LineInv'
  OBVIOUS
<1>1. lines' \in 0..MaxLines
  <2>1. lines \in 0..MaxLines /\ MaxLines \in Nat
    BY ParserAssumption DEF LineInv
  <2>2. UNCHANGED lines \/ (lines < MaxLines /\ lines' = lines + 1)
    BY DEF Next, ClaudeLine, CodexLine, GeminiLine, Line, vars
  <2> QED BY <2>1, <2>2
<1>2. \A content \in Contents : content \in Seq(Block)
  BY ParserAssumption
<1>3. ASSUME NEW content \in Contents, ClaudeUser(content) PROVE events' \in Events
  BY <1>2, <1>3, UserEventsAre DEF ClaudeUser
<1>4. ASSUME NEW content \in Contents, NEW r \in Request \cup {NoRequest}, NEW usage \in BOOLEAN,
             ClaudeAssistant(r, content, usage)
      PROVE  events' \in Events
  <2>1. PICK u \in BOOLEAN : events' = AssistantEvents(content, u)
    BY <1>4 DEF ClaudeAssistant
  <2> QED BY <1>2, <2>1, AssistantEventsAre
<1>5. ASSUME NEW r \in Request \cup {NoRequest}, Usage(r) PROVE events' \in Events
  <2> DEFINE e == Event("text", TRUE)
             E == [kind : Kind, usage : BOOLEAN]
  <2>1. e \in E
    BY DEF Event, Kind
  <2>2. events' = <<>> \/ events' = <<e>>
    BY <1>5 DEF Usage
  <2> HIDE DEF e, E
  <2>3. <<>> \in Seq(E) /\ <<e>> \in Seq(E)
    BY <2>1
  <2>4. events' \in Seq(E)
    BY <2>2, <2>3
  <2> QED BY <2>4 DEF E, Events
<1>6. ASSUME NEW kinds \in Seq(Kind), NoUsage(kinds) PROVE events' \in Events
  <2>1. Len(kinds) \in Nat /\ DOMAIN kinds = 1..Len(kinds)
        /\ \A i \in 1..Len(kinds) : kinds[i] \in Kind
    OBVIOUS
  <2>2. \A i \in 1..Len(kinds) : Event(kinds[i], FALSE) \in [kind : Kind, usage : BOOLEAN]
    BY <2>1 DEF Event
  <2>3. [i \in 1..Len(kinds) |-> Event(kinds[i], FALSE)] \in Events
    <3> DEFINE E == [kind : Kind, usage : BOOLEAN]
               n == Len(kinds)
               e(i) == Event(kinds[i], FALSE)
    <3>1. n \in Nat /\ [i \in 1..n |-> e(i)] \in [1..n -> E]
      BY <2>1, <2>2
    <3> HIDE DEF n, e, E
    <3>2. [i \in 1..n |-> e(i)] \in Seq(E)
      BY <3>1, SeqDef
    <3> QED BY <3>2 DEF n, e, E, Events
  <2>4. events' = [i \in 1..Len(kinds) |-> Event(kinds[i], FALSE)]
    BY <1>6, <2>1 DEF NoUsage
  <2> QED BY <2>3, <2>4
<1>7. /\ \A kinds \in {<<"tool_use">>, <<"tool_result">>, <<>>} : kinds \in Seq(Kind)
      /\ \A kinds \in {<<"tool_use", "text">>, <<"tool_result">>, <<>>} : kinds \in Seq(Kind)
  BY DEF Kind
<1>8. ASSUME NEW c \in Conversation, NEW gen \in 0..MaxGen, NEW len \in Message \cup {0},
             LegacyRewrite(c, gen, len)
      PROVE  events' \in Events
  <2> DEFINE skip == SkippedMessages(c, len)
             E == [kind : Kind, usage : BOOLEAN]
             n == len - skip
             e(k) == LegacyEvents(Messages[skip + k])
             q == [k \in 1..n |-> e(k)]
  <2>1. /\ len \in Nat /\ skip \in Nat /\ skip <= len /\ n \in Nat
        /\ \A i \in 1..len : i \in Message
    BY MessagesAre DEF EmittedInv, SkippedMessages
  <2>2. \A k \in 1..n : e(k) \in Seq(E)
    <3> TAKE k \in 1..n
    <3>1. skip + k \in Message
      <4>1. skip + k \in 1..len
        BY <2>1
      <4> QED BY <2>1, <4>1
    <3> QED BY <3>1, MessagesAre, LegacyEventsAre DEF Events
  <2>3. events' = FlattenSeq(q)
    BY <1>8 DEF LegacyRewrite
  <2>4. q \in Seq(Seq(E))
    <3> HIDE DEF n, e, E
    <3>1. q \in [1..n -> Seq(E)]
      BY <2>2
    <3> HIDE DEF q
    <3> QED BY <2>1, <3>1, SeqDef
  <2> HIDE DEF q, E
  <2>5. events' \in Seq(E)
    BY <2>3, <2>4, FlattenIs
  <2> QED BY <2>5 DEF E, Events
<1>9. ASSUME UNCHANGED vars PROVE events' \in Events
  BY <1>9 DEF vars, LineInv
<1>10. events' \in Events
  <2>1. CASE ClaudeLine
    BY <1>3, <1>4, <2>1 DEF ClaudeLine
  <2>2. CASE CodexLine
    BY <1>5, <1>6, <1>7, <2>2 DEF CodexLine
  <2>3. CASE GeminiLine
    BY <1>5, <1>6, <1>7, <1>8, <2>3 DEF GeminiLine
  <2> QED BY <1>9, <2>1, <2>2, <2>3 DEF Next
<1> QED BY <1>1, <1>10 DEF LineInv

\* Every variable keeps its type, and what a parser remembers of requests stays within
\* maxSeenRequests, in ClaudeParser within one more than twice that: so a daemon that
\* runs for months does not grow by it.
THEOREM ParserTypeCorrect == Spec => []TypeOK
<1>1. Init => SizeInv /\ LineInv
  <2> SUFFICES ASSUME Init PROVE SizeInv /\ LineInv
    OBVIOUS
  <2>1. /\ agent \in Agents /\ first = <<>> /\ current = {} /\ previous = {} /\ count = 0
        /\ events = <<>> /\ lines = 0
    BY DEF Init
  <2>2. maxSeenRequests \in Nat /\ MaxLines \in Nat
    BY ParserAssumption
  <2>3. IsFiniteSet({}) /\ Cardinality({}) = 0
    BY FS_EmptySet
  <2>4. LineInv
    BY <2>1, <2>2 DEF LineInv, Events
  <2> QED BY <2>1, <2>2, <2>3, <2>4 DEF SizeInv
<1>2. SizeInv /\ EmittedInv /\ LineInv => TypeOK
  BY DEF SizeInv, EmittedInv, LineInv, TypeOK, Events
<1> QED BY <1>1, <1>2, StepKeepsSize, StepKeepsLine, EmittedAlways, PTL DEF Spec
=============================================================================

---------------------------- MODULE BudgetProofs ----------------------------
(***************************************************************************)
(* What the budget promises, for any limits, costs, lengths of an hour and *)
(* of a day, and reloads: the running totals are the history of charges,   *)
(* an exceeded limit is seen and paused for, no warning hides it           *)
(* (FINDINGS.md, H1), and only a warning given suppresses the next.        *)
(*                                                                         *)
(* The invariant, TotalsInv, relates the enforcer's state to the history:  *)
(* the hourly entries stand for the last charges, one each, and the        *)
(* charges before them are too old; the daily counter is of the day of the *)
(* last charge; a session's total is of its charges.  It rests on the      *)
(* facts about sums below, which need an induction on finite sets.         *)
(***************************************************************************)
EXTENDS Budget, FiniteSetTheorems, WellFoundedInduction, TLAPS

----------------------------------------------------------------------------
(* The most severe result.  MoreSevere is a strict weak order on the       *)
(* limits that have a result, and Rank decides between equals: so there is *)
(* one that is worse than all the others.                                  *)

\* The percentages a / x, b / y, c / z, compared as the code's are, without dividing.
LEMMA RatiosCompare ==
  ASSUME NEW a \in Nat, NEW b \in Nat, NEW c \in Nat,
         NEW x \in Nat \ {0}, NEW y \in Nat \ {0}, NEW z \in Nat \ {0},
         a * y <= b * x, b * z <= c * y
  PROVE  a * z <= c * x
<1>1. (a * y) * z <= (b * x) * z
  BY SMT
<1>2. (b * z) * x <= (c * y) * x
  BY SMT
<1>3. (a * z) * y <= (c * x) * y
  BY <1>1, <1>2
<1>4. a * z \in Nat /\ c * x \in Nat
  OBVIOUS
<1>5. \A m, n \in Nat : m * y <= n * y => m <= n
  OBVIOUS
<1> QED BY <1>3, <1>4, <1>5

Worse(total, l, m) ==
    MoreSevere(total, l, m) \/ (Rank(l) < Rank(m) /\ ~MoreSevere(total, m, l))

LEMMA FoundHaveLimits ==
  ASSUME limits \in [LimitName -> Nat], NEW total \in [LimitName -> Nat]
  PROVE  /\ Found(total) \subseteq LimitName
         /\ \A l \in Found(total) : limits[l] \in Nat \ {0} /\ total[l] \in Nat
         /\ \A l \in LimitName : Reached(total, l) => l \in Found(total)
  BY DEF Found, Reached, InWarning

LEMMA SeverityIsAnOrder ==
  ASSUME limits \in [LimitName -> Nat], NEW total \in [LimitName -> Nat],
         NEW l \in Found(total), NEW m \in Found(total), NEW k \in Found(total)
  PROVE  /\ ~(MoreSevere(total, l, m) /\ MoreSevere(total, m, l))
         /\ MoreSevere(total, l, k) => MoreSevere(total, l, m) \/ MoreSevere(total, m, k)
<1>1. \A n \in Found(total) : limits[n] \in Nat \ {0} /\ total[n] \in Nat
  BY FoundHaveLimits
<1>2. \A n, o \in Found(total) : total[n] * limits[o] \in Nat
  BY <1>1
<1>3. ASSUME total[l] * limits[m] <= total[m] * limits[l],
             total[m] * limits[k] <= total[k] * limits[m]
      PROVE  total[l] * limits[k] <= total[k] * limits[l]
  BY <1>1, <1>3, RatiosCompare
<1> DEFINE P(n, o) == total[n] * limits[o] > total[o] * limits[n]
<1>4. P(l, k) => P(l, m) \/ P(m, k)
  BY <1>2, <1>3
<1>5. ~(P(l, m) /\ P(m, l))
  BY <1>2
<1>6. \A n, o \in Found(total) :
        MoreSevere(total, n, o) <=> \/ Reached(total, n) /\ ~Reached(total, o)
                                    \/ (Reached(total, n) <=> Reached(total, o)) /\ P(n, o)
  BY DEF MoreSevere, Reached
<1> HIDE DEF P
<1> QED BY <1>4, <1>5, <1>6

LEMMA WorseIsTotal ==
  ASSUME limits \in [LimitName -> Nat], NEW total \in [LimitName -> Nat],
         NEW l \in Found(total), NEW m \in Found(total), l # m
  PROVE  Worse(total, l, m) \/ Worse(total, m, l)
<1>1. l \in LimitName /\ m \in LimitName
  BY FoundHaveLimits
<1>2. Rank(l) < Rank(m) \/ Rank(m) < Rank(l)
  BY <1>1 DEF Rank, LimitName
<1> QED BY <1>2 DEF Worse

LEMMA WorseIsTransitive ==
  ASSUME limits \in [LimitName -> Nat], NEW total \in [LimitName -> Nat],
         NEW l \in Found(total), NEW m \in Found(total), NEW k \in Found(total),
         Worse(total, l, m), Worse(total, m, k)
  PROVE  Worse(total, l, k)
<1> DEFINE S(n, o) == MoreSevere(total, n, o)
<1>1. ~(S(l, m) /\ S(m, l)) /\ ~(S(m, k) /\ S(k, m))
  BY SeverityIsAnOrder
<1>2. /\ S(k, l) => S(k, m) \/ S(m, l)
      /\ S(l, m) => S(l, k) \/ S(k, m)
      /\ S(m, k) => S(m, l) \/ S(l, k)
  BY SeverityIsAnOrder
<1>3. Rank(l) < Rank(m) /\ Rank(m) < Rank(k) => Rank(l) < Rank(k)
  BY FoundHaveLimits DEF Rank, LimitName
<1> HIDE DEF S
<1>4. /\ S(l, m) \/ (Rank(l) < Rank(m) /\ ~S(m, l))
      /\ S(m, k) \/ (Rank(m) < Rank(k) /\ ~S(k, m))
  BY DEF Worse, S
<1>5. S(l, k) \/ (Rank(l) < Rank(k) /\ ~S(k, l))
  BY <1>1, <1>2, <1>3, <1>4
<1> QED BY <1>5 DEF Worse, S

LEMMA WorstExists ==
  ASSUME limits \in [LimitName -> Nat], NEW total \in [LimitName -> Nat],
         Found(total) # {}
  PROVE  /\ Worst(total) \in Found(total)
         /\ \A m \in Found(total) \ {Worst(total)} : Worse(total, Worst(total), m)
<1> DEFINE F == Found(total)
           W(l, m) == Worse(total, l, m)
<1>1. F \subseteq {"per_session", "per_hour", "per_day"}
  BY FoundHaveLimits DEF LimitName
<1>2. \A l, m \in F : l # m => W(l, m) \/ W(m, l)
  BY WorseIsTotal
<1>3. \A l, m, k \in F : W(l, m) /\ W(m, k) => W(l, k)
  BY WorseIsTransitive
<1>4. \E l \in F : \A m \in F \ {l} : W(l, m)
  <2> DEFINE G(S) == \E l \in F : \A m \in F \cap S : l = m \/ W(l, m)
  <2>1. G({})
    OBVIOUS
  <2> HIDE DEF F, W
  <2>2. ASSUME NEW S, NEW x, G(S) PROVE G(S \cup {x})
    <3>1. PICK l \in F : \A m \in F \cap S : l = m \/ W(l, m)
      BY <2>2
    <3>2. CASE x \notin F \/ l = x \/ W(l, x)
      BY <3>1, <3>2
    <3>3. CASE x \in F /\ W(x, l)
      BY <1>3, <3>1, <3>3
    <3> QED BY <1>2, <3>1, <3>2, <3>3
  <2>3. G((({} \cup {"per_session"}) \cup {"per_hour"}) \cup {"per_day"})
    <3> HIDE DEF G
    <3> QED BY <2>1, <2>2
  <2> QED BY <1>1, <2>3
<1> QED BY <1>4 DEF Worst, Worse

\* RecordCost's result says that a limit is exceeded if and only if one of them is: a
\* warning of another limit, whatever its percentage and its place in the order of the
\* checks, does not hide it (budget.go, FINDINGS.md H1).
THEOREM ExceededIsNotHidden ==
  ASSUME limits \in [LimitName -> Nat], NEW total \in [LimitName -> Nat]
  PROVE  Worst(total) # NoLimit /\ Reached(total, Worst(total))
           <=> \E l \in LimitName : Reached(total, l)
<1>1. ASSUME Worst(total) # NoLimit, Reached(total, Worst(total))
      PROVE  \E l \in LimitName : Reached(total, l)
  <2>1. Found(total) # {}
    BY <1>1 DEF Worst
  <2> QED BY <1>1, <2>1, WorstExists, FoundHaveLimits
<1>2. ASSUME NEW l \in LimitName, Reached(total, l)
      PROVE  Worst(total) # NoLimit /\ Reached(total, Worst(total))
  <2>1. l \in Found(total)
    BY <1>2, FoundHaveLimits
  <2>2. /\ Worst(total) \in LimitName
        /\ Worst(total) = l \/ Worse(total, Worst(total), l)
    BY <2>1, WorstExists, FoundHaveLimits
  <2>3. Reached(total, Worst(total))
    BY <1>2, <2>2 DEF Worse, MoreSevere
  <2> QED BY <2>2, <2>3, BudgetAssumption
<1> QED BY <1>1, <1>2

----------------------------------------------------------------------------
(* Warnings.                                                               *)

\* What suppresses the warning of a limit is a warning of it that this session has had:
\* the keys of the map and the warnings raised grow together, and reloads only clear
\* the first (Process, UpdateBudget).
THEOREM OnlyWarningsGivenSuppress == Spec => []WarnedMeansTold
<1>1. Init => WarnedMeansTold
  BY DEF Init, WarnedMeansTold
<1>2. ASSUME WarnedMeansTold, [Next]_vars PROVE WarnedMeansTold'
  <2>1. CASE BudgetWarning
    BY <1>2, <2>1 DEF BudgetWarning, Pass, Warn, WarnedMeansTold
  <2>2. CASE ForgetWarnings
    BY <1>2, <2>2 DEF ForgetWarnings, WarnedMeansTold
  <2>3. CASE \E s \in Session, c \in Cost : ProcessLine(s, c)
    BY <1>2, <2>3 DEF ProcessLine, WarnedMeansTold, history
  <2>4. CASE RecordCost
    BY <1>2, <2>4 DEF RecordCost, WarnedMeansTold
  <2>5. CASE NothingToReport \/ BudgetExceeded
    BY <1>2, <2>5 DEF NothingToReport, BudgetExceeded, Pass, Pause, WarnedMeansTold
  <2>6. CASE (\E spinning \in BOOLEAN : SpinCheck(spinning)) \/ ProcessReturn
    BY <1>2, <2>6 DEF SpinCheck, ProcessReturn, WarnedMeansTold, history
  <2>7. CASE (\E new \in Limits : UpdateLimits(new)) \/ Tick
    BY <1>2, <2>7 DEF UpdateLimits, Tick, WarnedMeansTold, history
  <2>8. CASE UNCHANGED vars
    BY <1>2, <2>8 DEF vars, WarnedMeansTold, history
  <2> QED BY <1>2, <2>1, <2>2, <2>3, <2>4, <2>5, <2>6, <2>7, <2>8 DEF Next
<1> QED BY <1>1, <1>2, PTL DEF Spec

----------------------------------------------------------------------------
(* The two totals.  While a line is between them, the analyzer's is ahead  *)
(* by the cost of that line.                                               *)

AheadInv ==
    /\ sessions \in [Session -> Nat] /\ sessionCosts \in [Session -> Nat]
    /\ DOMAIN proc = {"pc", "session", "cost", "worst", "exceeded", "alerts"}
    /\ proc.pc = "record" => proc.session \in Session /\ proc.cost \in Nat
    /\ \A s \in Session :
         sessions[s] = sessionCosts[s]
                       + (IF proc.pc = "record" /\ s = proc.session THEN proc.cost ELSE 0)

Aligned == \A s \in Session : proc.pc = "idle" => sessions[s] = sessionCosts[s]

LEMMA InitAhead == Init => AheadInv
<1> SUFFICES ASSUME Init PROVE AheadInv
  OBVIOUS
<1>1. sessions = [s \in Session |-> 0] /\ sessionCosts = [s \in Session |-> 0] /\ proc = Idle
  BY DEF Init
<1>2. /\ DOMAIN proc = {"pc", "session", "cost", "worst", "exceeded", "alerts"}
      /\ proc.pc = "idle"
  BY <1>1 DEF Idle
<1> QED BY <1>1, <1>2 DEF AheadInv

\* A step after the enforcer has the line, which only moves on.
LEMMA MovingOnKeepsAhead ==
  ASSUME AheadInv, proc.pc # "record", proc'.pc # "record",
         DOMAIN proc' = DOMAIN proc,
         UNCHANGED <<sessions, sessionCosts>>
  PROVE  AheadInv'
  BY DEF AheadInv

LEMMA AheadAlways == Spec => []AheadInv
<1>1. ASSUME AheadInv, [Next]_vars PROVE AheadInv'
  <2>1. ASSUME NEW s \in Session, NEW c \in Cost, ProcessLine(s, c) PROVE AheadInv'
    <3>1. /\ c \in Nat /\ proc.pc = "idle"
          /\ sessions' = [sessions EXCEPT ![s] = @ + c] /\ sessionCosts' = sessionCosts
          /\ proc' = [Idle EXCEPT !.pc = "record", !.session = s, !.cost = c]
      BY <2>1, BudgetAssumption DEF ProcessLine, enforcer
    <3>2. /\ DOMAIN proc' = {"pc", "session", "cost", "worst", "exceeded", "alerts"}
          /\ proc'.pc = "record" /\ proc'.session = s /\ proc'.cost = c
      BY <3>1 DEF Idle
    <3> QED BY <1>1, <3>1, <3>2 DEF AheadInv
  <2>2. CASE RecordCost
    <3>1. /\ proc.pc = "record" /\ sessions' = sessions
          /\ sessionCosts' = [sessionCosts EXCEPT ![proc.session] = @ + proc.cost]
      BY <2>2 DEF RecordCost
    <3> PICK worst, exceeded :
           proc' = [proc EXCEPT !.pc = "budget", !.worst = worst, !.exceeded = exceeded]
      BY <2>2 DEF RecordCost
    <3>2. DOMAIN proc' = DOMAIN proc /\ proc'.pc = "budget"
      BY <1>1, <3>1 DEF AheadInv
    <3> QED BY <1>1, <3>1, <3>2 DEF AheadInv
  <2>3. CASE NothingToReport \/ BudgetExceeded \/ BudgetWarning
    <3>1. /\ proc.pc = "budget" /\ UNCHANGED <<sessions, sessionCosts>>
      BY <2>3 DEF NothingToReport, BudgetExceeded, BudgetWarning, enforcer
    <3> PICK alerts : \/ proc' = [proc EXCEPT !.pc = "spin"]
                      \/ proc' = [proc EXCEPT !.pc = "spin", !.alerts = alerts]
      BY <2>3 DEF NothingToReport, BudgetExceeded, BudgetWarning, Pass, Pause, Warn
    <3>2. DOMAIN proc' = DOMAIN proc /\ proc'.pc = "spin"
      BY <1>1, <3>1 DEF AheadInv
    <3> QED BY <1>1, <3>1, <3>2, MovingOnKeepsAhead
  <2>4. ASSUME NEW spinning \in BOOLEAN, SpinCheck(spinning) PROVE AheadInv'
    <3>1. /\ proc.pc = "spin" /\ UNCHANGED <<sessions, sessionCosts>>
      BY <2>4 DEF SpinCheck, enforcer
    <3> PICK alerts : proc' = [proc EXCEPT !.pc = "done", !.alerts = alerts]
      BY <2>4 DEF SpinCheck
    <3>2. DOMAIN proc' = DOMAIN proc /\ proc'.pc = "done"
      BY <1>1, <3>1 DEF AheadInv
    <3> QED BY <1>1, <3>1, <3>2, MovingOnKeepsAhead
  <2>5. CASE ProcessReturn
    <3>1. proc.pc = "done" /\ proc' = Idle /\ UNCHANGED <<sessions, sessionCosts>>
      BY <2>5 DEF ProcessReturn, enforcer
    <3>2. DOMAIN proc' = DOMAIN proc /\ proc'.pc = "idle"
      BY <1>1, <3>1 DEF AheadInv, Idle
    <3> QED BY <1>1, <3>1, <3>2, MovingOnKeepsAhead
  <2>6. CASE (\E new \in Limits : UpdateLimits(new)) \/ ForgetWarnings \/ Tick \/ UNCHANGED vars
    <3>1. UNCHANGED <<sessions, sessionCosts, proc>>
      BY <2>6 DEF UpdateLimits, ForgetWarnings, Tick, vars, enforcer
    <3> QED BY <1>1, <3>1 DEF AheadInv
  <2> QED BY <1>1, <2>1, <2>2, <2>3, <2>4, <2>5, <2>6 DEF Next
<1> QED BY InitAhead, <1>1, PTL DEF Spec

\* The analyzer's total of a session and the enforcer's agree whenever no line is
\* between them: every line is added to both, whatever limits are reloaded meanwhile
\* (Process, RecordCost).
LEMMA RunningTotalsAgree == Spec => []Aligned
<1>1. AheadInv => Aligned
  BY DEF AheadInv, Aligned
<1> QED BY AheadAlways, <1>1, PTL

----------------------------------------------------------------------------
(* Sums over finite sets.  MapThenSumSet adds in an order it chooses; the  *)
(* sum of every subset exists and does not depend on the order.            *)

\* h[T] is the sum of g over the subset T of S.
Sums(h, g, S) ==
    /\ h \in [SUBSET S -> Nat] /\ h[{}] = 0
    /\ \A T \in SUBSET S : \A x \in S \ T : h[T \cup {x}] = g[x] + h[T]

LEMMA LeastSubset ==
  ASSUME NEW S, IsFiniteSet(S), NEW Bad, Bad \subseteq SUBSET S, Bad # {}
  PROVE  \E X \in Bad : \A Y \in Bad : ~(Y \subseteq X /\ Y # X)
<1> DEFINE R == StrictSubsetOrdering(S)
           F == FiniteSubsetsOf(S)
<1>1. IsWellFoundedOn(R, F)
  BY FS_StrictSubsetOrderingWellFounded
<1>2. Bad \subseteq F
  BY FS_Subset DEF FiniteSubsetsOf
<1>3. \A x, y \in SUBSET S : <<y, x>> \in R <=> y \subseteq x /\ y # x
  BY DEF StrictSubsetOrdering
<1> HIDE DEF R, F
<1>4. \E X \in Bad : \A Y \in Bad : ~ (<<Y, X>> \in R)
  BY <1>1, <1>2, WFMin
<1> QED BY <1>3, <1>4

LEMMA SetInduction ==
  ASSUME NEW S, IsFiniteSet(S), NEW Good, {} \in Good,
         \A X \in SUBSET S :
           X # {} /\ (\A y \in X : X \ {y} \in Good) => X \in Good
  PROVE  \A X \in SUBSET S : X \in Good
<1> DEFINE Bad == (SUBSET S) \ Good
<1> SUFFICES ASSUME Bad # {} PROVE FALSE
  OBVIOUS
<1>1. Bad \subseteq SUBSET S /\ Bad # {}
  OBVIOUS
<1> HIDE DEF Bad
<1>2. PICK X \in Bad : \A Y \in Bad : ~(Y \subseteq X /\ Y # X)
  BY <1>1, LeastSubset
<1>3. \A y \in X : X \ {y} \in Good
  BY <1>2 DEF Bad
<1> QED BY <1>2, <1>3 DEF Bad

LEMMA SumsExist ==
  ASSUME NEW S, IsFiniteSet(S), NEW g, \A x \in S : g[x] \in Nat
  PROVE  \E h : Sums(h, g, S)
<1> DEFINE Good == {X \in SUBSET S : \E h : Sums(h, g, X)}
<1>1. {} \in Good
  <2>1. Sums([T \in SUBSET {} |-> 0], g, {})
    BY DEF Sums
  <2> QED BY <2>1
<1>2. ASSUME NEW X \in SUBSET S, X # {}, \A y \in X : X \ {y} \in Good
      PROVE  X \in Good
  <2>1. PICK y \in X : TRUE
    BY <1>2
  <2> DEFINE Y == X \ {y}
  <2>2. PICK h : Sums(h, g, Y)
    BY <1>2
  <2> DEFINE k == [T \in SUBSET X |-> IF y \in T THEN g[y] + h[T \ {y}] ELSE h[T]]
  <2>3. g[y] \in Nat /\ \A T \in SUBSET Y : h[T] \in Nat
    BY <2>2 DEF Sums
  <2>4. k \in [SUBSET X -> Nat] /\ k[{}] = 0
    <3>1. \A T \in SUBSET X : T \ {y} \in SUBSET Y /\ (y \notin T => T \in SUBSET Y)
      OBVIOUS
    <3>2. ASSUME NEW T \in SUBSET X
          PROVE  (IF y \in T THEN g[y] + h[T \ {y}] ELSE h[T]) \in Nat
      BY <2>3, <3>1
    <3> QED BY <2>2, <3>2 DEF Sums
  <2>5. ASSUME NEW T \in SUBSET X, NEW x \in X \ T PROVE k[T \cup {x}] = g[x] + k[T]
    <3>1. CASE x = y
      <4>1. k[T \cup {x}] = g[y] + h[(T \cup {x}) \ {y}] /\ k[T] = h[T]
        BY <3>1
      <4>2. (T \cup {x}) \ {y} = T
        BY <3>1
      <4> QED BY <3>1, <4>1, <4>2
    <3>2. CASE x # y /\ y \notin T
      <4>1. T \in SUBSET Y /\ x \in Y \ T /\ y \notin T \cup {x}
        BY <3>2
      <4>2. h[T \cup {x}] = g[x] + h[T]
        BY <2>2, <4>1 DEF Sums
      <4> QED BY <3>2, <4>1, <4>2
    <3>3. CASE x # y /\ y \in T
      <4>1. T \ {y} \in SUBSET Y /\ x \in Y \ (T \ {y})
            /\ (T \cup {x}) \ {y} = (T \ {y}) \cup {x}
        BY <3>3
      <4>2. h[(T \ {y}) \cup {x}] = g[x] + h[T \ {y}]
        BY <2>2, <4>1 DEF Sums
      <4>3. k[T \cup {x}] = g[y] + h[(T \ {y}) \cup {x}] /\ k[T] = g[y] + h[T \ {y}]
        BY <3>3, <4>1
      <4>4. g[x] \in Nat /\ g[y] \in Nat /\ h[T \ {y}] \in Nat
        BY <2>3, <4>1
      <4> HIDE DEF k
      <4> QED BY <4>2, <4>3, <4>4
    <3> QED BY <3>1, <3>2, <3>3
  <2> HIDE DEF k
  <2>6. Sums(k, g, X)
    BY <2>4, <2>5 DEF Sums
  <2> QED BY <2>6
<1> HIDE DEF Good
<1>3. \A X \in SUBSET S : X \in Good
  BY <1>1, <1>2, SetInduction
<1> QED BY <1>3 DEF Good

\* The recursion of MapThenSumSet.
Adds(k, g, S) ==
    k = [T \in SUBSET S |->
           IF T = {} THEN 0 ELSE g[CHOOSE x \in T : TRUE] + k[T \ {CHOOSE x \in T : TRUE}]]

LEMMA SumsAdd ==
  ASSUME NEW S, NEW g, NEW h, Sums(h, g, S)
  PROVE  Adds(h, g, S)
<1>1. ASSUME NEW T \in SUBSET S, T # {}, NEW x \in T
      PROVE  h[T] = g[x] + h[T \ {x}]
  <2>1. (T \ {x}) \cup {x} = T /\ T \ {x} \in SUBSET S /\ x \in S \ (T \ {x})
    OBVIOUS
  <2> QED BY <2>1 DEF Sums
<1>2. \A T \in SUBSET S : T # {} => (CHOOSE x \in T : TRUE) \in T
  OBVIOUS
<1> QED BY <1>1, <1>2 DEF Sums, Adds

LEMMA AddsOnce ==
  ASSUME NEW S, IsFiniteSet(S), NEW g, NEW h, NEW k, Adds(h, g, S), Adds(k, g, S)
  PROVE  h[S] = k[S]
<1> DEFINE Good == {T \in SUBSET S : h[T] = k[T]}
<1>1. {} \in Good
  BY DEF Adds
<1>2. ASSUME NEW X \in SUBSET S, X # {}, \A y \in X : X \ {y} \in Good
      PROVE  X \in Good
  <2> DEFINE y == CHOOSE x \in X : TRUE
  <2>1. y \in X
    BY <1>2
  <2>2. h[X] = g[y] + h[X \ {y}] /\ k[X] = g[y] + k[X \ {y}]
    BY <1>2 DEF Adds
  <2> HIDE DEF y
  <2>3. h[X \ {y}] = k[X \ {y}]
    BY <1>2, <2>1
  <2> QED BY <2>2, <2>3
<1> HIDE DEF Good
<1>3. \A X \in SUBSET S : X \in Good
  BY <1>1, <1>2, SetInduction
<1> QED BY <1>3 DEF Good

\* Spent and TotalOf are sums, whatever order they are added in.
LEMMA SpentSums ==
  ASSUME NEW S, IsFiniteSet(S), \A c \in S : c.cost \in Nat,
         NEW h, Sums(h, [c \in S |-> c.cost], S)
  PROVE  Spent(S) = h[S]
<1> DEFINE g == [c \in S |-> c.cost]
           k == CHOOSE it : it = [s \in SUBSET S |->
                  IF s = {} THEN 0
                  ELSE LET x == CHOOSE x \in s : TRUE IN x.cost + it[s \ {x}]]
<1>1. Spent(S) = k[S]
  BY DEF Spent, MapThenSumSet, MapThenFoldSet
<1>2. \A it : it = [s \in SUBSET S |->
                  IF s = {} THEN 0
                  ELSE LET x == CHOOSE x \in s : TRUE IN x.cost + it[s \ {x}]]
                <=> Adds(it, g, S)
  <2> TAKE it
  <2>1. ASSUME NEW s \in SUBSET S
        PROVE  (IF s = {} THEN 0
                  ELSE LET x == CHOOSE x \in s : TRUE IN x.cost + it[s \ {x}])
               = (IF s = {} THEN 0 ELSE g[CHOOSE x \in s : TRUE] + it[s \ {CHOOSE x \in s : TRUE}])
    OBVIOUS
  <2> QED BY <2>1 DEF Adds
<1> QED BY <1>1, <1>2, SumsAdd, AddsOnce

LEMMA TotalSums ==
  ASSUME NEW q, IsFiniteSet(DOMAIN q), \A i \in DOMAIN q : q[i].cost \in Nat,
         NEW h, Sums(h, [i \in DOMAIN q |-> q[i].cost], DOMAIN q)
  PROVE  TotalOf(q) = h[DOMAIN q]
<1> DEFINE S == DOMAIN q
           g == [i \in S |-> q[i].cost]
           k == CHOOSE it : it = [s \in SUBSET S |->
                  IF s = {} THEN 0
                  ELSE LET x == CHOOSE x \in s : TRUE IN q[x].cost + it[s \ {x}]]
<1>1. TotalOf(q) = k[S]
  BY DEF TotalOf, MapThenSumSet, MapThenFoldSet
<1>2. \A it : it = [s \in SUBSET S |->
                  IF s = {} THEN 0
                  ELSE LET x == CHOOSE x \in s : TRUE IN q[x].cost + it[s \ {x}]]
                <=> Adds(it, g, S)
  <2> TAKE it
  <2>1. ASSUME NEW s \in SUBSET S
        PROVE  (IF s = {} THEN 0
                  ELSE LET x == CHOOSE x \in s : TRUE IN q[x].cost + it[s \ {x}])
               = (IF s = {} THEN 0 ELSE g[CHOOSE x \in s : TRUE] + it[s \ {CHOOSE x \in s : TRUE}])
    OBVIOUS
  <2> QED BY <2>1 DEF Adds
<1> HIDE DEF g, S, k
<1>3. Adds(h, g, S)
  BY SumsAdd DEF g, S
<1>4. Adds(k, g, S)
  BY <1>2, <1>3 DEF k
<1>5. h[S] = k[S] /\ IsFiniteSet(S)
  BY <1>3, <1>4, AddsOnce DEF S
<1> QED BY <1>1, <1>5 DEF S

LEMMA SpentSubsets ==
  ASSUME NEW S, IsFiniteSet(S), \A c \in S : c.cost \in Nat
  PROVE  \E h : /\ Sums(h, [c \in S |-> c.cost], S)
                /\ \A T \in SUBSET S : Spent(T) = h[T]
<1> DEFINE g(T) == [c \in T |-> c.cost]
<1>1. PICK h : Sums(h, g(S), S)
  BY SumsExist
<1>2. ASSUME NEW T \in SUBSET S PROVE Spent(T) = h[T]
  <2> DEFINE k == [U \in SUBSET T |-> h[U]]
  <2>1. Sums(k, g(T), T)
    BY <1>1 DEF Sums
  <2>2. IsFiniteSet(T)
    BY FS_Subset
  <2> HIDE DEF k
  <2>3. Spent(T) = k[T]
    BY <2>1, <2>2, SpentSums
  <2> QED BY <2>3 DEF k
<1> QED BY <1>1, <1>2

LEMMA SpentFacts ==
  ASSUME NEW S, IsFiniteSet(S), \A c \in S : c.cost \in Nat
  PROVE  /\ Spent(S) \in Nat
         /\ Spent({}) = 0
         /\ \A x \in S : Spent(S) = x.cost + Spent(S \ {x})
<1>1. PICK h : /\ Sums(h, [c \in S |-> c.cost], S)
               /\ \A T \in SUBSET S : Spent(T) = h[T]
  BY SpentSubsets
<1>2. Spent(S) \in Nat /\ Spent({}) = 0
  BY <1>1 DEF Sums
<1>3. ASSUME NEW x \in S PROVE Spent(S) = x.cost + Spent(S \ {x})
  <2>1. S \ {x} \in SUBSET S /\ x \in S \ (S \ {x}) /\ (S \ {x}) \cup {x} = S
    OBVIOUS
  <2>2. h[S] = x.cost + h[S \ {x}]
    BY <1>1, <2>1 DEF Sums
  <2> QED BY <1>1, <2>1, <2>2
<1> QED BY <1>2, <1>3

LEMMA SpentMore ==
  ASSUME NEW S, IsFiniteSet(S), \A c \in S : c.cost \in Nat,
         NEW x, x \notin S, x.cost \in Nat
  PROVE  Spent(S \cup {x}) = Spent(S) + x.cost
<1>1. IsFiniteSet(S \cup {x}) /\ (S \cup {x}) \ {x} = S /\ x \in S \cup {x}
  BY FS_AddElement
<1>2. Spent(S \cup {x}) = x.cost + Spent(S) /\ Spent(S) \in Nat
  BY <1>1, SpentFacts
<1> QED BY <1>2

LEMMA SpentMonotone ==
  ASSUME NEW S, IsFiniteSet(S), \A c \in S : c.cost \in Nat, NEW T \in SUBSET S
  PROVE  Spent(T) <= Spent(S)
<1> DEFINE Good == {X \in SUBSET S : T \subseteq X => Spent(T) <= Spent(X)}
<1>1. ASSUME NEW X \in SUBSET S PROVE IsFiniteSet(X) /\ Spent(X) \in Nat
  BY FS_Subset, SpentFacts
<1>2. {} \in Good
  BY <1>1
<1>3. ASSUME NEW X \in SUBSET S, X # {}, \A y \in X : X \ {y} \in Good
      PROVE  X \in Good
  <2>1. CASE T = X
    BY <1>1, <2>1
  <2>2. CASE T # X /\ T \subseteq X
    <3>1. PICK y \in X : y \notin T
      BY <2>2
    <3>2. Spent(T) <= Spent(X \ {y})
      BY <1>3, <2>2, <3>1
    <3>3. Spent(X) = y.cost + Spent(X \ {y}) /\ y.cost \in Nat
      BY <1>1, <3>1, SpentFacts
    <3>4. Spent(T) \in Nat /\ Spent(X) \in Nat /\ Spent(X \ {y}) \in Nat
      BY <1>1
    <3> QED BY <3>2, <3>3, <3>4
  <2> QED BY <2>1, <2>2
<1> HIDE DEF Good
<1>4. \A X \in SUBSET S : X \in Good
  BY <1>2, <1>3, SetInduction
<1> QED BY <1>4 DEF Good

\* A sequence of entries that stand for the charges of a set, one each.
LEMMA TotalIsSpent ==
  ASSUME NEW S, IsFiniteSet(S), \A c \in S : c.cost \in Nat,
         NEW q, IsFiniteSet(DOMAIN q),
         NEW f \in [DOMAIN q -> S],
         \A i, j \in DOMAIN q : f[i] = f[j] => i = j,
         \A c \in S : \E i \in DOMAIN q : f[i] = c,
         \A i \in DOMAIN q : q[i].cost = f[i].cost
  PROVE  TotalOf(q) = Spent(S)
<1> DEFINE Image(U) == {f[i] : i \in U}
           D == DOMAIN q
<1>1. PICK h : /\ Sums(h, [c \in S |-> c.cost], S)
               /\ \A T \in SUBSET S : Spent(T) = h[T]
  BY SpentSubsets
<1> DEFINE k == [U \in SUBSET D |-> h[Image(U)]]
<1>2. \A U \in SUBSET D : Image(U) \in SUBSET S
  OBVIOUS
<1>3. k \in [SUBSET D -> Nat] /\ k[{}] = 0
  <2>1. Image({}) = {}
    OBVIOUS
  <2> QED BY <1>1, <1>2, <2>1 DEF Sums
<1>4. ASSUME NEW T \in SUBSET D, NEW i \in D \ T
      PROVE  k[T \cup {i}] = q[i].cost + k[T]
  <2>1. Image(T \cup {i}) = Image(T) \cup {f[i]}
    OBVIOUS
  <2>2. f[i] \in S \ Image(T)
    OBVIOUS
  <2>3. h[Image(T) \cup {f[i]}] = f[i].cost + h[Image(T)]
    BY <1>1, <1>2, <2>2 DEF Sums
  <2>4. k[T \cup {i}] = h[Image(T \cup {i})] /\ k[T] = h[Image(T)]
    OBVIOUS
  <2> QED BY <2>1, <2>3, <2>4
<1>5. k[D] = h[S]
  <2>1. Image(D) = S
    OBVIOUS
  <2> QED BY <2>1
<1> HIDE DEF k
<1>6. Sums(k, [i \in DOMAIN q |-> q[i].cost], DOMAIN q)
  BY <1>3, <1>4 DEF Sums
<1>7. \A i \in DOMAIN q : q[i].cost \in Nat
  OBVIOUS
<1>8. TotalOf(q) = k[DOMAIN q]
  BY <1>6, <1>7, TotalSums
<1> QED BY <1>1, <1>5, <1>8
----------------------------------------------------------------------------
(* The enforcer's state against the history of charges.                    *)

\* The charges are numbered in the order of time.
LedgerInv ==
    /\ IsFiniteSet(charges) /\ now \in 0..MaxTime
    /\ \A c \in charges : /\ c.id \in Nat /\ c.id < Cardinality(charges)
                          /\ c.time \in 0..now /\ c.session \in Session /\ c.cost \in Cost
    /\ \A c, d \in charges : /\ c.id <= d.id => c.time <= d.time
                             /\ c.id = d.id => c = d

\* The entries of q stand for the last charges of C, and those before are too old
\* for the hour that ends at t.
LastOf(q, C, t) ==
    /\ q \in Seq([time : 0..MaxTime, cost : Cost]) /\ Len(q) <= Cardinality(C)
    /\ \A i \in 1..Len(q) : \E c \in C :
         c.id = Cardinality(C) - Len(q) + i - 1 /\ c.time = q[i].time /\ c.cost = q[i].cost
    /\ \A c \in C : c.id < Cardinality(C) - Len(q) => c.time < t - Hour

WindowInv ==
    /\ LastOf(hourlyCosts, charges, now)
    /\ \A i, j \in 1..Len(hourlyCosts) :
         i < j => hourlyCosts[j].time - hourlyCosts[i].time \in 0..Hour

OnDay(d, C) == {c \in C : Today(c.time) = d}
OfSession(s, C) == {c \in C : c.session = s}
SinceTime(t, C) == {c \in C : c.time >= t}

\* The daily counter is of the day of the last charge.
DayInv ==
    /\ dayStart \in Nat /\ dayStart <= Today(now)
    /\ \A c \in charges : Today(c.time) <= dayStart
    /\ dailyCost = Spent(OnDay(dayStart, charges))

SessionInv ==
    /\ sessionCosts \in [Session -> Nat]
    /\ \A s \in Session : sessionCosts[s] = Spent(OfSession(s, charges))

ProcInv ==
    /\ limits \in Limits
    /\ proc \in [pc : {"idle", "record", "budget", "spin", "done"}, session : Session,
                 cost : Cost \cup {0}, worst : LimitName \cup {NoLimit},
                 exceeded : BOOLEAN, alerts : SUBSET Alert]
    /\ proc.pc = "record" => proc.cost \in Cost

TotalsInv == LedgerInv /\ WindowInv /\ DayInv /\ SessionInv /\ ProcInv

Overspent == \E l \in LimitName : limits[l] > 0 /\ Due(l, proc.session, now) >= limits[l]

\* While the limits stay, a line that has been charged to a reached limit carries the
\* result that says so, and then the alert.
PauseInv ==
    /\ reloads \in Nat
    /\ reloads = 0 /\ Overspent =>
         /\ proc.pc = "budget" => proc.exceeded
         /\ proc.pc \in {"spin", "done"} => <<"pause", "budget_exceeded">> \in proc.alerts
    /\ proc.exceeded => proc.worst # NoLimit
----------------------------------------------------------------------------
(* What RecordCost computes.                                               *)

NewCharge == [id |-> Cardinality(charges), time |-> now,
              session |-> proc.session, cost |-> proc.cost]
Ledger == charges \cup {NewCharge}
Longer == Append(hourlyCosts, [time |-> now, cost |-> proc.cost])
Window == Trim(Longer)
Total == [l \in LimitName |->
            CASE l = "per_session" -> sessionCosts[proc.session] + proc.cost
              [] l = "per_hour"    -> TotalOf(Window)
              [] l = "per_day"     -> SpentToday(proc.cost)]

LEMMA RecordCostIs ==
  ASSUME RecordCost
  PROVE  /\ proc.pc = "record"
         /\ charges' = Ledger /\ hourlyCosts' = Window
         /\ sessionCosts' = [sessionCosts EXCEPT ![proc.session] = @ + proc.cost]
         /\ dailyCost' = SpentToday(proc.cost)
         /\ dayStart' = IF Today(now) > dayStart THEN Today(now) ELSE dayStart
         /\ proc' = [proc EXCEPT !.pc = "budget", !.worst = Worst(Total),
                       !.exceeded = Worst(Total) # NoLimit /\ Reached(Total, Worst(Total))]
         /\ UNCHANGED <<now, sessions, limits, warned, reload, reloads, told>>
  BY DEF RecordCost, Ledger, NewCharge, Window, Longer, Total

LEMMA DaysPass ==
  /\ \A t \in Nat : Today(t) \in Nat
  /\ \A t, u \in Nat : t <= u => Today(t) <= Today(u)
<1>1. Day \in Nat \ {0}
  BY BudgetAssumption
<1>2. ASSUME NEW t \in Nat PROVE Today(t) \in Nat /\ Today(t) * Day <= t /\ t < (Today(t) + 1) * Day
  BY <1>1, SMTT(30) DEF Today
<1>3. ASSUME NEW t \in Nat, NEW u \in Nat, t <= u PROVE Today(t) <= Today(u)
  <2> DEFINE a == Today(t)
             b == Today(u)
  <2>1. a \in Nat /\ b \in Nat /\ a * Day <= t /\ u < (b + 1) * Day
    BY <1>2
  <2> HIDE DEF a, b
  <2>2. a * Day < (b + 1) * Day
    BY <1>1, <1>3, <2>1
  <2>3. a < b + 1
    BY <1>1, <2>1, <2>2
  <2> QED BY <2>1, <2>3 DEF a, b
<1> QED BY <1>2, <1>3

LEMMA MinIsLeast ==
  ASSUME NEW S \in SUBSET Nat, S # {}
  PROVE  Min(S) \in S /\ \A i \in S : Min(S) <= i
<1> DEFINE R == OpToRel(<, Nat)
<1>1. IsWellFoundedOn(R, Nat)
  BY NatLessThanWellFounded
<1>2. \A x, y \in Nat : <<y, x>> \in R <=> y < x
  BY DEF OpToRel
<1> HIDE DEF R
<1>3. \E x \in S : \A y \in S : ~(<<y, x>> \in R)
  BY <1>1, WFMin
<1>4. \E x \in S : \A y \in S : x <= y
  <2>1. PICK x \in S : \A y \in S : ~(<<y, x>> \in R)
    BY <1>3
  <2>2. \A y \in S : x <= y
    <3> TAKE y \in S
    <3>1. x \in Nat /\ y \in Nat /\ ~(y < x)
      BY <1>2, <2>1
    <3> QED BY <3>1
  <2> QED BY <2>2
<1> QED BY <1>4 DEF Min

Entry == [time : 0..MaxTime, cost : Cost]

LEMMA TrimDropsTheOld ==
  ASSUME NEW q \in Seq(Entry), now \in 0..MaxTime, Len(q) > 0, q[Len(q)].time = now,
         \A i, j \in 1..Len(q) : i <= j => q[i].time <= q[j].time
  PROVE  \E k \in 1..Len(q) :
           /\ Trim(q) = SubSeq(q, k, Len(q))
           /\ \A i \in 1..Len(q) : i < k <=> q[i].time < now - Hour
<1> DEFINE young == {i \in DOMAIN q : q[i].time >= now - Hour}
           n == Len(q)
<1>1. n \in Nat /\ DOMAIN q = 1..n /\ n > 0
  OBVIOUS
<1>9. \A i \in 1..n : q[i] \in Entry
  OBVIOUS
<1>2. /\ \A i \in 1..n : q[i].time \in Nat
      /\ now \in Nat /\ Hour \in Nat /\ q[n].time = now
  BY <1>9, BudgetAssumption DEF Entry
<1>3. n \in young /\ young \subseteq Nat
  BY <1>1, <1>2
<1>4. Min(young) \in young /\ \A i \in young : Min(young) <= i
  BY <1>3, MinIsLeast
<1>5. Trim(q) = SubSeq(q, Min(young), n)
  BY <1>3 DEF Trim
<1>6. ASSUME NEW i \in 1..n PROVE i < Min(young) <=> q[i].time < now - Hour
  <2> DEFINE m == Min(young)
  <2>1. m \in 1..n /\ q[m].time >= now - Hour
    BY <1>1, <1>4
  <2>2. i < m => i \notin young
    <3>1. \A j \in young : m <= j
      BY <1>4
    <3> HIDE DEF m, young
    <3> QED BY <2>1, <3>1
  <2>3. i >= m => q[i].time >= q[m].time
    BY <2>1
  <2>4. i \in young <=> q[i].time >= now - Hour
    BY <1>1
  <2> HIDE DEF m, young
  <2> QED BY <1>2, <2>1, <2>2, <2>3, <2>4 DEF m
<1> HIDE DEF young
<1>7. Min(young) \in 1..n
  BY <1>1, <1>4 DEF young
<1> QED BY <1>5, <1>6, <1>7

----------------------------------------------------------------------------
(* RecordCost keeps the correspondence.                                    *)

LEMMA LedgerGrows ==
  ASSUME LedgerInv, ProcInv, proc.pc = "record"
  PROVE  /\ NewCharge \notin charges /\ IsFiniteSet(Ledger)
         /\ Cardinality(charges) \in Nat /\ Cardinality(Ledger) = Cardinality(charges) + 1
         /\ now \in Nat /\ proc.session \in Session /\ proc.cost \in Cost /\ proc.cost \in Nat
         /\ NewCharge.id = Cardinality(charges) /\ NewCharge.time = now
         /\ NewCharge.session = proc.session /\ NewCharge.cost = proc.cost
         /\ \A c \in Ledger : /\ c.id \in Nat /\ c.id < Cardinality(Ledger)
                              /\ c.time \in 0..now /\ c.session \in Session /\ c.cost \in Cost
         /\ \A c, d \in Ledger : /\ c.id <= d.id => c.time <= d.time
                                 /\ c.id = d.id => c = d
<1> DEFINE N == Cardinality(charges)
<1>1. IsFiniteSet(charges) /\ N \in Nat
  BY FS_CardinalityType DEF LedgerInv
<1>2. /\ now \in Nat /\ now \in 0..MaxTime
      /\ proc.session \in Session /\ proc.cost \in Cost /\ proc.cost \in Nat
  <2>1. proc.session \in Session /\ proc.cost \in Cost
    BY DEF ProcInv
  <2>2. now \in 0..MaxTime
    BY DEF LedgerInv
  <2>3. Cost \subseteq Nat /\ MaxTime \in Nat
    BY BudgetAssumption
  <2>4. proc.cost \in Nat
    BY <2>1, <2>3
  <2>5. now \in Nat
    BY <2>2, <2>3
  <2> QED BY <2>1, <2>2, <2>4, <2>5
<1>3. /\ NewCharge.id = N /\ NewCharge.time = now
      /\ NewCharge.session = proc.session /\ NewCharge.cost = proc.cost
  BY DEF NewCharge
<1>4. \A c \in charges : /\ c.id \in Nat /\ c.id < N
                         /\ c.time \in 0..now /\ c.session \in Session /\ c.cost \in Cost
  BY DEF LedgerInv
<1>5. \A c, d \in charges : (c.id <= d.id => c.time <= d.time) /\ (c.id = d.id => c = d)
  BY DEF LedgerInv
<1>6. NewCharge \notin charges
  BY <1>1, <1>3, <1>4
<1>7. IsFiniteSet(Ledger) /\ Cardinality(Ledger) = N + 1
  BY <1>1, <1>6, FS_AddElement DEF Ledger
<1> HIDE DEF N
<1>8. \A c \in Ledger : c \in charges \/ c = NewCharge
  BY DEF Ledger
<1>9. \A c \in Ledger : /\ c.id \in Nat /\ c.id < Cardinality(Ledger)
                        /\ c.time \in 0..now /\ c.session \in Session /\ c.cost \in Cost
  BY <1>1, <1>2, <1>3, <1>4, <1>7, <1>8
<1>10. \A c, d \in Ledger : (c.id <= d.id => c.time <= d.time) /\ (c.id = d.id => c = d)
  BY <1>1, <1>2, <1>3, <1>4, <1>5, <1>8
<1> QED BY <1>1, <1>2, <1>3, <1>6, <1>7, <1>9, <1>10 DEF N

\* The part of the history that a charge is added to, and those that it is not.
LEMMA PartsGrow ==
  ASSUME LedgerInv, ProcInv, proc.pc = "record", NEW P \in SUBSET charges
  PROVE  Spent(P) \in Nat /\ Spent(P \cup {NewCharge}) = Spent(P) + proc.cost
<1>1. IsFiniteSet(P) /\ \A c \in P : c.cost \in Nat
  BY FS_Subset, BudgetAssumption DEF LedgerInv
<1>2. NewCharge \notin P /\ NewCharge.cost = proc.cost /\ proc.cost \in Nat
  BY LedgerGrows
<1> QED BY <1>1, <1>2, SpentMore, SpentFacts

LEMMA SessionCharged ==
  ASSUME LedgerInv, ProcInv, SessionInv, proc.pc = "record"
  PROVE  /\ [sessionCosts EXCEPT ![proc.session] = @ + proc.cost] \in [Session -> Nat]
         /\ \A s \in Session :
              [sessionCosts EXCEPT ![proc.session] = @ + proc.cost][s]
                = Spent(OfSession(s, Ledger))
<1>1. /\ proc.session \in Session /\ proc.cost \in Nat /\ NewCharge.session = proc.session
  BY LedgerGrows
<1>2. ASSUME NEW s \in Session, s # proc.session
      PROVE  OfSession(s, Ledger) = OfSession(s, charges)
  BY <1>1, <1>2 DEF OfSession, Ledger
<1>3. OfSession(proc.session, Ledger) = OfSession(proc.session, charges) \cup {NewCharge}
  BY <1>1 DEF OfSession, Ledger
<1>4. Spent(OfSession(proc.session, Ledger))
        = Spent(OfSession(proc.session, charges)) + proc.cost
  BY <1>3, PartsGrow DEF OfSession
<1> QED BY <1>1, <1>2, <1>4 DEF SessionInv

LEMMA DayCharged ==
  ASSUME LedgerInv, ProcInv, DayInv, proc.pc = "record",
         NEW d, d = (IF Today(now) > dayStart THEN Today(now) ELSE dayStart)
  PROVE  /\ d = Today(now) /\ d \in Nat
         /\ \A c \in Ledger : Today(c.time) <= d
         /\ SpentToday(proc.cost) = Spent(OnDay(d, Ledger))
<1>1. now \in Nat /\ NewCharge.time = now /\ Today(now) \in Nat
  BY LedgerGrows, DaysPass
<1>2. d = Today(now) /\ dayStart <= d /\ dayStart \in Nat
  BY <1>1 DEF DayInv
<1>3. \A c \in Ledger : Today(c.time) <= d /\ Today(c.time) \in Nat
  BY <1>1, LedgerGrows, DaysPass DEF DayInv
<1>4. OnDay(d, Ledger) = OnDay(d, charges) \cup {NewCharge}
  BY <1>1, <1>2 DEF OnDay, Ledger
<1>5. Spent(OnDay(d, Ledger)) = Spent(OnDay(d, charges)) + proc.cost
  BY <1>4, PartsGrow DEF OnDay
<1>6. CASE Today(now) > dayStart
  <2>1. OnDay(d, charges) = {}
    BY <1>1, <1>2, <1>6 DEF OnDay, DayInv
  <2>2. Spent({}) = 0
    BY FS_EmptySet, SpentFacts
  <2>3. SpentToday(proc.cost) = 0 + proc.cost
    BY <1>6 DEF SpentToday
  <2>4. Spent(OnDay(d, Ledger)) = 0 + proc.cost
    BY <1>5, <2>1, <2>2
  <2> QED BY <1>1, <1>2, <1>3, <2>3, <2>4
<1>7. CASE ~(Today(now) > dayStart)
  <2>1. dayStart = d /\ SpentToday(proc.cost) = dailyCost + proc.cost
    BY <1>1, <1>2, <1>7 DEF SpentToday
  <2> QED BY <1>2, <1>3, <1>5, <2>1 DEF DayInv
<1> QED BY <1>6, <1>7

LEMMA WindowIs ==
  ASSUME NEW q \in Seq(Entry)
  PROVE  /\ Len(q) \in Nat /\ DOMAIN q = 1..Len(q) /\ IsFiniteSet(DOMAIN q)
         /\ \A i \in 1..Len(q) : /\ q[i] \in Entry /\ q[i].time \in 0..MaxTime
                                 /\ q[i].time \in Nat /\ q[i].cost \in Cost /\ q[i].cost \in Nat
<1>1. /\ Len(q) \in Nat /\ DOMAIN q = 1..Len(q)
      /\ \A i \in 1..Len(q) : q[i] \in Entry
  OBVIOUS
<1>2. IsFiniteSet(1..Len(q))
  BY <1>1, FS_Interval
<1>3. Cost \subseteq Nat /\ MaxTime \in Nat
  BY BudgetAssumption
<1>4. \A e \in Entry : e.time \in 0..MaxTime /\ e.cost \in Cost
  BY DEF Entry
<1>5. \A i \in 1..Len(q) : /\ q[i] \in Entry /\ q[i].time \in 0..MaxTime
                           /\ q[i].time \in Nat /\ q[i].cost \in Cost /\ q[i].cost \in Nat
  <2> TAKE i \in 1..Len(q)
  <2>1. q[i] \in Entry /\ q[i].time \in 0..MaxTime /\ q[i].cost \in Cost
    BY <1>1, <1>4
  <2>2. q[i].time \in Nat
    BY <1>3, <2>1
  <2>3. q[i].cost \in Nat
    BY <1>3, <2>1
  <2> QED BY <2>1, <2>2, <2>3
<1> QED BY <1>1, <1>2, <1>5

\* The entries, with the new one, in the order of time.
LEMMA LongerIs ==
  ASSUME LedgerInv, ProcInv, WindowInv, proc.pc = "record"
  PROVE  /\ Longer \in Seq(Entry) /\ Len(Longer) = Len(hourlyCosts) + 1
         /\ Longer[Len(Longer)].time = now
         /\ \A i, j \in 1..Len(Longer) : i <= j => Longer[i].time <= Longer[j].time
         /\ LastOf(Longer, Ledger, now)
<1> DEFINE q == hourlyCosts
           e == [time |-> now, cost |-> proc.cost]
           n == Len(q)
           N == Cardinality(charges)
<1>1. /\ q \in Seq(Entry) /\ n \in Nat /\ n <= N
      /\ \A i \in 1..n : \E c \in charges :
           c.id = N - n + i - 1 /\ c.time = q[i].time /\ c.cost = q[i].cost
      /\ \A c \in charges : c.id < N - n => c.time < now - Hour
  BY WindowIs DEF WindowInv, LastOf, Entry
<1>2. /\ N \in Nat /\ Cardinality(Ledger) = N + 1 /\ now \in Nat /\ now \in 0..MaxTime
      /\ proc.cost \in Cost
      /\ NewCharge.id = N /\ NewCharge.time = now /\ NewCharge.cost = proc.cost
  BY LedgerGrows DEF LedgerInv
<1>3. e \in Entry /\ e.time = now /\ e.cost = proc.cost
  BY <1>2 DEF Entry
<1>4. Longer = Append(q, e)
  BY DEF Longer
<1> HIDE DEF e, q, n, N
<1>5. /\ Longer \in Seq(Entry) /\ Len(Longer) = n + 1
      /\ \A i \in 1..n : Longer[i] = q[i]
      /\ Longer[n + 1] = e
  BY <1>1, <1>3, <1>4 DEF n
<1>6. \A i \in 1..(n + 1) : \E c \in Ledger :
        c.id = (N + 1) - (n + 1) + i - 1 /\ c.time = Longer[i].time /\ c.cost = Longer[i].cost
  <2> TAKE i \in 1..(n + 1)
  <2>1. CASE i = n + 1
    <3>1. NewCharge \in Ledger /\ NewCharge.id = (N + 1) - (n + 1) + i - 1
      BY <1>1, <1>2, <2>1 DEF Ledger
    <3> QED BY <1>2, <1>3, <1>5, <2>1, <3>1
  <2>2. CASE i # n + 1
    <3>1. i \in 1..n
      BY <1>1, <2>2
    <3>2. PICK c \in charges :
            c.id = N - n + i - 1 /\ c.time = q[i].time /\ c.cost = q[i].cost
      BY <1>1, <3>1
    <3>3. c.id = (N + 1) - (n + 1) + i - 1
      BY <1>1, <1>2, <3>2
    <3> QED BY <1>5, <3>1, <3>2, <3>3 DEF Ledger
  <2> QED BY <2>1, <2>2
<1>7. \A i, j \in 1..(n + 1) : i <= j => Longer[i].time <= Longer[j].time
  <2> TAKE i, j \in 1..(n + 1)
  <2> SUFFICES ASSUME i <= j PROVE Longer[i].time <= Longer[j].time
    OBVIOUS
  <2>1. PICK c \in Ledger : c.id = (N + 1) - (n + 1) + i - 1 /\ c.time = Longer[i].time
    BY <1>6
  <2>2. PICK d \in Ledger : d.id = (N + 1) - (n + 1) + j - 1 /\ d.time = Longer[j].time
    BY <1>6
  <2>3. c.id <= d.id
    BY <1>1, <1>2, <2>1, <2>2
  <2>4. c.time <= d.time
    BY <2>3, LedgerGrows
  <2> QED BY <2>1, <2>2, <2>4
<1>8. \A c \in Ledger : c.id < (N + 1) - (n + 1) => c.time < now - Hour
  <2> TAKE c \in Ledger
  <2>1. (N + 1) - (n + 1) = N - n /\ N - n <= N
    BY <1>1, <1>2
  <2>2. CASE c = NewCharge
    BY <1>2, <2>1, <2>2, <1>1
  <2>3. CASE c \in charges
    BY <1>1, <2>1, <2>3
  <2> QED BY <2>2, <2>3 DEF Ledger
<1>9. LastOf(Longer, Ledger, now)
  <2>1. Len(Longer) <= Cardinality(Ledger)
    BY <1>1, <1>2, <1>5
  <2> QED BY <1>2, <1>5, <1>6, <1>8, <2>1 DEF LastOf, Entry
<1> QED BY <1>3, <1>5, <1>7, <1>9 DEF n, q

\* After trimming, the window is the charges of the last hour and no others.
LEMMA WindowCharged ==
  ASSUME LedgerInv, ProcInv, WindowInv, proc.pc = "record"
  PROVE  /\ Window \in Seq(Entry) /\ LastOf(Window, Ledger, now)
         /\ \A i, j \in 1..Len(Window) :
              i < j => Window[j].time - Window[i].time \in 0..Hour
         /\ TotalOf(Window) = Spent(SinceTime(now - Hour, Ledger))
<1> DEFINE q == Longer
           n == Len(q)
           N == Cardinality(Ledger)
           w == Window
<1>1. /\ q \in Seq(Entry) /\ n \in Nat /\ n > 0 /\ q[n].time = now
      /\ \A i, j \in 1..n : i <= j => q[i].time <= q[j].time
      /\ n <= N
      /\ \A i \in 1..n : \E c \in Ledger :
           c.id = N - n + i - 1 /\ c.time = q[i].time /\ c.cost = q[i].cost
      /\ \A c \in Ledger : c.id < N - n => c.time < now - Hour
  <2>1. Len(hourlyCosts) \in Nat
    BY WindowIs DEF WindowInv, LastOf, Entry
  <2> QED BY <2>1, LongerIs DEF LastOf
<1>2. /\ N \in Nat /\ IsFiniteSet(Ledger) /\ now \in Nat /\ now \in 0..MaxTime
      /\ \A c \in Ledger : /\ c.id \in Nat /\ c.id < N /\ c.time \in 0..now /\ c.cost \in Cost
      /\ \A c, d \in Ledger : c.id = d.id => c = d
  BY LedgerGrows DEF LedgerInv
<1>h. Hour \in Nat /\ Cost \subseteq Nat
  BY BudgetAssumption
<1>3. PICK k \in 1..n :
        /\ Trim(q) = SubSeq(q, k, n)
        /\ \A i \in 1..n : i < k <=> q[i].time < now - Hour
  BY <1>1, <1>2, TrimDropsTheOld
<1> DEFINE m == n - k + 1
<1>4. w = SubSeq(q, k, n)
  BY <1>3 DEF Window
<1> HIDE DEF q, w, n, N
<1>5. /\ w \in Seq(Entry) /\ Len(w) = m /\ m \in Nat
      /\ \A i \in 1..m : k + i - 1 \in 1..n /\ w[i] = q[k + i - 1]
  BY <1>1, <1>3, <1>4 DEF n
<1> HIDE DEF m
<1>m. m = n - k + 1 /\ k \in Nat /\ 1 <= k /\ k <= n
  BY <1>1, <1>3 DEF m
<1>6. \A i \in 1..m : \E c \in Ledger :
        c.id = N - m + i - 1 /\ c.time = w[i].time /\ c.cost = w[i].cost
  <2> TAKE i \in 1..m
  <2>1. k + i - 1 \in 1..n /\ w[i] = q[k + i - 1]
    BY <1>5
  <2>2. PICK c \in Ledger : /\ c.id = N - n + (k + i - 1) - 1
                            /\ c.time = q[k + i - 1].time /\ c.cost = q[k + i - 1].cost
    BY <1>1, <2>1
  <2>3. c.id = N - m + i - 1
    BY <1>1, <1>2, <1>5, <1>m, <2>2
  <2> QED BY <2>1, <2>2, <2>3
<1>7. \A c \in Ledger : c.id < N - m <=> c.time < now - Hour
  <2> TAKE c \in Ledger
  <2>1. CASE c.id < N - n
    <3>1. N - n <= N - m
      BY <1>1, <1>2, <1>5, <1>m
    <3>2. c.id < N - m
      BY <1>1, <1>2, <1>5, <2>1, <3>1
    <3> QED BY <1>1, <2>1, <3>2
  <2>2. CASE ~(c.id < N - n)
    <3> DEFINE i == c.id - (N - n) + 1
    <3>1. i \in 1..n /\ c.id = N - n + i - 1
      BY <1>1, <1>2, <2>2
    <3> HIDE DEF i
    <3>2. PICK d \in Ledger : d.id = N - n + i - 1 /\ d.time = q[i].time
      BY <1>1, <3>1
    <3>3. c.time = q[i].time
      BY <1>2, <3>1, <3>2
    <3>4. i < k <=> c.time < now - Hour
      BY <1>3, <3>1, <3>3
    <3>5. i < k <=> c.id < N - m
      BY <1>1, <1>2, <1>m, <3>1
    <3> QED BY <3>4, <3>5
  <2> QED BY <2>1, <2>2
<1>8. LastOf(w, Ledger, now)
  <2>1. Len(w) <= N
    BY <1>1, <1>2, <1>5, <1>m
  <2> QED BY <1>5, <1>6, <1>7, <2>1 DEF LastOf, Entry, N
<1>9. \A i, j \in 1..m : i < j => w[j].time - w[i].time \in 0..Hour
  <2> TAKE i, j \in 1..m
  <2> SUFFICES ASSUME i < j PROVE w[j].time - w[i].time \in 0..Hour
    OBVIOUS
  <2>1. /\ k + i - 1 \in 1..n /\ w[i] = q[k + i - 1]
        /\ k + j - 1 \in 1..n /\ w[j] = q[k + j - 1]
        /\ k + i - 1 <= k + j - 1 /\ ~(k + i - 1 < k)
    BY <1>5, <1>m
  <2>2. w[i].time <= w[j].time /\ ~(w[i].time < now - Hour)
    BY <1>1, <1>3, <2>1
  <2>3. PICK c \in Ledger : c.time = w[j].time
    BY <1>6
  <2>4. w[j].time <= now /\ w[j].time \in Nat
    BY <1>2, <2>3
  <2>5. w[i].time \in Nat
    BY <1>5, WindowIs
  <2> QED BY <1>2, <1>h, <2>2, <2>4, <2>5
<1> DEFINE S == SinceTime(now - Hour, Ledger)
<1>10. TotalOf(w) = Spent(S)
  <2> DEFINE f == [i \in DOMAIN w |-> CHOOSE c \in Ledger : c.id = N - m + i - 1]
  <2>1. DOMAIN w = 1..m /\ IsFiniteSet(DOMAIN w)
    BY <1>5, WindowIs
  <2>2. ASSUME NEW i \in 1..m
        PROVE  /\ f[i] \in Ledger /\ f[i].id = N - m + i - 1
               /\ f[i].time = w[i].time /\ f[i].cost = w[i].cost
    <3>1. PICK c \in Ledger : c.id = N - m + i - 1 /\ c.time = w[i].time /\ c.cost = w[i].cost
      BY <1>6
    <3>2. f[i] = CHOOSE d \in Ledger : d.id = N - m + i - 1
      BY <2>1
    <3>3. f[i] \in Ledger /\ f[i].id = N - m + i - 1
      BY <3>1, <3>2
    <3>4. f[i] = c
      BY <1>2, <3>1, <3>3
    <3> QED BY <3>1, <3>4
  <2>3. S \subseteq Ledger /\ IsFiniteSet(S) /\ \A c \in S : c.cost \in Nat
    BY <1>2, <1>h, FS_Subset DEF SinceTime
  <2>4. \A c \in Ledger : c \in S <=> ~(c.id < N - m)
    <3>1. \A c \in Ledger : c.time \in Nat
      BY <1>2
    <3> QED BY <1>2, <1>7, <1>h, <3>1 DEF SinceTime
  <2>5. ASSUME NEW i \in 1..m PROVE f[i] \in S
    <3> HIDE DEF f
    <3>1. ~(f[i].id < N - m)
      BY <1>2, <1>5, <2>2
    <3> QED BY <2>2, <2>4, <3>1
  <2>6. f \in [DOMAIN w -> S]
    BY <2>1, <2>5
  <2>7. \A i, j \in DOMAIN w : f[i] = f[j] => i = j
    <3> HIDE DEF f
    <3>1. ASSUME NEW i \in 1..m, NEW j \in 1..m, f[i] = f[j] PROVE i = j
      <4>1. N - m + i - 1 = N - m + j - 1
        BY <2>2, <3>1
      <4> QED BY <1>2, <1>5, <4>1
    <3> QED BY <2>1, <3>1
  <2>8. \A c \in S : \E i \in DOMAIN w : f[i] = c
    <3> TAKE c \in S
    <3> DEFINE i == c.id - (N - m) + 1
    <3>1. c \in Ledger /\ ~(c.id < N - m) /\ c.id \in Nat /\ c.id < N
      BY <1>2, <2>3, <2>4
    <3>2. i \in 1..m /\ c.id = N - m + i - 1
      BY <1>2, <1>5, <3>1
    <3> HIDE DEF i, f
    <3>3. f[i] = c
      BY <1>2, <2>2, <3>1, <3>2
    <3> QED BY <2>1, <3>2, <3>3
  <2>9. \A i \in DOMAIN w : w[i].cost = f[i].cost
    BY <2>1, <2>2
  <2> HIDE DEF f, S
  <2> QED BY <2>1, <2>3, <2>6, <2>7, <2>8, <2>9, TotalIsSpent
<1> QED BY <1>5, <1>8, <1>9, <1>10 DEF w

----------------------------------------------------------------------------
(* The correspondence is kept by every step.                               *)

DueOf(l, s, t, C) ==
    CASE l = "per_session" -> Spent(OfSession(s, C))
      [] l = "per_hour"    -> Spent(SinceTime(t - Hour, C))
      [] l = "per_day"     -> Spent(OnDay(Today(t), C))

LEMMA DueIsOf ==
  \A l \in LimitName, s \in Session : Due(l, s, now) = DueOf(l, s, now, charges)
  BY DEF Due, DueOf, OfSession, SinceTime, OnDay, LimitName

\* RecordCost's three totals are what the history of charges says, with the new one.
LEMMA TotalIsDue ==
  ASSUME TotalsInv, proc.pc = "record"
  PROVE  /\ Total \in [LimitName -> Nat]
         /\ \A l \in LimitName : Total[l] = DueOf(l, proc.session, now, Ledger)
<1>1. /\ IsFiniteSet(Ledger) /\ proc.session \in Session
      /\ \A c \in Ledger : c.cost \in Nat
  BY LedgerGrows, BudgetAssumption DEF TotalsInv
<1>2. sessionCosts[proc.session] + proc.cost = Spent(OfSession(proc.session, Ledger))
  BY <1>1, SessionCharged DEF TotalsInv, SessionInv
<1>3. TotalOf(Window) = Spent(SinceTime(now - Hour, Ledger))
  BY WindowCharged DEF TotalsInv
<1>4. SpentToday(proc.cost) = Spent(OnDay(Today(now), Ledger))
  BY DayCharged DEF TotalsInv
<1>5. ASSUME NEW P \in SUBSET Ledger PROVE Spent(P) \in Nat
  BY <1>1, FS_Subset, SpentFacts
<1>6. \A l \in LimitName : DueOf(l, proc.session, now, Ledger) \in Nat
  <2>1. /\ OfSession(proc.session, Ledger) \in SUBSET Ledger
        /\ SinceTime(now - Hour, Ledger) \in SUBSET Ledger
        /\ OnDay(Today(now), Ledger) \in SUBSET Ledger
    BY DEF OfSession, SinceTime, OnDay
  <2> QED BY <1>5, <2>1 DEF DueOf, LimitName
<1>7. \A l \in LimitName : Total[l] = DueOf(l, proc.session, now, Ledger)
  BY <1>2, <1>3, <1>4 DEF Total, DueOf, LimitName
<1>8. Total \in [LimitName -> Nat]
  <2>1. /\ sessionCosts[proc.session] + proc.cost \in Nat
        /\ TotalOf(Window) \in Nat /\ SpentToday(proc.cost) \in Nat
    BY <1>2, <1>3, <1>4, <1>5 DEF OfSession, SinceTime, OnDay
  <2> QED BY <2>1 DEF Total, LimitName
<1> QED BY <1>7, <1>8

LEMMA WorstIsALimit ==
  ASSUME limits \in Limits, NEW total \in [LimitName -> Nat]
  PROVE  /\ Worst(total) \in LimitName \cup {NoLimit}
         /\ Worst(total) # NoLimit /\ Reached(total, Worst(total))
              <=> \E l \in LimitName : Reached(total, l)
<1>1. limits \in [LimitName -> Nat]
  BY BudgetAssumption
<1>2. CASE Found(total) = {}
  BY <1>1, <1>2, ExceededIsNotHidden DEF Worst
<1>3. CASE Found(total) # {}
  BY <1>1, <1>3, ExceededIsNotHidden, WorstExists, FoundHaveLimits
<1> QED BY <1>2, <1>3

LEMMA InitTotals == Init => TotalsInv
<1> SUFFICES ASSUME Init PROVE TotalsInv
  OBVIOUS
<1>1. /\ now = 0 /\ dayStart = 0 /\ dailyCost = 0 /\ charges = {} /\ hourlyCosts = <<>>
      /\ sessionCosts = [s \in Session |-> 0] /\ limits \in Limits /\ proc = Idle
  BY DEF Init
<1>2. IsFiniteSet(charges) /\ Cardinality(charges) = 0 /\ Spent({}) = 0
  BY <1>1, FS_EmptySet, SpentFacts
<1>3. LedgerInv
  BY <1>1, <1>2, BudgetAssumption DEF LedgerInv
<1>4. WindowInv
  BY <1>1, <1>2 DEF WindowInv, LastOf
<1>5. DayInv
  BY <1>1, <1>2, DaysPass DEF DayInv, OnDay
<1>6. SessionInv
  BY <1>1, <1>2 DEF SessionInv, OfSession
<1>7. ProcInv
  <2>1. (CHOOSE s \in Session : TRUE) \in Session
    BY BudgetAssumption
  <2> QED BY <1>1, <2>1 DEF ProcInv, Idle
<1> QED BY <1>3, <1>4, <1>5, <1>6, <1>7 DEF TotalsInv

LEMMA RecordCostKeepsTotals ==
  ASSUME TotalsInv, RecordCost
  PROVE  TotalsInv'
<1>1. /\ proc.pc = "record"
      /\ charges' = Ledger /\ hourlyCosts' = Window
      /\ sessionCosts' = [sessionCosts EXCEPT ![proc.session] = @ + proc.cost]
      /\ dailyCost' = SpentToday(proc.cost)
      /\ dayStart' = IF Today(now) > dayStart THEN Today(now) ELSE dayStart
      /\ proc' = [proc EXCEPT !.pc = "budget", !.worst = Worst(Total),
                    !.exceeded = Worst(Total) # NoLimit /\ Reached(Total, Worst(Total))]
      /\ now' = now /\ limits' = limits
  BY RecordCostIs
<1>2. LedgerInv /\ WindowInv /\ DayInv /\ SessionInv /\ ProcInv
  BY DEF TotalsInv
<1>3. LedgerInv'
  BY <1>1, <1>2, LedgerGrows DEF LedgerInv
<1>4. WindowInv'
  BY <1>1, <1>2, WindowCharged DEF WindowInv
<1>5. DayInv'
  <2>1. dayStart' = Today(now)
    BY <1>1, <1>2, DayCharged
  <2>2. /\ dayStart' \in Nat /\ \A c \in Ledger : Today(c.time) <= dayStart'
        /\ SpentToday(proc.cost) = Spent(OnDay(dayStart', Ledger))
    BY <1>1, <1>2, DayCharged
  <2>3. dayStart' \in Nat /\ dayStart' <= Today(now)'
    BY <1>1, <2>1, <2>2
  <2>4. \A c \in charges' : Today(c.time)' <= dayStart'
    BY <1>1, <2>2 DEF Today
  <2>5. dailyCost' = Spent(OnDay(dayStart, charges))'
    BY <1>1, <2>2 DEF OnDay, Today
  <2> QED BY <2>3, <2>4, <2>5 DEF DayInv
<1>6. SessionInv'
  BY <1>1, <1>2, SessionCharged DEF SessionInv, OfSession
<1>7. ProcInv'
  <2>1. Worst(Total) \in LimitName \cup {NoLimit}
    BY <1>1, <1>2, TotalIsDue, WorstIsALimit DEF ProcInv
  <2> QED BY <1>1, <1>2, <2>1 DEF ProcInv
<1> QED BY <1>3, <1>4, <1>5, <1>6, <1>7 DEF TotalsInv

LEMMA ProcStepKeepsTotals ==
  ASSUME TotalsInv, ProcInv', UNCHANGED <<now, charges, hourlyCosts, sessionCosts,
                                          dailyCost, dayStart>>
  PROVE  TotalsInv'
<1>1. LedgerInv'
  BY DEF TotalsInv, LedgerInv
<1>2. WindowInv'
  BY DEF TotalsInv, WindowInv
<1>3. DayInv'
  BY DEF TotalsInv, DayInv
<1>4. SessionInv'
  BY DEF TotalsInv, SessionInv
<1> QED BY <1>1, <1>2, <1>3, <1>4 DEF TotalsInv

LEMMA TickKeepsTotals ==
  ASSUME TotalsInv, Tick
  PROVE  TotalsInv'
<1>1. /\ now < MaxTime /\ now' = now + 1
      /\ UNCHANGED <<charges, hourlyCosts, sessionCosts, dailyCost, dayStart, limits, proc>>
  BY DEF Tick, enforcer, history
<1>2. now \in 0..MaxTime /\ now \in Nat /\ MaxTime \in Nat /\ Hour \in Nat
  BY BudgetAssumption DEF TotalsInv, LedgerInv
<1>3. \A c \in charges : c.time \in 0..now /\ c.time \in 0..(now + 1)
  BY <1>2 DEF TotalsInv, LedgerInv
<1>4. LedgerInv'
  BY <1>1, <1>2, <1>3 DEF TotalsInv, LedgerInv
<1>5. WindowInv'
  <2>1. \A c \in charges : c.time < now - Hour => c.time < (now + 1) - Hour
    BY <1>2, <1>3
  <2> QED BY <1>1, <2>1 DEF TotalsInv, WindowInv, LastOf
<1>6. DayInv'
  <2>1. Today(now) <= Today(now + 1) /\ Today(now) \in Nat /\ Today(now + 1) \in Nat
    BY <1>2, DaysPass
  <2>2. dayStart \in Nat /\ dayStart <= Today(now + 1)
    BY <2>1 DEF TotalsInv, DayInv
  <2> QED BY <1>1, <2>2 DEF TotalsInv, DayInv, Today, OnDay
<1>7. SessionInv'
  BY <1>1 DEF TotalsInv, SessionInv
<1>8. ProcInv'
  BY <1>1 DEF TotalsInv, ProcInv
<1> QED BY <1>4, <1>5, <1>6, <1>7, <1>8 DEF TotalsInv

LEMMA StepKeepsTotals ==
  ASSUME TotalsInv, [Next]_vars
  PROVE  TotalsInv'
<1>p. ProcInv
  BY DEF TotalsInv
<1>1. ASSUME NEW s \in Session, NEW c \in Cost, ProcessLine(s, c) PROVE TotalsInv'
  <2>1. /\ proc' = [Idle EXCEPT !.pc = "record", !.session = s, !.cost = c]
        /\ UNCHANGED <<now, charges, hourlyCosts, sessionCosts, dailyCost, dayStart, limits>>
    BY <1>1 DEF ProcessLine, enforcer, history
  <2>2. ProcInv'
    BY <1>p, <2>1 DEF ProcInv, Idle
  <2> QED BY <2>1, <2>2, ProcStepKeepsTotals
<1>2. CASE RecordCost
  BY <1>2, RecordCostKeepsTotals
<1>3. CASE NothingToReport \/ BudgetExceeded \/ BudgetWarning
  <2>1. UNCHANGED <<now, charges, hourlyCosts, sessionCosts, dailyCost, dayStart, limits>>
    BY <1>3 DEF NothingToReport, BudgetExceeded, BudgetWarning, enforcer
  <2>2. <<"pause", "budget_exceeded">> \in Alert /\ <<"warn", "budget_warning">> \in Alert
    BY DEF Alert
  <2>3. \/ proc' = [proc EXCEPT !.pc = "spin"]
        \/ \E a \in Alert : proc' = [proc EXCEPT !.pc = "spin", !.alerts = {a}]
    BY <1>3, <2>2 DEF NothingToReport, BudgetExceeded, BudgetWarning, Pass, Pause, Warn
  <2>4. ProcInv'
    <3>1. CASE proc' = [proc EXCEPT !.pc = "spin"]
      BY <1>p, <2>1, <3>1 DEF ProcInv
    <3>2. ASSUME NEW a \in Alert, proc' = [proc EXCEPT !.pc = "spin", !.alerts = {a}]
          PROVE  ProcInv'
      <4>1. {a} \in SUBSET Alert
        OBVIOUS
      <4> QED BY <1>p, <2>1, <3>2, <4>1 DEF ProcInv
    <3> QED BY <2>3, <3>1, <3>2
  <2> QED BY <2>1, <2>4, ProcStepKeepsTotals
<1>4. ASSUME NEW spinning \in BOOLEAN, SpinCheck(spinning) PROVE TotalsInv'
  <2>1. /\ \E A \in SUBSET Alert : proc' = [proc EXCEPT !.pc = "done", !.alerts = A]
        /\ UNCHANGED <<now, charges, hourlyCosts, sessionCosts, dailyCost, dayStart, limits>>
    <3>1. <<"pause", "spin_detected">> \in Alert /\ proc.alerts \in SUBSET Alert
      BY <1>p DEF Alert, ProcInv
    <3> QED BY <1>4, <3>1 DEF SpinCheck, enforcer, history
  <2>2. ProcInv'
    BY <1>p, <2>1 DEF ProcInv
  <2> QED BY <2>1, <2>2, ProcStepKeepsTotals
<1>5. CASE ProcessReturn
  <2>1. /\ proc' = Idle
        /\ UNCHANGED <<now, charges, hourlyCosts, sessionCosts, dailyCost, dayStart, limits>>
    BY <1>5 DEF ProcessReturn, enforcer, history
  <2>2. (CHOOSE s \in Session : TRUE) \in Session
    BY BudgetAssumption
  <2>3. ProcInv'
    BY <1>p, <2>1, <2>2 DEF ProcInv, Idle
  <2> QED BY <2>1, <2>3, ProcStepKeepsTotals
<1>6. ASSUME NEW new \in Limits, UpdateLimits(new) PROVE TotalsInv'
  <2>1. /\ limits' = new
        /\ UNCHANGED <<now, charges, hourlyCosts, sessionCosts, dailyCost, dayStart, proc>>
    BY <1>6 DEF UpdateLimits, history
  <2>2. ProcInv'
    BY <1>p, <2>1 DEF ProcInv
  <2> QED BY <2>1, <2>2, ProcStepKeepsTotals
<1>7. CASE ForgetWarnings \/ UNCHANGED vars
  <2>1. UNCHANGED <<now, charges, hourlyCosts, sessionCosts, dailyCost, dayStart, limits, proc>>
    BY <1>7 DEF ForgetWarnings, vars, enforcer, history
  <2>2. ProcInv'
    BY <1>p, <2>1 DEF ProcInv
  <2> QED BY <2>1, <2>2, ProcStepKeepsTotals
<1>8. CASE Tick
  BY <1>8, TickKeepsTotals
<1> QED BY <1>1, <1>2, <1>3, <1>4, <1>5, <1>6, <1>7, <1>8 DEF Next

LEMMA TotalsAlways == Spec => []TotalsInv
  BY InitTotals, StepKeepsTotals, PTL DEF Spec

----------------------------------------------------------------------------
(* What the correspondence is for.                                         *)

\* The analyzer's and the enforcer's total of a session are the history of its charges,
\* whatever is trimmed, reset at midnight or reloaded in between (Process, RecordCost).
THEOREM TotalsAreTheHistory == Spec => []TotalsAgree
<1>1. TotalsInv /\ Aligned => TotalsAgree
  BY DEF TotalsInv, SessionInv, Aligned, TotalsAgree, Due, OfSession
<1> QED BY TotalsAlways, RunningTotalsAgree, <1>1, PTL

\* RecordCost reports an exceeded limit if and only if the history of charges, with the
\* one just made, reaches a limit in force: the hourly window loses no charge that is
\* less than an hour old and keeps none that is older, and midnight resets the daily
\* counter exactly (RecordCost, trimHourly, check).
THEOREM OverspendIsAlwaysSeen == Spec => OverspendIsSeen
<1> DEFINE Seen == proc'.exceeded <=>
                     \E l \in LimitName : limits[l] > 0 /\ Due(l, proc.session, now)' >= limits[l]
<1>1. ASSUME TotalsInv, [Next]_vars, proc.pc = "record", proc'.pc = "budget" PROVE Seen
  <2>1. CASE RecordCost
    <3>1. /\ charges' = Ledger /\ now' = now
          /\ proc' = [proc EXCEPT !.pc = "budget", !.worst = Worst(Total),
                        !.exceeded = Worst(Total) # NoLimit /\ Reached(Total, Worst(Total))]
      BY <2>1, RecordCostIs
    <3>2. DOMAIN proc = {"pc", "session", "cost", "worst", "exceeded", "alerts"}
      BY <1>1 DEF TotalsInv, ProcInv
    <3>3. /\ proc'.session = proc.session
          /\ proc'.exceeded = (Worst(Total) # NoLimit /\ Reached(Total, Worst(Total)))
      BY <3>1, <3>2
    <3>4. \A l \in LimitName : Due(l, proc.session, now)' = DueOf(l, proc.session, now, Ledger)
      BY <3>1, <3>3 DEF Due, DueOf, OfSession, SinceTime, OnDay, LimitName, Today
    <3>5. \A l \in LimitName : Total[l] = DueOf(l, proc.session, now, Ledger)
      BY <1>1, TotalIsDue
    <3>6. proc'.exceeded <=> \E l \in LimitName : Reached(Total, l)
      BY <1>1, <3>3, TotalIsDue, WorstIsALimit DEF TotalsInv, ProcInv
    <3> QED BY <3>4, <3>5, <3>6 DEF Reached
  <2>2. CASE ~RecordCost
    <3>1. \/ proc.pc # "record" \/ proc' = proc
      BY <1>1, <2>2 DEF Next, ProcessLine, NothingToReport, BudgetExceeded, BudgetWarning,
           SpinCheck, ProcessReturn, UpdateLimits, ForgetWarnings, Tick, vars
    <3> QED BY <1>1, <3>1
  <2> QED BY <2>1, <2>2
<1>2. TotalsInv /\ [Next]_vars =>
        [proc.pc = "record" /\ proc'.pc = "budget" => Seen]_vars
  BY <1>1
<1> QED BY TotalsAlways, <1>2, PTL DEF Spec, OverspendIsSeen

\* Time only takes charges away from what a limit is about.
LEMMA DueOnlyAges ==
  ASSUME TotalsInv, Tick, NEW l \in LimitName, limits[l] > 0,
         Due(l, proc.session, now)' >= limits[l]
  PROVE  Due(l, proc.session, now) >= limits[l]
<1>1. /\ now' = now + 1 /\ UNCHANGED <<charges, proc, limits>>
      /\ now \in Nat /\ Hour \in Nat /\ MaxTime \in Nat
  BY BudgetAssumption DEF Tick, enforcer, history, TotalsInv, LedgerInv
<1>2. /\ IsFiniteSet(charges) /\ \A c \in charges : c.cost \in Nat /\ c.time \in 0..now
      /\ proc.session \in Session
  BY BudgetAssumption DEF TotalsInv, LedgerInv, ProcInv
<1>3. limits[l] \in Nat
  BY BudgetAssumption DEF TotalsInv, ProcInv
<1>4. Due(l, proc.session, now)' = DueOf(l, proc.session, now + 1, charges)
  BY <1>1 DEF Due, DueOf, OfSession, SinceTime, OnDay, LimitName, Today
<1>5. Due(l, proc.session, now) = DueOf(l, proc.session, now, charges)
  BY <1>2, DueIsOf
<1>6. CASE l = "per_session"
  BY <1>4, <1>5, <1>6 DEF DueOf
<1>7. CASE l = "per_hour"
  <2> DEFINE S == SinceTime(now - Hour, charges)
             T == SinceTime((now + 1) - Hour, charges)
  <2>1. T \subseteq S /\ S \subseteq charges
    BY <1>1, <1>2 DEF SinceTime
  <2>2. IsFiniteSet(S) /\ IsFiniteSet(T) /\ \A c \in S : c.cost \in Nat
    BY <1>2, <2>1, FS_Subset
  <2>3. Spent(T) <= Spent(S) /\ Spent(S) \in Nat /\ Spent(T) \in Nat
    BY <2>1, <2>2, SpentMonotone, SpentFacts
  <2>4. Spent(T) >= limits[l]
    BY <1>4, <1>7 DEF DueOf
  <2>5. Spent(S) >= limits[l]
    BY <1>3, <2>3, <2>4
  <2> QED BY <1>5, <1>7, <2>5 DEF DueOf
<1>8. CASE l = "per_day"
  <2>1. Spent(OnDay(Today(now + 1), charges)) >= limits[l]
    BY <1>4, <1>8 DEF DueOf
  <2>2. Spent({}) = 0
    BY FS_EmptySet, SpentFacts
  <2>3. PICK c \in charges : Today(c.time) = Today(now + 1)
    BY <1>3, <2>1, <2>2 DEF OnDay
  <2>4. Today(c.time) <= Today(now) /\ Today(now) <= Today(now + 1)
    BY <1>1, <1>2, DaysPass
  <2>5. Today(now) = Today(now + 1)
    <3>1. Today(now) \in Nat /\ Today(now + 1) \in Nat
      BY <1>1, DaysPass
    <3> QED BY <2>3, <2>4, <3>1
  <2> QED BY <1>5, <1>8, <2>1, <2>5 DEF DueOf
<1> QED BY <1>6, <1>7, <1>8 DEF LimitName

LEMMA StepKeepsPause ==
  ASSUME TotalsInv, PauseInv, [Next]_vars
  PROVE  PauseInv'
<1>p. /\ DOMAIN proc = {"pc", "session", "cost", "worst", "exceeded", "alerts"}
      /\ proc.pc \in {"idle", "record", "budget", "spin", "done"}
  BY DEF TotalsInv, ProcInv
<1>d. ASSUME charges' = charges, now' = now, proc'.session = proc.session, limits' = limits
      PROVE  Overspent' <=> Overspent
  BY <1>d DEF Overspent, Due, Today
<1>1. ASSUME NEW s \in Session, NEW c \in Cost, ProcessLine(s, c) PROVE PauseInv'
  <2>1. proc'.pc = "record" /\ ~proc'.exceeded /\ reloads' = reloads
    BY <1>1 DEF ProcessLine, Idle
  <2> QED BY <2>1 DEF PauseInv
<1>2. CASE RecordCost
  <2>1. /\ proc' = [proc EXCEPT !.pc = "budget", !.worst = Worst(Total),
                      !.exceeded = Worst(Total) # NoLimit /\ Reached(Total, Worst(Total))]
        /\ proc.pc = "record" /\ charges' = Ledger /\ now' = now
        /\ UNCHANGED <<reloads, limits>>
    BY <1>2, RecordCostIs
  <2>2. /\ proc'.pc = "budget" /\ proc'.worst = Worst(Total) /\ proc'.session = proc.session
        /\ proc'.exceeded = (Worst(Total) # NoLimit /\ Reached(Total, Worst(Total)))
    BY <1>p, <2>1
  <2>3. \A l \in LimitName : Due(l, proc.session, now)' = DueOf(l, proc.session, now, Ledger)
    BY <2>1, <2>2 DEF Due, DueOf, OfSession, SinceTime, OnDay, LimitName, Today
  <2>4. Overspent' => \E l \in LimitName : Reached(Total, l)
    BY <2>1, <2>3, TotalIsDue DEF Overspent, Reached
  <2>5. Overspent' => proc'.exceeded
    BY <2>1, <2>2, <2>4, TotalIsDue, WorstIsALimit DEF TotalsInv, ProcInv
  <2> QED BY <2>1, <2>2, <2>5 DEF PauseInv
<1>3. CASE NothingToReport \/ BudgetExceeded \/ BudgetWarning
  <2>1. /\ proc.pc = "budget"
        /\ UNCHANGED <<now, charges, limits, reloads>>
    BY <1>3 DEF NothingToReport, BudgetExceeded, BudgetWarning, enforcer
  <2>2. CASE BudgetExceeded
    <3>1. proc' = [proc EXCEPT !.pc = "spin", !.alerts = {<<"pause", "budget_exceeded">>}]
      BY <2>2 DEF BudgetExceeded, Pause
    <3>2. /\ proc'.pc = "spin" /\ <<"pause", "budget_exceeded">> \in proc'.alerts
          /\ proc'.exceeded = proc.exceeded /\ proc'.worst = proc.worst
      BY <1>p, <3>1
    <3> QED BY <2>1, <3>2 DEF PauseInv
  <2>3. CASE NothingToReport \/ BudgetWarning
    <3>1. ~proc.exceeded
      BY <2>3 DEF NothingToReport, BudgetWarning, PauseInv
    <3>2. /\ proc'.pc = "spin" /\ proc'.exceeded = proc.exceeded
          /\ proc'.worst = proc.worst /\ proc'.session = proc.session
      BY <1>p, <2>3 DEF NothingToReport, BudgetWarning, Pass, Warn
    <3>3. Overspent' <=> Overspent
      BY <1>d, <2>1, <3>2
    <3> QED BY <2>1, <3>1, <3>2, <3>3 DEF PauseInv
  <2> QED BY <1>3, <2>2, <2>3
<1>4. ASSUME NEW spinning \in BOOLEAN, SpinCheck(spinning) PROVE PauseInv'
  <2>1. /\ proc.pc = "spin" /\ UNCHANGED <<now, charges, limits, reloads>>
        /\ proc' = [proc EXCEPT !.pc = "done", !.alerts =
                      IF spinning THEN @ \cup {<<"pause", "spin_detected">>} ELSE @]
    BY <1>4 DEF SpinCheck, enforcer, history
  <2>2. /\ proc'.pc = "done" /\ proc'.exceeded = proc.exceeded
        /\ proc'.worst = proc.worst /\ proc'.session = proc.session
        /\ proc.alerts \subseteq proc'.alerts
    BY <1>p, <2>1
  <2>3. Overspent' <=> Overspent
    BY <1>d, <2>1, <2>2
  <2> QED BY <2>1, <2>2, <2>3 DEF PauseInv
<1>5. CASE ProcessReturn
  <2>1. proc'.pc = "idle" /\ ~proc'.exceeded /\ reloads' = reloads
    BY <1>5 DEF ProcessReturn, Idle
  <2> QED BY <2>1 DEF PauseInv
<1>6. ASSUME NEW new \in Limits, UpdateLimits(new) PROVE PauseInv'
  <2>1. reloads' = reloads + 1 /\ proc' = proc
    BY <1>6 DEF UpdateLimits
  <2> QED BY <2>1 DEF PauseInv
<1>7. CASE ForgetWarnings \/ UNCHANGED vars
  <2>1. UNCHANGED <<now, charges, limits, proc, reloads>>
    BY <1>7 DEF ForgetWarnings, vars, enforcer, history
  <2>2. Overspent' <=> Overspent
    BY <1>d, <2>1
  <2> QED BY <2>1, <2>2 DEF PauseInv
<1>8. CASE Tick
  <2>1. UNCHANGED <<limits, proc, reloads>>
    BY <1>8 DEF Tick, enforcer
  <2>2. Overspent' => Overspent
    BY <1>8, <2>1, DueOnlyAges DEF Overspent
  <2> QED BY <2>1, <2>2 DEF PauseInv
<1> QED BY <1>1, <1>2, <1>3, <1>4, <1>5, <1>6, <1>7, <1>8 DEF Next

\* While the limits stay as they are, every line that is charged to a limit which the
\* history of charges reaches has raised its pause alert when it is done: a warning of
\* another limit, trimming, midnight or an earlier pause does not stand in its way
\* (Process, RecordCost).
THEOREM OverspendAlwaysPauses == Spec => []OverspendPauses
<1>1. Init => PauseInv
  BY DEF Init, PauseInv, Idle
<1>2. PauseInv => OverspendPauses
  BY DEF PauseInv, OverspendPauses, Overspent
<1> QED BY TotalsAlways, <1>1, <1>2, StepKeepsPause, PTL DEF Spec

RestInv ==
    /\ warned \subseteq Session \X LimitName /\ told \subseteq Session \X LimitName
    /\ reload \in {"no", "limits"} /\ reloads \in 0..MaxReloads

\* Every variable keeps its type; the hourly costs go back no further than an hour
\* from the last of them, so that they do not grow for ever (trimHourly).
THEOREM BudgetTypeCorrect == Spec => []TypeOK
<1>1. Init => RestInv
  BY BudgetAssumption DEF Init, RestInv
<1>2. ASSUME TotalsInv, RestInv, [Next]_vars PROVE RestInv'
  <2>1. CASE BudgetWarning
    <3>1. <<proc.session, proc.worst>> \in Session \X LimitName
      BY <1>2, <2>1 DEF BudgetWarning, TotalsInv, ProcInv
    <3> QED BY <1>2, <2>1, <3>1 DEF BudgetWarning, Pass, Warn, RestInv
  <2>2. CASE \E new \in Limits : UpdateLimits(new)
    BY <1>2, <2>2, BudgetAssumption DEF UpdateLimits, RestInv, history
  <2>3. CASE ForgetWarnings
    BY <1>2, <2>3 DEF ForgetWarnings, RestInv, history
  <2>4. CASE RecordCost \/ NothingToReport \/ BudgetExceeded
    BY <1>2, <2>4 DEF RecordCost, NothingToReport, BudgetExceeded, Pass, Pause, RestInv
  <2>5. CASE (\E s \in Session, c \in Cost : ProcessLine(s, c)) \/ ProcessReturn \/ Tick
             \/ (\E spinning \in BOOLEAN : SpinCheck(spinning)) \/ UNCHANGED vars
    BY <1>2, <2>5 DEF ProcessLine, ProcessReturn, Tick, SpinCheck, vars, RestInv, history
  <2> QED BY <1>2, <2>1, <2>2, <2>3, <2>4, <2>5 DEF Next
<1>3. ASSUME TotalsInv, RestInv, AheadInv PROVE TypeOK
  <2>1. MaxTime \in Nat /\ Cost \subseteq Nat
    BY BudgetAssumption
  <2>2. dayStart \in 0..(MaxTime \div Day)
    <3>1. now \in Nat /\ now <= MaxTime
      BY <1>3, <2>1 DEF TotalsInv, LedgerInv
    <3>2. Today(now) <= Today(MaxTime) /\ Today(now) \in Nat /\ Today(MaxTime) \in Nat
      BY <2>1, <3>1, DaysPass
    <3>3. dayStart \in Nat /\ dayStart <= Today(MaxTime)
      BY <1>3, <3>2 DEF TotalsInv, DayInv
    <3> QED BY <3>2, <3>3 DEF Today
  <2>3. dailyCost \in Nat
    <3>1. IsFiniteSet(charges) /\ \A c \in charges : c.cost \in Nat
      BY <1>3, <2>1 DEF TotalsInv, LedgerInv
    <3>2. /\ IsFiniteSet(OnDay(dayStart, charges))
          /\ \A c \in OnDay(dayStart, charges) : c.cost \in Nat
      BY <3>1, FS_Subset DEF OnDay
    <3> QED BY <1>3, <3>2, SpentFacts DEF TotalsInv, DayInv
  <2>4. /\ hourlyCosts \in Seq([time : 0..MaxTime, cost : Cost])
        /\ DOMAIN hourlyCosts = 1..Len(hourlyCosts)
        /\ \A i, j \in 1..Len(hourlyCosts) :
             i < j => hourlyCosts[j].time - hourlyCosts[i].time \in 0..Hour
    BY <1>3 DEF TotalsInv, WindowInv, LastOf
  <2>5. now \in 0..MaxTime /\ \A c \in charges : c.cost \in Cost
    BY <1>3 DEF TotalsInv, LedgerInv
  <2> QED BY <1>3, <2>2, <2>3, <2>4, <2>5
           DEF TypeOK, RestInv, AheadInv, TotalsInv, SessionInv, ProcInv
<1> QED BY TotalsAlways, AheadAlways, <1>1, <1>2, <1>3, PTL DEF Spec
=============================================================================

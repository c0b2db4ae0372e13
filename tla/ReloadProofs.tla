---------------------------- MODULE ReloadProofs ----------------------------
(***************************************************************************)
(* What reloads leave behind, for any documents, any prices and any number *)
(* of timers; and before that, that a scan of the sorted entries of a      *)
(* price table finds the longest known prefix.                             *)
(***************************************************************************)
EXTENDS Reload, FiniteSetTheorems, WellFoundedInduction, TLAPS

Entries(table) == {[name |-> n, price |-> table[n]] : n \in DOMAIN table}

----------------------------------------------------------------------------
(* Sequences and numbers.                                                  *)

\* A name is known by its length, among the prefixes of one model.
LEMMA PrefixOfLength ==
  ASSUME NEW a \in Seq(Char), NEW b \in Seq(Char), NEW model,
         IsPrefix(a, model), IsPrefix(b, model), Len(a) = Len(b)
  PROVE  a = b
<1>1. SubSeq(a, 1, Len(a)) = SubSeq(b, 1, Len(b))
  BY DEF IsPrefix
<1>2. SubSeq(a, 1, Len(a)) = a
  OBVIOUS
<1>3. SubSeq(b, 1, Len(b)) = b
  OBVIOUS
<1> QED BY <1>1, <1>2, <1>3

LEMMA PrefixOfItself ==
  ASSUME NEW a \in Seq(Char)
  PROVE  IsPrefix(a, a)
BY DEF IsPrefix

\* The first of some places is one of them, and is before all others.
LEMMA FirstIsLeast ==
  ASSUME NEW S \in SUBSET Nat, S # {}
  PROVE  Min(S) \in S /\ \A i \in S : Min(S) <= i
<1> DEFINE less == OpToRel(<, Nat)
<1>1. IsWellFoundedOn(less, Nat)
  BY NatLessThanWellFounded
<1>2. \A i, j \in Nat : j < i => <<j, i>> \in less
  BY DEF OpToRel
<1> HIDE DEF less
<1>3. PICK i \in S : \A j \in S : ~(<<j, i>> \in less)
  BY <1>1, WFMin
<1>4. ASSUME NEW j \in S PROVE i <= j
  <2>1. i \in Nat /\ j \in Nat
    OBVIOUS
  <2>2. ~(j < i)
    BY <1>2, <1>3, <2>1
  <2> QED BY <2>1, <2>2
<1> QED BY <1>4 DEF Min

----------------------------------------------------------------------------
(* The sorted entries.                                                     *)

LEMMA EntriesAreFinite ==
  ASSUME NEW table, IsTable(table)
  PROVE  IsFiniteSet(Entries(table))
<1> DEFINE entry == [n \in DOMAIN table |-> [name |-> n, price |-> table[n]]]
<1>1. entry \in Surjection(DOMAIN table, Entries(table))
  <2>1. entry \in [DOMAIN table -> Entries(table)]
    BY DEF Entries
  <2>2. \A e \in Entries(table) : \E n \in DOMAIN table : entry[n] = e
    BY DEF Entries
  <2> QED BY <2>1, <2>2 DEF Surjection
<1> QED BY <1>1, FS_Surjection DEF IsTable

\* Whatever order they come in, none is missing.
LEMMA SortingHasAll ==
  ASSUME NEW table, IsTable(table), NEW s \in Sortings(table)
  PROVE  /\ DOMAIN s \subseteq Nat
         /\ \A i \in DOMAIN s : s[i] \in Entries(table)
         /\ \A e \in Entries(table) : \E i \in DOMAIN s : s[i] = e
<1> DEFINE N == Cardinality(Entries(table))
<1>1. s \in [1..N -> Entries(table)] /\ \A i, j \in 1..N : i # j => s[i] # s[j]
  BY DEF Sortings, SetToSeqs, Entries
<1>2. IsFiniteSet(Entries(table)) /\ N \in Nat
  BY EntriesAreFinite, FS_CardinalityType
<1>3. Cardinality(1..N) = N
  BY <1>2, FS_Interval
<1>4. s \in Injection(1..N, Entries(table))
  BY <1>1 DEF Injection, IsInjective
<1>5. s \in Surjection(1..N, Entries(table))
  BY <1>2, <1>3, <1>4, FS_Injection
<1> QED BY <1>1, <1>2, <1>5 DEF Surjection

LEMMA KnownIsSorted ==
  ASSUME NEW table, IsTable(table), NEW s \in Sortings(table), NEW n \in DOMAIN table
  PROVE  \E i \in DOMAIN s : s[i].name = n
<1>1. [name |-> n, price |-> table[n]] \in Entries(table)
  BY DEF Entries
<1>2. PICK i \in DOMAIN s : s[i] = [name |-> n, price |-> table[n]]
  BY <1>1, SortingHasAll
<1> QED BY <1>2

\* What is found first is as long as anything found later.
LEMMA EarlierIsLonger ==
  ASSUME NEW table, IsTable(table), NEW s \in Sortings(table),
         NEW i \in DOMAIN s, NEW j \in DOMAIN s, i <= j
  PROVE  Len(s[j].name) <= Len(s[i].name)
<1>1. i \in Nat /\ j \in Nat
  BY SortingHasAll
<1>2. s[i].name \in Seq(Char) /\ s[j].name \in Seq(Char)
  <2>1. s[i] \in Entries(table) /\ s[j] \in Entries(table)
    BY SortingHasAll
  <2> QED BY <2>1 DEF Entries, IsTable
<1>3. i < j => ~Precedes(s[j], s[i])
  BY DEF Sortings
<1> QED BY <1>1, <1>2, <1>3 DEF Precedes

----------------------------------------------------------------------------
\* A model is priced by the longest name in the table that is a prefix of it,
\* whatever the order of the map the entries came from, and however the unstable sort
\* has placed names of one length (CostCalculator.resolve).
THEOREM ResolveIsLongestPrefix ==
  ASSUME NEW table, IsTable(table), NEW s \in Sortings(table), NEW model \in Seq(Char)
  PROVE  Resolve([pricing |-> table, sorted |-> s], model) = PriceOf(table, model)
<1> DEFINE known == KnownPrefixes(table, model)
           hits == Hits(s, model)
<1>1. known \subseteq DOMAIN table /\ \A n \in known : n \in Seq(Char) /\ IsPrefix(n, model)
  BY DEF KnownPrefixes, IsTable
<1>2. ASSUME NEW n \in known, \A m \in known : Len(m) <= Len(n)
      PROVE  LongestPrefix(table, model) = n
  <2> DEFINE best == LongestPrefix(table, model)
  <2>1. best \in known /\ \A m \in known : Len(m) <= Len(best)
    BY <1>2 DEF LongestPrefix
  <2>2. Len(best) = Len(n)
    <3>1. Len(best) <= Len(n) /\ Len(n) <= Len(best)
      BY <1>2, <2>1
    <3> QED BY <1>1, <2>1, <3>1
  <2> QED BY <1>1, <2>1, <2>2, PrefixOfLength
<1>3. CASE model \in DOMAIN table
  <2>1. model \in known
    BY <1>3, PrefixOfItself DEF KnownPrefixes
  <2>2. \A m \in known : Len(m) <= Len(model)
    BY <1>1 DEF IsPrefix
  <2>3. LongestPrefix(table, model) = model
    BY <1>2, <2>1, <2>2
  <2> QED BY <1>3, <2>1, <2>3 DEF Resolve, PriceOf
<1>4. CASE model \notin DOMAIN table /\ hits = {}
  <2>1. known = {}
    <3> SUFFICES ASSUME NEW n \in known PROVE FALSE
      OBVIOUS
    <3>1. PICK i \in DOMAIN s : s[i].name = n
      BY <1>1, KnownIsSorted
    <3> QED BY <1>1, <1>4, <3>1 DEF Hits
  <2> QED BY <1>4, <2>1 DEF Resolve, PriceOf
<1>5. CASE model \notin DOMAIN table /\ hits # {}
  <2> DEFINE i == Min(hits)
  <2>1. hits \subseteq DOMAIN s /\ \A j \in hits : IsPrefix(s[j].name, model)
    BY DEF Hits
  <2>2. i \in hits /\ \A j \in hits : i <= j
    BY <1>5, <2>1, FirstIsLeast, SortingHasAll
  <2>3. PICK n \in DOMAIN table : s[i] = [name |-> n, price |-> table[n]]
    BY <2>1, <2>2, SortingHasAll DEF Entries
  <2>4. n \in known
    <3>1. s[i].name = n
      BY <2>3
    <3> QED BY <2>1, <2>2, <3>1 DEF KnownPrefixes
  <2>5. ASSUME NEW m \in known PROVE Len(m) <= Len(n)
    <3>1. PICK j \in DOMAIN s : s[j].name = m
      BY <1>1, KnownIsSorted
    <3>2. s[j].name = m /\ s[i].name = n
      BY <2>3, <3>1
    <3>3. j \in hits
      BY <1>1, <3>2 DEF Hits
    <3> HIDE DEF i
    <3> QED BY <2>1, <2>2, <3>2, <3>3, EarlierIsLonger
  <2>6. LongestPrefix(table, model) = n
    BY <1>2, <2>4, <2>5
  <2>7. s[i].price = table[n]
    BY <2>3
  <2> QED BY <1>5, <2>4, <2>6, <2>7 DEF Resolve, PriceOf
<1> QED BY <1>3, <1>4, <1>5
----------------------------------------------------------------------------
(* Reloads.                                                                *)

Pcs == {"idle", "load", "swap", "budget", "spin", "notify", "prices"}

\* The types, with the configurations there are, and the calculators.
TypeInv ==
    /\ file \in Document \cup {NoFile} /\ saving \in Document \cup {NoDocument}
    /\ watching \in BOOLEAN /\ timer \in BOOLEAN /\ missed \in BOOLEAN /\ tidy \in BOOLEAN
    /\ events \in Seq({"write", "create", "rename", "remove"})
    /\ edits \in 0..MaxEdits
    /\ cfg \in Config
    /\ reload \in [Reloader -> [pc : Pcs, newCfg : Config, alone : BOOLEAN]]
    /\ \A r \in Reloader : reload[r].pc \notin {"idle", "load"} => Valid(reload[r].newCfg)
    /\ \E overrides : IsTable(overrides) /\ calc \in Calculators(overrides)

----------------------------------------------------------------------------
(* The parts.                                                              *)

LEMMA MergedIsTable ==
  ASSUME NEW overrides, IsTable(overrides)
  PROVE  IsTable(Merged(overrides))
<1>1. IsTable(DefaultPricing)
  BY PricingAssumption
<1>2. DOMAIN Merged(overrides) = DOMAIN overrides \cup DOMAIN DefaultPricing
  BY DEF Merged
<1>3. IsFiniteSet(DOMAIN Merged(overrides))
  BY <1>1, <1>2, FS_Union DEF IsTable
<1>4. Merged(overrides) \in [DOMAIN Merged(overrides) -> Price]
  BY <1>1 DEF Merged, IsTable
<1> QED BY <1>1, <1>2, <1>3, <1>4 DEF IsTable

\* A calculator has one table, and its entries.
LEMMA CalculatorIsSorted ==
  ASSUME NEW overrides, NEW c \in Calculators(overrides)
  PROVE  /\ c.pricing = Merged(overrides)
         /\ c.sorted \in Sortings(Merged(overrides))
         /\ c = [pricing |-> c.pricing, sorted |-> c.sorted]
BY DEF Calculators

LEMMA LoadedIsConfig ==
  ASSUME NEW f \in Document \cup {NoFile}, Loads(f)
  PROVE  Load(f) \in Config
BY DEF Config

LEMMA DefaultIsConfig == Default \in Config
BY DEF Config

----------------------------------------------------------------------------
(* Type correctness.                                                       *)

LEMMA InitTypeInv == Init => TypeInv
<1> SUFFICES ASSUME Init PROVE TypeInv
  OBVIOUS
<1>1. cfg \in Config
  BY LoadedIsConfig DEF Init
<1>2. IsTable(cfg.pricing)
  BY <1>1, ConfigAssumption
<1>3. reload \in [Reloader -> [pc : Pcs, newCfg : Config, alone : BOOLEAN]]
  BY DefaultIsConfig DEF Init, Idle, Pcs
<1>4. \A r \in Reloader : reload[r].pc = "idle"
  BY DEF Init, Idle
<1>5. \E overrides : IsTable(overrides) /\ calc \in Calculators(overrides)
  BY <1>2 DEF Init
<1>6. edits \in 0..MaxEdits /\ events \in Seq({"write", "create", "rename", "remove"})
  BY ReloadAssumption DEF Init
<1> QED BY <1>1, <1>3, <1>4, <1>5, <1>6 DEF Init, TypeInv

\* Whoever edits the file changes no more than it and the queue.
LEMMA EditKeepsTypeInv ==
  ASSUME TypeInv, NEW new \in Document \cup {NoFile},
         NEW kind \in {"write", "create", "rename", "remove"},
         Edit(new, kind), saving' \in Document \cup {NoDocument}
  PROVE  TypeInv'
<1>1. edits' \in 0..MaxEdits
  BY ReloadAssumption DEF Edit, TypeInv
<1>2. events' \in Seq({"write", "create", "rename", "remove"}) /\ missed' \in BOOLEAN
  BY DEF Edit, Notice, TypeInv
<1>3. file' \in Document \cup {NoFile}
  BY DEF Edit
<1> QED BY <1>1, <1>2, <1>3 DEF Edit, TypeInv, components

LEMMA StepKeepsTypeInv == TypeInv /\ [Next]_vars => TypeInv'
<1> SUFFICES ASSUME TypeInv, [Next]_vars PROVE TypeInv'
  OBVIOUS
<1>1. ASSUME NEW doc \in Document, Open(doc) PROVE TypeInv'
  BY <1>1, EditKeepsTypeInv, ReloadAssumption DEF Open
<1>2. ASSUME NEW doc \in Document, RenameOver(doc) PROVE TypeInv'
  BY <1>2, EditKeepsTypeInv DEF RenameOver, TypeInv
<1>3. CASE Write
  BY <1>3 DEF Write, Notice, TypeInv, components
<1>4. CASE RenameAway
  BY <1>4, EditKeepsTypeInv DEF RenameAway, TypeInv
<1>5. CASE Delete
  BY <1>5, EditKeepsTypeInv DEF Delete, TypeInv
<1>6. CASE Watch
  BY <1>6 DEF Watch, TypeInv, environment, components
<1>7. CASE TakeEvent
  BY <1>7 DEF TakeEvent, TypeInv, environment, components
<1>8. ASSUME NEW r \in Reloader, TimerFires(r) PROVE TypeInv'
  <2>1. reload' \in [Reloader -> [pc : Pcs, newCfg : Config, alone : BOOLEAN]]
    BY <1>8, DefaultIsConfig DEF TimerFires, TypeInv, Pcs, Idle
  <2>2. \A q \in Reloader : reload'[q].pc \notin {"idle", "load"} =>
          reload[q].pc \notin {"idle", "load"} /\ reload'[q].newCfg = reload[q].newCfg
    BY <1>8 DEF TimerFires, TypeInv, Idle
  <2> QED BY <1>8, <2>1, <2>2 DEF TimerFires, TypeInv, environment, components
<1>9. ASSUME NEW r \in Reloader, ReloadLoad(r) PROVE TypeInv'
  <2>1. Loads(file) => Load(file) \in Config
    BY LoadedIsConfig DEF TypeInv
  <2>2. reload' \in [Reloader -> [pc : Pcs, newCfg : Config, alone : BOOLEAN]]
    BY <1>9, <2>1, DefaultIsConfig DEF ReloadLoad, TypeInv, Pcs, Idle
  <2>3. \A q \in Reloader : reload'[q].pc \notin {"idle", "load"} => Valid(reload'[q].newCfg)
    BY <1>9 DEF ReloadLoad, TypeInv, Idle
  <2> QED BY <1>9, <2>2, <2>3 DEF ReloadLoad, TypeInv, environment, components
<1>10. ASSUME NEW r \in Reloader, ReloadSwap(r) PROVE TypeInv'
  BY <1>10 DEF ReloadSwap, Goto, At, TypeInv, Pcs, environment, components
<1>11. ASSUME NEW r \in Reloader, ReloadBudget(r) PROVE TypeInv'
  BY <1>11 DEF ReloadBudget, Goto, At, TypeInv, Pcs, environment
<1>12. ASSUME NEW r \in Reloader, ReloadSpin(r) PROVE TypeInv'
  BY <1>12 DEF ReloadSpin, Goto, At, TypeInv, Pcs, environment
<1>13. ASSUME NEW r \in Reloader, ReloadNotify(r) PROVE TypeInv'
  BY <1>13 DEF ReloadNotify, Goto, At, TypeInv, Pcs, environment
<1>14. ASSUME NEW r \in Reloader, ReloadPrices(r) PROVE TypeInv'
  <2>1. IsTable(reload[r].newCfg.pricing)
    BY ConfigAssumption DEF TypeInv
  <2>2. \E overrides : IsTable(overrides) /\ calc' \in Calculators(overrides)
    BY <1>14, <2>1 DEF ReloadPrices, UpdatePricing, TypeInv
  <2>3. reload' \in [Reloader -> [pc : Pcs, newCfg : Config, alone : BOOLEAN]]
    BY <1>14, DefaultIsConfig DEF ReloadPrices, TypeInv, Pcs, Idle
  <2>4. \A q \in Reloader : reload'[q].pc \notin {"idle", "load"} => Valid(reload'[q].newCfg)
    BY <1>14 DEF ReloadPrices, TypeInv, Idle
  <2>5. tidy' \in BOOLEAN
    BY <1>14 DEF ReloadPrices, TypeInv
  <2> QED BY <1>14, <2>2, <2>3, <2>4, <2>5 DEF ReloadPrices, TypeInv, environment
<1>15. CASE UNCHANGED vars
  BY <1>15 DEF vars, TypeInv, environment, components
<1> QED BY <1>1, <1>2, <1>3, <1>4, <1>5, <1>6, <1>7, <1>8, <1>9, <1>10, <1>11, <1>12,
            <1>13, <1>14, <1>15 DEF Next, ReloadStep

LEMMA AlwaysTypeInv == Spec => []TypeInv
BY InitTypeInv, StepKeepsTypeInv, PTL DEF Spec

\* Every variable has its type, and what is put in force has been validated, whatever
\* the documents and the number of timers (reloadConfig).
THEOREM TypeCorrect == Spec => []TypeOK
<1>1. TypeInv => TypeOK
  <2> SUFFICES ASSUME TypeInv PROVE TypeOK
    OBVIOUS
  <2>1. IsTable(calc.pricing)
    BY MergedIsTable, CalculatorIsSorted DEF TypeInv
  <2>2. DOMAIN cfg = DOMAIN Default
    BY ConfigAssumption DEF TypeInv
  <2>3. \A r \in Reloader : reload[r].pc \in Pcs
    BY DEF TypeInv
  <2> QED BY <2>1, <2>2, <2>3 DEF TypeInv, TypeOK, Pcs
<1> QED BY <1>1, AlwaysTypeInv, PTL

----------------------------------------------------------------------------
\* Whatever was reloaded, every model is priced by the longest known prefix of its name
\* (UpdatePricing replaces the table and its entries together; resolve).
THEOREM PricesAreLongestPrefix == Spec => []PriceIsLongestPrefix
<1>1. TypeInv => PriceIsLongestPrefix
  <2> SUFFICES ASSUME TypeInv, NEW model \in Models
               PROVE  Resolve(calc, model) = PriceOf(calc.pricing, model)
    BY DEF PriceIsLongestPrefix
  <2>1. PICK overrides : IsTable(overrides) /\ calc \in Calculators(overrides)
    BY DEF TypeInv
  <2>2. IsTable(Merged(overrides))
    BY <2>1, MergedIsTable
  <2>3. model \in Seq(Char)
    BY ReloadAssumption
  <2>4. /\ calc.pricing = Merged(overrides) /\ calc.sorted \in Sortings(Merged(overrides))
        /\ calc = [pricing |-> calc.pricing, sorted |-> calc.sorted]
    BY <2>1, CalculatorIsSorted
  <2> QED BY <2>2, <2>3, <2>4, ResolveIsLongestPrefix
<1> QED BY <1>1, AlwaysTypeInv, PTL

----------------------------------------------------------------------------
(* A reload that runs alone.                                               *)

\* r has replaced the daemon's configuration, and not yet all that goes by it.
Replacing(r) == reload[r].pc \in {"budget", "spin", "notify", "prices"}

\* One that has been alone is.
AloneInv ==
    \A r \in Reloader : reload[r].pc # "idle" /\ reload[r].alone =>
      \A q \in Reloader \ {r} : reload[q].pc = "idle"

\* What it has replaced is still as it left it.
ReplacedInv ==
    \A r \in Reloader : Replacing(r) /\ reload[r].alone =>
      /\ cfg = reload[r].newCfg
      /\ reload[r].pc \in {"spin", "notify", "prices"} => budget = BudgetOf(cfg)
      /\ reload[r].pc \in {"notify", "prices"} => spin = cfg.repeated_calls
      /\ reload[r].pc = "prices" => notify = cfg.desktop

\* LoneReloadRepairs, in the states with a reload that has replaced nothing, too.
AgreeInv ==
    tidy /\ (\A r \in Reloader : ~Replacing(r)) => InForce(cfg)

RepairInv == TypeInv /\ AloneInv /\ ReplacedInv /\ AgreeInv

LEMMA InitRepairInv == Init => RepairInv
<1> SUFFICES ASSUME Init PROVE RepairInv
  OBVIOUS
<1>1. \A r \in Reloader : reload[r].pc = "idle"
  BY DEF Init, Idle
<1>2. calc.pricing = Merged(cfg.pricing)
  BY CalculatorIsSorted DEF Init
<1>3. InForce(cfg)
  BY <1>2 DEF Init, InForce
<1> QED BY <1>1, <1>3, InitTypeInv
        DEF RepairInv, AloneInv, ReplacedInv, AgreeInv, Replacing

\* What is neither a reload nor the start of one.
LEMMA OthersKeepRepairInv ==
  ASSUME RepairInv, TypeInv', UNCHANGED <<reload, cfg, components, tidy>>
  PROVE  RepairInv'
BY DEF RepairInv, AloneInv, ReplacedInv, AgreeInv, Replacing, InForce, components

\* A reload that stays alone meets no other one's step.
LEMMA LoneStep ==
  ASSUME TypeInv, AloneInv, NEW r \in Reloader, reload[r].pc # "idle",
         NEW q \in Reloader, reload[q].pc # "idle", reload[q].alone
  PROVE  q = r
BY DEF AloneInv

LEMMA StepKeepsRepairInv == RepairInv /\ [Next]_vars => RepairInv'
<1> SUFFICES ASSUME RepairInv, [Next]_vars PROVE RepairInv'
  OBVIOUS
<1> USE DEF Replacing
<1>0. TypeInv /\ TypeInv' /\ AloneInv
  BY StepKeepsTypeInv DEF RepairInv
<1>1. ASSUME NEW new, NEW kind, Edit(new, kind) PROVE RepairInv'
  BY <1>0, <1>1, OthersKeepRepairInv DEF Edit
<1>2. CASE Write \/ Watch \/ TakeEvent \/ UNCHANGED vars
  BY <1>0, <1>2, OthersKeepRepairInv DEF Write, Watch, TakeEvent, vars
<1>3. ASSUME NEW r \in Reloader, TimerFires(r) PROVE RepairInv'
  <2>1. AloneInv'
    BY <1>0, <1>3 DEF TimerFires, AloneInv, TypeInv, Idle, Running, At
  <2>2. /\ UNCHANGED <<cfg, components, tidy>>
        /\ \A q \in Reloader : Replacing(q)' <=> Replacing(q)
    BY <1>0, <1>3 DEF TimerFires, TypeInv, Idle, Running, At
  <2>3. \A q \in Reloader : Replacing(q)' /\ reload'[q].alone => reload'[q] = reload[q]
    BY <1>0, <1>3 DEF TimerFires, TypeInv, Idle, Running, At
  <2>4. ReplacedInv'
    BY <2>2, <2>3 DEF ReplacedInv, RepairInv, components
  <2>5. AgreeInv'
    BY <2>2 DEF AgreeInv, RepairInv, InForce, components
  <2> QED BY <1>0, <2>1, <2>4, <2>5 DEF RepairInv
<1>4. ASSUME NEW r \in Reloader, ReloadLoad(r) PROVE RepairInv'
  <2>1. /\ UNCHANGED <<cfg, components, tidy>>
        /\ reload[r].pc = "load" /\ reload'[r].pc \in {"idle", "swap"}
        /\ reload'[r].pc = "swap" => reload'[r].alone = reload[r].alone
        /\ \A q \in Reloader \ {r} : reload'[q] = reload[q]
    BY <1>0, <1>4 DEF ReloadLoad, TypeInv, Idle, At
  <2>2. AloneInv'
    BY <1>0, <2>1 DEF AloneInv
  <2>3. ReplacedInv'
    BY <2>1 DEF ReplacedInv, RepairInv, components
  <2>4. AgreeInv'
    <3>1. \A q \in Reloader : Replacing(q)' <=> Replacing(q)
      BY <2>1
    <3> QED BY <2>1, <3>1 DEF AgreeInv, RepairInv, InForce, components
  <2> QED BY <1>0, <2>2, <2>3, <2>4 DEF RepairInv
<1>5. ASSUME NEW r \in Reloader,
             ReloadSwap(r) \/ ReloadBudget(r) \/ ReloadSpin(r) \/ ReloadNotify(r)
      PROVE  RepairInv'
  <2>1. /\ reload[r].pc # "idle" /\ Replacing(r)'
        /\ reload'[r].alone = reload[r].alone /\ reload'[r].newCfg = reload[r].newCfg
        /\ \A q \in Reloader \ {r} : reload'[q] = reload[q]
    BY <1>0, <1>5 DEF ReloadSwap, ReloadBudget, ReloadSpin, ReloadNotify, TypeInv, Goto, At
  <2>2. AloneInv'
    BY <1>0, <2>1 DEF AloneInv
  <2>3. ReplacedInv'
    <3> SUFFICES ASSUME NEW q \in Reloader, Replacing(q)', reload'[q].alone
                 PROVE  /\ cfg' = reload'[q].newCfg
                        /\ reload'[q].pc \in {"spin", "notify", "prices"} =>
                             budget' = BudgetOf(cfg)'
                        /\ reload'[q].pc \in {"notify", "prices"} =>
                             spin' = cfg'.repeated_calls
                        /\ reload'[q].pc = "prices" => notify' = cfg'.desktop
      BY DEF ReplacedInv
    <3>1. q = r
      BY <1>0, <2>1, LoneStep
    <3>2. Replacing(r) => cfg = reload[r].newCfg
      BY <2>1, <3>1 DEF ReplacedInv, RepairInv
    <3>3. CASE ReloadSwap(r)
      BY <1>0, <3>1, <3>3 DEF ReloadSwap, TypeInv, Goto, At
    <3>4. CASE ReloadBudget(r)
      BY <1>0, <3>1, <3>2, <3>4 DEF ReloadBudget, TypeInv, Goto, At, BudgetOf
    <3>5. CASE ReloadSpin(r)
      BY <1>0, <2>1, <3>1, <3>2, <3>5
         DEF ReloadSpin, TypeInv, Goto, At, ReplacedInv, RepairInv, BudgetOf
    <3>6. CASE ReloadNotify(r)
      BY <1>0, <2>1, <3>1, <3>2, <3>6
         DEF ReloadNotify, TypeInv, Goto, At, ReplacedInv, RepairInv, BudgetOf
    <3> QED BY <1>5, <3>3, <3>4, <3>5, <3>6
  <2>4. AgreeInv'
    BY <2>1 DEF AgreeInv
  <2> QED BY <1>0, <2>2, <2>3, <2>4 DEF RepairInv
<1>6. ASSUME NEW r \in Reloader, ReloadPrices(r) PROVE RepairInv'
  <2>1. /\ reload[r].pc = "prices" /\ reload'[r].pc = "idle" /\ tidy' = reload[r].alone
        /\ UNCHANGED <<cfg, budget, spin, notify>>
        /\ \A q \in Reloader \ {r} : reload'[q] = reload[q]
    BY <1>0, <1>6 DEF ReloadPrices, TypeInv, Idle, At
  <2>2. AloneInv'
    BY <1>0, <2>1 DEF AloneInv
  <2>3. ReplacedInv'
    <3>1. \A q \in Reloader : Replacing(q)' => q # r
      BY <2>1
    <3> QED BY <2>1, <3>1 DEF ReplacedInv, RepairInv, BudgetOf
  <2>4. AgreeInv'
    <3> SUFFICES ASSUME reload[r].alone PROVE InForce(cfg)'
      BY <2>1 DEF AgreeInv
    <3>1. /\ cfg = reload[r].newCfg /\ budget = BudgetOf(cfg)
          /\ spin = cfg.repeated_calls /\ notify = cfg.desktop
      BY <2>1 DEF ReplacedInv, RepairInv
    <3>2. DOMAIN cfg.pricing # {} => calc'.pricing = Merged(cfg.pricing)
      BY <1>6, <3>1, CalculatorIsSorted DEF ReloadPrices, UpdatePricing
    <3> QED BY <2>1, <3>1, <3>2 DEF InForce, BudgetOf
  <2> QED BY <1>0, <2>2, <2>3, <2>4 DEF RepairInv
<1> QED BY <1>1, <1>2, <1>3, <1>4, <1>5, <1>6
        DEF Next, ReloadStep, Open, RenameOver, RenameAway, Delete

\* A reload that has run alone leaves all components with the configuration that is
\* shown, whatever reloads that overlapped had mixed before (reloadConfig).
THEOREM LoneReloadsRepair == Spec => []LoneReloadRepairs
<1>1. RepairInv => LoneReloadRepairs
  <2> SUFFICES ASSUME RepairInv, Running = {}, tidy PROVE InForce(cfg)
    BY DEF LoneReloadRepairs, InForce, Shown
  <2>1. \A r \in Reloader : ~Replacing(r)
    BY DEF Running, Replacing
  <2> QED BY <2>1 DEF RepairInv, AgreeInv
<1> QED BY <1>1, InitRepairInv, StepKeepsRepairInv, PTL DEF Spec
=============================================================================

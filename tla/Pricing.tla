------------------------------ MODULE Pricing ------------------------------
(***************************************************************************)
(* The price of a model (cost.go).  A table maps names to prices; a model  *)
(* that is not in it is priced by the first name, in the order of          *)
(* decreasing length, that is a prefix of it.                              *)
(*                                                                         *)
(* A name is a sequence of characters, of which a few will do.  A price    *)
(* stands for the four prices per million tokens.                          *)
(***************************************************************************)
EXTENDS Integers, Sequences, SequencesExt

CONSTANTS
    Char,             \* what names are made of
    Price,
    DefaultPricing,   \* the table of pricing.go
    FallbackPricing

IsTable(t) ==
    /\ t \in [DOMAIN t -> Price]
    /\ IsFiniteSet(DOMAIN t) /\ DOMAIN t \subseteq Seq(Char)

ASSUME PricingAssumption == IsTable(DefaultPricing) /\ FallbackPricing \in Price

\* The comparison given to sort.Slice.
Precedes(a, b) == Len(a.name) > Len(b.name)

\* The table of the configuration's overrides and the defaults.
Merged(overrides) ==
    [n \in DOMAIN overrides \cup DOMAIN DefaultPricing |->
       IF n \in DOMAIN overrides THEN overrides[n] ELSE DefaultPricing[n]]

\* What sort.Slice may make of a table: the entries come from a map, in any order,
\* and the sort is not stable.
Sortings(table) ==
    {s \in SetToSeqs({[name |-> n, price |-> table[n]] : n \in DOMAIN table}) :
       \A i, j \in DOMAIN s : i < j => ~Precedes(s[j], s[i])}

\* The calculators that NewCostCalculator and MergePricing may make.
Calculators(overrides) ==
    LET table == Merged(overrides)
    IN  {[pricing |-> table, sorted |-> s] : s \in Sortings(table)}

Hits(sorted, model) == {i \in DOMAIN sorted : IsPrefix(sorted[i].name, model)}

Resolve(calc, model) ==
    IF model \in DOMAIN calc.pricing THEN calc.pricing[model]
    ELSE IF Hits(calc.sorted, model) = {} THEN FallbackPricing
    ELSE calc.sorted[Min(Hits(calc.sorted, model))].price

----------------------------------------------------------------------------
(* What a price is meant to be, without an order.                          *)

KnownPrefixes(table, model) == {n \in DOMAIN table : IsPrefix(n, model)}

LongestPrefix(table, model) ==
    CHOOSE n \in KnownPrefixes(table, model) :
      \A m \in KnownPrefixes(table, model) : Len(m) <= Len(n)

PriceOf(table, model) ==
    IF KnownPrefixes(table, model) = {} THEN FallbackPricing
    ELSE table[LongestPrefix(table, model)]
=============================================================================

--------------------------- MODULE CounterArithmetic ---------------------------
(***************************************************************************)
(* The signed counters of internal/cache/memory/cache.go:486-512, on integers *)
(* of any width: the largest is MaxInt, and sums wrap around as Go's do.      *)
(***************************************************************************)
EXTENDS Integers

CONSTANT MaxInt     \* maxInt64

ASSUME CounterAssumption == MaxInt \in Nat

MinInt == -MaxInt - 1

Integer == MinInt..MaxInt

(* A sum or a difference of two integers leaves the range by one turn at most. *)
Wrap(x) ==
    IF x > MaxInt THEN x - 2 * (MaxInt + 1)
    ELSE IF x < MinInt THEN x + 2 * (MaxInt + 1) ELSE x

Overflow == [failed |-> TRUE, result |-> 0]

Gives(x) == [failed |-> FALSE, result |-> x]

CheckedCounterAdd(current, value) ==
    IF \/ value > 0 /\ current > Wrap(MaxInt - value)
       \/ value < 0 /\ current < Wrap(MinInt - value)
    THEN Overflow
    ELSE Gives(Wrap(current + value))

(* Mutant: the least integer is negated like any other. *)
NegatedAlways(current, value, decrement) ==
    CheckedCounterAdd(current, IF decrement THEN Wrap(-value) ELSE value)

(* The least integer has no negation: it is added in two steps. *)
CounterResult(current, value, decrement) ==
    IF ~decrement THEN CheckedCounterAdd(current, value)
    ELSE IF value = MinInt
    THEN IF current >= 0 THEN Overflow ELSE Gives(Wrap(Wrap(MaxInt + current) + 1))
    ELSE CheckedCounterAdd(current, Wrap(-value))

Exact(current, value, decrement) ==
    LET sum == IF decrement THEN current - value ELSE current + value
    IN  IF sum \in Integer THEN Gives(sum) ELSE Overflow

(* The arguments that give anything else. *)
Inexact ==
    {args \in Integer \X Integer \X BOOLEAN :
        CounterResult(args[1], args[2], args[3]) # Exact(args[1], args[2], args[3])}

(* A counter is the exact sum or difference, or an overflow is reported, and  *)
(* never a number that has wrapped around (cache.go:486).                     *)
CountersAreExact == Inexact = {}

================================================================================

----------------------------- MODULE TickCount -----------------------------
(***************************************************************************)
(* The tick count of the kernel, an unsigned number that wraps             *)
(* (TickType_t, with portMAX_DELAY its greatest value, of the port's       *)
(* header, which is not in the repository).                                *)
(***************************************************************************)
EXTENDS Integers

CONSTANT MaxDelay  \* portMAX_DELAY

ASSUME TickCountAssumption == MaxDelay \in Nat \ {0}

Ticks == 0..MaxDelay
Round == MaxDelay + 1

\* Mutant: the count wraps one tick late.
LaterByOne(tick, n) == IF tick + n > Round THEN tick + n - Round ELSE tick + n

\* The sum and the difference of two tick counts.
Later(tick, n) == IF tick + n > MaxDelay THEN tick + n - Round ELSE tick + n
Elapsed(from, to) == IF from <= to THEN to - from ELSE to - from + Round
=============================================================================

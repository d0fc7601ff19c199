------------------------------- MODULE Divmod -------------------------------
(***************************************************************************)
(* unsigned_divmod, the division the kernel has no instruction for: one    *)
(* step per turn of its loop over the bits of the numerator, highest       *)
(* first.  An idle divider holds the last result, or that of 0 / 1.        *)
(***************************************************************************)
EXTENDS Integers

CONSTANT BITS   \* the width of a uint32_t

ASSUME BitsAssumption == BITS \in Nat \ {0}

VARIABLES numerator, denominator, i, quotient, remainder

divVars == <<numerator, denominator, i, quotient, remainder>>

\* 1u << k
Bit[k \in 0 .. BITS] == IF k = 0 THEN 1 ELSE 2 * Bit[k - 1]

Word(n) == n % Bit[BITS]
Uint32 == 0 .. Bit[BITS] - 1

Dividing == i >= 0

DivInit ==
  /\ numerator = 0 /\ denominator = 1
  /\ i = -1 /\ quotient = 0 /\ remainder = 0

DivCall(n, d) ==
  /\ numerator' = n /\ denominator' = d
  /\ i' = BITS - 1 /\ quotient' = 0 /\ remainder' = 0

NumeratorBit == (numerator \div Bit[i]) % 2

\* The divisor is taken off only when the remainder exceeds it.
TakeOffAbove(shifted) ==
  IF shifted > denominator
  THEN remainder' = shifted - denominator /\ quotient' = quotient + Bit[i]
  ELSE remainder' = shifted /\ UNCHANGED quotient

TakeOff(shifted) ==
  IF shifted >= denominator
  THEN remainder' = shifted - denominator /\ quotient' = quotient + Bit[i]
  ELSE remainder' = shifted /\ UNCHANGED quotient

DivTurn ==
  /\ Dividing
  /\ TakeOff(Word(2 * remainder + NumeratorBit))
  /\ i' = i - 1
  /\ UNCHANGED <<numerator, denominator>>

\* The caller has used the result.
Forget ==
  /\ ~Dividing
  /\ numerator' = 0 /\ denominator' = 1 /\ quotient' = 0 /\ remainder' = 0
  /\ UNCHANGED i

\* The callers divide any word by any other but 0.
DivNext ==
  \/ DivTurn \/ Forget
  \/ ~Dividing /\ \E n \in Uint32, d \in Uint32 \ {0} : DivCall(n, d)

DivSpec == DivInit /\ [][DivNext]_divVars

-----------------------------------------------------------------------------
\* unsigned_divmod (math.c:17): after any number of turns the bits seen so far
\* are the quotient bits times the denominator plus the remainder, and the
\* remainder is proper.  So the shift of the remainder never loses its top bit
\* in 32-bit arithmetic, whatever the operands, and the loop ends with the
\* quotient and the remainder.
DivisionExact ==
  LET seen == Bit[i + 1]
  IN  /\ numerator \div seen =
           (quotient \div seen) * denominator + remainder
      /\ quotient % seen = 0
      /\ remainder < denominator
=============================================================================

------------------------------- MODULE Numbers -------------------------------
(***************************************************************************)
(* bconv.go: numbers written and read as decimal digits, in signed         *)
(* arithmetic of Width bits (64 for an int64) that wraps around.  A byte   *)
(* is its code, so that what is written for a number below zero is what    *)
(* the code writes.                                                        *)
(***************************************************************************)
EXTENDS Integers, Sequences

CONSTANT Width

Top     == 2^(Width-1)
MaxInt  == Top - 1
Wrap(n) == ((n + Top) % (2 * Top)) - Top

\* What is said of Top follows for all widths, but not for a prover that does
\* not know powers.
ASSUME NumbersAssumption == Width \in Nat /\ Width > 4 /\ Top \in Nat \ {0}

zero       == 48
dash       == 45
isDigit(b) == b \in zero .. zero + 9

\* A number in decimal digits.
Decimal[n \in Nat] == IF n < 10 THEN <<zero + n>> ELSE Append(Decimal[n \div 10], zero + (n % 10))

\* A fault for the mutants: ten is taken for a digit.
AppendUint_OffByOne(n) == IF n <= 10 THEN <<(zero + n) % 256>> ELSE Decimal[n]

\* A number below zero is taken for its own only digit.
AppendUint(n) == IF n < 10 THEN <<(zero + n) % 256>> ELSE Decimal[n]

\* One more byte of a number; all but digits are passed over.
Digit(n, b) == IF isDigit(b) THEN Wrap(Wrap(n * 10) + b - zero) ELSE n

\* The number read after each byte.
Reading(s) ==
  LET i[k \in 0 .. Len(s)] == IF k = 0 THEN 0 ELSE Digit(i[k-1], s[k]) IN i
ParseUint(s) == Reading(s)[Len(s)]

\* The digits behind the first dash belong to the second number; without a dash
\* the range has no end.
ParseRange(s) ==
  LET dashes == {k \in DOMAIN s : s[k] = dash}
      d      == CHOOSE k \in dashes : \A j \in dashes : k <= j
  IN  IF dashes = {} THEN <<ParseUint(s), MaxInt>>
      ELSE <<ParseUint(SubSeq(s, 1, d-1)), ParseUint(SubSeq(s, d+1, Len(s)))>>
=============================================================================

------------------------------ MODULE PrintBin ------------------------------
(***************************************************************************)
(* printbin.c: printbin prints the digits of n by a recursion on shift,     *)
(* which is also the depth of the call.  1 << shift is what the processor   *)
(* computes: the shift is taken modulo the width, and the highest bit is    *)
(* the sign.                                                               *)
(***************************************************************************)
EXTENDS Integers, Sequences

CONSTANTS Width,     \* bits of an int
          MaxDepth   \* calls that fit on the stack

ASSUME BinAssumption == Width \in Nat /\ Width > 2 /\ MaxDepth \in Nat /\ MaxDepth > Width

IntRange == -(2 ^ (Width - 1)) .. 2 ^ (Width - 1) - 1

VARIABLES call,     \* "scan", "down" while it recurs, "up" while the calls return, "done", "overflow"
          n, shift,
          printed

binVars == <<call, n, shift, printed>>

OneShifted(s) == LET k == s % Width IN IF k = Width - 1 THEN -(2 ^ k) ELSE 2 ^ k

Bit(s) == (n \div (2 ^ (s % Width))) % 2

\* Mutation: the comparison is strict.
MoreDigitsStrict == n > OneShifted(shift)

MoreDigits == n >= OneShifted(shift)

ScanNumber ==
  /\ call = "scan"
  /\ n' \in IntRange /\ shift' = 0 /\ call' = "down"
  /\ UNCHANGED printed

Recur ==
  /\ call = "down" /\ MoreDigits /\ shift < MaxDepth
  /\ shift' = shift + 1
  /\ UNCHANGED <<call, n, printed>>

StackOverflow ==
  /\ call = "down" /\ MoreDigits /\ shift = MaxDepth
  /\ call' = "overflow"
  /\ UNCHANGED <<n, shift, printed>>

\* The call that finds nothing left prints nothing.
Bottom ==
  /\ call = "down" /\ ~MoreDigits
  /\ call' = "up"
  /\ UNCHANGED <<n, shift, printed>>

PrintDigit ==
  /\ call = "up" /\ shift > 0
  /\ printed' = Append(printed, Bit(shift - 1))
  /\ shift' = shift - 1
  /\ UNCHANGED <<call, n>>

EndPrint ==
  /\ call = "up" /\ shift = 0
  /\ call' = "done"
  /\ UNCHANGED <<n, shift, printed>>

BinInit == call = "scan" /\ n = 0 /\ shift = 0 /\ printed = <<>>

BinNext == ScanNumber \/ Recur \/ StackOverflow \/ Bottom \/ PrintDigit \/ EndPrint

BinSpec == BinInit /\ [][BinNext]_binVars

---------------------------------------------------------------------------

\* The number a sequence of digits stands for.
Number(digits) ==
  LET v[k \in 0 .. Len(digits)] == IF k = 0 THEN 0 ELSE 2 * v[k - 1] + digits[k]
  IN v[Len(digits)]

\* A positive number is printed in binary without a leading 0, and nothing else is
\* printed; but from 2^30 on, where 1 << 31 is negative and 1 << 32 is 1, the
\* recursion has no end.
PrintsBinary ==
  /\ call = "done" => /\ n < 2 ^ (Width - 2)
                      /\ IF n > 0 THEN Number(printed) = n /\ printed[1] = 1
                         ELSE printed = <<>>
  /\ call = "overflow" => n >= 2 ^ (Width - 2)

=============================================================================

--------------------------------- MODULE Bcd ---------------------------------
(***************************************************************************)
(* Packed-BCD byte arithmetic: bcdAddByte and bcdSubByte of core/bcd.js    *)
(* (scores, timers and credits of every game are sums of theirs), and the  *)
(* two operations Donkey Kong's coin box writes out for itself.            *)
(*                                                                         *)
(* The state is a pair of bytes and the carry between them; its steps run  *)
(* the operations over every pair there is.                                *)
(***************************************************************************)
EXTENDS Integers

VARIABLES byte, operand, carry

vars == <<byte, operand, carry>>

\* The bytes that are two decimal digits.
Packed == {16 * tens + units : tens, units \in 0 .. 9}
Digits(b) == 10 * (b \div 16) + (b % 16)

Flag(condition) == IF condition THEN 1 ELSE 0

\* (a ^ b ^ res) & 0x10: the sum or difference carried out of its low digit.
halfCarried(a, b, res) == ((a \div 16) + (b \div 16) + (res \div 16)) % 2 = 1

\* Mutant: a low digit above 9 is corrected only if it did not carry.
MLowCorrection(res, halfCarry) == IF ~halfCarry /\ res % 16 > 9 THEN 6 ELSE 0

lowCorrection(res, halfCarry) == IF halfCarry \/ res % 16 > 9 THEN 6 ELSE 0

\* The byte itself carried, or its digits run past 99.
decimalCarry(res, carryIn) == carryIn \/ res > 153

\* daaByte: correct upwards after a sum, downwards after a difference.
daaByte(res, halfCarry, carryIn, subtract) ==
  LET correction == lowCorrection(res, halfCarry) + (IF decimalCarry(res, carryIn) THEN 96 ELSE 0)
  IN  [value |-> (IF subtract THEN res - correction ELSE res + correction) % 256,
       carry |-> Flag(decimalCarry(res, carryIn))]

bcdAddByte(a, b, carryIn) ==
  LET r == a + b + carryIn
      res == r % 256
  IN  daaByte(res, halfCarried(a, b, res), r > 255, FALSE)

bcdSubByte(a, b, borrowIn) ==
  LET r == a - b - borrowIn
      res == r % 256
  IN  daaByte(res, halfCarried(a, b, res), r < 0, TRUE)

\* serviceCoinInput's sum, its carry dropped.
bcdAdd(a, b) ==
  LET res == (a + b) % 256
  IN  daaByte(res, halfCarried(a, b, res), a + b > 255, FALSE).value

\* spendCredit: a credit less is 99 more.
bcdDecrement(v) == bcdAdd(v, 153)

-----------------------------------------------------------------------------
Init == byte = 0 /\ operand = 0 /\ carry = 0

Becomes(result) == byte' = result.value /\ carry' = result.carry
Add == Becomes(bcdAddByte(byte, operand, carry)) /\ UNCHANGED operand
Sub == Becomes(bcdSubByte(byte, operand, carry)) /\ UNCHANGED operand
Credit == operand' = bcdAdd(operand, 1) /\ UNCHANGED <<byte, carry>>
Spend == operand' = bcdDecrement(operand) /\ UNCHANGED <<byte, carry>>

Next == Add \/ Sub \/ Credit \/ Spend
Spec == Init /\ [][Next]_vars

-----------------------------------------------------------------------------
\* What each operation returns: two digits and, in decimal, the sum, its carry worth 100.
SumIsDecimal(a, b, carryIn) ==
  LET r == bcdAddByte(a, b, carryIn)
  IN  r.value \in Packed /\ Digits(r.value) + 100 * r.carry = Digits(a) + Digits(b) + carryIn

\* The difference, its borrow worth 100.
DifferenceIsDecimal(a, b, borrowIn) ==
  LET r == bcdSubByte(a, b, borrowIn)
  IN  r.value \in Packed /\ Digits(r.value) - 100 * r.carry = Digits(a) - Digits(b) - borrowIn

\* One more and one less, modulo 100: what GameStart takes CREDITS to be.
CreditsAreDecimal(a, b) ==
  /\ {bcdAdd(a, b), bcdDecrement(a)} \subseteq Packed
  /\ Digits(bcdAdd(a, b)) = (Digits(a) + Digits(b)) % 100
  /\ Digits(bcdDecrement(a)) = (Digits(a) - 1) % 100

\* Sums of core/bcd.js are decimal sums, with their carry, on every pair of bytes.
AddsInDecimal == SumIsDecimal(byte, operand, carry)

\* Differences are decimal differences, with their borrow.
SubtractsInDecimal == DifferenceIsDecimal(byte, operand, carry)

\* The coin box counts and spends in decimal.
CoinBoxInDecimal == CreditsAreDecimal(byte, operand)
=============================================================================

-------------------------------- MODULE Digits --------------------------------
(* Characters are strings of one letter; these are the digits.             *)
EXTENDS Integers, Sequences

DigitChars == <<"0", "1", "2", "3", "4", "5", "6", "7", "8", "9", "a", "b", "c", "d", "e", "f">>
Digit == {DigitChars[i] : i \in 1 .. 10}
DigitOf(n) == DigitChars[n + 1]
ValueOf(c) == CHOOSE n \in 0 .. 15 : DigitOf(n) = c

(* The digits of v, which are found from the last on and then turned.      *)
Numeral(v, base) ==
  LET digits[n \in Nat] ==
        IF n < base THEN <<DigitOf(n)>> ELSE Append(digits[n \div base], DigitOf(n % base))
  IN digits[v]
=============================================================================

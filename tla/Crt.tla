-------------------------------- MODULE Crt --------------------------------
(***************************************************************************)
(* pal/nt4_crt.c: the string and memory functions the program brings along *)
(* since it links no C library.  Each is the loop it is in the code.       *)
(*                                                                         *)
(* Memory is a function from addresses to bytes; a string is a sequence of *)
(* bytes other than zero, followed by the zero that ends it.               *)
(***************************************************************************)
EXTENDS Integers, Sequences

Terminated(s, i) == IF i <= Len(s) THEN s[i] ELSE 0

(* From the first byte up. *)
Memcpy(m, d, s, n) ==
  LET after[k \in 0 .. n] ==
        IF k = 0 THEN m ELSE [after[k - 1] EXCEPT ![d + k - 1] = after[k - 1][s + k - 1]]
  IN after[n]

(* From the first up or from the last down, so that no byte is overwritten *)
(* before it is read.                                                      *)
Memmove(m, d, s, n) ==
  LET after[k \in 0 .. n] ==
        IF k = 0 THEN m ELSE [after[k - 1] EXCEPT ![d + n - k] = after[k - 1][s + n - k]]
  IN IF d < s THEN Memcpy(m, d, s, n) ELSE after[n]

Memset(m, d, c, n) == [a \in DOMAIN m |-> IF a \in d .. d + n - 1 THEN c % 256 ELSE m[a]]

Memcmp(m, a, b, n) ==
  LET from[k \in 0 .. n] ==
        IF k = n THEN 0
        ELSE IF m[a + k] # m[b + k] THEN m[a + k] - m[b + k] ELSE from[k + 1]
  IN from[0]

(* The common loop of strcmp and strncmp: the first place they differ at,  *)
(* or where a ends, within n bytes.                                        *)
Strncmp(a, b, n) ==
  LET from[k \in 1 .. n + 1] ==
        IF k > n THEN 0
        ELSE IF k <= Len(a) /\ a[k] = Terminated(b, k) THEN from[k + 1]
        ELSE Terminated(a, k) - Terminated(b, k)
  IN from[1]

Strcmp(a, b) == Strncmp(a, b, Len(a) + 1)

(* Position of the byte, which may be the zero; 0 where the code returns    *)
(* NULL.  A char is compared, so c counts modulo 256.                       *)
Strchr(s, c) ==
  LET from[k \in 1 .. Len(s) + 1] ==
        IF Terminated(s, k) = c % 256 THEN k ELSE IF k > Len(s) THEN 0 ELSE from[k + 1]
  IN from[1]

Strstr(hay, needle) ==
  LET matches[k \in Nat, n \in Nat] ==   \* the inner loop: where in the needle it stops
        IF k <= Len(hay) /\ n <= Len(needle) /\ hay[k] = needle[n]
        THEN matches[k + 1, n + 1] ELSE n
      from[k \in 1 .. Len(hay) + 1] ==
        IF k > Len(hay) THEN 0 ELSE IF matches[k, 1] > Len(needle) THEN k ELSE from[k + 1]
  IN IF needle = << >> THEN 1 ELSE from[1]
=============================================================================

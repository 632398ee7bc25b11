------------------------------- MODULE Shamir -------------------------------
(***************************************************************************)
(* The arithmetic under the seal (seal/shamir.go): GF(2^8) by logarithm    *)
(* tables, Split and Combine on byte strings.  Nothing here has state; the *)
(* operators are evaluated by TLC, which shows that VaultSeal's Combine on *)
(* named secrets answers as this one does on bytes (MCVaultSeal).          *)
(***************************************************************************)
EXTENDS Naturals, Sequences, FiniteSets, Bitwise

Byte == 0..255
Failed == <<>>          \* an error instead of a buffer, which is never empty

(* a <<= 1 with the reduction by x^8 + x^4 + x^3 + x + 1. *)
Double == [a \in Byte |-> IF a < 128 THEN 2 * a ELSE ((2 * a) % 256) ^^ 27]

(* The product without tables: Double(a) added for every bit set in b. *)
RECURSIVE gfMulNoTable(_, _)
gfMulNoTable(a, b) ==
  IF b = 0 THEN 0
  ELSE (IF b % 2 = 1 THEN a ELSE 0) ^^ gfMulNoTable(Double[a], b \div 2)

(* generator^i.  init multiplies by the generator 3 once per entry; here   *)
(* the power is taken by squaring.                                         *)
RECURSIVE Power(_)
Power(i) ==
  LET half == Power(i \div 2)
      square == gfMulNoTable(half, half)
  IN  IF i = 0 THEN 1 ELSE IF i % 2 = 0 THEN square ELSE gfMulNoTable(square, 3)

gfExp == [i \in 0..511 |-> Power(i % 255)]
gfLog == [a \in 1..255 |-> CHOOSE i \in 0..254 : gfExp[i] = a]

gfMul(a, b) == IF a = 0 \/ b = 0 THEN 0 ELSE gfExp[gfLog[a] + gfLog[b]]

(* Only asked of a # 0: Combine returns errZeroInverse otherwise. *)
gfInv(a) == gfExp[255 - gfLog[a]]

(* Horner's rule; coef[1] is the constant term. *)
RECURSIVE gfEval(_, _)
gfEval(x, coef) ==
  IF coef = <<>> THEN 0 ELSE gfMul(gfEval(x, Tail(coef)), x) ^^ Head(coef)

(* Split, with the random coefficients of each byte's polynomial given:    *)
(* threshold = 1 + Len(random[i]).  A share is its x and its y bytes.      *)
Split(secret, random, parts) ==
  [x \in 1..parts |->
     <<x>> \o [i \in DOMAIN secret |-> gfEval(x, <<secret[i]>> \o random[i])]]

RECURSIVE Product(_)
Product(bytes) == IF bytes = <<>> THEN 1 ELSE gfMul(Head(bytes), Product(Tail(bytes)))

RECURSIVE Xored(_)
Xored(bytes) == IF bytes = <<>> THEN 0 ELSE Head(bytes) ^^ Xored(Tail(bytes))

WellFormed(shares) ==
  /\ Len(shares) >= 2
  /\ \A i \in DOMAIN shares :
       Len(shares[i]) = Len(shares[1]) /\ Len(shares[i]) >= 2 /\ shares[i][1] # 0
  /\ Cardinality({shares[i][1] : i \in DOMAIN shares}) = Len(shares)

(* The polynomial through the idx-th bytes, at 0: the sum of y_i * num /   *)
(* den.  The factor for j = i, which the loop skips, is 1 here.            *)
Interpolate(shares, idx) ==
  LET x(i) == shares[i][1]
      num(i) == Product([j \in DOMAIN shares |-> IF j = i THEN 1 ELSE x(j)])
      den(i) == Product([j \in DOMAIN shares |-> IF j = i THEN 1 ELSE x(i) ^^ x(j)])
  IN  Xored([i \in DOMAIN shares |-> gfMul(shares[i][idx], gfMul(num(i), gfInv(den(i))))])

CombineBytes(shares) ==
  IF WellFormed(shares)
  THEN [idx \in 1..(Len(shares[1]) - 1) |-> Interpolate(shares, idx + 1)]
  ELSE Failed

CombineWithThreshold(shares, threshold) ==
  IF threshold > 0 /\ Len(shares) < threshold THEN Failed ELSE CombineBytes(shares)
=============================================================================

----------------------------- MODULE Zeromorph -----------------------------
(***************************************************************************)
(* The Zeromorph commitment scheme (spartan/src/polycommitments/           *)
(* zeromorph).  A multilinear polynomial is committed to as a univariate   *)
(* one; KZG commitments and the pairing are external: a commitment is the  *)
(* coefficient vector over the powers of the hidden tau, and a pairing     *)
(* equation is the equation of the polynomials.                            *)
(***************************************************************************)
EXTENDS MlPoly

\* The n low bits of k in reverse order.
ReverseBits(n, k) ==
  LET b == Bits(k, n) IN LET s[i \in 0..n] == IF i = 0 THEN 0 ELSE s[i - 1] + b[i] * 2^(i - 1)
                         IN s[n]

\* The value at cube point i is the coefficient of X^(reverse of i).
MultilinearToUnivar(Z) ==
  Vec([i \in 1..Len(Z) |-> Z[ReverseBits(NumVars(Z), i - 1) + 1]])

\* f - f(u) = sum_k (X_k - u_k) * q_k, from the last variable to the first;
\* quotient k has 2^(k-1) coefficients.
TruncatedQuotients(Z, u) ==
  LET n == Len(u)
      f[j \in 0..n] ==
        IF j = 0 THEN Z ELSE BoundBot(f[j - 1], u[n - j + 1])
      q(k) == LET g == f[n - k] IN VSub(BoundBot(g, 1), BoundBot(g, 0))
  IN Vec([k \in 1..n |-> MultilinearToUnivar(q(k))])

Pow(x, e) == LET p[i \in 0..e] == IF i = 0 THEN 1 ELSE (p[i - 1] * x) % P IN p[e]

\* (x^(2^n) - 1) / (x^(2^k) - 1); the division panics on zero.
Divisible(n, x) == \A k \in 0..n : Pow(x, 2^k) # 1
Cyclotomic(n, k, x) == Times((Pow(x, 2^n) - 1) % P, Inv((Pow(x, 2^k) - 1) % P))

ZxCoefficients(x, u) ==
  LET n == Len(u)
  IN Vec([k \in 1..n |-> (Pow(x, 2^(k - 1)) * Cyclotomic(n, k, x)
                          - u[k] * Cyclotomic(n, k - 1, x)) % P])
ZetaCoefficients(x, y, n) ==
  Vec([k \in 1..n |-> Times(Pow(y, k - 1), Pow(x, 2^n - 2^(k - 1)))])

\* Each quotient is shifted to end at degree 2^n - 1.
ShiftAndCombine(qs, y, n) ==
  LET Shift(q) == Zeros(2^n - Len(q)) \o q
  IN Combine([k \in 1..n |-> Pow(y, k - 1)], Vec([k \in 1..n |-> Shift(qs[k])]))

\* Quotient of p by (X - r); the remainder is dropped.
DivideByLinear(p, r) ==
  LET t[i \in 1..Len(p)] == IF i = Len(p) THEN 0 ELSE (t[i + 1] * r + p[i + 1]) % P
  IN Vec([i \in 1..Len(p) |-> t[i]])
MulLinear(p, r) ==
  Vec([i \in 1..(Len(p) + 1) |-> ((IF i > 1 THEN p[i - 1] ELSE 0)
                                  - (IF i <= Len(p) THEN r * p[i] ELSE 0)) % P])

ZmCommit(Z) == MultilinearToUnivar(Z)

\* Z_x and zeta_x from the polynomial (or its commitment) and the quotients.
ZxOf(c, eval, qs, x, u) ==
  LET n == Len(u)
      full == Vec([k \in 1..n |-> Resize(qs[k], 2^n)])
  IN VSub(VSub(c, Resize(<<Times(eval, Cyclotomic(n, 0, x))>>, 2^n)),
          Combine(ZxCoefficients(x, u), full))
ZetaOf(q_hat, qs, x, y, n) ==
  VSub(q_hat, Combine(ZetaCoefficients(x, y, n), Vec([k \in 1..n |-> Resize(qs[k], 2^n)])))

ZmQuotients(Z, u) == TruncatedQuotients(Z, u)
ZmShifted(qs, y) == ShiftAndCombine(qs, y, Len(qs))

\* The proof is committed to over the powers the shift leaves: extra zeros
\* below, for a key trimmed from one of max variables.
ShiftOf(max, n) == 2^max - 2^n + 1
ZmPi(Z, u, eval, qs, q_hat, x, y, z, max) ==
  LET qZ == DivideByLinear(ZxOf(ZmCommit(Z), eval, qs, x, u), x)
      qzeta == DivideByLinear(ZetaOf(q_hat, qs, x, y, Len(u)), x)
  IN Zeros(ShiftOf(max, Len(u))) \o VAdd(qzeta, VScale(z, qZ))

ZmVerify(comm, qs, q_hat, pi, u, eval, x, y, z, max) ==
  LET czz == VAdd(ZetaOf(q_hat, qs, x, y, Len(u)), VScale(z, ZxOf(comm, eval, qs, x, u)))
      lhs == Zeros(ShiftOf(max, Len(u))) \o czz
  IN Resize(lhs, Len(pi) + 1) = MulLinear(pi, x)
=============================================================================

------------------------------- MODULE MlPoly -------------------------------
(***************************************************************************)
(* Multilinear polynomials as tables of their values on the cube, and the  *)
(* univariate polynomials of sum-check rounds (spartan/src/dense_mlpoly.rs *)
(* and unipoly.rs).  Index 1 of a table is the all-zero point and the      *)
(* first variable is the most significant bit of an index.                 *)
(***************************************************************************)
EXTENDS Field

(* Equality and identity polynomials. *)

EqEvaluate(r, rx) ==
  Product([i \in 1..Len(rx) |-> r[i] * rx[i] + (1 - r[i]) * (1 - rx[i])])

\* evals doubles the table once per variable, the last variable in the
\* lowest bit.
EqEvals(r) ==
  LET t[j \in 0..Len(r)] ==
        IF j = 0 THEN <<1>>
        ELSE LET s == t[j - 1]
             IN Vec([i \in 1..2 * Len(s) |->
                   LET h == (s[(i + 1) \div 2] * r[j]) % P
                   IN IF i % 2 = 0 THEN h ELSE Minus(s[(i + 1) \div 2], h)])
  IN t[Len(r)]

FactoredLens(ell) == <<ell \div 2, ell - ell \div 2>>

FactoredEvals(r) ==
  LET left == FactoredLens(Len(r))[1]
  IN <<EqEvals(SubSeq(r, 1, left)), EqEvals(SubSeq(r, left + 1, Len(r)))>>

IdentityEvaluate(r) ==
  Sum([i \in 1..Len(r) |-> (2^(Len(r) - i) % P) * r[i]])

(* Dense polynomials. *)

NumVars(Z) == Log2(Len(Z))

Split(Z, idx) == <<SubSeq(Z, 1, idx), SubSeq(Z, idx + 1, 2 * idx)>>

BoundTop(Z, r) ==
  LET n == Len(Z) \div 2
  IN Vec([i \in 1..n |-> (Z[i] + r * (Z[i + n] - Z[i])) % P])

BoundBot(Z, r) ==
  Vec([i \in 1..(Len(Z) \div 2) |->
     (Z[2 * i - 1] + r * (Z[2 * i] - Z[2 * i - 1])) % P])

\* The rows of the table as a matrix, combined with L.
Bound(Z, L) ==
  LET R == Len(Z) \div Len(L)
  IN Vec([i \in 1..R |-> Sum([j \in 1..Len(L) |-> L[j] * Z[(j - 1) * R + i]])])

Evaluate(Z, r) == Dot(Z, EqEvals(r))

Merge(polys) ==
  LET cat[i \in 0..Len(polys)] ==
        IF i = 0 THEN <<>> ELSE cat[i - 1] \o polys[i]
  IN Resize(cat[Len(polys)], NextPow2(Len(cat[Len(polys)])))

FromUsize(Z) == Vec([i \in 1..Len(Z) |-> Z[i] % P])

\* Binding a table of evaluations from the last challenge back to the first,
\* as the n-to-one reductions do.
CombineToOne(evals, c) ==
  LET b[i \in 0..Len(c)] ==
        IF i = 0 THEN evals ELSE BoundBot(b[i - 1], c[Len(c) - i + 1])
  IN b[Len(c)][1]

(* Sparse polynomials over an index: <<idx, val>> entries. *)
SparseChi(bits, r) ==
  Product([j \in 1..Len(r) |-> IF bits[j] = 1 THEN r[j] ELSE 1 - r[j]])
SparseEvaluate(n, entries, r) ==
  Sum([i \in 1..Len(entries) |->
         SparseChi(Bits(entries[i][1], n), r) * entries[i][2]])

(* Univariate polynomials of degree two or three, by coefficients. *)

UniFromEvals(e) ==
  IF Len(e) = 3
  THEN LET c == e[1]
           a == Halve((e[3] - 2 * e[2] + c) % P)
       IN <<c, (e[2] - c - a) % P, a>>
  ELSE LET d == e[1]
           a == Times(Inv(6 % P), (e[4] - 3 * e[3] + 3 * e[2] - e[1]) % P)
           b == Halve((2 * e[1] - 5 * e[2] + 4 * e[3] - e[4]) % P)
       IN <<d, (e[2] - d - a - b) % P, b, a>>

EvalAtZero(f) == f[1]
EvalAtOne(f) == Sum(f)
Powers(r, n) ==
  LET p[i \in 1..n] == IF i = 1 THEN 1 ELSE (p[i - 1] * r) % P
  IN Vec([i \in 1..n |-> p[i]])
UniEvaluate(f, r) == Dot(f, Powers(r, Len(f)))
Compress(f) == <<f[1]>> \o SubSeq(f, 3, Len(f))
Decompress(g, hint) ==
  LET linear == (hint - g[1] - Sum(g)) % P
  IN <<g[1], linear>> \o SubSeq(g, 2, Len(g))

(* Commitments (spartan/src/commitments.rs): the vector and its blind. *)

Commit(v, blind) == v \o <<blind>>
CommitScalar(x, blind) == <<x, blind>>
=============================================================================

------------------------------- MODULE Field -------------------------------
(***************************************************************************)
(* The prime field the arguments compute in, and vectors over it.  Field   *)
(* and group arithmetic come from the arkworks crates; the field of        *)
(* P elements stands for the scalar field of a curve, and a group element  *)
(* is its vector of coordinates over the generators, so that a commitment  *)
(* is binding and homomorphic and nothing else is known of it.             *)
(***************************************************************************)
EXTENDS Integers, Sequences, FiniteSets

CONSTANT P                  \* the number of elements; 2 and 6 are invertible

Prime(n) == n > 1 /\ \A d \in 2..(n - 1) : n % d # 0

ASSUME FieldAssumption == P \in Nat /\ Prime(P) /\ P > 3

Fe == 0..(P - 1)

Minus(a, b) == (a - b) % P
Times(a, b) == (a * b) % P
Inv(a) == CHOOSE b \in Fe : (a * b) % P = 1
Halve(a) == Times(a, (P + 1) \div 2)

\* The length of v; Len would have TLC compute the entries.
Size(v) == Cardinality(DOMAIN v)

\* Sum and product of the entries of a vector.
Sum(v) ==
  LET s[i \in 0..Size(v)] == IF i = 0 THEN 0 ELSE (s[i - 1] + v[i]) % P
  IN s[Size(v)]
Product(v) ==
  LET p[i \in 0..Size(v)] == IF i = 0 THEN 1 ELSE (p[i - 1] * v[i]) % P
  IN p[Size(v)]

\* The sequence v, its entries computed once.
Vec(v) == SubSeq(v, 1, Size(v))

Dot(u, v) == Sum([i \in 1..Len(u) |-> u[i] * v[i]])
VAdd(u, v) == Vec([i \in 1..Len(u) |-> (u[i] + v[i]) % P])
VSub(u, v) == Vec([i \in 1..Len(u) |-> (u[i] - v[i]) % P])
VScale(c, v) == Vec([i \in 1..Len(v) |-> (c * v[i]) % P])
Hadamard(u, v) == Vec([i \in 1..Len(u) |-> (u[i] * v[i]) % P])
Zeros(n) == Vec([i \in 1..n |-> 0])
Resize(v, n) == Vec([i \in 1..n |-> IF i <= Len(v) THEN v[i] ELSE 0])
Unit(n, k) == [i \in 1..n |-> IF i = k THEN 1 ELSE 0]

\* The sum over i of c[i] times the vector vs[i]: a multi-scalar
\* multiplication when the vectors are group elements.
Combine(c, vs) ==
  Vec([k \in 1..Len(vs[1]) |-> Sum([i \in 1..Len(vs) |-> c[i] * vs[i][k]])])

Log2(n) == CHOOSE k \in 0..n : 2^k = n
NextPow2(n) == IF n = 0 THEN 1 ELSE 2^(CHOOSE k \in 0..n : 2^k >= n /\ 2^k < 2 * n)

\* The bits of n, most significant first.
Bits(n, k) == [i \in 1..k |-> (n \div 2^(k - i)) % 2]

(***************************************************************************)
(* Challenges.  A transcript answers with field elements nobody controls;  *)
(* a seed <<a, b>> stands for one run of answers: the k-th request of n    *)
(* elements gets the n values from position k on of a line a*x + b.  Other *)
(* answers than lines add nothing the properties tell apart but the number *)
(* of states.  Units is for requests whose answer the code inverts.        *)
(***************************************************************************)
Challenges(seed, k, n) ==
  Vec([i \in 1..n |-> (seed[1] * (k + i) + seed[2]) % P])
Units(seed, k, n) ==
  Vec([i \in 1..n |-> 1 + ((seed[1] * (k + i) + seed[2]) % (P - 1))])

(***************************************************************************)
(* The calls a party makes on its transcript, in their order: an append is *)
(* <<label, value>>, a challenge <<label>>.  A protocol has one sequence   *)
(* for prove and one for verify, each of what that side appends: what it   *)
(* computed or committed to itself, what it was sent, what it was handed.  *)
(***************************************************************************)
ProtocolName(p) == <<"protocol-name", p>>
Asked(label, n) == [i \in 1..n |-> <<label>>]

\* The calls of Of(1), ..., Of(n), one after the other.
Each(n, Of(_)) ==
  LET upTo[i \in 0..n] == IF i = 0 THEN <<>> ELSE upTo[i - 1] \o Of(i)
  IN upTo[n]
=============================================================================

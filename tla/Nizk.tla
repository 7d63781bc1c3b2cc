-------------------------------- MODULE Nizk --------------------------------
(***************************************************************************)
(* The sigma protocols and the inner-product argument Spartan's openings   *)
(* rest on (spartan/src/nizk, and PolyEvalProof of dense_mlpoly.rs).  A    *)
(* group element is its coordinates: <<x, blind>> over one generator and   *)
(* h, a vector and a blind over several.  Every operator of a prover takes *)
(* the scalars its random tape gives and the challenge its transcript      *)
(* answers with; the verifier's takes the challenge of its own transcript. *)
(***************************************************************************)
EXTENDS MlPoly

(* KnowledgeProof: knowledge of the opening of C = <<x, r>>. *)
KnowledgeProve(x, r, t, c) ==
  [C |-> CommitScalar(x, r), alpha |-> CommitScalar(t[1], t[2]),
   z1 |-> (x * c + t[1]) % P, z2 |-> (r * c + t[2]) % P]
KnowledgeVerify(pf, C, c) ==
  CommitScalar(pf.z1, pf.z2) = VAdd(VScale(c, C), pf.alpha)
KnowledgeProverCalls(pf) ==
  <<ProtocolName("knowledge proof"), <<"C", pf.C>>, <<"alpha", pf.alpha>>, <<"c">>>>
KnowledgeVerifierCalls(pf, C) ==
  <<ProtocolName("knowledge proof"), <<"C", C>>, <<"alpha", pf.alpha>>, <<"c">>>>

(* EqualityProof: C1 and C2 open to the same value, blinds s1 and s2. *)
EqualityProve(s1, s2, t, c) ==
  [alpha |-> CommitScalar(0, t[1]), z |-> (c * (s1 - s2) + t[1]) % P]
EqualityVerify(pf, C1, C2, c) ==
  CommitScalar(0, pf.z) = VAdd(VScale(c, VSub(C1, C2)), pf.alpha)
EqualityProverCalls(v1, s1, v2, s2, pf) ==
  <<ProtocolName("equality proof"), <<"C1", CommitScalar(v1, s1)>>,
    <<"C2", CommitScalar(v2, s2)>>, <<"alpha", pf.alpha>>, <<"c">>>>
EqualityVerifierCalls(pf, C1, C2) ==
  <<ProtocolName("equality proof"), <<"C1", C1>>, <<"C2", C2>>, <<"alpha", pf.alpha>>, <<"c">>>>

(* ProductProof: Z opens to the product of what X and Y open to. *)
ProductProve(x, rX, y, rY, z, rZ, b, c) ==
  LET X == CommitScalar(x, rX)
  IN [X |-> X, Y |-> CommitScalar(y, rY), Z |-> CommitScalar(z, rZ),
      alpha |-> CommitScalar(b[1], b[2]), beta |-> CommitScalar(b[3], b[4]),
      delta |-> VAdd(VScale(b[3], X), CommitScalar(0, b[5])),
      z |-> <<(b[1] + c * x) % P, (b[2] + c * rX) % P, (b[3] + c * y) % P,
              (b[4] + c * rY) % P, (b[5] + c * (rZ - rX * y)) % P>>]
CheckEquality(Pt, X, c, gen, z1, z2) ==
  VAdd(Pt, VScale(c, X)) = VAdd(VScale(z1, gen), CommitScalar(0, z2))
ProductVerify(pf, X, Y, Z, c) ==
  /\ CheckEquality(pf.alpha, X, c, <<1, 0>>, pf.z[1], pf.z[2])
  /\ CheckEquality(pf.beta, Y, c, <<1, 0>>, pf.z[3], pf.z[4])
  /\ CheckEquality(pf.delta, Z, c, X, pf.z[3], pf.z[5])
ProductProverCalls(pf) ==
  <<ProtocolName("product proof"), <<"X", pf.X>>, <<"Y", pf.Y>>, <<"Z", pf.Z>>,
    <<"alpha", pf.alpha>>, <<"beta", pf.beta>>, <<"delta", pf.delta>>, <<"c">>>>
ProductVerifierCalls(pf, X, Y, Z) ==
  <<ProtocolName("product proof"), <<"X", X>>, <<"Y", Y>>, <<"Z", Z>>,
    <<"alpha", pf.alpha>>, <<"beta", pf.beta>>, <<"delta", pf.delta>>, <<"c">>>>

(* DotProductProof: Cy opens to the product of a with what Cx opens to. *)
DotProductProve(x, blind_x, a, blind_y, d, t, c) ==
  [delta |-> Commit(d, t[1]), beta |-> CommitScalar(Dot(a, d), t[2]),
   z |-> VAdd(VScale(c, x), d),
   z_delta |-> (c * blind_x + t[1]) % P, z_beta |-> (c * blind_y + t[2]) % P]
DotProductVerify(pf, a, Cx, Cy, c) ==
  /\ VAdd(VScale(c, Cx), pf.delta) = Commit(pf.z, pf.z_delta)
  /\ VAdd(VScale(c, Cy), pf.beta) = CommitScalar(Dot(pf.z, a), pf.z_beta)
DotProductProverCalls(x, blind_x, a, y, blind_y, pf) ==
  <<ProtocolName("dot product proof"), <<"Cx", Commit(x, blind_x)>>,
    <<"Cy", CommitScalar(y, blind_y)>>, <<"a", a>>, <<"delta", pf.delta>>,
    <<"beta", pf.beta>>, <<"c">>>>
DotProductVerifierCalls(pf, a, Cx, Cy) ==
  <<ProtocolName("dot product proof"), <<"Cx", Cx>>, <<"Cy", Cy>>, <<"a", a>>,
    <<"delta", pf.delta>>, <<"beta", pf.beta>>, <<"c">>>>

(***************************************************************************)
(* The inner-product reduction (bullet.rs).  Elements have n + 2           *)
(* coordinates: the generators G_1 .. G_n, then Q, then H.                 *)
(***************************************************************************)
Lo(v) == SubSeq(v, 1, Len(v) \div 2)
Hi(v) == SubSeq(v, Len(v) \div 2 + 1, Len(v))
LinComb(u, v, w, x) ==
  Vec([i \in 1..Len(v) |-> (v[i] * u + x[i] * w) % P])

BulletProve(n, a_vec, b_vec, blind, blinds, u) ==
  LET Q == Unit(n + 2, n + 1)
      H == Unit(n + 2, n + 2)
      Msm(scalars, bases) == Combine(scalars, bases)
      st[j \in 0..Log2(n)] ==
        IF j = 0
        THEN [a |-> a_vec, b |-> b_vec, G |-> [i \in 1..n |-> Unit(n + 2, i)],
              blind |-> blind, L |-> <<>>, R |-> <<>>]
        ELSE
          LET s == st[j - 1]
              uj == u[j]
              ui == Inv(uj)
              bl == blinds[j]
              L == Msm(Lo(s.a) \o <<Dot(Lo(s.a), Hi(s.b)), bl[1]>>,
                       Hi(s.G) \o <<Q, H>>)
              R == Msm(Hi(s.a) \o <<Dot(Hi(s.a), Lo(s.b)), bl[2]>>,
                       Lo(s.G) \o <<Q, H>>)
          IN [a |-> LinComb(uj, Lo(s.a), ui, Hi(s.a)),
              b |-> LinComb(ui, Lo(s.b), uj, Hi(s.b)),
              G |-> Vec([i \in 1..(Len(s.G) \div 2) |->
                       VAdd(VScale(ui, Lo(s.G)[i]), VScale(uj, Hi(s.G)[i]))]),
              blind |-> (s.blind + bl[1] * uj * uj + bl[2] * ui * ui) % P,
              L |-> Append(s.L, L), R |-> Append(s.R, R)]
      f == st[Log2(n)]
  IN [L |-> f.L, R |-> f.R, a_hat |-> f.a[1], b_hat |-> f.b[1],
      g_hat |-> f.G[1], blind_hat |-> f.blind]

\* The products of challenges and inverses by which generator i is scaled.
VerificationScalars(n, u) ==
  LET lg == Log2(n)
      allInv == Product([j \in 1..lg |-> Inv(u[j])])
      top(i) == CHOOSE k \in 0..lg : 2^k <= i /\ i < 2^(k + 1)
      s[i \in 0..(n - 1)] ==
        IF i = 0 THEN allInv
        ELSE (s[i - 2^top(i)] * u[lg - top(i)] * u[lg - top(i)]) % P
  IN Vec([i \in 1..n |-> s[i - 1]])

BulletVerify(pf, n, a, Gamma, u) ==
  LET s == VerificationScalars(n, u)
      sq == [j \in 1..Len(u) |-> Times(u[j], u[j])]
      invSq == [j \in 1..Len(u) |-> Times(Inv(u[j]), Inv(u[j]))]
  IN [ok |-> n = 2^Len(pf.L),
      g_hat |-> Combine(s, [i \in 1..n |-> Unit(n + 2, i)]),
      Gamma_hat |-> Combine(sq \o invSq \o <<1>>, pf.L \o pf.R \o <<Gamma>>),
      a_hat |-> Dot(a, s)]

\* Per halving: the loop of prove, and of verification_scalars.
BulletProverCalls(b) ==
  Each(Len(b.L), LAMBDA j : <<<<"L", b.L[j]>>, <<"R", b.R[j]>>, <<"u">>>>)
BulletVerifierCalls(pf) ==
  Each(Len(pf.L), LAMBDA j : <<<<"L", pf.L[j]>>, <<"R", pf.R[j]>>, <<"u">>>>)

(* DotProductProofLog. *)
ReducedDotProduct(n, b, t, c) ==
  LET y_hat == Times(b.a_hat, b.b_hat)
      H == Unit(n + 2, n + 2)
  IN [bullet |-> [L |-> b.L, R |-> b.R],
      delta |-> VAdd(VScale(t[1], b.g_hat), VScale(t[2], H)),
      beta |-> VAdd(VScale(t[1], Unit(n + 2, n + 1)), VScale(t[3], H)),
      z1 |-> (t[1] + c * y_hat) % P,
      z2 |-> (b.b_hat * (c * b.blind_hat + t[3]) + t[2]) % P]
DotProductLogProve(x, blind_x, a, y, blind_y, t, u, c) ==
  LET n == Len(x)
  IN ReducedDotProduct(n, BulletProve(n, x, a, (blind_x + blind_y) % P,
                                      [j \in 1..Log2(n) |-> <<t[4], t[5]>>], u), t, c)

\* Cx over G_1 .. G_n and H, Cy over Q and H.
DotProductLogVerify(pf, n, a, Cx, Cy, u, c) ==
  LET Gamma == VAdd(SubSeq(Cx, 1, n) \o <<0, Cx[n + 1]>>, Zeros(n) \o Cy)
      v == BulletVerify(pf.bullet, n, a, Gamma, u)
      lhs == VAdd(VScale(v.a_hat, VAdd(VScale(c, v.Gamma_hat), pf.beta)), pf.delta)
      rhs == VAdd(VScale(pf.z1, VAdd(v.g_hat, VScale(v.a_hat, Unit(n + 2, n + 1)))),
                  VScale(pf.z2, Unit(n + 2, n + 2)))
  IN v.ok /\ lhs = rhs

DotProductLogProverCalls(x, blind_x, a, y, blind_y, pf) ==
  <<ProtocolName("dot product proof (log)"), <<"Cx", Commit(x, blind_x)>>,
    <<"Cy", CommitScalar(y, blind_y)>>, <<"a", a>>>>
  \o BulletProverCalls(pf.bullet)
  \o <<<<"delta", pf.delta>>, <<"beta", pf.beta>>, <<"c">>>>
DotProductLogVerifierCalls(pf, a, Cx, Cy) ==
  <<ProtocolName("dot product proof (log)"), <<"Cx", Cx>>, <<"Cy", Cy>>, <<"a", a>>>>
  \o BulletVerifierCalls(pf.bullet)
  \o <<<<"delta", pf.delta>>, <<"beta", pf.beta>>, <<"c">>>>

(* Polynomial commitments by rows, and their openings (Hyrax). *)
CommitPoly(Z, blinds) ==
  LET R == Len(Z) \div Len(blinds)
  IN [i \in 1..Len(blinds) |-> Commit(SubSeq(Z, R * (i - 1) + 1, R * i), blinds[i])]
NoBlinds(Z) == Zeros(2^FactoredLens(NumVars(Z))[1])
HyraxCommit(Z) == CommitPoly(Z, NoBlinds(Z))

PolyEvalProve(Z, blinds, r, Zr, blind_Zr, t, u, c) ==
  LET LR == FactoredEvals(r)
  IN [proof |-> DotProductLogProve(Bound(Z, LR[1]), Dot(blinds, LR[1]), LR[2],
                                   Zr, blind_Zr, t, u, c),
      C_Zr |-> CommitScalar(Zr, blind_Zr)]

PolyEvalVerify(pf, r, C_Zr, comm, u, c) ==
  LET LR == FactoredEvals(r)
  IN DotProductLogVerify(pf, Len(LR[2]), LR[2], Combine(LR[1], comm), C_Zr, u, c)

PolyEvalProverCalls(Z, blinds, r, Zr, blind_Zr, pf) ==
  LET LR == FactoredEvals(r)
  IN <<ProtocolName("polynomial evaluation proof")>>
     \o DotProductLogProverCalls(Bound(Z, LR[1]), Dot(blinds, LR[1]), LR[2], Zr, blind_Zr, pf)
PolyEvalVerifierCalls(pf, r, C_Zr, comm) ==
  LET LR == FactoredEvals(r)
  IN <<ProtocolName("polynomial evaluation proof")>>
     \o DotProductLogVerifierCalls(pf, LR[2], Combine(LR[1], comm), C_Zr)

HyraxProve(Z, r, eval, t, u, c) ==
  PolyEvalProve(Z, NoBlinds(Z), r, eval, 0, t, u, c).proof
HyraxVerify(comm, pf, r, eval, u, c) ==
  PolyEvalVerify(pf, r, CommitScalar(eval, 0), comm, u, c)
HyraxProverCalls(Z, r, eval, pf) == PolyEvalProverCalls(Z, NoBlinds(Z), r, eval, 0, pf)
HyraxVerifierCalls(comm, pf, r, eval) ==
  PolyEvalVerifierCalls(pf, r, CommitScalar(eval, 0), comm)

\* A commitment is appended share by share between two markers; the markers
\* and the label of a share are those of the scheme.
CommitmentCalls(scheme, label, comm) ==
  <<<<label, scheme, "begin">>>>
  \o Each(Len(comm), LAMBDA i : <<<<scheme, comm[i]>>>>)
  \o <<<<label, scheme, "end">>>>
=============================================================================

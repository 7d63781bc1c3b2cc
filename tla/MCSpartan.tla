----------------------------- MODULE MCSpartan -----------------------------
(* Small Spartan sessions: one constraint (padded to two), two, and three  *)
(* (padded to four); satisfying and unsatisfying witnesses.                *)
EXTENDS SpartanProof

MCSeeds == {<<1, 1>>, <<2, 3>>, <<5, 4>>}
MCTape == <<3, 2>>

\* w1 * w1 = in, one row.
Square == InstanceNew(1, 1, 1, << <<<<0, 0, 1>>>>, <<<<0, 0, 1>>>>, <<<<0, 2, 1>>>> >>)
\* w1 * w2 = in and w1 * 1 = w2, two rows.
Two == InstanceNew(2, 2, 1, << <<<<0, 0, 1>>, <<1, 0, 1>>>>, <<<<0, 1, 1>>, <<1, 2, 1>>>>,
                               <<<<0, 3, 1>>, <<1, 1, 1>>>> >>)
\* Three rows of the synthetic generator's form, padded to four.
Three == InstanceNew(3, 2, 1, << <<<<0, 0, 1>>, <<1, 1, 1>>, <<2, 2, 1>>>>,
                                 <<<<0, 2, 1>>, <<1, 2, 2>>, <<2, 3, 1>>>>,
                                 <<<<0, 0, 1>>, <<1, 1, 2>>, <<2, 3, 1>>>> >>)
Z4 == <<2, 0, 1, 3>>
Syn == Synthetic(4, 2, 1, Z4)

Job(k, s, w, u, err, in) ==
  [kind |-> k, shape |-> s, w |-> w, u |-> u, E |-> err, input |-> in]
Plain(s, w, in) == {Job(k, s, w, 1, <<>>, in) : k \in {"nizk", "snark"}}
Relaxed(s, w, u, in) == {Job("relaxed", s, w, u, SyntheticError(s, w, u, in), in)}

\* A right and a wrong claim, under keys trimmed to two of three variables.
MCZeromorphJobs ==
  {[kind |-> "zeromorph", Z |-> <<1, 4, 2, 6>>, point |-> <<3, 5>>, max |-> 3, eval |-> e] :
     e \in {Evaluate(<<1, 4, 2, 6>>, <<3, 5>>), 0}}

MCJobs ==
  UNION {Plain(Square, <<3>>, <<2>>), Plain(Square, <<3>>, <<1>>),
         Plain(Two, <<2, 2>>, <<4>>), Plain(Two, <<2, 3>>, <<6>>),
         {Job("nizk", Three, <<5, 1>>, 1, <<>>, <<4>>)},
         {Job("snark", Syn, <<2, 0>>, 1, <<>>, <<3>>)},
         Relaxed(Two, <<2, 3>>, 3, <<5>>),
         {Job("relaxed", Two, <<2, 3>>, 3, <<1, 0>>, <<5>>)},
         Relaxed(Syn, <<2, 0>>, 2, <<3>>),
         MCZeromorphJobs}

ASSUME SyntheticSatisfied == IsSat(Syn, <<2, 0>>, 1, <<>>, <<3>>)
=============================================================================

---------------------------- MODULE SpartanProofs ----------------------------
(***************************************************************************)
(* Proofs about the Spartan session, for every field, every set of seeds   *)
(* and every set of jobs: the session is well typed.                       *)
(*                                                                         *)
(* What a stage computes plays no part: the stages of a kind are distinct, *)
(* so the one after the k-th is the (k+1)-st or the end, and the           *)
(* transcript answers with seeds and forgets none.                         *)
(***************************************************************************)
EXTENDS SpartanProof, SequenceTheorems, TLAPS

(* Stages. *)

LEMMA StagesAre ==
  ASSUME NEW kind
  PROVE  \/ StagesOf(kind) = <<"commit", "quotients", "shift", "pi">>
         \/ StagesOf(kind) = <<"commit", "phase1", "phase2", "open">>
         \/ StagesOf(kind)
              = <<"commit", "phase1", "phase2", "open", "evals", "product", "hash">>
<1> DEFINE four == <<"commit", "phase1", "phase2", "open">>
           three == <<"evals", "product", "hash">>
           seven == <<"commit", "phase1", "phase2", "open", "evals", "product", "hash">>
           T == {seven[i] : i \in 1..7}
<1>0. four \in Seq(T) /\ three \in Seq(T) /\ seven \in Seq(T)
  <2>1. /\ seven[1] = "commit" /\ seven[2] = "phase1" /\ seven[3] = "phase2"
        /\ seven[4] = "open" /\ seven[5] = "evals" /\ seven[6] = "product"
        /\ seven[7] = "hash"
    OBVIOUS
  <2>2. \A i \in 1..7 : seven[i] \in T
    OBVIOUS
  <2> HIDE DEF T
  <2>3. /\ "commit" \in T /\ "phase1" \in T /\ "phase2" \in T /\ "open" \in T
        /\ "evals" \in T /\ "product" \in T /\ "hash" \in T
    <3> HIDE DEF seven
    <3> QED BY <2>1, <2>2
  <2> QED BY <2>3
<1> HIDE DEF T
<1>1. four \o <<>> = four
  BY <1>0, ConcatEmptySeq
<1>2. four \o three = seven
  <2>2. Len(four) = 4 /\ Len(three) = 3 /\ Len(seven) = 7
    OBVIOUS
  <2>3. /\ four \o three \in Seq(T) /\ Len(four \o three) = 7
        /\ \A i \in 1..7 : (four \o three)[i] = IF i <= 4 THEN four[i] ELSE three[i - 4]
    <3> HIDE DEF four, three, seven
    <3>1. /\ four \o three \in Seq(T) /\ Len(four \o three) = Len(four) + Len(three)
          /\ \A i \in 1..Len(four) + Len(three) : (four \o three)[i] =
               IF i <= Len(four) THEN four[i] ELSE three[i - Len(four)]
      BY <1>0, ConcatProperties
    <3> QED BY <2>2, <3>1
  <2>4. \A i \in 1..7 : (four \o three)[i] = seven[i]
    <3>1. four[1] = seven[1] /\ four[2] = seven[2] /\ four[3] = seven[3] /\ four[4] = seven[4]
      OBVIOUS
    <3>2. three[1] = seven[5] /\ three[2] = seven[6] /\ three[3] = seven[7]
      OBVIOUS
    <3> HIDE DEF four, three, seven
    <3> TAKE i \in 1..7
    <3>3. i = 1 \/ i = 2 \/ i = 3 \/ i = 4 \/ i = 5 \/ i = 6 \/ i = 7
      OBVIOUS
    <3> QED BY <3>1, <3>2, <3>3, <2>3, SMTT(30)
  <2> HIDE DEF four, three, seven
  <2> QED BY <1>0, <2>2, <2>3, <2>4, SeqEqual
<1> QED BY <1>1, <1>2 DEF StagesOf

\* Stages are distinct, the first commits, and none is one of the ends.
LEMMA StagesDistinct ==
  ASSUME NEW kind
  PROVE  /\ Len(StagesOf(kind)) \in Nat /\ Len(StagesOf(kind)) > 0
         /\ StagesOf(kind)[1] = "commit"
         /\ \A i, j \in 1..Len(StagesOf(kind)) :
              StagesOf(kind)[i] = StagesOf(kind)[j] => i = j
         /\ \A i \in 1..Len(StagesOf(kind)) :
              StagesOf(kind)[i] \notin {"done", "panic", "redraw", "x0"}
<1>1. CASE StagesOf(kind) = <<"commit", "quotients", "shift", "pi">>
  BY <1>1
<1>2. CASE StagesOf(kind) = <<"commit", "phase1", "phase2", "open">>
  BY <1>2
<1>3. CASE StagesOf(kind)
             = <<"commit", "phase1", "phase2", "open", "evals", "product", "hash">>
  BY <1>3
<1> QED BY <1>1, <1>2, <1>3, StagesAre

\* Where the k-th stage is followed by the next, the last by the end.
StageAt(kind, k) == IF k = Len(StagesOf(kind)) + 1 THEN "done" ELSE StagesOf(kind)[k]

LEMMA NextStageIs ==
  ASSUME NEW kind, NEW k \in 1..Len(StagesOf(kind))
  PROVE  NextStage(kind, StagesOf(kind)[k]) = StageAt(kind, k + 1)
<1> DEFINE s == StagesOf(kind)
           i == CHOOSE j \in 1..Len(s) : s[j] = s[k]
<1>1. i \in 1..Len(s) /\ s[i] = s[k]
  OBVIOUS
<1>2. i = k
  BY <1>1, StagesDistinct
<1>3. Len(s) \in Nat
  BY StagesDistinct
<1>4. NextStage(kind, s[k]) = IF i = Len(s) THEN "done" ELSE s[i + 1]
  BY DEF NextStage
<1> HIDE DEF i
<1> QED BY <1>2, <1>3, <1>4 DEF StageAt

LEMMA OutcomeIs ==
  ASSUME NEW st, NEW ch, NEW msg
  PROVE  Outcome(st, ch, msg) \in {"ok", "panic", "redraw"}
BY DEF Outcome

LEMMA CheckIs ==
  ASSUME NEW st, NEW ch
  PROVE  Check(st, ch) \in {"ok", "error", "panic"}
<1>1. VerifyPhaseOne(ch) \in {"ok", "error", "panic"}
  BY DEF VerifyPhaseOne
<1>2. VerifyOpen(ch) \in {"ok", "error", "panic"}
  BY DEF VerifyOpen
<1> QED BY <1>1, <1>2 DEF Check

\* The oracle answers with seeds, whatever it is asked.
LEMMA AnswerKeeps ==
  ASSUME NEW tr, NEW seed \in Seeds, Answer(tr, seed),
         \A t \in DOMAIN oracle : oracle[t] \in Seeds
  PROVE  \A t \in DOMAIN oracle' : oracle'[t] \in Seeds
BY DEF Answer

StagesNow == {StagesOf(job.kind)[i] : i \in 1..Len(StagesOf(job.kind))}

LEMMA InitTypes == Init => TypeOK
<1>1. /\ 1 \in 1..Len(StagesOf(job.kind))
      /\ StagesOf(job.kind)[1] = "commit"
  BY StagesDistinct
<1> QED BY <1>1 DEF Init, TypeOK

\* The stage after one of the kind's is one of the kind's, or the end.
LEMMA NextStageTyped ==
  ASSUME NEW st \in StagesNow
  PROVE  NextStage(job.kind, st) \in {"done"} \cup StagesNow
<1>1. PICK k \in 1..Len(StagesOf(job.kind)) : st = StagesOf(job.kind)[k]
  BY DEF StagesNow
<1>2. NextStage(job.kind, st) = StageAt(job.kind, k + 1)
  BY <1>1, NextStageIs
<1>3. Len(StagesOf(job.kind)) \in Nat
  BY StagesDistinct
<1>4. CASE k = Len(StagesOf(job.kind))
  BY <1>2, <1>4 DEF StageAt
<1>5. CASE k # Len(StagesOf(job.kind))
  <2>1. k + 1 \in 1..Len(StagesOf(job.kind)) /\ k + 1 # Len(StagesOf(job.kind)) + 1
    BY <1>3, <1>5
  <2>2. NextStage(job.kind, st) = StagesOf(job.kind)[k + 1]
    BY <1>2, <2>1 DEF StageAt
  <2> QED BY <2>1, <2>2 DEF StagesNow
<1> QED BY <1>4, <1>5

LEMMA ProveStageTypes == TypeOK /\ ProveStage => TypeOK'
<1> SUFFICES ASSUME TypeOK, ProveStage PROVE TypeOK'
  OBVIOUS
<1>1. pstage \in StagesNow /\ UNCHANGED <<job, verdict>> /\ StagesNow' = StagesNow
  BY DEF TypeOK, ProveStage, StagesNow
<1>2. PICK seed \in IF Draws(pstage) THEN Seeds ELSE {<<0, 0>>} :
        /\ IF Draws(pstage) THEN Answer(ptr, seed) ELSE UNCHANGED oracle
        /\ \E msg, out :
             /\ out = Outcome(pstage, pch', msg)
             /\ pstage' = IF out = "ok" THEN NextStage(job.kind, pstage) ELSE out
  BY DEF ProveStage
<1>3. \A t \in DOMAIN oracle' : oracle'[t] \in Seeds
  <2>1. \A t \in DOMAIN oracle : oracle[t] \in Seeds
    BY DEF TypeOK
  <2>2. CASE Draws(pstage)
    BY <1>2, <2>1, <2>2, AnswerKeeps
  <2>3. CASE ~ Draws(pstage)
    BY <1>2, <2>1, <2>3
  <2> QED BY <2>2, <2>3
<1>4. pstage' \in {"done", "panic", "redraw"} \cup StagesNow
  <2>1. PICK msg, out :
          /\ out = Outcome(pstage, pch', msg)
          /\ pstage' = IF out = "ok" THEN NextStage(job.kind, pstage) ELSE out
    BY <1>2
  <2>2. out \in {"ok", "panic", "redraw"}
    BY <2>1, OutcomeIs
  <2>3. NextStage(job.kind, pstage) \in {"done"} \cup StagesNow
    BY <1>1, NextStageTyped
  <2> QED BY <2>1, <2>2, <2>3
<1> QED BY <1>1, <1>3, <1>4 DEF TypeOK, StagesNow

LEMMA VerifyStageTypes == TypeOK /\ VerifyStage => TypeOK'
<1> SUFFICES ASSUME TypeOK, VerifyStage PROVE TypeOK'
  OBVIOUS
<1>1. UNCHANGED <<job, pstage>>
  BY DEF VerifyStage
<1>2. PICK seed \in IF Draws(vstage) THEN Seeds ELSE {<<0, 0>>} :
        /\ IF Draws(vstage) THEN Answer(vtr, seed) ELSE UNCHANGED oracle
        /\ \E res, next :
             /\ res = Check(vstage, vch')
             /\ verdict' = IF res # "ok" THEN res
                           ELSE IF next = "done" THEN "accept" ELSE "none"
  BY DEF VerifyStage
<1>3. \A t \in DOMAIN oracle' : oracle'[t] \in Seeds
  <2>1. \A t \in DOMAIN oracle : oracle[t] \in Seeds
    BY DEF TypeOK
  <2>2. CASE Draws(vstage)
    BY <1>2, <2>1, <2>2, AnswerKeeps
  <2>3. CASE ~ Draws(vstage)
    BY <1>2, <2>1, <2>3
  <2> QED BY <2>2, <2>3
<1>4. verdict' \in {"none", "accept", "error", "panic"}
  <2>1. PICK res, next :
          /\ res = Check(vstage, vch')
          /\ verdict' = IF res # "ok" THEN res
                        ELSE IF next = "done" THEN "accept" ELSE "none"
    BY <1>2
  <2>2. res \in {"ok", "error", "panic"}
    BY <2>1, CheckIs
  <2> QED BY <2>1, <2>2
<1> QED BY <1>1, <1>3, <1>4 DEF TypeOK

\* The session is well typed: stages are of its kind, verdicts of the four,
\* and the transcript answers with seeds (Instance, NIZK, SNARK and
\* CommittedRelaxedSNARK of spartan, and Zeromorph, as one machine).
THEOREM SessionTypes == Spec => []TypeOK
<1>1. TypeOK /\ [Next]_vars => TypeOK'
  <2> SUFFICES ASSUME TypeOK, [Next]_vars PROVE TypeOK'
    OBVIOUS
  <2>1. CASE ProveStage
    BY <2>1, ProveStageTypes
  <2>2. CASE RedrawX
    BY <2>2 DEF RedrawX, TypeOK
  <2>3. CASE VerifyStage
    BY <2>3, VerifyStageTypes
  <2>4. CASE Finished \/ UNCHANGED vars
    BY <2>4 DEF Finished, vars, TypeOK
  <2> QED BY <2>1, <2>2, <2>3, <2>4 DEF Next
<1> QED BY <1>1, InitTypes, PTL DEF Spec

=============================================================================

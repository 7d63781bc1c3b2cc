----------------------------- MODULE CardTable -----------------------------
(***************************************************************************)
(* A committee that shuffles a deck of encrypted cards and deals them to   *)
(* players (nova/src/shuffling).  Members draw keys, the sum of the public *)
(* keys encrypts the deck, each member in turn permutes and re-encrypts    *)
(* it, and a card is dealt by blinding it for one player and opened with a *)
(* decryption share of every member.                                       *)
(*                                                                         *)
(* The group is cyclic of order Q and a point is its discrete logarithm,   *)
(* so generator * s is s and pk * s is a product; the circuits compute in  *)
(* the field of P elements.  The committee re-encrypts under the joint     *)
(* key, as the protocol tests of player_encryption.rs do.                  *)
(***************************************************************************)
EXTENDS RsShuffle

CONSTANTS
  Q,               \* the order of the group, a prime
  Members,         \* the number of committee members, with indices from 0
  Players,
  Games,           \* what may happen at a table, see Init
  GrandProductChallenges   \* pairs <<alpha, beta>>

MemberIndices == 0..(Members - 1)

ASSUME TableAssumption ==
  /\ Q \in Nat /\ Prime(Q) /\ Q > N
  /\ Members \in Nat \ {0}
  /\ GrandProductChallenges \subseteq Fe \X Fe
  /\ \A g \in Games :
       /\ g.secrets \subseteq 1..(Q - 1)
       /\ g.sortSeeds \cup g.rsSeeds \subseteq Nat \X Nat
       /\ g.rs \in [Positions -> 0..(Q - 1)]
       /\ DOMAIN g.seat \subseteq Players
       /\ g.seat \in [DOMAIN g.seat -> Positions]
       /\ g.playerSecret \in [DOMAIN g.seat -> Nat]
       /\ g.delta \in [MemberIndices \X DOMAIN g.seat -> 1..(Q - 1)]

VARIABLES
  game,            \* the seeds, randomness, seats and keys of this table
  secret,          \* member -> its secret key, 0 before it is drawn
  pk,              \* the joint public key, or NoKey
  deck,            \* the encrypted deck
  shuffled,        \* the members that have shuffled
  proof,           \* the last shuffle: what its circuit is given
  card,            \* player -> the card encrypted for it
  hand             \* player -> the outcome of its last decrypt_card

vars == <<game, secret, pk, deck, shuffled, proof, card, hand>>

NoKey == -1
NoProof == [kind |-> "none"]
NotDealt == [status |-> "none"]
Rejected == [status |-> "rejected"]
Error(why) == [ok |-> FALSE, why |-> why]
NotOpened == [out |-> Error("not tried"), right |-> FALSE, foreign |-> FALSE]

\* Sum of the points of a sequence.
PointSum(s) ==
  LET t[i \in 0..Len(s)] == IF i = 0 THEN 0 ELSE (t[i - 1] + s[i]) % Q
  IN t[Len(s)]

----------------------------------------------------------------------------
(* ElGamal. *)

Ciphertext(c1, c2) == [c1 |-> c1, c2 |-> c2]

\* Randomness that reaches only one of the two points.
AddEncryptionLayerOnePoint(ct, r, key) == Ciphertext(ct.c1, (ct.c2 + key * r) % Q)

AddEncryptionLayer(ct, r, key) ==
  Ciphertext((ct.c1 + r) % Q, (ct.c2 + key * r) % Q)

Reencrypt(cts, rs, key) ==
  Vec([i \in 1..Len(cts) |-> AddEncryptionLayer(cts[i], rs[i], key)])

\* scalar_to_base_field: a scalar of the group that is no element of the
\* circuit's field is allocated as zero.
ScalarToBaseField(r) == IF r < P THEN r ELSE 0

\* The circuit's layer: a multiple of its constant generator and one of the
\* key, by the bits of the allocated scalar, added to the two points.
RerandomizeCiphertext(ct, r, key) ==
  LET r_g == r % Q
      r_pk == (key * r) % Q
  IN Ciphertext((ct.c1 + r_g) % Q, (ct.c2 + r_pk) % Q)

\* Encryption of the point of a card with randomness r.
EncryptScalar(m, r, key) == AddEncryptionLayer(Ciphertext(0, m), r, key)

PartialDecrypt(c1, c2, s) == (c2 - c1 * s) % Q

----------------------------------------------------------------------------
(* The sort-based shuffle. *)

\* Cards paired with random values and sorted by them.
SortByValue(cts, values) ==
  LET order == SortOrder(values)
  IN Vec([p \in Positions |-> cts[order[p]]])

\* prove_as_subprotocol: the re-encrypted deck sorted by the values the seed
\* gives, with the scalars that re-encrypted it.
ProveAsSubprotocol(seed, cts, rs, key) ==
  IF Len(cts) # N THEN Error("InvalidDeckSize")
  ELSE [ok |-> TRUE, input |-> cts, rs |-> rs,
        sorted |-> SortByValue(Reencrypt(cts, rs, key),
                               GenerateRandomValues(seed, N))]

\* What the circuit enforces: one scalar for each card of the input.  It
\* computes the products of both decks and compares them in its log only.
ShuffleCircuitSatisfied(pf) == Len(pf.rs) = Len(pf.input)

\* setup: keys for Groth16, placeholders for Spartan, nothing for both.
Setup(system) ==
  IF system = "Both" THEN Error("InvalidInput")
  ELSE [ok |-> TRUE, groth16 |-> system = "Groth16"]

\* The proof of a shuffle with the keys of a setup.
ProveWithSetup(seed, cts, rs, key, setup, system) ==
  LET pf == ProveAsSubprotocol(seed, cts, rs, key)
  IN CASE ~setup.ok -> setup
       [] setup.ok /\ ~pf.ok -> pf
       [] setup.ok /\ pf.ok /\ ~ShuffleCircuitSatisfied(pf) -> Error("Synthesis")
       [] setup.ok /\ pf.ok /\ ShuffleCircuitSatisfied(pf) ->
            IF system # "Groth16" THEN Error("InvalidInput")
            ELSE IF ~setup.groth16 THEN Error("SetupNotFound") ELSE pf

----------------------------------------------------------------------------
(* Proofs that two points have the same discrete logarithm. *)

\* Poseidon over the commitments; a response of zero, which has one chance
\* in the order of the curve, is kept out by the choice of the blinding.
Challenge(tg, th) == 1 + ((tg + 3 * th) % (Q - 1))
Blindings(s, g, h) ==
  {w \in 1..(Q - 1) :
     (w + Challenge((g * w) % Q, (h * w) % Q) * s) % Q # 0}
Blinding(s, g, h) == CHOOSE w \in Blindings(s, g, h) : TRUE

\* There is such a blinding for every share that can be made at a table.
ASSUME BlindingAssumption ==
  \A g \in Games : \A ju \in DOMAIN g.delta, h \in 0..(Q - 1) :
    Blindings(g.delta[ju], 1, h) # {}

ChaumPedersenGenerate(s, g, h) ==
  LET w == Blinding(s, g, h)
      tg == (g * w) % Q
      th == (h * w) % Q
  IN [t_g |-> tg, t_h |-> th, z |-> (w + Challenge(tg, th) * s) % Q]

ChaumPedersenVerify(pf, g, h, alpha, beta) ==
  LET c == Challenge(pf.t_g, pf.t_h)
  IN /\ (g * pf.z) % Q = (pf.t_g + alpha * c) % Q
     /\ (h * pf.z) % Q = (pf.t_h + beta * c) % Q

----------------------------------------------------------------------------
(* Dealing. *)

\* A member's blinding of a card for the player with public key y.
EncryptionShare(delta, key, y) ==
  LET h == (key + y) % Q
  IN [alpha |-> delta, beta |-> (h * delta) % Q,
      proof |-> ChaumPedersenGenerate(delta, 1, h)]

VerifyShare(share, key, y) ==
  ChaumPedersenVerify(share.proof, 1, (key + y) % Q, share.alpha, share.beta)

\* Neither the number of shares nor who they come from is checked: each adds
\* a blinding that the player removes.  src is history: the card dealt.
AggregatePlayerEncryptions(ct, shares, key, y) ==
  IF \E i \in 1..Len(shares) : ~VerifyShare(shares[i], key, y) THEN Rejected
  ELSE [status |-> "dealt", src |-> ct,
        a_u |-> (ct.c1 + PointSum([i \in 1..Len(shares) |-> shares[i].alpha])) % Q,
        b_u |-> (ct.c2 + PointSum([i \in 1..Len(shares) |-> shares[i].beta])) % Q,
        d |-> PointSum([i \in 1..Len(shares) |-> shares[i].alpha])]

DecryptionShare(c, s, j) == [share |-> (c.a_u * s) % Q, member_index |-> j]

\* AggregateDecryptionShares without the check for a member's second share.
AggregateDecryptionSharesAnyMember(shares, expected) ==
  IF Len(shares) # expected THEN Error("Missing")
  ELSE IF \E i \in 1..Len(shares) : shares[i].member_index >= expected
       THEN Error("InvalidIndex")
  ELSE [ok |-> TRUE, mu |-> PointSum([i \in 1..Len(shares) |-> shares[i].share])]

\* The sum of the shares of all members, each exactly once.
AggregateDecryptionShares(shares, expected) ==
  IF Len(shares) # expected THEN Error("Missing")
  ELSE IF \E i \in 1..Len(shares) : shares[i].member_index >= expected
       THEN Error("InvalidIndex")
  ELSE IF \E i, k \in 1..Len(shares) :
            i # k /\ shares[i].member_index = shares[k].member_index
       THEN Error("Duplicate")
  ELSE [ok |-> TRUE, mu |-> PointSum([i \in 1..Len(shares) |-> shares[i].share])]

\* The table of card points: the cards are 0..N-1.
Lookup(point) ==
  IF point < N THEN [ok |-> TRUE, value |-> point] ELSE Error("NotACard")

DecryptCard(c, playerSecret, shares, expected) ==
  LET mu == AggregateDecryptionShares(shares, expected)
  IN IF ~mu.ok THEN mu
     ELSE Lookup((c.b_u - mu.mu - c.d * playerSecret) % Q)

----------------------------------------------------------------------------
(* The table. *)

Drawn == \A j \in MemberIndices : secret[j] # 0

\* A game fixes the inputs: the secrets members may draw, the seeds and
\* re-encryption scalars they may use, the seat of each player (the position of its card), the secret
\* of each player, and each member's blinding delta for each player.
Init ==
  /\ game \in Games
  /\ secret = [j \in MemberIndices |-> 0]
  /\ pk = NoKey
  /\ deck = Vec([i \in Positions |-> Ciphertext(0, i - 1)])
  /\ shuffled = {}
  /\ proof = NoProof
  /\ card = [u \in Players |-> NotDealt]
  /\ hand = [u \in Players |-> NotOpened]

DrawKey(j) ==
  /\ secret[j] = 0
  /\ \E s \in game.secrets : secret' = [secret EXCEPT ![j] = s]
  /\ UNCHANGED <<game, pk, deck, shuffled, proof, card, hand>>

\* The public keys of all members, added up.
JointKey(secrets) == PointSum([k \in 1..Members |-> secrets[k - 1]])

\* make_global_public_keys, and the cards encrypted under the result.
MakeGlobalKey ==
  /\ pk = NoKey /\ Drawn
  /\ pk' = JointKey(secret)
  /\ deck' = Vec([i \in Positions |-> EncryptScalar(i - 1, game.rs[i], pk')])
  /\ UNCHANGED <<game, secret, shuffled, proof, card, hand>>

\* A shuffle proved by prove_with_setup; an error leaves the deck alone.
SortShuffle(j) ==
  /\ pk # NoKey /\ j \notin shuffled
  /\ \E seed \in game.sortSeeds, made \in {"Groth16", "Spartan", "Both"},
        used \in {"Groth16", "Spartan", "Both"} :
       LET out == ProveWithSetup(seed, deck, game.rs, pk, Setup(made), used)
       IN IF out.ok
          THEN /\ deck' = out.sorted
               /\ shuffled' = shuffled \cup {j}
               /\ proof' = [kind |-> "sort"]
          ELSE UNCHANGED <<deck, shuffled, proof>>
  /\ UNCHANGED <<game, secret, pk, card, hand>>

\* A shuffle by apply_rs_shuffle_permutation, re-encrypted afterwards.
RsShuffleDeck(j) ==
  /\ pk # NoKey /\ j \notin shuffled
  /\ \E seed \in game.rsSeeds :
       LET witness == PrepareWitnessData(seed)
           after == ApplyPermutation(witness, deck)
           final == Reencrypt(after, game.rs, pk)
       IN /\ deck' = final
          /\ proof' = [kind |-> "rs", seed |-> seed, init |-> deck,
                       after |-> after, final |-> final, witness |-> witness,
                       samples |-> NumSamples]
  /\ shuffled' = shuffled \cup {j}
  /\ UNCHANGED <<game, secret, pk, card, hand>>

\* The share of member j for player u.
ShareFor(j, u) ==
  EncryptionShare(game.delta[<<j, u>>], pk, game.playerSecret[u] % Q)

\* The card at u's seat blinded with the shares that arrived: any of them,
\* some twice, some meant for another player.
Deal(u) ==
  /\ pk # NoKey /\ u \in DOMAIN game.seat
  /\ card[u].status # "dealt"
  /\ \E n \in 0..Members :
       \E from \in [1..n -> MemberIndices], to \in [1..n -> DOMAIN game.seat] :
         card' = [card EXCEPT ![u] =
                    AggregatePlayerEncryptions(deck[game.seat[u]],
                      [i \in 1..n |-> ShareFor(from[i], to[i])],
                      pk, game.playerSecret[u] % Q)]
  /\ UNCHANGED <<game, secret, pk, deck, shuffled, proof, hand>>

\* The player opens its card with the decryption shares it collected; right
\* is history: they are one of each member, for this card.
Open(u) ==
  /\ card[u].status = "dealt"
  /\ \E n \in 0..Members :
       \E from \in [1..n -> MemberIndices],
          of \in [1..n -> {v \in DOMAIN game.seat : card[v].status = "dealt"}] :
         hand' = [hand EXCEPT ![u] =
                   [out |-> DecryptCard(card[u], game.playerSecret[u],
                              [i \in 1..n |->
                                 DecryptionShare(card[of[i]], secret[from[i]], from[i])],
                              Members),
                    right |-> /\ {from[i] : i \in 1..n} = MemberIndices
                              /\ \A i \in 1..n : of[i] = u,
                    foreign |-> \E i \in 1..n : of[i] # u]]
  /\ UNCHANGED <<game, secret, pk, deck, shuffled, proof, card>>

Next ==
  \/ \E j \in MemberIndices : DrawKey(j) \/ SortShuffle(j) \/ RsShuffleDeck(j)
  \/ MakeGlobalKey
  \/ \E u \in Players : Deal(u) \/ Open(u)

Spec == Init /\ [][Next]_vars

----------------------------------------------------------------------------
(* Properties. *)

\* The point under all the encryption layers: every member in turn takes its
\* part off.
PlainUnder(secrets, ct) ==
  LET c2[k \in 0..Members] ==
        IF k = 0 THEN ct.c2 ELSE PartialDecrypt(ct.c1, c2[k - 1], secrets[k - 1])
  IN c2[Members]
Plain(ct) == PlainUnder(secret, ct)

\* However many members have shuffled, by whichever of the two methods and
\* with whichever failed attempts between, the committee together can still
\* decrypt the deck, and it holds every card exactly once: re-encryption in
\* prove_as_subprotocol and reencrypt_cards_with_new_randomization cancels
\* against partial_decrypt, and both sorts are permutations.
DeckKeepsCards ==
  {Plain(deck[i]) : i \in Positions} = 0..(N - 1)

\* The witness that prepare_witness_data makes is one the circuit accepts for
\* every pair of challenges, with the bits the circuit derives by itself;
\* and the order it proves is the stable partition of the deck by the bits,
\* bucket by bucket and level by level (build_level, verify_row_constraints,
\* verify_shuffle_level, rs_shuffle).  The circuit's re-encryption of a card
\* is the one made natively as long as the scalar is an element of the
\* circuit's field, and never when it is not: scalar_to_base_field loses it
\* without an error (rs_shuffle_with_reencryption).
RsProofAccepted ==
  proof.kind = "rs" =>
    LET levels == PrepareWitnessDataCircuit(proof.seed, proof.witness, proof.samples)
        idx == [p \in Positions |-> levels[LEVELS].sorted[p].idx]
    IN /\ \A c \in GrandProductChallenges :
            RsShuffleSatisfied(proof.init, proof.after, levels, c[1], c[2])
       /\ \A p \in Positions :
            RerandomizeCiphertext(proof.after[p], ScalarToBaseField(game.rs[p]), pk)
              = proof.final[p]
            <=> game.rs[p] < P
       /\ idx = StablePartition(proof.witness.bits_mat)

\* A player that opens its card with one decryption share of every member
\* sees the card that was in the deck when it was dealt, whatever subset of
\* the committee blinded it and however often; with a share missing or one
\* member's share twice decrypt_card fails rather than show another card.
\* Shares that blind for another player never get into a card.
OpensToDealtCard ==
  \A u \in Players :
    /\ hand[u].right =>
         hand[u].out = [ok |-> TRUE, value |-> Plain(card[u].src)]
    /\ ~hand[u].right /\ ~hand[u].foreign => ~hand[u].out.ok

----------------------------------------------------------------------------
(* Why they hold: the inductive invariant. *)

Point == 0..(Q - 1)
CiphertextType == [c1 : Point, c2 : Point]

CardTypes ==
  /\ game \in Games
  /\ secret \in [MemberIndices -> Point]
  /\ deck \in [Positions -> CiphertextType]
  /\ DOMAIN card = Players /\ DOMAIN hand = Players

\* The joint key is made of the keys of all members, which stay as they are.
KeyRight == pk # NoKey => Drawn /\ pk = JointKey(secret)

DeckRight ==
  IF pk = NoKey THEN \A i \in Positions : deck[i] = Ciphertext(0, i - 1)
                ELSE DeckKeepsCards

\* A dealt card is blinded by d under the key of the committee and the player
\* together, by whichever shares.
CardRight(u) ==
  card[u].status = "dealt" =>
    LET c == card[u]
    IN /\ pk # NoKey /\ u \in DOMAIN game.seat
       /\ c.src \in CiphertextType /\ Plain(c.src) \in 0..(N - 1)
       /\ c.d \in Point
       /\ c.a_u = (c.src.c1 + c.d) % Q
       /\ c.b_u = (c.src.c2 + (pk + game.playerSecret[u]) * c.d) % Q

HandRight(u) == hand[u].right => card[u].status = "dealt"

\* The last Rao-Sandelius shuffle was of a deck with the witness of its seed,
\* and encrypted again under the key that the table still has.
ProofRight ==
  proof.kind = "rs" =>
    /\ pk # NoKey
    /\ proof.witness = PrepareWitnessData(proof.seed)
    /\ proof.samples = NumSamples
    /\ proof.init \in [Positions -> CiphertextType]
    /\ proof.after = ApplyPermutation(proof.witness, proof.init)
    /\ proof.final = Reencrypt(proof.after, game.rs, pk)

CardInv ==
  /\ CardTypes /\ KeyRight /\ DeckRight
  /\ \A u \in Players : CardRight(u) /\ HandRight(u)
  /\ OpensToDealtCard
=============================================================================

---------------------------- MODULE MCCardTable ----------------------------
(* A table for TLC: four cards, two shuffle levels, a committee of two.    *)
EXTENDS CardTable, TLC

Randomness == <<2, 5, 9, 12>>
Delta(players) == [ju \in (0..1) \X players |->
                     IF ju[2] = "ann" THEN 4 + 3 * ju[1] ELSE 6 + 2 * ju[1]]

\* Many shuffles and no deals; few shuffles and two players.
MCGames ==
  { [secrets |-> {3, 7}, sortSeeds |-> {<<3, 1>>, <<0, 5>>}, rs |-> Randomness,
     rsSeeds |-> (0..10) \X {0, 1, 6}, seat |-> <<>>,
     playerSecret |-> <<>>, delta |-> <<>>],
    [secrets |-> {5}, sortSeeds |-> {}, rs |-> Randomness, rsSeeds |-> {<<5, 2>>},
     seat |-> [ann |-> 1, bob |-> 3],
     playerSecret |-> [ann |-> 8, bob |-> 5],
     delta |-> Delta({"ann", "bob"})] }

MCPlayers == {"ann", "bob"}

MCChallenges == {<<7, 2>>, <<3, 5>>, <<10, 1>>}
=============================================================================

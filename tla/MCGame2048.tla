----------------------------- MODULE MCGame2048 -----------------------------
(* A board of two rows and columns, on which a game is soon over or won.    *)
EXTENDS Game2048, TLC

\* A game that is over as soon as a 2 comes to the last cell.
NearlyOver == Game((0 :> 2 @@ 1 :> 8 @@ 2 :> 0 @@ 3 :> 4), 8)
MCOldGames == {NearlyOver}
=============================================================================

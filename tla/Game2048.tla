------------------------------ MODULE Game2048 ------------------------------
(***************************************************************************)
(* The 2048 game of one member: the page that plays it                     *)
(* (client/src/features/game2048) and the row of game2048_scores that keeps *)
(* the member's best score and the game to be gone on with                 *)
(* (src/features/game2048).  The requests of the page are on their way      *)
(* together, so the server may handle them in any order, and a page that is *)
(* closed does not wait for them.                                          *)
(*                                                                         *)
(* A cell holds the value of its tile, 0 if it is empty: nothing depends on *)
(* the ids of tiles.  What the page only shows (its copy of the best score) *)
(* and guests, who store nothing, are left out.                            *)
(***************************************************************************)
EXTENDS Integers, SequencesExt, FiniteSetsExt

CONSTANTS SIZE,         \* rows and columns of the board, 4 in the code
          WinValue,     \* the tile that wins, 2048 in the code
          MAX_SCORE,    \* of scores and tiles that the server takes
          OldGames,     \* the games that may be saved at the beginning
          MaxMoves,     \* bound: moves of the player, a visit counting as three
          MaxNew,       \* bound: new games asked for
          MaxLost       \* bound: requests lost

ASSUME GameAssumption ==
    /\ SIZE \in Nat \ {0} /\ WinValue \in Nat /\ MAX_SCORE \in Nat
    /\ MaxMoves \in Nat /\ MaxNew \in Nat /\ MaxLost \in Nat

VARIABLES page,         \* "closed" or "open"
          asked,        \* "no", "asked", "answered": GET /state of the page
          answer,       \* what the server has answered to it
          board, score, won, over, submitted,   \* of the page
          bestScore, saved,                     \* the row of the member
          sent,         \* requests on their way, in the order of sending
          finals,       \* history: scores of the games that are over
          left,         \* history: the game the player has left to go on with
          disturbed,    \* history: a request was lost or overtaken, or a won
                        \* game begun anew, which does not discard its save
          moves, news, lost              \* bounds

pageVars == <<page, asked, answer, board, score, won, over, submitted>>
rowVars == <<bestScore, saved>>
boundVars == <<moves, news, lost>>
gameVars == <<pageVars, rowVars, sent, finals, left, disturbed, boundVars>>
-----------------------------------------------------------------------------
(* The board.                                                              *)

Cells == 0..(SIZE * SIZE - 1)
Directions == {"left", "right", "up", "down"}
NoBoard == <<>>
NoGame == [board |-> NoBoard, score |-> 0]

EmptyCells(b) == {c \in Cells : b[c] = 0}

\* collapseRow: from the left, each tile takes up an equal one behind it.
\* Result: the tiles left, the points gained and the tiles made.
Merge(tile, rest) == [row |-> <<2 * tile>> \o rest.row,
                      gained |-> 2 * tile + rest.gained,
                      made |-> {2 * tile} \cup rest.made]
Keep(tile, rest) == [rest EXCEPT !.row = <<tile>> \o @]

CollapseTiles_Again(tiles) ==
    LET from[i \in 1..(Len(tiles) + 2)] ==
          IF i > Len(tiles) THEN [row |-> <<>>, gained |-> 0, made |-> {}]
          ELSE LET rest == from[i + 1]
               IN IF rest.row # <<>> /\ Head(rest.row) = tiles[i]
                  THEN Merge(tiles[i], [rest EXCEPT !.row = Tail(@)])
                  ELSE Keep(tiles[i], rest)
    IN from[1]
CollapseTiles(tiles) ==
    LET from[i \in 1..(Len(tiles) + 2)] ==
          IF i > Len(tiles) THEN [row |-> <<>>, gained |-> 0, made |-> {}]
          ELSE IF i < Len(tiles) /\ tiles[i] = tiles[i + 1]
               THEN Merge(tiles[i], from[i + 2])
               ELSE Keep(tiles[i], from[i + 1])
    IN from[1]

\* The tiles of a row, without the empty cells.
TilesOf(row) ==
    LET upTo[i \in 0..Len(row)] ==
          IF i = 0 THEN <<>>
          ELSE IF row[i] = 0 THEN upTo[i - 1] ELSE Append(upTo[i - 1], row[i])
    IN upTo[Len(row)]

CollapseRow(row) == CollapseTiles(TilesOf(row))

\* The j-th cell of the i-th line, seen from where the tiles are pushed to.
LineCell(dir, i, j) ==
    CASE dir = "left"  -> i * SIZE + j
      [] dir = "right" -> i * SIZE + (SIZE - 1 - j)
      [] dir = "up"    -> j * SIZE + i
      [] dir = "down"  -> (SIZE - 1 - j) * SIZE + i

Line(b, dir, i) == CollapseRow([j \in 1..SIZE |-> b[LineCell(dir, i, j - 1)]])

Pushed(b, dir) ==
    [c \in Cells |->
       LET p == CHOOSE q \in (0..(SIZE - 1)) \X (0..(SIZE - 1)) :
                   LineCell(dir, q[1], q[2]) = c
           row == Line(b, dir, p[1]).row
       IN IF p[2] < Len(row) THEN row[p[2] + 1] ELSE 0]

Gained_Tile(b, dir) ==
    MapThenSumSet(LAMBDA i : Line(b, dir, i).gained, 0..(SIZE - 1)) \div 2
Gained(b, dir) == MapThenSumSet(LAMBDA i : Line(b, dir, i).gained, 0..(SIZE - 1))

\* hasMoves: a cell is empty, or two neighbours are equal.
HasMoves_Rows(b) ==
    \/ EmptyCells(b) # {}
    \/ \E i \in 0..(SIZE - 1), j \in 0..(SIZE - 2) :
          b[i * SIZE + j] = b[i * SIZE + j + 1]
HasMoves(b) ==
    \/ EmptyCells(b) # {}
    \/ \E i \in 0..(SIZE - 1), j \in 0..(SIZE - 2) :
          \/ b[i * SIZE + j] = b[i * SIZE + j + 1]
          \/ b[j * SIZE + i] = b[(j + 1) * SIZE + i]

\* spawn: a 2 or a 4 on an empty cell.
Spawned(b) == {[b EXCEPT ![c] = v] : c \in EmptyCells(b), v \in {2, 4}}
FreshBoards == UNION {Spawned(b) : b \in Spawned([c \in Cells |-> 0])}
-----------------------------------------------------------------------------
(* Requests.                                                               *)

Put_BoardOnly(game) == [kind |-> "put", game |-> [board |-> game.board]]
Put(game) == [kind |-> "put", game |-> game]
Delete == [kind |-> "delete"]
Post(points) == [kind |-> "score", score |-> points]

Game(b, points) == [board |-> b, score |-> points]

\* isValidState
ValidState(game) ==
    /\ game.score \in 0..MAX_SCORE
    /\ game.board # NoBoard
    /\ \A c \in Cells : game.board[c] = 0 \/ game.board[c] \in 2..MAX_SCORE

Board == [Cells -> Nat]
GameOnBoard == [board : Board, score : Nat]
Request == [kind : {"put"}, game : GameOnBoard] \cup {Delete}
             \cup [kind : {"score"}, score : Nat]

\* A game that somebody can go on with: the pages save no other.
HasTile(b) == \E c \in Cells : b[c] # 0
Alive(game) == game # NoGame => HasTile(game.board) /\ HasMoves(game.board)

ASSUME OldGamesAssumption ==
    \A game \in OldGames : game \in GameOnBoard \cup {NoGame} /\ Alive(game)

GameTypeOK ==
    /\ page \in {"closed", "open"} /\ asked \in {"no", "asked", "answered"}
    /\ {answer, saved, left} \subseteq GameOnBoard \cup {NoGame}
    /\ board \in Board \cup {NoBoard}
    /\ score \in Nat /\ bestScore \in Nat /\ finals \subseteq Nat
    /\ {won, over, submitted, disturbed} \subseteq BOOLEAN
    /\ sent \in Seq(Request)
    /\ moves \in 0..MaxMoves
    /\ news \in 0..MaxNew /\ lost \in 0..MaxLost

Unmounted ==
    /\ page = "closed" /\ asked = "no" /\ answer = NoGame
    /\ board = NoBoard /\ score = 0
    /\ won = FALSE /\ over = FALSE /\ submitted = FALSE

GameInit ==
    /\ Unmounted
    /\ bestScore = 0 /\ saved \in OldGames
    /\ sent = <<>>
    /\ finals = {} /\ left = saved /\ disturbed = FALSE
    /\ moves = 0 /\ news = 0 /\ lost = 0
-----------------------------------------------------------------------------
(* The page.                                                               *)

\* onMounted: restoreOrNew asks for the saved game.
Open ==
    /\ page = "closed"
    /\ moves + 3 <= MaxMoves /\ moves' = moves + 3
    /\ page' = "open" /\ asked' = "asked"
    /\ UNCHANGED <<answer, board, score, won, over, submitted, rowVars, sent,
                   finals, left, disturbed, news, lost>>

Reset_KeepsSubmitted == over' = FALSE /\ score' = 0 /\ UNCHANGED submitted
Reset == over' = FALSE /\ score' = 0 /\ submitted' = FALSE

\* The answer is there: it takes the place of what the page shows, and a game
\* is a new one if none was saved.
Restore ==
    /\ asked = "answered"
    /\ asked' = "no" /\ answer' = NoGame
    /\ won' = FALSE
    /\ \/ /\ answer # NoGame
          /\ board' = answer.board /\ score' = answer.score
          /\ over' = FALSE /\ submitted' = FALSE
       \/ answer = NoGame /\ board' \in FreshBoards /\ Reset
    /\ UNCHANGED <<page, rowVars, sent, finals, left, disturbed, boundVars>>

\* submitScore and clearSavedState of a game that is over.
RequestsAtEnd_NoClear(points, done) ==
    IF points = 0 \/ done THEN <<>> ELSE <<Post(points)>>
RequestsAtEnd(points, done) ==
    (IF points = 0 \/ done THEN <<>> ELSE <<Post(points)>>) \o <<Delete>>

GameOver(b, points) ==
    /\ over' = TRUE /\ submitted' = (submitted \/ points > 0)
    /\ sent' = sent \o RequestsAtEnd(points, submitted)
    /\ finals' = finals \cup {points}
    /\ left' = NoGame

Move(dir) ==
    /\ page = "open" /\ board # NoBoard /\ ~over
    /\ moves < MaxMoves /\ moves' = moves + 1
    /\ Pushed(board, dir) # board
    /\ board' \in Spawned(Pushed(board, dir))
    /\ score' = score + Gained(board, dir)
    /\ won' = (won \/ \E i \in 0..(SIZE - 1) : WinValue \in Line(board, dir, i).made)
    /\ IF HasMoves(board') THEN UNCHANGED <<over, submitted, sent, finals, left>>
       ELSE GameOver(board', score')
    /\ UNCHANGED <<page, asked, answer, rowVars, disturbed, news, lost>>

\* startNewGame: the button beside the score.
RequestsOfNewGame_None == <<>>
RequestsOfNewGame == <<Delete>>

StartNewGame ==
    /\ page = "open" /\ news < MaxNew /\ news' = news + 1
    /\ board' \in FreshBoards /\ Reset
    /\ won' = FALSE
    /\ sent' = sent \o RequestsOfNewGame
    /\ left' = NoGame
    /\ UNCHANGED <<page, asked, answer, rowVars, finals, disturbed, moves, lost>>

\* The buttons of the overlay that tells that the game is over or won.
PlayAgain ==
    /\ page = "open" /\ (over \/ won)
    /\ news < MaxNew /\ news' = news + 1
    /\ board' \in FreshBoards /\ Reset
    /\ won' = FALSE
    /\ left' = NoGame /\ disturbed' = (disturbed \/ ~over)
    /\ UNCHANGED <<page, asked, answer, rowVars, sent, finals, moves, lost>>

GoOn ==
    /\ page = "open" /\ won /\ won' = FALSE
    /\ UNCHANGED <<page, asked, answer, board, score, over, submitted, rowVars,
                   sent, finals, left, disturbed, boundVars>>

\* onUnmounted and beforeunload: the page goes, and saveState leaves a game.
ToSave_Always == board # NoBoard
ToSave == ~over /\ score > 0

Leave ==
    /\ page = "open"
    /\ page' = "closed" /\ asked' = "no" /\ answer' = NoGame
    /\ board' = NoBoard /\ score' = 0
    /\ won' = FALSE /\ over' = FALSE /\ submitted' = FALSE
    /\ IF ToSave THEN sent' = Append(sent, Put(Game(board, score)))
       ELSE UNCHANGED sent
    /\ left' = IF ~over /\ score > 0 THEN Game(board, score) ELSE left
    /\ UNCHANGED <<rowVars, finals, disturbed, boundVars>>
-----------------------------------------------------------------------------
(* The server.                                                             *)

LoadState ==
    /\ asked = "asked" /\ asked' = "answered"
    /\ answer' = IF saved # NoGame /\ ValidState(saved) THEN saved ELSE NoGame
    /\ disturbed' = (disturbed \/ sent # <<>>)
    /\ UNCHANGED <<page, board, score, won, over, submitted, rowVars, sent, finals,
                   left, boundVars>>

\* The request fails, and the page begins a new game beside the saved one.
LoadFails ==
    /\ asked = "asked" /\ asked' = "answered"
    /\ lost < MaxLost /\ lost' = lost + 1
    /\ answer' = NoGame
    /\ disturbed' = TRUE
    /\ UNCHANGED <<page, board, score, won, over, submitted, rowVars, sent, finals,
                   left, moves, news>>

\* upsertBest
Best_Last(points) == points
Best(points) == IF points > bestScore THEN points ELSE bestScore

Handled(i) ==
    /\ sent' = RemoveAt(sent, i)
    /\ UNCHANGED <<pageVars, finals, left, moves, news>>

\* submitScore, saveState and clearState.
Handle(i) ==
    /\ i \in 1..Len(sent)
    /\ \/ /\ sent[i].kind = "score"
          /\ bestScore' = IF sent[i].score <= MAX_SCORE THEN Best(sent[i].score)
                          ELSE bestScore
          /\ UNCHANGED saved
       \/ /\ sent[i].kind = "put"
          /\ saved' = IF ValidState(sent[i].game) THEN sent[i].game ELSE saved
          /\ UNCHANGED bestScore
       \/ /\ sent[i].kind = "delete"
          /\ saved' = NoGame
          /\ UNCHANGED bestScore
    /\ disturbed' = (disturbed \/ i > 1)
    /\ Handled(i) /\ UNCHANGED lost

\* The network fails, or the tab is closed on a request without keepalive.
Lose(i) ==
    /\ i \in 1..Len(sent) /\ lost < MaxLost
    /\ lost' = lost + 1
    /\ disturbed' = TRUE
    /\ Handled(i) /\ UNCHANGED rowVars
-----------------------------------------------------------------------------
GameNext ==
    \/ Open \/ Restore \/ StartNewGame \/ PlayAgain \/ GoOn \/ Leave
    \/ LoadState \/ LoadFails
    \/ \E dir \in Directions : Move(dir)
    \/ \E i \in 1..Len(sent) : Handle(i) \/ Lose(i)

GameSpec == GameInit /\ [][GameNext]_gameVars

\* The server answers.
GameFairness == WF_gameVars(\E i \in 1..Len(sent) : Handle(i))

FairGameSpec == GameSpec /\ GameFairness
-----------------------------------------------------------------------------
(* What must hold.                                                         *)

\* A reference for collapseRow: in a run of equal tiles the first and the
\* second become one, the third and the fourth, and so on; a tile of the
\* outcome is never taken up again in the same move.
RunStart(tiles, k, i) ==
    /\ \A m \in k..i : tiles[m] = tiles[i]
    /\ k = 1 \/ tiles[k - 1] # tiles[i]
Absorbed(tiles) ==
    {i \in 1..Len(tiles) : \E k \in 1..i : (i - k) % 2 = 1 /\ RunStart(tiles, k, i)}
Staying(tiles) == 1..Len(tiles) \ Absorbed(tiles)
Place(tiles, i) == Cardinality({k \in Staying(tiles) : k <= i})

CollapsedByRuns(tiles, out) ==
    /\ Len(out.row) = Cardinality(Staying(tiles))
    /\ \A i \in Staying(tiles) :
          out.row[Place(tiles, i)] = IF i + 1 \in Absorbed(tiles) THEN 2 * tiles[i]
                                     ELSE tiles[i]
    /\ out.gained = MapThenSumSet(LAMBDA i : 2 * tiles[i], Absorbed(tiles))
    /\ out.made = {2 * tiles[i] : i \in Absorbed(tiles)}

\* (No variable matters: it is evaluated once, before the first move.)
CollapseIsByRuns ==
    moves = 0 => \A n \in 0..4 : \A tiles \in [1..n -> {2, 4, 8}] :
                    CollapsedByRuns(tiles, CollapseTiles(tiles))

\* The page calls a game over exactly when no direction moves a tile, and a
\* game that is saved can be gone on with: a page that restored one without a
\* move would neither move nor end (Game2048Page.vue:109-114, 243).
OverMeansStuck ==
    LET stuck(b) == \A dir \in Directions : Pushed(b, dir) = b
    IN /\ board # NoBoard => (over <=> stuck(board))
       /\ saved # NoGame => ~stuck(saved.board)

\* The points of a game are those its tiles are worth: a tile 2^k has brought
\* (k-1) * 2^k, less 4 for every 4 that was spawned.
TileWorth[v \in Nat] == IF v <= 2 THEN 0 ELSE 2 * TileWorth[v \div 2] + v
Worth(b) == MapThenSumSet(LAMBDA c : TileWorth[b[c]], Cells)
Earned(b, points) == points <= Worth(b) /\ (Worth(b) - points) % 4 = 0

ScoreIsEarned ==
    /\ board # NoBoard => Earned(board, score)
    /\ saved # NoGame => Earned(saved.board, saved.score)

\* The best score rises only, and to the points of a game that was played to
\* its end, however the requests of several games overtake each other
\* (game2048.queries.js:3-19).
BestOnlyRises ==
    [][bestScore' # bestScore =>
          bestScore' > bestScore /\ bestScore' \in finals]_gameVars

\* Every finished game counts, unless a request was lost: also the second one
\* of a visit, and one that was restored (Game2048Page.vue:26, 50, 223).
FinishedGamesCount == []<>(bestScore = Max(finals \cup {0}) \/ lost > 0)

\* If the requests are handled in their order, then between two visits the
\* server holds the game that was left to be gone on with, and none if that
\* game is over or a new one was begun in its place.
SavedIsWhatWasLeft ==
    page = "closed" /\ sent = <<>> /\ ~disturbed => saved = left
-----------------------------------------------------------------------------
(* What makes these inductive.                                             *)

\* The server takes the game that the page would save.
Fits == ToSave => ValidState(Game(board, score))

\* A game is saved with its board, and a score is that of a game played to
\* its end.
ScoreInv ==
    /\ board = NoBoard => score = 0
    /\ \A i \in 1..Len(sent) : sent[i].kind = "score" => sent[i].score \in finals

\* The last request about the saved game says what was left, or the row does.
AboutSaved(i) == sent[i].kind # "score"
Said(i) == IF sent[i].kind = "put" THEN sent[i].game ELSE NoGame
LastSaid ==
    \/ \E i \in 1..Len(sent) :
         /\ AboutSaved(i) /\ Said(i) = left
         /\ \A k \in (i + 1)..Len(sent) : ~AboutSaved(k)
    \/ /\ \A i \in 1..Len(sent) : ~AboutSaved(i)
       /\ saved = left

SavedInv ==
    /\ over => left = NoGame
    /\ \A i \in 1..Len(sent) : sent[i].kind = "put" => ValidState(sent[i].game)
    /\ ~disturbed => LastSaid

\* A game on the page is over when it has no moves, and none other is saved.
OverInv ==
    /\ board # NoBoard => HasTile(board) /\ (over <=> ~HasMoves(board))
    /\ Alive(saved) /\ Alive(answer)
    /\ \A i \in 1..Len(sent) : sent[i].kind = "put" => Alive(sent[i].game)
=============================================================================

------------------------------- MODULE Board --------------------------------
(***************************************************************************)
(* The board of the game engine: players and their colours, the logical    *)
(* position of a pawn, the physical cell a position stands for, and how a  *)
(* pawn advances along its own track (packages/game-engine/src/board and   *)
(* movement).  The engine fixes a side of 7 cells, four pawns per player   *)
(* and a six-faced die; they are constants here so that TLC can explore a  *)
(* small board while the theorems cover the real one.                      *)
(***************************************************************************)
EXTENDS Naturals, Integers

CONSTANTS
  NumPlayers,      \* players of the match: 2, 3 or 4
  PawnsPerPlayer,  \* pawns of a player = cells of a home diagonal (4)
  Side,            \* cells from one corner to the next (7)
  MaxDie           \* faces of the die; the highest one enters a pawn (6)

ASSUME BoardAssumption ==
  /\ NumPlayers \in 2..4
  /\ PawnsPerPlayer \in Nat \ {0}
  /\ Side \in Nat \ {0}
  /\ MaxDie \in Nat \ {0}
  /\ MaxDie < 4 * Side   \* no throw brings a pawn once around the board

(* A player is identified by its seat index. *)
Players == 0 .. (NumPlayers - 1)
Pawns   == Players \X (1 .. PawnsPerPlayer)
Owner(pawn) == pawn[1]

Colors == {"RED", "BLUE", "YELLOW", "GREEN"}

ColorByPlayerCount ==
  [n \in 2..4 |-> CASE n = 2 -> <<"RED", "YELLOW">>
                    [] n = 3 -> <<"RED", "BLUE", "GREEN">>
                    [] n = 4 -> <<"RED", "BLUE", "YELLOW", "GREEN">>]

Color(player) == ColorByPlayerCount[NumPlayers][player + 1]

PerimeterLength  == 4 * Side
PerimeterOffset  == [RED |-> 0, BLUE |-> Side, YELLOW |-> 2 * Side, GREEN |-> 3 * Side]
HomeEnd          == PawnsPerPlayer - 1

-----------------------------------------------------------------------------
(* Logical positions: OFF_BOARD, PERIMETER 0..27, HOME 0..3 and REMOVED.   *)

OffBoard     == [zone |-> "OFF_BOARD", at |-> 0]
Removed      == [zone |-> "REMOVED", at |-> 0]
Perimeter(n) == [zone |-> "PERIMETER", at |-> n]
Home(n)      == [zone |-> "HOME", at |-> n]

Positions ==
  {OffBoard, Removed}
    \union {Perimeter(n) : n \in 0 .. (PerimeterLength - 1)}
    \union {Home(n) : n \in 0 .. HomeEnd}

OnBoard(pos) == pos.zone \in {"PERIMETER", "HOME"}

(* Physical cells: one ring, whose corners are also HOME(0), and one       *)
(* diagonal of inner home cells per colour.                                *)
RingCell(n)         == [area |-> "RING", color |-> "NONE", index |-> n]
HomeCell(color, n)  == IF n = 0 THEN RingCell(PerimeterOffset[color])
                                ELSE [area |-> "DIAGONAL", color |-> color, index |-> n]
PerimeterCell(color, n) == RingCell((PerimeterOffset[color] + n) % PerimeterLength)

CoordinateOf(pos, color) ==
  IF pos.zone = "HOME" THEN HomeCell(color, pos.at)
  ELSE IF pos.at = 0 THEN HomeCell(color, 0)
  ELSE PerimeterCell(color, pos.at)

Corners == {HomeCell(color, 0) : color \in Colors}

-----------------------------------------------------------------------------
(* Advancing along the track of one pawn.                                  *)

(* One step; only called on a board position that is not the last cell.    *)
NextPosition(pos) ==
  IF pos.zone = "HOME" THEN Home(pos.at + 1)
  ELSE IF pos.at = PerimeterLength - 1 THEN Home(0)
  ELSE Perimeter(pos.at + 1)

(* The steps left before the end of the home diagonal. *)
StepsLeft(pos) ==
  IF pos.zone = "HOME" THEN HomeEnd - pos.at
                       ELSE PerimeterLength + HomeEnd - pos.at

Fits(pos, distance) == OnBoard(pos) /\ distance <= StepsLeft(pos)

(* distance steps at once; only called when they fit.                      *)
AdvancePosition(pos, distance) ==
  IF pos.zone = "HOME" THEN Home(pos.at + distance)
  ELSE IF pos.at + distance <= PerimeterLength - 1 THEN Perimeter(pos.at + distance)
  ELSE Home(pos.at + distance - PerimeterLength)

(* Cell number k of the physical path of a pawn of this colour.            *)
PathCell(pos, color, k) == CoordinateOf(AdvancePosition(pos, k), color)

=============================================================================

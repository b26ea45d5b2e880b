----------------------------- MODULE MatchView ------------------------------
(***************************************************************************)
(* What the page of a player promises to show of a match, without updates, *)
(* sequence numbers, queues or synchronisations: the board stands where    *)
(* some committed version left it, goes on by animating the versions after *)
(* it one by one, and leaves out one only if it stops, or loads an answer  *)
(* of the server in its place.  MatchClient implements it.                 *)
(***************************************************************************)
EXTENDS Naturals

VARIABLES
  committed,  \* the version of the match on the server
  shown,      \* the last version the board has animated or loaded
  board,      \* the version of the snapshot on the board
  known,      \* the last version the board has been told of
  playing,    \* the version being animated; 0 when none is
  stopped     \* something was missing since the board was loaded

viewVars == <<committed, shown, board, known, playing, stopped>>

ViewInit ==
  /\ committed \in Nat
  /\ shown = 0 /\ board = 0 /\ known = 0 /\ playing = 0
  /\ stopped = FALSE

Commit ==
  /\ committed' = committed + 1
  /\ UNCHANGED <<shown, board, known, playing, stopped>>

(* The next version after all the board knows of: animated at once, or     *)
(* when the ones before it are.                                            *)
Learn ==
  /\ known < committed
  /\ known' = known + 1
  /\ playing' = IF playing = 0 THEN known + 1 ELSE playing
  /\ UNCHANGED <<committed, shown, board, stopped>>

(* An animation ends.  The snapshot it ends with is its own or a newer one.*)
Finish ==
  /\ playing # 0
  /\ shown' = playing
  /\ board' \in playing .. committed
  /\ playing' = IF playing < known THEN playing + 1 ELSE 0
  /\ UNCHANGED <<committed, known, stopped>>

(* What waits is dropped, and not asked for a second time.                 *)
Stop ==
  /\ playing' = 0
  /\ stopped' = TRUE
  /\ UNCHANGED <<committed, shown, board, known>>

(* A snapshot of the server, and what has been heard of after it.          *)
Load(version, last) ==
  /\ shown' = version /\ board' = version
  /\ known' = last
  /\ playing' = IF last = version THEN 0 ELSE version + 1
  /\ stopped' = FALSE
  /\ UNCHANGED committed

ViewNext ==
  \/ Commit \/ Learn \/ Finish \/ Stop
  \/ \E last \in 0 .. committed : \E version \in 0 .. last : Load(version, last)

ViewSpec == ViewInit /\ [][ViewNext]_viewVars

-----------------------------------------------------------------------------

(* Nothing is on the board that has not happened, nothing older than what  *)
(* was animated, and what is animated is news; as long as nothing was      *)
(* missing the board is animated from where it stands, and otherwise up to *)
(* date with all it was told.                                              *)
ShowsWhatHappened ==
  /\ shown <= board /\ board <= committed
  /\ shown <= known /\ known <= committed
  /\ playing # 0 => shown < playing /\ playing <= known
  /\ ~ stopped => IF playing = 0 THEN known = shown ELSE playing = shown + 1

=============================================================================

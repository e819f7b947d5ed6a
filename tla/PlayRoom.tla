------------------------------ MODULE PlayRoom ------------------------------
(***************************************************************************)
(* The play counter of listening audio (core/audio/player_service.py) and  *)
(* the game session with its stars (core/session/game_session.py), two     *)
(* objects in memory that callers drive in any order.                      *)
(***************************************************************************)
EXTENDS Integers, Sequences, FiniteSets, SequencesExt

CONSTANTS NONE, Listeners, MaxPlays, Total, TwoStars, ThreeStars, MaxMoves
(* Listeners: the pairs of audio and session; the star thresholds are in   *)
(* tenths of the rate of right answers.                                    *)

VARIABLES
  count,    \* listener -> the counter of the store
  granted,  \* listener -> the plays granted since its counter was reset
  game,     \* the GameSession
  moves     \* calls made so far
room == <<count, granted, game, moves>>

Init ==
  /\ count = [l \in Listeners |-> 0] /\ granted = [l \in Listeners |-> 0]
  /\ game = [status |-> "not_started", answered |-> 0, correct |-> 0, stars |-> NONE, log |-> <<>>]
  /\ moves = 0
Move == moves < MaxMoves /\ moves' = moves + 1

\* Mutation: the count before the play is compared.
OverLimitBefore(new) == new - 1 > MaxPlays

OverLimit(new) == new > MaxPlays

(* play: the counter is incremented first; a play beyond the limit is      *)
(* refused and stays counted.                                              *)
Play(l) ==
  /\ Move
  /\ count' = [count EXCEPT ![l] = @ + 1]
  /\ granted' = IF OverLimit(count[l] + 1) THEN granted ELSE [granted EXCEPT ![l] = @ + 1]
  /\ UNCHANGED game
Reset(l) ==
  /\ Move /\ count[l] > 0
  /\ count' = [count EXCEPT ![l] = 0] /\ granted' = [granted EXCEPT ![l] = 0]
  /\ UNCHANGED game

Stars(correct, answered) ==
  IF 10 * correct >= ThreeStars * answered THEN 3 ELSE IF 10 * correct >= TwoStars * answered THEN 2 ELSE 1

Start ==
  /\ Move /\ game.status = "not_started"
  /\ game' = [game EXCEPT !.status = "in_progress"] /\ UNCHANGED <<count, granted>>

(* submit_answer does not ask how many items the game has. *)
SubmitAnswer ==
  /\ Move /\ game.status = "in_progress"
  /\ \E right \in BOOLEAN :
       LET c == game.correct + (IF right THEN 1 ELSE 0) IN
       game' = [game EXCEPT !.answered = @ + 1, !.correct = c,
                  !.log = Append(@, [right |-> right, preview |-> Stars(c, game.answered + 1)])]
  /\ UNCHANGED <<count, granted>>

\* Mutation: a game whose items are answered more than once may finish.
AllAnsweredOrMore == game.answered >= Total

AllAnswered == game.answered = Total

Finish ==
  /\ Move /\ game.status = "in_progress" /\ AllAnswered
  /\ game' = [game EXCEPT !.status = "completed", !.stars = Stars(game.correct, Total)]
  /\ UNCHANGED <<count, granted>>

Next == Start \/ SubmitAnswer \/ Finish \/ \E l \in Listeners : Play(l) \/ Reset(l)

-----------------------------------------------------------------------------
(* No listener hears an audio more often than the limit between two resets,*)
(* and the stars of a finished game are those of a run in which every item *)
(* was answered once: what the last preview promised.                      *)
PlayedFair ==
  /\ \A l \in Listeners : granted[l] <= MaxPlays /\ granted[l] <= count[l]
  /\ game.status = "completed" =>
       /\ Len(game.log) = Total
       /\ game.correct = Cardinality({n \in DOMAIN game.log : game.log[n].right})
       /\ game.stars = Last(game.log).preview
=============================================================================

-------------------------- MODULE MCQuizSubmission --------------------------
(* QuizSubmission for TLC: one of the two values is the right answer. *)
EXTENDS QuizSubmission, TLC

CONSTANTS right, wrong

MCMark == right :> 1 @@ wrong :> 0

Symmetry == Permutations(Students) \cup Permutations(Requests)
=============================================================================

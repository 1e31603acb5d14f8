----------------------------- MODULE MCLearning -----------------------------
(***************************************************************************)
(* A small instance of Learning: one task with one output.                 *)
(***************************************************************************)
EXTENDS Learning, TLC

CONSTANTS f, t1, x1, x2

OneOutput == (f :> t1)

(* One learner asks for a rule, another for a proposal; a rule for another *)
(* layer is refused.                                                       *)
Asked ==
    [layer : {"guide"}, text : {x1, x2}] \union [layer : {"other"}, text : {x1, NoText}]

Symmetry == Permutations(Contents) \union Permutations(Learners) \union Permutations(Texts)
=============================================================================

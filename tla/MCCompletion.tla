---------------------------- MODULE MCCompletion ----------------------------
(* Small instances of Completion: two tasks that may both observe both files. *)
EXTENDS Completion, TLC

CONSTANTS a, b, p, q, x, y, one, other

TwoTasks == {a, b}
TwoPaths == {p, q}
TwoTexts == {x, y}
TwoConfigs == {one, other}

\* Tasks, files, texts and configurations are only compared.
Interchangeable ==
    Permutations(TwoTasks) \cup Permutations(TwoPaths)
        \cup Permutations(TwoTexts) \cup Permutations(TwoConfigs)
=============================================================================

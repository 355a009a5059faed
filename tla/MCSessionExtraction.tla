------------------------ MODULE MCSessionExtraction ------------------------
(* SessionExtraction on small instances: the configurations choose the     *)
(* sessions, the invocations and the platform's limit.                     *)
EXTENDS SessionRefinement, TLC

(* session_race singles out no constant.  The runs with fairness use no    *)
(* symmetry.                                                               *)
Interchangeable ==
    UNION {Permutations(S) : S \in {Workers, Messages, Tokens, Keys, Sessions}}
=============================================================================

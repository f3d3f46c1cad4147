----------------------------- MODULE MCSession -----------------------------
(***************************************************************************)
(* Instances of the session of a browser tab for TLC.                      *)
(***************************************************************************)
EXTENDS Session, TLC

CONSTANTS alice, bob, p1, p2

MCSymmetry == Permutations({p1, p2})

\* What may still be running when the session ends or changes.
MCTogether == {{"login", "unlock"}, {"login", "setup"}, {"login", "change"},
               {"login", "profile"}, {"login", "request"}, {"register"}, {"verify"}}

\* The proofs about the vault are of these flows too.
ASSUME MCSeparate == Separate
=============================================================================

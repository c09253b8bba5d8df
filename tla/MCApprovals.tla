----------------------------- MODULE MCApprovals -----------------------------
(* Approvals with chains of one to three steps, one person appearing twice. *)
EXTENDS Approvals, TLC

CONSTANTS c1, c2, r1, ann, bob, eve

ChainsUpToThree == {<<bob>>, <<bob, eve>>, <<bob, eve, bob>>}

=============================================================================

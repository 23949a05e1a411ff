---------------------------- MODULE MCProposerVm ----------------------------
(* TLC instance of ProposerVm.  At the root, sa validates on n1 until time 1 *)
(* and sg on n0.  P1 rewards sa; C2 and A2 are its options.  On C2, S3 adds  *)
(* sb on n1 with another key and S4 adds sa again in its place, both         *)
(* wrapped; P3 rewards sa a second time and A4 aborts that.  O1 conflicts    *)
(* with P1 and adds sd, so that O2 and O3 reward sa while it still has a     *)
(* delegator.                                                                *)
EXTENDS ProposerVm
CONSTANTS R, P1, C2, A2, S3, S4, P3, A4, O1, O2, O3, sa, sg, sb, sd, n0, n1, k0, k1, k2

MCBlocks == {R, P1, C2, A2, S3, S4, P3, A4, O1, O2, O3}
MCParent == (P1 :> R) @@ (C2 :> P1) @@ (A2 :> P1) @@ (S3 :> C2)
              @@ (P3 :> C2) @@ (S4 :> S3) @@ (A4 :> P3)
              @@ (O1 :> R) @@ (O2 :> O1) @@ (O3 :> O2)
MCHeight == (R :> 0) @@ (P1 :> 1) @@ (C2 :> 2) @@ (A2 :> 2)
              @@ (S3 :> 3) @@ (P3 :> 3) @@ (S4 :> 4) @@ (A4 :> 4)
              @@ (O1 :> 1) @@ (O2 :> 2) @@ (O3 :> 3)
MCKind == [x \in MCBlocks |->
    CASE x \in {P1, P3, O2} -> "proposal" [] x \in {C2, O3} -> "commit"
      [] x \in {A2, A4} -> "abort" [] OTHER -> "standard"]
MCTime == [x \in MCBlocks |-> IF x \in {R, O1} THEN 0 ELSE 1]
MCTx == [x \in MCBlocks |->
    CASE x \in {P1, P3, O2, S4} -> sa [] x = S3 -> sb [] x = O1 -> sd [] OTHER -> None]
MCStakers == {sa, sg, sb, sd}
MCNode == [s \in MCStakers |-> IF s = sg THEN n0 ELSE n1]
MCWeight == (sa :> 2) @@ (sg :> 3) @@ (sb :> 1) @@ (sd :> 1)
MCEnds == (sa :> 1) @@ (sg :> 9) @@ (sb :> 5) @@ (sd :> 4)
MCReward == (sa :> 1) @@ (sg :> 0) @@ (sb :> 2) @@ (sd :> 1)
MCKey == (sa :> k1) @@ (sg :> k0) @@ (sb :> k2) @@ (sd :> None)
MCRank == (sd :> 0) @@ (sa :> 1) @@ (sb :> 2) @@ (sg :> 3)

=============================================================================

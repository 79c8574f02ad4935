---------------------------- MODULE MCBarAccess -----------------------------
(* BarAccess under TLC: one BAR of each kind, and one that is not there.     *)
EXTENDS BarAccess, TLC

MCBars == 0 .. 4
MCBar ==
  LET B(base, len, hprxm, prefetchable) ==
        [base |-> base, len |-> len, is_hprxm |-> hprxm,
         is_prefetchable |-> prefetchable]
  IN  (0 :> B(TRUE, 64, FALSE, FALSE) @@ 1 :> B(TRUE, 64, FALSE, TRUE)
       @@ 2 :> B(TRUE, 128, TRUE, TRUE) @@ 3 :> B(TRUE, 128, TRUE, FALSE)
       @@ 4 :> B(FALSE, 0, FALSE, FALSE))
MCCounts == 0 .. 65
MCCmdOffsets == {0, 3, 36, 127, 128}
MCSeekTo == {-3, 0, 1, 5}
=============================================================================

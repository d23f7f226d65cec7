----------------------------- MODULE MCAssetClaims -----------------------------
(* Two jobs that want one clip; the first may be started twice.               *)
EXTENDS AssetClaims, TLC

CONSTANTS j1, j2
TwoOne == (j1 :> 2) @@ (j2 :> 1)
================================================================================

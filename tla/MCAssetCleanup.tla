--------------------------- MODULE MCAssetCleanup ---------------------------
(* Small instances of AssetCleanup for TLC. *)
EXTENDS AssetCleanup
=============================================================================

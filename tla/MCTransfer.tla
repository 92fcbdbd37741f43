----------------------------- MODULE MCTransfer -----------------------------
(* Small instances of Transfer for TLC; with Slab = 2 a file of three      *)
(* chunks is two slabs, and one of no chunks an empty file.                *)
EXTENDS Transfer

TwoFiles == <<3, 1>>
OneFile == <<3>>
WithEmpty == <<3, 0>>
=============================================================================

---------------------------- MODULE MCDownloader ----------------------------
(* Downloader on a directory of three blocks, one of which has a child and  *)
(* another is missing.                                                      *)
EXTENDS Downloader, TLC

CONSTANTS d, e, x, y, z

MCLinks == d :> <<e, z, x>> @@ e :> <<y>> @@ x :> <<>> @@ y :> <<>> @@ z :> <<>>
=============================================================================

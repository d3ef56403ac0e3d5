--------------------------------- MODULE MCPaging ---------------------------------
(***************************************************************************)
(* Instances of Paging for TLC.                                             *)
(***************************************************************************)
EXTENDS Paging

\* Two rows share a key; rows come in at the front, the end and between.
SharedKeys == <<2, 5, 3, 1, 3, 4>>
=============================================================================

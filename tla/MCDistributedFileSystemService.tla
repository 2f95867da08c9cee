------------------- MODULE MCDistributedFileSystemService -------------------
(***************************************************************************)
(* The service on an image that a few requests fill. The paths reach two   *)
(* levels below the root and include the forms that are spelled oddly.     *)
(***************************************************************************)
EXTENDS DistributedFileSystemService, TLC

CONSTANTS a, b

MCGarbage == {[x \in Index |-> Unset]}

MCPaths == {<<a>>, <<b>>, <<a, b>>, <<a, "">>, <<a, "..", b>>, <<"">>, <<b, LongName>>}
=============================================================================

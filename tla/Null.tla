-------------------------------- MODULE Null --------------------------------
(***************************************************************************)
(* NULL, the value of a column or of a variable of the program that holds  *)
(* nothing. It is shared by the modules Shows and Members compose.         *)
(***************************************************************************)
CONSTANT NULL
=============================================================================

-------------------------------- MODULE Ascii --------------------------------
(***************************************************************************)
(* The characters that keyboard, shell and screen treat in ways of their   *)
(* own, by name.                                                           *)
(***************************************************************************)
NEWLINE == "\n"
TAB == "\t"
BACKSPACE == "BS"
SPACE == " "
=============================================================================

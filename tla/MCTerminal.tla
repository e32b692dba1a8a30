----------------------------- MODULE MCTerminal -----------------------------
(* A screen of a few characters, a buffer of two, and a user with one      *)
(* letter. The capital letter is the command to exit, the small one a      *)
(* program.                                                                *)
EXTENDS Terminal

MCExit == <<"A">>
MCPrograms == {<<"a">>}

MCRareKeys == {Back, Tab, Blank, Star, Del}
MCCharKeys == {A, Enter} \cup MCRareKeys
MCMetaKeys == {<<RAW1_LEFT_SHIFT, FALSE>>, <<RAW1_RIGHT_SHIFT, FALSE>>,
               <<RAW1_CAPS_LOCK, FALSE>>, <<RAW1_CTRL, TRUE>>, <<RAW1_ALT, FALSE>>}
=============================================================================

------------------------------ MODULE MCFiles ------------------------------
(* A host directory in which one name begins another, with a directory     *)
(* that is empty and names that are left out of the image, and the paths   *)
(* that programs name in it. The longest directory's path fills the        *)
(* buffer, so that a name after it is cut off.                             *)
EXTENDS Files

Dir(size) == [type |-> "DIR", size |-> size, bytes |-> <<>>]
File(bytes) == [type |-> "FILE", size |-> Len(bytes), bytes |-> bytes]

a == <<"a">>
ab == <<"a", "b">>
long == <<"b", "c", "d", "e", "f">>
svn == <<".", "s", "v", "n">>
up == <<".", ".">>

MCHost ==
  <<>>        :> Dir(9) @@ <<a>>      :> Dir(1)      @@ <<ab>> :> File(<<1, 2, 3>>) @@
  <<svn>>     :> Dir(2) @@ <<svn, a>> :> File(<<4>>) @@
  <<a, long>> :> Dir(4) @@ <<a, svn>> :> [type |-> "OTHER", size |-> 0, bytes |-> <<>>]

MCOpened == {<<"/">>, ab}

MCEntered == {a, ab, up, PathOf(<<a, long>>), a \o PathOf(<<up, ab>>)}

MCPaths ==
  MCOpened \cup MCEntered \cup
  {<<>>, svn, ab \o <<"/">>, <<".", "/">> \o long, up \o PathOf(<<up>>)}
=============================================================================

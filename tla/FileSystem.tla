----------------------------- MODULE FileSystem -----------------------------
(***************************************************************************)
(* The file system image and how paths are looked up in it (filesystem.h,  *)
(* filesystem.c).                                                          *)
(*                                                                         *)
(* An image is a sequence of cells, each a directory's header, a directory *)
(* entry or a byte of a file; a location is an offset in cells instead of  *)
(* bytes. Paths and names are sequences of characters, because paths are   *)
(* cut at PATH_MAX characters.                                             *)
(***************************************************************************)
EXTENDS Libc, FiniteSetsExt

CONSTANT PATH_MAX  \* 1024 in the code

ASSUME PathMaxAssumption == PATH_MAX \in Nat \ {0, 1}

Header(count) == [kind |-> "directory", count |-> count]
Entry(type, mode, size, location, name) ==
  [kind |-> "entry", type |-> type, mode |-> mode, size |-> size,
   location |-> location, name |-> name]
Byte(value) == [kind |-> "byte", value |-> value]

(* What is at a location; behind the image is memory of other use.         *)
Beyond == [kind |-> "beyond"]
Cell(image, location) == IF location < Len(image) THEN image[location + 1] ELSE Beyond

(* The entries of the directory at a location.                             *)
Entries(image, dir) ==
  [k \in 1 .. Cell(image, dir).count |-> Cell(image, dir + k)]

-----------------------------------------------------------------------------
(* The components of a path: what is between slashes and not empty.        *)
Components(path) ==
  LET Slash(k) == k > Len(path) \/ path[k] = "/"
      from[k \in 1 .. (Len(path) + 1)] ==
        IF k > Len(path) THEN <<>>
        ELSE IF Slash(k) THEN from[k + 1]
        ELSE LET end == CHOOSE e \in k .. (Len(path) + 1) :
                          Slash(e) /\ \A j \in k .. (e - 1) : ~ Slash(j)
             IN <<SubSeq(path, k, end - 1)>> \o from[end]
  IN from[1]

NotFound == -1

(* The location of the first entry of that name in a directory.            *)
lookup(image, dir, name) ==
  LET found == {k \in 1 .. Cell(image, dir).count :
                  /\ Len(Cell(image, dir + k).name) = Len(name)
                  /\ SameFirst(Cell(image, dir + k).name, name, Len(name))}
  IN IF found = {} THEN NotFound ELSE dir + Min(found)

(* The location of the entry a path leads to. The entry of the root is the *)
(* first cell. A file leads nowhere: it must be the last component, with   *)
(* no slash after it.                                                      *)
get_directory_entry(image, path) ==
  LET names == Components(path)
      found[k \in 0 .. Len(names)] ==
        IF k = 0 THEN 0
        ELSE IF found[k - 1] = NotFound THEN NotFound
        ELSE LET e == lookup(image, Cell(image, found[k - 1]).location, names[k]) IN
             IF e # NotFound /\ Cell(image, e).type = "FILE"
                  /\ (k < Len(names) \/ path[Len(path)] = "/")
             THEN NotFound ELSE e
  IN found[Len(names)]

-----------------------------------------------------------------------------
Cut(path) == SubSeq(path, 1, IF Len(path) < PATH_MAX THEN Len(path) ELSE PATH_MAX - 1)

(* "..": drop characters back to the last slash, and then the slash unless *)
(* it is the first character. Nothing makes a path of one character        *)
(* shorter. The faulty variant leaves the slash.                           *)
WithoutLastSlashed(abs) ==
  SubSeq(abs, 1, Max({0} \cup {k \in 1 .. Len(abs) : k = 1 \/ abs[k] = "/"}))
WithoutLast(abs) ==
  LET k == Max({0} \cup {j \in 1 .. Len(abs) : j = 1 \/ abs[j] = "/"})
  IN SubSeq(abs, 1, IF k > 1 THEN k - 1 ELSE k)

(* A name is added after a slash, as far as there is room. slash says what *)
(* the character in front of an empty path looks like, which is the byte   *)
(* of the stack before the buffer.                                         *)
WithName(abs, name, slash) ==
  LET separate == IF abs = <<>> THEN ~ slash ELSE abs[Len(abs)] # "/"
  IN Cut((IF separate /\ Len(abs) < PATH_MAX - 1 THEN Append(abs, "/") ELSE abs) \o name)

(* The path in abs once every component of rel has been applied to it.     *)
relative_to_absolute(base, rel, slash) ==
  LET names == Components(rel)
      abs[k \in 0 .. Len(names)] ==
        IF k = 0 THEN IF rel # <<>> /\ Head(rel) = "/" THEN <<"/">> ELSE Cut(base)
        ELSE IF names[k] = <<".">> THEN abs[k - 1]
        ELSE IF names[k] = <<".", ".">> THEN WithoutLast(abs[k - 1])
        ELSE WithName(abs[k - 1], names[k], slash)
  IN abs[Len(names)]
=============================================================================

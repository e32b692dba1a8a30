------------------------------- MODULE FsTool -------------------------------
(***************************************************************************)
(* fstool -build: how the image of the file system is made from a          *)
(* directory of the host (fstool.c).                                       *)
(*                                                                         *)
(* process_dir calls itself; frames is the stack of its activations. The   *)
(* order in which the host lists a directory is not specified. The host's  *)
(* files do not change while the image is built.                           *)
(***************************************************************************)
EXTENDS FileSystem, SequencesExt

CONSTANT Host  \* [path |-> [type, size, bytes]], a path being a sequence of names

HostTypes == {"DIR", "FILE", "OTHER"}

ASSUME HostAssumption ==
  /\ IsFiniteSet(DOMAIN Host) /\ <<>> \in DOMAIN Host /\ Host[<<>>].type = "DIR"
  /\ \A path \in DOMAIN Host :
       /\ path \in Seq(Range(path)) /\ Host[path].bytes \in Seq(Range(Host[path].bytes))
       /\ \A k \in DOMAIN path : /\ path[k] \in Seq(Range(path[k]))
                                 /\ path[k] # <<>> /\ "/" \notin Range(path[k])
       /\ Host[path].type \in HostTypes
       /\ Host[path].type = "FILE" => Host[path].size = Len(Host[path].bytes)
       /\ path # <<>> => Front(path) \in DOMAIN Host /\ Host[Front(path)].type = "DIR"

VARIABLES image,   \* out->data
          frames   \* [path, entries, diroffset, i] of every process_dir, outermost first

buildVars == <<image, frames>>

ignore_file(name) ==
  name \in {<<".">>, <<".", ".">>, <<".", "s", "v", "n">>}

(* The names of a directory that process_dir puts into the image.          *)
Listed(path) ==
  {name \in {Last(q) : q \in {r \in DOMAIN Host : r # <<>> /\ Front(r) = path}} :
     ~ ignore_file(name) /\ Host[Append(path, name)].type \in {"DIR", "FILE"}}

NewEntry(path, name) ==
  LET h == Host[Append(path, name)] IN Entry(h.type, h.type, h.size, 0, name)

(* process_dir up to its second loop: read the directory and append it,    *)
(* with locations to be filled in later.                                   *)
ListDir(path, img, stack) ==
  \E order \in SetToSeqs(Listed(path)) :
    LET entries == [k \in DOMAIN order |-> NewEntry(path, order[k])] IN
    /\ image' = img \o <<Header(Len(entries))>> \o entries
    /\ frames' = Append(stack, [path |-> path, entries |-> entries,
                                diroffset |-> Len(img), i |-> 1])

(* The mode of the root's entry is never set: it is whatever was on the    *)
(* stack. Its size is set after it has been appended, which has no effect. *)
Uninitialized == "uninitialized"

BuildInit ==
  /\ image = <<Entry("DIR", Uninitialized, 0, 1, <<"R", "O", "O", "T">>)>>
  /\ frames = <<>>

Built == Len(image) > 1 /\ frames = <<>>

(* process_dir for the root.                                               *)
Begin == Len(image) = 1 /\ ListDir(<<>>, image, <<>>)

(* The location of the next entry, once it is known. The faulty variant    *)
(* takes it after a file has been appended.                                *)
FilledLate(frame) ==
  LET size == IF frame.entries[frame.i].type = "FILE" THEN frame.entries[frame.i].size ELSE 0
  IN [frame EXCEPT !.entries[frame.i].location = Len(image) + size, !.i = @ + 1]
Filled(frame) ==
  [frame EXCEPT !.entries[frame.i].location = Len(image), !.i = @ + 1]

(* The second loop: one entry, a file or a directory, is appended.         *)
ProcessEntry ==
  /\ frames # <<>> /\ Last(frames).i <= Len(Last(frames).entries)
  /\ LET frame == Last(frames)
         entry == frame.entries[frame.i]
         path  == Append(frame.path, entry.name)
         stack == Append(Front(frames), Filled(frame))
     IN IF entry.type = "DIR" THEN ListDir(path, image, stack)
        ELSE /\ image' = image \o [k \in DOMAIN Host[path].bytes |-> Byte(Host[path].bytes[k])]
             /\ frames' = stack

(* The entries, with their locations, are copied over those in the image.  *)
FillIn ==
  /\ frames # <<>> /\ Last(frames).i > Len(Last(frames).entries)
  /\ LET frame == Last(frames) IN
     image' = [k \in DOMAIN image |->
                 LET n == k - (frame.diroffset + 1) IN
                 IF n \in DOMAIN frame.entries THEN frame.entries[n] ELSE image[k]]
  /\ frames' = Front(frames)

(* fstool -dump: what it lists, as a set, from the directory at a location *)
(* downwards.                                                              *)
dump_dir(location) ==
  LET below[dir \in {d \in 0 .. Len(image) : Cell(image, d).kind = "directory"}] ==
        UNION {LET e == Cell(image, dir + k)
                   line == [type |-> e.type, size |-> e.size, path |-> <<e.name>>]
               IN {line} \cup (IF e.type = "DIR"
                               THEN {[l EXCEPT !.path = <<e.name>> \o @] : l \in below[e.location]}
                               ELSE {})
               : k \in 1 .. Cell(image, dir).count}
  IN below[location]

BuildNext == Begin \/ ProcessEntry \/ FillIn

-----------------------------------------------------------------------------
(* The path of a host file, as a program would write it.                   *)
PathOf(names) ==
  LET path[k \in 0 .. Len(names)] ==
        IF k = 0 THEN <<>> ELSE path[k - 1] \o <<"/">> \o names[k]
  IN path[Len(names)]

(* What the host directory holds that belongs into the image.              *)
HostFiles == {path \in DOMAIN Host :
                \A k \in DOMAIN path : path[k] \in Listed(SubSeq(path, 1, k - 1))}

(* The file of an entry has these bytes.                                   *)
HoldsBytes(entry, bytes) ==
  /\ entry.size = Len(bytes)
  /\ \A k \in DOMAIN bytes : Cell(image, entry.location + k - 1) = Byte(bytes[k])

(* The finished image holds every file and directory of the host under its *)
(* path, with its type, size and bytes, every directory lists exactly its  *)
(* names, and a dump lists these and nothing else: process_dir appends     *)
(* directories and files while it still has to fill in the locations of    *)
(* earlier ones.                                                           *)
ImageFaithful ==
  Built =>
    /\ dump_dir(Cell(image, 0).location) =
         {[type |-> Host[path].type, size |-> Host[path].size, path |-> path] :
            path \in HostFiles \ {<<>>}}
    /\ \A path \in HostFiles :
         LET e == get_directory_entry(image, PathOf(path)) IN
         /\ e # NotFound
         /\ Cell(image, e).type = Host[path].type
         /\ IF Host[path].type = "FILE"
            THEN HoldsBytes(Cell(image, e), Host[path].bytes)
            ELSE LET es == Entries(image, Cell(image, e).location) IN
                 /\ {es[k].name : k \in DOMAIN es} = Listed(path)
                 /\ Len(es) = Cardinality(Listed(path))
=============================================================================

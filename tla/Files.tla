-------------------------------- MODULE Files --------------------------------
(***************************************************************************)
(* The system calls on files and directories (fscalls.c), made by          *)
(* processes on an image that fstool has built.                            *)
(*                                                                         *)
(* Each call is one step: the kernel runs a call to its end. Descriptors   *)
(* and reference counts work as in module FileDesc; here the descriptors   *)
(* are those a program has left for files, and only file handles occur.    *)
(* got is not in the code: it remembers what has been read through a       *)
(* handle.                                                                 *)
(***************************************************************************)
EXTENDS FsTool

CONSTANTS MAX_PROCESSES,  \* slots of the process table; slot 0 is not used
          MAX_FDS,        \* descriptors of a process that can hold files
          MaxHandles,     \* bound on the handles that exist at a time
          NAME_MAX,
          Paths,          \* the paths that programs name,
          Opened,         \* the ones they open
          Entered,        \* and the ones they change to
          Counts          \* the numbers of bytes they read

ASSUME FilesAssumption ==
  /\ MAX_PROCESSES \in Nat \ {0, 1} /\ MAX_FDS \in Nat /\ MaxHandles \in Nat
  /\ Opened \subseteq Paths /\ Entered \subseteq Paths
  /\ \A path \in Paths : path \in Seq(Range(path))
  /\ Counts \subseteq Nat

(* Names fit into a struct dirent and hold no "%", because getdent takes   *)
(* them for formats.                                                       *)
ASSUME NamesAssumption ==
  /\ NAME_MAX \in Nat
  /\ \A path \in DOMAIN Host : \A k \in DOMAIN path :
       Len(path[k]) <= NAME_MAX /\ "%" \notin Range(path[k])

Pids == 1 .. (MAX_PROCESSES - 1)
FDs == 0 .. (MAX_FDS - 1)
Handles == 1 .. MaxHandles
NULL == 0

VARIABLES exists, cwd, filedesc,
          handle,  \* [Handles -> struct filehandle]; free with refcount 0
          got      \* [Handles -> what has been read from it, in order]

callVars == <<exists, cwd, filedesc, handle, got>>
vars == <<buildVars, callVars>>

Unused == [refcount |-> 0, type |-> "none", entry |-> 0, pos |-> 0, entryno |-> 0, path |-> <<>>]

FilesInit ==
  /\ BuildInit
  /\ exists = {1}
  /\ cwd = [p \in Pids |-> IF p = 1 THEN <<"/">> ELSE <<>>]
  /\ filedesc = [p \in Pids |-> [fd \in FDs |-> NULL]]
  /\ handle = [h \in Handles |-> Unused]
  /\ got = [h \in Handles |-> <<>>]

FileAt(h) == Cell(image, handle[h].entry)

-----------------------------------------------------------------------------
(* What the byte before the buffer may be, which only matters while the    *)
(* path in it is empty.                                                    *)
SlashBefore(p) == IF cwd[p] = <<>> THEN BOOLEAN ELSE {FALSE}

(* The absolute path a call works on, and where it leads.                  *)
AbsPath(p, path, slash) == relative_to_absolute(cwd[p], path, slash)
Found(p, path, slash) == get_directory_entry(image, AbsPath(p, path, slash))

(* stat changes nothing; this is its answer.                               *)
syscall_stat(p, path, slash) ==
  LET e == Found(p, path, slash) IN
  IF e = NotFound THEN [r |-> "ENOENT"]
  ELSE [r |-> "0", st_mode |-> Cell(image, e).mode, st_size |-> Cell(image, e).size]

OPEN_DIRECTORY == "OPEN_DIRECTORY"
Flags == {OPEN_DIRECTORY, "O_RDONLY"}

(* The outcome of open, in the order of its checks.                        *)
OpenResult(p, path, flags, slash) ==
  LET e == Found(p, path, slash) IN
  IF \A fd \in FDs : filedesc[p][fd] # NULL THEN "EMFILE"
  ELSE IF e = NotFound THEN "ENOENT"
  ELSE IF flags = OPEN_DIRECTORY /\ Cell(image, e).type # "DIR" THEN "ENOTDIR"
  ELSE IF flags # OPEN_DIRECTORY /\ Cell(image, e).type = "DIR" THEN "EISDIR"
  ELSE "0"

(* A handle's path is not in the code: it is what was opened.              *)
new_file(e, path) ==
  [refcount |-> 1, type |-> IF Cell(image, e).type = "DIR" THEN "FH_DIR" ELSE "FH_FILE",
   entry |-> e, pos |-> 0, entryno |-> 0, path |-> Components(path)]

syscall_open(p, path, flags) ==
  \E slash \in SlashBefore(p) :
    /\ OpenResult(p, path, flags, slash) = "0"
    /\ \E h \in Handles : handle[h].refcount = 0
    /\ LET fd == Min({f \in FDs : filedesc[p][f] = NULL})
           h  == Min({k \in Handles : handle[k].refcount = 0})
       IN
       /\ handle' = [handle EXCEPT ![h] =
                       new_file(Found(p, path, slash), AbsPath(p, path, slash))]
       /\ filedesc' = [filedesc EXCEPT ![p][fd] = h]
       /\ got' = [got EXCEPT ![h] = <<>>]
    /\ UNCHANGED <<exists, cwd>>

(* How many bytes a read returns. The faulty variant forgets the position. *)
ReadCountOfAll(h, count) ==
  LET size == FileAt(h).size IN IF count > size THEN size ELSE count
ReadCount(h, count) ==
  LET size == FileAt(h).size
      pos  == handle[h].pos
  IN IF pos >= size THEN 0 ELSE IF pos + count > size THEN size - pos ELSE count

(* read from a file; a directory gives EISDIR and nothing can be written.  *)
file_read(p, fd, count) ==
  LET h == filedesc[p][fd]
      n == ReadCount(h, count)
      Next(k) == Cell(image, FileAt(h).location + handle[h].pos + k - 1)
  IN
  /\ h # NULL /\ handle[h].type = "FH_FILE"
  /\ got' = [got EXCEPT ![h] = @ \o [k \in 1 .. n |-> Next(k)]]
  /\ handle' = [handle EXCEPT ![h].pos = @ + n]
  /\ UNCHANGED <<exists, cwd, filedesc>>

(* The name is the format of an snprintf without arguments.                *)
syscall_getdent(p, fd) ==
  LET h   == filedesc[p][fd]
      dir == FileAt(h).location
      n   == handle[h].entryno
  IN
  /\ h # NULL /\ handle[h].type = "FH_DIR"
  /\ n < Cell(image, dir).count
  /\ got' = [got EXCEPT ![h] =
               Append(@, snprintf(NAME_MAX + 1, Cell(image, dir + n + 1).name, <<>>))]
  /\ handle' = [handle EXCEPT ![h].entryno = @ + 1]
  /\ UNCHANGED <<exists, cwd, filedesc>>

(* The faulty variant takes any entry for a directory.                     *)
IsDirAny(e) == e # NotFound
IsDir(e) == e # NotFound /\ Cell(image, e).type = "DIR"

syscall_chdir(p, path) ==
  \E slash \in SlashBefore(p) :
    /\ IsDir(Found(p, path, slash))
    /\ cwd' = [cwd EXCEPT ![p] = AbsPath(p, path, slash)]
    /\ UNCHANGED <<exists, filedesc, handle, got>>

(* The text in a buffer of the given size.                                 *)
syscall_getcwd(p, size) == snprintf(size, <<"%", "s">>, <<cwd[p]>>)

-----------------------------------------------------------------------------
(* The handles after the references in refs have been dropped, and those   *)
(* in more added.                                                          *)
Recount(refs, more) ==
  [h \in Handles |->
     LET n == handle[h].refcount - Cardinality({r \in refs : r[2] = h})
                + Cardinality({r \in more : r[2] = h})
     IN IF n = 0 THEN Unused ELSE [handle[h] EXCEPT !.refcount = n]]

References(p) == {<<fd, filedesc[p][fd]>> : fd \in {f \in FDs : filedesc[p][f] # NULL}}

Forget == got' = [h \in Handles |-> IF handle'[h].refcount = 0 THEN <<>> ELSE got[h]]

syscall_close(p, fd) ==
  /\ filedesc[p][fd] # NULL
  /\ handle' = Recount({<<fd, filedesc[p][fd]>>}, {})
  /\ filedesc' = [filedesc EXCEPT ![p][fd] = NULL]
  /\ Forget
  /\ UNCHANGED <<exists, cwd>>

syscall_dup2(p, oldfd, newfd) ==
  /\ oldfd # newfd /\ filedesc[p][oldfd] # NULL
  /\ handle' = Recount({r \in References(p) : r[1] = newfd}, {<<newfd, filedesc[p][oldfd]>>})
  /\ filedesc' = [filedesc EXCEPT ![p][newfd] = filedesc[p][oldfd]]
  /\ Forget
  /\ UNCHANGED <<exists, cwd>>

(* fork and vfork: the child shares the parent's handles. Its slot has     *)
(* been cleared, and only fork then copies the working directory.          *)
NewProcess(p, child, dir) ==
  /\ child \in Pids \ exists /\ \A q \in 1 .. (child - 1) : q \in exists
  /\ exists' = exists \cup {child}
  /\ cwd' = [cwd EXCEPT ![child] = dir]
  /\ filedesc' = [filedesc EXCEPT ![child] = filedesc[p]]
  /\ handle' = Recount({}, References(p))
  /\ UNCHANGED got

syscall_fork(p, child) == NewProcess(p, child, cwd[p])
syscall_vfork(p, child) == NewProcess(p, child, <<>>)

(* The end of a process closes its descriptors. Its slot is freed and      *)
(* cleared here in the same step, which the code does when its parent has  *)
(* waited and when the slot is used again. One process at least goes on.   *)
syscall_exit(p) ==
  /\ exists # {p}
  /\ exists' = exists \ {p}
  /\ handle' = Recount(References(p), {})
  /\ filedesc' = [filedesc EXCEPT ![p] = [fd \in FDs |-> NULL]]
  /\ cwd' = [cwd EXCEPT ![p] = <<>>]
  /\ Forget

(* execve looks its argument up as it is, without the working directory.   *)
execve_entry(filename) == get_directory_entry(image, filename)

Call(p) ==
  \/ \E path \in Opened, flags \in Flags : syscall_open(p, path, flags)
  \/ \E path \in Entered : syscall_chdir(p, path)
  \/ \E fd \in FDs, count \in Counts : file_read(p, fd, count)
  \/ \E fd \in FDs : syscall_getdent(p, fd)
  \/ \E fd \in FDs : syscall_close(p, fd)
  \/ \E oldfd, newfd \in FDs : syscall_dup2(p, oldfd, newfd)
  \/ \E child \in Pids : syscall_fork(p, child) \/ syscall_vfork(p, child)
  \/ syscall_exit(p)

Next ==
  \/ BuildNext /\ UNCHANGED callVars
  \/ Built /\ (\E p \in exists : Call(p)) /\ UNCHANGED buildVars

Spec == FilesInit /\ [][Next]_vars

-----------------------------------------------------------------------------
Absolute(path) == path # <<>> /\ Head(path) = "/"

(* What a path means: the names left when every component, from the working *)
(* directory on, has been applied to the names before it.                  *)
Meant(dir, path) ==
  LET names == Components(path)
      at[k \in 0 .. Len(names)] ==
        IF k = 0 THEN IF Absolute(path) THEN <<>> ELSE Components(dir)
        ELSE IF names[k] = <<".">> THEN at[k - 1]
        ELSE IF names[k] = <<".", ".">>
        THEN IF at[k - 1] = <<>> THEN <<>> ELSE Front(at[k - 1])
        ELSE Append(at[k - 1], names[k])
  IN at[Len(names)]

(* relative_to_absolute has room for it, in a working directory that has   *)
(* not been cut after a slash, and goes back only in a path that begins    *)
(* with a slash. A child of vfork begins with none.                        *)
InScope(dir, path) ==
  LET names == SelectSeq(Components(path), LAMBDA name : name \notin {<<".">>, <<".", ".">>})
  IN /\ (IF Absolute(path) THEN 1 ELSE Len(dir)) + Len(PathOf(names)) < PATH_MAX
     /\ Len(dir) > 1 => Last(dir) # "/"
     /\ Absolute(dir) \/ Absolute(path) \/ <<".", ".">> \notin Range(Components(path))

(* From every working directory a process can have, a path leads to the    *)
(* host's file of that meaning or nowhere if there is none: the text that  *)
(* relative_to_absolute edits and the search of get_directory_entry agree  *)
(* with walking the tree. What getcwd returns leads back to the working    *)
(* directory, in chdir and in execve, which skips relative_to_absolute.    *)
(* (fstool leaves the root without a size and a defined mode.)             *)
PathsResolve ==
  Built =>
    \A p \in exists : \A slash \in SlashBefore(p) :
      /\ \A path \in Paths :
           InScope(cwd[p], path) =>
             LET names == Meant(cwd[p], path) IN
             syscall_stat(p, path, slash) =
               IF names \in HostFiles
               THEN [r |-> "0",
                     st_mode |-> IF names = <<>> THEN Uninitialized ELSE Host[names].type,
                     st_size |-> IF names = <<>> THEN 0 ELSE Host[names].size]
               ELSE [r |-> "ENOENT"]
      /\ LET here == syscall_getcwd(p, PATH_MAX) IN
         Absolute(here) =>
           Found(p, here, slash) = Found(p, <<>>, slash) /\ execve_entry(here) = Found(p, <<>>, slash)

(* Every process is always in a directory that exists, whatever sequence   *)
(* of chdir, fork and vfork led there and however a path was cut.          *)
CwdIsDirectory ==
  Built => \A p \in exists :
             LET e == get_directory_entry(image, cwd[p]) IN
             e # NotFound /\ Cell(image, e).type = "DIR"

(* Processes that share a handle, through dup2, fork or vfork, take turns  *)
(* at one position: between them they are given the bytes of the file, or  *)
(* the names of the directory, in order, each once and nothing else. At    *)
(* the end of a directory no name is missing.                              *)
ReadsInOrder ==
  \A h \in Handles :
    handle[h].refcount > 0 =>
      IF handle[h].type = "FH_FILE"
      THEN LET bytes == Host[handle[h].path].bytes IN
           /\ Len(got[h]) = handle[h].pos
           /\ \A k \in DOMAIN got[h] : k <= Len(bytes) /\ got[h][k] = Byte(bytes[k])
      ELSE /\ Len(got[h]) = handle[h].entryno
           /\ Cardinality(Range(got[h])) = Len(got[h])
           /\ Range(got[h]) \subseteq Listed(handle[h].path)
           /\ handle[h].entryno = Cell(image, FileAt(h).location).count =>
                Range(got[h]) = Listed(handle[h].path)
=============================================================================

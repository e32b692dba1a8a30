------------------------------ MODULE FileDesc ------------------------------
(***************************************************************************)
(* File descriptors and handles (filedesc.c) and pipes (pipe.c).           *)
(*                                                                         *)
(* The bytes in a pipe are abstracted to how many there are (len), which   *)
(* is all that blocking, waking and end-of-file depend on. A pipe's memory *)
(* is freed exactly when both its flags are clear (check_buffer_free), so  *)
(* such a pipe can be handed out again by new_pipe.                        *)
(***************************************************************************)
EXTENDS Scheduler

wake_asserts(b) == readpid[b] # NONE => resume_asserts(readpid[b])

(* Faulty variant: the reader is resumed but stays registered.             *)
wake_up_reader_again(b) ==
  IF readpid[b] = NONE
  THEN UNCHANGED <<ready, lists, readpid>>
  ELSE resume_process(readpid[b]) /\ UNCHANGED readpid

(* Resume the one process blocked in a read of pipe b, if there is one.    *)
wake_up_reader(b) ==
  IF readpid[b] = NONE
  THEN UNCHANGED <<ready, lists, readpid>>
  ELSE /\ resume_process(readpid[b])
       /\ readpid' = [readpid EXCEPT ![b] = NONE]

(* Faulty variant: nobody is told about the data.                          *)
write_to_pipe_silently(b, count) ==
  /\ len' = [len EXCEPT ![b] = @ + count]
  /\ UNCHANGED <<ready, lists, reading, writing, readpid>>

write_to_pipe(b, count) ==
  /\ len' = [len EXCEPT ![b] = @ + count]
  /\ wake_up_reader(b)
  /\ UNCHANGED <<reading, writing>>

(* The asserts of close_filehandle, pipe_writer_destroy, pipe_reader_destroy *)
(* and check_buffer_free, on the path that closing h takes.                *)
close_asserts(h) ==
  /\ refcount[h] >= 1
  /\ refcount[h] = 1 /\ h.type = "writer" => h.p \in writing /\ wake_asserts(h.p)
  /\ refcount[h] = 1 /\ h.type = "reader" =>
       h.p \in reading /\ (h.p \notin writing => readpid[h.p] = NONE)

(* The reference counts once close_filehandle has dropped one of h.        *)
Dropped(h) == [refcount EXCEPT ![h] = @ - 1]

(* Faulty variant: closing the last writer does not wake the reader.       *)
close_filehandle_silently(h) ==
  LET Destroys(type) == refcount[h] = 1 /\ h.type = type IN
  /\ reading' = IF Destroys("reader") THEN reading \ {h.p} ELSE reading
  /\ writing' = IF Destroys("writer") THEN writing \ {h.p} ELSE writing
  /\ UNCHANGED <<ready, lists, readpid, len>>

(* close_filehandle, but for the reference count: dropping the last        *)
(* reference destroys the handle, which clears the pipe's flag and, for a  *)
(* writer, wakes the reader.                                               *)
close_filehandle(h) ==
  LET Destroys(type) == refcount[h] = 1 /\ h.type = type IN
  /\ reading' = IF Destroys("reader") THEN reading \ {h.p} ELSE reading
  /\ writing' = IF Destroys("writer") THEN writing \ {h.p} ELSE writing
  /\ IF Destroys("writer") THEN wake_up_reader(h.p)
                           ELSE UNCHANGED <<ready, lists, readpid>>
  /\ UNCHANGED len

-----------------------------------------------------------------------------
(* The handle a call names; NullHandle for a bad or closed descriptor.     *)
HandleAt(fd) == IF fd \in FDs THEN filedesc[current_process][fd] ELSE NullHandle

(* Calls that return at once and change nothing but in_syscall: getpid,    *)
(* and the error returns of the others.                                    *)
ReturnOnly ==
  /\ Return
  /\ UNCHANGED <<procVars, schedVars, fdVars, pipeVars, mailVars, killVars>>

syscall_getpid(c) == c[1] = "getpid" /\ Entering(c) /\ ReturnOnly

(* Dispatches on the handle's type. A screen write shows characters only;  *)
(* a pipe reader cannot be written to. MaxLen bounds the bytes in a pipe.  *)
syscall_write(c) ==
  LET h == HandleAt(c[2]) IN
  /\ c[1] = "write" /\ Entering(c)
  /\ IF h.type # "writer" THEN ReturnOnly
     ELSE /\ len[h.p] + c[3] <= MaxLen
          /\ IF wake_asserts(h.p)
             THEN /\ write_to_pipe(h.p, c[3])
                  /\ Return
                  /\ UNCHANGED <<procVars, current_process, fdVars, mailVars, killVars>>
             ELSE Panic

(* How many bytes a read of n from pipe b takes. The faulty variant takes  *)
(* what was asked for.                                                     *)
CopyAll(n, b) == n
CopySize(n, b) == IF n < len[b] THEN n ELSE len[b]

(* pipe_reader_read: EBADF while another process is blocked in a read;     *)
(* data if there is some; end of file if nobody can write any more;        *)
(* otherwise the caller registers as the pipe's reader and is suspended.   *)
pipe_reader_read(c, b) ==
  \/ /\ readpid[b] # NONE \/ (len[b] = 0 /\ b \notin writing)
     /\ ReturnOnly
  \/ /\ readpid[b] = NONE /\ len[b] > 0
     /\ len' = [len EXCEPT ![b] = @ - CopySize(c[3], b)]
     /\ Return
     /\ UNCHANGED <<procVars, schedVars, fdVars, reading, writing, readpid, mailVars, killVars>>
  \/ /\ readpid[b] = NONE /\ len[b] = 0 /\ b \in writing
     /\ IF suspend_asserts(current_process)
        THEN /\ readpid' = [readpid EXCEPT ![b] = current_process]
             /\ SuspendIn(c)
             /\ UNCHANGED <<procVars, current_process, fdVars, reading, writing, len,
                            mailVars, killVars>>
        ELSE Panic

syscall_read(c) ==
  LET h == HandleAt(c[2]) IN
  /\ c[1] = "read" /\ Entering(c)
  /\ IF h.type # "reader" THEN ReturnOnly ELSE pipe_reader_read(c, h.p)

syscall_close(c) ==
  LET h == HandleAt(c[2]) IN
  /\ c[1] = "close" /\ Entering(c)
  /\ IF h = NullHandle THEN ReturnOnly
     ELSE IF close_asserts(h)
     THEN /\ close_filehandle(h)
          /\ refcount' = Dropped(h)
          /\ filedesc' = [filedesc EXCEPT ![current_process][c[2]] = NullHandle]
          /\ Return
          /\ UNCHANGED <<procVars, current_process, mailVars, killVars>>
     ELSE Panic

(* c[2] is oldfd and c[3] newfd.                                           *)
syscall_dup2(c) ==
  LET h   == HandleAt(c[2])
      old == HandleAt(c[3])
  IN
  /\ c[1] = "dup2" /\ Entering(c)
  /\ IF c[3] \notin FDs \/ h = NullHandle \/ c[2] = c[3] THEN ReturnOnly
     ELSE IF old = NullHandle
     THEN /\ refcount' = [refcount EXCEPT ![h] = @ + 1]
          /\ filedesc' = [filedesc EXCEPT ![current_process][c[3]] = h]
          /\ Return
          /\ UNCHANGED <<procVars, schedVars, pipeVars, mailVars, killVars>>
     ELSE IF close_asserts(old)
     THEN /\ close_filehandle(old)
          /\ refcount' = [Dropped(old) EXCEPT ![h] = @ + 1]
          /\ filedesc' = [filedesc EXCEPT ![current_process][c[3]] = h]
          /\ Return
          /\ UNCHANGED <<procVars, current_process, mailVars, killVars>>
     ELSE Panic

(* The two lowest unused descriptors, of which pipe needs both.            *)
Unused(fd) == filedesc[current_process][fd] = NullHandle
LowestUnused(r, w) ==
  /\ r < w /\ Unused(r) /\ Unused(w)
  /\ \A fd \in 0 .. (w - 1) : Unused(fd) => fd = r

(* new_pipe, new_pipe_reader and new_pipe_writer, with the handles placed  *)
(* in descriptors r and w of the caller.                                   *)
new_pipe(b, r, w) ==
  /\ reading' = reading \cup {b}
  /\ writing' = writing \cup {b}
  /\ len' = [len EXCEPT ![b] = 0]
  /\ readpid' = [readpid EXCEPT ![b] = NONE]
  /\ refcount' = [refcount EXCEPT ![ReaderOf(b)] = 1, ![WriterOf(b)] = 1]
  /\ filedesc' = [filedesc EXCEPT ![current_process][r] = ReaderOf(b),
                                  ![current_process][w] = WriterOf(b)]

(* Pipes bounds how many pipes there are at a time.                        *)
syscall_pipe(c) ==
  /\ c[1] = "pipe" /\ Entering(c)
  /\ \/ /\ ~ \E r, w \in FDs : LowestUnused(r, w)
        /\ ReturnOnly
     \/ \E r, w \in FDs, b \in Pipes \ (reading \cup writing) :
          /\ LowestUnused(r, w)
          /\ new_pipe(b, r, w)
          /\ Return
          /\ UNCHANGED <<procVars, schedVars, mailVars, killVars>>
=============================================================================

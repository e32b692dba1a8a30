-------------------------------- MODULE Shell --------------------------------
(***************************************************************************)
(* The main loop of the shells (dsh.c; sh.c has the same), with the bytes  *)
(* of the pipe it reads (pipe.c) and the screen it writes to.              *)
(*                                                                         *)
(* A step is a system call of the shell or the work up to its next one;    *)
(* between any two, interrupts can add to the pipe. Modules Kernel and     *)
(* FileDesc show how read blocks and is woken; here it waits for len > 0.  *)
(* It never fails or ends: the programs of this model leave standard input *)
(* alone, and its writer, the kernel, does not close it. So the loop is    *)
(* not left on an error or at the end of input (dsh.c:291).                *)
(* A text that the shell or a program prints is cut to one character and   *)
(* its newline. ran is not in the code: it remembers the lines that were   *)
(* processed.                                                              *)
(***************************************************************************)
EXTENDS Libc, Screen, FiniteSetsExt

CONSTANTS BUFSIZE, MAX_ARGS,
          Exit,      \* the command that ends the shell
          Programs   \* the commands that are files in /bin

ASSUME ShellAssumption == BUFSIZE \in Nat \ {0} /\ MAX_ARGS \in Nat \ {0}

VARIABLES data, alloc, len,   \* of the pipe_buffer
          input, pos, linestart, end, done,
          at,                 \* what the shell does next
          ran

pipeVars == <<data, alloc, len>>
lineVars == <<input, pos, linestart, end>>
shellVars == <<pipeVars, lineVars, done, at, ran, screenVars>>

Garbage == "garbage"
Prompt  == <<"$">>
Reply   == <<"?", NEWLINE>>
TooLong == <<"!">>

ShellInit ==
  /\ alloc = BUFSIZE /\ len = 0 /\ data = [k \in 0 .. (BUFSIZE - 1) |-> Garbage]
  /\ input = [k \in 0 .. (2 * BUFSIZE) |-> Garbage]
  /\ pos = 0 /\ linestart = 0 /\ end = 0 /\ done = FALSE
  /\ at = "start" /\ ran = <<>>
  /\ ScreenInit

(* One byte into the pipe, whose storage is doubled when it is full. The   *)
(* faulty variant does not copy what was in it.                            *)
GrownEmpty(n) == [k \in 0 .. (n - 1) |-> Garbage]
Grown(n) == [k \in 0 .. (n - 1) |-> IF k < len THEN data[k] ELSE Garbage]

write_to_pipe(byte) ==
  /\ alloc' = IF len + 1 > alloc THEN alloc * 2 ELSE alloc
  /\ data' = [(IF len + 1 > alloc THEN Grown(alloc * 2) ELSE data) EXCEPT ![len] = byte]
  /\ len' = len + 1

-----------------------------------------------------------------------------
(* "Shell started" and the first prompt.                                   *)
Start ==
  /\ at = "start" /\ at' = "read"
  /\ write_to_screen(Reply \o Prompt)
  /\ UNCHANGED <<pipeVars, lineVars, done, ran>>

(* read of at most BUFSIZE bytes to input[pos], and the NUL after them.    *)
Read ==
  LET n == IF BUFSIZE < len THEN BUFSIZE ELSE len IN
  /\ at = "read" /\ ~ done /\ len > 0
  /\ input' = [k \in DOMAIN input |-> IF k \in pos .. (pos + n - 1) THEN data[k - pos]
                                      ELSE IF k = pos + n THEN "NUL" ELSE input[k]]
  /\ data' = IF len > n THEN memmove(data, 0, n, len - n) ELSE data
  /\ len' = len - n
  /\ end' = pos + n
  /\ at' = "echo"
  /\ UNCHANGED <<alloc, pos, linestart, done, ran, screenVars>>

Characters(from, to) == [k \in 1 .. (to - from) |-> input[from + k - 1]]

Echo ==
  /\ at = "echo" /\ at' = "scan"
  /\ write_to_screen(Characters(pos, end))
  /\ UNCHANGED <<pipeVars, lineVars, done, ran>>

(* dsh removes nothing: it compares characters with the address of "\b".   *)
rm_consecutive_chars(line) == line

(* The words of a line, of which at most max - 1 are kept.                 *)
parse_command(line, max) ==
  LET Space(k) == k > Len(line) \/ line[k] = SPACE
      from[k \in 1 .. (Len(line) + 1)] ==
        IF k > Len(line) THEN <<>>
        ELSE IF Space(k) THEN from[k + 1]
        ELSE LET stop == CHOOSE e \in k .. (Len(line) + 1) :
                           Space(e) /\ \A j \in k .. (e - 1) : ~ Space(j)
             IN <<SubSeq(line, k, stop - 1)>> \o from[stop]
      words == from[1]
  IN SubSeq(words, 1, IF Len(words) < max THEN Len(words) ELSE max - 1)

Newlines == {k \in pos .. (end - 1) : input[k] = NEWLINE}

(* Scan to the next newline and process the line before it. A program is   *)
(* run in a child, for which the shell waits. (cd and pwd call the kernel, *)
(* see module Files, and print at most a line, as an unknown command.)     *)
process_line ==
  LET eol  == Min(Newlines)
      line == Characters(linestart, eol)
      argv == parse_command(rm_consecutive_chars(line), MAX_ARGS)
  IN
  /\ at = "scan" /\ Newlines # {}
  /\ input' = [input EXCEPT ![eol] = "NUL"]
  /\ ran' = Append(ran, line)
  /\ pos' = eol + 1 /\ linestart' = eol + 1
  /\ IF argv = <<>>
     THEN write_to_screen(Prompt) /\ UNCHANGED <<at, done>>
     ELSE IF argv[1] = Exit
     THEN write_to_screen(Prompt) /\ done' = TRUE /\ UNCHANGED at
     ELSE IF argv[1] \in Programs
     THEN at' = "wait" /\ UNCHANGED <<done, screenVars>>
     ELSE write_to_screen(Reply \o Prompt) /\ UNCHANGED <<at, done>>
  /\ UNCHANGED <<pipeVars, end>>

(* The program of run_program prints something and ends; waitpid returns.  *)
ProgramEnds ==
  /\ at = "wait" /\ at' = "scan"
  /\ write_to_screen(Reply \o Prompt)
  /\ UNCHANGED <<pipeVars, lineVars, done, ran>>

(* No newline is left: what there is of a line moves to the beginning of   *)
(* the buffer and, if it fills half of it, is dropped.                     *)
Shift ==
  LET rest == end - linestart IN
  /\ at = "scan" /\ Newlines = {}
  /\ input' = memmove(input, 0, linestart, rest)
  /\ linestart' = 0 /\ end' = 0
  /\ IF rest >= BUFSIZE
     THEN pos' = 0 /\ write_to_screen(TooLong)
     ELSE pos' = rest /\ UNCHANGED screenVars
  /\ at' = IF done THEN "exited" ELSE "read"
  /\ UNCHANGED <<pipeVars, done, ran>>

ShellStep == Start \/ Read \/ Echo \/ process_line \/ ProgramEnds \/ Shift
=============================================================================

------------------------------ MODULE Terminal ------------------------------
(***************************************************************************)
(* From the keyboard to the screen: a user types, every byte interrupts,   *)
(* the driver fills the pipe that is the shell's standard input, and the   *)
(* shell echoes, collects lines and processes them.                        *)
(***************************************************************************)
EXTENDS Keyboard, Shell, Functions

vars == <<keyVars, shellVars>>

Init == KeyboardInit /\ ShellInit

(* The rest of the kernel's part in a keyboard interrupt, the context      *)
(* switch, is in module Kernel. reboot does not return.                    *)
keyboard_handler ==
  LET code == Head(wire)
      char == convert(Flags(kbd_status, code), code)
  IN
  /\ wire # <<>>
  /\ wire' = Tail(wire)
  /\ kbd_status' = Flags(kbd_status, code)
  /\ rebooted' = Salute(kbd_status, char)
  /\ IF char # NoChar /\ ~ rebooted' THEN write_to_pipe(char) ELSE UNCHANGED pipeVars
  /\ UNCHANGED <<held, lost, capitals, typed, chars, rare, metas,
                 lineVars, done, at, ran, screenVars>>

Next ==
  /\ ~ rebooted
  /\ \/ UserTypes /\ UNCHANGED shellVars
     \/ keyboard_handler
     \/ ShellStep /\ UNCHANGED keyVars

Spec == Init /\ [][Next]_vars

-----------------------------------------------------------------------------
(* The lines that were typed, without those not ended yet.                 *)
TypedLines ==
  LET ends == {k \in DOMAIN typed : typed[k] = NEWLINE}
      Begin(k) == Max({0} \cup {j \in ends : j < k}) + 1
      Nth(n) == CHOOSE k \in ends : Cardinality({j \in ends : j <= k}) = n
  IN [n \in 1 .. Cardinality(ends) |-> SubSeq(typed, Begin(Nth(n)), Nth(n) - 1)]

EndsWith(s, t) == Len(t) <= Len(s) /\ SubSeq(s, Len(s) - Len(t) + 1, Len(s)) = t

(* Neither the buffer of the shell nor the pipe is overrun.                *)
BuffersFit == end <= 2 * BUFSIZE /\ len <= alloc

(* The shell processes the lines that were typed, each once and in order,  *)
(* however the bytes are spread over its reads. A line shorter than        *)
(* BUFSIZE is processed as it was typed, of a longer one at least no other *)
(* characters than its last. When the shell waits for input and no byte is *)
(* on its way, no line is left over. input and data are never overrun.     *)
LinesIntact ==
  /\ Len(ran) <= Len(TypedLines)
  /\ \A n \in DOMAIN ran :
       /\ EndsWith(TypedLines[n], ran[n])
       /\ Len(TypedLines[n]) < BUFSIZE => ran[n] = TypedLines[n]
  /\ at = "read" /\ len = 0 /\ wire = <<>> => Len(ran) = Len(TypedLines)
  /\ BuffersFit

(* dsh.c:285: "Since we have a fixed size buffer, ignore any lines that    *)
(* won't fit". What is processed is a whole line, or the empty end of one.   *)
LongLinesIgnored == \A n \in DOMAIN ran : ran[n] \in Range(TypedLines) \cup {<<>>}
=============================================================================

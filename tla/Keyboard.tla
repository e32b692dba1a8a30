------------------------------ MODULE Keyboard ------------------------------
(***************************************************************************)
(* The keyboard and its driver (keyboard.c).                               *)
(*                                                                         *)
(* A key sends a make code when it goes down and the same plus 0x80 when   *)
(* it comes up, some keys after the byte 0xE0; every byte is an interrupt  *)
(* of its own. The four tables are cut to keys that they treat in          *)
(* different ways. The lamps of the lock keys are left out, and so are the *)
(* shift codes that some keyboards send on their own around extended keys. *)
(*                                                                         *)
(* held, lost, wire, capitals and typed are not in the code. They are what *)
(* a user does: the keys that are down, the bytes on their way, whether    *)
(* the lamp of caps lock is on, and the characters that were meant. The    *)
(* driver has one flag for two keys of a kind, left and right, and clears  *)
(* it when either comes up (keyboard.c:155): lost has the flags of which a *)
(* key came up while the other stayed down and none went down since.       *)
(***************************************************************************)
EXTENDS Integers, Sequences, FiniteSets, Ascii

RAW1_CTRL        == 29  \* 0x1D, left and right
RAW1_LEFT_SHIFT  == 42  \* 0x2A
RAW1_RIGHT_SHIFT == 54  \* 0x36
RAW1_ALT         == 56  \* 0x38, left and right
RAW1_CAPS_LOCK   == 58  \* 0x3A
RAW1_NUM_LOCK    == 69  \* 0x45
RAW1_SCROLL_LOCK == 70  \* 0x46

A == 30
Enter == 28
Back == 14
Tab == 15
Blank == 57
Star == 55     \* a character in the shifted tables only
Del == 83
Release == 128
Extended == 224

(* The keys of the keyboard, by make code, and those sent after 0xE0.      *)
CONSTANTS CharKeys,   \* pressed and released at once
          RareKeys,   \* those of them typed at most MaxRare times
          MetaKeys,   \* held down for a while: <<make code, extended>>
          MaxChars,   \* bound on the character keys typed
          MaxRare,
          MaxMetas    \* bound on the times a meta key goes down

VARIABLES kbd_status, rebooted,
          held, lost, wire, capitals, typed, chars, rare, metas

keyVars == <<kbd_status, rebooted, held, lost, wire, capitals, typed, chars, rare, metas>>

NoChar == "0"

KeyCodes == {A, Enter, Back, Tab, Blank, Star, Del}

ASSUME KeyboardAssumption ==
  /\ CharKeys \subseteq KeyCodes
  /\ MetaKeys \subseteq ((0 .. (Release - 1)) \ KeyCodes) \X BOOLEAN

key_map == [key \in KeyCodes |->
  CASE key = A -> "a" [] key = Enter -> NEWLINE [] key = Back -> BACKSPACE [] key = Tab -> TAB
    [] key = Blank -> SPACE [] key = Star -> NoChar [] key = Del -> "KEY_DEL"]
key_map_shift == [key_map EXCEPT ![A] = "A", ![Star] = "*"]
key_map_caps == [key_map EXCEPT ![A] = "A"]
key_map_caps_shift == [key_map EXCEPT ![Star] = "*"]

(* The flag a key controls, for as long as it is held.                     *)
MetaFlag(key) ==
  CASE key = RAW1_ALT -> "ALT"
    [] key = RAW1_CTRL -> "CTRL"
    [] key \in {RAW1_LEFT_SHIFT, RAW1_RIGHT_SHIFT} -> "SHIFT"
    [] OTHER -> "none"

HoldFlags == {"ALT", "CTRL", "SHIFT"}
HeldFlags(keys) == {MetaFlag(key[1]) : key \in keys}

LockFlag(key) ==
  CASE key = RAW1_SCROLL_LOCK -> "SCRL"
    [] key = RAW1_NUM_LOCK -> "NUM"
    [] key = RAW1_CAPS_LOCK -> "CAPS"
    [] OTHER -> "none"

(* The flags after a make code.                                            *)
FlagsDown(status, key) ==
  LET meta == MetaFlag(key)
      lock == LockFlag(key)
  IN IF meta # "none" THEN status \cup {meta}
     ELSE IF lock \in status THEN status \ {lock}
     ELSE IF lock # "none" THEN status \cup {lock} ELSE status

(* The flags after a byte. 0xE0 looks like the release of a key 0x60.      *)
(* The faulty variant forgets the release of the right shift key.          *)
FlagsLeftOnly(status, code) ==
  IF code < Release THEN FlagsDown(status, code)
  ELSE IF code - Release = RAW1_RIGHT_SHIFT THEN status
  ELSE status \ {MetaFlag(code - Release)}
Flags(status, code) ==
  IF code < Release THEN FlagsDown(status, code)
  ELSE status \ {MetaFlag(code - Release)}

(* The character convert returns, by the flags. Meta and lock keys have    *)
(* none, and are not in the tables here.                                   *)
convert(status, code) ==
  LET map == IF "CAPS" \in status
             THEN IF "SHIFT" \in status THEN key_map_caps_shift ELSE key_map_caps
             ELSE IF "SHIFT" \in status THEN key_map_shift ELSE key_map
  IN IF code \in DOMAIN map THEN map[code] ELSE NoChar

Salute(status, char) == {"CTRL", "ALT"} \subseteq status /\ char = "KEY_DEL"

KeyboardInit ==
  /\ kbd_status = {} /\ rebooted = FALSE
  /\ held = {} /\ lost = {} /\ wire = <<>> /\ capitals = FALSE
  /\ typed = <<>> /\ chars = 0 /\ rare = 0 /\ metas = 0

-----------------------------------------------------------------------------
Bytes(key, extended) == IF extended THEN <<Extended, key>> ELSE <<key>>

(* What a user means by a character key: letters are capitals when a shift *)
(* key is down or caps lock is on, but not both.                           *)
Meant(key) ==
  LET shifted == "SHIFT" \in HeldFlags(held) IN
  CASE key = A -> IF shifted # capitals THEN "A" ELSE "a"
    [] key = Star -> IF shifted THEN "*" ELSE NoChar
    [] OTHER -> key_map[key]

(* Scope: after one of two shift keys came up, the driver converts as if   *)
(* none were down. The user types only what does not depend on shift then, *)
(* until a shift key goes down or repeats.                                 *)
TypeScope(key) == "SHIFT" \in lost => key \notin {A, Star}

TypeChar(key) ==
  /\ wire = <<>> /\ chars < MaxChars
  /\ TypeScope(key)
  /\ wire' = Bytes(key, key = Del) \o Bytes(key + Release, key = Del)
  /\ chars' = chars + 1
  /\ key \in RareKeys => rare < MaxRare
  /\ rare' = IF key \in RareKeys THEN rare + 1 ELSE rare
  /\ typed' = IF Meant(key) = NoChar THEN typed ELSE Append(typed, Meant(key))
  /\ UNCHANGED <<kbd_status, rebooted, held, lost, capitals, metas>>

(* A meta or lock key goes down, or repeats while it is held. Every repeat *)
(* of caps lock switches its lamp.                                         *)
MetaDown(key) ==
  /\ wire = <<>> /\ metas < MaxMetas
  /\ wire' = Bytes(key[1], key[2])
  /\ metas' = metas + 1
  /\ held' = held \cup {key}
  /\ lost' = lost \ {MetaFlag(key[1])}
  /\ capitals' = (capitals # (key[1] = RAW1_CAPS_LOCK))
  /\ UNCHANGED <<kbd_status, rebooted, typed, chars, rare>>

MetaUp(key) ==
  /\ wire = <<>> /\ key \in held
  /\ wire' = Bytes(key[1] + Release, key[2])
  /\ held' = held \ {key}
  /\ lost' = (lost \ {MetaFlag(key[1])}) \cup (HeldFlags(held') \cap {MetaFlag(key[1])})
  /\ UNCHANGED <<kbd_status, rebooted, capitals, typed, chars, rare, metas>>

UserTypes ==
  \/ \E key \in CharKeys : TypeChar(key)
  \/ \E key \in MetaKeys : MetaDown(key) \/ MetaUp(key)

(* In any order of presses and releases of left, right and extended keys:  *)
(* once no byte is on its way, the flags of the keys that must be held are *)
(* those of the keys that are held, but for one that was lost when only    *)
(* one of two keys of a kind came up. The machine reboots only with Ctrl   *)
(* and Alt held down.                                                      *)
NoStuckMeta ==
  /\ wire = <<>> => kbd_status \cap HoldFlags = (HeldFlags(held) \cap HoldFlags) \ lost
  /\ rebooted => {"ALT", "CTRL"} \subseteq HeldFlags(held)
=============================================================================
